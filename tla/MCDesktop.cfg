CONSTANTS
  MaxTasks = 3
  AnswerLengths <- Lengths
  SecretCapacity = 3
  MinimumKeyLength = 2
  DraftCapacity = 4
  Paths <- ShortPaths
  PromptCapacity = 2
  LineCapacity = 3
  Columns = 3
  Rows = 2
  PromptLength = 1
  HeadingRow = 0
  Outputs = {0, 1}
SPECIFICATION Spec
INVARIANTS TypeOK NoKeyLeftBehind PromptIsAlone AnswerInDraft LineIsShown
PROPERTIES TypedTextIsNotACommand ClickIsDownThenUp WritesStayInWorkspace
CHECK_DEADLOCK FALSE
