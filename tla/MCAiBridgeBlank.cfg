CONSTANTS
  RingCapacity = 19
  LineCapacity = 11
  MaxTasks = 1
  Prompts = {"text", "blank"}
  Replies <- Short
SPECIFICATION FairSpec
PROPERTY AnswerCompletes
CHECK_DEADLOCK FALSE
