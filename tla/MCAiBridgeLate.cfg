CONSTANTS
  RingCapacity = 19
  LineCapacity = 11
  MaxTasks = 3
  Prompts = {"text"}
  Replies <- Short
SPECIFICATION FairSpec
PROPERTY AnswerCompletes
CHECK_DEADLOCK FALSE
