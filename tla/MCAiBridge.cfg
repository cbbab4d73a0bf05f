\* Four requests: a late answer cut off in the ring, read together with the next
\* one, makes a line that does not fit in the line buffer.
CONSTANTS
  RingCapacity = 23
  LineCapacity = 13
  MaxTasks = 4
  Prompts = {"text"}
  Replies <- LongAndShort
SPECIFICATION FairSpec
INVARIANTS TypeOK DoneIsOwnAnswer AnswerIsExact
PROPERTIES UndroppedAnswerCompletes ImplementsRequest
CHECK_DEADLOCK FALSE
