SPECIFICATION Spec
CONSTANTS
  Kinds = {"env", "pty", "agent", "startup"}
  QueueSizes = {1}
  Agent = TRUE
  MaxCalls = 3
  MaxBlock = 1
  MaxAbandon = 1
  MaxServer = 2
  MaxEvents = 3
INVARIANTS Inv OwnAnswers NoStrayChannel AskedOnceAndAnswered
CHECK_DEADLOCK FALSE
