SPECIFICATION Spec
CONSTANTS
  Answer <- Answers
INVARIANTS OneAnswerIsHeard 
PROPERTIES CancelEndsRequest
CHECK_DEADLOCK FALSE
