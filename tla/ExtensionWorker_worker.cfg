SPECIFICATION FairWorkerSpec
CONSTANTS
  c1 = c1
  c2 = c2
  Call = {c1, c2}
  Body = {"completed", "tool_execution", "malformed"}
  MaxStray = 1
CHECK_DEADLOCK FALSE
PROPERTIES
  KeepsContract
  WorkerLetsGo
