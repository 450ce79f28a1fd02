SPECIFICATION FairSpec
CONSTANTS
  e1 = e1
  e2 = e2
  h1 = h1
  h2 = h2
  w1 = w1
  w2 = w2
  w3 = w3
  w4 = w4
  None = None
  Ext = {e1, e2}
  Hash = {h1, h2}
  Worker = {w1, w2}
  Tools <- ToolsOf
  Kinds = {"init", "install", "enable", "disable", "uninstall"}
  MaxRequests = 2
  MaxTurns = 2
  MaxFaults = 1
CHECK_DEADLOCK FALSE
INVARIANTS
  
  ToolsServed
PROPERTIES
  OperationsEnd
