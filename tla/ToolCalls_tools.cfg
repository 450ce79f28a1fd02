SPECIFICATION Spec
CONSTANTS
  Inside = {"a", "b"}
  InGit = {"g"}
  Outside = {"o"}
  Text <- Texts
  Call <- Calls
  MaxEntries = 3
  MaxOutput = 1
  MaxCalls = 2
  MaxMeddling = 1
INVARIANTS  ToolsStayInside ResultsAreTrue
PROPERTIES CommandEnds
CHECK_DEADLOCK FALSE
