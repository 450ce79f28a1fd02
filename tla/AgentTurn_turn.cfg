SPECIFICATION Spec
CONSTANTS
  c1 = c1
  c2 = c2
  o1 = o1
  o2 = o2
  Call = {c1, c2}
  NoCall = NoCall
  Op = {o1, o2}
  NoOp = NoOp
  Reply <- AllReplies
  Verdict = {"invalid", "throws", "deny", "allow", "ask"}
  ContextResult = {"fits", "exceeds", "invalid"}
  MaxSteps = 2
  RepeatLimit = 3
  MaxTurns = 1
  FaultKind = {"lost", "ambiguous", "thrown"}
  MaxFaults = 1
  MaxCrashes = 0
  MaxWrites = 0
  MaxResumes = 0
  FixedTokens = 2
  GoalTokens = 1
  TextTokens = 1
  ReasoningTokens = 1
  CallTokens = 1
  ResultTokens = 2
  LineTokens = 1
  MarkerTokens = 1
  Budgets = {2, 4, 5, 7, 9, 30}
INVARIANTS
  OneTerminalPerCall
  TurnEndsClean
  
  ReadersSeeTheLog
