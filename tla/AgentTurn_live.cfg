SPECIFICATION FairSpec
CONSTANTS
  c1 = c1
  c2 = c2
  o1 = o1
  o2 = o2
  Call = {c1, c2}
  NoCall = NoCall
  Op = {o1}
  NoOp = NoOp
  Reply <- ShortReplies
  Verdict = {"ask", "allow"}
  ContextResult = {"fits"}
  MaxSteps = 2
  RepeatLimit = 2
  MaxTurns = 1
  FaultKind = {"lost", "unreadable", "thrown"}
  MaxFaults = 2
  MaxCrashes = 0
  MaxWrites = 1
  MaxResumes = 0
  FixedTokens = 2
  GoalTokens = 1
  TextTokens = 1
  ReasoningTokens = 1
  CallTokens = 1
  ResultTokens = 2
  LineTokens = 1
  MarkerTokens = 1
  Budgets = {2, 4, 5, 7, 9, 30}
INVARIANTS
  LogOrdered
PROPERTIES
  CancelEndsTurn
  TurnSettles
