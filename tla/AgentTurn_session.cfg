SPECIFICATION Spec
CONSTANTS
  c1 = c1
  c2 = c2
  o1 = o1
  o2 = o2
  Call = {c1, c2}
  NoCall = NoCall
  Op = {o1}
  NoOp = NoOp
  Reply <- ShortReplies
  Verdict = {"ask"}
  ContextResult = {"fits"}
  MaxSteps = 2
  RepeatLimit = 3
  MaxTurns = 2
  FaultKind = {"lost", "ambiguous"}
  MaxFaults = 1
  MaxCrashes = 1
  MaxWrites = 0
  MaxResumes = 1
  FixedTokens = 2
  GoalTokens = 1
  TextTokens = 1
  ReasoningTokens = 1
  CallTokens = 1
  ResultTokens = 2
  LineTokens = 1
  MarkerTokens = 1
  Budgets = {2, 5, 7, 9}
SYMMETRY CallSymmetry
INVARIANTS
  EffectsAreOnFile
  ResumeCloses
  ContextIsSound
PROPERTIES
  ImplementsLedger
