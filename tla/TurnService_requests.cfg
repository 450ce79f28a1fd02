SPECIFICATION Spec
CONSTANTS
  s1 = s1
  s2 = s2
  r1 = r1
  r2 = r2
  r3 = r3
  m1 = m1
  m2 = m2
  Session = {s1, s2}
  Request = {r1, r2, r3}
  Mode = {m1, m2}
  None = None
  Kind = {"submit", "delete", "cancel", "answer", "mode"}
  MaxFaults = 1
SYMMETRY Symmetry
INVARIANTS
  OneTurnAtATime
  SnapshotIsTrue
  AnswerOnFileWasGiven
  
  DeletedStaysDeleted
PROPERTIES
  DeleteWaitsForTurn
