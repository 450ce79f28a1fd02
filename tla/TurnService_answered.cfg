SPECIFICATION FairSpec
CONSTANTS
  s1 = s1
  s2 = s2
  r1 = r1
  r2 = r2
  r3 = r3
  m1 = m1
  m2 = m2
  Session = {s1}
  Request = {r1, r2, r3}
  Mode = {m1}
  None = None
  Kind = {"submit", "delete", "mode"}
  MaxFaults = 1
PROPERTIES
  RequestsAnswered
