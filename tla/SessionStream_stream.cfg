SPECIFICATION Spec
CONSTANTS
  s1 = s1
  s2 = s2
  c1 = c1
  c2 = c2
  c3 = c3
  l1 = l1
  l2 = l2
  None = None
  Session = {s1, s2}
  Conn = {c1, c2, c3}
  Load = {l1, l2}
  MaxSeq = 5
  Page = 2
  MaxSelects = 2
  MaxFaults = 1
CHECK_DEADLOCK FALSE
SYMMETRY Symmetry
INVARIANTS
  
  LeaseIsServed
  
