SPECIFICATION Spec
CONSTANTS
  d1 = d1
  d2 = d2
  r1 = r1
  r2 = r2
  u1 = u1
  m1 = m1
  Delivery = {d1, d2}
  Wizard = wizard
  RequestId = {r1, r2}
  Url = {u1}
  Model = {m1}
  Draft <- Drafts
  MaxDeliveries = 2
  MaxWizards = 1
  MaxRefusals = 1
  MaxFails = 1
  MaxCrashes = 1
SYMMETRY Symmetry
INVARIANTS OncePerRequest  LockServes
PROPERTIES ConfigSurvives
CHECK_DEADLOCK FALSE
