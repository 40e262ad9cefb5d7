SPECIFICATION Spec
CONSTANTS
  p1 = p1
  a1 = a1
  a2 = a2
  Plan = {p1}
  Action = {a1, a2}
  PlanOf <- OnePlan
  MaxTokens = 1
  Request = {r1}
  Replica = {b1}
  Key = {k1}
  Faults = {}
  None = None
PROPERTY InFlightHalted
