SPECIFICATION Spec
CONSTANTS
  p1 = p1
  a1 = a1
  a2 = a2
  Plan = {p1}
  Action = {a1, a2}
  PlanOf <- OnePlan
  MaxTokens = 2
  Request = {r1, r2}
  Replica = {b1}
  Key = {k1}
  Faults = {}
  None = None
SYMMETRY Interchangeable
INVARIANTS ExecutedUnderToken OnRecord
