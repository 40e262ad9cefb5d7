SPECIFICATION Spec
CONSTANTS
  Run = {r1}
  Faults = {"error"}
INVARIANT SucceededIsRecorded
CHECK_DEADLOCK FALSE
