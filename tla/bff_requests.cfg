SPECIFICATION Spec
CONSTANTS
  Tenant = {"t1", "t2"}
  NoTenant = "none"
  Call = {c1, c2}
  Replica = {b1, b2}
  Requests <- TwoTenants
  Faults = {"error", "restart"}
INVARIANTS TypeOK RetryNotExecuted ReplayIsOwnAnswer HaltHasAnEngager BffInv
PROPERTIES ResumedOnPurpose
SYMMETRY Symmetry
CHECK_DEADLOCK FALSE
