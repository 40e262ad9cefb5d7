SPECIFICATION FairSpec
CONSTANTS
  Run = {r1, r2}
  Faults = {"error", "lost_reply", "disconnect", "bff_restart", "runtime_restart"}
INVARIANTS TypeOK OneStory RowTellsTruth RunInv
PROPERTIES EveryRequestAnswered ImplementsAuditedRun
\* Every request of the instance is answered or died with its BFF.
CHECK_DEADLOCK FALSE
