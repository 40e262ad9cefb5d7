SPECIFICATION FairSpec
CONSTANTS
  t1 = t1
  t2 = t2
  e1 = e1
  e2 = e2
  e3 = e3
  Tenant = {t1, t2}
  Client = {c1, c2}
  Content = {e1, e2, e3}
  Joined <- TwoAlike
  MaxEntries <- LongAndShort
  Faults = {"error"}
  None = None
INVARIANTS ChainIntact TipFollowsLog LedgerInv WaitsEnd
PROPERTIES TamperEvident EveryAppendEnds ImplementsAppendOnlyLog
\* Both chains at the bound MaxEntries and no append in progress: nothing is left to do.
CHECK_DEADLOCK FALSE
