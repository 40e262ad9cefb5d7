----------------------------- MODULE MCAuditLedger -----------------------------
(* Small instances of AuditLedger. *)
EXTENDS AuditLedger, TLC

CONSTANTS t1, t2, e1, e2, e3

\* Of three entries two are joined to the same text.
TwoAlike == e1 :> e1 @@ e2 :> e2 @@ e3 :> e2

\* One tenant's chain grows to three rows, the other's to one.
LongAndShort == t1 :> 3 @@ t2 :> 1
=============================================================================
