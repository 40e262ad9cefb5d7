----------------------------- MODULE AppendOnlyLog -----------------------------
(***************************************************************************)
(* What the audit ledger promises: one hash-chained log per tenant, to     *)
(* which whole entries are appended one at a time, each numbered one more  *)
(* than the entry before it and carrying that entry's hash.                *)
(***************************************************************************)
EXTENDS Naturals, Sequences

CONSTANTS
  Tenant,
  Content,  \* what an entry says
  Joined    \* of each entry, the text of it that is hashed

VARIABLE log   \* of each tenant: its rows, oldest first

\* A hash is known by what it covers: the numbers and texts of the chain so
\* far.  The empty one stands for the null before the first entry.
NoHash == <<>>
LastHash(L) == IF L = <<>> THEN NoHash ELSE L[Len(L)].hash

Row(seq, entry, prev) ==
  [seq |-> seq, entry |-> entry, prev |-> prev, hash |-> Append(prev, <<seq, Joined[entry]>>)]

Init == log = [t \in Tenant |-> <<>>]

AppendEntry(t, e) ==
  log' = [log EXCEPT ![t] = Append(@, Row(Len(@) + 1, e, LastHash(@)))]

Next == \E t \in Tenant, e \in Content : AppendEntry(t, e)

Spec == Init /\ [][Next]_log
=============================================================================
