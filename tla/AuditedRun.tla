------------------------------- MODULE AuditedRun -------------------------------
(***************************************************************************)
(* What the audit trail promises of an agent's run, without processes,     *)
(* replies or failures: nothing is performed before the run is on record,  *)
(* a run is concluded at most once, as a success only after it was         *)
(* performed, and nothing is performed afterwards.                         *)
(***************************************************************************)
CONSTANT Run

VARIABLES
  recorded,   \* the runs whose start is on record
  performed,  \* the runs whose agent has done its work
  outcome     \* of each run, the conclusion on record

vars == <<recorded, performed, outcome>>

Init ==
  /\ recorded = {}
  /\ performed = {}
  /\ outcome = [r \in Run |-> "none"]

Record(r) ==
  /\ recorded' = recorded \union {r}
  /\ UNCHANGED <<performed, outcome>>

Perform(r) ==
  /\ r \in recorded
  /\ outcome[r] = "none"
  /\ performed' = performed \union {r}
  /\ UNCHANGED <<recorded, outcome>>

Conclude(r, o) ==
  /\ r \in recorded
  /\ outcome[r] = "none"
  /\ o = "success" => r \in performed
  /\ outcome' = [outcome EXCEPT ![r] = o]
  /\ UNCHANGED <<recorded, performed>>

Next ==
  \E r \in Run : \/ Record(r) \/ Perform(r)
                 \/ \E o \in {"success", "failure"} : Conclude(r, o)

Spec == Init /\ [][Next]_vars
=============================================================================
