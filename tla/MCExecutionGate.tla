--------------------------- MODULE MCExecutionGate ---------------------------
(* Small instances of ExecutionGate. *)
EXTENDS ExecutionGateInv, TLC

CONSTANTS p1, a1, a2

\* Both actions belong to one plan.
OnePlan == a1 :> p1 @@ a2 :> p1
OneAction == a1 :> p1

\* Sound for an instance whose PlanOf maps every action to one plan.
Interchangeable ==
  Permutations(Request) \union Permutations(Replica) \union Permutations(Action)
  \union Permutations(Key)
=============================================================================
