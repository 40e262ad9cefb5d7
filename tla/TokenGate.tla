------------------------------- MODULE TokenGate -------------------------------
(***************************************************************************)
(* What the execution gate promises of approval tokens, without handlers,  *)
(* replicas or failures: a token is issued once for a set of actions, is   *)
(* spent once, and once spent may start one batch of actions of its scope, *)
(* at most once.  Nothing else starts an action.                           *)
(***************************************************************************)
CONSTANTS Action, Token

VARIABLES
  state,    \* of each token: "none", "issued", "spent", "used"
  scope,    \* of each token: the actions the approver named
  started   \* the actions whose execution has started

vars == <<state, scope, started>>

TypeOK ==
  /\ state \in [Token -> {"none", "issued", "spent", "used"}]
  /\ scope \in [Token -> SUBSET Action]
  /\ started \subseteq Action

Init ==
  /\ state = [t \in Token |-> "none"]
  /\ scope = [t \in Token |-> {}]
  /\ started = {}

Issue(t, S) ==
  /\ state[t] = "none"
  /\ state' = [state EXCEPT ![t] = "issued"]
  /\ scope' = [scope EXCEPT ![t] = S]
  /\ UNCHANGED started

Spend(t) ==
  /\ state[t] = "issued"
  /\ state' = [state EXCEPT ![t] = "spent"]
  /\ UNCHANGED <<scope, started>>

\* A spent token may also never be used: its holder failed in between.
Use(t, S) ==
  /\ state[t] = "spent"
  /\ S \subseteq scope[t]
  /\ state' = [state EXCEPT ![t] = "used"]
  /\ started' = started \union S
  /\ UNCHANGED scope

Next == \E t \in Token, S \in SUBSET Action : Issue(t, S) \/ Spend(t) \/ Use(t, S)

Spec == Init /\ [][Next]_vars
=============================================================================
