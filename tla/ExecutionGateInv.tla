---------------------------- MODULE ExecutionGateInv ----------------------------
(***************************************************************************)
(* The inductive invariant of ExecutionGate: what the safety properties    *)
(* need to know about the locals of handlers suspended at an await.        *)
(***************************************************************************)
EXTENDS ExecutionGate

ApproveWithToken == {"approve_mark", "approve_status", "approve_ledger"}
ExecuteSteps == {"execute_token", "execute_check", "execute_consume",
                 "execute_mark", "execute_ledger", "execute_dispatch"}

\* A registered token belongs to a plan and covers ready actions of it.
ScopeInv ==
  \A t \in Token : ~Unused(t) =>
    /\ tokens[t].plan \in Plan
    /\ Eligible(tokens[t].plan, tokens[t].acts)

\* A token is counted only once it is consumed, and then once.
UseInv ==
  \A t \in Token : /\ uses[t] <= 1
                   /\ uses[t] > 0 => tokens[t].status = "consumed"

\* What a handler remembers agrees with the tables.
HandlerGood(r) == LET h == handlers[r] IN
  /\ h.pc # "idle" => h.at \in Replica /\ h.plan \in Plan
  /\ h.pc = "approve_insert" => Eligible(h.plan, h.acts)
  /\ h.pc \in ApproveWithToken =>
       h.tok \in Token /\ ~Unused(h.tok) /\ tokens[h.tok].plan = h.plan /\ tokens[h.tok].acts = h.acts
  /\ h.pc \in {"approve_status", "approve_ledger"} => \A a \in h.acts : actions[a].tok # NoToken
  /\ h.pc \in ExecuteSteps =>
       h.tok \in Token /\ ~Unused(h.tok) /\ tokens[h.tok].plan = h.plan
  /\ h.pc \in ExecuteSteps \ {"execute_dispatch"} => h.ok \subseteq tokens[h.tok].acts
  /\ h.pc \in {"execute_consume", "execute_mark"} => h.ok # {}
  /\ h.pc = "execute_ledger" /\ h.ok # {} => uses[h.tok] > 0
HandlerInv == \A r \in Request : HandlerGood(r)

\* The handler between the consumption of a token and the update of the
\* actions is the only one there, and no execution is recorded yet.
MarkerInv ==
  \A r \in Request : At(r, "execute_mark") =>
    /\ tokens[handlers[r].tok].status = "consumed"
    /\ uses[handlers[r].tok] = 0
    /\ \A s \in Request : At(s, "execute_mark") /\ handlers[s].tok = handlers[r].tok => s = r

\* The inductive invariant.
GateInv ==
  /\ TypeOK
  /\ ScopeInv
  /\ UseInv
  /\ HandlerInv
  /\ MarkerInv
  /\ ApprovedByToken
  /\ ExecutedUnderToken
  /\ LedgerNotAhead

=============================================================================
