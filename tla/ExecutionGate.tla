----------------------------- MODULE ExecutionGate -----------------------------
(***************************************************************************)
(* The BFF's execution gate: the three handlers of                         *)
(* services/bff/src/routes/v1.ts that approve, reject and execute a        *)
(* remediation plan, running concurrently on several BFF replicas over the *)
(* tables remediation_plans, remediation_actions and approval_tokens of    *)
(* one tenant.                                                             *)
(*                                                                         *)
(* A handler is a sequence of awaited database calls.  Every await ends an *)
(* action of this module, so calls of other handlers interleave with it;   *)
(* its local variables survive in a record of `handlers'.                  *)
(***************************************************************************)
EXTENDS Naturals, FiniteSets

CONSTANTS
  Plan,        \* remediation_plans.id
  Action,      \* remediation_actions.id
  PlanOf,      \* remediation_actions.plan_id, which never changes
  MaxTokens,   \* bound: rows that approval_tokens may come to hold
  Request,     \* slots for requests in flight at the same time
  Replica,     \* BFF processes
  Key,         \* Idempotency-Key headers the clients send
  Faults,      \* the failures explored, a subset of FaultKinds
  None

\* A call may fail before it took effect, or its effect may be committed and
\* the reply lost; a replica may stop and be started again.
FaultKinds == {"error", "lost_reply", "restart"}

ASSUME GateAssumption ==
  /\ PlanOf \in [Action -> Plan]
  /\ MaxTokens \in Nat
  /\ Faults \subseteq FaultKinds
  /\ None \notin Plan \union Replica \union Key

\* approval_tokens.id, numbered in the order of insertion; 0 is SQL's null.
Token == 1 .. MaxTokens
NoToken == 0

VARIABLES
  plans,     \* remediation_plans.status
  actions,   \* remediation_actions, the columns the gate reads or writes
  tokens,    \* approval_tokens
  ledger,    \* the entries the handlers have appended
  bff,       \* the process-local state of each replica
  handlers,  \* the local state of each request in flight
  uses       \* history: executions recorded under each token

vars == <<plans, actions, tokens, ledger, bff, handlers, uses>>

PlanStatus == {"review", "approved", "cancelled", "completed"}

ActionRow ==
  [ approval : {"awaiting_approval", "approved", "skipped"},
    exec     : {"draft", "executing"},
    ready    : BOOLEAN,  \* dry_run_status = 'dry_run_complete' /\ rollback_validated
    tok      : Token \union {NoToken},
    key      : Key \union {None} ]

\* "none" is a row not inserted yet.
TokenRow ==
  [ status : {"none", "issued", "consumed"},
    plan   : Plan \union {None},
    acts   : SUBSET Action ]

\* `tok' is history where the type is execution.started: the token the execution
\* was recorded under, NoToken if no action was accepted.  The code's entry
\* carries the id of the execution instead.
Entry ==
  [ type   : {"approval.token.issued", "approval.token.invalid", "execution.started"},
    plan   : Plan,
    tok    : Token \union {NoToken},
    result : {"success", "skipped"} ]

Steps ==
  { "idle", "approve_plan", "approve_actions", "approve_insert", "approve_mark",
    "approve_status", "approve_ledger", "reject_plan", "reject_actions",
    "reject_ledger", "execute_token", "execute_check", "execute_consume",
    "execute_mark", "execute_ledger", "execute_dispatch" }

Handler ==
  [ pc   : Steps,
    at   : Replica \union {None},
    plan : Plan \union {None},
    acts : SUBSET Action,             \* actionIds of the request body
    tok  : Token \union {NoToken},    \* the token issued or presented
    todo : SUBSET Action,             \* actions the per-action loop has not reached
    ok   : SUBSET Action,             \* `accepted'
    key  : Key \union {None} ]

Process == [ killed : BOOLEAN, used : SUBSET Token ]

\* Types of the state.
TypeOK ==
  /\ plans \in [Plan -> PlanStatus]
  /\ actions \in [Action -> ActionRow]
  /\ tokens \in [Token -> TokenRow]
  /\ ledger \subseteq Entry
  /\ bff \in [Replica -> Process]
  /\ handlers \in [Request -> Handler]
  /\ uses \in [Token -> Nat]

-----------------------------------------------------------------------------

Idle == [ pc |-> "idle", at |-> None, plan |-> None, acts |-> {}, tok |-> NoToken,
          todo |-> {}, ok |-> {}, key |-> None ]

FreshProcess == [ killed |-> FALSE, used |-> {} ]

\* Rows as the planning side leaves them: nothing in the repository writes
\* `ready' after the insert, and a plan may already be closed.
Init ==
  /\ plans \in [Plan -> {"review", "completed"}]
  /\ \E ready \in [Action -> BOOLEAN] :
       actions = [a \in Action |-> [ approval |-> "awaiting_approval", exec |-> "draft",
                                     ready |-> ready[a], tok |-> NoToken, key |-> None ]]
  /\ tokens = [t \in Token |-> [ status |-> "none", plan |-> None, acts |-> {} ]]
  /\ ledger = {}
  /\ bff = [b \in Replica |-> FreshProcess]
  /\ handlers = [r \in Request |-> Idle]
  /\ uses = [t \in Token |-> 0]

At(r, pc) == handlers[r].pc = pc
Goto(r, pc) == handlers' = [handlers EXCEPT ![r].pc = pc]
\* The handler returns its response, whatever the status code.
Return(r) == handlers' = [handlers EXCEPT ![r] = Idle]

CallFails == "error" \in Faults
ReplyLost == "lost_reply" \in Faults

\* `await deps.ledger.append(...)': append_ledger is one transaction; a
\* failure throws out of the handler.
Append(type, p, t, result) ==
  \/ ledger' = ledger \union {[type |-> type, plan |-> p, tok |-> t, result |-> result]}
  \/ CallFails /\ UNCHANGED ledger

-----------------------------------------------------------------------------
(* POST /v1/plans/approve *)

\* The kill switch is read once, before the first await.  A caller who is not
\* owner, admin or approver is refused there too, and so never seen here.
StartApprove(r, b, p, A) ==
  /\ At(r, "idle")
  /\ ~bff[b].killed
  /\ handlers' = [handlers EXCEPT ![r] =
       [Idle EXCEPT !.pc = "approve_plan", !.at = b, !.plan = p, !.acts = A]]
  /\ UNCHANGED <<plans, actions, tokens, ledger, bff, uses>>

Approvable == {"draft", "review", "approved", "cancelled"}

ApproveReadPlan(r) ==
  /\ At(r, "approve_plan")
  /\ \/ plans[handlers[r].plan] \in Approvable /\ Goto(r, "approve_actions")
     \/ plans[handlers[r].plan] \notin Approvable /\ Return(r)
     \/ CallFails /\ Return(r)
  /\ UNCHANGED <<plans, actions, tokens, ledger, bff, uses>>

\* Every action requested must be found in the plan, dry-run and roll-back
\* checked.  A dry-run past its expiry also refuses the request, at any time.
Eligible(p, A) == \A a \in A : PlanOf[a] = p /\ actions[a].ready

ApproveCheckActions(r) ==
  /\ At(r, "approve_actions")
  /\ \/ /\ Eligible(handlers[r].plan, handlers[r].acts)
        /\ Goto(r, "approve_insert")
     \/ Return(r)
  /\ UNCHANGED <<plans, actions, tokens, ledger, bff, uses>>

Unused(t) == tokens[t].status = "none"
NextToken(t) == Unused(t) /\ \A u \in Token : Unused(u) => t <= u

ApproveInsertToken(r) ==
  /\ At(r, "approve_insert")
  /\ \/ \E t \in Token :
          /\ NextToken(t)
          /\ tokens' = [tokens EXCEPT ![t] =
               [status |-> "issued", plan |-> handlers[r].plan, acts |-> handlers[r].acts]]
          /\ \/ handlers' = [handlers EXCEPT ![r] = [@ EXCEPT !.pc = "approve_mark", !.tok = t]]
             \/ ReplyLost /\ Return(r)
     \/ CallFails /\ Return(r) /\ UNCHANGED tokens
     \/ (\A t \in Token : ~Unused(t)) /\ Return(r) /\ UNCHANGED tokens   \* the bound MaxTokens
  /\ UNCHANGED <<plans, actions, ledger, bff, uses>>

\* The rows the update matches, whatever approval_status they have by now.
MarkedWholePlan(h) == {a \in Action : PlanOf[a] = h.plan}   \* mutant: no .in('id', ...)
Marked(h) == {a \in h.acts : PlanOf[a] = h.plan}

ApproveMarkActions(r) ==
  /\ At(r, "approve_mark")
  /\ LET h == handlers[r]
     IN \/ /\ actions' = [a \in Action |->
                IF a \in Marked(h)
                  THEN [actions[a] EXCEPT !.approval = "approved", !.tok = h.tok]
                  ELSE actions[a]]
           /\ Goto(r, "approve_status") \/ (ReplyLost /\ Return(r))
        \/ CallFails /\ Return(r) /\ UNCHANGED actions
  /\ UNCHANGED <<plans, tokens, ledger, bff, uses>>

\* The result of this update is not looked at.
ApproveMarkPlan(r) ==
  /\ At(r, "approve_status")
  /\ \/ plans' = [plans EXCEPT ![handlers[r].plan] = "approved"]
     \/ CallFails /\ UNCHANGED plans
  /\ Goto(r, "approve_ledger")
  /\ UNCHANGED <<actions, tokens, ledger, bff, uses>>

ApproveLedger(r) ==
  /\ At(r, "approve_ledger")
  /\ Append("approval.token.issued", handlers[r].plan, handlers[r].tok, "success")
  /\ Return(r)
  /\ UNCHANGED <<plans, actions, tokens, bff, uses>>

(* POST /v1/plans/:id/reject *)

\* As approve: the roles are checked before the first await.
StartReject(r, b, p) ==
  /\ At(r, "idle")
  /\ ~bff[b].killed
  /\ handlers' = [handlers EXCEPT ![r] =
       [Idle EXCEPT !.pc = "reject_plan", !.at = b, !.plan = p]]
  /\ UNCHANGED <<plans, actions, tokens, ledger, bff, uses>>

\* Whatever the plan's status was.
RejectPlan(r) ==
  /\ At(r, "reject_plan")
  /\ \/ /\ plans' = [plans EXCEPT ![handlers[r].plan] = "cancelled"]
        /\ Goto(r, "reject_actions") \/ (ReplyLost /\ Return(r))
     \/ CallFails /\ Return(r) /\ UNCHANGED plans
  /\ UNCHANGED <<actions, tokens, ledger, bff, uses>>

\* The approval_status the update filters on: draft, awaiting_approval, approved.
Rejectable(a) == actions[a].approval \in {"awaiting_approval", "approved"}

\* The result of this update is not looked at; approval_tokens is not touched.
RejectActions(r) ==
  /\ At(r, "reject_actions")
  /\ \/ actions' = [a \in Action |->
          IF PlanOf[a] = handlers[r].plan /\ Rejectable(a)
            THEN [actions[a] EXCEPT !.approval = "skipped"] ELSE actions[a]]
     \/ CallFails /\ UNCHANGED actions
  /\ Goto(r, "reject_ledger")
  /\ UNCHANGED <<plans, tokens, ledger, bff, uses>>

RejectLedger(r) ==
  /\ At(r, "reject_ledger")
  /\ Append("approval.token.invalid", handlers[r].plan, NoToken, "success")
  /\ Return(r)
  /\ UNCHANGED <<plans, actions, tokens, bff, uses>>

(* POST /v1/plans/:id/execute *)

\* The signature admits only tokens this BFF signed; one reaches a client in
\* approve's response or from the plan page, so any row inserted may come
\* back.  A request that fails the checks before the first await (expiry,
\* nonce cache, plan of the token) leaves nothing behind and is not shown.
StartExecute(r, b, t, A, k) ==
  /\ At(r, "idle")
  /\ ~bff[b].killed
  /\ ~Unused(t)
  /\ t \notin bff[b].used
  /\ handlers' = [handlers EXCEPT ![r] =
       [Idle EXCEPT !.pc = "execute_token", !.at = b, !.plan = tokens[t].plan,
                    !.acts = A, !.tok = t, !.key = k]]
  /\ UNCHANGED <<plans, actions, tokens, ledger, bff, uses>>

ExecuteReadToken(r) ==
  /\ At(r, "execute_token")
  /\ LET h == handlers[r]
     IN \/ /\ tokens[h.tok].status = "issued"
           /\ handlers' = [handlers EXCEPT ![r] = [h EXCEPT !.pc = "execute_check", !.todo = h.acts]]
        \/ tokens[h.tok].status # "issued" /\ Return(r)
        \/ CallFails /\ Return(r)
  /\ UNCHANGED <<plans, actions, tokens, ledger, bff, uses>>

\* isActionCovered, then the row: an action passes when the token names it
\* and its row is of this plan, approved and ready.
AcceptableUncovered(h, a) ==   \* mutant: no isActionCovered
  PlanOf[a] = h.plan /\ actions[a].approval = "approved" /\ actions[a].ready
Acceptable(h, a) ==
  /\ a \in tokens[h.tok].acts
  /\ PlanOf[a] = h.plan
  /\ actions[a].approval = "approved"
  /\ actions[a].ready

\* After the last turn of the loop the token is consumed, unless no action
\* was accepted.
AfterCheckLogsFirst(todo, ok) ==   \* mutant: the entry is written first
  IF todo # {} THEN "execute_check" ELSE "execute_ledger"
AfterCheck(todo, ok) ==
  IF todo # {} THEN "execute_check"
  ELSE IF ok # {} THEN "execute_consume" ELSE "execute_ledger"

\* One turn of the loop over input.actionIds.  A failed read counts as an
\* action not found.
ExecuteCheckAction(r, a) ==
  /\ At(r, "execute_check")
  /\ a \in handlers[r].todo
  /\ \E accepted \in {ok \in BOOLEAN : IF ok THEN Acceptable(handlers[r], a)
                                             ELSE CallFails \/ ~Acceptable(handlers[r], a)} :
       LET todo == handlers[r].todo \ {a}
           ok == IF accepted THEN handlers[r].ok \union {a} ELSE handlers[r].ok
       IN handlers' = [handlers EXCEPT ![r] =
            [@ EXCEPT !.pc = AfterCheck(todo, ok), !.todo = todo, !.ok = ok]]
  /\ UNCHANGED <<plans, actions, tokens, ledger, bff, uses>>

\* UPDATE approval_tokens ... WHERE status = 'issued': one row or none.
ConsumableTwice(t) == ~Unused(t)   \* mutant: no .eq('status', 'issued')
Consumable(t) == tokens[t].status = "issued"


ExecuteConsume(r) ==
  /\ At(r, "execute_consume")
  /\ LET t == handlers[r].tok
     IN \/ /\ Consumable(t)
           /\ tokens' = [tokens EXCEPT ![t].status = "consumed"]
           /\ Goto(r, "execute_mark") \/ (ReplyLost /\ Return(r))
        \/ ~Consumable(t) /\ Return(r) /\ UNCHANGED tokens
        \/ CallFails /\ Return(r) /\ UNCHANGED tokens
  /\ UNCHANGED <<plans, actions, ledger, bff, uses>>

\* remediation_actions.idempotency_key is UNIQUE: the one update may not give
\* the key of the request to two rows, nor to a row while another holds it.

KeyConflict(A, k) ==
  \/ \E a, b \in A : a # b
  \/ \E a \in Action \ A : actions[a].key = k

\* The token has been consumed and stays so.
MarkFailedReissues(r) ==   \* mutant: the token is handed back
  /\ Return(r)
  /\ tokens' = [tokens EXCEPT ![handlers[r].tok].status = "issued"]
  /\ UNCHANGED <<actions, uses>>
MarkFailedIgnored(r) ==    \* mutant: executionUpdateErr is not looked at
  Goto(r, "execute_ledger") /\ UNCHANGED <<actions, tokens, uses>>
MarkFailed(r) == Return(r) /\ UNCHANGED <<actions, tokens, uses>>

\* The entry comes after the update, and before the dispatch.
AfterMarkDispatches == "execute_dispatch"   \* mutant: no entry for an execution
AfterMark == "execute_ledger"

ExecuteMarkActions(r) ==
  /\ At(r, "execute_mark")
  /\ LET h == handlers[r]
     IN \/ /\ ~KeyConflict(h.ok, h.key)
           /\ actions' = [a \in Action |->
                IF a \in h.ok THEN [actions[a] EXCEPT !.exec = "executing", !.key = h.key]
                              ELSE actions[a]]
           /\ uses' = [uses EXCEPT ![h.tok] = @ + 1]
           /\ Goto(r, AfterMark) \/ (ReplyLost /\ Return(r))
           /\ UNCHANGED tokens
        \/ (KeyConflict(h.ok, h.key) \/ CallFails) /\ MarkFailed(r)
  /\ UNCHANGED <<plans, ledger, bff>>

\* The entry is appended whether or not an action was accepted.
ExecuteLedger(r) ==
  /\ At(r, "execute_ledger")
  /\ LET h == handlers[r]
         entry == [type |-> "execution.started", plan |-> h.plan,
                   tok |-> IF h.ok = {} THEN NoToken ELSE h.tok,
                   result |-> IF h.ok = h.acts THEN "success" ELSE "skipped"]
     IN \/ ledger' = ledger \union {entry} /\ Goto(r, "execute_dispatch")
        \/ ReplyLost /\ ledger' = ledger \union {entry} /\ Return(r)
        \/ CallFails /\ UNCHANGED ledger /\ Return(r)
  /\ UNCHANGED <<plans, actions, tokens, bff, uses>>

\* The call to the agent runtime, whose answer is ignored, then
\* markNonceUsed and the response.
ExecuteDispatch(r) ==
  /\ At(r, "execute_dispatch")
  /\ bff' = [bff EXCEPT ![handlers[r].at].used = @ \union {handlers[r].tok}]
  /\ Return(r)
  /\ UNCHANGED <<plans, actions, tokens, ledger, uses>>

-----------------------------------------------------------------------------
(* The flag of the kill switch, as the gate of this tenant sees it, and the   *)
(* life of a replica.                                                         *)

EngageKillSwitch(b) ==
  /\ bff' = [bff EXCEPT ![b].killed = TRUE]
  /\ UNCHANGED <<plans, actions, tokens, ledger, handlers, uses>>

ReleaseKillSwitch(b) ==
  /\ bff' = [bff EXCEPT ![b].killed = FALSE]
  /\ UNCHANGED <<plans, actions, tokens, ledger, handlers, uses>>

\* Everything process-local is lost, the requests in flight with it.
RestartReplica(b) ==
  /\ "restart" \in Faults
  /\ bff' = [bff EXCEPT ![b] = FreshProcess]
  /\ handlers' = [r \in Request |-> IF handlers[r].at = b THEN Idle ELSE handlers[r]]
  /\ UNCHANGED <<plans, actions, tokens, ledger, uses>>

-----------------------------------------------------------------------------

Start(r) ==
  \E b \in Replica :
    \/ \E p \in Plan : StartReject(r, b, p)
    \/ \E A \in (SUBSET Action) \ {{}} :
         \/ \E p \in Plan : StartApprove(r, b, p, A)
         \/ \E t \in Token, k \in Key : StartExecute(r, b, t, A, k)

ApproveStep(r) ==
  \/ ApproveReadPlan(r) \/ ApproveCheckActions(r) \/ ApproveInsertToken(r)
  \/ ApproveMarkActions(r) \/ ApproveMarkPlan(r) \/ ApproveLedger(r)

RejectStep(r) == RejectPlan(r) \/ RejectActions(r) \/ RejectLedger(r)

ExecuteStep(r) ==
  \/ ExecuteReadToken(r)
  \/ \E a \in Action : ExecuteCheckAction(r, a)
  \/ ExecuteConsume(r) \/ ExecuteMarkActions(r) \/ ExecuteLedger(r) \/ ExecuteDispatch(r)

\* What an accepted request does on its own: the event loop resumes it after
\* each reply.
HandlerStep(r) == ApproveStep(r) \/ RejectStep(r) \/ ExecuteStep(r)

Operate(b) == EngageKillSwitch(b) \/ ReleaseKillSwitch(b) \/ RestartReplica(b)

Next ==
  \/ \E r \in Request : Start(r) \/ HandlerStep(r)
  \/ \E b \in Replica : Operate(b)

Spec == Init /\ [][Next]_vars

-----------------------------------------------------------------------------
(* Properties *)

\* A token records at most one execution, whatever requests present it on
\* whatever replicas, before or after a restart: the single-use gate of the
\* conditional update in the execute handler.
SingleUse == \A t \in Token : uses[t] <= 1

\* An action marked `executing' is in the scope of a token that approve issued
\* for its plan and that was consumed for an execution, and it had its dry-run
\* and its rollback validated: what the per-action loop is for.
ExecutedUnderToken ==
  \A a \in Action : actions[a].exec = "executing" =>
    /\ actions[a].ready
    /\ \E t \in Token : /\ tokens[t].status = "consumed"
                        /\ uses[t] > 0
                        /\ tokens[t].plan = PlanOf[a]
                        /\ a \in tokens[t].acts



\* An approved action points at a registered token whose scope names it,
\* though the row of the token and the rows of the actions are written by
\* separate calls of approve and the second may fail.
ApprovedByToken ==
  \A a \in Action : actions[a].approval = "approved" =>
    /\ actions[a].tok # NoToken
    /\ ~Unused(actions[a].tok)
    /\ a \in tokens[actions[a].tok].acts

\* The audit ledger never runs ahead of the tables: an issue is on record only
\* after the rows of its token and of its actions, an execution that accepted
\* an action only after the update that started it under the token presented.
LedgerNotAhead ==
  \A e \in ledger :
    /\ e.type = "approval.token.issued" =>
         /\ e.tok \in Token /\ ~Unused(e.tok)
         /\ \A a \in tokens[e.tok].acts : actions[a].tok # NoToken
    /\ e.type = "execution.started" /\ e.tok # NoToken =>
         e.tok \in Token /\ uses[e.tok] > 0

ApprovalOnRecord(a) ==
  \/ \E e \in ledger : e.type = "approval.token.issued" /\ e.tok = actions[a].tok
  \/ \E r \in Request : /\ handlers[r].pc \in {"approve_status", "approve_ledger"}
                        /\ handlers[r].tok = actions[a].tok

\* Of the execution under token t itself, and not of another of its plan.
StartOnRecord(t) ==
  \/ \E e \in ledger : e.type = "execution.started" /\ e.tok = t
  \/ \E r \in Request : /\ At(r, "execute_ledger")
                        /\ handlers[r].tok = t /\ handlers[r].ok # {}

\* Where nothing fails, every approval and every execution has an entry of its
\* own in the ledger or is about to, by a request that is still on its way,
\* however requests overlap ("Every action [...] is written to the append-only
\* [...] ledger", README.md:58).
OnRecord ==
  Faults = {} =>
    /\ \A a \in Action : actions[a].approval = "approved" => ApprovalOnRecord(a)
    /\ \A t \in Token : uses[t] > 0 => StartOnRecord(t)

\* A token goes from issued to consumed and never back, and its plan and
\* scope are frozen from the insert on, through failures and restarts.
TokenLifecycle ==
  [][\A t \in Token : ~Unused(t) =>
       /\ tokens'[t].plan = tokens[t].plan
       /\ tokens'[t].acts = tokens[t].acts
       /\ tokens[t].status = "consumed" => tokens'[t].status = "consumed"
       /\ tokens'[t].status # "none"]_tokens



\* The database comment on approval_tokens.status has it that a consumed token
\* was "used in a successful execution".  Once the handler that consumed it is
\* past the update of the actions, an execution should be on record.
ConsumedMeansUsed ==
  \A t \in Token :
    tokens[t].status = "consumed" /\ (\A r \in Request : ~At(r, "execute_mark") \/ handlers[r].tok # t)
      => uses[t] > 0

\* The plan says execute "Executes only approved actions" (FR-8.1): an action
\* that starts executing is approved at that moment, and not rejected since it
\* was checked.
OnlyApprovedStart ==
  [][\A a \in Action :
       actions[a].exec # "executing" /\ actions'[a].exec = "executing"
         => actions[a].approval = "approved"]_actions

\* The kill switch "halts all in-flight execution immediately": while it is
\* engaged on a replica, no handler of that replica starts actions.
InFlightHalted ==
  [][\A r \in Request :
       At(r, "execute_mark") /\ bff[handlers[r].at].killed
         => uses'[handlers[r].tok] = uses[handlers[r].tok]]_vars

\* The handlers implement the abstract gate: consuming the row spends the
\* token and the one update of the actions uses it.
Promise == INSTANCE TokenGate WITH
  state   <- [t \in Token |-> IF uses[t] > 0 THEN "used"
                              ELSE IF tokens[t].status = "consumed" THEN "spent"
                              ELSE tokens[t].status],
  scope   <- [t \in Token |-> tokens[t].acts],
  started <- {a \in Action : actions[a].exec = "executing"}

\* However requests interleave and calls fail, what they do to tokens and
\* executions is a behaviour of TokenGate.
ImplementsTokenGate == Promise!Spec

=============================================================================
