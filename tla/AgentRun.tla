-------------------------------- MODULE AgentRun --------------------------------
(***************************************************************************)
(* A run of an agent: POST /v1/agents/:name/run of the BFF                 *)
(* (services/bff/src/routes/v1.ts), which keeps a row of agent_runs, and   *)
(* BaseAgent.invoke of the agent runtime                                   *)
(* (services/agent-runtime/src/axiom/agents/base.py), which it calls over  *)
(* HTTP and which writes the audit ledger.  The two go on without one      *)
(* another when the connection or one of the processes is lost.            *)
(***************************************************************************)
EXTENDS Naturals, Sequences

CONSTANTS
  Run,     \* the requests of the route
  Faults   \* the failures explored, a subset of FaultKinds

\* A database call may fail before it took effect, or its effect be committed
\* and the reply lost; the connection of the two services may break; either
\* process may stop and be started again.
FaultKinds == {"error", "lost_reply", "disconnect", "bff_restart", "runtime_restart"}

ASSUME RunAssumption == Faults \subseteq FaultKinds

VARIABLES
  rows,         \* agent_runs.status of each request's row
  callers,      \* the handler of each request in the BFF
  invocations,  \* the call of `invoke' it made, in the runtime
  entries,      \* audit_ledger: the entries of that call, in order
  performed     \* the requests whose agent has done its work

vars == <<rows, callers, invocations, entries, performed>>

CallFails == "error" \in Faults
ReplyLost == "lost_reply" \in Faults

Status == {"succeeded", "failed"}

\* `id' is whether runId is known; `status' what the run's row is to become.
Caller ==
  [ pc     : {"idle", "insert", "fetch", "wait", "close", "answered", "gone"},
    id     : BOOLEAN,
    status : Status ]

Invocation ==
  [ pc     : {"none", "validate", "start", "run", "complete", "complete_failed", "replied", "gone"},
    status : Status ]

\* Types of the state.
TypeOK ==
  /\ rows \in [Run -> Status \union {"none", "running"}]
  /\ callers \in [Run -> Caller]
  /\ invocations \in [Run -> Invocation]
  /\ entries \in [Run -> Seq({"started", "success", "failure"})]
  /\ performed \subseteq Run

NewCaller == [ pc |-> "idle", id |-> FALSE, status |-> "failed" ]
NewInvocation == [ pc |-> "none", status |-> "failed" ]

Init ==
  /\ rows = [r \in Run |-> "none"]
  /\ callers = [r \in Run |-> NewCaller]
  /\ invocations = [r \in Run |-> NewInvocation]
  /\ entries = [r \in Run |-> <<>>]
  /\ performed = {}

CallerAt(r, pc) == callers[r].pc = pc
CallerTo(r, pc) == callers' = [callers EXCEPT ![r].pc = pc]

At(r, pc) == invocations[r].pc = pc
Goto(r, pc) == invocations' = [invocations EXCEPT ![r].pc = pc]

-----------------------------------------------------------------------------
(* The handler of the BFF *)

Post(r) ==
  /\ CallerAt(r, "idle")
  /\ CallerTo(r, "insert")
  /\ UNCHANGED <<rows, invocations, entries, performed>>

\* Only a row whose id came back is closed later; the run goes on without one.
InsertRow(r) ==
  /\ CallerAt(r, "insert")
  /\ \/ /\ rows' = [rows EXCEPT ![r] = "running"]
        /\ \/ callers' = [callers EXCEPT ![r] = [@ EXCEPT !.pc = "fetch", !.id = TRUE]]
           \/ ReplyLost /\ CallerTo(r, "fetch")
     \/ CallFails /\ CallerTo(r, "fetch") /\ UNCHANGED rows
  /\ UNCHANGED <<invocations, entries, performed>>

Fetch(r) ==
  /\ CallerAt(r, "fetch")
  /\ CallerTo(r, "wait")
  /\ Goto(r, "validate")
  /\ UNCHANGED <<rows, entries, performed>>

\* The status of the row follows the body of the reply, whose HTTP status is
\* 200 for failed runs too.
StatusOfResponse(s) == "succeeded"   \* mutant: the HTTP status instead of the body
RowStatusRaw(s) == IF s = "failed" THEN "timed_out" ELSE s   \* mutant: a status the row is never given
RowStatus(s) == IF s = "succeeded" THEN "succeeded" ELSE "failed"

TakeReply(r) ==
  /\ CallerAt(r, "wait")
  /\ At(r, "replied")
  /\ callers' = [callers EXCEPT ![r] =
       [@ EXCEPT !.pc = "close", !.status = RowStatus(invocations[r].status)]]
  /\ UNCHANGED <<rows, invocations, entries, performed>>

\* `fetch' throws: the runtime died, or the connection broke, before the call
\* arrived or after, whatever the agent does meanwhile.
FetchThrows(r) == callers' = [callers EXCEPT ![r] = [@ EXCEPT !.pc = "close", !.status = "failed"]]

NothingLost(r) == FALSE                   \* mutant: no catch around the fetch
Lost(r) == At(r, "gone")

LoseReply(r) ==
  /\ CallerAt(r, "wait")
  /\ Lost(r)
  /\ FetchThrows(r)
  /\ UNCHANGED <<rows, invocations, entries, performed>>

Disconnect(r) ==
  /\ "disconnect" \in Faults
  /\ CallerAt(r, "fetch") \/ CallerAt(r, "wait")
  /\ FetchThrows(r)
  /\ UNCHANGED <<rows, invocations, entries, performed>>

\* The result of the update is not looked at.
CloseRow(r) ==
  /\ CallerAt(r, "close")
  /\ \/ callers[r].id /\ rows' = [rows EXCEPT ![r] = callers[r].status]
     \/ (~callers[r].id \/ CallFails) /\ UNCHANGED rows
  /\ CallerTo(r, "answered")
  /\ UNCHANGED <<invocations, entries, performed>>

-----------------------------------------------------------------------------
(* BaseAgent.invoke *)

Reply(r, status) ==
  invocations' = [invocations EXCEPT ![r] = [pc |-> "replied", status |-> status]]

\* An input the agent's schema refuses leaves no entry.
Validate(r) ==
  /\ At(r, "validate")
  /\ Goto(r, "start") \/ Reply(r, "failed")
  /\ UNCHANGED <<rows, callers, entries, performed>>

\* `ledger.append', where a failure goes to the except branch `failed' even if
\* the entry was written.
Append1(r, entry, done, failed) ==
  \/ entries' = [entries EXCEPT ![r] = Append(@, entry)] /\ done
  \/ ReplyLost /\ entries' = [entries EXCEPT ![r] = Append(@, entry)] /\ failed
  \/ CallFails /\ UNCHANGED entries /\ failed

\* "We cannot proceed without a ledger record; bail."
ProceedAnyway(r) == Goto(r, "run")       \* mutant: the error is only logged
Bail(r) == Reply(r, "failed")

AppendStarted(r) ==
  /\ At(r, "start")
  /\ Append1(r, "started", Goto(r, "run"), Bail(r))
  /\ UNCHANGED <<rows, callers, performed>>

\* The agent's own work, which may raise before or after it took effect.
RunAgent(r) ==
  /\ At(r, "run")
  /\ \/ /\ performed' = performed \union {r}
        /\ Goto(r, "complete") \/ Goto(r, "complete_failed")
     \/ UNCHANGED performed /\ Goto(r, "complete_failed")
  /\ UNCHANGED <<rows, callers, entries>>

\* A failure to append the completing entry is logged and the run succeeds.
RecordFailureToo(r) == Goto(r, "complete_failed")   \* mutant: no inner try
Swallow(r) == Reply(r, "succeeded")

AppendCompleted(r) ==
  /\ At(r, "complete")
  /\ Append1(r, "success", Reply(r, "succeeded"), Swallow(r))
  /\ UNCHANGED <<rows, callers, performed>>

AppendFailed(r) ==
  /\ At(r, "complete_failed")
  /\ Append1(r, "failure", Reply(r, "failed"), Reply(r, "failed"))
  /\ UNCHANGED <<rows, callers, performed>>

-----------------------------------------------------------------------------
(* Processes that die take what they were doing with them. *)

RestartBff ==
  /\ "bff_restart" \in Faults
  /\ callers' = [r \in Run |-> IF callers[r].pc \in {"idle", "answered"} THEN callers[r]
                               ELSE [callers[r] EXCEPT !.pc = "gone"]]
  /\ UNCHANGED <<rows, invocations, entries, performed>>

RestartRuntime ==
  /\ "runtime_restart" \in Faults
  /\ invocations' = [r \in Run |-> IF invocations[r].pc \in {"none", "replied"} THEN invocations[r]
                                   ELSE [invocations[r] EXCEPT !.pc = "gone"]]
  /\ UNCHANGED <<rows, callers, entries, performed>>

CallerStep(r) == InsertRow(r) \/ Fetch(r) \/ TakeReply(r) \/ LoseReply(r) \/ CloseRow(r)

AgentStep(r) ==
  Validate(r) \/ AppendStarted(r) \/ RunAgent(r) \/ AppendCompleted(r) \/ AppendFailed(r)

Next ==
  \/ \E r \in Run : Post(r) \/ CallerStep(r) \/ AgentStep(r) \/ Disconnect(r)
  \/ RestartBff \/ RestartRuntime

Spec == Init /\ [][Next]_vars

\* Both event loops resume what can go on; an agent's work ends.  Nothing is
\* assumed of clients, connections or restarts.
Fairness == \A r \in Run : WF_vars(CallerStep(r)) /\ WF_vars(AgentStep(r))
FairSpec == Spec /\ Fairness

-----------------------------------------------------------------------------
(* Properties *)

\* The ledger tells one story of a run: it starts at most once and is then
\* concluded at most once, as a success or a failure, though an append may be
\* written and seem to have failed.
OneStory ==
  \A r \in Run : entries[r] \in {<<>>, <<"started">>, <<"started", "success">>, <<"started", "failure">>}

\* A row that says succeeded is of a run that is on record as started, did its
\* work and is not on record as failed, whatever was lost between the BFF, the
\* runtime and the database.
RowTellsTruth ==
  \A r \in Run : rows[r] = "succeeded" =>
    /\ r \in performed
    /\ entries[r] \in {<<"started">>, <<"started", "success">>}

\* A run reported as succeeded has its completion on record: rule BR-3, by
\* which invoke bails out when the start cannot be recorded.
SucceededIsRecorded ==
  \A r \in Run : rows[r] = "succeeded" => entries[r] = <<"started", "success">>

\* A request the BFF accepted is answered, unless the BFF itself dies, though
\* the runtime may die or the connection break at any point of the run.
EveryRequestAnswered ==
  \A r \in Run : ~CallerAt(r, "idle") ~> (CallerAt(r, "answered") \/ CallerAt(r, "gone"))

\* What an invocation has done is what its place in `invoke' says.
InvocationGood(r) ==
  /\ invocations[r].pc \in {"none", "validate", "start"} => entries[r] = <<>> /\ r \notin performed
  /\ invocations[r].pc = "run" => r \notin performed
  /\ invocations[r].pc \in {"run", "complete", "complete_failed"} => entries[r] = <<"started">>
  /\ invocations[r].pc = "complete" => r \in performed
  /\ invocations[r].pc = "replied" /\ invocations[r].status = "succeeded" =>
       r \in performed /\ entries[r] \in {<<"started">>, <<"started", "success">>}

\* A request that has not been sent has no invocation, and one about to close
\* its row as succeeded has the reply of one that succeeded.
CallerGood(r) ==
  /\ callers[r].pc \in {"idle", "insert", "fetch"} => invocations[r].pc = "none"
  /\ callers[r].pc = "close" /\ callers[r].status = "succeeded" =>
       invocations[r].pc = "replied" /\ invocations[r].status = "succeeded"
  /\ rows[r] = "succeeded" => invocations[r].pc = "replied" /\ invocations[r].status = "succeeded"

\* The inductive invariant.
RunInv ==
  /\ TypeOK
  /\ OneStory
  /\ \A r \in Run : InvocationGood(r) /\ CallerGood(r)

\* The two services keep the promise of the audit trail.
Trail == INSTANCE AuditedRun WITH
  recorded <- {r \in Run : entries[r] # <<>>},
  outcome  <- [r \in Run |-> IF Len(entries[r]) > 1 THEN entries[r][2] ELSE "none"]

\* Nothing is performed before its start is on record, and what is on record
\* as concluded stays so.
ImplementsAuditedRun == Trail!Spec
=============================================================================
