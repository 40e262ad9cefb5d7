------------------------------ MODULE BffRequests ------------------------------
(***************************************************************************)
(* A mutating request to the BFF, from its idempotency key to its answer:  *)
(* the idempotency middleware (services/bff/src/middleware/idempotency.ts) *)
(* around the routes that turn the kill switch on and off and those it     *)
(* gates (services/bff/src/routes/v1.ts).  The switch is each replica's    *)
(* own, the table of responses and the ledger are shared.                  *)
(***************************************************************************)
EXTENDS KillSwitch

CONSTANTS
  Call,      \* the calls clients make, retries included
  Replica,   \* the BFF processes
  Requests,  \* what a call may ask
  Faults     \* the failures explored, a subset of FaultKinds

\* A database call fails, or took effect and seems to fail, and supabase-js
\* returns the error; a replica dies and is started again.
FaultKinds == {"error", "restart"}

\* `gated' are approve, reject and execute, `onboard' the routes without a tenant.
Kinds == {"engage_global", "engage_tenant", "release", "gated", "onboard"}
Engages == {"engage_global", "engage_tenant"}
Roles == {"founder", "owner", "admin", "other"}

ASSUME BffAssumption ==
  /\ Faults \subseteq FaultKinds
  /\ Requests # {} /\ Replica # {}
  /\ \A q \in Requests :
       /\ q.kind \in Kinds /\ q.role \in Roles
       /\ q.tenant \in Tenant \union {NoTenant}
       /\ q.tenant = NoTenant <=> q.kind = "onboard"

VARIABLES
  switch,    \* the kill switch of each replica
  stored,    \* idempotency_keys: the calls whose response has a row
  recorded,  \* audit_ledger: the calls whose entry was appended
  calls      \* each call, with its history

vars == <<switch, stored, recorded, calls>>

CallFails == "error" \in Faults

PCs == {"idle", "lookup", "handler", "append", "insert", "answered", "gone"}
Answers == {"none", "done", "halted", "refused", "error"}
Done == {"answered", "gone"}

\* History: `ran' is whether the handler ran for this call, `blind' whether its
\* lookup failed, `seen' the calls that were over when it was sent.
CallRecord ==
  [ pc : PCs, req : Requests, at : Replica, answer : Answers,
    ran : BOOLEAN, blind : BOOLEAN, seen : SUBSET Call ]

\* Types of the state.
TypeOK ==
  /\ switch \in [Replica -> [engaged : BOOLEAN, by : SUBSET Call, scope : Scopes,
                             tenant : Tenant \union {NoTenant}]]
  /\ stored \subseteq Call
  /\ recorded \subseteq Call
  /\ calls \in [Call -> CallRecord]

\* What a call asks and of which replica is settled when it is sent.
NewCall ==
  [ pc |-> "idle", req |-> CHOOSE q \in Requests : TRUE, at |-> CHOOSE p \in Replica : TRUE,
    answer |-> "none", ran |-> FALSE, blind |-> FALSE, seen |-> {} ]

Init ==
  /\ switch = [p \in Replica |-> Off]
  /\ stored = {}
  /\ recorded = {}
  /\ calls = [c \in Call |-> NewCall]

At(c, pc) == calls[c].pc = pc
Kind(c) == calls[c].req.kind
Tenant_(c) == calls[c].req.tenant
MySwitch(c) == switch[calls[c].at]

Answer(c, answer, pc) ==
  calls' = [calls EXCEPT ![c] = [@ EXCEPT !.answer = answer, !.pc = pc, !.ran = TRUE]]

-----------------------------------------------------------------------------
(* The middleware *)

\* Both engage scopes are one path; the body is not part of the key.
Path(kind) == IF kind \in Engages THEN "/kill-switch/engage" ELSE kind

SharedKey(c) == <<Path(Kind(c)), calls[c].req.key>>     \* mutant: the key alone
KeyOf(c) == <<calls[c].req.user, Tenant_(c), Path(Kind(c)), calls[c].req.key>>

\* Without a tenant neither the lookup nor the insert can name a row.
Scoped(c) == Tenant_(c) # NoTenant

RowsOf(c) == {d \in stored : Scoped(c) /\ KeyOf(d) = KeyOf(c)}

Send(c) ==
  /\ At(c, "idle")
  /\ \E q \in Requests, p \in Replica :
       calls' = [calls EXCEPT ![c] =
         [@ EXCEPT !.pc = "lookup", !.req = q, !.at = p,
                   !.seen = {d \in Call : calls[d].pc \in Done}]]
  /\ UNCHANGED <<switch, stored, recorded>>

\* maybeSingle() gives a row if there is exactly one; an error gives none.
Replay(c) ==
  /\ At(c, "lookup")
  /\ \E d \in Call :
       /\ RowsOf(c) = {d}
       /\ calls' = [calls EXCEPT ![c] =
            [@ EXCEPT !.answer = calls[d].answer, !.pc = "answered"]]
  /\ UNCHANGED <<switch, stored, recorded>>

NeverFound(c) == TRUE                    \* mutant: the row is not looked at
NotFound(c) == \A d \in Call : RowsOf(c) # {d}

PassOn(c) ==
  /\ At(c, "lookup")
  /\ \/ NotFound(c) /\ calls' = [calls EXCEPT ![c].pc = "handler"]
     \/ CallFails /\ calls' = [calls EXCEPT ![c] = [@ EXCEPT !.pc = "handler", !.blind = TRUE]]
  /\ UNCHANGED <<switch, stored, recorded>>

\* The result of the insert is not looked at.
Insert(c) ==
  /\ At(c, "insert")
  /\ \/ Scoped(c) /\ stored' = stored \union {c}
     \/ (CallFails \/ ~Scoped(c)) /\ UNCHANGED stored
  /\ calls' = [calls EXCEPT ![c].pc = "answered"]
  /\ UNCHANGED <<switch, recorded>>

-----------------------------------------------------------------------------
(* The routes, from the resumption after the lookup to their next await *)

AnyRole(c) == TRUE                       \* mutant: no role is asked for
AdminsRelease(c) ==                      \* mutant: administrators release
  calls[c].req.role \in {"founder", "owner"} \union (IF Kind(c) = "engage_global" THEN {} ELSE {"admin"})
May(c) ==
  LET role == calls[c].req.role IN
  IF Kind(c) = "engage_tenant" THEN role # "other" ELSE role \in {"founder", "owner"}

\* The role, or the body of an engage, is refused.
Refuse(c) ==
  /\ At(c, "handler")
  /\ Kind(c) \in Engages \/ (Kind(c) = "release" /\ ~May(c))
  /\ Answer(c, "refused", "insert")
  /\ UNCHANGED <<switch, stored, recorded>>

ToAppend(c) == calls' = [calls EXCEPT ![c] = [@ EXCEPT !.pc = "append", !.ran = TRUE]]

Engage(c) ==
  /\ At(c, "handler")
  /\ Kind(c) \in Engages /\ May(c)
  /\ switch' = [switch EXCEPT ![calls[c].at] =
       Engaged(c, IF Kind(c) = "engage_global" THEN "global" ELSE "tenant", Tenant_(c))]
  /\ ToAppend(c)
  /\ UNCHANGED <<stored, recorded>>

\* Whoever engaged it, and for whomever.
Release(c) ==
  /\ At(c, "handler")
  /\ Kind(c) = "release" /\ May(c)
  /\ switch' = [switch EXCEPT ![calls[c].at] = Released(@)]
  /\ ToAppend(c)
  /\ UNCHANGED <<stored, recorded>>

\* `ledger.append' throws, and the error handler makes a 500 of it, which the
\* middleware stores like any other response.
SayDone(c) == Answer(c, "done", "insert")   \* mutant: the failure is swallowed
LedgerFailed(c) == Answer(c, "error", "insert")

AppendEntry(c) ==
  /\ At(c, "append")
  /\ \/ recorded' = recorded \union {c} /\ Answer(c, "done", "insert")
     \/ CallFails /\ recorded' \in {recorded, recorded \union {c}} /\ LedgerFailed(c)
  /\ UNCHANGED <<switch, stored>>

\* What a gated handler goes on to do is ExecutionGate's business.
Gated(c) ==
  /\ At(c, "handler")
  /\ Kind(c) \in {"gated", "onboard"}
  /\ IF Kind(c) = "gated" /\ IsActive(MySwitch(c), Tenant_(c))
     THEN Answer(c, "halted", "insert")
     ELSE Answer(c, "done", "insert")
  /\ UNCHANGED <<switch, stored, recorded>>

-----------------------------------------------------------------------------
\* A replica that dies loses its switch and its calls; what they have sent to
\* the database may still take effect.
InFlight(p, pcs) == {c \in Call : calls[c].at = p /\ calls[c].pc \in pcs}

RestartReplica(p) ==
  /\ "restart" \in Faults
  /\ switch' = [switch EXCEPT ![p] = Off]
  /\ \E S \in SUBSET {c \in InFlight(p, {"insert"}) : Scoped(c)} : stored' = stored \union S
  /\ \E R \in SUBSET InFlight(p, {"append"}) : recorded' = recorded \union R
  /\ calls' = [c \in Call |-> IF c \in InFlight(p, PCs \ (Done \union {"idle"}))
                              THEN [calls[c] EXCEPT !.pc = "gone"] ELSE calls[c]]

Route(c) == Refuse(c) \/ Engage(c) \/ Release(c) \/ AppendEntry(c) \/ Gated(c)
Step(c) == Replay(c) \/ PassOn(c) \/ Route(c) \/ Insert(c)

Next ==
  \/ \E c \in Call : Send(c) \/ Step(c)
  \/ \E p \in Replica : RestartReplica(p)

Spec == Init /\ [][Next]_vars

-----------------------------------------------------------------------------
(* Properties *)

SameKey(c, d) ==
  LET q == calls[c].req  r == calls[d].req IN
  /\ q.user = r.user /\ q.tenant = r.tenant /\ q.key = r.key
  /\ Path(q.kind) = Path(r.kind)

Over(c) == calls[c].pc \in Done
Sent(c) == ~At(c, "idle")

\* Two calls overlapped if neither was over when the other was sent.
Overlapped(c, d) ==
  c # d /\ Sent(c) /\ Sent(d) /\ c \notin calls[d].seen /\ d \notin calls[c].seen

\* The calls with the key of c came one after another and could all read the table.
Orderly(c) ==
  \A d \in Call : Sent(d) /\ SameKey(c, d) =>
    ~calls[d].blind /\ \A e \in Call : SameKey(c, e) => ~Overlapped(d, e)

\* A retry is not executed again: once a response is stored, no later call with its
\* key reaches a handler, unless some calls with the key overlapped or failed to
\* read the table ("a retry returns the cached response rather than re-executing").
RetryNotExecuted ==
  \A c, d \in Call :
    /\ c \in stored /\ c \in calls[d].seen /\ SameKey(c, d) /\ Orderly(c)
    => ~calls[d].ran

\* A caller who did not run a handler has the answer a handler gave to the same
\* user, tenant, path and key, and to no one else.
ReplayIsOwnAnswer ==
  \A c \in Call : At(c, "answered") /\ ~calls[c].ran =>
    \E d \in stored : calls[d].ran /\ SameKey(c, d) /\ calls[d].answer = calls[c].answer

\* A switch that halts a tenant was engaged on that replica, since it started, by
\* someone entitled to halt that tenant, and the ledger says so unless the append
\* is under way or the caller was told of a failure.
HaltHasAnEngager ==
  \A p \in Replica, t \in Tenant : IsActive(switch[p], t) =>
    \E c \in Call :
      /\ switch[p].by = {c} /\ calls[c].at = p /\ calls[c].ran
      /\ \/ Kind(c) = "engage_global" /\ calls[c].req.role \in {"founder", "owner"}
         \/ Kind(c) = "engage_tenant" /\ Tenant_(c) = t /\ calls[c].req.role # "other"
      /\ c \in recorded \/ At(c, "append") \/ calls[c].answer = "error"

\* A tenant that was halted on a replica is let go only by a founder's or owner's
\* release there, by the narrower switch of another tenant, or by a restart.
ResumedOnPurpose ==
  [][\A p \in Replica, t \in Tenant :
       IsActive(switch[p], t) /\ ~IsActive(switch'[p], t) =>
         \/ \E c \in Call :
              /\ calls[c].at = p /\ At(c, "handler") /\ calls'[c].pc = "append"
              /\ \/ Kind(c) = "release" /\ calls[c].req.role \in {"founder", "owner"}
                 \/ Kind(c) = "engage_tenant" /\ Tenant_(c) # t
         \/ \A c \in Call : calls[c].at = p => calls'[c].pc \in Done \union {"idle"}]_vars

\* A call has run its handler exactly when it is past it; a stored response is of a
\* call that is over and did; what a call saw over is over.
CallGood(c) ==
  /\ calls[c].pc \in {"idle", "lookup", "handler"} => ~calls[c].ran
  /\ calls[c].pc \in {"append", "insert"} => calls[c].ran
  /\ c \in stored => Over(c) /\ calls[c].ran /\ Scoped(c)
  /\ \A d \in calls[c].seen : Over(d)

\* As RetryNotExecuted, of a call about to run as well.
RetryGood(c, d) ==
  c \in stored /\ c \in calls[d].seen /\ SameKey(c, d) /\ Orderly(c)
    => ~calls[d].ran /\ ~At(d, "handler")

\* The record of an engaged switch is that of the call that engaged it last.
SwitchGood(p) ==
  LET s == switch[p] IN
  s.engaged => \E c \in Call :
    /\ s.by = {c} /\ calls[c].at = p /\ calls[c].ran
    /\ Kind(c) \in Engages /\ May(c)
    /\ s.scope = (IF Kind(c) = "engage_global" THEN "global" ELSE "tenant")
    /\ s.tenant = Tenant_(c)
    /\ c \in recorded \/ At(c, "append") \/ calls[c].answer = "error"

\* The inductive invariant.
BffInv ==
  /\ TypeOK
  /\ \A c \in Call : CallGood(c)
  /\ \A c, d \in Call : RetryGood(c, d)
  /\ ReplayIsOwnAnswer
  /\ \A p \in Replica : SwitchGood(p)
=============================================================================
