# Formal model of AxiomProof

AxiomProof is an agentic compliance platform for India's DPDP Act. Agents find
gaps and propose remediation plans; a person approves a plan; the approved
actions are executed under a signed approval token; everything is written to a
hash-chained audit ledger. The repository's safety rules (`README.md:49-60`)
are about exactly that path: no mutating action without a recorded approval
token that is validated per action, a dry-run and a validated rollback before
approval, every action in an append-only ledger, blast-radius caps and a kill
switch. This directory models that path first, and then the
services around it.

Paths below are relative to the root of the repository. `v1.ts` is
`services/bff/src/routes/v1.ts`, `0005` is
`infra/supabase/migrations/0005_approvals_ledger.sql`.

## 1. Inventory

| Component | State | Operations | Interacts with |
|---|---|---|---|
| Plan approval and execution (BFF, `v1.ts:36-567`) | tables `remediation_plans`, `remediation_actions`, `approval_tokens`; per request the locals of the handler | approve, reject, execute | Postgres (one call per await), approval engine, ledger, kill switch, agent runtime |
| Approval engine (`packages/approval-engine`, Python twin `axiom/approval_engine.py`) | the used nonces of one process | issue, verify, markNonceUsed, isActionCovered | BFF, Karya |
| Kill switch (`kill-switch.ts`, `v1.ts:569-655`) | one record `{engaged, scope, tenantId}` per process | engage, release, isActive | approve, reject, execute, ledger |
| Audit ledger (`packages/ledger`, `0005:118-344`) | `audit_ledger`, `tenant_ledger_counters` | append_ledger, verify_ledger, query | BFF, agents, web console |
| BFF middleware (`index.ts:45-54`) | `idempotency_keys` | authenticate, resolve tenant, replay a cached response | every route |
| Onboarding, engagements (`v1.ts:674-931`), sign-in (`apps/web`, `login/actions.ts`) | tenants, members, engagements | onboard, create, list, make sure of a membership | ledger, tenant resolution |
| Agent runs (`v1.ts:952-1084`, `agents/base.py`) | `agent_runs`; an in-memory fallback ledger | run, invoke | BFF, agent runtime, ledger |
| Agents: Karya, Sudhaar, Saakshi, Lekha and six others | none of their own; Saakshi writes `evidence` and the object store | invoke | ledger, vault, model gateway |
| Evidence vault (`evidence_client.py`, `packages/evidence`) | sealed objects under retention, rows of `evidence` | seal, get, extend | Saakshi |
| Model gateway (`services/model-gateway`) | none | route, redact, dispatch | agents |
| Engagement workflow (`services/temporal-workers`) | the workflow's history, kept by Temporal | run, four agent activities, wait for approval | agent runtime |
| Gap scan (`apps/marketing/src/lib`, `routes/public.ts`) | stored reports, with a cache in each process | save, get, score | Postgres |
| Web console, marketing site, UI packages | nothing that outlives a page | pages and proxies | BFF |
| Tenancy, row-level security (`0001`, `0002`, `0006`) | tenants, users, roles | declarative | Postgres |

What makes the system hard:

* **Interleaving.** The BFF runs on two to ten replicas and each handler is a
  sequence of separate database calls, never one transaction. Two requests,
  or a request and a reject, may overlap at any await.
* **Partial failure.** A call may fail, or take effect and lose its reply; a
  handler then answers an error and leaves what it has done so far.
* **Restarts.** The nonce cache, the kill switch and every request in flight
  are lost with their process.
* **Ordering.** The ledger is written after the change, by another call.
* **Waiting.** Appends of one tenant queue for one counter row.
* **Staleness.** Statuses and the kill switch are read before awaits and
  relied on after them.

What makes each component correct: the gate never lets a token pay for two
executions nor an action start outside an approved scope; the ledger is one
unforked chain per tenant that shows a change of what it hashes, and appends end; the kill
switch halts whom it says until someone entitled resumes them; a retried request runs
once; a run ends with a matching ledger entry; what is called sealed is locked; a
hosted model never sees an unredacted prompt; a tenant's owners are those who onboarded it;
a report is kept and shown to its owner; more compliant answers never hurt. Some of
these the code does not keep; the findings say where.

`PROJECT.json` lists the hazards line by line, with the property that covers
each or the reason why none does.

## 2. Modules

| Module | Models |
|---|---|
| `ExecutionGate` | approve, reject, execute, the kill switch's flag and replicas |
| `TokenGate` | the abstract promise of the gate: issue once, spend once, use at most once, inside the scope |
| `ExecutionGateInv` | the inductive invariant of `ExecutionGate` |
| `ExecutionGate_proofs` | its theorems |
| `AuditLedger` | `append_ledger` and `verify_ledger` |
| `AppendOnlyLog` | the abstract promise of the ledger: whole entries, one at a time |
| `AuditLedger_proofs` | its theorems |
| `AgentRun` | a run of an agent across the BFF and the agent runtime |
| `AuditedRun` | the abstract promise of the audit trail of runs |
| `AgentRun_proofs` | its theorems |
| `KillSwitch` | the record of the kill switch of one process |
| `BffRequests` | a mutating request from its idempotency key to its answer, around the routes of the kill switch; extends `KillSwitch` |
| `BffRequests_proofs` | its theorems |
| `ModelGateway` | routing, redaction and failover of a completion |
| `EvidenceVault` | sealing evidence: the object, its lock and its row |
| `Membership` | onboarding, engagements and the membership that signing in makes sure of |
| `GapScan` | submissions and reports of the public gap scan |
| `Services_proofs` | the theorems of the four modules above |
| `Assessment` | Parikshan's scores and Sudhaar's plan |
| `Assessment_proofs` | its theorems |
| `FiniteFacts` | facts about least elements, finite sets and sums that the proofs share |
| `MCExecutionGate`, `MCAuditLedger`, `MCAgentRun`, `MCBffRequests`, `MCModelGateway` | constants for TLC |
| `MCServices` | the five services that share no state, in one instance |

### ExecutionGate

State. `plans`, `actions`, `tokens` are the columns the handlers read or write;
`ledger` is the set of entries appended (the chain itself is `AuditLedger`'s
business); `bff[b]` is the kill switch flag and nonce registry of replica `b`;
`handlers[r]` is the record of locals of request `r`, whose `pc` names the await
it is suspended at; `uses` is a history variable.

Actions. One per await of the three handlers: `Approve*` (`v1.ts:77-264`),
`Reject*` (`v1.ts:287-314`), `Execute*` (`v1.ts:385-567`), each with the
early returns that follow its reply. `Start*` is what runs before the first await.
Three failures can be switched on by `Faults`: `"error"`, a call that fails
before taking effect; `"lost_reply"`, a call that takes effect and seems to
fail; `"restart"`. An update whose result the code ignores (`v1.ts:217`, `:295`)
goes on after a failure, as the code does.

Abstractions.

* One value `awaiting_approval` stands for every status of an action that is
  not yet approved or skipped. `draft` likewise stands for every `exec` status before
  `executing`; nothing in the repository writes a later one.
* `ready` is "dry-run complete and rollback validated". Nothing in the
  repository writes those columns after the insert, so they are chosen in `Init`.
* Time is not modelled: an expired dry-run is a refusal that may happen at any
  time; an expired token is refused before the first await and changes nothing.
* The HMAC makes a token presented at execute one that approve has signed. Its
  payload is the row's, so a token is its number. Approve hands it to the
  client, and so does the plan page (`apps/web/src/app/(app)/plans/[id]`), which
  rebuilds it from the row.
* A read that fails and a row that is not there are the same outcome in the
  per-action loop, as in the code. The loop's order is left open.
* The roles that may approve and reject (`v1.ts:63-73`, `:279-284`) are left out: any
  request gets past them, which is more than the code allows.

What the code leaves open is in the properties. `ExecutedUnderToken` does not say that a
started action is still approved: a reject may have come in between, which is
`OnlyApprovedStart` and a finding. Nor does it say under which of two tokens that name an
action it starts: rejecting revokes none, so the first may serve after a second approval,
within its own scope. `ApprovedByToken` says nothing of a token that was registered
before its approval was cut off: it starts nothing that is not approved.

### TokenGate and the refinement

`ExecutionGate!Promise` maps a token row and its history to `none`, `issued`,
`spent`, `used`, its scope, and the set of executing actions. Consuming the row
is `Spend`, the update of the actions is `Use`; every other step is a stutter.

### AuditLedger

State. `counters` is `tenant_ledger_counters` as committed, `owner[t]` the
transaction that has inserted or locked the row of tenant `t`, `log[t]` the
committed rows, `txs[c]` the transaction connection `c` is in.

Actions. `UpsertCounter`, `LockCounter` and `Commit` are the statements of
`append_ledger` that can wait or take effect (`0005:208-267`), at READ COMMITTED:
`ON CONFLICT DO NOTHING` waits for an uncommitted insert of the same key, and
`FOR UPDATE` reads the latest version once granted. `Abort` rolls back at any
statement. `Scanned`, `PrevHash`, `ChainBreak`, `Tampered` and `Intact` are
`verify_ledger`.

`TamperEvident` says at each commit, of the chain it leaves, what a hash of it is worth that
somebody kept outside the table. `append_ledger` returns an id and `append.ts:101-106` an
empty hash; the `head_hash` of the console's export (`apps/web/src/app/api/ledger/route.ts:129`)
is one to keep. The table somebody finds later has rows of the chain removed or
repeated (`Copies`), one row's content changed and any stretch of rows from there chained
anew with matching digests (`Forged`): it does not verify from row 1, or does not end in
that hash, or agrees with the chain up to it in everything that is hashed.

Abstractions.

* `Content` is what an entry says: every column other than the number and the hashes.
  `tenant_id` is not among what is hashed; a tenant's rows are its own `log`.
* `Joined[e]` is the text that `concat_ws('|')` makes of an entry's hashed columns
  (`0005:223-241`, `occurred_at` included). Of it nothing is assumed: free text may
  contain a `|` and a null is joined as an empty text, so different entries may have one
  text. `ledger_appends` has three entries of which two do, and `SameTextUnseen` says that
  a change from one to the other is not noticed.
* What the payload does tell is the number, which comes first and has digits only, and the
  previous hash. That one stands between free text and the JSON of the detail; it is 64 hex
  digits or empty, and what follows a `|` inside a JSON text is never a JSON text (a `|`
  occurs within a string, so an odd number of quotes follows it), hence the last place
  where the payload can be cut so is the only one.
* SHA-256 is taken as free of collisions: a hash is the sequence of what it covers.

### AgentRun

State. `rows[r]` is the status of the row of `agent_runs` of request `r`, `callers[r]`
its handler in the BFF, `invocations[r]` the call of `BaseAgent.invoke` it makes,
`entries[r]` the ledger entries of that call, `performed` a history of the agents that did
their work. The ledger's chain is `AuditLedger`'s business; an append is one transaction there.

Actions. `Post`, `InsertRow`, `Fetch`, `TakeReply`, `LoseReply`, `CloseRow` are the awaits of
`v1.ts:952-1084`; `Validate`, `AppendStarted`, `RunAgent`, `AppendCompleted`, `AppendFailed`
those of `base.py:128-253`. `supabase-js` returns errors and does not throw, so a failed
insert or update goes on. `Disconnect` breaks the connection while the agent continues;
`RestartBff` and `RestartRuntime` end a process. `_run` of any agent is one step
that may raise before or after it took effect.

`AuditedRun` is implemented under a mapping of the entries: recorded is "has an entry",
the outcome is the second entry.

### KillSwitch and BffRequests

State. `switch[p]` is the one record of replica `p` (`kill-switch.ts:33-40`), whoever sets
it and for whomever. `stored` is the table of responses, `recorded` the ledger entries of
the switch, `calls[c]` a call with what it asks and where it is. A stored row is named by
the call that wrote it: its answer is that call's.

Actions. `Send`, `Replay`, `PassOn`, `Insert` are the middleware (`idempotency.ts:18-111`):
lookup, the handler between, insert. `Refuse`, `Engage`, `Release`, `AppendEntry` are the
routes of the switch (`v1.ts:570-651`) with their roles, and `Gated` the first line of
approve, reject and execute. `RestartReplica` loses the switch and the calls of a process,
whose writes may still arrive. What a gated handler does after its first line is
`ExecutionGate`'s business.

Abstractions.

* `supabase-js` returns errors and does not throw: a failed lookup finds nothing, a failed
  insert is not noticed. `maybeSingle` of two rows finds nothing either. The ledger client
  does throw, and the error handler's 500 is stored like any other response.
* `idempotency_keys` is in no migration. The model takes it to exist without a unique key,
  as the code takes it; without the table every lookup and insert fails, which `Faults`
  covers.
* A key that is missing or too short is refused before the first await and changes nothing.
  The key a development environment makes up never repeats.
* `Path` merges the two scopes of engage, which are one path. `/kill-switch`, an alias, is
  left out.

What the code leaves open is in these properties, too. `RetryNotExecuted` excepts calls that
overlapped or could not read the table: for those a retry does run again.
`ResumedOnPurpose` names the narrower switch of another tenant, which does lift a global
one. `HaltHasAnEngager` allows a halt without an entry when its caller was told of a
failure. Nothing relates a replayed "engaged" to the switch: after a release, or on another
replica, it is not true any more.

### ModelGateway

State. `settings` are chosen at the start among `Deployments`, which
`validate_production_security` restricts; `completions[c]` is a call of `/v1/complete` with
the providers that were shown its text. A text is the set of the places personal data came
from: the prompt, a string or another value among the variables, or only the two put
together. Redaction reaches the first two (`redaction.py:66-155`), the rest it cannot see;
that patterns miss some data is not modelled.

Actions. `Complete` is the handler up to its first await, with `Provider` and
`FallbackChain` for `decide_route`; `AskProvider`, `Failover`, `ProviderAnswers` and
`StubAnswers` are `_dispatch`; `GiveUp` is the client's timeout, which the gateway does not
notice. No code calls a self-hosted provider or Bedrock: the route's name decides about
redaction, the chain where the text goes. `NoNeedlessEgress` is about the chain only; that
the client has given up stops nothing.

### EvidenceVault

State. `versions` are the versions in the object store with their locks, `evidence[b]` the
row of a content of a tenant, `seals[s]` a run of Saakshi with the locals of `_run`, `day`
the clock, `mock` whether the environment is one of development.

Actions. `Begin`, `PutObject` or `PutFails`, `Upsert` or `UpsertFails`: each call may take
effect and seem to fail, and a process may end between any two. `DeleteVersion` is the
store, which keeps what is locked: the external part, as `seal` asks for it
(`evidence_client.py:106-110`). `Immutable` is the trigger of `0003:180-197`. Content and
tenant are one value. The row of a content that is sealed again under its name with another
retention says the newest lock, as the upsert does.

### Membership

State. `tenants` counts the rows of `tenants` (nothing deletes one), `members` and
`engagements` are pairs of a person and a tenant, `visits[v]` is a request with its locals.

Actions. `CreateTenant`, `LinkOwner`, `InitialEngagement` are onboarding (`v1.ts:780-931`),
which ends if the tenant's insert fails and goes on if a later one does; `Engage` and
`EnterTenant` a new engagement behind `tenantResolver`, whose insert is the one of
`InitialEngagement`; `SignIn`, `LookUpMembership`, `FindDefault`, `JoinDefault` the lookups
and the insert after a log-in or a sign-up. A person with two memberships is found to have
none, because `maybeSingle` answers several rows with an error, and joins the oldest
tenant. Roles are not told apart: every membership inserted here is an owner's.

`MembershipJustified` is about every tenant but the oldest: that one signing in joins,
as owner, also where nothing was seeded and it is somebody's own. That is finding 6,
`OwnersOnboarded`. `LeadsBelong` excepts the onboarding whose membership could not be
inserted, which goes on to its engagement.

### GapScan

State. `rows` says who inserted a submission's row, `caches[w]` is the map of marketing
process `w` in insertion order, `scans` and `views` are submissions and requests for a
report.

Actions. The site caches, prunes, inserts and answers whatever came of the insert; the BFF
inserts and answers an error if it failed. A report is read from the row, then from the
cache of the process that is asked. A row the BFF inserted has no report snapshot and
cannot be shown. `Local` is an environment in which sessions are not compared.

`OwnReportIsFound` is about the process that took the submission, `AnsweredIsKept`
about its row and cache: that another process does not have it, and that a cache drops its
oldest entry, is what the code does.

### Assessment

`AnswerQuestion` sets the counts of yes and no of a control, `ProposePlan` runs Sudhaar on
Parikshan's findings. A plan's order is the library's, sorted by points at risk, the largest
first, with Python's stable sort: a control's `Rank` is one more than the number of those
before it. `ActionScore` is an action's priority with its cap, which never binds. Sudhaar
would sort whatever findings a caller sends; those of Parikshan have no id, so an action's
`closes_finding_id` is empty and a sequence here names the finding's control. Scores and
points are integers in hundredths with Python's rounding
of ties to even; `Penalties` are the points the library of controls has. For these the
code's floating point is exact to the hundredth; for 26, 27, 29 or 49 points
`int(x * 100)` would be one less. The cap on a control's exposure never binds (points never
exceed the penalty), so `min` is left out.

### MCServices

`ModelGateway`, `EvidenceVault`, `Membership`, `GapScan` and `Assessment` share no variable
and no step of one reads another's state. `MCServices` explores each with the others at
rest; `subject` says which one moves.

## 3. Runs

| Run | Shows | Bounds |
|---|---|---|
| `gate_race` | single use, approvals backed by tokens, ledger never ahead, the inductive invariant (of which the types are a part), token lifecycle, refinement of `TokenGate` | 1 plan, 2 actions, 1 token, 2 requests, 1 replica, 2 keys, every failure; about 1,200,000 states |
| `gate_overlap` | execution only inside an approved scope; every approval and execution in the ledger or about to be, each with its own entry | 2 actions, 2 tokens, 2 requests, 1 key, no failures; about 2,100,000 states |
| `gate_rejected` (violation) | an action that was rejected after it was checked starts | 1 action, 1 token, 2 requests, no failures |
| `gate_consumed_batch` (violation) | a batch of two actions consumes its token and executes nothing | 1 request, no failures |
| `gate_kill_switch` (violation) | a request past its first line starts actions after the switch is engaged | 1 request |
| `ledger_appends` | verification of written chains, what their hashes tell of changed ones, tip, the inductive invariant (types included), no circular waits, every append ends, refinement of `AppendOnlyLog` | 2 tenants with 3 rows and 1, 2 connections, 3 contents of which 2 have one text, rollbacks; about 50,000 states |
| `agent_runs` | one story per run, rows that tell the truth, the inductive invariant, every request answered, refinement of `AuditedRun` | 2 runs, every failure; about 58,000 states |
| `agent_unrecorded_success` (violation) | a run reported as succeeded whose completion is not in the ledger | 1 run, failing calls |
| `bff_requests` | retries, replays, halts and resumptions, the inductive invariant | 2 calls, 2 replicas, 3 users of 2 tenants with 2 keys, failing calls, restarts; about 560,000 states |
| `services` | two or three properties of each of the five services (below) | 1 completion, 2 seals, 2 visits, 2 submissions, 1 view, 4 controls; about 220,000 states |
| `gateway_hosted_raw` (violation) | a prompt on a self-hosted route shown unredacted to a hosted provider | 1 completion |
| `membership_signup` (violation) | a person who signs up becomes owner of a tenant another onboarded | 2 people, 2 visits |

The properties of `services`: `NoNeedlessEgress` (how far a text goes); `SealedIsLocked` and
`IdNamesItsObject` (what rows and answers of the vault promise); `MembershipJustified` and
`LeadsBelong` (who belongs to a tenant); `OwnReportIsFound` and `AnsweredIsKept` (that there
is a report, and that its visitor gets it); `BetterAnswersNeverHurt`, `EscalatesByTotal` and `WorstFirst` (what
an answer, a large plan and the order of a plan come to).

Why the bounds are enough. The races of the gate are between two requests for
one token: a third request can only repeat the part of one of them, and a second
plan shares nothing with the first but the key column, whose conflict two actions
already reach. One replica that restarts loses exactly what a second replica would
not share; several replicas at once are covered by the proofs. Two actions are
needed for batches, partially accepted requests and the key conflict; two tokens
for overlapping approvals, and two tokens with two actions for an action that is approved
but not under the token presented (with one token the per-action check of the
scope could be dropped unnoticed). Two keys in `gate_race`
let a second execution past the unique column, if the token allowed one. In `gate_overlap`
one is enough: an action executed again under a second token may be given its key again.
Nothing fails in `gate_overlap`: `OnRecord` is about the entries a
handler owes when no failure ends it, and what failures add to a scope is in the proof.
The ledger needs two writers of a tenant to race, a second
tenant to show that they do not disturb one another, for which one row is enough, and three
rows so that a
row has both a predecessor and a successor; the changed tables of `TamperEvident` are all
those of up to three rows. Two agent runs share nothing but the processes that
die under both. Two calls are the retry and its original, or the engagement of a switch and
what lifts or meets it; a third would repeat one of them or find two stored rows, which the
proofs cover. Completions share only the settings, so one is enough. Two seals of one
content, two visits and two submissions to a cache of one are what a conflict takes; two
seeded tenants of one age (three in `seed.sql`) leave the default open. The controls have
each number of questions the library has, and the cap lies within the reach of the plans.
The proofs cover any number of each.

`SYMMETRY` is used in `gate_race` and `gate_overlap`, where requests, keys
and the actions of the one plan are interchangeable, and in `bff_requests`, where calls and
replicas are. None of them checks liveness.
`CHECK_DEADLOCK FALSE` is set where the bound on rows stops every writer and where every
run, call, seal, visit and submission of the instance has ended.

### Fairness

`ExecutionGate` assumes none: its handlers are straight-line code between awaits, and that
each call is answered or fails is all there is to their ending.

`AuditLedger!Fairness` is weak fairness of a transaction that can commit and strong
fairness of the two statements that wait for a row: Postgres queues the
waiters of a row, so one that keeps being grantable is granted though others come and go.
Aborts are under no fairness: `EveryAppendEnds` does not rest on them.

`AgentRun!Fairness` is weak fairness of each handler and each invocation: both event loops go
on, and an agent's work ends. Nothing is assumed of connections or restarts.

### Findings

1. `gate_consumed_batch`: execute writes the request's one idempotency key to
   every accepted row of a `UNIQUE` column, after consuming the token, so a batch of
   two or more always fails with its token spent.
2. `gate_kill_switch`: the switch "halts all in-flight execution immediately"
   according to `kill-switch.ts:13`, but is read once, at the head of the handlers.
3. `gate_rejected`: the update that starts the actions filters on no status, so that an
   action rejected since it was checked starts; `docs/03_BRD_PRD.md:176` says only approved
   actions are executed.
4. `agent_unrecorded_success`: `invoke` logs a failure to append the completing entry and
   reports success; `append.ts:53-56` says that such a failure must fail the operation.
5. `gateway_hosted_raw`: redaction is decided by the name of the route, and a self-hosted
   route is served by the hosted providers of its fallback chain; `app.py:145-147` says raw
   personal data must never cross the gateway. No agent calls `complete` at this commit.
6. `membership_signup`: signing up creates no tenant but makes the user an owner of the
   oldest one, whoever onboarded it; `docs/LIVE_FUNCTIONAL_FLOW_GUIDE.md:60` says it registers
   a new tenant account.

## 4. Proofs

All theorems hold for every value of the constants under the assumptions
`GateAssumption`, `LedgerAssumption`, `RunAssumption`, `TenantAssumption`, `BffAssumption`,
`DeploymentsAssumption`, `VaultAssumption`, `MembershipAssumption`, `GapScanAssumption` and
`LibraryAssumption`: any number of plans, actions, tokens, requests, replicas, tenants,
connections, rows, runs, calls, seals, visits, submissions and controls, and any set of
failures. Only `LibraryAssumption` says something of data: a control has a penalty the
library has and at most three questions, the range in which the model's rounding is the code's.

Most invariants the runs check are conjuncts of the inductive one of their component;
`SingleUse` and the rest are then theorems by projection. Those that are not, and so
have an argument of their own, are pointed out below.

**Gate.** `GateInvariant` proves `GateInv`. The safety properties are not inductive:
single use needs to know that a handler about to mark actions is alone with a
consumed token that records no execution (`MarkerInv`), that executions are only
counted for consumed tokens (`UseInv`), and that what a suspended handler remembers
still agrees with the tables (`HandlerInv`), in particular that its accepted actions
lie in the scope of its token, which never changes, and that scopes are sets of ready
actions of the plan (`ScopeInv`). Each action gets a lemma: those that only move
a handler are handled together (`GateQuietSteps`), and each one that writes a table
on its own. `TokenUsedOnce`, `NothingUnapprovedStarts`, `ApprovalIsBacked`,
`LedgerFollowsTables` and `TypeCorrect` are conjuncts of `GateInv`.
`TokensOnlyAdvance` is the action property and `GateImplementsPromise` the
refinement, both from the invariant.

`NothingGoesUnrecorded` states `OnRecord` where nothing fails: an approved action's token is in
the ledger or in the hands of a handler that has only the plan's status and the entry left
to write, and so is every token that was used, by its own entry. `ApprovalsDue` and
`StartsDue` say that the step that approves or starts an action leaves its handler in that
place, `RecordsComing` that a handler in that place stays there or writes, `LedgerGrows` that
what is written stays. That it gets to write is liveness.

**Ledger.** `LedgerInvariant` proves `LedgerInv`: rows are linked, the counter carries the
tip, a transaction about to write owns its counter row and has read the latest
version of it (`WriterInv`), and whoever owns a counter row is at work on that very row
(`OwnerInv`). Without `WriterInv` a commit could build on a stale tip; without `OwnerInv` a
wait could go in a circle, and `NoCircularWaits` (`WaitsEnd`) is its consequence: the owner that
somebody waits for waits for nobody.

`AppendedChainsVerify` is that linked chains are intact (`LinkedIntact`), because in rows
of growing number the previous hash `verify_ledger` computes is the preceding row's
(`PrevOfOrdered`). `TamperingShows` rests on `HashTells`: let rows `M` verify from row 1
and end in a hash of the chain. Equal hashes are of equal numbers, texts and previous hashes
(`DigestTells`), so where `M` and the chain agree in a row's hash they agree in the row
before it; going back from the last row (`AgreeBackwards`, by the least distance at which they
would differ) they agree in all that is hashed, and where one begins the other does.
`HashTells` is about every sequence of rows, which is more than the tables of
`TamperEvident`: `RewrittenChainsShow` says so of all of them, which TLC could not enumerate,
and `CopiesAreRows` and `ForgedAreRows` bring the enumerable ones under it.

Three theorems say what `verify_ledger` does not do. `PartialVerificationsFail`: from any row
but the first it reports a break of an untouched chain, for it starts with a null
(`0005:298`). `TruncationsVerify`: each
beginning of a chain verifies, so rows missing at the end show only against a hash
kept elsewhere. `SameTextUnseen`: an entry changed to another of the same text keeps its
hash. `AppendsAreAtomic` is the refinement.

**Agent runs.** `RunInvariant` proves `RunInv`: `InvocationGood` says what an invocation has
written and done by its place in `invoke`, `CallerGood` that a caller about to close its row
as succeeded has the reply of an invocation that succeeded. A row alone would not
be inductive: what it says was decided in another process, whose reply is final
once sent. `OneStoryPerRun`, `RowsTellTruth` and the refinement `RunsAreAudited` follow.

**Requests of the BFF.** `BffInvariant` proves `BffInv`. `RetryNotExecuted` is not
inductive: a retry whose lookup missed a response would run later, so `RetryGood` says it
of a call about to run as well. That needs the response a retry looks for to be the only
one with its key (`OneStoredResponse`): of two orderly calls with one key only one can have
run. `SwitchGood` ties an engaged record to the call that engaged it, from which
`HaltsHaveEngagers` follows for whichever tenant is halted. `ResumptionsArePurposeful` is
the action property.

**Model gateway.** `GatewayInvariant` adds to `NoNeedlessEgress` that the text of a call is
what composing its request gives (`CompletionGood`).

**Vault.** `VaultInvariant` adds that a seal past its put has a version with its lock
(`SealGood`), which deletion preserves because it takes what has passed only.
**Membership.** `MembershipInvariant` adds what a request knows at each stage
(`VisitGood`): one about to join has a default tenant, one about to lead is a member or
onboarded. Tenants are never deleted, which keeps `Oldest`. **Gap scan.**
`GapScanInvariant` adds that a submission to the site is in its cache, or evicted, from
before its row is inserted, and that a row is of whom the submission was made to
(`CachedFirst`), for a new entry is never the one that is pruned (`NewEntryIsCached`, from a
limit of at least one). What a request did not find is then lost for good (`Lost`), as a
submission keeps its session and place (`SubmissionsStay`).

**Assessment.** The properties are about sums over a control's questions and the order of
a library of any length. The library's induction theorems take a predicate for a parameter and
cannot be used here; `FiniteFacts` argues by a least counterexample instead, from a theorem
that speaks of sets (`WFMin`): a set of numbers has a least element, a set of subsets a minimal one. From that
follow that the fold behind `Sum` solves its recursive equation (`SumsSolve`), has a
natural number for a value (`SumType`) and grows with each of its terms (`SumMonotone`). `PlansEscalateByTotal`
needs that the points of one control are at most 50 (`RiskIsBounded`), so that no single action
reaches the threshold. `PlansAreOrdered` (`WorstFirst`): "before" is a strict total order
on the controls, hence ranks respect it (`RanksOrdered`) and, being as many as the controls,
each is taken (`EachRankIsTaken`); a plan then has each finding once, its scores falling.
`BetterAnswersHelp` is the action property, for libraries of any length whose controls have
at most three questions: scores grow with the answers (`ScoreGrows`,
by the finite table of `ScoreTable`), rounding is monotone, and so are sums.

**Model-checked only.** `EveryRequestAnswered` (of agent runs) and
`EveryAppendEnds`: liveness under fairness and `ENABLED` are beyond the prover. What is proved
towards them is what would block appends: `NoCircularWaits`. The violations are
counterexamples and are TLC's by nature.

## 5. Not modelled

Most of the repository's lines carry no state of the system: some 18,000 lines of React
pages and components, four copies of a vendored `support.js` (7,600 lines), the control
library's data (1,680) and the schemas of the shared packages. They are why the modelled
share of the repository is small.

* User interface, design system, infrastructure (Terraform, Helm, Docker), scripts
  and documents. The approval console keeps a simulation of an approval in the browser's
  local storage, moved by timers; it sends nothing and no other part reads it.
* Engagement workflow: `args` is given a dict where a sequence is taken, so that the first
  activity receives the names of its arguments and fails; two of the endpoints it calls do
  not exist. What it is meant to do is not what this code does.
* Row-level security and roles: declarative, evaluated by Postgres; the BFF uses
  the service role.
* Karya: a stub that checks a token and answers without changing anything; its run is one
  step of `AgentRun`. The dispatch of an execution goes to an endpoint that only logs.
* The agents other than Parikshan, Sudhaar, Saakshi and Lekha: stateless functions of their
  input inside the one step `AgentRun` gives them.
* The gateway's `chat/completions`, which echoes its prompt and asks no provider; its
  costs, which are those of the route and not of the provider that answered.
* The vault on Google Cloud, where the bucket's policy sets the retention; legal hold and
  `verify_integrity`.
* The scoring of the gap scan, a twin of Parikshan's.
* Authentication and the bypasses of development environments: they change no state.
* The entry onboarding appends without waiting for it; the in-memory ledger of an
  unconfigured runtime.
* The fields of messages, hashes and reports that no property speaks of.
* The realtime channel: nobody waits for it and no state depends on it.

## 6. Plan

Done: `ExecutionGate`, `AuditLedger`, `AgentRun` with their abstract specifications;
`BffRequests` over `KillSwitch`; `ModelGateway`, `EvidenceVault`, `Membership`, `GapScan`;
`Assessment`; each checked and proved.

Left to prove, in order of importance:

1. The gate with the kill switch of `KillSwitch` for its flag: what a halt of one tenant
   guarantees for requests that start after it.
2. `TokenGate`, `AppendOnlyLog` and `AuditedRun` by themselves: that what each promises
   follows from its own actions.

Left to model:

1. `ApprovalToken`: verify's checks in both languages, compared with one another, once
   Karya executes.
2. The dispatch of an execution to the runtime, once its endpoint does more than log.
3. `EngagementWorkflow`: activities at least once and the wait against both timeouts, once
   the workflow runs.
