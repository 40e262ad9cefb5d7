--------------------------- MODULE ExecutionGate_proofs ---------------------------
(***************************************************************************)
(* Proofs about ExecutionGate, for every set of plans, actions, requests,  *)
(* replicas and keys, every bound on tokens and every set of faults.       *)
(***************************************************************************)
EXTENDS ExecutionGateInv, TLAPS

-----------------------------------------------------------------------------
(* Type correctness. *)

\* The initial state is well typed.
LEMMA TypeInit == Init => TypeOK
BY GateAssumption
   DEF Init, TypeOK, PlanStatus, ActionRow, TokenRow, Entry, Handler, Steps, Process,
       Idle, FreshProcess, Token, NoToken

\* An idle slot is a well-typed handler.
LEMMA IdleType == Idle \in Handler
BY DEF Idle, Handler, Steps, NoToken

\* Moving a handler to a next step, or returning, keeps the handlers typed.
LEMMA GotoType ==
  ASSUME TypeOK, NEW r \in Request, NEW pc \in Steps, Goto(r, pc) \/ Return(r)
  PROVE  handlers' \in [Request -> Handler]
BY IdleType DEF TypeOK, Goto, Return, Handler

\* A handler stays typed when approve keeps the id of the inserted token.
LEMMA HoldsToken ==
  ASSUME NEW h \in Handler, NEW pc \in Steps, NEW t \in Token
  PROVE  [h EXCEPT !.pc = pc, !.tok = t] \in Handler
BY DEF Handler

\* A handler stays typed when execute enters its per-action loop.
LEMMA EntersLoop ==
  ASSUME NEW h \in Handler, NEW pc \in Steps, NEW todo \in SUBSET Action
  PROVE  [h EXCEPT !.pc = pc, !.todo = todo] \in Handler
BY DEF Handler

\* A handler stays typed over one turn of the per-action loop.
LEMMA TurnsLoop ==
  ASSUME NEW h \in Handler, NEW pc \in Steps, NEW todo \in SUBSET Action, NEW ok \in SUBSET Action
  PROVE  [h EXCEPT !.pc = pc, !.todo = todo, !.ok = ok] \in Handler
BY DEF Handler

\* The fields of a well-typed handler.
LEMMA HandlerFields ==
  ASSUME TypeOK, NEW r \in Request
  PROVE  /\ handlers[r] \in Handler
         /\ handlers[r].pc \in Steps
         /\ handlers[r].at \in Replica \union {None}
         /\ handlers[r].plan \in Plan \union {None}
         /\ handlers[r].acts \in SUBSET Action
         /\ handlers[r].tok \in Token \union {NoToken}
         /\ handlers[r].todo \in SUBSET Action
         /\ handlers[r].ok \in SUBSET Action
         /\ handlers[r].key \in Key \union {None}
<1>1. handlers[r] \in Handler
  BY DEF TypeOK
<1>2. QED
  BY <1>1 DEF Handler

\* A request in flight runs on a replica for a plan, and holds a token where its step needs one.
LEMMA LiveHandler ==
  ASSUME HandlerInv, NEW r \in Request
  PROVE  /\ ~At(r, "idle") => handlers[r].at \in Replica /\ handlers[r].plan \in Plan
         /\ handlers[r].pc \in ApproveWithToken \union ExecuteSteps => handlers[r].tok \in Token
BY DEF HandlerInv, HandlerGood, At

\* Replacing one handler by a typed one keeps the handlers typed.
LEMMA ReplaceHandler ==
  ASSUME TypeOK, NEW r \in Request, NEW h \in Handler, handlers' = [handlers EXCEPT ![r] = h]
  PROVE  handlers' \in [Request -> Handler]
BY DEF TypeOK

\* An action row stays typed when approve marks it.
LEMMA ApprovedRow ==
  ASSUME NEW x \in ActionRow, NEW t \in Token \union {NoToken}
  PROVE  [x EXCEPT !.approval = "approved", !.tok = t] \in ActionRow
BY DEF ActionRow

\* An action row stays typed when reject skips it.
LEMMA SkippedRow ==
  ASSUME NEW x \in ActionRow
  PROVE  [x EXCEPT !.approval = "skipped"] \in ActionRow
BY DEF ActionRow

\* An action row stays typed when execute marks it.
LEMMA ExecutingRow ==
  ASSUME NEW x \in ActionRow, NEW k \in Key \union {None}
  PROVE  [x EXCEPT !.exec = "executing", !.key = k] \in ActionRow
BY DEF ActionRow

\* Accepting a request keeps the types.
LEMMA TypeStart ==
  ASSUME TypeOK, NEW r \in Request, Start(r) PROVE TypeOK'
<1>1. PICK b \in Replica : \/ \E p \in Plan : StartReject(r, b, p)
                           \/ \E A \in (SUBSET Action) \ {{}} :
                                \/ \E p \in Plan : StartApprove(r, b, p, A)
                                \/ \E t \in Token, k \in Key : StartExecute(r, b, t, A, k)
  BY DEF Start
<1>2. ASSUME NEW p \in Plan, StartReject(r, b, p) PROVE TypeOK'
  BY <1>2 DEF TypeOK, StartReject, Idle, Handler, Steps, NoToken
<1>3. ASSUME NEW A \in SUBSET Action, NEW p \in Plan, StartApprove(r, b, p, A) PROVE TypeOK'
  BY <1>3 DEF TypeOK, StartApprove, Idle, Handler, Steps, NoToken
<1>4. ASSUME NEW A \in SUBSET Action, NEW t \in Token, NEW k \in Key, StartExecute(r, b, t, A, k)
      PROVE  TypeOK'
  <2>1. tokens[t].plan \in Plan \union {None}
    BY DEF TypeOK, TokenRow
  <2>2. QED
    BY <1>4, <2>1 DEF TypeOK, StartExecute, Idle, Handler, Steps, NoToken
<1>5. QED
  BY <1>1, <1>2, <1>3, <1>4

\* The steps of the approve handler keep the types.
LEMMA TypeApprove ==
  ASSUME TypeOK, HandlerInv, NEW r \in Request, ApproveStep(r) PROVE TypeOK'
<1>1. CASE ApproveReadPlan(r)
  BY <1>1, GotoType DEF ApproveReadPlan, Steps, TypeOK
<1>2. CASE ApproveCheckActions(r)
  BY <1>2, GotoType DEF ApproveCheckActions, Steps, TypeOK
<1>3. CASE ApproveInsertToken(r)
  <2>1. handlers' \in [Request -> Handler]
    <3>1. CASE Return(r)
      BY <3>1, GotoType DEF Steps
    <3>2. ASSUME NEW t \in Token,
                 handlers' = [handlers EXCEPT ![r] =
                   [handlers[r] EXCEPT !.pc = "approve_mark", !.tok = t]]
          PROVE  handlers' \in [Request -> Handler]
      BY <3>2, HandlerFields, HoldsToken, ReplaceHandler DEF Steps
    <3>3. QED
      BY <1>3, <3>1, <3>2 DEF ApproveInsertToken
  <2>2. tokens' \in [Token -> TokenRow]
    <3>1. CASE UNCHANGED tokens
      BY <3>1 DEF TypeOK
    <3>2. ASSUME NEW t \in Token,
                 tokens' = [tokens EXCEPT ![t] = [status |-> "issued", plan |-> handlers[r].plan,
                                                  acts |-> handlers[r].acts]]
          PROVE  tokens' \in [Token -> TokenRow]
      BY <3>2, HandlerFields DEF TypeOK, TokenRow
    <3>3. QED
      BY <1>3, <3>1, <3>2 DEF ApproveInsertToken
  <2>3. QED
    BY <1>3, <2>1, <2>2 DEF ApproveInsertToken, TypeOK
<1>4. CASE ApproveMarkActions(r)
  <2>1. handlers' \in [Request -> Handler]
    BY <1>4, GotoType DEF ApproveMarkActions, Steps
  <2>2. actions' \in [Action -> ActionRow]
    <3>1. CASE UNCHANGED actions
      BY <3>1 DEF TypeOK
    <3>2. CASE actions' = [a \in Action |->
                 IF a \in Marked(handlers[r])
                   THEN [actions[a] EXCEPT !.approval = "approved", !.tok = handlers[r].tok]
                   ELSE actions[a]]
      BY <3>2, HandlerFields, ApprovedRow DEF TypeOK
    <3>3. QED
      BY <1>4, <3>1, <3>2 DEF ApproveMarkActions
  <2>3. QED
    BY <1>4, <2>1, <2>2 DEF ApproveMarkActions, TypeOK
<1>5. CASE ApproveMarkPlan(r)
  BY <1>5, GotoType DEF ApproveMarkPlan, Steps, TypeOK, PlanStatus
<1>6. CASE ApproveLedger(r)
  <2>1. handlers[r].plan \in Plan /\ handlers[r].tok \in Token
    BY <1>6, LiveHandler DEF ApproveLedger, At, ApproveWithToken
  <2>2. ledger' \subseteq Entry
    BY <1>6, <2>1 DEF ApproveLedger, Append, Entry, TypeOK
  <2>3. QED
    BY <1>6, <2>2, GotoType DEF ApproveLedger, TypeOK, Steps
<1>7. QED
  BY <1>1, <1>2, <1>3, <1>4, <1>5, <1>6 DEF ApproveStep

\* The steps of the reject handler keep the types.
LEMMA TypeReject ==
  ASSUME TypeOK, HandlerInv, NEW r \in Request, RejectStep(r) PROVE TypeOK'
<1>1. CASE RejectPlan(r)
  BY <1>1, GotoType DEF RejectPlan, TypeOK, Steps, PlanStatus
<1>2. CASE RejectActions(r)
  <2>1. actions' \in [Action -> ActionRow]
    BY <1>2, SkippedRow DEF RejectActions, TypeOK
  <2>2. QED
    BY <1>2, <2>1, GotoType DEF RejectActions, TypeOK, Steps
<1>3. CASE RejectLedger(r)
  <2>1. handlers[r].plan \in Plan
    BY <1>3, LiveHandler DEF RejectLedger, At
  <2>2. ledger' \subseteq Entry
    BY <1>3, <2>1 DEF RejectLedger, Append, Entry, TypeOK
  <2>3. QED
    BY <1>3, <2>2, GotoType DEF RejectLedger, TypeOK, Steps
<1>4. QED
  BY <1>1, <1>2, <1>3 DEF RejectStep

\* The steps of the execute handler keep the types.
LEMMA TypeExecute ==
  ASSUME TypeOK, HandlerInv, NEW r \in Request, ExecuteStep(r) PROVE TypeOK'
<1>1. CASE ExecuteReadToken(r)
  <2>1. handlers' \in [Request -> Handler]
    <3>1. CASE Return(r)
      BY <3>1, GotoType DEF Steps
    <3>2. CASE handlers' = [handlers EXCEPT ![r] =
                 [handlers[r] EXCEPT !.pc = "execute_check", !.todo = handlers[r].acts]]
      BY <3>2, HandlerFields, EntersLoop, ReplaceHandler DEF Steps
    <3>3. QED
      BY <1>1, <3>1, <3>2 DEF ExecuteReadToken
  <2>2. QED
    BY <1>1, <2>1 DEF ExecuteReadToken, TypeOK
<1>2. ASSUME NEW a \in Action, ExecuteCheckAction(r, a) PROVE TypeOK'
  <2>1. PICK todo \in SUBSET Action, ok \in SUBSET Action :
          handlers' = [handlers EXCEPT ![r] =
            [handlers[r] EXCEPT !.pc = AfterCheck(todo, ok), !.todo = todo, !.ok = ok]]
    <3>1. handlers[r].todo \in SUBSET Action /\ handlers[r].ok \in SUBSET Action
      BY DEF TypeOK, Handler
    <3>2. QED
      BY <1>2, <3>1 DEF ExecuteCheckAction
  <2>2. AfterCheck(todo, ok) \in Steps
    BY DEF AfterCheck, Steps
  <2>3. handlers' \in [Request -> Handler]
    BY <2>1, <2>2, HandlerFields, TurnsLoop, ReplaceHandler
  <2>4. QED
    BY <1>2, <2>3 DEF ExecuteCheckAction, TypeOK
<1>3. CASE ExecuteConsume(r)
  <2>1. tokens' \in [Token -> TokenRow]
    <3>1. handlers[r].tok \in Token
      BY <1>3, LiveHandler DEF ExecuteConsume, At, ExecuteSteps
    <3>2. CASE tokens' = [tokens EXCEPT ![handlers[r].tok].status = "consumed"]
      BY <3>1, <3>2 DEF TypeOK, TokenRow
    <3>3. CASE UNCHANGED tokens
      BY <3>3 DEF TypeOK
    <3>4. QED
      BY <1>3, <3>2, <3>3 DEF ExecuteConsume
  <2>2. QED
    BY <1>3, <2>1, GotoType DEF ExecuteConsume, TypeOK, Steps
<1>4. CASE ExecuteMarkActions(r)
  <2>1. actions' \in [Action -> ActionRow]
    <3>1. CASE UNCHANGED actions
      BY <3>1 DEF TypeOK
    <3>2. CASE actions' = [a \in Action |->
                 IF a \in handlers[r].ok
                   THEN [actions[a] EXCEPT !.exec = "executing", !.key = handlers[r].key]
                   ELSE actions[a]]
      BY <3>2, HandlerFields, ExecutingRow DEF TypeOK
    <3>3. QED
      BY <1>4, <3>1, <3>2 DEF ExecuteMarkActions, MarkFailed
  <2>2. uses' \in [Token -> Nat]
    <3>0. handlers[r].tok \in Token
      BY <1>4, LiveHandler DEF ExecuteMarkActions, At, ExecuteSteps
    <3>1. CASE uses' = [uses EXCEPT ![handlers[r].tok] = @ + 1]
      BY <3>0, <3>1 DEF TypeOK
    <3>2. CASE UNCHANGED uses
      BY <3>2 DEF TypeOK
    <3>3. QED
      BY <1>4, <3>1, <3>2 DEF ExecuteMarkActions, MarkFailed
  <2>3. QED
    BY <1>4, <2>1, <2>2, GotoType DEF ExecuteMarkActions, AfterMark, MarkFailed, TypeOK, Steps
<1>5. CASE ExecuteLedger(r)
  <2>1. handlers[r].plan \in Plan /\ handlers[r].tok \in Token
    BY <1>5, LiveHandler DEF ExecuteLedger, At, ExecuteSteps
  <2>2. ledger' \subseteq Entry
    BY <1>5, <2>1 DEF ExecuteLedger, TypeOK, Entry
  <2>3. QED
    BY <1>5, <2>2, GotoType DEF ExecuteLedger, TypeOK, Steps
<1>6. CASE ExecuteDispatch(r)
  <2>1. handlers[r].at \in Replica /\ handlers[r].tok \in Token
    BY <1>6, LiveHandler DEF ExecuteDispatch, At, ExecuteSteps
  <2>2. bff' \in [Replica -> Process]
    BY <1>6, <2>1 DEF ExecuteDispatch, TypeOK, Process
  <2>3. QED
    BY <1>6, <2>2, GotoType DEF ExecuteDispatch, TypeOK, Steps
<1>7. QED
  BY <1>1, <1>2, <1>3, <1>4, <1>5, <1>6 DEF ExecuteStep

\* Kill switch and restarts keep the types.
LEMMA TypeOperate ==
  ASSUME TypeOK, NEW b \in Replica, Operate(b) PROVE TypeOK'
<1>1. CASE EngageKillSwitch(b)
  BY <1>1 DEF EngageKillSwitch, TypeOK, Process
<1>2. CASE ReleaseKillSwitch(b)
  BY <1>2 DEF ReleaseKillSwitch, TypeOK, Process
<1>3. CASE RestartReplica(b)
  BY <1>3, IdleType DEF RestartReplica, TypeOK, Process, FreshProcess
<1>4. QED
  BY <1>1, <1>2, <1>3 DEF Operate

-----------------------------------------------------------------------------
(* What no step undoes. *)

TokensKept ==
  \A t \in Token : ~Unused(t) =>
    /\ tokens'[t].plan = tokens[t].plan
    /\ tokens'[t].acts = tokens[t].acts
    /\ tokens[t].status = "consumed" => tokens'[t].status = "consumed"
    /\ tokens'[t].status # "none"

MarksKept ==
  /\ \A a \in Action : /\ actions'[a].ready = actions[a].ready
                       /\ actions[a].tok # NoToken => actions'[a].tok # NoToken
  /\ \A t \in Token : uses[t] > 0 => uses'[t] > 0

\* What a suspended handler remembers still agrees with the tables if they only grew.
LEMMA KeptHandler ==
  ASSUME TokensKept, MarksKept, NEW r \in Request, HandlerGood(r), handlers'[r] = handlers[r],
         TypeOK
  PROVE  HandlerGood(r)'
<1> DEFINE h == handlers[r]
<1>1. h.acts \subseteq Action /\ h.ok \subseteq Action
  BY HandlerFields
<1>2. Eligible(h.plan, h.acts) => Eligible(h.plan, h.acts)'
  BY <1>1 DEF Eligible, MarksKept
<1>3. h.tok \in Token /\ ~Unused(h.tok) =>
        ~Unused(h.tok)' /\ tokens'[h.tok].plan = tokens[h.tok].plan
                        /\ tokens'[h.tok].acts = tokens[h.tok].acts
  BY DEF TokensKept, Unused
<1>4. (\A a \in h.acts : actions[a].tok # NoToken) => \A a \in h.acts : actions'[a].tok # NoToken
  BY <1>1 DEF MarksKept
<1>5. h.tok \in Token /\ uses[h.tok] > 0 => uses'[h.tok] > 0
  BY DEF MarksKept
<1>6. QED
  BY <1>2, <1>3, <1>4, <1>5 DEF HandlerGood, ExecuteSteps, ApproveWithToken

\* An idle slot remembers nothing that could disagree with the tables.
LEMMA IdleHandler ==
  ASSUME NEW r \in Request, handlers'[r] = Idle PROVE HandlerGood(r)' /\ ~At(r, "execute_mark")'
BY DEF Idle, HandlerGood, At, ApproveWithToken, ExecuteSteps

\* A step that leaves tokens, actions and executions alone needs a look only
\* at the handlers it moves.
LEMMA QuietStep ==
  ASSUME GateInv, TypeOK', LedgerNotAhead', UNCHANGED <<actions, tokens, uses>>,
         \A s \in Request : \/ handlers'[s] = handlers[s]
                            \/ HandlerGood(s)' /\ ~At(s, "execute_mark")'
  PROVE  GateInv'
<1>1. TokensKept /\ MarksKept
  BY DEF TokensKept, MarksKept, Unused
<1>2. HandlerInv'
  BY <1>1, KeptHandler DEF GateInv, HandlerInv
<1>3. MarkerInv'
  BY DEF GateInv, MarkerInv, At
<1>4. (ScopeInv /\ UseInv /\ ApprovedByToken /\ ExecutedUnderToken)'
  BY DEF GateInv, ScopeInv, UseInv, ApprovedByToken, ExecutedUnderToken, Unused, Eligible
<1>5. QED
  BY <1>2, <1>3, <1>4 DEF GateInv

\* The ledger stays behind the tables when it is unchanged and they only grew.
LEMMA KeptLedger ==
  ASSUME GateInv, TokensKept, MarksKept, UNCHANGED ledger PROVE LedgerNotAhead'
<1>1. ASSUME NEW e \in ledger, e.type = "approval.token.issued"
      PROVE  /\ e.tok \in Token /\ ~Unused(e.tok)'
             /\ \A a \in tokens'[e.tok].acts : actions'[a].tok # NoToken
  <2>1. e.tok \in Token /\ ~Unused(e.tok) /\ \A a \in tokens[e.tok].acts : actions[a].tok # NoToken
    BY <1>1 DEF GateInv, LedgerNotAhead
  <2>2. ~Unused(e.tok)' /\ tokens'[e.tok].acts = tokens[e.tok].acts
    BY <2>1 DEF TokensKept, Unused
  <2>3. tokens[e.tok].acts \subseteq Action
    BY <2>1 DEF GateInv, TypeOK, TokenRow
  <2>4. QED
    BY <2>1, <2>2, <2>3 DEF MarksKept
<1>2. ASSUME NEW e \in ledger, e.type = "execution.started", e.tok # NoToken
      PROVE  e.tok \in Token /\ uses'[e.tok] > 0
  BY <1>2 DEF GateInv, LedgerNotAhead, MarksKept
<1>3. QED
  BY <1>1, <1>2 DEF LedgerNotAhead

\* A step that leaves actions, tokens and executions alone undoes nothing.
LEMMA QuietTables ==
  ASSUME UNCHANGED <<actions, tokens, uses>> PROVE TokensKept /\ MarksKept
BY DEF TokensKept, MarksKept, Unused

\* A handler that returns or is cut off leaves nothing to check.
LEMMA Leaves ==
  ASSUME TypeOK, NEW r \in Request, Return(r)
  PROVE  \A s \in Request : \/ handlers'[s] = handlers[s]
                            \/ HandlerGood(s)' /\ ~At(s, "execute_mark")'
<1>1. handlers'[r] = Idle
  BY DEF Return, TypeOK
<1>2. \A s \in Request \ {r} : handlers'[s] = handlers[s]
  BY DEF Return, TypeOK
<1>3. QED
  BY <1>1, <1>2, IdleHandler

\* The same for a handler that moves on to a step whose demands it meets.
LEMMA Advances ==
  ASSUME TypeOK, NEW r \in Request, NEW pc, Goto(r, pc), pc # "execute_mark", HandlerGood(r)'
  PROVE  \A s \in Request : \/ handlers'[s] = handlers[s]
                            \/ HandlerGood(s)' /\ ~At(s, "execute_mark")'
BY DEF Goto, TypeOK, At, Handler

\* Accepting a request keeps the invariant.
LEMMA GateStart ==
  ASSUME GateInv, NEW r \in Request, Start(r) PROVE GateInv'
<1> DEFINE Fine == \A s \in Request : \/ handlers'[s] = handlers[s]
                                      \/ HandlerGood(s)' /\ ~At(s, "execute_mark")'
<1>1. TypeOK' /\ LedgerNotAhead' /\ UNCHANGED <<actions, tokens, uses>>
  <2>1. UNCHANGED <<actions, tokens, uses, ledger>>
    BY DEF Start, StartApprove, StartReject, StartExecute
  <2>2. QED
    BY <2>1, TypeStart, QuietTables, KeptLedger DEF GateInv
<1>2. PICK b \in Replica : \/ \E p \in Plan : StartReject(r, b, p)
                           \/ \E A \in (SUBSET Action) \ {{}} :
                                \/ \E p \in Plan : StartApprove(r, b, p, A)
                                \/ \E t \in Token, k \in Key : StartExecute(r, b, t, A, k)
  BY DEF Start
<1>3. ASSUME NEW p \in Plan, StartReject(r, b, p) PROVE Fine
  BY <1>3 DEF StartReject, GateInv, TypeOK, Idle, HandlerGood, At, ApproveWithToken, ExecuteSteps
<1>4. ASSUME NEW A \in SUBSET Action, NEW p \in Plan, StartApprove(r, b, p, A) PROVE Fine
  BY <1>4 DEF StartApprove, GateInv, TypeOK, Idle, HandlerGood, At, ApproveWithToken, ExecuteSteps
<1>5. ASSUME NEW A \in (SUBSET Action) \ {{}}, NEW t \in Token, NEW k \in Key,
             StartExecute(r, b, t, A, k)
      PROVE  Fine
  <2>1. handlers'[r] = [Idle EXCEPT !.pc = "execute_token", !.at = b, !.plan = tokens[t].plan,
                                    !.acts = A, !.tok = t, !.key = k]
    BY <1>5 DEF StartExecute, GateInv, TypeOK
  <2>2. tokens[t].plan \in Plan /\ ~Unused(t) /\ UNCHANGED tokens
    BY <1>5 DEF StartExecute, GateInv, ScopeInv
  <2>3. HandlerGood(r)' /\ ~At(r, "execute_mark")'
    BY <2>1, <2>2 DEF Idle, HandlerGood, At, ApproveWithToken, ExecuteSteps, Unused
  <2>4. QED
    BY <1>5, <2>3 DEF StartExecute, GateInv, TypeOK
<1>6. QED
  BY <1>1, <1>2, <1>3, <1>4, <1>5, QuietStep

\* The steps of the three handlers that touch no row of actions or tokens.
LEMMA GateQuietSteps ==
  ASSUME GateInv, NEW r \in Request,
         \/ ApproveReadPlan(r) \/ ApproveCheckActions(r) \/ ApproveMarkPlan(r)
         \/ RejectPlan(r) \/ ExecuteReadToken(r) \/ \E a \in Action : ExecuteCheckAction(r, a)
  PROVE  GateInv'
<1> DEFINE Fine == \A s \in Request : \/ handlers'[s] = handlers[s]
                                      \/ HandlerGood(s)' /\ ~At(s, "execute_mark")'
<1>0. TypeOK /\ HandlerInv /\ HandlerGood(r)
  BY DEF GateInv, HandlerInv
<1>1. TypeOK' /\ LedgerNotAhead' /\ UNCHANGED <<actions, tokens, uses>>
  <2>1. UNCHANGED <<actions, tokens, uses, ledger>>
    BY DEF ApproveReadPlan, ApproveCheckActions, ApproveMarkPlan, RejectPlan, ExecuteReadToken,
           ExecuteCheckAction
  <2>2. TypeOK'
    BY <1>0, TypeApprove, TypeReject, TypeExecute DEF ApproveStep, RejectStep, ExecuteStep
  <2>3. QED
    BY <2>1, <2>2, QuietTables, KeptLedger
<1>2. CASE Return(r)
  BY <1>0, <1>1, <1>2, Leaves, QuietStep
<1>3. ASSUME NEW pc, Goto(r, pc), pc # "execute_mark", HandlerGood(r)' PROVE GateInv'
  BY <1>0, <1>1, <1>3, Advances, QuietStep
<1>4. CASE ApproveReadPlan(r)
  <2>1. ASSUME Goto(r, "approve_actions") PROVE HandlerGood(r)'
    BY <1>0, <1>1, <1>4, <2>1
       DEF ApproveReadPlan, At, Goto, TypeOK, Handler, HandlerGood, ApproveWithToken, ExecuteSteps
  <2>2. QED
    BY <1>2, <1>3, <1>4, <2>1 DEF ApproveReadPlan
<1>5. CASE ApproveCheckActions(r)
  <2>1. ASSUME Goto(r, "approve_insert"), Eligible(handlers[r].plan, handlers[r].acts)
        PROVE  HandlerGood(r)'
    BY <1>0, <1>1, <1>5, <2>1
       DEF ApproveCheckActions, At, Goto, TypeOK, Handler, HandlerGood, ApproveWithToken,
           ExecuteSteps, Eligible
  <2>2. QED
    BY <1>2, <1>3, <1>5, <2>1 DEF ApproveCheckActions
<1>6. CASE ApproveMarkPlan(r)
  <2>1. HandlerGood(r)'
    BY <1>0, <1>1, <1>6
       DEF ApproveMarkPlan, At, Goto, TypeOK, Handler, HandlerGood, ApproveWithToken,
           ExecuteSteps, Unused
  <2>2. QED
    BY <1>3, <1>6, <2>1 DEF ApproveMarkPlan
<1>7. CASE RejectPlan(r)
  <2>1. ASSUME Goto(r, "reject_actions") PROVE HandlerGood(r)'
    BY <1>0, <1>1, <1>7, <2>1
       DEF RejectPlan, At, Goto, TypeOK, Handler, HandlerGood, ApproveWithToken, ExecuteSteps
  <2>2. QED
    BY <1>2, <1>3, <1>7, <2>1 DEF RejectPlan
<1>8. CASE ExecuteReadToken(r)
  <2>1. ASSUME handlers' = [handlers EXCEPT ![r] =
                 [handlers[r] EXCEPT !.pc = "execute_check", !.todo = handlers[r].acts]]
        PROVE  Fine
    <3>1. handlers'[r] = [handlers[r] EXCEPT !.pc = "execute_check", !.todo = handlers[r].acts]
      BY <1>0, <2>1 DEF TypeOK
    <3>2. HandlerGood(r)' /\ ~At(r, "execute_mark")'
      BY <1>0, <1>1, <1>8, <3>1, HandlerFields
         DEF ExecuteReadToken, At, Handler, HandlerGood, ApproveWithToken, ExecuteSteps, Unused
    <3>3. QED
      BY <1>0, <2>1, <3>2 DEF TypeOK
  <2>2. QED
    BY <1>1, <1>2, <1>8, <2>1, QuietStep DEF ExecuteReadToken
<1>9. ASSUME NEW a \in Action, ExecuteCheckAction(r, a) PROVE GateInv'
  <2>1. PICK todo \in SUBSET Action, ok \in SUBSET Action :
          /\ handlers' = [handlers EXCEPT ![r] =
               [handlers[r] EXCEPT !.pc = AfterCheck(todo, ok), !.todo = todo, !.ok = ok]]
          /\ ok \subseteq handlers[r].ok \union tokens[handlers[r].tok].acts
    <3> DEFINE left == handlers[r].todo \ {a}
               Moved(ok) == handlers' = [handlers EXCEPT ![r] =
                 [handlers[r] EXCEPT !.pc = AfterCheck(left, ok), !.todo = left, !.ok = ok]]
    <3>1. \/ Moved(handlers[r].ok)
          \/ Moved(handlers[r].ok \union {a}) /\ a \in tokens[handlers[r].tok].acts
      BY <1>9 DEF ExecuteCheckAction, Acceptable
    <3>2. left \in SUBSET Action /\ handlers[r].ok \in SUBSET Action
      BY <1>0, HandlerFields
    <3>3. CASE Moved(handlers[r].ok)
      <4> USE <3>2
      <4> WITNESS left \in SUBSET Action, handlers[r].ok \in SUBSET Action
      <4> QED
        BY <3>3
    <3>4. CASE Moved(handlers[r].ok \union {a}) /\ a \in tokens[handlers[r].tok].acts
      <4>1. handlers[r].ok \union {a} \in SUBSET Action
        BY <3>2
      <4> USE <3>2, <4>1
      <4> WITNESS left \in SUBSET Action, handlers[r].ok \union {a} \in SUBSET Action
      <4> QED
        BY <3>4
    <3>5. QED
      BY <3>1, <3>3, <3>4
  <2>2. handlers'[r] =
          [handlers[r] EXCEPT !.pc = AfterCheck(todo, ok), !.todo = todo, !.ok = ok]
    BY <1>0, <2>1 DEF TypeOK
  <2>3. /\ handlers'[r].pc = AfterCheck(todo, ok)
        /\ handlers'[r].ok = ok
        /\ handlers'[r].at = handlers[r].at
        /\ handlers'[r].plan = handlers[r].plan
        /\ handlers'[r].acts = handlers[r].acts
        /\ handlers'[r].tok = handlers[r].tok
    BY <1>0, <2>2, HandlerFields DEF Handler
  <2>4. /\ handlers[r].at \in Replica /\ handlers[r].plan \in Plan
        /\ handlers[r].tok \in Token /\ ~Unused(handlers[r].tok)
        /\ tokens[handlers[r].tok].plan = handlers[r].plan
        /\ handlers[r].ok \subseteq tokens[handlers[r].tok].acts
    BY <1>0, <1>9 DEF ExecuteCheckAction, At, HandlerGood, ExecuteSteps
  <2>5. /\ AfterCheck(todo, ok) \in {"execute_check", "execute_consume", "execute_ledger"}
        /\ AfterCheck(todo, ok) = "execute_ledger" => ok = {}
        /\ AfterCheck(todo, ok) = "execute_consume" => ok # {}
    BY DEF AfterCheck
  <2>6. HandlerGood(r)' /\ ~At(r, "execute_mark")'
    BY <1>1, <2>1, <2>3, <2>4, <2>5
       DEF At, HandlerGood, ApproveWithToken, ExecuteSteps, Unused
  <2>7. Fine
    BY <1>0, <2>1, <2>6 DEF TypeOK
  <2>8. QED
    BY <1>1, <2>7, QuietStep
<1>10. QED
  BY <1>4, <1>5, <1>6, <1>7, <1>8, <1>9

\* The three appends to the ledger.
LEMMA GateLedgerSteps ==
  ASSUME GateInv, NEW r \in Request, ApproveLedger(r) \/ RejectLedger(r) \/ ExecuteLedger(r)
  PROVE  GateInv'
<1>0. TypeOK /\ HandlerInv /\ HandlerGood(r) /\ LedgerNotAhead
  BY DEF GateInv, HandlerInv
<1>1. TypeOK' /\ UNCHANGED <<actions, tokens, uses>>
  <2>1. TypeOK'
    BY <1>0, TypeApprove, TypeReject, TypeExecute DEF ApproveStep, RejectStep, ExecuteStep
  <2>2. QED
    BY <2>1 DEF ApproveLedger, RejectLedger, ExecuteLedger
<1>2. ASSUME NEW e \in ledger'
      PROVE  \/ e \in ledger
             \/ /\ e.type = "approval.token.issued"
                /\ At(r, "approve_ledger") /\ e.tok = handlers[r].tok
             \/ e.type = "approval.token.invalid"
             \/ /\ e.type = "execution.started" /\ At(r, "execute_ledger")
                /\ e.tok # NoToken => e.tok = handlers[r].tok /\ handlers[r].ok # {}
  <2>1. CASE ApproveLedger(r)
    BY <2>1 DEF ApproveLedger, Append
  <2>2. CASE RejectLedger(r)
    BY <2>2 DEF RejectLedger, Append
  <2>3. CASE ExecuteLedger(r)
    BY <2>3 DEF ExecuteLedger
  <2>4. QED
    BY <2>1, <2>2, <2>3
<1>3. ASSUME At(r, "approve_ledger")
      PROVE  /\ handlers[r].tok \in Token /\ ~Unused(handlers[r].tok)
             /\ \A a \in tokens[handlers[r].tok].acts : actions[a].tok # NoToken
  BY <1>0, <1>3 DEF HandlerGood, At, ApproveWithToken
<1>4. ASSUME At(r, "execute_ledger"), handlers[r].ok # {}
      PROVE  handlers[r].tok \in Token /\ uses[handlers[r].tok] > 0
  BY <1>0, <1>4 DEF HandlerGood, At, ExecuteSteps
<1>5. LedgerNotAhead'
  BY <1>0, <1>1, <1>2, <1>3, <1>4 DEF LedgerNotAhead, Unused
<1>6. \A s \in Request : \/ handlers'[s] = handlers[s]
                         \/ HandlerGood(s)' /\ ~At(s, "execute_mark")'
  <2>1. CASE Return(r)
    BY <1>0, <2>1, Leaves
  <2>2. CASE At(r, "execute_ledger") /\ Goto(r, "execute_dispatch")
    <3>1. HandlerGood(r)'
      BY <1>0, <1>1, <2>2
         DEF At, Goto, TypeOK, Handler, HandlerGood, ApproveWithToken, ExecuteSteps, Unused
    <3>2. QED
      BY <1>0, <2>2, <3>1, Advances
  <2>3. QED
    BY <2>1, <2>2 DEF ApproveLedger, RejectLedger, ExecuteLedger
<1>7. QED
  BY <1>1, <1>5, <1>6, QuietStep

\* Dispatch, the kill switch and restarts keep the invariant.
LEMMA GateDispatchAndOperate ==
  ASSUME GateInv, (\E r \in Request : ExecuteDispatch(r)) \/ (\E b \in Replica : Operate(b))
  PROVE  GateInv'
<1>0. TypeOK /\ HandlerInv
  BY DEF GateInv
<1>1. UNCHANGED <<actions, tokens, uses, ledger>>
  BY DEF ExecuteDispatch, Operate, EngageKillSwitch, ReleaseKillSwitch, RestartReplica
<1>2. TypeOK'
  BY <1>0, TypeExecute, TypeOperate DEF ExecuteStep
<1>3. LedgerNotAhead'
  BY <1>1, QuietTables, KeptLedger
<1>4. \A s \in Request : \/ handlers'[s] = handlers[s]
                         \/ HandlerGood(s)' /\ ~At(s, "execute_mark")'
  <2>1. ASSUME NEW r \in Request, ExecuteDispatch(r)
        PROVE  \A s \in Request : \/ handlers'[s] = handlers[s]
                                  \/ HandlerGood(s)' /\ ~At(s, "execute_mark")'
    BY <1>0, <2>1, Leaves DEF ExecuteDispatch
  <2>2. ASSUME NEW b \in Replica, Operate(b), NEW s \in Request
        PROVE  \/ handlers'[s] = handlers[s]
               \/ HandlerGood(s)' /\ ~At(s, "execute_mark")'
    <3>1. handlers'[s] = handlers[s] \/ handlers'[s] = Idle
      BY <2>2 DEF Operate, EngageKillSwitch, ReleaseKillSwitch, RestartReplica
    <3>2. QED
      BY <3>1, IdleHandler
  <2>3. QED
    BY <2>1, <2>2
<1>5. QED
  BY <1>1, <1>2, <1>3, <1>4, QuietStep

\* The steps that write tokens or actions preserve what is said of handlers
\* as soon as they undo nothing.
LEMMA LoudHandlers ==
  ASSUME GateInv, TokensKept, MarksKept, NEW r \in Request,
         \A s \in Request \ {r} : handlers'[s] = handlers[s], HandlerGood(r)'
  PROVE  HandlerInv'
BY KeptHandler DEF GateInv, HandlerInv

\* A step of one request leaves the other handlers as they were.
LEMMA OtherHandlers ==
  ASSUME TypeOK, NEW r \in Request, NEW pc, Goto(r, pc) \/ Return(r)
  PROVE  \A s \in Request \ {r} : handlers'[s] = handlers[s]
BY DEF TypeOK, Goto, Return

\* Scopes stay eligible while plans of actions and readiness are untouched.
LEMMA KeptScopes ==
  ASSUME GateInv, TokensKept, MarksKept, UNCHANGED <<uses>>,
         \A t \in Token : Unused(t) => Unused(t)'
  PROVE  ScopeInv' /\ UseInv'
<1>1. ASSUME NEW t \in Token, ~Unused(t)'
      PROVE  tokens'[t].plan \in Plan /\ Eligible(tokens[t].plan, tokens[t].acts)'
  <2>1. /\ tokens'[t].plan = tokens[t].plan /\ tokens'[t].acts = tokens[t].acts
        /\ tokens[t].plan \in Plan /\ Eligible(tokens[t].plan, tokens[t].acts)
        /\ tokens[t].acts \subseteq Action
    BY <1>1 DEF TokensKept, GateInv, ScopeInv, TypeOK, TokenRow
  <2>2. QED
    BY <2>1 DEF Eligible, MarksKept
<1>2. UseInv'
  BY DEF GateInv, UseInv, TokensKept, Unused
<1>3. QED
  BY <1>1, <1>2 DEF ScopeInv

\* Executing actions stay covered while tokens are only consumed and counted.
LEMMA KeptExecutions ==
  ASSUME GateInv, TokensKept, MarksKept, TypeOK',
         \A t \in Token : uses'[t] >= uses[t],
         \A a \in Action : actions'[a].exec = "executing" => actions[a].exec = "executing"
  PROVE  ExecutedUnderToken'
<1>1. ASSUME NEW a \in Action, actions'[a].exec = "executing"
      PROVE  /\ actions'[a].ready
             /\ \E t \in Token : /\ tokens'[t].status = "consumed" /\ uses'[t] > 0
                                 /\ tokens'[t].plan = PlanOf[a] /\ a \in tokens'[t].acts
  <2>1. PICK t \in Token : /\ tokens[t].status = "consumed" /\ uses[t] > 0
                           /\ tokens[t].plan = PlanOf[a] /\ a \in tokens[t].acts
    BY <1>1 DEF GateInv, ExecutedUnderToken
  <2>2. uses'[t] > 0
    BY <2>1 DEF GateInv, TypeOK
  <2>3. QED
    BY <1>1, <2>1, <2>2 DEF GateInv, ExecutedUnderToken, TokensKept, MarksKept, Unused
<1>2. QED
  BY <1>1 DEF ExecutedUnderToken

\* Approved actions stay backed when no row is newly approved.
LEMMA KeptApprovals ==
  ASSUME GateInv, TokensKept,
         \A a \in Action : actions'[a].approval = "approved" =>
                             actions[a].approval = "approved" /\ actions'[a].tok = actions[a].tok
  PROVE  ApprovedByToken'
<1>1. ASSUME NEW a \in Action, actions'[a].approval = "approved"
      PROVE  /\ actions'[a].tok # NoToken /\ ~Unused(actions[a].tok)'
             /\ actions'[a].tok = actions[a].tok
             /\ a \in tokens'[actions[a].tok].acts
  <2>1. /\ actions'[a].tok = actions[a].tok /\ actions[a].tok # NoToken
        /\ ~Unused(actions[a].tok) /\ a \in tokens[actions[a].tok].acts
    BY <1>1 DEF GateInv, ApprovedByToken
  <2>2. actions[a].tok \in Token
    BY <2>1 DEF GateInv, TypeOK, ActionRow
  <2>3. QED
    BY <2>1, <2>2 DEF TokensKept, Unused
<1>2. QED
  BY <1>1 DEF ApprovedByToken, Unused

\* Inserting a token keeps the invariant: no handler can hold the new row yet.
LEMMA GateInsert ==
  ASSUME GateInv, NEW r \in Request, ApproveInsertToken(r) PROVE GateInv'
<1>0. TypeOK /\ HandlerInv /\ HandlerGood(r) /\ TypeOK'
  BY TypeApprove DEF GateInv, HandlerInv, ApproveStep
<1>1. CASE Return(r) /\ UNCHANGED tokens
  <2>1. UNCHANGED <<actions, uses, ledger>>
    BY DEF ApproveInsertToken
  <2>2. LedgerNotAhead'
    BY <1>1, <2>1, QuietTables, KeptLedger
  <2>3. QED
    BY <1>0, <1>1, <2>1, <2>2, Leaves, QuietStep
<1>2. ASSUME NEW t \in Token, NextToken(t),
             tokens' = [tokens EXCEPT ![t] =
               [status |-> "issued", plan |-> handlers[r].plan, acts |-> handlers[r].acts]],
             \/ handlers' = [handlers EXCEPT ![r] =
                               [handlers[r] EXCEPT !.pc = "approve_mark", !.tok = t]]
             \/ Return(r)
      PROVE  GateInv'
  <2>1. UNCHANGED <<plans, actions, ledger, bff, uses>>
    BY DEF ApproveInsertToken
  <2>2. Unused(t) /\ \A u \in Token \ {t} : tokens'[u] = tokens[u]
    BY <1>0, <1>2 DEF NextToken, TypeOK
  <2>3. /\ tokens'[t].status = "issued" /\ tokens'[t].plan = handlers[r].plan
        /\ tokens'[t].acts = handlers[r].acts
    BY <1>0, <1>2 DEF TypeOK
  <2>4. TokensKept /\ MarksKept
    BY <2>1, <2>2 DEF TokensKept, MarksKept, Unused
  <2>5. handlers[r].plan \in Plan /\ Eligible(handlers[r].plan, handlers[r].acts)
    BY <1>0 DEF ApproveInsertToken, At, HandlerGood
  <2>6. ScopeInv'
    <3>1. ASSUME NEW u \in Token, ~Unused(u)'
          PROVE  tokens'[u].plan \in Plan /\ Eligible(tokens[u].plan, tokens[u].acts)'
      BY <2>1, <2>2, <2>3, <2>5, <3>1 DEF GateInv, ScopeInv, Unused, Eligible
    <3>2. QED
      BY <3>1 DEF ScopeInv
  <2>7. UseInv'
    BY <2>1, <2>2, <2>4 DEF GateInv, UseInv, Unused, TokensKept
  <2>8. \A s \in Request \ {r} : handlers'[s] = handlers[s]
    BY <1>0, <1>2, OtherHandlers DEF TypeOK
  <2>9. HandlerGood(r)' /\ ~At(r, "execute_mark")'
    <3>1. CASE Return(r)
      BY <1>0, <3>1, IdleHandler DEF Return, TypeOK
    <3>2. CASE handlers' = [handlers EXCEPT ![r] =
                              [handlers[r] EXCEPT !.pc = "approve_mark", !.tok = t]]
      <4>1. /\ handlers'[r].pc = "approve_mark" /\ handlers'[r].tok = t
            /\ handlers'[r].at = handlers[r].at /\ handlers'[r].plan = handlers[r].plan
            /\ handlers'[r].acts = handlers[r].acts
        BY <1>0, <3>2, HandlerFields DEF TypeOK, Handler
      <4>2. handlers[r].at \in Replica
        BY <1>0 DEF ApproveInsertToken, At, HandlerGood
      <4>3. QED
        BY <2>3, <2>5, <4>1, <4>2 DEF HandlerGood, At, Unused, ApproveWithToken, ExecuteSteps
    <3>3. QED
      BY <1>2, <3>1, <3>2
  <2>10. HandlerInv'
    BY <2>4, <2>8, <2>9, LoudHandlers
  <2>11. MarkerInv'
    BY <2>1, <2>2, <2>8, <2>9 DEF GateInv, HandlerInv, MarkerInv, At, Unused, HandlerGood,
                                 ExecuteSteps
  <2>12. ApprovedByToken'
    BY <2>1, <2>4, KeptApprovals
  <2>13. ExecutedUnderToken'
    BY <1>0, <2>1, <2>4, KeptExecutions DEF TypeOK
  <2>14. LedgerNotAhead'
    BY <2>1, <2>4, KeptLedger
  <2>15. QED
    BY <1>0, <2>6, <2>7, <2>10, <2>11, <2>12, <2>13, <2>14 DEF GateInv
<1>3. QED
  BY <1>1, <1>2 DEF ApproveInsertToken

\* Marking the actions approved keeps the invariant.
LEMMA GateMarkActions ==
  ASSUME GateInv, NEW r \in Request, ApproveMarkActions(r) PROVE GateInv'
<1> DEFINE h == handlers[r]
<1>0. TypeOK /\ HandlerInv /\ HandlerGood(r) /\ TypeOK'
  BY TypeApprove DEF GateInv, HandlerInv, ApproveStep
<1>1. UNCHANGED <<plans, tokens, ledger, bff, uses>>
  BY DEF ApproveMarkActions
<1>2. CASE Return(r) /\ UNCHANGED actions
  <2>1. LedgerNotAhead'
    BY <1>1, <1>2, QuietTables, KeptLedger
  <2>2. QED
    BY <1>0, <1>1, <1>2, <2>1, Leaves, QuietStep
<1>3. CASE /\ actions' = [a \in Action |->
                IF a \in Marked(h) THEN [actions[a] EXCEPT !.approval = "approved", !.tok = h.tok]
                                   ELSE actions[a]]
           /\ Goto(r, "approve_status") \/ Return(r)
  <2>1. /\ h.tok \in Token /\ ~Unused(h.tok) /\ tokens[h.tok].plan = h.plan
        /\ tokens[h.tok].acts = h.acts /\ h.at \in Replica /\ h.plan \in Plan
        /\ h.acts \subseteq Action
    BY <1>0, HandlerFields DEF ApproveMarkActions, At, HandlerGood, ApproveWithToken
  <2>2. h.acts = Marked(h)
    BY <2>1 DEF GateInv, ScopeInv, Eligible, Marked
  <2>3. \A a \in Action : /\ actions[a] \in ActionRow
                          /\ actions'[a] = IF a \in h.acts
                               THEN [actions[a] EXCEPT !.approval = "approved", !.tok = h.tok]
                               ELSE actions[a]
    BY <1>0, <1>3, <2>2 DEF TypeOK
  <2>4. \A a \in Action : /\ actions'[a].ready = actions[a].ready
                          /\ actions'[a].exec = actions[a].exec
                          /\ a \in h.acts => actions'[a].tok = h.tok
                          /\ a \notin h.acts => actions'[a] = actions[a]
    BY <2>3 DEF ActionRow
  <2>5. h.tok # NoToken
    BY <2>1, GateAssumption DEF Token, NoToken
  <2>6. TokensKept
    BY <1>1 DEF TokensKept, Unused
  <2>7. MarksKept
    BY <1>1, <2>4, <2>5 DEF MarksKept
  <2>8. ScopeInv' /\ UseInv'
    BY <1>1, <2>6, <2>7, KeptScopes DEF Unused
  <2>9. HandlerGood(r)' /\ ~At(r, "execute_mark")'
    <3>1. CASE Return(r)
      BY <1>0, <3>1, IdleHandler DEF Return, TypeOK
    <3>2. CASE Goto(r, "approve_status")
      <4>1. /\ handlers'[r].pc = "approve_status" /\ handlers'[r].tok = h.tok
            /\ handlers'[r].at = h.at /\ handlers'[r].plan = h.plan /\ handlers'[r].acts = h.acts
        BY <1>0, <3>2, HandlerFields DEF Goto, TypeOK, Handler
      <4>2. \A a \in h.acts : actions'[a].tok # NoToken
        BY <2>1, <2>4, <2>5
      <4>3. QED
        BY <1>1, <2>1, <4>1, <4>2 DEF HandlerGood, At, ApproveWithToken, ExecuteSteps, Unused
    <3>3. QED
      BY <1>3, <3>1, <3>2
  <2>10. \A s \in Request \ {r} : handlers'[s] = handlers[s]
    BY <1>0, <1>3, OtherHandlers
  <2>11. HandlerInv'
    BY <2>6, <2>7, <2>9, <2>10, LoudHandlers
  <2>12. MarkerInv'
    BY <1>1, <2>9, <2>10 DEF GateInv, MarkerInv, At
  <2>13. ApprovedByToken'
    BY <1>1, <2>1, <2>4, <2>5 DEF GateInv, ApprovedByToken, Unused
  <2>14. ExecutedUnderToken'
    BY <1>0, <1>1, <2>4, <2>6, <2>7, KeptExecutions DEF TypeOK
  <2>15. LedgerNotAhead'
    BY <1>1, <2>6, <2>7, KeptLedger
  <2>16. QED
    BY <1>0, <2>8, <2>11, <2>12, <2>13, <2>14, <2>15 DEF GateInv
<1>4. QED
  BY <1>2, <1>3 DEF ApproveMarkActions

\* Skipping the actions of a plan keeps the invariant.
LEMMA GateRejectActions ==
  ASSUME GateInv, NEW r \in Request, RejectActions(r) PROVE GateInv'
<1>0. TypeOK /\ HandlerInv /\ HandlerGood(r) /\ TypeOK'
  BY TypeReject DEF GateInv, HandlerInv, RejectStep
<1>1. UNCHANGED <<plans, tokens, ledger, bff, uses>> /\ Goto(r, "reject_ledger")
  BY DEF RejectActions
<1>2. \A a \in Action : /\ actions'[a].ready = actions[a].ready
                        /\ actions'[a].exec = actions[a].exec
                        /\ actions'[a].tok = actions[a].tok
                        /\ actions'[a].approval \in {actions[a].approval, "skipped"}
  <2>1. CASE UNCHANGED actions
    BY <2>1
  <2>2. CASE actions' = [a \in Action |->
               IF PlanOf[a] = handlers[r].plan /\ Rejectable(a)
                 THEN [actions[a] EXCEPT !.approval = "skipped"] ELSE actions[a]]
    BY <1>0, <2>2 DEF TypeOK, ActionRow
  <2>3. QED
    BY <2>1, <2>2 DEF RejectActions
<1>3. TokensKept /\ MarksKept
  BY <1>1, <1>2 DEF TokensKept, MarksKept, Unused
<1>4. ScopeInv' /\ UseInv'
  BY <1>1, <1>3, KeptScopes DEF Unused
<1>5. HandlerGood(r)' /\ ~At(r, "execute_mark")'
  <2>1. handlers[r].at \in Replica /\ handlers[r].plan \in Plan
    BY <1>0 DEF RejectActions, At, HandlerGood
  <2>2. /\ handlers'[r].pc = "reject_ledger" /\ handlers'[r].at = handlers[r].at
        /\ handlers'[r].plan = handlers[r].plan
    BY <1>0, <1>1, HandlerFields DEF Goto, TypeOK, Handler
  <2>3. QED
    BY <2>1, <2>2 DEF HandlerGood, At, ApproveWithToken, ExecuteSteps
<1>6. \A s \in Request \ {r} : handlers'[s] = handlers[s]
  BY <1>0, <1>1, OtherHandlers
<1>7. HandlerInv'
  BY <1>3, <1>5, <1>6, LoudHandlers
<1>8. MarkerInv'
  BY <1>1, <1>5, <1>6 DEF GateInv, MarkerInv, At
<1>9. ApprovedByToken'
  BY <1>2, <1>3, KeptApprovals
<1>10. ExecutedUnderToken'
  BY <1>0, <1>1, <1>2, <1>3, KeptExecutions DEF TypeOK
<1>11. LedgerNotAhead'
  BY <1>1, <1>3, KeptLedger
<1>12. QED
  BY <1>0, <1>4, <1>7, <1>8, <1>9, <1>10, <1>11 DEF GateInv

\* Consuming a token keeps the invariant: the conditional update has one winner.
LEMMA GateConsume ==
  ASSUME GateInv, NEW r \in Request, ExecuteConsume(r) PROVE GateInv'
<1> DEFINE h == handlers[r]
           t == handlers[r].tok
<1>0. TypeOK /\ HandlerInv /\ HandlerGood(r) /\ TypeOK'
  BY TypeExecute DEF GateInv, HandlerInv, ExecuteStep
<1>1. UNCHANGED <<plans, actions, ledger, bff, uses>>
  BY DEF ExecuteConsume
<1>2. CASE Return(r) /\ UNCHANGED tokens
  <2>1. LedgerNotAhead'
    BY <1>1, <1>2, QuietTables, KeptLedger
  <2>2. QED
    BY <1>0, <1>1, <1>2, <2>1, Leaves, QuietStep
<1>3. CASE /\ tokens[t].status = "issued"
           /\ tokens' = [tokens EXCEPT ![t].status = "consumed"]
           /\ Goto(r, "execute_mark") \/ Return(r)
  <2>1. /\ t \in Token /\ tokens[t].plan = h.plan /\ h.at \in Replica /\ h.plan \in Plan
        /\ h.ok \subseteq tokens[t].acts /\ h.ok # {}
    BY <1>0 DEF ExecuteConsume, At, HandlerGood, ExecuteSteps
  <2>2. \A u \in Token : /\ tokens'[u].plan = tokens[u].plan
                         /\ tokens'[u].acts = tokens[u].acts
                         /\ u # t => tokens'[u].status = tokens[u].status
                         /\ u = t => tokens'[u].status = "consumed"
    BY <1>0, <1>3, <2>1 DEF TypeOK, TokenRow
  <2>3. TokensKept /\ MarksKept
    BY <1>1, <2>2 DEF TokensKept, MarksKept, Unused
  <2>4. ScopeInv' /\ UseInv'
    BY <1>1, <1>3, <2>2, <2>3, KeptScopes DEF Unused
  <2>5. \A s \in Request \ {r} : handlers'[s] = handlers[s]
    BY <1>0, <1>3, OtherHandlers
  <2>6. uses[t] = 0
    BY <1>0, <1>3, <2>1 DEF GateInv, UseInv, TypeOK
  <2>7. /\ HandlerGood(r)'
        /\ At(r, "execute_mark")' => handlers'[r].tok = t
    <3>1. CASE Return(r)
      BY <1>0, <3>1, IdleHandler DEF Return, TypeOK
    <3>2. CASE Goto(r, "execute_mark")
      <4>1. /\ handlers'[r].pc = "execute_mark" /\ handlers'[r].tok = t
            /\ handlers'[r].at = h.at /\ handlers'[r].plan = h.plan
            /\ handlers'[r].acts = h.acts /\ handlers'[r].ok = h.ok
        BY <1>0, <3>2, HandlerFields DEF Goto, TypeOK, Handler
      <4>2. QED
        BY <2>1, <2>2, <4>1 DEF HandlerGood, At, ApproveWithToken, ExecuteSteps, Unused
    <3>3. QED
      BY <1>3, <3>1, <3>2
  <2>8. HandlerInv'
    BY <2>3, <2>5, <2>7, LoudHandlers
  <2>9. MarkerInv'
    <3>1. \A s \in Request \ {r} : At(s, "execute_mark") =>
            handlers[s].tok # t /\ handlers[s].tok \in Token
      BY <1>0, <1>3 DEF GateInv, MarkerInv, HandlerInv, HandlerGood, At, ExecuteSteps
    <3>2. QED
      BY <1>1, <2>1, <2>2, <2>5, <2>6, <2>7, <3>1 DEF GateInv, MarkerInv, At
  <2>10. ApprovedByToken'
    BY <1>1, <2>3, KeptApprovals
  <2>11. ExecutedUnderToken'
    BY <1>0, <1>1, <2>3, KeptExecutions DEF TypeOK
  <2>12. LedgerNotAhead'
    BY <1>1, <2>3, KeptLedger
  <2>13. QED
    BY <1>0, <2>4, <2>8, <2>9, <2>10, <2>11, <2>12 DEF GateInv
<1>4. QED
  BY <1>2, <1>3 DEF ExecuteConsume, Consumable

\* Marking the actions executing keeps the invariant: the use is the first of its token.
LEMMA GateMarkExecuting ==
  ASSUME GateInv, NEW r \in Request, ExecuteMarkActions(r) PROVE GateInv'
<1> DEFINE h == handlers[r]
           t == handlers[r].tok
<1>0. TypeOK /\ HandlerInv /\ HandlerGood(r) /\ TypeOK'
  BY TypeExecute DEF GateInv, HandlerInv, ExecuteStep
<1>1. UNCHANGED <<plans, ledger, bff, tokens>>
  BY DEF ExecuteMarkActions, MarkFailed
<1>2. CASE Return(r) /\ UNCHANGED <<actions, uses>>
  <2>1. LedgerNotAhead'
    BY <1>1, <1>2, QuietTables, KeptLedger
  <2>2. QED
    BY <1>0, <1>1, <1>2, <2>1, Leaves, QuietStep
<1>3. CASE /\ actions' = [a \in Action |->
                IF a \in h.ok THEN [actions[a] EXCEPT !.exec = "executing", !.key = h.key]
                              ELSE actions[a]]
           /\ uses' = [uses EXCEPT ![t] = @ + 1]
           /\ Goto(r, "execute_ledger") \/ Return(r)
  <2>1. /\ t \in Token /\ ~Unused(t) /\ tokens[t].plan = h.plan /\ h.at \in Replica
        /\ h.plan \in Plan /\ h.ok \subseteq tokens[t].acts /\ h.ok \subseteq Action
        /\ tokens[t].status = "consumed" /\ uses[t] = 0
        /\ \A s \in Request \ {r} : At(s, "execute_mark") => handlers[s].tok # t
    BY <1>0, HandlerFields
       DEF ExecuteMarkActions, At, HandlerGood, ExecuteSteps, GateInv, MarkerInv
  <2>2. \A a \in Action : /\ actions'[a].ready = actions[a].ready
                          /\ actions'[a].approval = actions[a].approval
                          /\ actions'[a].tok = actions[a].tok
                          /\ a \in h.ok => actions'[a].exec = "executing"
                          /\ a \notin h.ok => actions'[a].exec = actions[a].exec
    <3>1. ASSUME NEW a \in Action
          PROVE  actions[a] \in ActionRow /\
                 actions'[a] = IF a \in h.ok THEN [actions[a] EXCEPT !.exec = "executing", !.key = h.key]
                                              ELSE actions[a]
      BY <1>0, <1>3 DEF TypeOK
    <3>2. QED
      BY <3>1 DEF ActionRow
  <2>3. uses'[t] = 1 /\ \A u \in Token \ {t} : uses'[u] = uses[u]
    <3>1. uses \in [Token -> Nat] /\ t \in Token /\ uses[t] = 0
      BY <1>0, <2>1 DEF TypeOK
    <3>2. uses' = [uses EXCEPT ![t] = uses[t] + 1]
      BY <1>3
    <3>3. uses'[t] = uses[t] + 1 /\ \A u \in Token \ {t} : uses'[u] = uses[u]
      BY <3>1, <3>2
    <3>4. QED
      BY <3>1, <3>3
  <2>4. TokensKept /\ MarksKept
    BY <1>1, <2>2, <2>3 DEF TokensKept, MarksKept, Unused
  <2>5. ScopeInv'
    BY <1>1, <2>2 DEF GateInv, ScopeInv, TypeOK, TokenRow, Eligible, Unused
  <2>6. UseInv'
    BY <1>1, <2>1, <2>3 DEF GateInv, UseInv
  <2>7. \A s \in Request \ {r} : handlers'[s] = handlers[s]
    BY <1>0, <1>3, OtherHandlers
  <2>8. HandlerGood(r)' /\ ~At(r, "execute_mark")'
    <3>1. CASE Return(r)
      BY <1>0, <3>1, IdleHandler DEF Return, TypeOK
    <3>2. CASE Goto(r, "execute_ledger")
      <4>1. /\ handlers'[r].pc = "execute_ledger" /\ handlers'[r].tok = t
            /\ handlers'[r].at = h.at /\ handlers'[r].plan = h.plan
            /\ handlers'[r].acts = h.acts /\ handlers'[r].ok = h.ok
        BY <1>0, <3>2, HandlerFields DEF Goto, TypeOK, Handler
      <4>2. QED
        BY <1>1, <2>1, <2>3, <4>1 DEF HandlerGood, At, ApproveWithToken, ExecuteSteps, Unused
    <3>3. QED
      BY <1>3, <3>1, <3>2
  <2>9. HandlerInv'
    BY <2>4, <2>7, <2>8, LoudHandlers
  <2>10. MarkerInv'
    <3>1. \A s \in Request : At(s, "execute_mark") => handlers[s].tok \in Token
      BY <1>0 DEF HandlerInv, HandlerGood, At, ExecuteSteps
    <3>2. QED
      BY <1>1, <2>1, <2>3, <2>7, <2>8, <3>1 DEF GateInv, MarkerInv, At
  <2>11. ApprovedByToken'
    BY <2>2, <2>4, KeptApprovals
  <2>12. ExecutedUnderToken'
    <3>1. ASSUME NEW a \in Action, a \in h.ok
          PROVE  actions'[a].ready /\ tokens[t].plan = PlanOf[a] /\ a \in tokens[t].acts
      BY <2>1, <2>2, <3>1 DEF GateInv, ScopeInv, Eligible
    <3>2. QED
      BY <1>1, <2>1, <2>2, <2>3, <3>1 DEF GateInv, ExecutedUnderToken
  <2>13. LedgerNotAhead'
    BY <1>1, <2>4, KeptLedger
  <2>14. QED
    BY <1>0, <2>5, <2>6, <2>9, <2>10, <2>11, <2>12, <2>13 DEF GateInv
<1>4. QED
  BY <1>2, <1>3 DEF ExecuteMarkActions, AfterMark, MarkFailed

-----------------------------------------------------------------------------
(* The theorems. *)

\* The invariant holds initially.
LEMMA GateInit == Init => GateInv
<1> SUFFICES ASSUME Init PROVE GateInv
  OBVIOUS
<1>1. TypeOK
  BY TypeInit
<1>2. ScopeInv /\ UseInv
  BY DEF Init, ScopeInv, UseInv, Unused
<1>3. HandlerInv /\ MarkerInv
  BY DEF Init, HandlerInv, HandlerGood, MarkerInv, At, Idle, ApproveWithToken, ExecuteSteps
<1>4. ApprovedByToken /\ ExecutedUnderToken /\ LedgerNotAhead
  BY DEF Init, ApprovedByToken, ExecutedUnderToken, LedgerNotAhead
<1>5. QED
  BY <1>1, <1>2, <1>3, <1>4 DEF GateInv

\* Stuttering keeps the invariant.
LEMMA GateStutter == ASSUME GateInv, UNCHANGED vars PROVE GateInv'
<1>1. TypeOK' /\ LedgerNotAhead'
  BY DEF vars, GateInv, TypeOK, LedgerNotAhead, Unused
<1>2. UNCHANGED <<actions, tokens, uses>> /\ \A s \in Request : handlers'[s] = handlers[s]
  BY DEF vars
<1>3. QED
  BY <1>1, <1>2, QuietStep

\* Every step keeps the invariant.
LEMMA GateNext == GateInv /\ [Next]_vars => GateInv'
<1> SUFFICES ASSUME GateInv, [Next]_vars PROVE GateInv'
  OBVIOUS
<1>1. ASSUME NEW r \in Request, ApproveStep(r) PROVE GateInv'
  BY <1>1, GateQuietSteps, GateInsert, GateMarkActions, GateLedgerSteps DEF ApproveStep
<1>2. ASSUME NEW r \in Request, RejectStep(r) PROVE GateInv'
  BY <1>2, GateQuietSteps, GateRejectActions, GateLedgerSteps DEF RejectStep
<1>3. ASSUME NEW r \in Request, ExecuteStep(r) PROVE GateInv'
  BY <1>3, GateQuietSteps, GateConsume, GateMarkExecuting, GateLedgerSteps, GateDispatchAndOperate
     DEF ExecuteStep
<1>4. ASSUME NEW r \in Request, Start(r) PROVE GateInv'
  BY <1>4, GateStart
<1>5. ASSUME NEW b \in Replica, Operate(b) PROVE GateInv'
  BY <1>5, GateDispatchAndOperate
<1>6. CASE UNCHANGED vars
  BY <1>6, GateStutter
<1>7. QED
  BY <1>1, <1>2, <1>3, <1>4, <1>5, <1>6 DEF Next, HandlerStep

\* The inductive invariant holds in every reachable state of the gate, whatever
\* the requests, replicas and failures.
THEOREM GateInvariant == Spec => []GateInv
BY GateInit, GateNext, PTL DEF Spec

\* Every column the handlers read or write always holds a value of its type.
THEOREM TypeCorrect == Spec => []TypeOK
<1>1. GateInv => TypeOK
  BY DEF GateInv
<1>2. QED
  BY <1>1, GateInvariant, PTL

\* No approval token ever records two executions, whatever races, lost
\* replies or restarts the execute handler meets.
THEOREM TokenUsedOnce == Spec => []SingleUse
<1>1. GateInv => SingleUse
  BY DEF GateInv, UseInv, SingleUse
<1>2. QED
  BY <1>1, GateInvariant, PTL

\* Nothing starts but under a consumed token of its plan that names it.
THEOREM NothingUnapprovedStarts == Spec => []ExecutedUnderToken
<1>1. GateInv => ExecutedUnderToken
  BY DEF GateInv
<1>2. QED
  BY <1>1, GateInvariant, PTL

\* The approval of an action is always backed by a registered token.
THEOREM ApprovalIsBacked == Spec => []ApprovedByToken
<1>1. GateInv => ApprovedByToken
  BY DEF GateInv
<1>2. QED
  BY <1>1, GateInvariant, PTL

\* The handlers' ledger entries are never ahead of the tables.
THEOREM LedgerFollowsTables == Spec => []LedgerNotAhead
<1>1. GateInv => LedgerNotAhead
  BY DEF GateInv
<1>2. QED
  BY <1>1, GateInvariant, PTL

\* No step takes a token back or changes its plan or scope.
LEMMA NextKeepsTokens == GateInv /\ [Next]_vars => TokensKept
<1> SUFFICES ASSUME GateInv, [Next]_vars PROVE TokensKept
  OBVIOUS
<1>0. TypeOK
  BY DEF GateInv
<1>1. CASE UNCHANGED tokens
  BY <1>1 DEF TokensKept, Unused
<1>2. ASSUME NEW r \in Request, ApproveInsertToken(r) PROVE TokensKept
  <2>1. ASSUME NEW t \in Token, NextToken(t),
               tokens' = [tokens EXCEPT ![t] =
                 [status |-> "issued", plan |-> handlers[r].plan, acts |-> handlers[r].acts]]
        PROVE  TokensKept
    BY <1>0, <2>1 DEF TypeOK, TokensKept, NextToken, Unused
  <2>2. QED
    BY <1>1, <1>2, <2>1 DEF ApproveInsertToken
<1>3. ASSUME NEW r \in Request, ExecuteConsume(r) PROVE TokensKept
  <2>1. handlers[r].tok \in Token
    BY <1>3, LiveHandler DEF GateInv, ExecuteConsume, At, ExecuteSteps
  <2>2. CASE tokens' = [tokens EXCEPT ![handlers[r].tok].status = "consumed"]
    BY <1>0, <2>1, <2>2 DEF TypeOK, TokenRow, TokensKept, Unused
  <2>3. QED
    BY <1>1, <1>3, <2>2 DEF ExecuteConsume
<1>4. ASSUME NEW r \in Request, ApproveStep(r), ~ApproveInsertToken(r) PROVE UNCHANGED tokens
  BY <1>4 DEF ApproveStep, ApproveReadPlan, ApproveCheckActions, ApproveMarkActions,
              ApproveMarkPlan, ApproveLedger
<1>5. ASSUME NEW r \in Request, RejectStep(r) PROVE UNCHANGED tokens
  BY <1>5 DEF RejectStep, RejectPlan, RejectActions, RejectLedger
<1>6. ASSUME NEW r \in Request, ExecuteStep(r), ~ExecuteConsume(r) PROVE UNCHANGED tokens
  BY <1>6 DEF ExecuteStep, ExecuteReadToken, ExecuteCheckAction, ExecuteMarkActions, MarkFailed,
              ExecuteLedger, ExecuteDispatch
<1>7. ASSUME NEW r \in Request, Start(r) PROVE UNCHANGED tokens
  BY <1>7 DEF Start, StartApprove, StartReject, StartExecute
<1>8. ASSUME NEW b \in Replica, Operate(b) PROVE UNCHANGED tokens
  BY <1>8 DEF Operate, EngageKillSwitch, ReleaseKillSwitch, RestartReplica
<1>9. CASE UNCHANGED vars
  BY <1>1, <1>9 DEF vars
<1>10. QED
  BY <1>1, <1>2, <1>3, <1>4, <1>5, <1>6, <1>7, <1>8, <1>9 DEF Next, HandlerStep

\* A token only ever goes from issued to consumed, with its scope frozen.
THEOREM TokensOnlyAdvance == Spec => TokenLifecycle
<1>1. GateInv /\ [Next]_vars => [TokensKept]_tokens
  BY NextKeepsTokens
<1>2. TokenLifecycle <=> [][TokensKept]_tokens
  BY DEF TokenLifecycle, TokensKept
<1>3. QED
  BY <1>1, <1>2, GateInvariant, PTL DEF Spec

-----------------------------------------------------------------------------
(* The ledger where nothing fails. *)

ToRecord(r) == handlers[r].pc \in {"approve_status", "approve_ledger"}
StartToRecord(r) == At(r, "execute_ledger") /\ handlers[r].ok # {}

\* A handler about to append does so, or stays about to.
LEMMA RecordsComing ==
  ASSUME GateInv, [Next]_vars, Faults = {}, NEW r \in Request
  PROVE  /\ ledger \subseteq ledger'
         /\ ToRecord(r) =>
              \/ ToRecord(r)' /\ handlers'[r].tok = handlers[r].tok
              \/ \E e \in ledger' : e.type = "approval.token.issued" /\ e.tok = handlers[r].tok
         /\ StartToRecord(r) =>
              \/ StartToRecord(r)' /\ handlers'[r].tok = handlers[r].tok
              \/ \E e \in ledger' : e.type = "execution.started" /\ e.tok = handlers[r].tok
<1> DEFINE Fine ==
      /\ ledger \subseteq ledger'
      /\ ToRecord(r) =>
           \/ ToRecord(r)' /\ handlers'[r].tok = handlers[r].tok
           \/ \E e \in ledger' : e.type = "approval.token.issued" /\ e.tok = handlers[r].tok
      /\ StartToRecord(r) =>
           \/ StartToRecord(r)' /\ handlers'[r].tok = handlers[r].tok
           \/ \E e \in ledger' : e.type = "execution.started" /\ e.tok = handlers[r].tok
<1>0. TypeOK /\ ~CallFails /\ ~ReplyLost /\ handlers[r] \in Handler
  BY DEF GateInv, TypeOK, CallFails, ReplyLost
<1>1. CASE ledger \subseteq ledger' /\ handlers'[r] = handlers[r]
  BY <1>1 DEF ToRecord, StartToRecord, At
<1>2. ASSUME NEW s \in Request, ApproveStep(s) PROVE Fine
  <2>1. CASE ApproveMarkPlan(s)
    BY <1>0, <1>1, <2>1 DEF ApproveMarkPlan, Goto, TypeOK, ToRecord, StartToRecord, At, Handler
  <2>2. CASE ApproveLedger(s)
    <3>1. ledger' = ledger \union {[type |-> "approval.token.issued", plan |-> handlers[s].plan,
                                    tok |-> handlers[s].tok, result |-> "success"]}
      BY <1>0, <2>2 DEF ApproveLedger, Append
    <3>2. s # r => handlers'[r] = handlers[r]
      BY <1>0, <2>2 DEF ApproveLedger, Return, TypeOK
    <3>3. handlers[s].pc = "approve_ledger"
      BY <2>2 DEF ApproveLedger, At
    <3>4. CASE s # r
      BY <1>1, <3>1, <3>2, <3>4
    <3>5. CASE s = r
      <4>1. \E e \in ledger' : e.type = "approval.token.issued" /\ e.tok = handlers[r].tok
        <5> DEFINE e == [type |-> "approval.token.issued", plan |-> handlers[s].plan,
                         tok |-> handlers[s].tok, result |-> "success"]
        <5>1. e.type = "approval.token.issued" /\ e.tok = handlers[s].tok
          OBVIOUS
        <5>2. e \in ledger'
          BY <3>1
        <5>3. QED
          BY <3>5, <5>1, <5>2
      <4>2. QED
        BY <3>1, <3>3, <3>5, <4>1 DEF StartToRecord, At
    <3>6. QED
      BY <3>4, <3>5
  <2>3. CASE ApproveReadPlan(s) \/ ApproveCheckActions(s) \/ ApproveInsertToken(s)
             \/ ApproveMarkActions(s)
    <3>1. ledger' = ledger /\ (s # r => handlers'[r] = handlers[r])
      BY <1>0, <2>3 DEF ApproveReadPlan, ApproveCheckActions, ApproveInsertToken,
                        ApproveMarkActions, Goto, Return, TypeOK
    <3>2. s = r => ~ToRecord(r) /\ ~StartToRecord(r)
      BY <2>3 DEF ApproveReadPlan, ApproveCheckActions, ApproveInsertToken, ApproveMarkActions,
                  ToRecord, StartToRecord, At
    <3>3. QED
      BY <1>1, <3>1, <3>2
  <2>4. QED
    BY <1>2, <2>1, <2>2, <2>3 DEF ApproveStep
<1>3. ASSUME NEW s \in Request, RejectStep(s) PROVE Fine
  <2>1. ledger \subseteq ledger' /\ (s # r => handlers'[r] = handlers[r])
    BY <1>0, <1>3 DEF RejectStep, RejectPlan, RejectActions, RejectLedger, Append, Goto, Return,
                      TypeOK
  <2>2. s = r => ~ToRecord(r) /\ ~StartToRecord(r)
    BY <1>3 DEF RejectStep, RejectPlan, RejectActions, RejectLedger, ToRecord, StartToRecord, At
  <2>3. QED
    BY <1>1, <2>1, <2>2
<1>4. ASSUME NEW s \in Request, ExecuteStep(s) PROVE Fine
  <2>1. CASE ExecuteLedger(s)
    <3>1. PICK e : /\ e.type = "execution.started"
                   /\ handlers[s].ok # {} => e.tok = handlers[s].tok
                   /\ ledger' = ledger \union {e}
      BY <1>0, <2>1 DEF ExecuteLedger
    <3>2. s # r => handlers'[r] = handlers[r]
      BY <1>0, <2>1 DEF ExecuteLedger, Goto, Return, TypeOK
    <3>3. s = r => ~ToRecord(r)
      BY <2>1 DEF ExecuteLedger, At, ToRecord, StartToRecord
    <3>4. QED
      BY <1>1, <3>1, <3>2, <3>3 DEF StartToRecord
  <2>2. CASE ~ExecuteLedger(s)
    <3>1. ledger' = ledger /\ (s # r => handlers'[r] = handlers[r])
      BY <1>0, <1>4, <2>2 DEF ExecuteStep, ExecuteReadToken, ExecuteCheckAction, ExecuteConsume,
           ExecuteMarkActions, MarkFailed, ExecuteDispatch, Goto, Return, TypeOK
    <3>2. s = r => ~ToRecord(r) /\ ~StartToRecord(r)
      BY <1>4, <2>2 DEF ExecuteStep, ExecuteReadToken, ExecuteCheckAction, ExecuteConsume,
           ExecuteMarkActions, ExecuteDispatch, ToRecord, StartToRecord, At
    <3>3. QED
      BY <1>1, <3>1, <3>2
  <2>3. QED
    BY <2>1, <2>2
<1>5. ASSUME NEW s \in Request, Start(s) PROVE Fine
  <2>1. ledger' = ledger /\ (s # r => handlers'[r] = handlers[r])
    BY <1>0, <1>5 DEF Start, StartApprove, StartReject, StartExecute, TypeOK
  <2>2. s = r => ~ToRecord(r) /\ ~StartToRecord(r)
    BY <1>5 DEF Start, StartApprove, StartReject, StartExecute, ToRecord, StartToRecord, At
  <2>3. QED
    BY <1>1, <2>1, <2>2
<1>6. ASSUME NEW b \in Replica, Operate(b) PROVE Fine
  BY <1>1, <1>6 DEF Operate, EngageKillSwitch, ReleaseKillSwitch, RestartReplica
<1>7. CASE UNCHANGED vars
  BY <1>1, <1>7 DEF vars
<1>8. QED
  BY <1>2, <1>3, <1>4, <1>5, <1>6, <1>7 DEF Next, HandlerStep

\* What a step approves, its handler is about to record.
LEMMA ApprovalsDue ==
  ASSUME GateInv, [Next]_vars, Faults = {}, NEW a \in Action, actions'[a].approval = "approved"
  PROVE  \/ actions[a].approval = "approved" /\ actions'[a].tok = actions[a].tok
         \/ \E r \in Request : ToRecord(r)' /\ handlers'[r].tok = actions'[a].tok
<1> DEFINE Fine == \/ actions[a].approval = "approved" /\ actions'[a].tok = actions[a].tok
                   \/ \E r \in Request : ToRecord(r)' /\ handlers'[r].tok = actions'[a].tok
<1>0. TypeOK /\ ~CallFails /\ ~ReplyLost /\ actions[a] \in ActionRow
  BY DEF GateInv, TypeOK, CallFails, ReplyLost
<1>1. CASE UNCHANGED actions
  BY <1>1
<1>2. ASSUME NEW s \in Request, ApproveMarkActions(s) PROVE Fine
  <2>1. /\ actions' = [b \in Action |-> IF b \in Marked(handlers[s])
                         THEN [actions[b] EXCEPT !.approval = "approved", !.tok = handlers[s].tok]
                         ELSE actions[b]]
        /\ Goto(s, "approve_status")
    BY <1>0, <1>2 DEF ApproveMarkActions
  <2>2. ToRecord(s)' /\ handlers'[s].tok = handlers[s].tok
    BY <1>0, <2>1 DEF Goto, ToRecord, TypeOK, Handler
  <2>3. a \in Marked(handlers[s]) => actions'[a].tok = handlers[s].tok
    BY <1>0, <2>1 DEF ActionRow
  <2>4. a \notin Marked(handlers[s]) => actions'[a] = actions[a]
    BY <2>1
  <2>5. QED
    BY <2>2, <2>3, <2>4
<1>3. ASSUME NEW s \in Request, RejectActions(s) PROVE Fine
  <2>1. actions'[a] = actions[a] \/ actions'[a] = [actions[a] EXCEPT !.approval = "skipped"]
    BY <1>0, <1>3 DEF RejectActions
  <2>2. QED
    BY <1>0, <2>1 DEF ActionRow
<1>4. ASSUME NEW s \in Request, ExecuteMarkActions(s) PROVE Fine
  <2>1. CASE actions' = [b \in Action |-> IF b \in handlers[s].ok
               THEN [actions[b] EXCEPT !.exec = "executing", !.key = handlers[s].key]
               ELSE actions[b]]
    BY <1>0, <2>1 DEF ActionRow
  <2>2. QED
    BY <1>1, <1>4, <2>1 DEF ExecuteMarkActions, MarkFailed
<1>5. ASSUME NEW s \in Request, ApproveStep(s) PROVE Fine
  BY <1>1, <1>2, <1>5 DEF ApproveStep, ApproveReadPlan, ApproveCheckActions, ApproveInsertToken,
                          ApproveMarkPlan, ApproveLedger
<1>6. ASSUME NEW s \in Request, RejectStep(s) PROVE Fine
  BY <1>1, <1>3, <1>6 DEF RejectStep, RejectPlan, RejectLedger
<1>7. ASSUME NEW s \in Request, ExecuteStep(s) PROVE Fine
  BY <1>1, <1>4, <1>7 DEF ExecuteStep, ExecuteReadToken, ExecuteCheckAction, ExecuteConsume,
                          ExecuteLedger, ExecuteDispatch
<1>8. ASSUME NEW s \in Request, Start(s) PROVE Fine
  BY <1>1, <1>8 DEF Start, StartApprove, StartReject, StartExecute
<1>9. ASSUME NEW b \in Replica, Operate(b) PROVE Fine
  BY <1>1, <1>9 DEF Operate, EngageKillSwitch, ReleaseKillSwitch, RestartReplica
<1>10. CASE UNCHANGED vars
  BY <1>1, <1>10 DEF vars
<1>11. QED
  BY <1>5, <1>6, <1>7, <1>8, <1>9, <1>10 DEF Next, HandlerStep

\* The first execution under a token is one its handler is about to record.
LEMMA StartsDue ==
  ASSUME GateInv, [Next]_vars, Faults = {}, NEW t \in Token, uses'[t] > 0
  PROVE  \/ uses[t] > 0
         \/ \E r \in Request : StartToRecord(r)' /\ handlers'[r].tok = t
<1> DEFINE Fine == \/ uses[t] > 0
                   \/ \E r \in Request : StartToRecord(r)' /\ handlers'[r].tok = t
<1>0. TypeOK /\ ~CallFails /\ ~ReplyLost
  BY DEF GateInv, CallFails, ReplyLost
<1>1. CASE UNCHANGED uses
  BY <1>1
<1>2. ASSUME NEW s \in Request, ExecuteMarkActions(s) PROVE Fine
  <2>1. CASE uses' = [uses EXCEPT ![handlers[s].tok] = @ + 1] /\ Goto(s, "execute_ledger")
    <3>1. handlers[s].ok # {}
      BY <1>2 DEF GateInv, HandlerInv, HandlerGood, ExecuteMarkActions, At
    <3>2. StartToRecord(s)' /\ handlers'[s].tok = handlers[s].tok
      BY <1>0, <2>1, <3>1 DEF Goto, StartToRecord, At, TypeOK, Handler
    <3>3. handlers[s].tok # t => uses'[t] = uses[t]
      BY <1>0, <2>1 DEF TypeOK
    <3>4. QED
      BY <3>2, <3>3
  <2>2. QED
    BY <1>0, <1>1, <1>2, <2>1 DEF ExecuteMarkActions, AfterMark, MarkFailed
<1>3. ASSUME NEW s \in Request, ApproveStep(s) \/ RejectStep(s) \/ Start(s) PROVE UNCHANGED uses
  BY <1>3 DEF ApproveStep, ApproveReadPlan, ApproveCheckActions, ApproveInsertToken,
              ApproveMarkActions, ApproveMarkPlan, ApproveLedger, RejectStep, RejectPlan,
              RejectActions, RejectLedger, Start, StartApprove, StartReject, StartExecute
<1>4. ASSUME NEW s \in Request, ExecuteStep(s) PROVE Fine
  BY <1>1, <1>2, <1>4 DEF ExecuteStep, ExecuteReadToken, ExecuteCheckAction, ExecuteConsume,
                          ExecuteLedger, ExecuteDispatch
<1>5. ASSUME NEW b \in Replica, Operate(b) PROVE UNCHANGED uses
  BY <1>5 DEF Operate, EngageKillSwitch, ReleaseKillSwitch, RestartReplica
<1>6. CASE UNCHANGED vars
  BY <1>1, <1>6 DEF vars
<1>7. QED
  BY <1>1, <1>3, <1>4, <1>5, <1>6 DEF Next, HandlerStep

\* No entry is ever taken back.
LEMMA LedgerGrows ==
  ASSUME GateInv, [Next]_vars, Faults = {} PROVE ledger \subseteq ledger'
<1>1. CASE Request = {}
  BY <1>1 DEF Next, Operate, EngageKillSwitch, ReleaseKillSwitch, RestartReplica, vars
<1>2. CASE Request # {}
  BY <1>2, RecordsComing
<1>3. QED
  BY <1>1, <1>2

\* No step leaves an approval or an execution unrecorded.
LEMMA NextOnRecord == GateInv /\ OnRecord /\ [Next]_vars => OnRecord'
<1> SUFFICES ASSUME GateInv, OnRecord, [Next]_vars, Faults = {} PROVE OnRecord'
  BY DEF OnRecord
<1>1. ASSUME NEW a \in Action, actions'[a].approval = "approved" PROVE ApprovalOnRecord(a)'
  <2>1. CASE \E r \in Request : ToRecord(r)' /\ handlers'[r].tok = actions'[a].tok
    BY <2>1 DEF ApprovalOnRecord, ToRecord
  <2>2. CASE actions[a].approval = "approved" /\ actions'[a].tok = actions[a].tok
    <3>1. ApprovalOnRecord(a)
      BY <2>2 DEF OnRecord
    <3>2. CASE \E e \in ledger : e.type = "approval.token.issued" /\ e.tok = actions[a].tok
      <4>1. PICK e \in ledger : e.type = "approval.token.issued" /\ e.tok = actions[a].tok
        BY <3>2
      <4>2. e \in ledger'
        BY <4>1, LedgerGrows
      <4>3. QED
        BY <2>2, <4>1, <4>2 DEF ApprovalOnRecord
    <3>3. CASE \E r \in Request : ToRecord(r) /\ handlers[r].tok = actions[a].tok
      <4>1. PICK r \in Request : ToRecord(r) /\ handlers[r].tok = actions[a].tok
        BY <3>3
      <4>2. \/ ToRecord(r)' /\ handlers'[r].tok = handlers[r].tok
            \/ \E e \in ledger' : e.type = "approval.token.issued" /\ e.tok = handlers[r].tok
        BY <4>1, RecordsComing
      <4>3. QED
        BY <2>2, <4>1, <4>2 DEF ApprovalOnRecord, ToRecord
    <3>4. QED
      BY <3>1, <3>2, <3>3 DEF ApprovalOnRecord, ToRecord
  <2>3. QED
    BY <1>1, <2>1, <2>2, ApprovalsDue
<1>2. ASSUME NEW t \in Token, uses'[t] > 0 PROVE StartOnRecord(t)'
  <2>1. CASE \E r \in Request : StartToRecord(r)' /\ handlers'[r].tok = t
    BY <2>1 DEF StartOnRecord, StartToRecord, At
  <2>2. CASE uses[t] > 0
    <3>1. StartOnRecord(t)
      BY <2>2 DEF OnRecord
    <3>2. CASE \E e \in ledger : e.type = "execution.started" /\ e.tok = t
      <4>1. PICK e \in ledger : e.type = "execution.started" /\ e.tok = t
        BY <3>2
      <4>2. e \in ledger'
        BY <4>1, LedgerGrows
      <4>3. QED
        BY <4>1, <4>2 DEF StartOnRecord
    <3>3. CASE \E r \in Request : StartToRecord(r) /\ handlers[r].tok = t
      <4>1. PICK r \in Request : StartToRecord(r) /\ handlers[r].tok = t
        BY <3>3
      <4>2. \/ StartToRecord(r)' /\ handlers'[r].tok = handlers[r].tok
            \/ \E e \in ledger' : e.type = "execution.started" /\ e.tok = handlers[r].tok
        BY <4>1, RecordsComing
      <4>3. QED
        BY <4>1, <4>2 DEF StartOnRecord, StartToRecord, At
    <3>4. QED
      BY <3>1, <3>2, <3>3 DEF StartOnRecord, StartToRecord
  <2>3. QED
    BY <1>2, <2>1, <2>2, StartsDue
<1>3. QED
  BY <1>1, <1>2 DEF OnRecord

\* Without failures every approval and every execution reaches the ledger, or
\* the request that owes the entry is still on its way.
THEOREM NothingGoesUnrecorded == Spec => []OnRecord
<1>1. Init => OnRecord
  BY DEF Init, OnRecord
<1>2. QED
  BY <1>1, NextOnRecord, GateInvariant, PTL DEF Spec

-----------------------------------------------------------------------------
(* The gate implements TokenGate. *)

State == [t \in Token |-> IF uses[t] > 0 THEN "used"
                          ELSE IF tokens[t].status = "consumed" THEN "spent"
                          ELSE tokens[t].status]
Scope == [t \in Token |-> tokens[t].acts]
Started == {a \in Action : actions[a].exec = "executing"}

\* The initial state of the gate is one of the abstract gate.
LEMMA PromiseInit == Init => Promise!Init
<1> SUFFICES ASSUME Init PROVE Promise!Init
  OBVIOUS
<1>1. State = [t \in Token |-> "none"]
  BY DEF Init, State
<1>2. Scope = [t \in Token |-> {}]
  BY DEF Init, Scope
<1>3. Started = {}
  BY DEF Init, Started
<1>4. QED
  BY <1>1, <1>2, <1>3 DEF Promise!Init, State, Scope, Started

\* A step that touches neither tokens, uses nor executing actions is a stutter of the abstract gate.
LEMMA PromiseStutter ==
  ASSUME UNCHANGED <<tokens, uses>>, \A a \in Action : actions'[a].exec = actions[a].exec
  PROVE  UNCHANGED Promise!vars
<1>1. State' = State /\ Scope' = Scope
  BY DEF State, Scope
<1>2. Started' = Started
  BY DEF Started
<1>3. QED
  BY <1>1, <1>2 DEF Promise!vars, State, Scope, Started

\* Inserting a token row is Issue.
LEMMA PromiseIssue ==
  ASSUME GateInv, NEW r \in Request, ApproveInsertToken(r)
  PROVE  Promise!Next \/ UNCHANGED Promise!vars
<1>0. TypeOK
  BY DEF GateInv
<1>1. CASE UNCHANGED tokens
  BY <1>1, PromiseStutter DEF ApproveInsertToken
<1>2. ASSUME NEW t \in Token, NextToken(t),
             tokens' = [tokens EXCEPT ![t] =
               [status |-> "issued", plan |-> handlers[r].plan, acts |-> handlers[r].acts]]
      PROVE  Promise!Next
  <2>1. tokens[t].status = "none"
    BY <1>2 DEF NextToken, Unused
  <2>2. uses[t] = 0
    <3>1. uses[t] \in Nat /\ ~(uses[t] > 0)
      BY <1>0, <2>1 DEF TypeOK, GateInv, UseInv
    <3>2. QED
      BY <3>1
  <2>3. UNCHANGED <<uses, actions>>
    BY DEF ApproveInsertToken
  <2>4. PICK S \in SUBSET Action : S = handlers[r].acts
    BY <1>0, HandlerFields
  <2>5. tokens'[t].status = "issued" /\ tokens'[t].acts = S
        /\ \A u \in Token \ {t} : tokens'[u] = tokens[u]
    BY <1>0, <1>2, <2>4 DEF TypeOK
  <2>6. State[t] = "none"
    BY <2>1, <2>2 DEF State
  <2>7. State' = [State EXCEPT ![t] = "issued"]
    <3>1. ASSUME NEW u \in Token PROVE State'[u] = IF u = t THEN "issued" ELSE State[u]
      BY <2>2, <2>3, <2>5 DEF State
    <3>2. QED
      BY <3>1 DEF State
  <2>8. Scope' = [Scope EXCEPT ![t] = S]
    BY <2>5 DEF Scope
  <2>9. Started' = Started
    BY <2>3 DEF Started
  <2>10. Promise!Issue(t, S)
    BY <2>6, <2>7, <2>8, <2>9 DEF Promise!Issue, State, Scope, Started
  <2>11. QED
    BY <2>10 DEF Promise!Next
<1>3. QED
  BY <1>1, <1>2 DEF ApproveInsertToken

\* The conditional update of the token row is Spend.
LEMMA PromiseSpend ==
  ASSUME GateInv, NEW r \in Request, ExecuteConsume(r)
  PROVE  Promise!Next \/ UNCHANGED Promise!vars
<1> DEFINE t == handlers[r].tok
<1>0. TypeOK /\ t \in Token
  BY LiveHandler DEF GateInv, ExecuteConsume, At, ExecuteSteps
<1>1. CASE UNCHANGED tokens
  BY <1>1, PromiseStutter DEF ExecuteConsume
<1>2. CASE tokens[t].status = "issued" /\ tokens' = [tokens EXCEPT ![t].status = "consumed"]
  <2>1. uses[t] = 0 /\ UNCHANGED <<uses, actions>>
    BY <1>0, <1>2 DEF ExecuteConsume, GateInv, UseInv, TypeOK
  <2>2. /\ tokens'[t].status = "consumed"
        /\ \A u \in Token : tokens'[u].acts = tokens[u].acts
        /\ \A u \in Token \ {t} : tokens'[u] = tokens[u]
    BY <1>0, <1>2 DEF TypeOK, TokenRow
  <2>3. State[t] = "issued" /\ State' = [State EXCEPT ![t] = "spent"]
    BY <1>0, <1>2, <2>1, <2>2 DEF State
  <2>4. Scope' = Scope /\ Started' = Started
    BY <2>1, <2>2 DEF Scope, Started
  <2>5. PICK u \in Token : u = t
    BY <1>0
  <2>6. Promise!Spend(u)
    BY <2>3, <2>4, <2>5 DEF Promise!Spend, State, Scope, Started
  <2>7. QED
    BY <2>6 DEF Promise!Next
<1>3. QED
  BY <1>1, <1>2 DEF ExecuteConsume, Consumable

\* The update of the actions is Use.
LEMMA PromiseUse ==
  ASSUME GateInv, NEW r \in Request, ExecuteMarkActions(r)
  PROVE  Promise!Next \/ UNCHANGED Promise!vars
<1> DEFINE h == handlers[r]
           t == handlers[r].tok
<1>0. /\ TypeOK /\ t \in Token /\ h.ok \subseteq tokens[t].acts /\ h.ok \subseteq Action
      /\ tokens[t].status = "consumed" /\ uses[t] = 0
  BY HandlerFields DEF GateInv, HandlerInv, HandlerGood, MarkerInv, ExecuteMarkActions, At,
                       ExecuteSteps
<1>1. UNCHANGED tokens
  BY DEF ExecuteMarkActions, MarkFailed
<1>2. CASE UNCHANGED <<actions, uses>>
  BY <1>1, <1>2, PromiseStutter
<1>3. CASE /\ actions' = [a \in Action |->
                IF a \in h.ok THEN [actions[a] EXCEPT !.exec = "executing", !.key = h.key]
                              ELSE actions[a]]
           /\ uses' = [uses EXCEPT ![t] = @ + 1]
  <2>1. ASSUME NEW a \in Action
        PROVE  actions'[a].exec = IF a \in h.ok THEN "executing" ELSE actions[a].exec
    <3>1. actions[a] \in ActionRow
      BY <1>0 DEF TypeOK
    <3>2. QED
      BY <1>3, <3>1 DEF ActionRow
  <2>2. uses'[t] = 1 /\ \A u \in Token \ {t} : uses'[u] = uses[u]
    <3>1. uses \in [Token -> Nat] /\ uses' = [uses EXCEPT ![t] = uses[t] + 1]
      BY <1>0, <1>3 DEF TypeOK
    <3>2. uses'[t] = uses[t] + 1 /\ \A u \in Token \ {t} : uses'[u] = uses[u]
      BY <1>0, <3>1
    <3>3. QED
      BY <1>0, <3>2
  <2>3. State[t] = "spent" /\ State' = [State EXCEPT ![t] = "used"]
    BY <1>0, <1>1, <2>2 DEF State
  <2>4. Scope' = Scope /\ h.ok \subseteq Scope[t]
    BY <1>0, <1>1 DEF Scope
  <2>5. Started' = Started \union h.ok
    BY <1>0, <2>1 DEF Started
  <2>6. PICK u \in Token, S \in SUBSET Action : u = t /\ S = h.ok
    BY <1>0
  <2>7. Promise!Use(u, S)
    BY <2>3, <2>4, <2>5, <2>6 DEF Promise!Use, State, Scope, Started
  <2>8. QED
    BY <2>7 DEF Promise!Next
<1>4. QED
  BY <1>2, <1>3 DEF ExecuteMarkActions, AfterMark, MarkFailed

\* Every step of the gate is a step or a stutter of the abstract gate.
LEMMA PromiseNext == GateInv /\ [Next]_vars => Promise!Next \/ UNCHANGED Promise!vars
<1> SUFFICES ASSUME GateInv, [Next]_vars PROVE Promise!Next \/ UNCHANGED Promise!vars
  OBVIOUS
<1>0. TypeOK
  BY DEF GateInv
<1>1. CASE UNCHANGED <<actions, tokens, uses>>
  BY <1>1, PromiseStutter
<1>2. ASSUME NEW r \in Request, ApproveStep(r) PROVE Promise!Next \/ UNCHANGED Promise!vars
  <2>1. CASE ApproveMarkActions(r)
    <3>1. ASSUME NEW a \in Action PROVE actions'[a].exec = actions[a].exec
      <4>1. actions[a] \in ActionRow
        BY <1>0 DEF TypeOK
      <4>2. QED
        BY <2>1, <4>1 DEF ApproveMarkActions, ActionRow
    <3>2. QED
      BY <2>1, <3>1, PromiseStutter DEF ApproveMarkActions
  <2>2. QED
    BY <1>1, <1>2, <2>1, PromiseIssue
       DEF ApproveStep, ApproveReadPlan, ApproveCheckActions, ApproveMarkPlan, ApproveLedger
<1>3. ASSUME NEW r \in Request, RejectStep(r) PROVE Promise!Next \/ UNCHANGED Promise!vars
  <2>1. CASE RejectActions(r)
    <3>1. ASSUME NEW a \in Action PROVE actions'[a].exec = actions[a].exec
      <4>1. actions[a] \in ActionRow
        BY <1>0 DEF TypeOK
      <4>2. QED
        BY <2>1, <4>1 DEF RejectActions, ActionRow
    <3>2. QED
      BY <2>1, <3>1, PromiseStutter DEF RejectActions
  <2>2. QED
    BY <1>1, <1>3, <2>1 DEF RejectStep, RejectPlan, RejectLedger
<1>4. ASSUME NEW r \in Request, ExecuteStep(r) PROVE Promise!Next \/ UNCHANGED Promise!vars
  BY <1>1, <1>4, PromiseSpend, PromiseUse
     DEF ExecuteStep, ExecuteReadToken, ExecuteCheckAction, ExecuteLedger, ExecuteDispatch
<1>5. ASSUME NEW r \in Request, Start(r) PROVE UNCHANGED <<actions, tokens, uses>>
  BY <1>5 DEF Start, StartApprove, StartReject, StartExecute
<1>6. ASSUME NEW b \in Replica, Operate(b) PROVE UNCHANGED <<actions, tokens, uses>>
  BY <1>6 DEF Operate, EngageKillSwitch, ReleaseKillSwitch, RestartReplica
<1>7. CASE UNCHANGED vars
  BY <1>1, <1>7 DEF vars
<1>8. QED
  BY <1>1, <1>2, <1>3, <1>4, <1>5, <1>6, <1>7 DEF Next, HandlerStep

\* The three handlers, interleaved and failing as they may, implement the
\* abstract life of approval tokens: issue, spend, use.
THEOREM GateImplementsPromise == Spec => ImplementsTokenGate
BY PromiseInit, PromiseNext, GateInvariant, PTL DEF Spec, ImplementsTokenGate, Promise!Spec

=============================================================================
