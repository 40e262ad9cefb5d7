---------------------------- MODULE AgentRun_proofs ----------------------------
(***************************************************************************)
(* Proofs about AgentRun, for every set of requests and of failures.       *)
(***************************************************************************)
EXTENDS AgentRun, SequenceTheorems, TLAPS

-----------------------------------------------------------------------------
(* The inductive invariant. *)

\* The types of the records the two services keep.
LEMMA Fields ==
  ASSUME TypeOK, NEW r \in Run
  PROVE  /\ callers[r] \in Caller /\ invocations[r] \in Invocation
         /\ callers[r].pc \in {"idle", "insert", "fetch", "wait", "close", "answered", "gone"}
         /\ callers[r].id \in BOOLEAN /\ callers[r].status \in Status
         /\ invocations[r].pc \in {"none", "validate", "start", "run", "complete",
                                   "complete_failed", "replied", "gone"}
         /\ invocations[r].status \in Status
BY DEF TypeOK, Caller, Invocation

\* Nothing has been asked of anyone.
LEMMA RunInit == Init => RunInv
BY DEF Init, RunInv, TypeOK, OneStory, InvocationGood, CallerGood, NewCaller, NewInvocation,
       Caller, Invocation, Status

\* A step that changes one request's caller keeps the invariant if that
\* caller is a good one afterwards.
LEMMA CallerMoves ==
  ASSUME RunInv, NEW r \in Run, NEW c \in Caller,
         callers' = [callers EXCEPT ![r] = c],
         rows' \in [Run -> Status \union {"none", "running"}],
         \A s \in Run \ {r} : rows'[s] = rows[s],
         UNCHANGED <<invocations, entries, performed>>,
         CallerGood(r)'
  PROVE  RunInv'
<1>1. TypeOK'
  BY DEF RunInv, TypeOK
<1>2. OneStory'
  BY DEF RunInv, OneStory
<1>3. ASSUME NEW s \in Run PROVE InvocationGood(s)' /\ CallerGood(s)'
  <2>1. InvocationGood(s)'
    BY DEF RunInv, InvocationGood
  <2>2. CASE s # r
    BY <2>1, <2>2 DEF RunInv, TypeOK, CallerGood
  <2>3. QED
    BY <2>1, <2>2
<1>4. QED
  BY <1>1, <1>2, <1>3 DEF RunInv

\* Every step of the handler of the BFF.
LEMMA CallerKeeps ==
  ASSUME RunInv, NEW r \in Run,
         Post(r) \/ InsertRow(r) \/ TakeReply(r) \/ LoseReply(r) \/ Disconnect(r) \/ CloseRow(r)
  PROVE  RunInv'
<1> USE DEF RunInv
<1>1. callers[r] \in Caller /\ callers \in [Run -> Caller] /\ CallerGood(r)
      /\ rows \in [Run -> Status \union {"none", "running"}]
      /\ invocations[r].status \in Status
  BY Fields DEF TypeOK
<1>2. CASE Post(r)
  <2>1. callers' = [callers EXCEPT ![r] = [callers[r] EXCEPT !.pc = "insert"]]
    BY <1>1, <1>2 DEF Post, CallerTo
  <2>2. [callers[r] EXCEPT !.pc = "insert"] \in Caller
    BY <1>1 DEF Caller
  <2>3. CallerGood(r)'
    BY <1>1, <1>2, <2>1 DEF Post, CallerAt, CallerGood
  <2>4. QED
    BY <1>1, <1>2, <2>1, <2>2, <2>3, CallerMoves DEF Post
<1>3. CASE InsertRow(r)
  <2>1. PICK b \in BOOLEAN :
          callers' = [callers EXCEPT ![r] = [callers[r] EXCEPT !.pc = "fetch", !.id = b]]
    <3>1. callers[r] = [callers[r] EXCEPT !.id = callers[r].id]
      BY <1>1 DEF Caller
    <3>2. [callers[r] EXCEPT !.pc = "fetch"] = [callers[r] EXCEPT !.pc = "fetch", !.id = callers[r].id]
      BY <1>1 DEF Caller
    <3>3. QED
      BY <1>1, <1>3, <3>2, Fields DEF InsertRow, CallerTo
  <2>2. [callers[r] EXCEPT !.pc = "fetch", !.id = b] \in Caller
    BY <1>1 DEF Caller
  <2>3. rows' \in [Run -> Status \union {"none", "running"}] /\ (\A s \in Run \ {r} : rows'[s] = rows[s])
        /\ (rows'[r] = rows[r] \/ rows'[r] = "running")
    BY <1>1, <1>3 DEF InsertRow
  <2>4. CallerGood(r)'
    BY <1>1, <1>3, <2>1, <2>3 DEF InsertRow, CallerAt, CallerGood
  <2>5. QED
    BY <1>3, <2>1, <2>2, <2>3, <2>4, CallerMoves DEF InsertRow
<1>4. CASE TakeReply(r)
  <2> DEFINE c == [callers[r] EXCEPT !.pc = "close", !.status = RowStatus(invocations[r].status)]
  <2>1. callers' = [callers EXCEPT ![r] = c]
    BY <1>1, <1>4 DEF TakeReply
  <2>2. c \in Caller
    BY <1>1 DEF Caller, RowStatus, Status
  <2>3. CallerGood(r)'
    BY <1>1, <1>4, <2>1 DEF TakeReply, CallerAt, At, CallerGood, RowStatus, Caller
  <2>4. QED
    BY <1>1, <1>4, <2>1, <2>2, <2>3, CallerMoves DEF TakeReply
<1>5. CASE LoseReply(r) \/ Disconnect(r)
  <2> DEFINE c == [callers[r] EXCEPT !.pc = "close", !.status = "failed"]
  <2>1. callers' = [callers EXCEPT ![r] = c]
    BY <1>1, <1>5 DEF LoseReply, Disconnect, FetchThrows
  <2>2. c \in Caller
    BY <1>1 DEF Caller, Status
  <2>3. UNCHANGED <<rows, invocations, entries, performed>>
    BY <1>5 DEF LoseReply, Disconnect
  <2>4. CallerGood(r)'
    BY <1>1, <2>1, <2>3 DEF CallerGood, Caller
  <2>5. QED
    BY <1>1, <2>1, <2>2, <2>3, <2>4, CallerMoves
<1>6. CASE CloseRow(r)
  <2> DEFINE c == [callers[r] EXCEPT !.pc = "answered"]
  <2>1. callers' = [callers EXCEPT ![r] = c]
    BY <1>1, <1>6 DEF CloseRow, CallerTo
  <2>2. c \in Caller
    BY <1>1 DEF Caller
  <2>3. rows' \in [Run -> Status \union {"none", "running"}] /\ (\A s \in Run \ {r} : rows'[s] = rows[s])
        /\ (rows'[r] = rows[r] \/ rows'[r] = callers[r].status)
    BY <1>1, <1>6, Fields DEF CloseRow
  <2>4. CallerGood(r)'
    BY <1>1, <1>6, <2>1, <2>3 DEF CloseRow, CallerAt, CallerGood, Caller
  <2>5. QED
    BY <1>6, <2>1, <2>2, <2>3, <2>4, CallerMoves DEF CloseRow
<1>7. QED
  BY <1>2, <1>3, <1>4, <1>5, <1>6

\* A step that changes one invocation keeps the invariant if that invocation
\* and its caller are good ones afterwards.
LEMMA InvocationMoves ==
  ASSUME RunInv, NEW r \in Run, NEW i \in Invocation,
         invocations' = [invocations EXCEPT ![r] = i],
         entries' \in [Run -> Seq({"started", "success", "failure"})],
         \A s \in Run \ {r} : entries'[s] = entries[s] /\ (s \in performed' <=> s \in performed),
         performed' \subseteq Run,
         callers' \in [Run -> Caller],
         \A s \in Run \ {r} : callers'[s] = callers[s],
         UNCHANGED rows,
         entries'[r] \in {<<>>, <<"started">>, <<"started", "success">>, <<"started", "failure">>},
         InvocationGood(r)', CallerGood(r)'
  PROVE  RunInv'
<1>1. TypeOK'
  BY DEF RunInv, TypeOK
<1>2. OneStory'
  BY DEF RunInv, OneStory
<1>3. ASSUME NEW s \in Run PROVE InvocationGood(s)' /\ CallerGood(s)'
  <2>1. CASE s # r
    <3>1. invocations'[s] = invocations[s] /\ entries'[s] = entries[s] /\ callers'[s] = callers[s]
          /\ (s \in performed' <=> s \in performed)
      BY <2>1 DEF RunInv, TypeOK
    <3>2. QED
      BY <3>1 DEF RunInv, InvocationGood, CallerGood
  <2>2. QED
    BY <2>1
<1>4. QED
  BY <1>1, <1>2, <1>3 DEF RunInv

\* The request reaches the runtime.
LEMMA FetchKeeps == ASSUME RunInv, NEW r \in Run, Fetch(r) PROVE RunInv'
<1> DEFINE i == [invocations[r] EXCEPT !.pc = "validate"]
<1>1. callers[r] \in Caller /\ invocations[r] \in Invocation /\ callers \in [Run -> Caller]
      /\ InvocationGood(r) /\ CallerGood(r) /\ TypeOK
  BY Fields DEF RunInv, TypeOK
<1>2. invocations' = [invocations EXCEPT ![r] = i] /\ i \in Invocation
  BY <1>1 DEF Fetch, Goto, Invocation, TypeOK
<1>3. callers' \in [Run -> Caller] /\ (\A s \in Run \ {r} : callers'[s] = callers[s])
      /\ callers'[r] = [callers[r] EXCEPT !.pc = "wait"]
  BY <1>1 DEF Fetch, CallerTo, Caller
<1>4. UNCHANGED <<rows, entries, performed>>
  BY DEF Fetch
<1>5. InvocationGood(r)'
  BY <1>1, <1>2, <1>4 DEF Fetch, CallerAt, InvocationGood, CallerGood, TypeOK, Invocation
<1>6. CallerGood(r)'
  BY <1>1, <1>2, <1>3, <1>4 DEF Fetch, CallerAt, CallerGood, TypeOK, Caller
<1>7. QED
  BY <1>1, <1>2, <1>3, <1>4, <1>5, <1>6, InvocationMoves DEF RunInv, TypeOK, OneStory

\* The entries of a run after one more.
LEMMA Appended ==
  ASSUME NEW entry \in {"started", "success", "failure"}
  PROVE  Append(<<>>, entry) = <<entry>> /\ Append(<<"started">>, entry) = <<"started", entry>>
<1>1. Append(<<>>, entry) = <<entry>>
  OBVIOUS
<1>2. Append(<<"started">>, entry) = <<"started", entry>>
  <2> DEFINE S == {"started", "success", "failure"}
             a == Append(<<"started">>, entry)
             b == <<"started", entry>>
  <2>1. <<"started">> \in Seq(S) /\ Len(<<"started">>) = 1
    OBVIOUS
  <2>2. a \in Seq(S) /\ Len(a) = 2 /\ a[1] = "started" /\ a[2] = entry
    BY <2>1
  <2>3. b \in Seq(S) /\ Len(b) = 2 /\ b[1] = "started" /\ b[2] = entry
    OBVIOUS
  <2>4. Len(a) = Len(b) /\ \A i \in 1 .. Len(a) : a[i] = b[i]
    <3>1. \A i \in 1 .. 2 : i = 1 \/ i = 2
      OBVIOUS
    <3>2. QED
      BY <2>2, <2>3, <3>1
  <2>5. a \in Seq(S) /\ b \in Seq(S)
    BY <2>2, <2>3
  <2> HIDE DEF S, a, b
  <2>6. a = b
    BY <2>4, <2>5, SeqEqual
  <2>7. QED
    BY <2>6 DEF a, b
<1>3. QED
  BY <1>1, <1>2

\* What an append of one entry makes of the entries of its invocation.
LEMMA AppendOne ==
  ASSUME TypeOK, NEW r \in Run, NEW entry \in {"started", "success", "failure"},
         entries' = [entries EXCEPT ![r] = Append(entries[r], entry)]
  PROVE  /\ entries' \in [Run -> Seq({"started", "success", "failure"})]
         /\ entries'[r] = Append(entries[r], entry)
         /\ \A s \in Run \ {r} : entries'[s] = entries[s]
BY DEF TypeOK

\* A step of one invocation that appends nothing.
LEMMA QuietInvocation ==
  ASSUME RunInv, NEW r \in Run, NEW i \in Invocation,
         invocations' = [invocations EXCEPT ![r] = i],
         performed' \subseteq Run, \A s \in Run \ {r} : s \in performed' <=> s \in performed,
         UNCHANGED <<rows, callers, entries>>,
         InvocationGood(r)', CallerGood(r)'
  PROVE  RunInv'
<1>1. entries \in [Run -> Seq({"started", "success", "failure"})] /\ callers \in [Run -> Caller]
      /\ entries[r] \in {<<>>, <<"started">>, <<"started", "success">>, <<"started", "failure">>}
  BY DEF RunInv, TypeOK, OneStory
<1>2. QED
  BY <1>1, InvocationMoves

\* A step of one invocation that appends at most one entry.
LEMMA AppendingInvocation ==
  ASSUME RunInv, NEW r \in Run, NEW i \in Invocation, NEW entry \in {"started", "success", "failure"},
         invocations' = [invocations EXCEPT ![r] = i],
         UNCHANGED entries \/ entries' = [entries EXCEPT ![r] = Append(entries[r], entry)],
         (entries[r] = <<>> /\ entry = "started") \/ (entries[r] = <<"started">> /\ entry # "started"),
         UNCHANGED <<rows, callers, performed>>,
         InvocationGood(r)', CallerGood(r)'
  PROVE  RunInv'
<1>1. entries \in [Run -> Seq({"started", "success", "failure"})] /\ callers \in [Run -> Caller]
      /\ performed \subseteq Run
  BY DEF RunInv, TypeOK
<1>2. entries' \in [Run -> Seq({"started", "success", "failure"})]
      /\ (\A s \in Run \ {r} : entries'[s] = entries[s])
      /\ (entries'[r] = entries[r] \/ entries'[r] = Append(entries[r], entry))
  BY <1>1, AppendOne DEF RunInv
<1>3. entries'[r] \in {<<>>, <<"started">>, <<"started", "success">>, <<"started", "failure">>}
  <2>1. CASE entries[r] = <<>> /\ entry = "started"
    BY <1>2, <2>1, Appended
  <2>2. CASE entries[r] = <<"started">> /\ entry # "started"
    BY <1>2, <2>2, Appended
  <2>3. QED
    BY <2>1, <2>2
<1>4. QED
  BY <1>1, <1>2, <1>3, InvocationMoves

\* Every step of invoke.
LEMMA AgentKeeps == ASSUME RunInv, NEW r \in Run, AgentStep(r) PROVE RunInv'
<1> DEFINE To(pc) == [invocations[r] EXCEPT !.pc = pc]
           Replied(status) == [pc |-> "replied", status |-> status]
<1>1. /\ TypeOK /\ InvocationGood(r) /\ CallerGood(r) /\ invocations[r] \in Invocation
      /\ invocations \in [Run -> Invocation] /\ performed \subseteq Run
  BY Fields DEF RunInv, TypeOK
<1>2. \A pc \in {"start", "run", "complete", "complete_failed"} :
        To(pc) \in Invocation /\ To(pc).pc = pc /\ To(pc).status = invocations[r].status
  BY <1>1 DEF Invocation
<1>3. \A status \in Status : Replied(status) \in Invocation
  BY DEF Invocation
<1>4. "failed" \in Status /\ "succeeded" \in Status
  BY DEF Status
<1>5. CASE Validate(r)
  <2>1. PICK i \in Invocation : /\ invocations' = [invocations EXCEPT ![r] = i]
                                /\ i.pc = "start" \/ (i.pc = "replied" /\ i.status = "failed")
    BY <1>1, <1>2, <1>3, <1>4, <1>5 DEF Validate, Goto, Reply
  <2>2. UNCHANGED <<rows, callers, entries, performed>> /\ invocations[r].pc = "validate"
    BY <1>5 DEF Validate, At
  <2>3. InvocationGood(r)' /\ CallerGood(r)'
    BY <1>1, <2>1, <2>2 DEF InvocationGood, CallerGood
  <2>4. QED
    BY <1>1, <2>1, <2>2, <2>3, QuietInvocation
<1>6. CASE AppendStarted(r)
  <2>1. UNCHANGED <<rows, callers, performed>> /\ invocations[r].pc = "start" /\ entries[r] = <<>>
    BY <1>1, <1>6 DEF AppendStarted, At, InvocationGood
  <2>2. PICK i \in Invocation :
          /\ invocations' = [invocations EXCEPT ![r] = i]
          /\ \/ i.pc = "run" /\ entries' = [entries EXCEPT ![r] = Append(entries[r], "started")]
             \/ /\ i.pc = "replied" /\ i.status = "failed"
                /\ UNCHANGED entries \/ entries' = [entries EXCEPT ![r] = Append(entries[r], "started")]
    BY <1>1, <1>2, <1>3, <1>4, <1>6 DEF AppendStarted, Append1, Goto, Bail, Reply
  <2>3. i.pc = "run" => entries'[r] = <<"started">>
    BY <1>1, <2>1, <2>2, AppendOne
  <2>4. InvocationGood(r)' /\ CallerGood(r)'
    BY <1>1, <2>1, <2>2, <2>3 DEF InvocationGood, CallerGood
  <2>5. QED
    BY <2>1, <2>2, <2>4, AppendingInvocation
<1>7. CASE RunAgent(r)
  <2>1. UNCHANGED <<rows, callers, entries>> /\ invocations[r].pc = "run" /\ entries[r] = <<"started">>
    BY <1>1, <1>7 DEF RunAgent, At, InvocationGood
  <2>2. PICK i \in Invocation : /\ invocations' = [invocations EXCEPT ![r] = i]
                                /\ (i.pc = "complete" /\ r \in performed') \/ i.pc = "complete_failed"
    BY <1>1, <1>2, <1>7 DEF RunAgent, Goto
  <2>3. performed' \subseteq Run /\ \A s \in Run \ {r} : s \in performed' <=> s \in performed
    BY <1>1, <1>7 DEF RunAgent
  <2>4. InvocationGood(r)' /\ CallerGood(r)'
    BY <1>1, <2>1, <2>2 DEF InvocationGood, CallerGood
  <2>5. QED
    BY <2>1, <2>2, <2>3, <2>4, QuietInvocation
<1>8. CASE AppendCompleted(r)
  <2>1. /\ UNCHANGED <<rows, callers, performed>> /\ invocations[r].pc = "complete"
        /\ entries[r] = <<"started">> /\ r \in performed
    BY <1>1, <1>8 DEF AppendCompleted, At, InvocationGood
  <2>2. /\ invocations' = [invocations EXCEPT ![r] = Replied("succeeded")]
        /\ UNCHANGED entries \/ entries' = [entries EXCEPT ![r] = Append(entries[r], "success")]
    BY <1>8 DEF AppendCompleted, Append1, Swallow, Reply
  <2>3. invocations'[r] = Replied("succeeded")
    BY <1>1, <2>2
  <2>4. entries'[r] \in {<<"started">>, <<"started", "success">>}
    BY <1>1, <2>1, <2>2, AppendOne
  <2>5. InvocationGood(r)' /\ CallerGood(r)'
    BY <1>1, <2>1, <2>3, <2>4 DEF InvocationGood, CallerGood
  <2>6. QED
    BY <1>3, <1>4, <2>1, <2>2, <2>5, AppendingInvocation
<1>9. CASE AppendFailed(r)
  <2>1. /\ UNCHANGED <<rows, callers, performed>> /\ invocations[r].pc = "complete_failed"
        /\ entries[r] = <<"started">>
    BY <1>1, <1>9 DEF AppendFailed, At, InvocationGood
  <2>2. /\ invocations' = [invocations EXCEPT ![r] = Replied("failed")]
        /\ UNCHANGED entries \/ entries' = [entries EXCEPT ![r] = Append(entries[r], "failure")]
    BY <1>9 DEF AppendFailed, Append1, Reply
  <2>3. invocations'[r] = Replied("failed")
    BY <1>1, <2>2
  <2>4. InvocationGood(r)' /\ CallerGood(r)'
    BY <1>1, <2>1, <2>3 DEF InvocationGood, CallerGood
  <2>5. QED
    BY <1>3, <1>4, <2>1, <2>2, <2>4, AppendingInvocation
<1>10. QED
  BY <1>5, <1>6, <1>7, <1>8, <1>9 DEF AgentStep

\* The death of either process.
LEMMA RestartKeeps == ASSUME RunInv, RestartBff \/ RestartRuntime PROVE RunInv'
<1>1. TypeOK /\ OneStory /\ \A s \in Run : InvocationGood(s) /\ CallerGood(s)
  BY DEF RunInv
<1>2. CASE RestartBff
  <2>1. UNCHANGED <<rows, invocations, entries, performed>>
    BY <1>2 DEF RestartBff
  <2>2. ASSUME NEW s \in Run
        PROVE  callers'[s] \in Caller /\ (callers'[s] = callers[s] \/ callers'[s].pc = "gone")
    BY <1>1, <1>2, Fields DEF RestartBff, Caller
  <2>3. callers' \in [Run -> Caller]
    <3>1. callers' = [s \in Run |-> callers'[s]]
      BY <1>2 DEF RestartBff
    <3>2. QED
      BY <2>2, <3>1
  <2>4. ASSUME NEW s \in Run PROVE InvocationGood(s)' /\ CallerGood(s)'
    BY <1>1, <2>1, <2>2 DEF InvocationGood, CallerGood
  <2>5. QED
    BY <1>1, <2>1, <2>3, <2>4 DEF RunInv, TypeOK, OneStory
<1>3. CASE RestartRuntime
  <2>1. UNCHANGED <<rows, callers, entries, performed>>
    BY <1>3 DEF RestartRuntime
  <2>2. ASSUME NEW s \in Run
        PROVE  /\ invocations'[s] \in Invocation
               /\ \/ invocations'[s] = invocations[s]
                  \/ invocations'[s].pc = "gone" /\ invocations[s].pc \notin {"none", "replied"}
    BY <1>1, <1>3, Fields DEF RestartRuntime, Invocation
  <2>3. invocations' \in [Run -> Invocation]
    <3>1. invocations' = [s \in Run |-> invocations'[s]]
      BY <1>3 DEF RestartRuntime
    <3>2. QED
      BY <2>2, <3>1
  <2>4. ASSUME NEW s \in Run PROVE InvocationGood(s)' /\ CallerGood(s)'
    BY <1>1, <2>1, <2>2 DEF InvocationGood, CallerGood
  <2>5. QED
    BY <1>1, <2>1, <2>3, <2>4 DEF RunInv, TypeOK, OneStory
<1>4. QED
  BY <1>2, <1>3

\* Every step keeps the invariant.
LEMMA RunNext == RunInv /\ [Next]_vars => RunInv'
<1> SUFFICES ASSUME RunInv, [Next]_vars PROVE RunInv'
  OBVIOUS
<1>1. ASSUME NEW r \in Run, Post(r) \/ CallerStep(r) \/ AgentStep(r) \/ Disconnect(r) PROVE RunInv'
  BY <1>1, CallerKeeps, FetchKeeps, AgentKeeps DEF CallerStep
<1>2. CASE RestartBff \/ RestartRuntime
  BY <1>2, RestartKeeps
<1>3. CASE UNCHANGED vars
  BY <1>3 DEF vars, RunInv, TypeOK, OneStory, InvocationGood, CallerGood
<1>4. QED
  BY <1>1, <1>2, <1>3 DEF Next

\* What a caller, an invocation and the ledger know of a run agrees.
THEOREM RunInvariant == Spec => []RunInv
BY RunInit, RunNext, PTL DEF Spec

\* Type correctness of the state.
THEOREM RunTypeCorrect == Spec => []TypeOK
<1>1. RunInv => TypeOK
  BY DEF RunInv
<1>2. QED
  BY <1>1, RunInvariant, PTL

\* The ledger tells one story of each run, whatever fails.
THEOREM OneStoryPerRun == Spec => []OneStory
<1>1. RunInv => OneStory
  BY DEF RunInv
<1>2. QED
  BY <1>1, RunInvariant, PTL

\* A row that says succeeded is of a run that was recorded and performed.
THEOREM RowsTellTruth == Spec => []RowTellsTruth
<1>1. RunInv => RowTellsTruth
  BY DEF RunInv, RowTellsTruth, InvocationGood, CallerGood
<1>2. QED
  BY <1>1, RunInvariant, PTL

-----------------------------------------------------------------------------
(* The two services implement the audit trail. *)

\* Nothing is on record yet.
LEMMA TrailInit == Init => Trail!Init
BY DEF Init, Trail!Init

\* A step that writes no entry and performs nothing is a stutter.
LEMMA TrailStutter ==
  ASSUME UNCHANGED <<entries, performed>> PROVE UNCHANGED Trail!vars
BY DEF Trail!vars

\* What one more entry makes of the trail.
LEMMA TrailAppend ==
  ASSUME RunInv, NEW r \in Run, NEW entry \in {"started", "success", "failure"},
         (entries[r] = <<>> /\ entry = "started") \/ (entries[r] = <<"started">> /\ entry # "started"),
         entry = "success" => r \in performed,
         entries' = [entries EXCEPT ![r] = Append(entries[r], entry)],
         UNCHANGED performed
  PROVE  Trail!Next
<1> DEFINE out == [s \in Run |-> IF Len(entries[s]) > 1 THEN entries[s][2] ELSE "none"]
           rec == {s \in Run : entries[s] # <<>>}
<1>1. entries'[r] = Append(entries[r], entry) /\ (\A s \in Run \ {r} : entries'[s] = entries[s])
  BY AppendOne DEF RunInv
<1>2. CASE entry = "started"
  <2>1. entries[r] = <<>> /\ entries'[r] = <<"started">>
    BY <1>1, <1>2, Appended
  <2>2. rec' = rec \union {r}
    BY <1>1, <2>1
  <2>3. \A s \in Run : (IF Len(entries'[s]) > 1 THEN entries'[s][2] ELSE "none")
                       = IF Len(entries[s]) > 1 THEN entries[s][2] ELSE "none"
    BY <1>1, <2>1
  <2>4. out' = out
    BY <2>3
  <2>5. Trail!Record(r)
    BY <2>2, <2>4 DEF Trail!Record
  <2>6. QED
    BY <2>5 DEF Trail!Next
<1>3. CASE entry # "started"
  <2>1. entries[r] = <<"started">> /\ entries'[r] = <<"started", entry>>
    BY <1>1, <1>3, Appended
  <2>2. rec' = rec
    BY <1>1, <2>1
  <2>3. \A s \in Run : (IF Len(entries'[s]) > 1 THEN entries'[s][2] ELSE "none")
                       = IF s = r THEN entry
                         ELSE IF Len(entries[s]) > 1 THEN entries[s][2] ELSE "none"
    BY <1>1, <2>1
  <2>4. out' = [out EXCEPT ![r] = entry]
    BY <2>3
  <2>5. r \in rec /\ out[r] = "none"
    BY <2>1
  <2>6. Trail!Conclude(r, entry)
    BY <2>2, <2>4, <2>5 DEF Trail!Conclude
  <2>7. entry \in {"success", "failure"}
    BY <1>3
  <2>8. QED
    BY <2>6, <2>7 DEF Trail!Next
<1>4. QED
  BY <1>2, <1>3

\* Every step of invoke is a step of the trail or a stutter.
LEMMA TrailAgent ==
  ASSUME RunInv, NEW r \in Run, AgentStep(r)
  PROVE  Trail!Next \/ UNCHANGED Trail!vars
<1>1. InvocationGood(r)
  BY DEF RunInv
<1>2. CASE Validate(r)
  BY <1>2, TrailStutter DEF Validate
<1>3. CASE AppendStarted(r)
  <2>1. UNCHANGED performed /\ entries[r] = <<>>
        /\ (UNCHANGED entries \/ entries' = [entries EXCEPT ![r] = Append(entries[r], "started")])
    BY <1>1, <1>3 DEF AppendStarted, Append1, At, InvocationGood
  <2>2. QED
    BY <2>1, TrailStutter, TrailAppend
<1>4. CASE RunAgent(r)
  <2>1. UNCHANGED entries /\ entries[r] = <<"started">>
        /\ (UNCHANGED performed \/ performed' = performed \union {r})
    BY <1>1, <1>4 DEF RunAgent, At, InvocationGood
  <2>2. CASE performed' = performed \union {r}
    <3>1. Trail!Perform(r)
      BY <2>1, <2>2 DEF Trail!Perform
    <3>2. QED
      BY <3>1 DEF Trail!Next
  <2>3. QED
    BY <2>1, <2>2, TrailStutter
<1>5. CASE AppendCompleted(r)
  <2>1. UNCHANGED performed /\ entries[r] = <<"started">> /\ r \in performed
        /\ (UNCHANGED entries \/ entries' = [entries EXCEPT ![r] = Append(entries[r], "success")])
    BY <1>1, <1>5 DEF AppendCompleted, Append1, At, InvocationGood
  <2>2. QED
    BY <2>1, TrailStutter, TrailAppend
<1>6. CASE AppendFailed(r)
  <2>1. UNCHANGED performed /\ entries[r] = <<"started">>
        /\ (UNCHANGED entries \/ entries' = [entries EXCEPT ![r] = Append(entries[r], "failure")])
    BY <1>1, <1>6 DEF AppendFailed, Append1, At, InvocationGood
  <2>2. QED
    BY <2>1, TrailStutter, TrailAppend
<1>7. QED
  BY <1>2, <1>3, <1>4, <1>5, <1>6 DEF AgentStep

\* Every step is a step of the trail or a stutter.
LEMMA TrailNext == RunInv /\ [Next]_vars => [Trail!Next]_(Trail!vars)
<1> SUFFICES ASSUME RunInv, [Next]_vars PROVE Trail!Next \/ UNCHANGED Trail!vars
  OBVIOUS
<1>1. ASSUME NEW r \in Run, Post(r) \/ CallerStep(r) \/ Disconnect(r)
      PROVE  UNCHANGED Trail!vars
  BY <1>1, TrailStutter
     DEF Post, CallerStep, InsertRow, Fetch, TakeReply, LoseReply, CloseRow, Disconnect
<1>2. ASSUME NEW r \in Run, AgentStep(r) PROVE Trail!Next \/ UNCHANGED Trail!vars
  BY <1>2, TrailAgent
<1>3. CASE RestartBff \/ RestartRuntime \/ UNCHANGED vars
  BY <1>3, TrailStutter DEF RestartBff, RestartRuntime, vars
<1>4. QED
  BY <1>1, <1>2, <1>3 DEF Next

\* The BFF and the runtime keep the promise of the audit trail.
THEOREM RunsAreAudited == Spec => ImplementsAuditedRun
<1>1. QED
  BY TrailInit, TrailNext, RunInvariant, PTL DEF Spec, ImplementsAuditedRun, Trail!Spec
=============================================================================
