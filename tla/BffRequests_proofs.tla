--------------------------- MODULE BffRequests_proofs ---------------------------
(***************************************************************************)
(* Theorems of BffRequests, for any calls, replicas, tenants and requests. *)
(***************************************************************************)
EXTENDS BffRequests, TLAPS

\* The fields of a call.
LEMMA Fields ==
  ASSUME TypeOK, NEW c \in Call
  PROVE  /\ calls[c] \in CallRecord
         /\ calls[c].pc \in PCs /\ calls[c].req \in Requests /\ calls[c].at \in Replica
         /\ calls[c].answer \in Answers /\ calls[c].ran \in BOOLEAN
         /\ calls[c].blind \in BOOLEAN /\ calls[c].seen \subseteq Call
BY DEF TypeOK, CallRecord

\* Keys are equal exactly for the same user, tenant, path and key.
LEMMA KeySame ==
  ASSUME NEW c \in Call, NEW d \in Call
  PROVE  KeyOf(d) = KeyOf(c) <=> SameKey(c, d)
BY DEF KeyOf, SameKey, Kind, Tenant_

\* Sharing a key is an equivalence.
LEMMA SameKeyEquiv ==
  ASSUME NEW c \in Call, NEW d \in Call, NEW e \in Call, SameKey(c, d)
  PROVE  SameKey(d, c) /\ (SameKey(c, e) <=> SameKey(d, e))
BY DEF SameKey

\* What a step leaves of a call that was sent.
Kept(d) ==
  /\ calls'[d].req = calls[d].req /\ calls'[d].at = calls[d].at
  /\ calls'[d].seen = calls[d].seen
  /\ calls[d].blind => calls'[d].blind
  /\ calls'[d].pc # "idle"
  /\ calls[d].pc \in Done => calls'[d] = calls[d]

\* If what is orderly after a step was sent before, it was orderly before.
LEMMA OrderlyBefore ==
  ASSUME NEW c \in Call, Sent(c), \A d \in Call : Sent(d) => Kept(d), Orderly(c)'
  PROVE  Orderly(c)
<1> SUFFICES ASSUME NEW d \in Call, Sent(d), SameKey(c, d)
             PROVE  ~calls[d].blind /\ \A e \in Call : SameKey(c, e) => ~Overlapped(d, e)
  BY DEF Orderly
<1>1. Kept(c) /\ Kept(d)
  OBVIOUS
<1>2. SameKey(c, d)' /\ Sent(d)'
  BY <1>1 DEF Kept, SameKey, Sent, At
<1>3. ~calls'[d].blind /\ \A e \in Call : SameKey(c, e)' => ~Overlapped(d, e)'
  BY <1>2 DEF Orderly
<1>4. ~calls[d].blind
  BY <1>1, <1>3 DEF Kept
<1>5. ASSUME NEW e \in Call, SameKey(c, e), Overlapped(d, e) PROVE FALSE
  <2>1. Kept(e)
    BY <1>5 DEF Overlapped
  <2>2. SameKey(c, e)'
    BY <1>1, <1>5, <2>1 DEF Kept, SameKey
  <2>3. Overlapped(d, e)'
    BY <1>1, <1>5, <2>1 DEF Kept, Overlapped, Sent, At
  <2>4. QED
    BY <1>3, <2>2, <2>3
<1>6. QED
  BY <1>4, <1>5

-----------------------------------------------------------------------------
(* The inductive invariant *)

\* Nothing was sent and every switch is off.
LEMMA BffInit == Init => BffInv
<1> SUFFICES ASSUME Init PROVE BffInv
  OBVIOUS
<1> USE DEF Init
<1>1. NewCall \in CallRecord
  BY BffAssumption DEF NewCall, CallRecord, PCs, Answers
<1>2. TypeOK
  BY <1>1 DEF TypeOK, Off, Scopes
<1>3. \A c \in Call : CallGood(c) /\ calls[c].pc = "idle"
  BY DEF CallGood, NewCall
<1>4. \A p \in Replica : SwitchGood(p)
  BY DEF SwitchGood, Off
<1>5. QED
  BY <1>2, <1>3, <1>4 DEF BffInv, RetryGood, ReplayIsOwnAnswer, At

\* Call c, in flight, becomes r and nothing else is called or seen.
Moves(c, r) ==
  /\ calls[c].pc \notin Done \union {"idle"}
  /\ r \in CallRecord
  /\ r.req = calls[c].req /\ r.at = calls[c].at /\ r.seen = calls[c].seen
  /\ (calls[c].blind => r.blind) /\ (calls[c].ran => r.ran)
  /\ r.pc # "idle"
  /\ calls' = [calls EXCEPT ![c] = r]

\* A move keeps every call that was sent.
LEMMA MoveKept ==
  ASSUME TypeOK, NEW c \in Call, NEW r, Moves(c, r), NEW d \in Call
  PROVE  /\ Sent(d) => Kept(d)
         /\ d # c => calls'[d] = calls[d]
         /\ calls'[c] = r
         /\ calls'[d].req = calls[d].req /\ calls'[d].at = calls[d].at
         /\ calls'[d].seen = calls[d].seen
         /\ calls[d].ran => calls'[d].ran
BY Fields DEF TypeOK, Moves, Kept, Sent, At

\* A move keeps the switches of those it does not concern.
LEMMA SwitchKept ==
  ASSUME BffInv, NEW c \in Call, NEW r, Moves(c, r), UNCHANGED switch, recorded \subseteq recorded',
         calls[c].pc = "append" \/ calls[c].answer = "error" =>
           c \in recorded' \/ r.pc = "append" \/ r.answer = "error"
  PROVE  \A p \in Replica : SwitchGood(p)'
<1> SUFFICES ASSUME NEW p \in Replica, switch[p].engaged PROVE SwitchGood(p)'
  BY DEF SwitchGood
<1>1. TypeOK /\ SwitchGood(p)
  BY DEF BffInv
<1>2. PICK d \in Call :
        /\ switch[p].by = {d} /\ calls[d].at = p /\ calls[d].ran
        /\ Kind(d) \in Engages /\ May(d)
        /\ switch[p].scope = (IF Kind(d) = "engage_global" THEN "global" ELSE "tenant")
        /\ switch[p].tenant = Tenant_(d)
        /\ d \in recorded \/ At(d, "append") \/ calls[d].answer = "error"
  BY <1>1 DEF SwitchGood
<1>3. Kind(d)' = Kind(d) /\ May(d)' = May(d) /\ Tenant_(d)' = Tenant_(d)
      /\ calls'[d].at = p /\ calls'[d].ran
  BY <1>1, <1>2, MoveKept DEF Kind, May, Tenant_
<1>4. d \in recorded' \/ At(d, "append")' \/ calls'[d].answer = "error"
  <2>1. CASE d = c
    BY <1>1, <1>2, <2>1, MoveKept DEF At, Moves
  <2>2. CASE d # c
    BY <1>1, <1>2, <2>2, MoveKept DEF At
  <2>3. QED
    BY <2>1, <2>2
<1>5. QED
  BY <1>2, <1>3, <1>4 DEF SwitchGood

\* Two calls with one key and a stored response each, of orderly calls, are one
\* call: of two, the later would have run against the response of the earlier.
LEMMA OneStoredResponse ==
  ASSUME BffInv, NEW c \in stored, NEW d \in stored, SameKey(c, d), Orderly(c)
  PROVE  c = d
<1>1. c \in Call /\ d \in Call /\ CallGood(c) /\ CallGood(d) /\ RetryGood(c, d) /\ RetryGood(d, c)
  BY DEF BffInv, TypeOK
<1>2. Sent(c) /\ Sent(d) /\ calls[c].ran /\ calls[d].ran
  BY <1>1 DEF CallGood, Over, Done, Sent, At
<1>3. Orderly(d) /\ SameKey(d, c)
  BY <1>1, SameKeyEquiv DEF Orderly
<1>4. c \notin calls[d].seen /\ d \notin calls[c].seen
  BY <1>1, <1>2, <1>3 DEF RetryGood
<1>5. SameKey(c, c)
  BY DEF SameKey
<1>6. QED
  BY <1>1, <1>2, <1>4, <1>5 DEF Orderly, Overlapped

\* What the moves of calls have in common.
LEMMA MoveKeeps ==
  ASSUME BffInv, NEW c \in Call, NEW r, Moves(c, r),
         r.pc \in {"lookup", "handler"} => ~r.ran,
         r.pc \in {"append", "insert"} => r.ran,
         stored' = stored \/ (stored' = stored \union {c} /\ r.pc \in Done /\ r.ran /\ Scoped(c)),
         recorded' \subseteq Call,
         switch' \in [Replica -> [engaged : BOOLEAN, by : SUBSET Call, scope : Scopes,
                                  tenant : Tenant \union {NoTenant}]],
         r.ran \/ r.pc = "handler" =>
           calls[c].ran \/ calls[c].pc = "handler" \/ r.blind \/ NotFound(c),
         r.pc = "answered" /\ ~r.ran =>
           \E d \in stored : SameKey(c, d) /\ calls[d].answer = r.answer,
         \A p \in Replica : SwitchGood(p)'
  PROVE  BffInv'
<1>1. TypeOK /\ (\A d \in Call : CallGood(d)) /\ ReplayIsOwnAnswer
  BY DEF BffInv
<1>2. TypeOK'
  BY <1>1 DEF TypeOK, Moves
<1>3. \A d \in Call : /\ Sent(d) => Kept(d)
                      /\ d # c => calls'[d] = calls[d]
                      /\ calls'[d].req = calls[d].req /\ calls'[d].at = calls[d].at
                      /\ calls'[d].seen = calls[d].seen
  BY <1>1, MoveKept
<1>4. calls'[c] = r /\ calls[c].pc \notin Done \union {"idle"} /\ r.pc # "idle"
  BY <1>1, MoveKept DEF Moves
<1>5. c \notin stored
  BY <1>1, <1>4 DEF CallGood, Over
<1>6. ASSUME NEW d \in Call PROVE CallGood(d)'
  <2>1. CallGood(d)
    BY <1>1
  <2>2. \A e \in calls'[d].seen : Over(e)'
    <3>1. \A e \in calls[d].seen : e \in Call /\ Over(e)
      BY <1>1, <2>1, Fields DEF CallGood
    <3>2. \A e \in calls[d].seen : calls'[e].pc \in Done
      BY <1>3, <1>4, <3>1 DEF Over
    <3>3. QED
      BY <1>3, <3>2 DEF Over
  <2>3. CASE d = c
    <3>1. Scoped(c)' = Scoped(c)
      BY <1>3 DEF Scoped, Tenant_
    <3>2. QED
      BY <1>4, <1>5, <2>2, <2>3, <3>1 DEF CallGood, Over
  <2>4. CASE d # c
    <3>1. calls'[d] = calls[d] /\ (d \in stored' => d \in stored)
      BY <1>3, <2>4
    <3>2. QED
      BY <2>1, <2>2, <3>1 DEF CallGood, Over, Scoped, Tenant_
  <2>5. QED
    BY <2>3, <2>4
<1>7. ASSUME NEW e \in Call, NEW d \in Call PROVE RetryGood(e, d)'
  <2> SUFFICES ASSUME e \in stored', e \in calls'[d].seen, SameKey(e, d)', Orderly(e)'
               PROVE  ~calls'[d].ran /\ ~At(d, "handler")'
    BY DEF RetryGood
  <2>1. e \in calls[d].seen /\ SameKey(e, d)
    BY <1>3 DEF SameKey
  <2>2. e # c /\ Over(e)
    BY <1>1, <1>4, <2>1 DEF CallGood, Over
  <2>3. e \in stored
    BY <2>2
  <2>4. Orderly(e)
    BY <1>3, <2>2, OrderlyBefore DEF Sent, At, Over, Done
  <2>5. ~calls[d].ran /\ ~At(d, "handler")
    BY <2>1, <2>3, <2>4 DEF BffInv, RetryGood
  <2>6. CASE d # c
    BY <1>3, <2>5, <2>6 DEF At
  <2>7. CASE d = c
    <3>1. SUFFICES ASSUME r.ran \/ r.pc = "handler" PROVE FALSE
      BY <1>4, <2>7 DEF At
    <3>2. Sent(c)' /\ SameKey(e, c)'
      BY <1>4, <2>7 DEF Sent, At
    <3>3. ~r.blind
      BY <1>4, <3>2 DEF Orderly
    <3>4. NotFound(c)
      BY <2>5, <2>7, <3>1, <3>3 DEF At
    <3>5. e \in RowsOf(c)
      <4>1. CallGood(e) /\ Scoped(e)
        BY <1>1, <2>3 DEF CallGood
      <4>2. Scoped(c) /\ KeyOf(e) = KeyOf(c)
        BY <2>1, <2>7, <4>1, KeySame, SameKeyEquiv DEF Scoped, Tenant_, SameKey
      <4>3. QED
        BY <2>3, <4>2 DEF RowsOf
    <3>6. PICK f \in RowsOf(c) : f # e
      BY <3>4, <3>5 DEF NotFound
    <3>7. f \in stored /\ f \in Call /\ SameKey(e, f)
      <4>1. f \in stored /\ f \in Call /\ KeyOf(f) = KeyOf(c)
        BY <1>1, <3>6 DEF RowsOf, TypeOK
      <4>2. QED
        BY <2>1, <2>7, <4>1, KeySame, SameKeyEquiv
    <3>8. QED
      BY <2>3, <2>4, <3>6, <3>7, OneStoredResponse
  <2>8. QED
    BY <2>6, <2>7
<1>8. ReplayIsOwnAnswer'
  <2> SUFFICES ASSUME NEW d \in Call, At(d, "answered")', ~calls'[d].ran
               PROVE  \E f \in stored' : calls'[f].ran /\ SameKey(d, f)' /\ calls'[f].answer = calls'[d].answer
    BY DEF ReplayIsOwnAnswer
  <2>1. PICK f \in stored : SameKey(d, f) /\ calls[f].answer = calls'[d].answer
    <3>1. CASE d = c
      BY <1>4, <3>1 DEF At
    <3>2. CASE d # c
      BY <1>1, <1>3, <3>2 DEF At, ReplayIsOwnAnswer
    <3>3. QED
      BY <3>1, <3>2
  <2>2. f \in Call /\ f # c /\ calls[f].ran /\ f \in stored'
    BY <1>1, <1>5, <2>1 DEF CallGood, TypeOK
  <2>3. calls'[f] = calls[f] /\ SameKey(d, f)'
    BY <1>3, <2>1, <2>2 DEF SameKey
  <2>4. QED
    BY <2>1, <2>2, <2>3
<1>9. QED
  BY <1>2, <1>6, <1>7, <1>8 DEF BffInv

\* A call is sent: it has seen only calls that are over, and ran nothing.
LEMMA SendKeeps == ASSUME BffInv, NEW c \in Call, Send(c) PROVE BffInv'
<1> DEFINE over == {d \in Call : calls[d].pc \in Done}
<1>1. TypeOK /\ CallGood(c) /\ calls[c].pc = "idle" /\ UNCHANGED <<switch, stored, recorded>>
  BY DEF BffInv, Send, At
<1>2. PICK q \in Requests, p \in Replica :
        calls' = [calls EXCEPT ![c] =
          [calls[c] EXCEPT !.pc = "lookup", !.req = q, !.at = p, !.seen = over]]
  BY <1>1 DEF Send
<1>3. /\ calls'[c] \in CallRecord
      /\ calls'[c].pc = "lookup" /\ ~calls'[c].ran /\ calls'[c].seen = over
  <2> DEFINE r == [calls[c] EXCEPT !.pc = "lookup", !.req = q, !.at = p, !.seen = over]
  <2>1. calls'[c] = r
    BY <1>1, <1>2 DEF TypeOK
  <2>2. calls[c] \in CallRecord /\ ~calls[c].ran
    BY <1>1, Fields DEF CallGood
  <2>3. r \in CallRecord /\ r.pc = "lookup" /\ ~r.ran /\ r.seen = over
    BY <2>2 DEF CallRecord, PCs
  <2>4. QED
    BY <2>1, <2>3
<1>4. \A d \in Call : /\ d # c => calls'[d] = calls[d]
                      /\ Sent(d) => d # c /\ Kept(d)
                      /\ Over(d) => d # c /\ Over(d)'
                      /\ calls[d].ran => d # c
                      /\ d \in stored => d # c /\ calls[d].ran
  BY <1>1, <1>2 DEF TypeOK, Kept, Sent, At, Over, Done, BffInv, CallGood
<1>5. TypeOK'
  BY <1>1, <1>2, <1>3 DEF TypeOK
<1>6. ASSUME NEW d \in Call PROVE CallGood(d)'
  <2>1. CallGood(d)
    BY DEF BffInv
  <2>2. \A e \in calls'[d].seen : Over(e)'
    <3>1. CASE d = c
      BY <1>3, <1>4, <3>1 DEF Over
    <3>2. CASE d # c
      BY <1>1, <1>4, <2>1, <3>2, Fields DEF CallGood
    <3>3. QED
      BY <3>1, <3>2
  <2>3. QED
    BY <1>1, <1>3, <1>4, <2>1, <2>2 DEF CallGood, Over, Scoped, Tenant_
<1>7. ASSUME NEW e \in Call, NEW d \in Call PROVE RetryGood(e, d)'
  <2>1. CASE d = c
    BY <1>3, <2>1 DEF RetryGood, At
  <2>2. CASE d # c
    <3> SUFFICES ASSUME e \in stored, e \in calls[d].seen, SameKey(e, d)', Orderly(e)'
                 PROVE  ~calls[d].ran /\ ~At(d, "handler")
      BY <1>1, <1>4, <2>2 DEF RetryGood, At
    <3>1. e # c /\ SameKey(e, d) /\ Sent(e)
      BY <1>4, <2>2 DEF SameKey, BffInv, CallGood, Over, Done, Sent, At
    <3>2. Orderly(e)
      BY <1>4, <3>1, OrderlyBefore
    <3>3. QED
      BY <3>1, <3>2 DEF BffInv, RetryGood
  <2>3. QED
    BY <2>1, <2>2
<1>8. ReplayIsOwnAnswer'
  <2> SUFFICES ASSUME NEW d \in Call, At(d, "answered")', ~calls'[d].ran
               PROVE  \E f \in stored' : calls'[f].ran /\ SameKey(d, f)' /\ calls'[f].answer = calls'[d].answer
    BY DEF ReplayIsOwnAnswer
  <2>1. d # c /\ At(d, "answered") /\ ~calls[d].ran
    BY <1>3, <1>4 DEF At
  <2>2. PICK f \in stored : calls[f].ran /\ SameKey(d, f) /\ calls[f].answer = calls[d].answer
    BY <2>1 DEF BffInv, ReplayIsOwnAnswer
  <2>3. f \in Call /\ f # c
    BY <1>1, <1>4, <2>2 DEF TypeOK
  <2>4. calls'[f] = calls[f] /\ calls'[d] = calls[d]
    BY <1>4, <2>1, <2>3
  <2>5. QED
    BY <1>1, <2>2, <2>4 DEF SameKey
<1>9. ASSUME NEW p1 \in Replica PROVE SwitchGood(p1)'
  BY <1>1, <1>4 DEF BffInv, SwitchGood, Kind, May, Tenant_, At
<1>10. QED
  BY <1>5, <1>6, <1>7, <1>8, <1>9 DEF BffInv

\* The lookup gives another call's response, or none.
LEMMA LookupKeeps ==
  ASSUME BffInv, NEW c \in Call, Replay(c) \/ PassOn(c) PROVE BffInv'
<1>1. TypeOK /\ CallGood(c) /\ calls[c].pc = "lookup" /\ ~calls[c].ran
      /\ UNCHANGED <<switch, stored, recorded>>
  BY DEF BffInv, Replay, PassOn, At, CallGood
<1>2. calls[c] \in CallRecord
  BY <1>1, Fields
<1>3. CASE Replay(c)
  <2>1. PICK d \in Call : /\ RowsOf(c) = {d}
                          /\ calls' = [calls EXCEPT ![c] =
                               [calls[c] EXCEPT !.answer = calls[d].answer, !.pc = "answered"]]
    BY <1>3 DEF Replay
  <2> DEFINE r == [calls[c] EXCEPT !.answer = calls[d].answer, !.pc = "answered"]
  <2>2. d \in stored /\ SameKey(c, d)
    BY <2>1, KeySame DEF RowsOf
  <2>3. /\ r \in CallRecord /\ Moves(c, r)
        /\ r.pc = "answered" /\ r.answer = calls[d].answer /\ r.ran = calls[c].ran
    BY <1>1, <1>2, <2>1, Fields DEF CallRecord, PCs, Moves, Done
  <2>4. CASE calls[c].answer = "error" => r.answer = "error"
    <3>1. \A p \in Replica : SwitchGood(p)'
      BY <1>1, <2>3, <2>4, SwitchKept
    <3>2. QED
      BY <1>1, <2>2, <2>3, <3>1, MoveKeeps DEF TypeOK
  <2>5. CASE calls[c].answer = "error" /\ r.answer # "error"
    <3>1. ASSUME NEW p \in Replica PROVE SwitchGood(p)'
      BY <1>1, <2>3, MoveKept DEF BffInv, SwitchGood, Kind, May, Tenant_, At
    <3>2. QED
      BY <1>1, <2>2, <2>3, <3>1, MoveKeeps DEF TypeOK
  <2>6. QED
    BY <2>4, <2>5
<1>4. CASE PassOn(c)
  <2>1. PICK b \in BOOLEAN :
          /\ calls' = [calls EXCEPT ![c] = [calls[c] EXCEPT !.pc = "handler", !.blind = b]]
          /\ calls[c].blind => b
          /\ b \/ NotFound(c)
    <3>1. [calls[c] EXCEPT !.pc = "handler"] =
            [calls[c] EXCEPT !.pc = "handler", !.blind = calls[c].blind]
      BY <1>2 DEF CallRecord
    <3>2. QED
      BY <1>1, <1>4, <3>1, Fields DEF PassOn
  <2> DEFINE r == [calls[c] EXCEPT !.pc = "handler", !.blind = b]
  <2>2. Moves(c, r) /\ r.pc = "handler" /\ r.ran = calls[c].ran /\ r.answer = calls[c].answer /\ r.blind = b
    BY <1>1, <1>2, <2>1 DEF CallRecord, PCs, Moves, Done
  <2>3. \A p \in Replica : SwitchGood(p)'
    BY <1>1, <2>2, SwitchKept
  <2>4. QED
    BY <1>1, <2>1, <2>2, <2>3, MoveKeeps DEF TypeOK
<1>5. QED
  BY <1>3, <1>4

\* An answer and its storing.
LEMMA AnswerMoves ==
  ASSUME BffInv, NEW c \in Call, NEW a \in Answers, At(c, "handler") \/ At(c, "append"),
         Answer(c, a, "insert")
  PROVE  \E r : Moves(c, r) /\ r.pc = "insert" /\ r.ran /\ r.answer = a
<1> DEFINE r == [calls[c] EXCEPT !.answer = a, !.pc = "insert", !.ran = TRUE]
<1>1. calls[c] \in CallRecord /\ calls[c].pc \in {"handler", "append"}
  BY Fields DEF BffInv, At
<1>2. Moves(c, r) /\ r.pc = "insert" /\ r.ran /\ r.answer = a
  BY <1>1 DEF CallRecord, PCs, Moves, Done, Answer
<1>3. QED
  BY <1>2

\* A refusal and a gated handler touch nothing but their call.
LEMMA PlainRouteKeeps ==
  ASSUME BffInv, NEW c \in Call, Refuse(c) \/ Gated(c) PROVE BffInv'
<1>1. TypeOK /\ CallGood(c) /\ calls[c].pc = "handler" /\ ~calls[c].ran
      /\ UNCHANGED <<switch, stored, recorded>>
  BY DEF BffInv, Refuse, Gated, At, CallGood
<1>2. PICK a \in Answers : Answer(c, a, "insert")
  BY DEF Refuse, Gated, Answers
<1>3. PICK r : Moves(c, r) /\ r.pc = "insert" /\ r.ran
  BY <1>1, <1>2, AnswerMoves DEF At
<1>4. ASSUME NEW p \in Replica PROVE SwitchGood(p)'
  BY <1>1, <1>3, MoveKept DEF BffInv, SwitchGood, Kind, May, Tenant_, At
<1>5. QED
  BY <1>1, <1>3, <1>4, MoveKeeps DEF TypeOK

\* The switch is written by the call that then appends its entry.
LEMMA SwitchingKeeps ==
  ASSUME BffInv, NEW c \in Call, Engage(c) \/ Release(c) PROVE BffInv'
<1> DEFINE r == [calls[c] EXCEPT !.pc = "append", !.ran = TRUE]
           p0 == calls[c].at
           scope == IF Kind(c) = "engage_global" THEN "global" ELSE "tenant"
<1>1. TypeOK /\ CallGood(c) /\ calls[c].pc = "handler" /\ ~calls[c].ran
      /\ UNCHANGED <<stored, recorded>> /\ p0 \in Replica
      /\ calls[c] \in CallRecord /\ Tenant_(c) \in Tenant \union {NoTenant}
      /\ (\A p \in Replica : SwitchGood(p))
  BY Fields, BffAssumption DEF BffInv, Engage, Release, At, CallGood, Tenant_
<1>2. Moves(c, r) /\ r.pc = "append" /\ r.ran
  BY <1>1 DEF CallRecord, PCs, Moves, Done, Engage, Release, ToAppend
<1>3. /\ calls'[c] = r /\ calls'[c].at = p0 /\ calls'[c].req = calls[c].req
      /\ \A d \in Call : d # c => calls'[d] = calls[d]
  BY <1>1, <1>2, MoveKept
<1>4. /\ \/ Kind(c) \in Engages /\ May(c) /\ switch'[p0] = Engaged(c, scope, Tenant_(c))
         \/ switch'[p0] = Released(switch[p0])
      /\ \A p \in Replica : p # p0 => switch'[p] = switch[p]
      /\ switch' \in [Replica -> [engaged : BOOLEAN, by : SUBSET Call, scope : Scopes,
                                  tenant : Tenant \union {NoTenant}]]
  <2>1. CASE Engage(c)
    BY <1>1, <2>1 DEF TypeOK, Engage, Engaged, Scopes
  <2>2. CASE Release(c)
    BY <1>1, <2>2 DEF TypeOK, Release, Released, Scopes
  <2>3. QED
    BY <2>1, <2>2
<1>5. ASSUME NEW p \in Replica PROVE SwitchGood(p)'
  <2>1. CASE p # p0
    <3>1. switch'[p] = switch[p] /\ SwitchGood(p)
      BY <1>1, <1>4, <2>1
    <3>2. QED
      BY <1>1, <1>3, <3>1 DEF SwitchGood, Kind, May, Tenant_, At
  <2>2. CASE p = p0 /\ switch'[p0] = Released(switch[p0])
    <3>1. switch[p0] \in [engaged : BOOLEAN, by : SUBSET Call, scope : Scopes,
                          tenant : Tenant \union {NoTenant}]
      BY <1>1 DEF TypeOK
    <3>2. ~switch'[p0].engaged
      BY <2>2, <3>1 DEF Released
    <3>3. QED
      BY <2>2, <3>2 DEF SwitchGood
  <2>3. CASE p = p0 /\ Kind(c) \in Engages /\ May(c) /\ switch'[p0] = Engaged(c, scope, Tenant_(c))
    <3>1. Kind(c)' = Kind(c) /\ May(c)' = May(c) /\ Tenant_(c)' = Tenant_(c)
      BY <1>3 DEF Kind, May, Tenant_
    <3>2. At(c, "append")' /\ calls'[c].ran
      BY <1>2, <1>3 DEF At
    <3>3. switch'[p].by = {c} /\ switch'[p].scope = scope /\ switch'[p].tenant = Tenant_(c)
      BY <2>3 DEF Engaged
    <3>4. QED
      BY <1>3, <2>3, <3>1, <3>2, <3>3 DEF SwitchGood
  <2>4. QED
    BY <1>4, <2>1, <2>2, <2>3
<1>6. QED
  BY <1>1, <1>2, <1>4, <1>5, MoveKeeps DEF TypeOK

\* The append succeeds, or says that it did not.
LEMMA AppendKeeps == ASSUME BffInv, NEW c \in Call, AppendEntry(c) PROVE BffInv'
<1>1. TypeOK /\ CallGood(c) /\ calls[c].pc = "append" /\ calls[c].ran
      /\ UNCHANGED <<switch, stored>>
  BY DEF BffInv, AppendEntry, At, CallGood
<1>2. PICK a \in Answers :
        /\ Answer(c, a, "insert")
        /\ recorded \subseteq recorded' /\ recorded' \subseteq Call
        /\ c \in recorded' \/ a = "error"
  BY <1>1 DEF AppendEntry, LedgerFailed, Answers, TypeOK
<1>3. PICK r : Moves(c, r) /\ r.pc = "insert" /\ r.ran /\ r.answer = a
  BY <1>1, <1>2, AnswerMoves DEF At
<1>4. \A p \in Replica : SwitchGood(p)'
  BY <1>1, <1>2, <1>3, SwitchKept
<1>5. QED
  BY <1>1, <1>2, <1>3, <1>4, MoveKeeps DEF TypeOK

\* The response is stored, or not, and given.
LEMMA InsertKeeps == ASSUME BffInv, NEW c \in Call, Insert(c) PROVE BffInv'
<1> DEFINE r == [calls[c] EXCEPT !.pc = "answered"]
<1>1. TypeOK /\ CallGood(c) /\ calls[c].pc = "insert" /\ calls[c].ran /\ calls[c] \in CallRecord
      /\ UNCHANGED <<switch, recorded>>
  BY Fields DEF BffInv, Insert, At, CallGood
<1>2. Moves(c, r) /\ r.pc = "answered" /\ r.ran /\ r.answer = calls[c].answer
  BY <1>1 DEF CallRecord, PCs, Moves, Done, Insert
<1>3. \A p \in Replica : SwitchGood(p)'
  BY <1>1, <1>2, SwitchKept
<1>4. stored' = stored \/ (stored' = stored \union {c} /\ Scoped(c))
  BY DEF Insert
<1>5. QED
  BY <1>1, <1>2, <1>3, <1>4, MoveKeeps DEF TypeOK, Done

\* A replica dies: its calls are over, and what it sent may be stored.
LEMMA RestartKeeps == ASSUME BffInv, NEW p \in Replica, RestartReplica(p) PROVE BffInv'
<1> DEFINE F == InFlight(p, PCs \ (Done \union {"idle"}))
<1>1. TypeOK /\ (\A d \in Call : CallGood(d) /\ calls[d] \in CallRecord)
      /\ switch' = [switch EXCEPT ![p] = Off]
      /\ calls' = [d \in Call |-> IF d \in F THEN [calls[d] EXCEPT !.pc = "gone"] ELSE calls[d]]
  BY Fields DEF BffInv, RestartReplica
<1>2. PICK S \in SUBSET {d \in InFlight(p, {"insert"}) : Scoped(d)} : stored' = stored \union S
  BY DEF RestartReplica
<1>3. PICK R \in SUBSET InFlight(p, {"append"}) : recorded' = recorded \union R
  BY DEF RestartReplica
<1>4. \A d \in Call :
        /\ calls'[d] \in CallRecord
        /\ calls'[d].req = calls[d].req /\ calls'[d].at = calls[d].at
        /\ calls'[d].seen = calls[d].seen /\ calls'[d].blind = calls[d].blind
        /\ calls'[d].ran = calls[d].ran /\ calls'[d].answer = calls[d].answer
        /\ calls'[d].pc = calls[d].pc \/ (calls'[d].pc = "gone" /\ calls[d].pc \notin Done \union {"idle"})
        /\ d \notin F => calls'[d] = calls[d]
        /\ d \in F => calls'[d].pc = "gone"
  <2> SUFFICES ASSUME NEW d \in Call
               PROVE  /\ calls'[d] \in CallRecord
                      /\ calls'[d].req = calls[d].req /\ calls'[d].at = calls[d].at
                      /\ calls'[d].seen = calls[d].seen /\ calls'[d].blind = calls[d].blind
                      /\ calls'[d].ran = calls[d].ran /\ calls'[d].answer = calls[d].answer
                      /\ calls'[d].pc = calls[d].pc
                           \/ (calls'[d].pc = "gone" /\ calls[d].pc \notin Done \union {"idle"})
                      /\ d \notin F => calls'[d] = calls[d]
                      /\ d \in F => calls'[d].pc = "gone"
    OBVIOUS
  <2>1. CASE d \in F
    <3>1. calls'[d] = [calls[d] EXCEPT !.pc = "gone"] /\ calls[d] \in CallRecord
          /\ calls[d].pc \notin Done \union {"idle"}
      BY <1>1, <2>1 DEF InFlight
    <3>2. QED
      BY <2>1, <3>1 DEF CallRecord, PCs
  <2>2. CASE d \notin F
    BY <1>1, <2>2
  <2>3. QED
    BY <2>1, <2>2
<1>5. \A d \in S : /\ d \in Call /\ d \in F /\ calls[d].ran /\ Scoped(d) /\ calls[d].pc = "insert"
  BY <1>1, <1>2 DEF InFlight, PCs, Done, CallGood
<1>6. TypeOK'
  <2>1. calls' \in [Call -> CallRecord]
    BY <1>1, <1>4
  <2>2. stored' \subseteq Call /\ recorded' \subseteq Call
    BY <1>1, <1>2, <1>3 DEF TypeOK, InFlight
  <2>3. Off \in [engaged : BOOLEAN, by : SUBSET Call, scope : Scopes, tenant : Tenant \union {NoTenant}]
    BY DEF Off, Scopes
  <2>4. QED
    BY <1>1, <2>1, <2>2, <2>3 DEF TypeOK
<1>7. \A d \in Call : Sent(d) => Kept(d) /\ Sent(d)'
  BY <1>4 DEF Sent, At, Kept, Done, InFlight
<1>8. \A d \in Call : Over(d) => Over(d)'
  BY <1>4 DEF Over
<1>9. ASSUME NEW d \in Call PROVE CallGood(d)'
  <2>1. calls'[d].pc \in {"idle", "lookup", "handler"} => ~calls'[d].ran
    BY <1>1, <1>4 DEF CallGood
  <2>2. calls'[d].pc \in {"append", "insert"} => calls'[d].ran
    BY <1>1, <1>4 DEF CallGood
  <2>3. d \in stored' => Over(d)' /\ calls'[d].ran /\ Scoped(d)'
    <3>1. Scoped(d)' = Scoped(d)
      BY <1>4 DEF Scoped, Tenant_
    <3>2. CASE d \in stored
      BY <1>1, <1>4, <1>8, <3>1, <3>2 DEF CallGood
    <3>3. CASE d \in S
      BY <1>4, <1>5, <3>1, <3>3 DEF Over, Done
    <3>4. QED
      BY <1>2, <3>2, <3>3
  <2>4. \A e \in calls'[d].seen : Over(e)'
    BY <1>1, <1>4, <1>8, Fields DEF CallGood
  <2>5. QED
    BY <2>1, <2>2, <2>3, <2>4 DEF CallGood
<1>10. ASSUME NEW e \in Call, NEW d \in Call PROVE RetryGood(e, d)'
  <2> SUFFICES ASSUME e \in stored', e \in calls'[d].seen, SameKey(e, d)', Orderly(e)'
               PROVE  ~calls'[d].ran /\ ~At(d, "handler")'
    BY DEF RetryGood
  <2>1. e \in calls[d].seen /\ SameKey(e, d) /\ Over(e)
    BY <1>1, <1>4 DEF SameKey, CallGood
  <2>2. e \in stored /\ Sent(e)
    BY <1>2, <1>5, <2>1 DEF Over, Done, Sent, At
  <2>3. Orderly(e)
    BY <1>7, <2>2, OrderlyBefore
  <2>4. ~calls[d].ran /\ ~At(d, "handler")
    BY <2>1, <2>2, <2>3 DEF BffInv, RetryGood
  <2>5. QED
    BY <1>4, <2>4 DEF At
<1>11. ReplayIsOwnAnswer'
  <2> SUFFICES ASSUME NEW d \in Call, At(d, "answered")', ~calls'[d].ran
               PROVE  \E f \in stored' : calls'[f].ran /\ SameKey(d, f)' /\ calls'[f].answer = calls'[d].answer
    BY DEF ReplayIsOwnAnswer
  <2>1. At(d, "answered") /\ ~calls[d].ran
    BY <1>4 DEF At
  <2>2. PICK f \in stored : calls[f].ran /\ SameKey(d, f) /\ calls[f].answer = calls[d].answer
    BY <2>1 DEF BffInv, ReplayIsOwnAnswer
  <2>3. f \in Call /\ f \in stored'
    BY <1>1, <1>2 DEF TypeOK
  <2>4. QED
    BY <1>4, <2>2, <2>3 DEF SameKey
<1>12. ASSUME NEW q \in Replica PROVE SwitchGood(q)'
  <2>1. CASE q = p
    BY <1>1, <2>1 DEF TypeOK, SwitchGood, Off
  <2>2. CASE q # p
    <3>1. switch'[q] = switch[q] /\ SwitchGood(q)
      BY <1>1, <2>2 DEF TypeOK, BffInv
    <3>2. ASSUME NEW d \in Call, calls[d].at = q PROVE calls'[d] = calls[d]
      BY <1>4, <2>2, <3>2 DEF InFlight
    <3>3. QED
      BY <1>3, <3>1, <3>2 DEF SwitchGood, Kind, May, Tenant_, At
  <2>3. QED
    BY <2>1, <2>2
<1>13. QED
  BY <1>6, <1>9, <1>10, <1>11, <1>12 DEF BffInv

\* Every step keeps the invariant.
LEMMA BffStep == BffInv /\ [Next]_vars => BffInv'
<1> SUFFICES ASSUME BffInv, [Next]_vars PROVE BffInv'
  OBVIOUS
<1>1. CASE UNCHANGED vars
  BY <1>1 DEF vars, BffInv, TypeOK, CallGood, RetryGood, SwitchGood, ReplayIsOwnAnswer, Over, Sent,
              At, Kind, Tenant_, May, Scoped, SameKey, Orderly, Overlapped
<1>2. CASE \E c \in Call : Send(c) \/ Step(c)
  BY <1>2, SendKeeps, LookupKeeps, PlainRouteKeeps, SwitchingKeeps, AppendKeeps, InsertKeeps
     DEF Step, Route
<1>3. CASE \E p \in Replica : RestartReplica(p)
  BY <1>3, RestartKeeps
<1>4. QED
  BY <1>1, <1>2, <1>3 DEF Next

\* Whatever calls are made, at whichever replicas and with whatever failures, the
\* middleware and the switch keep their books.
THEOREM BffInvariant == Spec => []BffInv
BY BffInit, BffStep, PTL DEF Spec

\* The state is well typed.
THEOREM BffTypeCorrect == Spec => []TypeOK
<1>1. BffInv => TypeOK
  BY DEF BffInv
<1>2. QED
  BY <1>1, BffInvariant, PTL

-----------------------------------------------------------------------------
(* What follows *)

\* A key is executed once, as far as the middleware can make it so.
THEOREM RetriesAreNotExecuted == Spec => []RetryNotExecuted
<1>1. BffInv => RetryNotExecuted
  BY DEF BffInv, RetryGood, RetryNotExecuted, TypeOK
<1>2. QED
  BY <1>1, BffInvariant, PTL

\* No caller is given an answer to someone else's request.
THEOREM ReplaysAreOwnAnswers == Spec => []ReplayIsOwnAnswer
<1>1. BffInv => ReplayIsOwnAnswer
  BY DEF BffInv
<1>2. QED
  BY <1>1, BffInvariant, PTL

\* Every halt goes back to a call entitled to it.
THEOREM HaltsHaveEngagers == Spec => []HaltHasAnEngager
<1>1. ASSUME BffInv, NEW p \in Replica, NEW t \in Tenant, IsActive(switch[p], t)
      PROVE  \E c \in Call :
        /\ switch[p].by = {c} /\ calls[c].at = p /\ calls[c].ran
        /\ \/ Kind(c) = "engage_global" /\ calls[c].req.role \in {"founder", "owner"}
           \/ Kind(c) = "engage_tenant" /\ Tenant_(c) = t /\ calls[c].req.role # "other"
        /\ c \in recorded \/ At(c, "append") \/ calls[c].answer = "error"
  BY <1>1 DEF BffInv, SwitchGood, IsActive, Engages, May
<1>2. BffInv => HaltHasAnEngager
  BY <1>1 DEF HaltHasAnEngager
<1>3. QED
  BY <1>2, BffInvariant, PTL

\* A step that lets a tenant go releases, engages for another, or restarts.
LEMMA LettingGo ==
  ASSUME BffInv, Next, NEW p \in Replica, NEW t \in Tenant,
         IsActive(switch[p], t), ~IsActive(switch'[p], t)
  PROVE  \/ \E c \in Call :
              /\ calls[c].at = p /\ At(c, "handler") /\ calls'[c].pc = "append"
              /\ \/ Kind(c) = "release" /\ calls[c].req.role \in {"founder", "owner"}
                 \/ Kind(c) = "engage_tenant" /\ Tenant_(c) # t
         \/ \A c \in Call : calls[c].at = p => calls'[c].pc \in Done \union {"idle"}
<1>1. TypeOK
  BY DEF BffInv
<1>2. ASSUME NEW c \in Call, Engage(c) \/ Release(c)
      PROVE  /\ calls[c].at = p /\ At(c, "handler") /\ calls'[c].pc = "append"
             /\ \/ Kind(c) = "release" /\ calls[c].req.role \in {"founder", "owner"}
                \/ Kind(c) = "engage_tenant" /\ Tenant_(c) # t
  <2>1. calls[c].at = p
    BY <1>1, <1>2 DEF TypeOK, Engage, Release
  <2>2. At(c, "handler") /\ calls'[c].pc = "append"
    <3>1. At(c, "handler") /\ calls[c] \in CallRecord
          /\ calls' = [calls EXCEPT ![c] = [calls[c] EXCEPT !.pc = "append", !.ran = TRUE]]
      BY <1>1, <1>2, Fields DEF Engage, Release, ToAppend
    <3>2. calls'[c] = [calls[c] EXCEPT !.pc = "append", !.ran = TRUE]
      BY <1>1, <3>1 DEF TypeOK
    <3>3. calls'[c].pc = "append"
      BY <3>1, <3>2 DEF CallRecord
    <3>4. QED
      BY <3>1, <3>3
  <2>3. CASE Engage(c)
    <3>1. switch'[p] = Engaged(c, IF Kind(c) = "engage_global" THEN "global" ELSE "tenant", Tenant_(c))
      BY <1>1, <2>1, <2>3 DEF TypeOK, Engage
    <3>2. t # NoTenant
      BY TenantAssumption
    <3>3. QED
      BY <2>1, <2>2, <2>3, <3>1, <3>2 DEF Engaged, IsActive, Engage, Engages
  <2>4. CASE Release(c)
    BY <2>1, <2>2, <2>4 DEF Release, May
  <2>5. QED
    BY <1>2, <2>3, <2>4
<1>3. CASE \E c \in Call : Engage(c) \/ Release(c)
  BY <1>2, <1>3
<1>4. CASE \E c \in Call : Send(c) \/ Replay(c) \/ PassOn(c) \/ Refuse(c) \/ AppendEntry(c) \/ Gated(c) \/ Insert(c)
  <2>1. switch' = switch
    BY <1>4 DEF Send, Replay, PassOn, Refuse, AppendEntry, Gated, Insert
  <2>2. QED
    BY <2>1
<1>5. CASE \E q \in Replica : RestartReplica(q)
  <2>1. PICK q \in Replica : RestartReplica(q)
    BY <1>5
  <2>2. p = q
    BY <1>1, <2>1 DEF TypeOK, RestartReplica
  <2>3. ASSUME NEW c \in Call, calls[c].at = p PROVE calls'[c].pc \in Done \union {"idle"}
    <3>1. calls'[c] = IF c \in InFlight(p, PCs \ (Done \union {"idle"}))
                        THEN [calls[c] EXCEPT !.pc = "gone"] ELSE calls[c]
      BY <2>1, <2>2 DEF RestartReplica
    <3>2. CASE c \in InFlight(p, PCs \ (Done \union {"idle"}))
      <4>1. calls'[c].pc = "gone"
        BY <1>1, <3>1, <3>2, Fields DEF CallRecord
      <4>2. QED
        BY <4>1 DEF Done
    <3>3. CASE c \notin InFlight(p, PCs \ (Done \union {"idle"}))
      BY <1>1, <2>3, <3>1, <3>3, Fields DEF InFlight
    <3>4. QED
      BY <3>2, <3>3
  <2>4. QED
    BY <2>3
<1>6. QED
  BY <1>3, <1>4, <1>5 DEF Next, Step, Route

\* Nobody else resumes a tenant.
THEOREM ResumptionsArePurposeful == Spec => ResumedOnPurpose
<1>1. BffInv /\ [Next]_vars =>
        [\A p \in Replica, t \in Tenant :
          IsActive(switch[p], t) /\ ~IsActive(switch'[p], t) =>
            \/ \E c \in Call :
                 /\ calls[c].at = p /\ At(c, "handler") /\ calls'[c].pc = "append"
                 /\ \/ Kind(c) = "release" /\ calls[c].req.role \in {"founder", "owner"}
                    \/ Kind(c) = "engage_tenant" /\ Tenant_(c) # t
            \/ \A c \in Call : calls[c].at = p => calls'[c].pc \in Done \union {"idle"}]_vars
  BY LettingGo
<1>2. QED
  BY <1>1, BffInvariant, PTL DEF Spec, ResumedOnPurpose
=============================================================================
