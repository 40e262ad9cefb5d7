-------------------------- MODULE AuditLedger_proofs --------------------------
(***************************************************************************)
(* Proofs about AuditLedger, for every set of tenants, connections and     *)
(* entries, every bound on rows, and with or without failing transactions. *)
(***************************************************************************)
EXTENDS AuditLedger, SequenceTheorems, FiniteFacts, TLAPS

-----------------------------------------------------------------------------
(* Chains. *)

\* The hash of a row and the hash of the row before it.
LEMMA LastHashType == ASSUME NEW L \in Seq(Row) PROVE LastHash(L) \in Hash
<1>1. <<>> \in Hash
  BY DEF Hash
<1>2. ASSUME L # <<>> PROVE L[Len(L)].hash \in Hash
  <2>1. L[Len(L)] \in Row
    BY <1>2
  <2>2. QED
    BY <2>1 DEF Row
<1>3. QED
  BY <1>1, <1>2 DEF LastHash, NoHash

\* A digest is a hash, and never the null before the first row.
LEMMA DigestType ==
  ASSUME NEW n \in Nat, NEW e \in Content, NEW p \in Hash
  PROVE  Digest(n, e, p) \in Hash /\ Digest(n, e, p) # NoHash
<1> DEFINE x == <<n, Joined[e]>>
<1>1. x \in Link
  BY DEF Link, Text
<1>2. p \in Seq(Link)
  BY DEF Hash
<1> HIDE DEF x
<1>3. Append(p, x) \in Seq(Link) /\ Len(Append(p, x)) = Len(p) + 1 /\ Len(p) \in Nat
  BY <1>1, <1>2
<1>4. Append(p, x) # <<>>
  <2>1. Len(<<>>) = 0
    OBVIOUS
  <2>2. ASSUME Append(p, x) = <<>> PROVE FALSE
    <3>1. Len(Append(p, x)) = 0
      BY <2>1, <2>2, Zenon
    <3>2. QED
      BY <1>3, <3>1
  <2>3. QED
    BY <2>2
<1>5. QED
  BY <1>3, <1>4 DEF x, Digest, Hash, NoHash

\* Two digests are equal only if all they cover is: of the entry, its text.
LEMMA DigestTells ==
  ASSUME NEW n \in Nat, NEW m \in Nat, NEW e \in Content, NEW f \in Content,
         NEW p \in Hash, NEW q \in Hash, Digest(n, e, p) = Digest(m, f, q)
  PROVE  n = m /\ Joined[e] = Joined[f] /\ p = q
<1>1. /\ <<n, Joined[e]>> \in Link /\ <<m, Joined[f]>> \in Link
      /\ p \in Seq(Link) /\ q \in Seq(Link)
      /\ Append(p, <<n, Joined[e]>>) = Append(q, <<m, Joined[f]>>)
  BY DEF Link, Text, Hash, Digest
<1>2. p = q /\ <<n, Joined[e]>> = <<m, Joined[f]>>
  BY <1>1, AppendInjective
<1>3. QED
  BY <1>2

\* Appending a row numbered and hashed after the last keeps a chain linked.
LEMMA LinkedAppend ==
  ASSUME NEW L \in Seq(Row), Linked(L), NEW r \in Row,
         r.seq = Len(L) + 1, r.prev = LastHash(L), r.hash = Digest(r.seq, r.entry, r.prev)
  PROVE  Linked(Append(L, r)) /\ LastHash(Append(L, r)) = r.hash
<1> DEFINE M == Append(L, r)
<1>1. M \in Seq(Row) /\ Len(M) = Len(L) + 1 /\ M[Len(L) + 1] = r
      /\ \A i \in 1 .. Len(L) : M[i] = L[i]
  OBVIOUS
<1>2. ASSUME NEW i \in 1 .. Len(L)
      PROVE  /\ M[i].seq = i
             /\ M[i].prev = IF i = 1 THEN NoHash ELSE M[i - 1].hash
             /\ M[i].hash = Digest(i, M[i].entry, M[i].prev)
  <2>1. M[i] = L[i] /\ (i # 1 => M[i - 1] = L[i - 1])
    BY <1>1
  <2>2. QED
    BY <2>1 DEF Linked
<1>3. /\ r.seq = Len(L) + 1
      /\ r.prev = IF Len(L) + 1 = 1 THEN NoHash ELSE M[Len(L)].hash
      /\ r.hash = Digest(Len(L) + 1, r.entry, r.prev)
  BY <1>1 DEF LastHash
<1>4. Linked(M)
  <2>1. \A i \in DOMAIN M : i \in 1 .. Len(L) \/ i = Len(L) + 1
    BY <1>1
  <2>2. QED
    BY <1>1, <1>2, <1>3, <2>1 DEF Linked
<1>5. LastHash(M) = r.hash
  BY <1>1 DEF LastHash
<1>6. QED
  BY <1>4, <1>5

-----------------------------------------------------------------------------
(* The inductive invariant. *)

\* The fields of a well-typed transaction and of its tenant's counter row.
LEMMA Fields ==
  ASSUME TypeOK, NEW c \in Client
  PROVE  /\ txs[c] \in Transaction
         /\ txs[c].pc \in {"idle", "upsert", "lock", "write"}
         /\ txs[c].tenant \in Tenant \union {None}
         /\ txs[c].entry \in Content \union {None}
         /\ txs[c].seq \in Nat
         /\ txs[c].prev \in Hash
         /\ \A t \in Tenant : /\ counters[t] \in Counter /\ counters[t].last \in Nat
                             /\ counters[t].tip \in Hash
                             /\ log[t] \in Seq(Row)
<1>1. txs[c] \in Transaction
  BY DEF TypeOK
<1>2. \A t \in Tenant : counters[t] \in Counter /\ log[t] \in Seq(Row)
  BY DEF TypeOK
<1>3. \A t \in Tenant : counters[t].last \in Nat /\ counters[t].tip \in Hash
  BY <1>2 DEF Counter
<1>4. QED
  BY <1>1, <1>2, <1>3 DEF Transaction

\* An idle connection is a well-typed transaction.
LEMMA IdleType == Idle \in Transaction /\ Idle.pc = "idle"
<1>1. NoHash \in Hash
  BY DEF NoHash, Hash
<1>2. QED
  BY <1>1 DEF Idle, Transaction

\* The invariant holds initially.
LEMMA LedgerInit == Init => LedgerInv
<1> SUFFICES ASSUME Init PROVE LedgerInv
  OBVIOUS
<1>1. NoHash \in Hash /\ <<>> \in Seq(Row)
  BY DEF NoHash, Hash
<1>2. NoCounter \in Counter /\ NoCounter.last = 0 /\ NoCounter.tip = NoHash
  BY <1>1 DEF NoCounter, Counter
<1>3. TypeOK
  BY <1>1, <1>2, IdleType DEF Init, TypeOK
<1>4. ASSUME NEW t \in Tenant
      PROVE  Linked(log[t]) /\ counters[t].last = Len(log[t]) /\ counters[t].tip = LastHash(log[t])
  <2>1. log[t] = <<>> /\ counters[t] = NoCounter /\ Len(<<>>) = 0
    BY DEF Init
  <2>2. Linked(<<>>) /\ LastHash(<<>>) = NoHash
    BY DEF Linked, LastHash
  <2>3. QED
    BY <1>2, <2>1, <2>2
<1>5. WriterInv
  BY IdleType DEF Init, WriterInv, At
<1>6. OwnerInv
  BY LedgerAssumption DEF Init, OwnerInv
<1>7. QED
  BY <1>3, <1>4, <1>5, <1>6 DEF LedgerInv

\* Beginning an append keeps the invariant.
LEMMA LedgerBegin ==
  ASSUME LedgerInv, NEW c \in Client, NEW t \in Tenant, NEW e \in Content, Begin(c, t, e)
  PROVE  LedgerInv'
<1> DEFINE x == [Idle EXCEPT !.pc = "upsert", !.tenant = t, !.entry = e]
<1>1. x \in Transaction /\ x.pc = "upsert" /\ x.tenant = t /\ x.entry = e
  BY IdleType DEF Transaction, Idle
<1>2. txs' = [txs EXCEPT ![c] = x] /\ UNCHANGED <<counters, owner, log>>
  BY DEF Begin
<1>3. TypeOK'
  BY <1>1, <1>2 DEF LedgerInv, TypeOK
<1>4. txs'[c] = x /\ \A d \in Client \ {c} : txs'[d] = txs[d]
  BY <1>2 DEF LedgerInv, TypeOK
<1>5. WriterInv'
  BY <1>1, <1>2, <1>4 DEF LedgerInv, WriterInv, At
<1>6. OwnerInv'
  <2>1. \A u \in Tenant : owner[u] # c
    BY DEF LedgerInv, OwnerInv, Begin, At
  <2>2. QED
    BY <1>2, <1>4, <2>1 DEF LedgerInv, OwnerInv, At
<1>7. QED
  BY <1>2, <1>3, <1>5, <1>6 DEF LedgerInv

\* Inserting or finding the counter row keeps the invariant.
LEMMA LedgerUpsert ==
  ASSUME LedgerInv, NEW c \in Client, UpsertCounter(c)
  PROVE  LedgerInv'
<1>1. /\ At(c, "upsert")
      /\ txs' = [txs EXCEPT ![c].pc = "lock"]
      /\ UNCHANGED <<counters, log>>
      /\ \/ UNCHANGED owner
         \/ owner[txs[c].tenant] = None /\ owner' = [owner EXCEPT ![txs[c].tenant] = c]
  BY DEF UpsertCounter
<1>2. TypeOK /\ txs[c] \in Transaction
  BY DEF LedgerInv, TypeOK
<1>3. txs'[c] = [txs[c] EXCEPT !.pc = "lock"] /\ \A d \in Client \ {c} : txs'[d] = txs[d]
  BY <1>1, <1>2 DEF TypeOK
<1>4. txs'[c] \in Transaction /\ txs'[c].pc = "lock"
      /\ txs'[c].tenant = txs[c].tenant /\ txs'[c].entry = txs[c].entry
  BY <1>2, <1>3 DEF Transaction
<1>5. TypeOK'
  BY <1>1, <1>2, <1>4 DEF TypeOK
<1>6. \A d \in Client : At(d, "write") => owner'[txs[d].tenant] = owner[txs[d].tenant]
  <2>1. ASSUME NEW d \in Client, At(d, "write")
        PROVE  owner[txs[d].tenant] = d /\ txs[d].tenant \in Tenant /\ d # None
    BY <2>1, LedgerAssumption DEF LedgerInv, WriterInv, At
  <2>2. QED
    BY <1>1, <1>2, <2>1 DEF TypeOK
<1>7. WriterInv'
  BY <1>1, <1>3, <1>4, <1>6 DEF LedgerInv, WriterInv, At
<1>8. OwnerInv'
  <2> SUFFICES ASSUME NEW u \in Tenant, NEW d \in Client, owner'[u] = d
               PROVE  txs'[d].tenant = u /\ (At(d, "lock")' \/ At(d, "write")')
    BY DEF OwnerInv
  <2>1. owner[u] = d \/ (u = txs[c].tenant /\ d = c)
    BY <1>1, <1>2 DEF TypeOK
  <2>2. owner[u] = d => txs[d].tenant = u /\ (At(d, "lock") \/ At(d, "write"))
    BY DEF LedgerInv, OwnerInv
  <2>3. QED
    BY <1>1, <1>3, <1>4, <2>1, <2>2 DEF At
<1>9. QED
  BY <1>1, <1>5, <1>7, <1>8 DEF LedgerInv

\* Locking the counter row keeps the invariant: what is read is the tip, and
\* no one else is about to write.
LEMMA LedgerLock ==
  ASSUME LedgerInv, NEW c \in Client, LockCounter(c)
  PROVE  LedgerInv'
<1> DEFINE t == txs[c].tenant
           x == [txs[c] EXCEPT !.pc = "write", !.seq = counters[t].last, !.prev = counters[t].tip]
<1>1. /\ At(c, "lock")
      /\ owner[t] \in {None, c}
      /\ owner' = [owner EXCEPT ![t] = c]
      /\ txs' = [txs EXCEPT ![c] = x]
      /\ UNCHANGED <<counters, log>>
  BY DEF LockCounter, Granted
<1>2. TypeOK /\ txs[c] \in Transaction /\ t \in Tenant /\ txs[c].entry \in Content
  BY <1>1 DEF LedgerInv, TypeOK, WriterInv, At
<1>3. counters[t].last \in Nat /\ counters[t].tip \in Hash
  BY <1>2, Fields
<1>4. /\ x \in Transaction /\ x.pc = "write" /\ x.tenant = t /\ x.entry = txs[c].entry
      /\ x.seq = counters[t].last /\ x.prev = counters[t].tip
  BY <1>2, <1>3 DEF Transaction
<1>5. TypeOK'
  BY <1>1, <1>2, <1>4 DEF TypeOK
<1>6. txs'[c] = x /\ \A d \in Client \ {c} : txs'[d] = txs[d]
  BY <1>1, <1>2 DEF TypeOK
<1>7. owner'[t] = c /\ \A u \in Tenant \ {t} : owner'[u] = owner[u]
  BY <1>1, <1>2 DEF TypeOK
<1>8. counters[t].last = Len(log[t]) /\ counters[t].tip = LastHash(log[t])
  BY <1>2 DEF LedgerInv
<1>9. ASSUME NEW d \in Client
      PROVE  /\ ~At(d, "idle")' => txs'[d].tenant \in Tenant /\ txs'[d].entry \in Content
             /\ At(d, "write")' => /\ owner'[txs'[d].tenant] = d
                                  /\ txs'[d].seq = Len(log'[txs'[d].tenant])
                                  /\ txs'[d].prev = LastHash(log'[txs'[d].tenant])
  <2>1. CASE d = c
    BY <1>1, <1>2, <1>4, <1>6, <1>7, <1>8, <2>1 DEF At
  <2>2. CASE d # c
    <3>1. txs'[d] = txs[d]
      BY <1>6, <2>2
    <3>2. ~At(d, "idle") => txs[d].tenant \in Tenant /\ txs[d].entry \in Content
      BY DEF LedgerInv, WriterInv
    <3>3. At(d, "write") => /\ owner[txs[d].tenant] = d
                            /\ txs[d].seq = Len(log[txs[d].tenant])
                            /\ txs[d].prev = LastHash(log[txs[d].tenant])
      BY DEF LedgerInv, WriterInv
    <3>4. At(d, "write") => txs[d].tenant # t
      BY <1>1, <2>2, <3>3, LedgerAssumption
    <3>5. At(d, "write") => ~At(d, "idle")
      BY DEF At
    <3>6. QED
      BY <1>1, <1>7, <3>1, <3>2, <3>3, <3>4, <3>5 DEF At
  <2>3. QED
    BY <2>1, <2>2
<1>10. WriterInv'
  BY <1>9 DEF WriterInv
<1>11. OwnerInv'
  <2> SUFFICES ASSUME NEW u \in Tenant, NEW d \in Client, owner'[u] = d
               PROVE  txs'[d].tenant = u /\ (At(d, "lock")' \/ At(d, "write")')
    BY DEF OwnerInv
  <2>1. CASE u = t
    BY <1>4, <1>6, <1>7, <2>1 DEF At
  <2>2. CASE u # t
    <3>1. owner[u] = d
      BY <1>7, <2>2
    <3>2. txs[d].tenant = u /\ (At(d, "lock") \/ At(d, "write"))
      BY <3>1 DEF LedgerInv, OwnerInv
    <3>3. d # c
      BY <2>2, <3>2
    <3>4. QED
      BY <1>6, <3>2, <3>3 DEF At
  <2>3. QED
    BY <2>1, <2>2
<1>12. QED
  BY <1>1, <1>5, <1>10, <1>11 DEF LedgerInv

\* What a transaction that ends has held is no one's.
LEMMA FreedOwner ==
  ASSUME TypeOK, OwnerInv, NEW c \in Client,
         owner' = [u \in Tenant |-> IF owner[u] = c THEN None ELSE owner[u]],
         txs' = [txs EXCEPT ![c] = Idle]
  PROVE  OwnerInv'
<1> SUFFICES ASSUME NEW u \in Tenant, NEW d \in Client, owner'[u] = d
             PROVE  txs'[d].tenant = u /\ (At(d, "lock")' \/ At(d, "write")')
  BY DEF OwnerInv
<1>1. owner[u] = d /\ d # c
  BY LedgerAssumption
<1>2. txs'[d] = txs[d]
  BY <1>1 DEF TypeOK
<1>3. QED
  BY <1>1, <1>2 DEF OwnerInv, At

\* Writing the row and the counter, and committing, keeps the invariant.
LEMMA LedgerCommit ==
  ASSUME LedgerInv, NEW c \in Client, Commit(c)
  PROVE  LedgerInv'
<1> DEFINE t == txs[c].tenant
           r == NewRow(c)
<1>1. /\ At(c, "write")
      /\ log' = [log EXCEPT ![t] = Append(@, r)]
      /\ counters' = [counters EXCEPT ![t] = NewCounter(c, r)]
      /\ owner' = [u \in Tenant |-> IF owner[u] = c THEN None ELSE owner[u]]
      /\ txs' = [txs EXCEPT ![c] = Idle]
  BY DEF Commit, Freed
<1>2. /\ TypeOK /\ t \in Tenant /\ txs[c].entry \in Content /\ owner[t] = c
      /\ txs[c].seq = Len(log[t]) /\ txs[c].prev = LastHash(log[t])
  BY <1>1 DEF LedgerInv, WriterInv, At
<1>3. log[t] \in Seq(Row) /\ txs[c].seq \in Nat /\ txs[c].prev \in Hash
  BY <1>2, Fields
<1>4. /\ r.seq = txs[c].seq + 1 /\ r.entry = txs[c].entry /\ r.prev = txs[c].prev
      /\ r.hash = Digest(r.seq, r.entry, r.prev)
      /\ r = [seq |-> r.seq, entry |-> r.entry, prev |-> r.prev, hash |-> r.hash]
  BY DEF NewRow
<1>5. r \in Row
  <2>1. r.seq \in Nat /\ r.entry \in Content /\ r.prev \in Hash
    BY <1>2, <1>3, <1>4
  <2>2. r.hash \in Hash
    BY <1>4, <2>1, DigestType
  <2>3. QED
    BY <1>4, <2>1, <2>2 DEF Row
<1>6. NewCounter(c, r) \in Counter /\ NewCounter(c, r).last = r.seq /\ NewCounter(c, r).tip = r.hash
  BY <1>5 DEF NewCounter, Counter, Row
<1>7. TypeOK'
  <2>1. Append(log[t], r) \in Seq(Row)
    BY <1>3, <1>5
  <2>2. log' \in [Tenant -> Seq(Row)]
    BY <1>1, <1>2, <2>1 DEF TypeOK
  <2>3. counters' \in [Tenant -> Counter] /\ owner' \in [Tenant -> Client \union {None}]
        /\ txs' \in [Client -> Transaction]
    BY <1>1, <1>2, <1>6, IdleType DEF TypeOK
  <2>4. QED
    BY <2>2, <2>3 DEF TypeOK
<1>8. log'[t] = Append(log[t], r) /\ counters'[t] = NewCounter(c, r)
      /\ \A u \in Tenant \ {t} : log'[u] = log[u] /\ counters'[u] = counters[u]
  BY <1>1, <1>2 DEF TypeOK
<1>9. Linked(log[t])
  BY <1>2 DEF LedgerInv
<1>10. ASSUME NEW u \in Tenant
       PROVE  /\ Linked(log'[u])
              /\ counters'[u].last = Len(log'[u])
              /\ counters'[u].tip = LastHash(log'[u])
  <2>1. CASE u = t
    <3>1. Linked(Append(log[t], r)) /\ LastHash(Append(log[t], r)) = r.hash
      BY <1>2, <1>3, <1>4, <1>5, <1>9, LinkedAppend
    <3>2. Len(Append(log[t], r)) = r.seq
      BY <1>2, <1>3, <1>4, <1>5
    <3>3. QED
      BY <1>6, <1>8, <2>1, <3>1, <3>2
  <2>2. CASE u # t
    BY <1>8, <2>2 DEF LedgerInv
  <2>3. QED
    BY <2>1, <2>2
<1>11. txs'[c] = Idle /\ \A d \in Client \ {c} : txs'[d] = txs[d]
  BY <1>1, <1>2 DEF TypeOK
<1>12. ASSUME NEW d \in Client
       PROVE  /\ ~At(d, "idle")' => txs'[d].tenant \in Tenant /\ txs'[d].entry \in Content
              /\ At(d, "write")' => /\ owner'[txs'[d].tenant] = d
                                   /\ txs'[d].seq = Len(log'[txs'[d].tenant])
                                   /\ txs'[d].prev = LastHash(log'[txs'[d].tenant])
  <2>1. CASE d = c
    BY <1>11, <2>1, IdleType DEF At
  <2>2. CASE d # c
    <3>1. txs'[d] = txs[d]
      BY <1>11, <2>2
    <3>2. ~At(d, "idle") => txs[d].tenant \in Tenant /\ txs[d].entry \in Content
      BY DEF LedgerInv, WriterInv
    <3>3. At(d, "write") => /\ owner[txs[d].tenant] = d
                            /\ txs[d].seq = Len(log[txs[d].tenant])
                            /\ txs[d].prev = LastHash(log[txs[d].tenant])
      BY DEF LedgerInv, WriterInv
    <3>4. At(d, "write") => txs[d].tenant \in Tenant \ {t}
      BY <1>2, <2>2, <3>2, <3>3 DEF At
    <3>5. QED
      BY <1>1, <1>8, <2>2, <3>1, <3>2, <3>3, <3>4 DEF At
  <2>3. QED
    BY <2>1, <2>2
<1>13. WriterInv'
  BY <1>12 DEF WriterInv
<1>14. OwnerInv'
  BY <1>1, <1>2, FreedOwner DEF LedgerInv
<1>15. QED
  BY <1>7, <1>10, <1>13, <1>14 DEF LedgerInv

\* Rolling a transaction back keeps the invariant.
LEMMA LedgerAbort ==
  ASSUME LedgerInv, NEW c \in Client, Abort(c)
  PROVE  LedgerInv'
<1>1. /\ owner' = [u \in Tenant |-> IF owner[u] = c THEN None ELSE owner[u]]
      /\ txs' = [txs EXCEPT ![c] = Idle]
      /\ UNCHANGED <<counters, log>>
  BY DEF Abort, Freed
<1>2. TypeOK'
  BY <1>1, IdleType DEF LedgerInv, TypeOK
<1>3. txs'[c] = Idle /\ \A d \in Client \ {c} : txs'[d] = txs[d]
  BY <1>1 DEF LedgerInv, TypeOK
<1>4. ASSUME NEW d \in Client
      PROVE  /\ ~At(d, "idle")' => txs'[d].tenant \in Tenant /\ txs'[d].entry \in Content
             /\ At(d, "write")' => /\ owner'[txs'[d].tenant] = d
                                  /\ txs'[d].seq = Len(log'[txs'[d].tenant])
                                  /\ txs'[d].prev = LastHash(log'[txs'[d].tenant])
  <2>1. CASE d = c
    BY <1>3, <2>1, IdleType DEF At
  <2>2. CASE d # c
    <3>1. txs'[d] = txs[d]
      BY <1>3, <2>2
    <3>2. ~At(d, "idle") => txs[d].tenant \in Tenant /\ txs[d].entry \in Content
      BY DEF LedgerInv, WriterInv
    <3>3. At(d, "write") => /\ owner[txs[d].tenant] = d
                            /\ txs[d].seq = Len(log[txs[d].tenant])
                            /\ txs[d].prev = LastHash(log[txs[d].tenant])
      BY DEF LedgerInv, WriterInv
    <3>4. QED
      BY <1>1, <2>2, <3>1, <3>2, <3>3 DEF At
  <2>3. QED
    BY <2>1, <2>2
<1>5. WriterInv'
  BY <1>4 DEF WriterInv
<1>6. OwnerInv'
  BY <1>1, FreedOwner DEF LedgerInv
<1>7. QED
  BY <1>1, <1>2, <1>5, <1>6 DEF LedgerInv

\* Every step keeps the invariant.
LEMMA LedgerNext == LedgerInv /\ [Next]_vars => LedgerInv'
<1> SUFFICES ASSUME LedgerInv, [Next]_vars PROVE LedgerInv'
  OBVIOUS
<1>1. ASSUME NEW c \in Client, NEW t \in Tenant, NEW e \in Content, Begin(c, t, e)
      PROVE  LedgerInv'
  BY <1>1, LedgerBegin
<1>2. ASSUME NEW c \in Client, UpsertCounter(c) PROVE LedgerInv'
  BY <1>2, LedgerUpsert
<1>3. ASSUME NEW c \in Client, LockCounter(c) PROVE LedgerInv'
  BY <1>3, LedgerLock
<1>4. ASSUME NEW c \in Client, Commit(c) PROVE LedgerInv'
  BY <1>4, LedgerCommit
<1>5. ASSUME NEW c \in Client, Abort(c) PROVE LedgerInv'
  BY <1>5, LedgerAbort
<1>6. CASE UNCHANGED vars
  BY <1>6 DEF LedgerInv, TypeOK, OwnerInv, WriterInv, At, vars
<1>7. QED
  BY <1>1, <1>2, <1>3, <1>4, <1>5, <1>6 DEF Next

\* The inductive invariant holds in every reachable state, however appends of
\* any number of connections interleave and abort.
THEOREM LedgerInvariant == Spec => []LedgerInv
BY LedgerInit, LedgerNext, PTL DEF Spec

\* Every column and every transaction always holds a value of its type.
THEOREM LedgerTypeCorrect == Spec => []TypeOK
<1>1. LedgerInv => TypeOK
  BY DEF LedgerInv
<1>2. QED
  BY <1>1, LedgerInvariant, PTL

\* Whatever commits and aborts in between, the counter row holds the number
\* and the hash of the last row.
THEOREM TipIsLastRow == Spec => []TipFollowsLog
<1>1. LedgerInv => TipFollowsLog
  BY DEF LedgerInv, TipFollowsLog, LastHash
<1>2. QED
  BY <1>1, LedgerInvariant, PTL

\* No transaction waits for one that waits: whoever owns the counter row it
\* needs is at the statement that locks it, or about to commit.
THEOREM NoCircularWaits == Spec => []WaitsEnd
<1>1. LedgerInv => WaitsEnd
  <2> SUFFICES ASSUME LedgerInv, NEW c \in Client, ~At(c, "idle")
               PROVE  CanProceed(c) \/ \E d \in Client : owner[txs[c].tenant] = d /\ CanProceed(d)
    BY DEF WaitsEnd
  <2> DEFINE t == txs[c].tenant
  <2>1. t \in Tenant /\ owner[t] \in Client \union {None}
    BY DEF LedgerInv, TypeOK, WriterInv
  <2>2. At(c, "upsert") \/ At(c, "lock") \/ At(c, "write")
    BY Fields DEF LedgerInv, At
  <2>3. CASE owner[t] = None
    BY <2>2, <2>3 DEF CanProceed
  <2>4. CASE owner[t] \in Client
    <3>1. PICK d \in Client : owner[t] = d
      BY <2>4
    <3>2. txs[d].tenant = t /\ (At(d, "lock") \/ At(d, "write"))
      BY <2>1, <3>1 DEF LedgerInv, OwnerInv
    <3>3. CanProceed(d)
      BY <3>1, <3>2 DEF CanProceed
    <3>4. QED
      BY <3>1, <3>3
  <2>5. QED
    BY <2>1, <2>3, <2>4
<1>2. QED
  BY <1>1, LedgerInvariant, PTL

-----------------------------------------------------------------------------
(* What verify_ledger makes of a chain. *)

\* Over rows in order, the row before i is row i - 1.
LEMMA PrevOfOrdered ==
  ASSUME NEW L \in Seq(Row), Ordered(L), NEW i \in DOMAIN L
  PROVE  PrevHash(L, DOMAIN L, i) = IF i = 1 THEN NoHash ELSE L[i - 1].hash
<1> DEFINE P(j) == /\ Earlier(L, j, i)
                   /\ \A k \in DOMAIN L : Earlier(L, k, i) => k = j \/ Earlier(L, k, j)
<1>1. DOMAIN L = 1 .. Len(L) /\ Len(L) \in Nat /\ \A j \in DOMAIN L : L[j].seq \in Nat
  <2>1. \A j \in DOMAIN L : L[j] \in Row
    OBVIOUS
  <2>2. QED
    BY <2>1 DEF Row
<1>2. ASSUME NEW j \in DOMAIN L, NEW k \in DOMAIN L PROVE Earlier(L, j, k) <=> j < k
  <2>1. j < k => L[j].seq <= L[k].seq
    BY DEF Ordered
  <2>2. k < j => L[k].seq <= L[j].seq
    BY DEF Ordered
  <2>3. QED
    BY <1>1, <2>1, <2>2 DEF Earlier
<1>3. CASE i = 1
  <2>1. ~\E j \in DOMAIN L : Earlier(L, j, i)
    BY <1>1, <1>2, <1>3
  <2>2. QED
    BY <1>3, <2>1 DEF PrevHash
<1>4. CASE i # 1
  <2>1. i - 1 \in DOMAIN L /\ i - 1 < i
    BY <1>1, <1>4
  <2>2. P(i - 1)
    BY <1>1, <1>2, <2>1
  <2>3. ASSUME NEW j \in DOMAIN L, P(j) PROVE j = i - 1
    <3>1. j < i
      BY <1>2, <2>3
    <3>2. Earlier(L, i - 1, i)
      BY <1>2, <2>1
    <3>3. i - 1 = j \/ Earlier(L, i - 1, j)
      BY <2>1, <2>3, <3>2
    <3>4. i - 1 = j \/ i - 1 < j
      BY <1>2, <2>1, <3>3
    <3>5. QED
      BY <1>1, <3>1, <3>4
  <2>4. (CHOOSE j \in DOMAIN L : P(j)) = i - 1
    BY <2>1, <2>2, <2>3
  <2>5. PrevHash(L, DOMAIN L, i) = L[CHOOSE j \in DOMAIN L : P(j)].hash
    BY <1>2, <2>1 DEF PrevHash
  <2>6. QED
    BY <1>4, <2>4, <2>5
<1>5. QED
  BY <1>3, <1>4

\* A verification from the first row on reads every row whose number is positive.
LEMMA ScannedAll ==
  ASSUME NEW L \in Seq(Row), \A i \in DOMAIN L : L[i].seq >= 1
  PROVE  Scanned(L, 1) = DOMAIN L
BY DEF Scanned

\* A linked chain is in order and verified as intact.
LEMMA LinkedIntact ==
  ASSUME NEW L \in Seq(Row), Linked(L)
  PROVE  Ordered(L) /\ Intact(L, 1)
<1>1. Ordered(L)
  BY DEF Linked, Ordered
<1>2. Scanned(L, 1) = DOMAIN L
  BY <1>1, ScannedAll DEF Ordered
<1>3. ASSUME NEW i \in DOMAIN L PROVE ~ChainBreak(L, DOMAIN L, i) /\ ~Tampered(L, i)
  <2>1. PrevHash(L, DOMAIN L, i) = IF i = 1 THEN NoHash ELSE L[i - 1].hash
    BY <1>1, PrevOfOrdered
  <2>2. QED
    BY <2>1 DEF Linked, ChainBreak, Tampered
<1>4. QED
  BY <1>1, <1>2, <1>3 DEF Intact

\* What append_ledger wrote, numbered without gap or repetition, verify_ledger
\* finds intact.
THEOREM AppendedChainsVerify == Spec => []ChainIntact
<1>1. LedgerInv => ChainIntact
  <2> SUFFICES ASSUME LedgerInv, NEW t \in Tenant
               PROVE  (\A i \in DOMAIN log[t] : log[t][i].seq = i) /\ Intact(log[t], 1)
    BY DEF ChainIntact
  <2>1. log[t] \in Seq(Row) /\ Linked(log[t])
    BY DEF LedgerInv, TypeOK
  <2>2. QED
    BY <2>1, LinkedIntact DEF Linked
<1>2. QED
  BY <1>1, LedgerInvariant, PTL

\* The fields of a row.
LEMMA RowFields ==
  ASSUME NEW x \in Row
  PROVE  x.seq \in Nat /\ x.entry \in Content /\ x.prev \in Hash /\ x.hash \in Hash
         /\ x = [seq |-> x.seq, entry |-> x.entry, prev |-> x.prev, hash |-> x.hash]
BY DEF Row

\* The rows of a linked chain.
LEMMA LinkedRow ==
  ASSUME NEW L \in Seq(Row), Linked(L), NEW i \in DOMAIN L
  PROVE  /\ L[i] \in Row
         /\ L[i].seq = i
         /\ L[i].prev = IF i = 1 THEN NoHash ELSE L[i - 1].hash
         /\ L[i].hash = Digest(L[i].seq, L[i].entry, L[i].prev)
         /\ L[i].hash # NoHash
<1>1. L[i] \in Row
  OBVIOUS
<1>2. QED
  BY <1>1, RowFields, DigestType DEF Linked

\* The rows that a verification from the first on finds intact.
LEMMA IntactRow ==
  ASSUME NEW M \in Seq(Row), Ordered(M), Intact(M, 1), NEW i \in DOMAIN M
  PROVE  /\ M[i] \in Row
         /\ M[i].prev = IF i = 1 THEN NoHash ELSE M[i - 1].hash
         /\ M[i].hash = Digest(M[i].seq, M[i].entry, M[i].prev)
         /\ M[i].hash # NoHash
<1>1. M[i] \in Row
  OBVIOUS
<1>2. Scanned(M, 1) = DOMAIN M
  BY ScannedAll DEF Ordered
<1>3. ~ChainBreak(M, DOMAIN M, i) /\ ~Tampered(M, i)
  BY <1>2 DEF Intact
<1>4. PrevHash(M, DOMAIN M, i) = IF i = 1 THEN NoHash ELSE M[i - 1].hash
  BY PrevOfOrdered
<1>5. QED
  BY <1>1, <1>3, <1>4, RowFields, DigestType DEF ChainBreak, Tampered

\* Rows with the hash of what they say, and the same hash, say the same where it is hashed.
LEMMA SameRow ==
  ASSUME NEW x \in Row, NEW y \in Row,
         x.hash = Digest(x.seq, x.entry, x.prev), y.hash = Digest(y.seq, y.entry, y.prev),
         x.hash = y.hash
  PROVE  Covered(x) = Covered(y)
<1>1. x.seq \in Nat /\ x.entry \in Content /\ x.prev \in Hash
      /\ y.seq \in Nat /\ y.entry \in Content /\ y.prev \in Hash
  BY RowFields
<1>2. Digest(x.seq, x.entry, x.prev) = Digest(y.seq, y.entry, y.prev)
  OBVIOUS
<1> DEFINE n == x.seq
           m == y.seq
           e == x.entry
           f == y.entry
           p == x.prev
           q == y.prev
<1> HIDE DEF n, m, e, f, p, q
<1>3. n = m /\ Joined[e] = Joined[f] /\ p = q
  <2>1. /\ n \in Nat /\ m \in Nat /\ e \in Content /\ f \in Content /\ p \in Hash /\ q \in Hash
        /\ Digest(n, e, p) = Digest(m, f, q)
    BY <1>1, <1>2 DEF n, m, e, f, p, q
  <2>2. QED
    BY <2>1, DigestTells
<1>4. QED
  BY <1>3 DEF Covered, n, m, e, f, p, q

-----------------------------------------------------------------------------
(* What a hash of the chain tells of the rows that end in it. *)

\* Rows that verify and end in the hash of row i of a linked chain agree with
\* the chain, from that row backwards.
LEMMA AgreeBackwards ==
  ASSUME NEW L \in Seq(Row), Linked(L), NEW i \in DOMAIN L,
         NEW M \in Seq(Row), Ordered(M), Intact(M, 1), M # <<>>, LastHash(M) = L[i].hash,
         NEW d \in Nat, d < Len(M), d < i
  PROVE  Covered(M[Len(M) - d]) = Covered(L[i - d])
<1> DEFINE n == Len(M)
           Bad == {b \in Nat : b < n /\ b < i /\ Covered(M[n - b]) # Covered(L[i - b])}
<1>1. n \in Nat /\ n >= 1 /\ DOMAIN M = 1 .. n /\ i \in Nat /\ i >= 1
      /\ Len(L) \in Nat /\ i <= Len(L) /\ DOMAIN L = 1 .. Len(L)
  BY EmptySeq
<1>2. M[n].hash = L[i].hash
  BY DEF LastHash
<1> HIDE DEF n
<1>3. ASSUME NEW b \in Bad, \A a \in Bad : b <= a PROVE FALSE
  <2>1. b \in Nat /\ b < n /\ b < i /\ Covered(M[n - b]) # Covered(L[i - b])
    OBVIOUS
  <2>2. n - b \in DOMAIN M /\ i - b \in DOMAIN L
    BY <1>1, <2>1
  <2>3. M[n - b].hash = L[i - b].hash
    <3>1. CASE b = 0
      BY <1>1, <1>2, <3>1
    <3>2. CASE b # 0
      <4>1. /\ b - 1 \in Nat /\ b - 1 < n /\ b - 1 < i /\ ~(b <= b - 1)
            /\ n - (b - 1) \in DOMAIN M /\ n - (b - 1) # 1 /\ n - (b - 1) - 1 = n - b
            /\ i - (b - 1) \in DOMAIN L /\ i - (b - 1) # 1 /\ i - (b - 1) - 1 = i - b
        BY <1>1, <2>1, <3>2
      <4>2. Covered(M[n - (b - 1)]) = Covered(L[i - (b - 1)])
        BY <1>3, <4>1
      <4>3. M[n - (b - 1)].prev = M[n - b].hash
        BY <4>1, IntactRow
      <4>4. L[i - (b - 1)].prev = L[i - b].hash
        BY <4>1, LinkedRow
      <4>5. QED
        BY <4>2, <4>3, <4>4 DEF Covered
    <3>3. QED
      BY <3>1, <3>2
  <2>4. Covered(M[n - b]) = Covered(L[i - b])
    <3> DEFINE x == M[n - b]
               y == L[i - b]
    <3>1. x \in Row /\ x.hash = Digest(x.seq, x.entry, x.prev)
      BY <2>2, IntactRow
    <3>2. y \in Row /\ y.hash = Digest(y.seq, y.entry, y.prev)
      BY <2>2, LinkedRow
    <3>3. x.hash = y.hash
      BY <2>3
    <3> HIDE DEF x, y
    <3>4. Covered(x) = Covered(y)
      BY <3>1, <3>2, <3>3, SameRow
    <3>5. QED
      BY <3>4 DEF x, y
  <2>5. QED
    BY <2>1, <2>4
<1>4. Bad = {}
  <2>1. Bad \in SUBSET Nat
    OBVIOUS
  <2> HIDE DEF Bad
  <2>2. QED
    BY <1>3, <2>1, LeastElement
<1>5. QED
  BY <1>4 DEF n

\* Such rows are as many as the chain's up to there: no row is missing, repeated
\* or put in front, since only a first row is chained to no hash.
LEMMA HashTells ==
  ASSUME NEW L \in Seq(Row), Linked(L), NEW M \in Seq(Row)
  PROVE  EndTells(L, M)
<1> SUFFICES ASSUME NEW i \in DOMAIN L, LastHash(M) = L[i].hash, Ordered(M), Intact(M, 1)
             PROVE  Len(M) = i /\ \A j \in 1 .. i : Covered(M[j]) = Covered(L[j])
  BY DEF EndTells
<1> DEFINE n == Len(M)
<1>1. M # <<>>
  BY LinkedRow DEF LastHash
<1>2. n \in Nat /\ n >= 1 /\ DOMAIN M = 1 .. n /\ i \in Nat /\ i >= 1
      /\ Len(L) \in Nat /\ i <= Len(L) /\ DOMAIN L = 1 .. Len(L)
  BY <1>1, EmptySeq
<1>3. \A d \in Nat : d < n /\ d < i => Covered(M[n - d]) = Covered(L[i - d])
  BY <1>1, AgreeBackwards
<1> HIDE DEF n
<1>4. n = i
  <2>1. ASSUME n < i PROVE FALSE
    <3>1. /\ n - 1 \in Nat /\ n - 1 < n /\ n - 1 < i /\ n - (n - 1) = 1 /\ 1 \in DOMAIN M
          /\ i - (n - 1) \in DOMAIN L /\ i - (n - 1) # 1
          /\ i - (n - 1) - 1 = i - n /\ i - n \in DOMAIN L
      BY <1>2, <2>1
    <3>2. Covered(M[1]) = Covered(L[i - (n - 1)])
      BY <1>3, <3>1
    <3>3. M[1].prev = NoHash
      BY <3>1, IntactRow
    <3>4. L[i - (n - 1)].prev = L[i - n].hash /\ L[i - n].hash # NoHash
      BY <3>1, LinkedRow
    <3>5. QED
      BY <3>2, <3>3, <3>4 DEF Covered
  <2>2. ASSUME i < n PROVE FALSE
    <3>1. /\ i - 1 \in Nat /\ i - 1 < n /\ i - 1 < i /\ i - (i - 1) = 1 /\ 1 \in DOMAIN L
          /\ n - (i - 1) \in DOMAIN M /\ n - (i - 1) # 1
          /\ n - (i - 1) - 1 = n - i /\ n - i \in DOMAIN M
      BY <1>2, <2>2
    <3>2. Covered(M[n - (i - 1)]) = Covered(L[1])
      BY <1>3, <3>1
    <3>3. L[1].prev = NoHash
      BY <3>1, LinkedRow
    <3>4. M[n - (i - 1)].prev = M[n - i].hash /\ M[n - i].hash # NoHash
      BY <3>1, IntactRow
    <3>5. QED
      BY <3>2, <3>3, <3>4 DEF Covered
  <2>3. QED
    BY <1>2, <2>1, <2>2
<1>5. ASSUME NEW j \in 1 .. n PROVE Covered(M[j]) = Covered(L[j])
  <2>1. n - j \in Nat /\ n - j < n /\ n - (n - j) = j
    BY <1>2
  <2>2. QED
    BY <1>3, <1>4, <2>1
<1>6. QED
  BY <1>4, <1>5 DEF n

LEMMA FunctionIsSequence ==
  ASSUME NEW S, NEW n \in Nat, NEW f \in [1 .. n -> S]
  PROVE  f \in Seq(S)
BY SeqDef

\* Rows of a chain, each any number of times, are rows.
LEMMA CopiesAreRows ==
  ASSUME NEW L \in Seq(Row), NEW n \in Nat, NEW M \in Copies(L, n)
  PROVE  M \in Seq(Row) /\ DOMAIN M = 1 .. n
<1>1. PICK g \in [1 .. n -> DOMAIN L] : M = [i \in 1 .. n |-> L[g[i]]]
  BY DEF Copies
<1>2. \A i \in 1 .. n : L[g[i]] \in Row
  BY <1>1
<1>3. M \in [1 .. n -> Row]
  BY <1>1, <1>2
<1>4. QED
  BY <1>3, FunctionIsSequence

\* Rows of which some were changed and chained anew are rows.
LEMMA ForgedAreRows ==
  ASSUME NEW n \in Nat, NEW M \in Seq(Row), DOMAIN M = 1 .. n,
         NEW k \in 1 .. n, NEW e \in Content, NEW m \in k - 1 .. n - 1
  PROVE  Forged(M, k, e, m) \in Seq(Row)
<1> DEFINE N == [M EXCEPT ![k].entry = e]
           before == IF k = 1 THEN NoHash ELSE M[k - 1].hash
           Links(l) == [j \in 1 .. l - k + 1 |->
                         <<N[k + j - 1].seq, Joined[N[k + j - 1].entry]>>]
           Chain(l) == before \o Links(l)
           F == [i \in DOMAIN M |->
                  IF i \in k .. m THEN [N[i] EXCEPT !.prev = Chain(i - 1), !.hash = Chain(i)]
                                  ELSE N[i]]
<1>1. \A i \in 1 .. n : M[i] \in Row
  OBVIOUS
<1>2. \A i \in 1 .. n : N[i] \in Row /\ N[i].seq \in Nat /\ N[i].entry \in Content
  <2>1. [M[k] EXCEPT !.entry = e] \in Row
    BY <1>1 DEF Row
  <2>2. \A i \in 1 .. n : N[i] \in Row
    BY <1>1, <2>1
  <2>3. QED
    BY <2>2, RowFields
<1>3. before \in Hash
  <2>1. CASE k = 1
    BY <2>1 DEF NoHash, Hash
  <2>2. CASE k # 1
    <3>1. M[k - 1] \in Row
      BY <1>1, <2>2
    <3>2. QED
      BY <2>2, <3>1, RowFields
  <2>3. QED
    BY <2>1, <2>2
<1> HIDE DEF N, before
<1>4. ASSUME NEW l \in k - 1 .. n PROVE Chain(l) \in Hash
  <2>1. l - k + 1 \in Nat
    OBVIOUS
  <2>2. \A j \in 1 .. l - k + 1 : k + j - 1 \in 1 .. n
    OBVIOUS
  <2>3. Links(l) \in [1 .. l - k + 1 -> Link]
    BY <1>2, <2>2 DEF Link, Text
  <2> HIDE DEF Links
  <2>4. Links(l) \in Seq(Link)
    BY <2>1, <2>3, FunctionIsSequence
  <2>5. QED
    BY <1>3, <2>4, ConcatProperties DEF Hash
<1> HIDE DEF Chain
<1>5. ASSUME NEW i \in 1 .. n PROVE F[i] \in Row
  <2>1. CASE i \in k .. m
    <3>1. i - 1 \in k - 1 .. n /\ i \in k - 1 .. n
      BY <2>1
    <3>2. Chain(i - 1) \in Hash /\ Chain(i) \in Hash
      BY <1>4, <3>1
    <3>3. [N[i] EXCEPT !.prev = Chain(i - 1), !.hash = Chain(i)] \in Row
      BY <1>2, <3>2 DEF Row
    <3>4. QED
      BY <2>1, <3>3
  <2>2. CASE i \notin k .. m
    BY <1>2, <2>2
  <2>3. QED
    BY <2>1, <2>2
<1>6. F \in [1 .. n -> Row]
  BY <1>5
<1>7. F = Forged(M, k, e, m)
  BY DEF F, Chain, Links, before, N, Forged
<1> HIDE DEF F
<1>8. F \in Seq(Row)
  BY <1>6, FunctionIsSequence
<1>9. QED
  BY <1>7, <1>8

\* Whatever was done to the table, rows that verify from the first on and end in
\* a hash of the chain have the chain's numbers, hashes and texts up to there.
THEOREM RewrittenChainsShow ==
  Spec => [](\A t \in Tenant : \A M \in Seq(Row) : EndTells(log[t], M))
<1>1. LedgerInv => \A t \in Tenant : \A M \in Seq(Row) : EndTells(log[t], M)
  BY HashTells DEF LedgerInv, TypeOK
<1>2. QED
  BY <1>1, LedgerInvariant, PTL

\* Rows removed, repeated, changed in a text that is hashed or chained anew are
\* reported by a verification from the first row on, or do not end in the hash
\* of the chain that was kept.
THEOREM TamperingShows == Spec => TamperEvident
<1>1. LedgerInv' =>
        [\A t \in Tenant : log'[t] # log[t] =>
           \A n \in DOMAIN log'[t] : \A M \in Copies(log'[t], n) :
             \A k \in 1 .. n, e \in Content : \A m \in k - 1 .. n - 1 :
               EndTells(log'[t], Forged(M, k, e, m))]_log
  <2> SUFFICES ASSUME LedgerInv', NEW t \in Tenant,
                      NEW n \in DOMAIN log'[t], NEW M \in Copies(log'[t], n),
                      NEW k \in 1 .. n, NEW e \in Content, NEW m \in k - 1 .. n - 1
               PROVE  EndTells(log'[t], Forged(M, k, e, m))
    OBVIOUS
  <2>1. log'[t] \in Seq(Row) /\ Linked(log'[t])
    BY DEF LedgerInv, TypeOK
  <2>2. n \in Nat
    BY <2>1
  <2>3. Forged(M, k, e, m) \in Seq(Row)
    BY <2>1, <2>2, CopiesAreRows, ForgedAreRows
  <2>4. QED
    BY <2>1, <2>3, HashTells
<1>2. QED
  BY <1>1, LedgerInvariant, PTL DEF TamperEvident

-----------------------------------------------------------------------------
(* What verify_ledger does not tell. *)

\* A verification that starts after the first row always reports a break, at
\* the row it starts with, though nothing was touched.
THEOREM PartialVerificationsFail ==
  Spec => [](\A t \in Tenant : \A from \in 2 .. Len(log[t]) : ~Intact(log[t], from))
<1>1. ASSUME LedgerInv, NEW t \in Tenant, NEW from \in 2 .. Len(log[t])
      PROVE  ~Intact(log[t], from)
  <2> DEFINE L == log[t]
             S == Scanned(L, from)
  <2>1. L \in Seq(Row) /\ Linked(L)
    BY <1>1 DEF LedgerInv, TypeOK
  <2> HIDE DEF L
  <2>2. from \in DOMAIN L /\ from # 1 /\ from - 1 \in DOMAIN L
    BY <2>1 DEF L
  <2>3. \A i \in DOMAIN L : L[i].seq = i
    BY <2>1, LinkedRow
  <2>4. from \in S
    BY <2>2, <2>3 DEF Scanned
  <2>5. ~\E j \in S : Earlier(L, j, from)
    BY <2>1, <2>2, <2>3 DEF Scanned, Earlier
  <2>6. PrevHash(L, S, from) = NoHash
    BY <2>5 DEF PrevHash
  <2>7. L[from].prev # NoHash
    BY <2>1, <2>2, LinkedRow
  <2>8. ChainBreak(L, S, from)
    BY <2>6, <2>7 DEF ChainBreak
  <2>9. QED
    BY <2>4, <2>8 DEF Intact, L
<1>2. LedgerInv => \A t \in Tenant : \A from \in 2 .. Len(log[t]) : ~Intact(log[t], from)
  BY <1>1
<1>3. QED
  BY <1>2, LedgerInvariant, PTL

\* Rows removed from the end go unnoticed: every beginning of the chain
\* verifies.  Only a hash kept outside the table tells (RewrittenChainsShow).
THEOREM TruncationsVerify ==
  Spec => [](\A t \in Tenant : \A i \in 0 .. Len(log[t]) : Intact(SubSeq(log[t], 1, i), 1))
<1>1. ASSUME LedgerInv, NEW t \in Tenant, NEW i \in 0 .. Len(log[t])
      PROVE  Intact(SubSeq(log[t], 1, i), 1)
  <2> DEFINE L == log[t]
             M == SubSeq(L, 1, i)
  <2>1. L \in Seq(Row) /\ Linked(L)
    BY <1>1 DEF LedgerInv, TypeOK
  <2>2. i \in Nat /\ i <= Len(L) /\ Len(L) \in Nat
    BY <2>1
  <2> HIDE DEF L
  <2>3. M \in Seq(Row) /\ Len(M) = i /\ \A j \in 1 .. i : M[j] = L[j]
    BY <2>1, <2>2
  <2> HIDE DEF M
  <2>4. Linked(M)
    BY <2>1, <2>2, <2>3 DEF Linked
  <2>5. QED
    BY <2>3, <2>4, LinkedIntact DEF M, L
<1>2. LedgerInv =>
        \A t \in Tenant : \A i \in 0 .. Len(log[t]) : Intact(SubSeq(log[t], 1, i), 1)
  BY <1>1
<1>3. QED
  BY <1>2, LedgerInvariant, PTL

\* An entry changed to another of the same text goes unnoticed, hash and all:
\* a null for an empty column, or free text cut differently by the '|' that
\* joins the columns.
THEOREM SameTextUnseen ==
  Spec => [](\A t \in Tenant : \A i \in DOMAIN log[t] : \A e \in Content :
               Joined[e] = Joined[log[t][i].entry] =>
                 LET M == [log[t] EXCEPT ![i].entry = e]
                 IN Intact(M, 1) /\ LastHash(M) = LastHash(log[t]))
<1> DEFINE Unseen == \A t \in Tenant : \A i \in DOMAIN log[t] : \A e \in Content :
                       Joined[e] = Joined[log[t][i].entry] =>
                         LET M == [log[t] EXCEPT ![i].entry = e]
                         IN Intact(M, 1) /\ LastHash(M) = LastHash(log[t])
<1>1. ASSUME LedgerInv, NEW t \in Tenant, NEW i \in DOMAIN log[t], NEW e \in Content,
             Joined[e] = Joined[log[t][i].entry]
      PROVE  LET M == [log[t] EXCEPT ![i].entry = e]
             IN Intact(M, 1) /\ LastHash(M) = LastHash(log[t])
  <2> DEFINE L == log[t]
             M == [L EXCEPT ![i].entry = e]
  <2>1. L \in Seq(Row) /\ Linked(L) /\ i \in DOMAIN L /\ Joined[e] = Joined[L[i].entry]
    BY <1>1 DEF LedgerInv, TypeOK
  <2> HIDE DEF L
  <2>2. \A j \in DOMAIN L : L[j] \in Row
    BY <2>1
  <2>3. [L[i] EXCEPT !.entry = e] \in Row
    BY <2>1, <2>2 DEF Row
  <2>4. /\ M \in Seq(Row) /\ DOMAIN M = DOMAIN L /\ Len(M) = Len(L)
        /\ \A j \in DOMAIN L : M[j] = IF j = i THEN [L[i] EXCEPT !.entry = e] ELSE L[j]
    BY <2>1, <2>3
  <2> HIDE DEF M
  <2>5. \A j \in DOMAIN L : /\ M[j].seq = L[j].seq /\ M[j].prev = L[j].prev
                            /\ M[j].hash = L[j].hash
                            /\ Joined[M[j].entry] = Joined[L[j].entry]
    BY <2>1, <2>2, <2>4 DEF Row
  <2>6. \A j \in DOMAIN L : j # 1 => j - 1 \in DOMAIN L
    BY <2>1
  <2>7. Linked(M)
    BY <2>1, <2>4, <2>5, <2>6 DEF Linked, Digest
  <2>8. Intact(M, 1)
    BY <2>4, <2>7, LinkedIntact
  <2>9. LastHash(M) = LastHash(L)
    <3>1. Len(L) \in DOMAIN L /\ L # <<>> /\ M # <<>>
      BY <2>1, <2>4, EmptySeq
    <3>2. QED
      BY <2>4, <2>5, <3>1 DEF LastHash
  <2>10. QED
    BY <2>8, <2>9 DEF M, L
<1>2. LedgerInv => Unseen
  BY <1>1
<1> HIDE DEF Unseen
<1>3. Spec => []Unseen
  BY <1>2, LedgerInvariant, PTL
<1>4. QED
  BY <1>3 DEF Unseen

-----------------------------------------------------------------------------
(* The concurrent function implements the atomic one. *)

\* The initial log is the abstract one.
LEMMA AtomicInit == Init => Atomic!Init
BY DEF Init, Atomic!Init

\* The commit is where an append takes effect.
LEMMA AtomicCommit ==
  ASSUME LedgerInv, NEW c \in Client, Commit(c)
  PROVE  Atomic!Next
<1> DEFINE t == txs[c].tenant
<1>1. t \in Tenant /\ txs[c].entry \in Content /\ txs[c].seq = Len(log[t])
      /\ txs[c].prev = LastHash(log[t])
  BY DEF LedgerInv, WriterInv, Commit, At
<1>2. NewRow(c) = Atomic!Row(Len(log[t]) + 1, txs[c].entry, Atomic!LastHash(log[t]))
  BY <1>1 DEF NewRow, Digest, LastHash, NoHash, Atomic!Row, Atomic!LastHash, Atomic!NoHash
<1>3. log' = [log EXCEPT ![t] = Append(log[t], NewRow(c))]
  BY DEF Commit
<1>4. Atomic!AppendEntry(t, txs[c].entry)
  BY <1>2, <1>3 DEF Atomic!AppendEntry
<1>5. QED
  BY <1>1, <1>4 DEF Atomic!Next

\* Every step of the transactions is an append or a stutter.
LEMMA AtomicNext == LedgerInv /\ [Next]_vars => [Atomic!Next]_log
<1> SUFFICES ASSUME LedgerInv, [Next]_vars PROVE Atomic!Next \/ UNCHANGED log
  OBVIOUS
<1>1. ASSUME NEW c \in Client, Commit(c) PROVE Atomic!Next
  BY <1>1, AtomicCommit
<1>2. ASSUME NEW c \in Client, UpsertCounter(c) \/ LockCounter(c) \/ Abort(c)
      PROVE  UNCHANGED log
  BY <1>2 DEF UpsertCounter, LockCounter, Abort
<1>3. ASSUME NEW c \in Client, NEW t \in Tenant, NEW e \in Content, Begin(c, t, e)
      PROVE  UNCHANGED log
  BY <1>3 DEF Begin
<1>4. CASE UNCHANGED vars
  BY <1>4 DEF vars
<1>5. QED
  BY <1>1, <1>2, <1>3, <1>4 DEF Next

\* Overlapping calls of append_ledger behave as calls that ran one at a time.
THEOREM AppendsAreAtomic == Spec => ImplementsAppendOnlyLog
<1>1. QED
  BY AtomicInit, AtomicNext, LedgerInvariant, PTL
     DEF Spec, ImplementsAppendOnlyLog, Atomic!Spec

=============================================================================
