------------------------------ MODULE AuditLedger ------------------------------
(***************************************************************************)
(* The audit ledger: the Postgres functions append_ledger and              *)
(* verify_ledger of infra/supabase/migrations/0005_approvals_ledger.sql,   *)
(* called at the same time by the BFF and the agents.                      *)
(*                                                                         *)
(* A call of append_ledger is one transaction at READ COMMITTED; each of   *)
(* its statements that can wait for another transaction is an action.      *)
(* What a transaction has written is its own until it commits.             *)
(***************************************************************************)
EXTENDS Naturals, Sequences

CONSTANTS
  Tenant,
  Client,      \* database connections that append
  Content,     \* what an entry says: every column of a row but the chain's own
  Joined,      \* of each entry, the text concat_ws makes of its hashed columns
  MaxEntries,  \* bound, for each tenant: no append begins once it has this many rows
  Faults,      \* the failures explored, a subset of {"error"}
  None

\* Nothing is assumed of Joined: the columns are joined by '|', which free text
\* may contain, and a null is joined as '', so different entries may have one
\* text.
ASSUME LedgerAssumption ==
  /\ DOMAIN Joined = Content
  /\ MaxEntries \in [Tenant -> Nat]
  /\ Faults \subseteq {"error"}
  /\ None \notin Tenant \union Client \union Content

VARIABLES
  counters,  \* tenant_ledger_counters, as committed
  owner,     \* the transaction that has inserted or locked a counter row
  log,       \* audit_ledger: each tenant's rows in the order they committed
  txs        \* the transactions in progress

vars == <<counters, owner, log, txs>>

\* SHA-256, taken as free of collisions: a hash is known by what it covers, the
\* numbers and texts of the chain so far.  The payload tells the number, which
\* comes first, and the previous hash, which precedes the JSON of the detail;
\* what it tells of the rest is Joined.  The empty hash is the null before the
\* first entry, which is hashed as ''.
Text == {Joined[e] : e \in Content}
Link == Nat \X Text
Hash == Seq(Link)
NoHash == <<>>

DigestPartly(seq, entry, prev) == Append(prev, <<seq, None>>)   \* mutant: columns left out
Digest(seq, entry, prev) == Append(prev, <<seq, Joined[entry]>>)

Counter == [ there : BOOLEAN, last : Nat, tip : Hash ]
Row == [ seq : Nat, entry : Content, prev : Hash, hash : Hash ]

\* v_seq and v_prev_hash are read when the counter row is locked.
Transaction ==
  [ pc     : {"idle", "upsert", "lock", "write"},
    tenant : Tenant \union {None},
    entry  : Content \union {None},
    seq    : Nat,
    prev   : Hash ]

\* Types of the state.
TypeOK ==
  /\ counters \in [Tenant -> Counter]
  /\ owner \in [Tenant -> Client \union {None}]
  /\ log \in [Tenant -> Seq(Row)]
  /\ txs \in [Client -> Transaction]

-----------------------------------------------------------------------------

Idle == [ pc |-> "idle", tenant |-> None, entry |-> None, seq |-> 0, prev |-> NoHash ]

\* A row not there yet: its inserter finds last_sequence 0 and no hash.
NoCounter == [ there |-> FALSE, last |-> 0, tip |-> NoHash ]

Init ==
  /\ counters = [t \in Tenant |-> NoCounter]
  /\ owner = [t \in Tenant |-> None]
  /\ log = [t \in Tenant |-> <<>>]
  /\ txs = [c \in Client |-> Idle]

At(c, pc) == txs[c].pc = pc

\* `append': one call of the function, in a transaction of its own.
Begin(c, t, e) ==
  /\ At(c, "idle")
  /\ Len(log[t]) < MaxEntries[t]
  /\ txs' = [txs EXCEPT ![c] = [Idle EXCEPT !.pc = "upsert", !.tenant = t, !.entry = e]]
  /\ UNCHANGED <<counters, owner, log>>

\* INSERT INTO tenant_ledger_counters ... ON CONFLICT DO NOTHING: waits while
\* another transaction has inserted the row and not yet ended.
UpsertCounter(c) ==
  /\ At(c, "upsert")
  /\ LET t == txs[c].tenant
     IN \/ counters[t].there /\ UNCHANGED owner
        \/ /\ ~counters[t].there
           /\ owner[t] = None
           /\ owner' = [owner EXCEPT ![t] = c]
  /\ txs' = [txs EXCEPT ![c].pc = "lock"]
  /\ UNCHANGED <<counters, log>>

\* SELECT ... FOR UPDATE: waits for the row and reads its latest version.
GrantedAlways(c, t) == TRUE   \* mutant: no FOR UPDATE
Granted(c, t) == owner[t] \in {None, c}

LockCounter(c) ==
  /\ At(c, "lock")
  /\ LET t == txs[c].tenant
     IN /\ Granted(c, t)
        /\ owner' = [owner EXCEPT ![t] = c]
        /\ txs' = [txs EXCEPT ![c] =
             [@ EXCEPT !.pc = "write", !.seq = counters[t].last, !.prev = counters[t].tip]]
  /\ UNCHANGED <<counters, log>>

NewRow(c) ==
  LET x == txs[c]
  IN [ seq |-> x.seq + 1, entry |-> x.entry, prev |-> x.prev,
       hash |-> Digest(x.seq + 1, x.entry, x.prev) ]

\* The counter row as the function leaves it.
TipKept(c, r) == [ there |-> TRUE, last |-> r.seq, tip |-> txs[c].prev ]  \* mutant: tip not updated
NewCounter(c, r) == [ there |-> TRUE, last |-> r.seq, tip |-> r.hash ]

\* The end of a transaction frees what it held.
StillOwned(c) == owner                       \* mutant: a lock that outlives its transaction
Freed(c) == [t \in Tenant |-> IF owner[t] = c THEN None ELSE owner[t]]

\* INSERT INTO audit_ledger, UPDATE tenant_ledger_counters and the commit.
Commit(c) ==
  /\ At(c, "write")
  /\ LET t == txs[c].tenant
         r == NewRow(c)
     IN /\ log' = [log EXCEPT ![t] = Append(@, r)]
        /\ counters' = [counters EXCEPT ![t] = NewCounter(c, r)]
  /\ owner' = Freed(c)
  /\ txs' = [txs EXCEPT ![c] = Idle]

\* A statement fails (a reference to a row that is gone, a timeout) or the
\* connection is lost: the transaction is rolled back and `append' throws.
Abort(c) ==
  /\ "error" \in Faults
  /\ ~At(c, "idle")
  /\ owner' = Freed(c)
  /\ txs' = [txs EXCEPT ![c] = Idle]
  /\ UNCHANGED <<counters, log>>

Next ==
  \E c \in Client :
    \/ \E t \in Tenant, e \in Content : Begin(c, t, e)
    \/ UpsertCounter(c) \/ LockCounter(c) \/ Commit(c) \/ Abort(c)

Spec == Init /\ [][Next]_vars

\* Postgres runs a statement that can run, and queues those that wait for a
\* row: whoever waits is served though others come and go.
Fairness ==
  \A c \in Client : SF_vars(UpsertCounter(c)) /\ SF_vars(LockCounter(c)) /\ WF_vars(Commit(c))
FairSpec == Spec /\ Fairness

-----------------------------------------------------------------------------
(* verify_ledger: rows from a sequence number on, in the order of           *)
(* sequence_no, each compared with the stored hash of the row before it.    *)

Scanned(L, from) == {i \in DOMAIN L : L[i].seq >= from}

Earlier(L, i, j) == L[i].seq < L[j].seq \/ (L[i].seq = L[j].seq /\ i < j)

\* v_prev_hash when the loop reaches row i of the rows scanned.
PrevHash(L, S, i) ==
  IF \E j \in S : Earlier(L, j, i)
    THEN L[CHOOSE j \in S : Earlier(L, j, i)
                            /\ \A k \in S : Earlier(L, k, i) => k = j \/ Earlier(L, k, j)].hash
    ELSE NoHash

ChainBreak(L, S, i) == L[i].prev # PrevHash(L, S, i)
Tampered(L, i) == L[i].hash # Digest(L[i].seq, L[i].entry, L[i].prev)

\* No row is returned.
Intact(L, from) ==
  LET S == Scanned(L, from)
  IN \A i \in S : ~ChainBreak(L, S, i) /\ ~Tampered(L, i)

-----------------------------------------------------------------------------
(* Properties *)

\* Appends that overlap never fork, repeat or skip a number of a tenant's
\* chain, and verify_ledger finds nothing in what append_ledger wrote.
ChainIntact ==
  \A t \in Tenant : /\ \A i \in DOMAIN log[t] : log[t][i].seq = i
                    /\ Intact(log[t], 1)

\* The tip a next append will build on is the last row's, whatever aborted in
\* between.
TipFollowsLog ==
  \A t \in Tenant : /\ counters[t].last = Len(log[t])
                    /\ log[t] # <<>> => counters[t].tip = log[t][Len(log[t])].hash

\* Rows are numbered from 1 on, each chained to the one before.
Linked(L) ==
  \A i \in DOMAIN L :
    /\ L[i].seq = i
    /\ L[i].prev = IF i = 1 THEN NoHash ELSE L[i - 1].hash
    /\ L[i].hash = Digest(i, L[i].entry, L[i].prev)

LastHash(L) == IF L = <<>> THEN NoHash ELSE L[Len(L)].hash

\* A transaction about to write owns the counter row, and what it read there
\* is still the end of the chain.
WriterInv ==
  \A c \in Client :
    /\ ~At(c, "idle") => txs[c].tenant \in Tenant /\ txs[c].entry \in Content
    /\ At(c, "write") => LET t == txs[c].tenant
                        IN /\ owner[t] = c
                           /\ txs[c].seq = Len(log[t])
                           /\ txs[c].prev = LastHash(log[t])

\* Who holds or inserted a counter row is at work on it.
OwnerInv ==
  \A t \in Tenant, c \in Client :
    owner[t] = c => txs[c].tenant = t /\ (At(c, "lock") \/ At(c, "write"))

\* The inductive invariant.
LedgerInv ==
  /\ TypeOK
  /\ OwnerInv
  /\ \A t \in Tenant : /\ Linked(log[t])
                      /\ counters[t].last = Len(log[t])
                      /\ counters[t].tip = LastHash(log[t])
  /\ WriterInv

CanProceed(c) ==
  LET t == txs[c].tenant
  IN \/ At(c, "upsert") /\ (counters[t].there \/ owner[t] = None)
     \/ At(c, "lock") /\ owner[t] \in {None, c}
     \/ At(c, "write")

\* A transaction in progress can go on, or waits for one that can: appends
\* cannot wait for one another in a circle, and no lock outlives its holder.
WaitsEnd ==
  \A c \in Client : ~At(c, "idle") =>
    CanProceed(c) \/ \E d \in Client : owner[txs[c].tenant] = d /\ CanProceed(d)

\* Rows as verify_ledger reads them from 1 on: order by sequence_no, which
\* nothing keeps from repeating.
Ordered(M) ==
  /\ \A i \in DOMAIN M : M[i].seq >= 1
  /\ \A i, j \in DOMAIN M : i < j => M[i].seq <= M[j].seq

\* A row as its hash covers it.
Covered(r) == <<r.seq, Joined[r.entry], r.prev, r.hash>>

\* Rows that end in a hash of the chain L and verify are those of L up to
\* there, in all that is hashed.
EndTells(L, M) ==
  \A i \in DOMAIN L :
    LastHash(M) = L[i].hash /\ Ordered(M) /\ Intact(M, 1) =>
      /\ Len(M) = i
      /\ \A j \in 1 .. i : Covered(M[j]) = Covered(L[j])

\* n rows of L, each in place, repeated or left out.
Copies(L, n) ==
  {[i \in 1 .. n |-> L[g[i]]] :
     g \in {h \in [1 .. n -> DOMAIN L] : \A i, j \in 1 .. n : i < j => h[i] <= h[j]}}

\* M with entry e in row k, and rows k to m chained anew onto row k - 1, each
\* with its own digest.
Forged(M, k, e, m) ==
  LET N == [M EXCEPT ![k].entry = e]
      before == IF k = 1 THEN NoHash ELSE M[k - 1].hash
      Chain(n) == before \o [j \in 1 .. n - k + 1 |->
                               <<N[k + j - 1].seq, Joined[N[k + j - 1].entry]>>]
  IN [i \in DOMAIN M |->
        IF i \in k .. m THEN [N[i] EXCEPT !.prev = Chain(i - 1), !.hash = Chain(i)] ELSE N[i]]

\* A hash of the chain that somebody kept, such as the head_hash of the
\* console's export, tells the rows up to it: when rows have been removed,
\* repeated, changed in a text that is hashed or chained anew, verify_ledger
\* from the first row reports them unless they do not end in that hash.  Of
\* rows removed at the end only that hash tells.
TamperEvident ==
  [][\A t \in Tenant : log'[t] # log[t] =>
       \A n \in DOMAIN log'[t] : \A M \in Copies(log'[t], n) :
         \A k \in 1 .. n, e \in Content : \A m \in k - 1 .. n - 1 :
           EndTells(log'[t], Forged(M, k, e, m))]_log



\* Every append ends, committed or rolled back, though others of the same
\* tenant hold the counter row in turn.
EveryAppendEnds == \A c \in Client : ~At(c, "idle") ~> At(c, "idle")

\* The concurrent function behaves as if each call ran alone.
Atomic == INSTANCE AppendOnlyLog
ImplementsAppendOnlyLog == Atomic!Spec
=============================================================================
