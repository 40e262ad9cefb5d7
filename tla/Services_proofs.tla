----------------------------- MODULE Services_proofs -----------------------------
(***************************************************************************)
(* Proofs about the services that share no state with the execution path   *)
(* nor with one another: the evidence vault, the gap scan, membership and  *)
(* the model gateway, in this order.                                       *)
(***************************************************************************)
EXTENDS EvidenceVault, GapScan, Membership, ModelGateway, TLAPS

(* Sealing evidence *)

\* The part of the invariant that speaks of one seal, and of one content's row.
SealKept(s) ==
  /\ SealGood(s)
  /\ seals[s].evidence_id => evidence[Body(s)] # NoRow /\ evidence[Body(s)].uri = ContentKey(s)

RowLocked(b) == ~ mock /\ evidence[b] # NoRow => LockedInStore(evidence[b].uri, evidence[b].until)

LEMMA VaultInvParts ==
  VaultInv => /\ VaultTypeOK /\ DOMAIN seals = Seal
              /\ \A s \in Seal : SealKept(s)
              /\ \A b \in Content : RowLocked(b)
  BY DEF VaultInv, SealKept, RowLocked, SealedIsLocked, IdNamesItsObject

LEMMA PartsAreVaultInv ==
  ASSUME VaultTypeOK', DOMAIN seals' = Seal,
         \A s \in Seal : SealKept(s)', \A b \in Content : RowLocked(b)'
  PROVE  VaultInv'
  BY DEF VaultInv, SealKept, SealGood, RowLocked, SealedIsLocked, IdNamesItsObject

\* A row is not the absence of one.
LEMMA RowsAreRows ==
  ASSUME NEW b, NEW p, NEW u
  PROVE  [uri |-> <<b, p>>, until |-> u] # NoRow
  BY DEF NoRow

LEMMA VaultInitial == VaultInit => VaultInv
  <1> SUFFICES ASSUME VaultInit PROVE VaultInv  OBVIOUS
  <1>1. VaultTypeOK
    BY VaultAssumption DEF VaultInit, VaultTypeOK, Version, Rows
  <1>2. DOMAIN seals = Seal  BY DEF VaultInit
  <1>3. ASSUME NEW s \in Seal
        PROVE  SealGood(s) /\ seals[s].pc = "idle" /\ ~ seals[s].evidence_id
    <2>1. seals[s] = [ pc |-> "idle", req |-> CHOOSE q \in Artifacts : TRUE,
                       until |-> 0, evidence_id |-> FALSE ]
      BY DEF VaultInit
    <2>2. (CHOOSE q \in Artifacts : TRUE) \in Artifacts
      BY VaultAssumption
    <2>3. seals[s] \in SealRecord
      BY <2>1, <2>2 DEF SealRecord, SealPCs
    <2> QED BY <2>1, <2>3 DEF SealGood
  <1>4. SealedIsLocked /\ IdNamesItsObject
    BY <1>3 DEF VaultInit, SealedIsLocked, IdNamesItsObject
  <1> QED BY <1>1, <1>2, <1>3, <1>4 DEF VaultInv

-----------------------------------------------------------------------------
(* What a step does to the locks, and to the seals it does not take *)

\* Nothing but the passing of a lock lets a version go.
LEMMA LocksHold ==
  ASSUME VaultTypeOK, [VaultNext]_vaultVars, NEW uri, NEW until \in Nat,
         LockedInStore(uri, until)
  PROVE  LockedInStore(uri, until)'
  <1>1. day \in Nat /\ day' \in {day, day + 1}
    BY DEF VaultTypeOK, VaultNext, vaultVars, Begin, PutObject, PutFails, Upsert, UpsertFails,
           CrashDuringSeal, DayPasses, DeleteVersion
  <1>2. CASE until <= day
    BY <1>1, <1>2 DEF LockedInStore
  <1>3. CASE ~ (until <= day)
    <2>1. [uri |-> uri, until |-> until] \in versions
      BY <1>3 DEF LockedInStore
    <2>2. [uri |-> uri, until |-> until] \in versions'
      <3>1. CASE DeleteVersion
        BY <1>3, <2>1, <3>1 DEF DeleteVersion
      <3>2. CASE ~ DeleteVersion
        <4>1. versions \subseteq versions'
          BY <3>2 DEF VaultNext, vaultVars, Begin, PutObject, PutFails, Upsert, UpsertFails,
                      CrashDuringSeal, DayPasses, InStore
        <4> QED BY <2>1, <4>1
      <3> QED BY <3>1, <3>2
    <2> QED BY <2>2 DEF LockedInStore
  <1> QED BY <1>2, <1>3

\* A row never moves to another object.
LEMMA RowsStay ==
  ASSUME VaultTypeOK, [VaultNext]_vaultVars, \A s \in Seal : SealGood(s), NEW b \in Content,
         evidence[b] # NoRow
  PROVE  evidence'[b] # NoRow /\ evidence'[b].uri = evidence[b].uri
  <1>1. CASE \E s \in Seal : seals[s].pc = "upsert" /\ Immutable(s) /\ SetRow(s)
    <2>1. PICK s \in Seal : seals[s].pc = "upsert" /\ Immutable(s) /\ SetRow(s)
      BY <1>1
    <2>2. CASE Body(s) = b
      <3>1. evidence'[b] = [uri |-> ContentKey(s), until |-> Until(s)]
        BY <2>1, <2>2 DEF SetRow, VaultTypeOK
      <3>2. evidence[b].uri = ContentKey(s)
        BY <2>1, <2>2 DEF Immutable
      <3> QED BY <3>1, <3>2, RowsAreRows DEF ContentKey
    <2>3. CASE Body(s) # b
      BY <2>1, <2>3 DEF SetRow, VaultTypeOK
    <2> QED BY <2>2, <2>3
  <1>2. CASE UNCHANGED evidence
    BY <1>2
  <1> QED BY <1>1, <1>2 DEF VaultNext, vaultVars, Begin, PutObject, PutFails, Upsert, UpsertFails,
                            CrashDuringSeal, DayPasses, DeleteVersion

\* A seal that takes no step stays good.
LEMMA OtherSealsKept ==
  ASSUME VaultInv, [VaultNext]_vaultVars, NEW s \in Seal, seals'[s] = seals[s]
  PROVE  SealKept(s)'
  <1>1. SealKept(s) /\ VaultTypeOK /\ \A t \in Seal : SealGood(t)
    BY VaultInvParts DEF SealKept
  <1>2. seals[s] \in SealRecord /\ mock' = mock
    BY <1>1 DEF SealKept, SealGood, VaultNext, vaultVars, Begin, PutObject, PutFails, Upsert, UpsertFails,
                CrashDuringSeal, DayPasses, DeleteVersion
  <1>3. Until(s) \in Nat  BY <1>2 DEF SealRecord, Until
  <1>4. LockedInStore(ContentKey(s), Until(s)) => (ContentKey(s)' = ContentKey(s) /\ Until(s)' = Until(s)
           /\ LockedInStore(ContentKey(s), Until(s))')
    <2>1. ContentKey(s)' = ContentKey(s) /\ Until(s)' = Until(s)
      BY DEF ContentKey, Until, Body
    <2>2. ASSUME NEW k, NEW u \in Nat, LockedInStore(k, u) PROVE LockedInStore(k, u)'
      BY <1>1, <2>2, LocksHold
    <2> QED BY <1>3, <2>1, <2>2 DEF LockedInStore
  <1>5. SealGood(s)'
    BY <1>1, <1>2, <1>4 DEF SealKept, SealGood, Body
  <1>6. seals[s].evidence_id => evidence'[Body(s)] # NoRow /\ evidence'[Body(s)].uri = ContentKey(s)
    BY <1>1, RowsStay DEF SealKept, SealGood
  <1> QED BY <1>5, <1>6 DEF SealKept, ContentKey, Body

-----------------------------------------------------------------------------
(* The steps of a seal *)

LEMMA BeginKept ==
  ASSUME VaultInv, NEW s \in Seal, Begin(s)
  PROVE  SealKept(s)'
  <1>1. SealKept(s) /\ VaultTypeOK /\ DOMAIN seals = Seal  BY VaultInvParts
  <1>2. PICK q \in Artifacts : seals' = [seals EXCEPT ![s] = [@ EXCEPT
          !.pc = IF q.content = NoContent THEN "failed" ELSE "put", !.req = q, !.until = day + q.days]]
    BY DEF Begin
  <1>3. PICK pc \in {"failed", "put"} : /\ pc = "put" => q.content # NoContent
                                        /\ seals'[s] = [seals[s] EXCEPT !.pc = pc, !.req = q, !.until = day + q.days]
    BY <1>1, <1>2
  <1>4. q \in [content : Content \union {NoContent}, place : Place, days : Nat \ {0}]
    BY VaultAssumption
  <1>5. day + q.days \in Nat
    BY <1>1, <1>4 DEF VaultTypeOK
  <1>6. seals[s] \in SealRecord /\ seals[s].pc = "idle" /\ ~ seals[s].evidence_id
    BY <1>1 DEF SealKept, SealGood, Begin
  <1>7. seals'[s] \in SealRecord
    BY <1>3, <1>5, <1>6 DEF SealRecord, SealPCs
  <1>8. seals'[s].pc = pc /\ seals'[s].req = q /\ ~ seals'[s].evidence_id
    BY <1>3, <1>6 DEF SealRecord
  <1> QED BY <1>3, <1>4, <1>7, <1>8 DEF SealKept, SealGood, Body

\* The lock a put leaves, and the step to the upsert.
LEMMA PutKept ==
  ASSUME VaultInv, NEW s \in Seal, PutObject(s) \/ PutFails(s)
  PROVE  SealKept(s)'
  <1>1. SealKept(s) /\ VaultTypeOK /\ DOMAIN seals = Seal  BY VaultInvParts
  <1>2. seals[s] \in SealRecord /\ seals[s].pc = "put" /\ ~ seals[s].evidence_id /\ Body(s) \in Content
    BY <1>1 DEF SealKept, SealGood, PutObject, PutFails
  <1>3. PICK pc \in {"upsert", "failed"} : seals'[s] = [seals[s] EXCEPT !.pc = pc]
    BY <1>1 DEF PutObject, PutFails, GoTo
  <1>4. seals'[s] \in SealRecord  BY <1>2, <1>3 DEF SealRecord, SealPCs
  <1>5. /\ seals'[s].pc = pc /\ ~ seals'[s].evidence_id
        /\ seals'[s].req = seals[s].req /\ seals'[s].until = seals[s].until
    BY <1>2, <1>3 DEF SealRecord
  <1>6. /\ mock' = mock /\ day' = day
        /\ ~ mock /\ pc = "upsert" => [uri |-> ContentKey(s), until |-> Until(s)] \in versions'
    <2>1. CASE PutObject(s)
      BY <2>1 DEF PutObject, InStore
    <2>2. CASE PutFails(s)
      <3>1. ~ mock => seals'[s].pc = "failed"
        BY <2>2, <1>1, <1>2 DEF PutFails, GoTo, MockFallback, SealRecord
      <3> QED BY <2>2, <1>5, <3>1 DEF PutFails
    <2> QED BY <2>1, <2>2
  <1> QED BY <1>2, <1>4, <1>5, <1>6
          DEF SealKept, SealGood, Body, ContentKey, Until, LockedInStore

LEMMA UpsertKept ==
  ASSUME VaultInv, NEW s \in Seal, Upsert(s) \/ UpsertFails(s)
  PROVE  SealKept(s)'
  <1>1. SealKept(s) /\ VaultTypeOK /\ DOMAIN seals = Seal  BY VaultInvParts
  <1>2. /\ seals[s] \in SealRecord /\ seals[s].pc = "upsert" /\ Body(s) \in Content
        /\ ~ mock => LockedInStore(ContentKey(s), Until(s))
    BY <1>1 DEF SealKept, SealGood, Upsert, UpsertFails
  <1>3. PICK id \in BOOLEAN : /\ seals'[s] = [seals[s] EXCEPT !.pc = "sealed", !.evidence_id = id]
                              /\ id => SetRow(s)
    BY <1>1 DEF Upsert, UpsertFails, Sealed, NoId
  <1>4. seals'[s] \in SealRecord  BY <1>2, <1>3 DEF SealRecord, SealPCs
  <1>5. /\ seals'[s].pc = "sealed" /\ seals'[s].evidence_id = id
        /\ seals'[s].req = seals[s].req /\ seals'[s].until = seals[s].until
    BY <1>2, <1>3 DEF SealRecord
  <1>6. UNCHANGED <<day, mock, versions>>
    BY DEF Upsert, UpsertFails
  <1>7. SealGood(s)'
    BY <1>2, <1>4, <1>5, <1>6 DEF SealGood, Body, ContentKey, Until, LockedInStore
  <1>8. id => evidence'[Body(s)] = [uri |-> ContentKey(s), until |-> Until(s)]
    BY <1>1, <1>2, <1>3 DEF SetRow, VaultTypeOK
  <1>9. id => evidence'[Body(s)] # NoRow /\ evidence'[Body(s)].uri = ContentKey(s)
    BY <1>8, RowsAreRows DEF ContentKey
  <1> QED BY <1>5, <1>7, <1>9 DEF SealKept, Body, ContentKey

LEMMA CrashKept ==
  ASSUME VaultInv, NEW s \in Seal, CrashDuringSeal(s)
  PROVE  SealKept(s)'
  <1>1. SealKept(s) /\ DOMAIN seals = Seal  BY VaultInvParts
  <1>2. seals[s] \in SealRecord /\ ~ seals[s].evidence_id
    BY <1>1 DEF SealKept, SealGood, CrashDuringSeal
  <1>3. seals'[s] = [seals[s] EXCEPT !.pc = "gone"]
    BY <1>1 DEF CrashDuringSeal, GoTo
  <1>4. seals'[s] \in SealRecord  BY <1>2, <1>3 DEF SealRecord, SealPCs
  <1> QED BY <1>2, <1>3, <1>4 DEF SealKept, SealGood, SealRecord

-----------------------------------------------------------------------------
(* The rest of the state *)

LEMMA VaultTyped ==
  ASSUME VaultInv, [VaultNext]_vaultVars
  PROVE  VaultTypeOK' /\ DOMAIN seals' = Seal
  <1>1. VaultTypeOK /\ DOMAIN seals = Seal /\ \A s \in Seal : SealGood(s)
    BY VaultInvParts DEF SealKept
  <1>2. DOMAIN seals' = Seal
    BY <1>1 DEF VaultNext, vaultVars, Begin, PutObject, PutFails, Upsert, UpsertFails,
                CrashDuringSeal, DayPasses, DeleteVersion, GoTo, Sealed, NoId
  <1>3. ASSUME NEW s \in Seal, seals[s].pc \in {"put", "upsert"}
        PROVE  [uri |-> ContentKey(s), until |-> Until(s)] \in Version \intersect Rows
    <2>1. Body(s) \in Content /\ Until(s) \in Nat /\ seals[s].req \in Artifacts
      BY <1>1, <1>3 DEF SealGood, SealRecord, Until
    <2>2. seals[s].req.place \in Place
      BY <2>1, VaultAssumption
    <2>3. ContentKey(s) \in Uri
      BY <2>1, <2>2 DEF ContentKey, Uri
    <2> HIDE DEF Uri
    <2> QED BY <2>1, <2>3 DEF Version, Rows
  <1>4. day' \in Nat /\ mock' \in BOOLEAN
    <2>1. day' \in {day, day + 1}
      BY DEF VaultNext, vaultVars, Begin, PutObject, PutFails, Upsert, UpsertFails,
             CrashDuringSeal, DayPasses, DeleteVersion
    <2>2. mock' = mock
      BY DEF VaultNext, vaultVars, Begin, PutObject, PutFails, Upsert, UpsertFails,
             CrashDuringSeal, DayPasses, DeleteVersion
    <2> QED BY <1>1, <2>1, <2>2 DEF VaultTypeOK
  <1>5. versions' \subseteq Version
    <2>1. versions \subseteq Version  BY <1>1 DEF VaultTypeOK
    <2>2. ASSUME NEW s \in Seal, PutObject(s) \/ PutFails(s)
          PROVE  versions' \subseteq Version
      <3>1. [uri |-> ContentKey(s), until |-> Until(s)] \in Version
        BY <1>3, <2>2 DEF PutObject, PutFails
      <3>2. versions' \subseteq versions \union {[uri |-> ContentKey(s), until |-> Until(s)]}
        BY <2>2 DEF PutObject, PutFails, InStore
      <3> QED BY <2>1, <3>1, <3>2
    <2> QED BY <2>1, <2>2 DEF VaultTypeOK, VaultNext, vaultVars, Begin, PutObject, PutFails, Upsert, UpsertFails,
                CrashDuringSeal, DayPasses, DeleteVersion, InStore
  <1>6. evidence' \in [Content -> Rows \union {NoRow}]
    BY <1>1, <1>3 DEF VaultTypeOK, VaultNext, vaultVars, Begin, PutObject, PutFails, Upsert, UpsertFails,
                CrashDuringSeal, DayPasses, DeleteVersion, SetRow
  <1> QED BY <1>2, <1>4, <1>5, <1>6 DEF VaultTypeOK

\* A new row says of its lock what the seal that wrote it had put.
LEMMA RowsLocked ==
  ASSUME VaultInv, [VaultNext]_vaultVars, NEW b \in Content
  PROVE  RowLocked(b)'
  <1>1. VaultTypeOK /\ RowLocked(b) /\ \A s \in Seal : SealGood(s)
    BY VaultInvParts DEF SealKept
  <1>2. mock' = mock
    BY DEF VaultNext, vaultVars, Begin, PutObject, PutFails, Upsert, UpsertFails,
           CrashDuringSeal, DayPasses, DeleteVersion
  <1>3. CASE evidence'[b] = evidence[b]
    <2>1. evidence[b] # NoRow => evidence[b].until \in Nat
      BY <1>1 DEF VaultTypeOK, Rows
    <2>2. ASSUME ~ mock, evidence[b] # NoRow
          PROVE  LockedInStore(evidence[b].uri, evidence[b].until)'
      <3>1. ASSUME NEW k, NEW u \in Nat, LockedInStore(k, u) PROVE LockedInStore(k, u)'
        BY <1>1, <3>1, LocksHold
      <3> QED BY <1>1, <1>3, <2>1, <2>2, <3>1 DEF RowLocked, LockedInStore
    <2> QED BY <1>2, <1>3, <2>2 DEF RowLocked
  <1>4. CASE evidence'[b] # evidence[b]
    <2>1. PICK s \in Seal : seals[s].pc = "upsert" /\ SetRow(s) /\ UNCHANGED <<day, mock, versions>>
      BY <1>4 DEF VaultNext, vaultVars, Begin, PutObject, PutFails, Upsert, UpsertFails,
                  CrashDuringSeal, DayPasses, DeleteVersion
    <2>2. evidence'[b] = [uri |-> ContentKey(s), until |-> Until(s)]
      BY <1>1, <1>4, <2>1 DEF SetRow, VaultTypeOK
    <2>3. ~ mock => LockedInStore(ContentKey(s), Until(s))
      BY <1>1, <2>1 DEF SealGood
    <2> QED BY <2>1, <2>2, <2>3 DEF RowLocked, LockedInStore
  <1> QED BY <1>3, <1>4

\* Every step keeps the invariant.
LEMMA VaultStep == VaultInv /\ [VaultNext]_vaultVars => VaultInv'
  <1> SUFFICES ASSUME VaultInv, [VaultNext]_vaultVars PROVE VaultInv'  OBVIOUS
  <1>1. ASSUME NEW s \in Seal PROVE SealKept(s)'
    <2>1. CASE seals'[s] = seals[s]
      BY <2>1, OtherSealsKept
    <2>2. CASE seals'[s] # seals[s]
      <3>1. DOMAIN seals = Seal  BY VaultInvParts
      <3>2. Begin(s) \/ PutObject(s) \/ PutFails(s) \/ Upsert(s) \/ UpsertFails(s) \/ CrashDuringSeal(s)
        BY <2>2, <3>1 DEF VaultNext, vaultVars, Begin, PutObject, PutFails, Upsert, UpsertFails,
                    CrashDuringSeal, DayPasses, DeleteVersion, GoTo, Sealed, NoId
      <3> QED BY <3>2, BeginKept, PutKept, UpsertKept, CrashKept
    <2> QED BY <2>1, <2>2
  <1> QED BY <1>1, VaultTyped, RowsLocked, PartsAreVaultInv

\* The inductive invariant of the vault.
THEOREM VaultInvariant == VaultSpec => []VaultInv
  BY VaultInitial, VaultStep, PTL DEF VaultSpec

\* For any seals, contents, names and retentions: outside development, what a
\* row or an answer says is locked has a version locked until that day.
THEOREM SealsAreLocked == VaultSpec => []SealedIsLocked
  <1>1. VaultInv => SealedIsLocked  BY DEF VaultInv
  <1> QED BY <1>1, VaultInvariant, PTL

\* For any seals: the id in an answer stays an id of the object sealed.
THEOREM IdsNameTheirObjects == VaultSpec => []IdNamesItsObject
  <1>1. VaultInv => IdNamesItsObject  BY DEF VaultInv
  <1> QED BY <1>1, VaultInvariant, PTL

-----------------------------------------------------------------------------
(* The public gap scan *)

\* The cache keeps the entry just made, and no other it did not hold before.
LEMMA NewEntryIsCached ==
  ASSUME NEW cache \in Seq(Scan), NEW s \in Scan
  PROVE  /\ Cached(cache, s) \in Seq(Scan)
         /\ s \in ToSet(Cached(cache, s))
  <1> DEFINE longer == Append(cache, s)
  <1>1. longer \in Seq(Scan) /\ Len(longer) = Len(cache) + 1 /\ longer[Len(longer)] = s
    OBVIOUS
  <1>2. CASE Len(longer) > CacheLimit
    <2>1. Len(longer) > 1 /\ longer # <<>>
      BY <1>1, <1>2, GapScanAssumption
    <2>2. Tail(longer) \in Seq(Scan) /\ Len(Tail(longer)) = Len(longer) - 1
      BY <1>1, <2>1
    <2>3. Tail(longer)[Len(longer) - 1] = s
      BY <1>1, <2>1
    <2>4. Len(longer) - 1 \in DOMAIN Tail(longer)
      BY <1>1, <2>1, <2>2
    <2> HIDE DEF longer
    <2>5. Cached(cache, s) = Tail(longer)
      BY <1>2 DEF Cached, longer
    <2> QED BY <2>2, <2>3, <2>4, <2>5 DEF ToSet
  <1>3. CASE ~ (Len(longer) > CacheLimit)
    <2>1. Len(longer) \in DOMAIN longer
      BY <1>1
    <2> HIDE DEF longer
    <2>2. Cached(cache, s) = longer
      BY <1>3 DEF Cached, longer
    <2> QED BY <1>1, <2>1, <2>2 DEF ToSet
  <1> QED BY <1>2, <1>3

LEMMA GapScanInitial == GapScanInit => GapScanInv
  <1> SUFFICES ASSUME GapScanInit PROVE GapScanInv  OBVIOUS
  <1>1. GapScanTypeOK
    BY GapScanAssumption DEF GapScanInit, GapScanTypeOK, Owners, ScanRecord, ViewRecord
  <1>2. CachedFirst /\ ViewsOfSubmissions /\ OwnReportIsFound /\ AnsweredIsKept
    BY DEF GapScanInit, CachedFirst, ViewsOfSubmissions, OwnReportIsFound, AnsweredIsKept
  <1> QED BY <1>1, <1>2 DEF GapScanInv

-----------------------------------------------------------------------------
(* Submissions: types, and that what is answered is kept *)

\* What the invariant says of one submission.
Kept(s) ==
  /\ scans[s] \in ScanRecord /\ rows[s] \in Owners
  /\ scans[s].pc # "idle" /\ scans[s].by = "site" => InItsCache(s)
  /\ rows[s] # "none" => rows[s] = scans[s].by /\ scans[s].pc # "idle"
  /\ scans[s].pc = "answered" => \/ rows[s] = scans[s].by
                                 \/ scans[s].by = "site" /\ InItsCache(s)

LEMMA InvIsKept ==
  GapScanInv => /\ scans \in [Scan -> ScanRecord] /\ rows \in [Scan -> Owners]
                /\ caches \in [Site -> Seq(Scan)]
                /\ \A s \in Scan : Kept(s)
  BY DEF GapScanInv, GapScanTypeOK, CachedFirst, AnsweredIsKept, InItsCache, Kept

\* A submission whose own stage does not change is evicted or where it was.
LEMMA Unmoved ==
  ASSUME NEW s \in Scan, Kept(s), rows'[s] = rows[s],
         \/ scans'[s] = scans[s] \/ scans'[s] = [scans[s] EXCEPT !.evicted = TRUE],
         InItsCache(s) => scans'[s].evicted \/ s \in ToSet(caches'[scans[s].at])
  PROVE  Kept(s)'
  <1>1. scans'[s] \in ScanRecord /\ scans'[s].pc = scans[s].pc /\ scans'[s].by = scans[s].by
        /\ scans'[s].at = scans[s].at /\ (scans[s].evicted => scans'[s].evicted)
    BY DEF Kept, ScanRecord
  <1> QED BY <1>1 DEF Kept, InItsCache

LEMMA SubmitToSiteKept ==
  ASSUME GapScanInv, NEW s \in Scan, SubmitToSite(s), NEW t \in Scan
  PROVE  Kept(t)' /\ scans' = [x \in Scan |-> scans'[x]] /\ caches' \in [Site -> Seq(Scan)]
  <1>1. /\ scans \in [Scan -> ScanRecord] /\ caches \in [Site -> Seq(Scan)]
        /\ Kept(s) /\ Kept(t) /\ scans[s] \in ScanRecord /\ scans[s].pc = "idle" /\ UNCHANGED rows
    BY InvIsKept DEF SubmitToSite
  <1>2. PICK w \in Site, h \in Session :
          /\ caches' = [caches EXCEPT ![w] = Cached(caches[w], s)]
          /\ scans' = [Evict(ToSet(caches[w]) \ ToSet(Cached(caches[w], s))) EXCEPT ![s] =
               [@ EXCEPT !.pc = "insert", !.session = h, !.at = w]]
    BY DEF SubmitToSite
  <1>3. Cached(caches[w], s) \in Seq(Scan) /\ s \in ToSet(Cached(caches[w], s))
    BY <1>1, NewEntryIsCached
  <1>4. caches' \in [Site -> Seq(Scan)] /\ scans' = [x \in Scan |-> scans'[x]]
    BY <1>1, <1>2, <1>3 DEF Evict
  <1>5. CASE t = s
    <2>1. PICK e \in [Scan -> ScanRecord] : e = Evict(ToSet(caches[w]) \ ToSet(Cached(caches[w], s)))
      BY <1>1 DEF Evict, ScanRecord
    <2>2. e[s].by = scans[s].by
      BY <1>1, <2>1 DEF Evict, ScanRecord
    <2>3. scans'[s] = [e[s] EXCEPT !.pc = "insert", !.session = h, !.at = w]
      BY <1>2, <2>1
    <2>4. scans'[s] \in ScanRecord /\ scans'[s].pc = "insert" /\ scans'[s].at = w
          /\ scans'[s].by = scans[s].by
      <3>1. e[s] \in ScanRecord  BY <2>1
      <3> QED BY <2>2, <2>3, <3>1 DEF ScanRecord
    <2>5. s \in ToSet(caches'[w])
      BY <1>1, <1>2, <1>3
    <2> QED BY <1>1, <1>4, <1>5, <2>4, <2>5 DEF Kept, InItsCache
  <1>6. CASE t # s
    <2>1. scans'[t] = Evict(ToSet(caches[w]) \ ToSet(Cached(caches[w], s)))[t]
      BY <1>2, <1>6 DEF Evict
    <2>2. CASE t \in ToSet(caches[w]) \ ToSet(Cached(caches[w], s))
      <3>1. scans'[t] = [scans[t] EXCEPT !.evicted = TRUE]
        BY <2>1, <2>2 DEF Evict
      <3>2. scans'[t].evicted
        BY <1>1, <3>1 DEF ScanRecord
      <3> QED BY <1>1, <1>4, <3>1, <3>2, Unmoved
    <2>3. CASE t \notin ToSet(caches[w]) \ ToSet(Cached(caches[w], s))
      <3>1. scans'[t] = scans[t]
        BY <2>1, <2>3 DEF Evict
      <3>2. t \in ToSet(caches[scans[t].at]) => t \in ToSet(caches'[scans[t].at])
        <4>1. CASE scans[t].at = w
          BY <1>1, <1>2, <2>3, <4>1
        <4>2. CASE scans[t].at # w
          BY <1>1, <1>2, <4>2
        <4> QED BY <4>1, <4>2
      <3> QED BY <1>1, <1>4, <3>1, <3>2, Unmoved DEF InItsCache
    <2> QED BY <2>2, <2>3
  <1> QED BY <1>4, <1>5, <1>6

\* The steps of a submission that leave the caches alone.
LEMMA InsertKept ==
  ASSUME GapScanInv, NEW s \in Scan, SubmitToBff(s) \/ InsertRow(s) \/ InsertFails(s), NEW t \in Scan
  PROVE  Kept(t)' /\ scans' = [x \in Scan |-> scans'[x]]
  <1>1. /\ scans \in [Scan -> ScanRecord] /\ rows \in [Scan -> Owners]
        /\ Kept(s) /\ Kept(t) /\ scans[s] \in ScanRecord /\ UNCHANGED caches
    BY InvIsKept DEF SubmitToBff, InsertRow, InsertFails
  <1>2. scans' = [x \in Scan |-> scans'[x]] /\ (t # s => scans'[t] = scans[t] /\ rows'[t] = rows[t])
    BY <1>1 DEF SubmitToBff, InsertRow, InsertFails, Inserted
  <1>3. CASE t # s
    BY <1>1, <1>2, <1>3, Unmoved DEF InItsCache
  <1>4. CASE t = s
    <2>1. CASE SubmitToBff(s)
      <3>1. PICK h \in Session : scans'[s] = [scans[s] EXCEPT !.pc = "insert", !.session = h, !.by = "bff"]
        BY <1>1, <2>1 DEF SubmitToBff
      <3>2. scans'[s] \in ScanRecord
        BY <1>1, <3>1 DEF ScanRecord, Owners
      <3> QED BY <1>1, <1>4, <2>1, <3>1, <3>2 DEF Kept, SubmitToBff, ScanRecord
    <2>2. CASE InsertRow(s)
      <3>1. scans'[s] = [scans[s] EXCEPT !.pc = "answered"] /\ rows'[s] = scans[s].by
        BY <1>1, <2>2 DEF InsertRow, Inserted
      <3>2. scans'[s] \in ScanRecord /\ rows'[s] \in Owners
        BY <1>1, <3>1 DEF ScanRecord, Owners
      <3>3. scans'[s].pc = "answered" /\ scans'[s].by = scans[s].by
        BY <1>1, <3>1 DEF ScanRecord
      <3>4. scans[s].pc = "insert" /\ UNCHANGED caches /\ scans'[s].at = scans[s].at
            /\ scans'[s].evicted = scans[s].evicted
        BY <1>1, <2>2, <3>1 DEF InsertRow, ScanRecord
      <3>5. scans'[s].by = "site" => InItsCache(s)'
        BY <1>1, <3>3, <3>4 DEF Kept, InItsCache
      <3>6. Kept(s)'
        BY <3>1, <3>2, <3>3, <3>5 DEF Kept
      <3> QED BY <1>2, <1>4, <3>6
    <2>3. CASE InsertFails(s)
      <3>1. scans'[s] = [scans[s] EXCEPT !.pc = OnError(s)] /\ rows'[s] \in {rows[s], scans[s].by}
            /\ scans[s].pc = "insert"
        BY <1>1, <2>3 DEF InsertFails, Inserted
      <3>2. scans'[s] \in ScanRecord /\ rows'[s] \in Owners
        BY <1>1, <3>1 DEF ScanRecord, Owners, OnError
      <3>3. /\ scans'[s].pc = OnError(s) /\ scans'[s].by = scans[s].by /\ scans'[s].at = scans[s].at
            /\ scans'[s].evicted = scans[s].evicted
        BY <1>1, <3>1 DEF ScanRecord
      <3>4. scans[s].by = "site" => InItsCache(s)
        BY <1>1, <3>1 DEF Kept
      <3>5. CASE scans[s].by = "site"
        <4>1. InItsCache(s)'  BY <1>1, <3>3, <3>4, <3>5 DEF InItsCache
        <4>2. scans'[s].pc = "answered" /\ scans'[s].by = "site"
          BY <3>3, <3>5 DEF OnError
        <4>3. Kept(s)'  BY <1>1, <3>1, <3>2, <3>5, <4>1, <4>2 DEF Kept
        <4> QED BY <1>2, <1>4, <4>3
      <3>6. CASE scans[s].by # "site"
        <4>1. scans'[s].pc = "error"  BY <3>3, <3>6 DEF OnError
        <4>2. Kept(s)'  BY <1>1, <3>1, <3>2, <3>3, <3>6, <4>1 DEF Kept
        <4> QED BY <1>2, <1>4, <4>2
      <3> QED BY <3>5, <3>6
    <2> QED BY <2>1, <2>2, <2>3
  <1> QED BY <1>2, <1>3, <1>4

LEMMA RestartKept ==
  ASSUME GapScanInv, NEW w \in Site, RestartSite(w), NEW t \in Scan
  PROVE  Kept(t)' /\ scans' = [x \in Scan |-> scans'[x]] /\ caches' \in [Site -> Seq(Scan)]
  <1>1. /\ scans \in [Scan -> ScanRecord] /\ caches \in [Site -> Seq(Scan)]
        /\ Kept(t) /\ scans[t] \in ScanRecord /\ UNCHANGED rows
    BY InvIsKept DEF RestartSite
  <1>2. caches' = [caches EXCEPT ![w] = <<>>]
    BY DEF RestartSite
  <1>3. caches' \in [Site -> Seq(Scan)] /\ scans' = [x \in Scan |-> scans'[x]]
    BY <1>1, <1>2 DEF RestartSite
  <1>4. PICK pc \in {"gone", scans[t].pc} :
          /\ scans'[t] = [Evict(ToSet(caches[w]))[t] EXCEPT !.pc = pc]
          /\ pc # scans[t].pc => scans[t].pc # "idle"
    BY <1>1 DEF RestartSite, Evict, ScanRecord
  <1>5. PICK evicted \in BOOLEAN :
          /\ Evict(ToSet(caches[w]))[t] = [scans[t] EXCEPT !.evicted = evicted]
          /\ scans[t].evicted \/ t \in ToSet(caches[w]) => evicted
    <2>1. CASE t \in ToSet(caches[w])
      BY <2>1 DEF Evict
    <2>2. CASE t \notin ToSet(caches[w])
      <3>1. scans[t] = [scans[t] EXCEPT !.evicted = scans[t].evicted] /\ scans[t].evicted \in BOOLEAN
        BY <1>1 DEF ScanRecord
      <3> QED BY <2>2, <3>1 DEF Evict
    <2> QED BY <2>1, <2>2
  <1>6. scans'[t] = [scans[t] EXCEPT !.evicted = evicted, !.pc = pc]
    BY <1>4, <1>5
  <1>7. /\ scans'[t] \in ScanRecord /\ scans'[t].pc = pc /\ scans'[t].evicted = evicted
        /\ scans'[t].by = scans[t].by /\ scans'[t].at = scans[t].at
    BY <1>1, <1>6 DEF ScanRecord
  <1>8. InItsCache(t) => scans'[t].evicted \/ t \in ToSet(caches'[scans[t].at])
    <2>1. CASE scans[t].at = w
      BY <1>5, <1>7, <2>1 DEF InItsCache
    <2>2. CASE scans[t].at # w
      BY <1>1, <1>2, <1>5, <1>7, <2>2 DEF InItsCache
    <2> QED BY <2>1, <2>2
  <1>9. (scans'[t].pc # "idle" <=> scans[t].pc # "idle") /\ (pc = "answered" => scans[t].pc = pc)
    BY <1>4, <1>7
  <1> QED BY <1>1, <1>3, <1>7, <1>8, <1>9 DEF Kept, InItsCache

LEMMA EachKept ==
  ASSUME GapScanInv, [GapScanNext]_gapScanVars
  PROVE  /\ \A t \in Scan : Kept(t)'
         /\ scans' \in [Scan -> ScanRecord] /\ rows' \in [Scan -> Owners]
         /\ caches' \in [Site -> Seq(Scan)]
  <1>1. /\ scans \in [Scan -> ScanRecord] /\ rows \in [Scan -> Owners]
        /\ caches \in [Site -> Seq(Scan)] /\ \A t \in Scan : Kept(t)
    BY InvIsKept
  <1>2. rows' = [x \in Scan |-> rows'[x]]
    BY <1>1 DEF GapScanNext, gapScanVars, SubmitToSite, SubmitToBff, InsertRow, InsertFails, Look,
                ReadRow, ReadCache, RestartSite, Inserted
  <1>3. CASE UNCHANGED <<rows, caches, scans>>
    BY <1>1, <1>3 DEF Kept, InItsCache
  <1>4. CASE ~ UNCHANGED <<rows, caches, scans>>
    <2>1. \/ \E s \in Scan : SubmitToSite(s)
          \/ \E s \in Scan : (SubmitToBff(s) \/ InsertRow(s) \/ InsertFails(s)) /\ UNCHANGED caches
          \/ \E w \in Site : RestartSite(w)
      BY <1>4 DEF GapScanNext, gapScanVars, Look, ReadRow, ReadCache, SubmitToBff, InsertRow, InsertFails
    <2>2. /\ \A t \in Scan : Kept(t)' /\ scans' = [x \in Scan |-> scans'[x]]
          /\ caches' \in [Site -> Seq(Scan)]
      BY <1>1, <2>1, GapScanAssumption, SubmitToSiteKept, InsertKept, RestartKept
    <2>3. \A t \in Scan : scans'[t] \in ScanRecord /\ rows'[t] \in Owners
      BY <2>2 DEF Kept
    <2>4. scans' \in [Scan -> ScanRecord]
      <3>1. scans' = [x \in Scan |-> scans'[x]]  BY <2>2, GapScanAssumption
      <3>2. [x \in Scan |-> scans'[x]] \in [Scan -> ScanRecord]  BY <2>3
      <3> QED BY <3>1, <3>2, Zenon
    <2>5. rows' \in [Scan -> Owners]
      BY <1>2, <2>3
    <2> QED BY <2>2, <2>4, <2>5
  <1> QED BY <1>3, <1>4

-----------------------------------------------------------------------------
(* Reports *)

\* A submission that was made stays whose and where it is, and evicted.
LEMMA SubmissionsStay ==
  ASSUME GapScanInv, [GapScanNext]_gapScanVars, NEW s \in Scan, scans[s].pc # "idle"
  PROVE  /\ scans'[s].pc # "idle" /\ scans'[s].session = scans[s].session
         /\ scans'[s].by = scans[s].by /\ scans'[s].at = scans[s].at
         /\ scans[s].evicted => scans'[s].evicted
  <1>1. /\ scans \in [Scan -> ScanRecord] /\ scans[s] \in ScanRecord
    BY InvIsKept
  <1>2. ASSUME NEW t \in Scan, SubmitToSite(t) PROVE s # t /\ scans'[s] \in {scans[s], [scans[s] EXCEPT !.evicted = TRUE]}
    BY <1>1, <1>2 DEF SubmitToSite, Evict
  <1>3. ASSUME NEW t \in Scan, SubmitToBff(t) PROVE scans'[s] = scans[s]
    BY <1>1, <1>3 DEF SubmitToBff
  <1>4. ASSUME NEW t \in Scan, InsertRow(t) \/ InsertFails(t)
        PROVE  scans'[s] = scans[s] \/ \E pc \in {"answered", "error"} : scans'[s] = [scans[s] EXCEPT !.pc = pc]
    BY <1>1, <1>4 DEF InsertRow, InsertFails, OnError
  <1>5. ASSUME NEW w \in Site, RestartSite(w)
        PROVE  \E e \in {scans[s], [scans[s] EXCEPT !.evicted = TRUE]}, pc \in {"gone", scans[s].pc} :
                 scans'[s] = [e EXCEPT !.pc = pc]
    <2>1. Evict(ToSet(caches[w]))[s] \in {scans[s], [scans[s] EXCEPT !.evicted = TRUE]}
      BY DEF Evict
    <2>2. Evict(ToSet(caches[w]))[s].pc = scans[s].pc
      BY <1>1, <2>1 DEF ScanRecord
    <2> QED BY <1>5, <2>1, <2>2 DEF RestartSite
  <1>6. CASE scans'[s] = scans[s]
    BY <1>6
  <1>7. CASE scans'[s] # scans[s]
    <2>1. \/ \E t \in Scan : SubmitToSite(t) \/ SubmitToBff(t) \/ InsertRow(t) \/ InsertFails(t)
          \/ \E w \in Site : RestartSite(w)
      BY <1>7 DEF GapScanNext, gapScanVars, Look, ReadRow, ReadCache
    <2>2. \E e \in {scans[s], [scans[s] EXCEPT !.evicted = TRUE]},
             pc \in {"gone", "answered", "error", scans[s].pc} : scans'[s] \in {e, [e EXCEPT !.pc = pc]}
      BY <1>2, <1>3, <1>4, <1>5, <2>1
    <2> QED BY <1>1, <2>2 DEF ScanRecord
  <1> QED BY <1>6, <1>7

\* What is not found in the process it was submitted to was not kept there.
Lost(r) ==
  \/ scans[r.scan].by = "bff" \/ r.at # scans[r.scan].at
  \/ scans[r.scan].evicted
  \/ r.access \notin {NoCookie, scans[r.scan].session}

\* What the invariant says of one request for a report.
ViewGood(v) ==
  /\ views[v] \in ViewRecord
  /\ views[v].pc # "idle" => scans[views[v].scan].pc # "idle"
  /\ views[v].pc = "not_found" => Lost(views[v])

\* A read that ends with no report: of a row without one, or past the cache.
NotShown(v) ==
  LET s == views[v].scan IN
  \/ rows[s] \notin {"none", "site"}
  \/ s \notin ToSet(caches[views[v].at])
  \/ ~ Admitted(v, s)

LEMMA ViewsGood ==
  ASSUME GapScanInv, [GapScanNext]_gapScanVars
  PROVE  views' \in [View -> ViewRecord] /\ \A v \in View : ViewGood(v)'
  <1>1. views \in [View -> ViewRecord] /\ \A v \in View : ViewGood(v)
    BY DEF GapScanInv, GapScanTypeOK, ViewsOfSubmissions, OwnReportIsFound, ViewGood, Lost
  <1>2. ASSUME NEW v \in View, views'[v] = views[v] PROVE ViewGood(v)'
    <2>1. views[v].scan \in Scan  BY <1>1 DEF ViewRecord
    <2>2. CASE views[v].pc = "idle"
      BY <1>1, <1>2, <2>2 DEF ViewGood
    <2>3. CASE views[v].pc # "idle"
      <3>1. scans[views[v].scan].pc # "idle"  BY <1>1, <2>3 DEF ViewGood
      <3>2. Lost(views[v]) => Lost(views[v])'
        BY <1>2, <2>1, <3>1, SubmissionsStay DEF Lost
      <3>3. scans'[views[v].scan].pc # "idle"  BY <2>1, <3>1, SubmissionsStay
      <3> QED BY <1>1, <1>2, <3>2, <3>3 DEF ViewGood
    <2> QED BY <2>2, <2>3
  <1>3. ASSUME NEW v \in View, NEW r \in ViewRecord, views' = [views EXCEPT ![v] = r],
               UNCHANGED scans, scans[r.scan].pc # "idle",
               r.pc = "not_found" => Lost(r)
        PROVE  views' \in [View -> ViewRecord] /\ \A u \in View : ViewGood(u)'
    <2>1. views' \in [View -> ViewRecord] /\ views'[v] = r /\ \A u \in View : u # v => views'[u] = views[u]
      BY <1>1, <1>3
    <2>2. ViewGood(v)'  BY <1>3, <2>1 DEF ViewGood, Lost
    <2> QED BY <1>2, <2>1, <2>2
  <1>4. ASSUME NEW v \in View, Look(v)
        PROVE  views' \in [View -> ViewRecord] /\ \A u \in View : ViewGood(u)'
    <2>1. PICK s \in Scan, h \in Session \union {NoCookie}, w \in Site :
            /\ scans[s].pc # "idle"
            /\ views' = [views EXCEPT ![v] = [pc |-> "row", scan |-> s, access |-> h, at |-> w]]
      BY <1>4 DEF Look
    <2>2. [pc |-> "row", scan |-> s, access |-> h, at |-> w] \in ViewRecord
      BY DEF ViewRecord
    <2>3. UNCHANGED scans  BY <1>4 DEF Look
    <2> QED BY <1>3, <2>1, <2>2, <2>3
  <1>5. ASSUME NEW v \in View, ReadRow(v) \/ ReadCache(v)
        PROVE  views' \in [View -> ViewRecord] /\ \A u \in View : ViewGood(u)'
    <2>1. PICK pc \in {"shown", "not_found", "cache"} :
            /\ pc = "not_found" => NotShown(v)
            /\ views' = [views EXCEPT ![v].pc = pc]
      <3>1. CASE ReadRow(v)
        BY <3>1 DEF ReadRow, NotShown
      <3>2. CASE ReadCache(v)
        BY <3>2 DEF ReadCache, NotShown
      <3> QED BY <1>5, <3>1, <3>2
    <2>2. PICK r : r = [views[v] EXCEPT !.pc = pc]  OBVIOUS
    <2>3. views[v] \in ViewRecord /\ views[v].pc # "idle" /\ UNCHANGED scans
      BY <1>1, <1>5 DEF ReadRow, ReadCache
    <2>4. /\ r \in ViewRecord /\ r.pc = pc /\ r.scan = views[v].scan
          /\ r.access = views[v].access /\ r.at = views[v].at
      BY <2>2, <2>3 DEF ViewRecord
    <2>5. scans[r.scan].pc # "idle"
      BY <1>1, <2>3, <2>4 DEF ViewGood
    <2>6. r.pc = "not_found" => Lost(r)
      <3>1. Kept(r.scan) /\ scans[r.scan] \in ScanRecord
        BY <2>4, InvIsKept DEF ViewRecord
      <3> QED BY <2>1, <2>4, <2>5, <3>1 DEF NotShown, Admitted, Kept, Lost, InItsCache, ScanRecord, Owners
    <2>7. views' = [views EXCEPT ![v] = r]
      BY <2>1, <2>2
    <2> QED BY <1>3, <2>3, <2>4, <2>5, <2>6, <2>7
  <1>6. CASE UNCHANGED views
    BY <1>1, <1>2, <1>6
  <1> QED BY <1>4, <1>5, <1>6 DEF GapScanNext, gapScanVars, SubmitToSite, SubmitToBff, InsertRow,
                                  InsertFails, RestartSite

\* Every step keeps the invariant.
LEMMA GapScanStep == GapScanInv /\ [GapScanNext]_gapScanVars => GapScanInv'
  <1> SUFFICES ASSUME GapScanInv, [GapScanNext]_gapScanVars PROVE GapScanInv'  OBVIOUS
  <1>1. GapScanTypeOK'
    BY EachKept, ViewsGood DEF GapScanTypeOK
  <1>2. CachedFirst' /\ AnsweredIsKept'
    BY EachKept DEF Kept, CachedFirst, AnsweredIsKept, InItsCache
  <1>3. ViewsOfSubmissions' /\ OwnReportIsFound'
    BY ViewsGood DEF ViewGood, Lost, ViewsOfSubmissions, OwnReportIsFound
  <1> QED BY <1>1, <1>2, <1>3 DEF GapScanInv

\* The inductive invariant of the gap scan.
THEOREM GapScanInvariant == GapScanSpec => []GapScanInv
  BY GapScanInitial, GapScanStep, PTL DEF GapScanSpec

\* For any submissions, processes and size of the cache: a visitor who asks the
\* process that has the submission in its cache gets the report
\* (getGapScanReport).
THEOREM OwnReportsAreFound == GapScanSpec => []OwnReportIsFound
  <1>1. GapScanInv => OwnReportIsFound  BY DEF GapScanInv
  <1> QED BY <1>1, GapScanInvariant, PTL

\* For any submissions, processes and size of the cache: what was answered has
\* its row or is in the cache it was put in, until it is evicted.
THEOREM AnswersAreKept == GapScanSpec => []AnsweredIsKept
  <1>1. GapScanInv => AnsweredIsKept  BY DEF GapScanInv
  <1> QED BY <1>1, GapScanInvariant, PTL

-----------------------------------------------------------------------------
(* Who belongs to an organization *)

USE DEF Stage, Who, Where

Leading(e) ==
  e \in members \/
    \E v \in Visit : visits[v].kind = "onboard" /\ <<Who(v), Where(v)>> = e /\ ~ visits[v].linked

LEMMA MembershipInitial == MembershipInit => MembershipInv
  <1> SUFFICES ASSUME MembershipInit PROVE MembershipInv  OBVIOUS
  <1>1. MembershipTypeOK
    BY MembershipAssumption DEF MembershipInit, MembershipTypeOK, VisitRecord, VisitKinds, VisitPCs
  <1>2. ASSUME NEW v \in Visit PROVE VisitGood(v)
    BY MembershipAssumption DEF MembershipInit, VisitGood
  <1>3. MembershipJustified
    BY MembershipAssumption DEF MembershipInit, MembershipJustified, Oldest
  <1>4. LeadsBelong
    BY DEF MembershipInit, LeadsBelong
  <1> QED BY <1>1, <1>2, <1>3, <1>4 DEF MembershipInv

-----------------------------------------------------------------------------
(* What a step keeps *)

\* Nobody leaves, no engagement or tenant goes, and the first tenants stay first.
LEMMA NothingGoes ==
  ASSUME MembershipInv, [MembershipNext]_membershipVars
  PROVE  /\ members \subseteq members' /\ engagements \subseteq engagements'
         /\ tenants' \in {tenants, tenants + 1} /\ seeded' = seeded
         /\ Oldest \subseteq Oldest'
  <1>1. /\ members \subseteq members' /\ engagements \subseteq engagements'
        /\ tenants' \in {tenants, tenants + 1} /\ seeded' = seeded
    BY DEF MembershipNext, membershipVars, CreateTenant, LinkOwner, InitialEngagement, Engage, EnterTenant,
           SignIn, LookUpMembership, FindDefault, JoinDefault, Start, Proceed, Join, Lead
  <1>2. tenants \in Nat  BY DEF MembershipInv, MembershipTypeOK
  <1> QED BY <1>1, <1>2 DEF Oldest

\* The types of what a request holds, and that it keeps the user it is of.
LEMMA VisitsTyped ==
  ASSUME MembershipInv, [MembershipNext]_membershipVars
  PROVE  visits' \in [Visit -> VisitRecord]
  <1>1. visits \in [Visit -> VisitRecord] /\ tenants \in Nat
    BY DEF MembershipInv, MembershipTypeOK
  <1>2. ASSUME NEW v \in Visit, CreateTenant(v) PROVE visits' \in [Visit -> VisitRecord]
    <2>1. PICK p \in Person, pc \in VisitPCs, t \in Nat :
            visits' = [visits EXCEPT ![v] =
              [pc |-> pc, kind |-> "onboard", who |-> p, tenant |-> t, linked |-> FALSE]]
      <3>1. PICK p \in Person, created, told \in BOOLEAN : visits' = [visits EXCEPT ![v] =
              [ pc |-> IF told THEN "link" ELSE "done", kind |-> "onboard", who |-> p,
                tenant |-> IF created THEN tenants + 1 ELSE 0, linked |-> FALSE ]]
        BY <1>2 DEF CreateTenant
      <3>2. (IF told THEN "link" ELSE "done") \in VisitPCs /\ (IF created THEN tenants + 1 ELSE 0) \in Nat
        BY <1>1 DEF VisitPCs
      <3> QED BY <3>1, <3>2
    <2> QED BY <1>1, <2>1 DEF VisitRecord, VisitKinds
  <1>3. ASSUME NEW v \in Visit, NEW pc \in VisitPCs, Proceed(v, pc) PROVE visits' \in [Visit -> VisitRecord]
    <2>1. visits'= [visits EXCEPT ![v] = [visits[v] EXCEPT !.pc = pc]]  BY <1>1, <1>3 DEF Proceed
    <2>2. [visits[v] EXCEPT !.pc = pc] \in VisitRecord  BY <1>1 DEF VisitRecord
    <2> QED BY <1>1, <2>1, <2>2
  <1>4. ASSUME NEW v \in Visit, LinkOwner(v) PROVE visits' \in [Visit -> VisitRecord]
    <2>1. PICK ok \in BOOLEAN : visits' = [visits EXCEPT ![v] = [@ EXCEPT !.pc = "initial", !.linked = ok]]
      BY <1>4 DEF LinkOwner
    <2>2. [visits[v] EXCEPT !.pc = "initial", !.linked = ok] \in VisitRecord
      BY <1>1 DEF VisitRecord, VisitPCs
    <2> QED BY <1>1, <2>1, <2>2
  <1>5. ASSUME NEW v \in Visit, NEW pc \in VisitPCs, NEW kind \in VisitKinds, Start(v, kind, pc)
        PROVE visits' \in [Visit -> VisitRecord]
    <2>1. PICK p \in Person : visits' = [visits EXCEPT ![v] = [@ EXCEPT !.pc = pc, !.kind = kind, !.who = p]]
      BY <1>5 DEF Start
    <2>2. [visits[v] EXCEPT !.pc = pc, !.kind = kind, !.who = p] \in VisitRecord
      BY <1>1 DEF VisitRecord
    <2> QED BY <1>1, <2>1, <2>2
  <1>6. ASSUME NEW v \in Visit, NEW pc \in VisitPCs, NEW t \in Nat,
               visits' = [visits EXCEPT ![v] = [@ EXCEPT !.pc = pc, !.tenant = t]]
        PROVE visits' \in [Visit -> VisitRecord]
    <2>1. [visits[v] EXCEPT !.pc = pc, !.tenant = t] \in VisitRecord
      BY <1>1 DEF VisitRecord
    <2> QED BY <1>1, <1>6, <2>1
  <1>7. ASSUME NEW v \in Visit, EnterTenant(v) \/ FindDefault(v) PROVE visits' \in [Visit -> VisitRecord]
    <2>1. MemberOf(v) \subseteq Nat /\ DefaultTenants \subseteq Nat
      BY <1>1 DEF MemberOf, DefaultTenants, Oldest
    <2> QED BY <1>3, <1>6, <1>7, <2>1 DEF EnterTenant, FindDefault, VisitPCs
  <1>8. ASSUME NEW v \in Visit, InitialEngagement(v) \/ LookUpMembership(v) \/ JoinDefault(v)
        PROVE visits' \in [Visit -> VisitRecord]
    BY <1>3, <1>8 DEF InitialEngagement, LookUpMembership, JoinDefault, VisitPCs
  <1>9. ASSUME NEW v \in Visit, Engage(v) \/ SignIn(v) PROVE visits' \in [Visit -> VisitRecord]
    BY <1>5, <1>9 DEF Engage, SignIn, VisitPCs, VisitKinds
  <1> QED BY <1>1, <1>2, <1>4, <1>7, <1>8, <1>9 DEF MembershipNext, membershipVars

\* An onboarding keeps its owner and tenant, and a link that was made.
LEMMA OnboardingsStay ==
  ASSUME MembershipInv, [MembershipNext]_membershipVars, NEW v \in Visit, visits[v].kind = "onboard"
  PROVE  /\ visits'[v].kind = "onboard" /\ Who(v)' = Who(v) /\ Where(v)' = Where(v)
         /\ visits[v].linked => visits'[v].linked
  <1>1. visits \in [Visit -> VisitRecord] /\ VisitGood(v)
    BY DEF MembershipInv, MembershipTypeOK
  <1>2. Stage(v) \notin {"idle", "engage", "lookup", "default", "join"}
    BY <1>1 DEF VisitGood
  <1>3. visits[v] \in VisitRecord  BY <1>1
  <1>4. CASE LinkOwner(v)
    BY <1>1, <1>3, <1>4 DEF LinkOwner, VisitGood, VisitRecord
  <1>5. CASE InitialEngagement(v)
    BY <1>1, <1>3, <1>5 DEF InitialEngagement, Proceed, VisitRecord
  <1>6. CASE ~ LinkOwner(v) /\ ~ InitialEngagement(v)
    <2>1. visits'[v] = visits[v]
      BY <1>1, <1>2, <1>6 DEF MembershipNext, membershipVars, CreateTenant, LinkOwner, InitialEngagement, Engage,
           EnterTenant, SignIn, LookUpMembership, FindDefault, JoinDefault, Start, Proceed
    <2> QED BY <2>1
  <1> QED BY <1>4, <1>5, <1>6

-----------------------------------------------------------------------------
(* Requests, members and engagements *)

\* A request that takes no step stays good.
LEMMA OthersStayGood ==
  ASSUME MembershipInv, [MembershipNext]_membershipVars, NEW v \in Visit, visits'[v] = visits[v]
  PROVE  VisitGood(v)'
  <1>1. VisitGood(v) /\ visits[v] \in VisitRecord /\ tenants \in Nat
    BY DEF MembershipInv, MembershipTypeOK
  <1>2. Where(v) \in Nat  BY <1>1 DEF VisitRecord
  <1> QED BY <1>1, <1>2, NothingGoes DEF VisitGood

\* A step is a step of one request.
VisitStep(v) ==
  \/ CreateTenant(v) \/ LinkOwner(v) \/ InitialEngagement(v)
  \/ Engage(v) \/ EnterTenant(v)
  \/ SignIn(v) \/ LookUpMembership(v) \/ FindDefault(v) \/ JoinDefault(v)

LEMMA OneMoves ==
  ASSUME MembershipInv, [MembershipNext]_membershipVars, NEW v \in Visit, visits'[v] # visits[v]
  PROVE  VisitStep(v)
  <1>1. visits \in [Visit -> VisitRecord]  BY DEF MembershipInv, MembershipTypeOK
  <1>2. ASSUME NEW w \in Visit, w # v, NEW r, visits' = [visits EXCEPT ![w] = r] PROVE FALSE
    BY <1>1, <1>2
  <1>3. ASSUME NEW w \in Visit, w # v, CreateTenant(w) PROVE FALSE
    BY <1>2, <1>3 DEF CreateTenant
  <1>4. ASSUME NEW w \in Visit, w # v, LinkOwner(w) PROVE FALSE
    BY <1>2, <1>4 DEF LinkOwner
  <1>5. ASSUME NEW w \in Visit, w # v, Engage(w) \/ SignIn(w) PROVE FALSE
    BY <1>2, <1>5 DEF Engage, SignIn, Start
  <1>6. ASSUME NEW w \in Visit, w # v, NEW pc, Proceed(w, pc) PROVE FALSE
    BY <1>1, <1>6 DEF Proceed
  <1>7. ASSUME NEW w \in Visit, w # v, EnterTenant(w) \/ FindDefault(w) PROVE FALSE
    BY <1>2, <1>6, <1>7 DEF EnterTenant, FindDefault
  <1>8. ASSUME NEW w \in Visit, w # v, InitialEngagement(w) \/ LookUpMembership(w) \/ JoinDefault(w)
        PROVE FALSE
    BY <1>6, <1>8 DEF InitialEngagement, LookUpMembership, JoinDefault
  <1> QED BY <1>3, <1>4, <1>5, <1>7, <1>8 DEF MembershipNext, membershipVars, VisitStep

LEMMA CreateTenantGood ==
  ASSUME MembershipInv, NEW v \in Visit, CreateTenant(v)
  PROVE  VisitGood(v)'
  <1>1. visits \in [Visit -> VisitRecord] /\ tenants \in Nat
    BY DEF MembershipInv, MembershipTypeOK
  <1>2. PICK p \in Person, created, told \in BOOLEAN :
          /\ told => created
          /\ tenants' = IF created THEN tenants + 1 ELSE tenants
          /\ visits'[v] = [ pc |-> IF told THEN "link" ELSE "done", kind |-> "onboard", who |-> p,
                            tenant |-> IF created THEN tenants + 1 ELSE 0, linked |-> FALSE ]
    BY <1>1 DEF CreateTenant
  <1> QED BY <1>1, <1>2 DEF VisitGood

LEMMA LinkOwnerGood ==
  ASSUME MembershipInv, NEW v \in Visit, LinkOwner(v)
  PROVE  VisitGood(v)'
  <1>1. visits \in [Visit -> VisitRecord] /\ VisitGood(v) /\ visits[v] \in VisitRecord
    BY DEF MembershipInv, MembershipTypeOK
  <1>2. PICK ok \in BOOLEAN : visits'[v] = [visits[v] EXCEPT !.pc = "initial", !.linked = ok]
    BY <1>1 DEF LinkOwner
  <1> QED BY <1>1, <1>2 DEF VisitGood, VisitRecord, LinkOwner

\* The steps that change only the stage.
LEMMA ProceedGood ==
  ASSUME MembershipInv, [MembershipNext]_membershipVars, NEW v \in Visit,
         Stage(v) # "idle", NEW pc, Proceed(v, pc), pc = "done" \/ (pc = "default" /\ Stage(v) = "lookup")
  PROVE  VisitGood(v)'
  <1>1. visits \in [Visit -> VisitRecord] /\ VisitGood(v) /\ visits[v] \in VisitRecord /\ tenants \in Nat
    BY DEF MembershipInv, MembershipTypeOK
  <1>2. visits'[v] = [visits[v] EXCEPT !.pc = pc]
    BY <1>1 DEF Proceed
  <1>3. Where(v) \in Nat  BY <1>1 DEF VisitRecord
  <1> QED BY <1>1, <1>2, <1>3, NothingGoes DEF VisitGood, VisitRecord

LEMMA StartGood ==
  ASSUME MembershipInv, NEW v \in Visit, Engage(v) \/ SignIn(v)
  PROVE  VisitGood(v)'
  <1>1. visits \in [Visit -> VisitRecord] /\ VisitGood(v) /\ visits[v] \in VisitRecord
    BY DEF MembershipInv, MembershipTypeOK
  <1>2. PICK kind \in VisitKinds, pc \in VisitPCs, p \in Person :
          /\ <<kind, pc>> \in {<<"engage", "engage">>, <<"login", "lookup">>} /\ UNCHANGED tenants
          /\ visits[v].pc = "idle"
          /\ visits' = [visits EXCEPT ![v] = [@ EXCEPT !.pc = pc, !.kind = kind, !.who = p]]
    <2>1. CASE Engage(v)
      BY <2>1 DEF Engage, Start, VisitKinds, VisitPCs
    <2>2. CASE SignIn(v)
      BY <2>2 DEF SignIn, Start, VisitKinds, VisitPCs
    <2> QED BY <2>1, <2>2
  <1>3. visits'[v] = [visits[v] EXCEPT !.pc = pc, !.kind = kind, !.who = p]
    BY <1>1, <1>2
  <1>4. /\ visits'[v].pc = pc /\ visits'[v].kind = kind /\ visits'[v].tenant = visits[v].tenant
        /\ visits'[v].linked = visits[v].linked
    BY <1>1, <1>3 DEF VisitRecord
  <1> QED BY <1>1, <1>2, <1>4 DEF VisitGood

\* The steps that choose a tenant.
LEMMA ChooseGood ==
  ASSUME MembershipInv, [MembershipNext]_membershipVars, NEW v \in Visit, EnterTenant(v) \/ FindDefault(v)
  PROVE  VisitGood(v)'
  <1>1. visits \in [Visit -> VisitRecord] /\ VisitGood(v) /\ visits[v] \in VisitRecord /\ tenants \in Nat
        /\ UNCHANGED <<seeded, tenants, members>>
    BY DEF MembershipInv, MembershipTypeOK, EnterTenant, FindDefault
  <1>2. CASE Proceed(v, "done")
    BY <1>2, ProceedGood DEF EnterTenant, FindDefault
  <1>3. CASE EnterTenant(v) /\ ~ Proceed(v, "done")
    <2>1. PICK t \in MemberOf(v) : visits'[v] = [visits[v] EXCEPT !.pc = "initial", !.tenant = t]
      BY <1>1, <1>3 DEF EnterTenant
    <2>2. t \in 1..tenants /\ <<Who(v), t>> \in members /\ visits[v].kind = "engage"
      BY <1>1, <1>3 DEF MemberOf, VisitGood, EnterTenant
    <2> QED BY <1>1, <2>1, <2>2 DEF VisitGood, VisitRecord
  <1>4. CASE FindDefault(v) /\ ~ Proceed(v, "done")
    <2>1. PICK t \in Oldest : visits'[v] = [visits[v] EXCEPT !.pc = "join", !.tenant = t]
      BY <1>1, <1>4 DEF FindDefault, DefaultTenants
    <2>2. t \in 1..tenants /\ visits[v].kind = "login" /\ t \in Oldest'
      BY <1>1, <1>4 DEF Oldest, VisitGood, FindDefault
    <2> QED BY <1>1, <2>1, <2>2 DEF VisitGood, VisitRecord
  <1> QED BY <1>2, <1>3, <1>4

LEMMA VisitsGood ==
  ASSUME MembershipInv, [MembershipNext]_membershipVars, NEW v \in Visit
  PROVE  VisitGood(v)'
  <1>1. CASE visits'[v] = visits[v]
    BY <1>1, OthersStayGood
  <1>2. CASE visits'[v] # visits[v]
    <2>1. \/ CreateTenant(v) \/ LinkOwner(v) \/ InitialEngagement(v)
          \/ Engage(v) \/ EnterTenant(v)
          \/ SignIn(v) \/ LookUpMembership(v) \/ FindDefault(v) \/ JoinDefault(v)
      BY <1>2, OneMoves DEF VisitStep
    <2>2. CASE InitialEngagement(v) \/ LookUpMembership(v) \/ JoinDefault(v)
      BY <2>2, ProceedGood DEF InitialEngagement, LookUpMembership, JoinDefault
    <2> QED BY <2>1, <2>2, CreateTenantGood, LinkOwnerGood, StartGood, ChooseGood
  <1> QED BY <1>1, <1>2

\* Who joins a tenant onboarded it, or joins an old one.
LEMMA JoinersAreJustified ==
  ASSUME MembershipInv, [MembershipNext]_membershipVars
  PROVE  MembershipJustified'
  <1> SUFFICES ASSUME NEW m \in members' PROVE m[2] \in Oldest' \/ Onboarded(m[1], m[2])'
    BY DEF MembershipJustified
  <1>1. ASSUME m[2] \in Oldest \/ Onboarded(m[1], m[2])
        PROVE  m[2] \in Oldest' \/ Onboarded(m[1], m[2])'
    <2>1. CASE m[2] \in Oldest
      BY <2>1, NothingGoes
    <2>2. CASE Onboarded(m[1], m[2])
      <3>1. PICK v \in Visit : visits[v].kind = "onboard" /\ Who(v) = m[1] /\ Where(v) = m[2]
        BY <2>2 DEF Onboarded
      <3>2. visits'[v].kind = "onboard" /\ Who(v)' = m[1] /\ Where(v)' = m[2]
        BY <3>1, OnboardingsStay
      <3> QED BY <3>2 DEF Onboarded
    <2> QED BY <1>1, <2>1, <2>2
  <1>2. CASE m \in members
    BY <1>1, <1>2 DEF MembershipInv, MembershipJustified
  <1>3. CASE m \notin members
    <2>1. PICK v \in Visit : m = <<Who(v), Where(v)>> /\ Stage(v) \in {"link", "join"}
      BY <1>3 DEF MembershipNext, membershipVars, CreateTenant, LinkOwner, InitialEngagement, Engage,
           EnterTenant, SignIn, LookUpMembership, FindDefault, JoinDefault, Start, Proceed, Join, Lead
    <2>2. VisitGood(v)  BY DEF MembershipInv
    <2>3. m[1] = Who(v) /\ m[2] = Where(v)  BY <2>1
    <2> QED BY <1>1, <2>1, <2>2, <2>3 DEF VisitGood, Onboarded
  <1> QED BY <1>2, <1>3

LEMMA LeadsStayMembers ==
  ASSUME MembershipInv, [MembershipNext]_membershipVars
  PROVE  LeadsBelong'
  <1>0. /\ \A e \in engagements : Leading(e)
        /\ \A v \in Visit : visits[v].linked => <<Who(v), Where(v)>> \in members
        /\ visits \in [Visit -> VisitRecord] /\ \A v \in Visit : VisitGood(v)
    BY DEF MembershipInv, MembershipTypeOK, LeadsBelong, Leading
  <1>1. ASSUME NEW v \in Visit, visits'[v].linked PROVE <<Who(v), Where(v)>>' \in members'
    <2>1. CASE visits[v].linked
      BY <1>0, <2>1, NothingGoes, OnboardingsStay DEF VisitGood
    <2>2. CASE ~ visits[v].linked
      <3>0. visits[v] \in VisitRecord  BY <1>0
      <3>1. LinkOwner(v)
        <4>1. visits'[v] # visits[v]  BY <1>1, <2>2
        <4>2. VisitStep(v)  BY <4>1, OneMoves
        <4>3. CASE Engage(v) \/ SignIn(v)
          <5>1. PICK kind \in VisitKinds, pc \in VisitPCs, p \in Person :
                  visits' = [visits EXCEPT ![v] = [@ EXCEPT !.pc = pc, !.kind = kind, !.who = p]]
            BY <4>3 DEF Engage, SignIn, Start, VisitKinds, VisitPCs
          <5> QED BY <1>0, <1>1, <2>2, <3>0, <5>1 DEF VisitRecord
        <4>4. CASE EnterTenant(v) \/ FindDefault(v)
          BY <1>0, <1>1, <2>2, <3>0, <4>4 DEF EnterTenant, FindDefault, Proceed, VisitRecord
        <4>5. CASE InitialEngagement(v) \/ LookUpMembership(v) \/ JoinDefault(v)
          BY <1>0, <1>1, <2>2, <3>0, <4>5 DEF InitialEngagement, LookUpMembership, JoinDefault, Proceed, VisitRecord
        <4>6. CASE CreateTenant(v)
          BY <1>0, <1>1, <4>6 DEF CreateTenant
        <4> QED BY <4>2, <4>3, <4>4, <4>5, <4>6 DEF VisitStep
      <3>2. PICK ok \in BOOLEAN :
              /\ Join(v) \/ (~ ok /\ UNCHANGED members)
              /\ visits'[v] = [visits[v] EXCEPT !.pc = "initial", !.linked = ok]
        BY <1>0, <3>1 DEF LinkOwner
      <3>3. Join(v) /\ Who(v)' = Who(v) /\ Where(v)' = Where(v)
        BY <1>1, <3>0, <3>2 DEF VisitRecord
      <3> QED BY <3>3 DEF Join
    <2> QED BY <2>1, <2>2
  <1>2. ASSUME NEW e \in engagements', e \in members PROVE Leading(e)'
    BY <1>2, NothingGoes DEF Leading
  <1>3. ASSUME NEW e \in engagements', NEW v \in Visit, visits[v].kind = "onboard",
               <<Who(v), Where(v)>> = e, e \notin members
        PROVE  Leading(e)'
    <2>1. visits'[v].kind = "onboard" /\ <<Who(v), Where(v)>>' = e
      BY <1>3, OnboardingsStay
    <2>2. CASE visits'[v].linked
      BY <1>1, <2>1, <2>2 DEF Leading
    <2>3. CASE ~ visits'[v].linked
      BY <2>1, <2>3 DEF Leading
    <2> QED BY <2>2, <2>3
  <1>4. ASSUME NEW e \in engagements' PROVE Leading(e)'
    <2>1. CASE e \in engagements
      BY <1>0, <1>2, <1>3, <2>1 DEF Leading
    <2>2. CASE e \notin engagements
      <3>1. PICK v \in Visit : e = <<Who(v), Where(v)>> /\ Stage(v) = "initial"
        BY <2>2 DEF MembershipNext, membershipVars, CreateTenant, LinkOwner, InitialEngagement, Engage,
           EnterTenant, SignIn, LookUpMembership, FindDefault, JoinDefault, Start, Proceed, Join, Lead
      <3>2. e \in members \/ visits[v].kind = "onboard"
        BY <1>0, <3>1 DEF VisitGood
      <3> QED BY <1>2, <1>3, <3>1, <3>2
    <2> QED BY <2>1, <2>2
  <1> QED BY <1>1, <1>4 DEF LeadsBelong, Leading

LEMMA MembershipTyped ==
  ASSUME MembershipInv, [MembershipNext]_membershipVars
  PROVE  MembershipTypeOK'
  <1>1. MembershipTypeOK /\ \A v \in Visit : VisitGood(v) /\ visits[v] \in VisitRecord
    BY DEF MembershipInv, MembershipTypeOK
  <1>2. seeded' \in {0, SeededTenants} /\ tenants' \in Nat /\ seeded' <= tenants'
    BY <1>1, NothingGoes, MembershipAssumption DEF MembershipTypeOK
  <1>3. ASSUME NEW v \in Visit, Stage(v) \in {"link", "initial", "join"}
        PROVE  <<Who(v), Where(v)>> \in Person \X (1..tenants)
    BY <1>1, <1>3 DEF VisitGood, VisitRecord, MembershipTypeOK
  <1>4. Person \X (1..tenants) \subseteq Person \X (1..tenants')
    <2>1. 1..tenants \subseteq 1..tenants'
      BY <1>1, NothingGoes DEF MembershipTypeOK
    <2> QED BY <2>1
  <1>5. members' \subseteq Person \X (1..tenants)
    BY <1>1, <1>3 DEF MembershipTypeOK, MembershipNext, membershipVars, CreateTenant, LinkOwner,
       InitialEngagement, Engage, EnterTenant, SignIn, LookUpMembership, FindDefault, JoinDefault, Start, Join
  <1>6. engagements' \subseteq Person \X (1..tenants)
    BY <1>1, <1>3 DEF MembershipTypeOK, MembershipNext, membershipVars, CreateTenant, LinkOwner,
       InitialEngagement, Engage, EnterTenant, SignIn, LookUpMembership, FindDefault, JoinDefault, Start, Lead
  <1> QED BY <1>2, <1>4, <1>5, <1>6, VisitsTyped DEF MembershipTypeOK

\* Every step keeps the invariant.
LEMMA MembershipStep == MembershipInv /\ [MembershipNext]_membershipVars => MembershipInv'
  BY MembershipTyped, VisitsGood, JoinersAreJustified, LeadsStayMembers DEF MembershipInv

\* The inductive invariant of membership.
THEOREM MembershipInvariant == MembershipSpec => []MembershipInv
  BY MembershipInitial, MembershipStep, PTL DEF MembershipSpec

\* For any people and any number of requests: a member onboarded the tenant, or
\* the tenant is the default one.
THEOREM MembersAreJustified == MembershipSpec => []MembershipJustified
  <1>1. MembershipInv => MembershipJustified  BY DEF MembershipInv
  <1> QED BY <1>1, MembershipInvariant, PTL

\* For any people and any number of requests: the lead of an engagement belongs
\* to its tenant, or is the owner the onboarding failed to link.
THEOREM LeadReviewersBelong == MembershipSpec => []LeadsBelong
  <1>1. MembershipInv => LeadsBelong  BY DEF MembershipInv
  <1> QED BY <1>1, MembershipInvariant, PTL

HIDE DEF Stage, Who, Where

-----------------------------------------------------------------------------
(* The model gateway *)

USE DEF Hosted, Pieces, Recognised, Settings, CompleteRequest



\* Initially nothing was shown to anyone.
LEMMA GatewayInitial == GatewayInit => GatewayInv
  <1> SUFFICES ASSUME GatewayInit PROVE GatewayInv  OBVIOUS
  <1>1. NewCompletion \in CompletionRecord
    BY DeploymentsAssumption DEF NewCompletion, CompletionRecord, GatewayPCs
  <1>2. ASSUME NEW c \in Completion PROVE CompletionGood(c)
    BY <1>1 DEF GatewayInit, CompletionGood, NewCompletion
  <1>3. NoNeedlessEgress
    BY DEF GatewayInit, NoNeedlessEgress, NewCompletion, Ahead
  <1> QED BY <1>2, <1>3 DEF GatewayInit, GatewayInv

\* A step that leaves the settings alone and changes one call keeps the
\* invariant if that call stays good and shows its text to nobody needlessly.
EgressOf(c) ==
  LET shown == completions[c].shown
      by == completions[c].by
  IN /\ shown \subseteq settings.keys
     /\ \A p \in shown : Ahead(c, p) \subseteq shown
     /\ by \in Hosted => by \in shown /\ shown \ {by} \subseteq Ahead(c, by)
     /\ by = "stub" => shown = settings.keys

Good(c) == CompletionGood(c) /\ EgressOf(c)

LEMMA InvIsGood ==
  GatewayInv <=> /\ settings \in Deployments
                 /\ DOMAIN completions = Completion
                 /\ \A c \in Completion : Good(c)
  BY DEF GatewayInv, NoNeedlessEgress, Good, EgressOf

LEMMA GoodIsInv ==
  ASSUME (settings \in Deployments)', (DOMAIN completions = Completion)',
         \A d \in Completion : Good(d)'
  PROVE  GatewayInv'
  BY DEF GatewayInv, NoNeedlessEgress, Good, EgressOf

\* What Good says of a call depends on the call and the settings only.
LEMMA OtherCallsStayGood ==
  ASSUME NEW c \in Completion, Good(c), UNCHANGED settings, completions'[c] = completions[c]
  PROVE  Good(c)'
  BY DEF Good, CompletionGood, EgressOf, Ahead, FallbackChain, Composed, Redacts, Provider, Claude

\* The routing of a request depends on the settings only.
LEMMA RoutingFixed ==
  ASSUME UNCHANGED settings, NEW q
  PROVE  /\ Composed(q)' = Composed(q)
         /\ Redacts(q)' = Redacts(q)
  BY DEF Composed, Redacts, Provider, Claude

LEMMA CompleteGood ==
  ASSUME NEW c \in Completion, GatewayInv, Complete(c)
  PROVE  Good(c)'
  <1>1. Good(c) /\ DOMAIN completions = Completion /\ UNCHANGED settings
    BY InvIsGood DEF Complete
  <1>2. PICK q \in Prompts : completions' = [completions EXCEPT ![c] =
          IF settings.api_key /\ ~ q.key_ok
            THEN [@ EXCEPT !.pc = "unauthorized", !.req = q, !.client = "failed"]
            ELSE [@ EXCEPT !.pc = "dispatch", !.req = q,
                           !.text = Composed(q), !.pii_redacted = Redacts(q)]]
    BY DEF Complete
  <1>3. q \in CompleteRequest /\ Composed(q) \in SUBSET Pieces /\ Redacts(q) \in BOOLEAN
    BY DeploymentsAssumption, InvIsGood DEF Composed, Redacts
  <1>4. completions[c] \in CompletionRecord /\ completions[c].pc = "idle"
        /\ completions[c].shown = {} /\ completions[c].by = "nobody"
        /\ completions[c].text = {} /\ ~ completions[c].pii_redacted
    BY <1>1 DEF Good, CompletionGood, Complete
  <1>5. CASE settings.api_key /\ ~ q.key_ok
    <2>1. completions'[c] = [completions[c] EXCEPT !.pc = "unauthorized", !.req = q, !.client = "failed"]
      BY <1>1, <1>2, <1>5
    <2>2. completions'[c] \in CompletionRecord
      BY <2>1, <1>3, <1>4 DEF CompletionRecord, GatewayPCs
    <2> QED BY <2>1, <2>2, <1>4 DEF Good, CompletionGood, EgressOf, CompletionRecord
  <1>6. CASE ~ (settings.api_key /\ ~ q.key_ok)
    <2>1. completions'[c] = [completions[c] EXCEPT !.pc = "dispatch", !.req = q,
                               !.text = Composed(q), !.pii_redacted = Redacts(q)]
      BY <1>1, <1>2, <1>6
    <2>2. completions'[c] \in CompletionRecord
      BY <2>1, <1>3, <1>4 DEF CompletionRecord, GatewayPCs
    <2> QED BY <2>1, <2>2, <1>1, <1>4, RoutingFixed DEF Good, CompletionGood, EgressOf, CompletionRecord
  <1> QED BY <1>5, <1>6

LEMMA AskGood ==
  ASSUME NEW c \in Completion, GatewayInv, AskProvider(c)
  PROVE  Good(c)'
  <1>1. Good(c) /\ DOMAIN completions = Completion /\ UNCHANGED settings
    BY InvIsGood DEF AskProvider
  <1>2. PICK p \in Hosted : IsNext(c, p) /\ completions' =
          [completions EXCEPT ![c] = [@ EXCEPT !.pc = "awaiting", !.by = p,
                                                !.shown = completions[c].shown \union {p}]]
    BY DEF AskProvider
  <1>3. completions[c] \in CompletionRecord /\ completions[c].pc = "dispatch"
    BY <1>1 DEF Good, CompletionGood, AskProvider
  <1>4. completions'[c] = [completions[c] EXCEPT !.pc = "awaiting", !.by = p,
                             !.shown = completions[c].shown \union {p}]
    BY <1>1, <1>2
  <1>5. completions'[c] \in CompletionRecord
    <2>1. PICK more \in SUBSET Hosted : more = completions[c].shown \union {p}
      BY <1>3 DEF CompletionRecord
    <2>2. completions'[c] = [completions[c] EXCEPT !.pc = "awaiting", !.by = p, !.shown = more]
      BY <1>4, <2>1
    <2> QED BY <1>3, <2>2 DEF CompletionRecord, GatewayPCs
  <1>6. completions'[c].shown = completions[c].shown \union {p} /\ completions'[c].by = p
        /\ completions'[c].pc = "awaiting" /\ completions'[c].req = completions[c].req
        /\ completions'[c].text = completions[c].text
        /\ completions'[c].pii_redacted = completions[c].pii_redacted
    BY <1>3, <1>4 DEF CompletionRecord
  <1>7. CompletionGood(c)'
    BY <1>1, <1>3, <1>5, <1>6, RoutingFixed DEF Good, CompletionGood
  <1>8. \A r \in Hosted : Ahead(c, r)' = Ahead(c, r)
    BY <1>1, <1>6 DEF Ahead, FallbackChain
  <1>9. \* p was next: all shown before are ahead of it
    completions[c].shown \subseteq Ahead(c, p)
    <2> SUFFICES ASSUME NEW r \in completions[c].shown PROVE r \in Ahead(c, p)  OBVIOUS
    <2>1. r \in settings.keys /\ Ahead(c, r) \subseteq completions[c].shown
      BY <1>1 DEF Good, EgressOf
    <2>2. p \in settings.keys /\ p \notin completions[c].shown
      BY <1>2 DEF IsNext, Untried
    <2>3. p \notin Ahead(c, r) /\ r # p /\ r \in Hosted
      BY <2>1, <2>2, <1>3 DEF CompletionRecord
    <2> QED BY <2>1, <2>2, <2>3 DEF Ahead, FallbackChain
  <1>10. EgressOf(c)'
    BY <1>1, <1>2, <1>3, <1>6, <1>8, <1>9 DEF Good, EgressOf, IsNext, Untried, CompletionRecord
  <1> QED BY <1>7, <1>10 DEF Good

LEMMA FailoverGood ==
  ASSUME NEW c \in Completion, GatewayInv, Failover(c)
  PROVE  Good(c)'
  <1>1. Good(c) /\ DOMAIN completions = Completion /\ UNCHANGED settings
    BY InvIsGood DEF Failover
  <1>2. completions[c] \in CompletionRecord /\ completions[c].pc = "awaiting"
    BY <1>1 DEF Good, CompletionGood, Failover
  <1>3. completions'[c] = [completions[c] EXCEPT !.pc = "dispatch", !.by = "nobody"]
    BY <1>1 DEF Failover
  <1>4. completions'[c] \in CompletionRecord
    BY <1>2, <1>3 DEF CompletionRecord, GatewayPCs
  <1> QED BY <1>1, <1>2, <1>3, <1>4, RoutingFixed
          DEF Good, CompletionGood, EgressOf, CompletionRecord, Ahead, FallbackChain

LEMMA FinishGood ==
  ASSUME NEW c \in Completion, GatewayInv, UNCHANGED settings,
         \/ completions[c].pc = "awaiting" /\ Finish(c, completions[c].by)
         \/ completions[c].pc = "dispatch" /\ Exhausted(c) /\ Finish(c, "stub")
  PROVE  Good(c)'
  <1>1. Good(c) /\ DOMAIN completions = Completion  BY InvIsGood
  <1>2. completions[c] \in CompletionRecord  BY <1>1 DEF Good, CompletionGood
  <1>3. PICK by, client : /\ by \in {completions[c].by, "stub"} /\ client \in {"response", completions[c].client}
                          /\ by = "stub" /\ completions[c].pc = "dispatch" => Exhausted(c)
                          /\ completions[c].pc \in {"awaiting", "dispatch"}
                          /\ completions[c].pc = "awaiting" => by = completions[c].by
                          /\ completions[c].pc = "dispatch" => by = "stub"
                          /\ completions'[c] = [completions[c] EXCEPT !.pc = "answered", !.by = by, !.client = client]
    <2> DEFINE client == IF completions[c].client = "waiting" THEN "response" ELSE completions[c].client
    <2>1. client \in {"response", completions[c].client}  OBVIOUS
    <2>2. CASE completions[c].pc = "awaiting" /\ Finish(c, completions[c].by)
      <3>1. completions'[c] = [completions[c] EXCEPT !.pc = "answered", !.by = completions[c].by, !.client = client]
        BY <2>2, <1>1 DEF Finish
      <3> QED BY <2>1, <2>2, <3>1
    <2>3. CASE completions[c].pc = "dispatch" /\ Exhausted(c) /\ Finish(c, "stub")
      <3>1. completions'[c] = [completions[c] EXCEPT !.pc = "answered", !.by = "stub", !.client = client]
        BY <2>3, <1>1 DEF Finish
      <3> QED BY <2>1, <2>3, <3>1
    <2> QED BY <2>2, <2>3
  <1>4. completions'[c] \in CompletionRecord
    BY <1>2, <1>3 DEF CompletionRecord, GatewayPCs
  <1>5. completions'[c].by = by /\ completions'[c].pc = "answered"
        /\ completions'[c].shown = completions[c].shown /\ completions'[c].req = completions[c].req
        /\ completions'[c].text = completions[c].text
        /\ completions'[c].pii_redacted = completions[c].pii_redacted
    BY <1>2, <1>3 DEF CompletionRecord
  <1>6. CompletionGood(c)'
    BY <1>1, <1>3, <1>4, <1>5, RoutingFixed DEF Good, CompletionGood
  <1>7. by = "stub" => completions[c].shown = settings.keys
    <2>1. CASE completions[c].pc = "awaiting"
      BY <2>1, <1>1, <1>3 DEF Good, CompletionGood
    <2>2. CASE completions[c].pc = "dispatch"
      BY <2>2, <1>1, <1>3 DEF Good, EgressOf, Exhausted, Untried
    <2> QED BY <2>1, <2>2, <1>3
  <1>8. \A r \in Hosted : Ahead(c, r)' = Ahead(c, r)
    BY <1>5 DEF Ahead, FallbackChain
  <1>9. EgressOf(c)'
    BY <1>1, <1>2, <1>3, <1>5, <1>7, <1>8 DEF Good, EgressOf, CompletionRecord
  <1> QED BY <1>6, <1>9 DEF Good

LEMMA GiveUpGood ==
  ASSUME NEW c \in Completion, GatewayInv, GiveUp(c)
  PROVE  Good(c)'
  <1>1. Good(c) /\ DOMAIN completions = Completion /\ UNCHANGED settings
    BY InvIsGood DEF GiveUp
  <1>2. completions[c] \in CompletionRecord
    BY <1>1 DEF Good, CompletionGood
  <1>3. completions'[c] = [completions[c] EXCEPT !.client = "failed"]
    BY <1>1 DEF GiveUp
  <1>4. completions'[c] \in CompletionRecord
    BY <1>2, <1>3 DEF CompletionRecord
  <1> QED BY <1>1, <1>2, <1>3, <1>4, RoutingFixed
          DEF Good, CompletionGood, EgressOf, CompletionRecord, Ahead, FallbackChain

LEMMA RestartGood ==
  ASSUME NEW c \in Completion, GatewayInv, RestartGateway
  PROVE  Good(c)'
  <1>1. Good(c) /\ UNCHANGED settings  BY InvIsGood DEF RestartGateway
  <1>2. completions[c] \in CompletionRecord
    BY <1>1 DEF Good, CompletionGood
  <1>3. CASE ~ InFlight(c)
    BY <1>1, <1>3, OtherCallsStayGood DEF RestartGateway
  <1>4. CASE InFlight(c)
    <2>1. completions'[c] = [completions[c] EXCEPT !.pc = "gone", !.client = "failed"]
      BY <1>4 DEF RestartGateway
    <2>2. completions'[c] \in CompletionRecord
      BY <1>2, <2>1 DEF CompletionRecord, GatewayPCs
    <2> QED BY <1>1, <1>2, <1>4, <2>1, <2>2, RoutingFixed
            DEF Good, CompletionGood, EgressOf, CompletionRecord, Ahead, FallbackChain, InFlight
  <1> QED BY <1>3, <1>4

\* Every step keeps the invariant.
LEMMA GatewayStep == GatewayInv /\ [GatewayNext]_gatewayVars => GatewayInv'
  <1> SUFFICES ASSUME GatewayInv, [GatewayNext]_gatewayVars PROVE GatewayInv'  OBVIOUS
  <1>0. DOMAIN completions = Completion /\ settings \in Deployments /\ \A d \in Completion : Good(d)
    BY InvIsGood
  <1>1. ASSUME NEW c \in Completion,
               Complete(c) \/ AskProvider(c) \/ Failover(c) \/ ProviderAnswers(c)
                 \/ StubAnswers(c) \/ GiveUp(c)
        PROVE  GatewayInv'
    <2>1. Good(c)'
      BY <1>1, CompleteGood, AskGood, FailoverGood, FinishGood, GiveUpGood
         DEF ProviderAnswers, StubAnswers
    <2>2. /\ UNCHANGED settings /\ DOMAIN completions' = Completion
          /\ \A d \in Completion : d # c => completions'[d] = completions[d]
      BY <1>0, <1>1 DEF Complete, AskProvider, Failover, ProviderAnswers, StubAnswers, GiveUp, Finish
    <2>3. \A d \in Completion : Good(d)'
      BY <1>0, <2>1, <2>2, OtherCallsStayGood
    <2> QED BY <1>0, <2>2, <2>3, GoodIsInv
  <1>2. CASE RestartGateway
    <2>1. UNCHANGED settings /\ DOMAIN completions' = Completion
      BY <1>2 DEF RestartGateway
    <2>2. \A d \in Completion : Good(d)'
      BY <1>2, RestartGood
    <2> QED BY <1>0, <2>1, <2>2, GoodIsInv
  <1>3. CASE UNCHANGED gatewayVars
    <2>1. \A d \in Completion : Good(d)'
      BY <1>0, <1>3, OtherCallsStayGood DEF gatewayVars
    <2> QED BY <1>0, <1>3, <2>1, GoodIsInv DEF gatewayVars
  <1> QED BY <1>1, <1>2, <1>3 DEF GatewayNext

\* The inductive invariant of the gateway.
THEOREM GatewayInvariant == GatewaySpec => []GatewayInv
  BY GatewayInitial, GatewayStep, PTL DEF GatewaySpec



\* For any calls and settings: a text goes to no provider it need not go to.
THEOREM NoTextGoesFurther == GatewaySpec => []NoNeedlessEgress
  <1>1. GatewayInv => NoNeedlessEgress  BY DEF GatewayInv
  <1> QED BY <1>1, GatewayInvariant, PTL
=============================================================================
