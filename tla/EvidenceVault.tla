----------------------------- MODULE EvidenceVault -----------------------------
(***************************************************************************)
(* Saakshi seals an artifact (agents/saakshi.py): the content is put into  *)
(* an object store that locks each version until a date                    *)
(* (evidence_client.py), then a row of public.evidence is upserted, one    *)
(* for each content of a tenant.  Several runtimes seal at once; the store *)
(* is the external part: it keeps every version until its lock passes.     *)
(*                                                                         *)
(* A content stands for the bytes and the tenant they belong to.           *)
(***************************************************************************)
EXTENDS Naturals

CONSTANTS
  Seal,        \* the seals asked for
  Content, NoContent,
  Place,       \* the engagement and the file name, the rest of an object's key
  Artifacts,   \* what may be asked, a set of records [content, place, days]
  LastDay      \* bounds the clock

ASSUME VaultAssumption ==
  /\ NoContent \notin Content
  /\ LastDay \in Nat
  /\ Artifacts # {}
  /\ Artifacts \subseteq [content : Content \union {NoContent}, place : Place, days : Nat \ {0}]

VARIABLES
  day,        \* the clock
  mock,       \* the environment is development, local or test
  versions,   \* the store: the versions of each object, by the seal that put them
  evidence,   \* public.evidence
  seals       \* each run of the agent, with the locals of _run

vaultVars == <<day, mock, versions, evidence, seals>>

Uri == Content \X Place
Version == [uri : Uri, until : Nat]
Rows == [uri : Uri, until : Nat]
NoRow == [uri |-> <<>>, until |-> 0]

SealPCs == {"idle", "put", "upsert", "sealed", "failed", "gone"}
SealRecord ==
  [pc : SealPCs, req : Artifacts, until : Nat, evidence_id : BOOLEAN]

VaultInit ==
  /\ day = 0
  /\ mock \in BOOLEAN
  /\ versions = {}
  /\ evidence = [b \in Content |-> NoRow]
  /\ seals = [s \in Seal |-> [ pc |-> "idle", req |-> CHOOSE q \in Artifacts : TRUE,
                               until |-> 0, evidence_id |-> FALSE ]]

Body(s) == seals[s].req.content
ContentKey(s) == <<Body(s), seals[s].req.place>>       \* content_key
Until(s) == seals[s].until

GoTo(s, pc) == seals' = [seals EXCEPT ![s].pc = pc]
InStore(v) == versions' = versions \union {v}

-----------------------------------------------------------------------------
(* seal *)

\* retain_until is computed when the seal begins.
Begin(s) ==
  /\ seals[s].pc = "idle"
  /\ \E q \in Artifacts : seals' = [seals EXCEPT ![s] = [@ EXCEPT
       !.pc = IF q.content = NoContent THEN "failed" ELSE "put", !.req = q, !.until = day + q.days]]
  /\ UNCHANGED <<day, mock, versions, evidence>>

\* The store refuses a lock that has passed already.
PutObject(s) ==
  /\ seals[s].pc = "put" /\ day < Until(s)
  /\ InStore([uri |-> ContentKey(s), until |-> Until(s)])
  /\ GoTo(s, "upsert")
  /\ UNCHANGED <<day, mock, evidence>>

MockEverywhere == TRUE                                 \* mutant: in production, too
MockFallback == mock

\* It raises, or took effect and seems to raise.
PutFails(s) ==
  /\ seals[s].pc = "put"
  /\ \/ UNCHANGED versions
     \/ day < Until(s) /\ InStore([uri |-> ContentKey(s), until |-> Until(s)])
  /\ GoTo(s, IF MockFallback THEN "upsert" ELSE "failed")
  /\ UNCHANGED <<day, mock, evidence>>

-----------------------------------------------------------------------------
(* The upsert on (tenant_id, content_hash) *)

AnyUri(s) == TRUE                                      \* mutant: without the trigger
\* trg_evidence_content_immutable lets an existing row keep its object only.
Immutable(s) == evidence[Body(s)] \in {NoRow} \union [uri : {ContentKey(s)}, until : Nat]

SetRow(s) ==
  evidence' = [evidence EXCEPT ![Body(s)] = [uri |-> ContentKey(s), until |-> Until(s)]]

Sealed(s, id) == seals' = [seals EXCEPT ![s] = [@ EXCEPT !.pc = "sealed", !.evidence_id = id]]

Upsert(s) ==
  /\ seals[s].pc = "upsert"
  /\ Immutable(s)
  /\ SetRow(s)
  /\ Sealed(s, TRUE)
  /\ UNCHANGED <<day, mock, versions>>

NoId(s) == Sealed(s, FALSE)

\* Whatever the upsert raises is logged, and the seal is answered without an id.
UpsertFails(s) ==
  /\ seals[s].pc = "upsert"
  /\ UNCHANGED evidence \/ (Immutable(s) /\ SetRow(s))
  /\ NoId(s)
  /\ UNCHANGED <<day, mock, versions>>

-----------------------------------------------------------------------------
(* The process and the store *)

\* The process ends, or the client of the database cannot be made.
CrashDuringSeal(s) ==
  /\ seals[s].pc \in {"put", "upsert"}
  /\ GoTo(s, "gone")
  /\ UNCHANGED <<day, mock, versions, evidence>>

DayPasses ==
  /\ day < LastDay
  /\ day' = day + 1
  /\ UNCHANGED <<mock, versions, evidence, seals>>

\* Compliance mode: a version goes only when its lock has passed.
DeleteVersion ==
  /\ \E v \in versions : v.until <= day /\ versions' = versions \ {v}
  /\ UNCHANGED <<day, mock, evidence, seals>>

VaultNext ==
  \/ \E s \in Seal : \/ Begin(s) \/ PutObject(s) \/ PutFails(s) \/ Upsert(s)
                     \/ UpsertFails(s) \/ CrashDuringSeal(s)
  \/ DayPasses \/ DeleteVersion

VaultSpec == VaultInit /\ [][VaultNext]_vaultVars

-----------------------------------------------------------------------------
(* Properties *)

LockedInStore(uri, until) == [uri |-> uri, until |-> until] \in versions \/ until <= day

\* Outside development, what a row of evidence or an answer says is locked is
\* locked: the object it names has a version with that very lock until it
\* passes, whatever other seals of the content did (saakshi.py, _run).
SealedIsLocked ==
  ~ mock => /\ \A b \in Content :
                 evidence[b] # NoRow => LockedInStore(evidence[b].uri, evidence[b].until)
            /\ \A s \in Seal :
                 seals[s].pc = "sealed" => LockedInStore(ContentKey(s), Until(s))

\* An evidence_id in an answer stays an id of the object that was sealed: a
\* later seal of the content elsewhere does not move the row (0003, trigger).
IdNamesItsObject == \A s \in Seal :
  seals[s].evidence_id => evidence[Body(s)] # NoRow /\ evidence[Body(s)].uri = ContentKey(s)

\* Types; and what has been put by a seal that went on to its row.
SealGood(s) ==
  /\ seals[s] \in SealRecord
  /\ seals[s].pc \in {"put", "upsert", "sealed"} => Body(s) \in Content
  /\ seals[s].evidence_id => seals[s].pc = "sealed" /\ Body(s) \in Content
  /\ ~ mock /\ seals[s].pc \in {"upsert", "sealed"} => LockedInStore(ContentKey(s), Until(s))

VaultTypeOK ==
  /\ day \in Nat /\ mock \in BOOLEAN
  /\ versions \subseteq Version
  /\ evidence \in [Content -> Rows \union {NoRow}]

\* The inductive invariant.
VaultInv ==
  /\ VaultTypeOK
  /\ DOMAIN seals = Seal
  /\ \A s \in Seal : SealGood(s)
  /\ SealedIsLocked
  /\ IdNamesItsObject
=============================================================================
