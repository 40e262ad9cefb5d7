-------------------------------- MODULE GapScan --------------------------------
(***************************************************************************)
(* The public gap scan.  The marketing site (apps/marketing, api/gap-scan/ *)
(* route.ts and lib/gap-scan-store.ts) keeps a submission in a cache of    *)
(* its process and inserts a row, whatever comes of it; the BFF            *)
(* (routes/public.ts) inserts a row without a report or answers an error.  *)
(* A report is read from the row first, from the cache of the process that *)
(* is asked second (gap-scan/report/[id]/page.tsx).                        *)
(***************************************************************************)
EXTENDS SequencesExt

CONSTANTS
  Scan,         \* submissions, each with an id of its own
  Session,      \* what a visitor's session id, address and browser hash to
  NoCookie,
  Site,         \* the marketing processes
  View,         \* requests for a report
  CacheLimit,   \* 1000 in the code
  Local         \* the environment is not production: cookies are not compared

ASSUME GapScanAssumption ==
  /\ Scan # {} /\ Session # {} /\ Site # {}
  /\ NoCookie \notin Session
  /\ CacheLimit \in Nat \ {0}
  /\ Local \in BOOLEAN

VARIABLES
  rows,      \* gap_scan_responses: who inserted each scan's row
  caches,    \* memoryCache of each process, in order of insertion
  scans,     \* each submission, with its history
  views      \* each request for a report

gapScanVars == <<rows, caches, scans, views>>

Owners == {"none", "site", "bff"}

\* History: `evicted' is whether the submission left the cache it was put in.
ScanRecord ==
  [ pc : {"idle", "insert", "answered", "error", "gone"}, by : Owners \ {"none"},
    session : Session, at : Site, evicted : BOOLEAN ]
ViewRecord ==
  [ pc : {"idle", "row", "cache", "shown", "not_found"}, scan : Scan,
    access : Session \union {NoCookie}, at : Site ]

GapScanInit ==
  /\ rows = [s \in Scan |-> "none"]
  /\ caches = [w \in Site |-> <<>>]
  /\ scans = [s \in Scan |-> [ pc |-> "idle", by |-> "site", session |-> CHOOSE h \in Session : TRUE,
                               at |-> CHOOSE w \in Site : TRUE, evicted |-> FALSE ]]
  /\ views = [v \in View |-> [ pc |-> "idle", scan |-> CHOOSE s \in Scan : TRUE,
                               access |-> NoCookie, at |-> CHOOSE w \in Site : TRUE ]]

-----------------------------------------------------------------------------
(* Submissions *)

Cached(cache, s) ==
  LET longer == Append(cache, s)
  IN IF Len(longer) > CacheLimit THEN Tail(longer) ELSE longer

Evict(lost) ==
  [s \in Scan |-> IF s \in lost THEN [scans[s] EXCEPT !.evicted = TRUE] ELSE scans[s]]

\* POST at the marketing site, up to the await of the insert.
SubmitToSite(s) ==
  /\ scans[s].pc = "idle"
  /\ \E w \in Site, h \in Session :
       LET cache == Cached(caches[w], s) IN
       /\ caches' = [caches EXCEPT ![w] = cache]
       /\ scans' = [Evict(ToSet(caches[w]) \ ToSet(cache)) EXCEPT ![s] =
            [@ EXCEPT !.pc = "insert", !.session = h, !.at = w]]
  /\ UNCHANGED <<rows, views>>

SubmitToBff(s) ==
  /\ scans[s].pc = "idle"
  /\ \E h \in Session : scans' = [scans EXCEPT ![s] =
       [@ EXCEPT !.pc = "insert", !.session = h, !.by = "bff"]]
  /\ UNCHANGED <<rows, caches, views>>

Inserted(s) == rows' = [rows EXCEPT ![s] = scans[s].by]

InsertRow(s) ==
  /\ scans[s].pc = "insert"
  /\ Inserted(s)
  /\ scans' = [scans EXCEPT ![s].pc = "answered"]
  /\ UNCHANGED <<caches, views>>

AlwaysAnswers(s) == "answered"                         \* mutant: the BFF ignores the error
\* The site answers all the same, the BFF with a 500.
OnError(s) == IF scans[s].by = "site" THEN "answered" ELSE "error"

\* The insert fails, or takes effect and seems to fail.
InsertFails(s) ==
  /\ scans[s].pc = "insert"
  /\ UNCHANGED rows \/ Inserted(s)
  /\ scans' = [scans EXCEPT ![s].pc = OnError(s)]
  /\ UNCHANGED <<caches, views>>

-----------------------------------------------------------------------------
(* Reports *)

CookieNeeded(v, s) == Local \/ views[v].access = scans[s].session  \* mutant
\* A cookie, if there is one, has to be that of the submission.
Admitted(v, s) == Local \/ views[v].access \in {NoCookie, scans[s].session}

Look(v) ==
  /\ views[v].pc = "idle"
  /\ \E s \in Scan, h \in Session \union {NoCookie}, w \in Site :
       /\ scans[s].pc # "idle"
       /\ views' = [views EXCEPT ![v] = [pc |-> "row", scan |-> s, access |-> h, at |-> w]]
  /\ UNCHANGED <<rows, caches, scans>>

\* A row without a report cannot be shown; no row, or no answer, leaves the cache.
ReadRow(v) ==
  LET s == views[v].scan IN
  /\ views[v].pc = "row"
  /\ \/ /\ rows[s] # "none" /\ Admitted(v, s)
        /\ views' = [views EXCEPT ![v].pc = IF rows[s] = "site" THEN "shown" ELSE "not_found"]
     \/ views' = [views EXCEPT ![v].pc = "cache"]
  /\ UNCHANGED <<rows, caches, scans>>

ReadCache(v) ==
  LET s == views[v].scan
      cached == s \in ToSet(caches[views[v].at])
  IN /\ views[v].pc = "cache"
     /\ views' = [views EXCEPT ![v].pc =
          IF cached /\ Admitted(v, s) THEN "shown" ELSE "not_found"]
     /\ UNCHANGED <<rows, caches, scans>>

\* The process ends, and with it its cache and the submissions in flight.
RestartSite(w) ==
  LET dropped == {s \in Scan : scans[s].pc = "insert" /\ scans[s].at = w /\ scans[s].by = "site"}
  IN /\ caches[w] # <<>> \/ dropped # {}
     /\ caches' = [caches EXCEPT ![w] = <<>>]
     /\ scans' = [s \in Scan |->
          [Evict(ToSet(caches[w]))[s] EXCEPT !.pc = IF s \in dropped THEN "gone" ELSE @]]
     /\ UNCHANGED <<rows, views>>

GapScanNext ==
  \/ \E s \in Scan : SubmitToSite(s) \/ SubmitToBff(s) \/ InsertRow(s) \/ InsertFails(s)
  \/ \E v \in View : Look(v) \/ ReadRow(v) \/ ReadCache(v)
  \/ \E w \in Site : RestartSite(w)

GapScanSpec == GapScanInit /\ [][GapScanNext]_gapScanVars

-----------------------------------------------------------------------------
(* Properties *)

InItsCache(s) == scans[s].evicted \/ s \in ToSet(caches[scans[s].at])

\* A visitor who submitted a scan to a process and asks that process for the
\* report is not told that there is none, whatever became of the row and of the
\* calls that write and read it, unless newer submissions or a restart pushed
\* the scan out of its cache (gap-scan-store.ts, saveGapScanSubmission and
\* getGapScanReport: "visitors always receive their report").
OwnReportIsFound == \A v \in View :
  LET s == views[v].scan IN
  views[v].pc = "not_found" =>
    \/ scans[s].by = "bff" \/ views[v].at # scans[s].at
    \/ scans[s].evicted
    \/ views[v].access \notin {NoCookie, scans[s].session}

\* A submission that was answered with an id is not lost at once: its row is
\* there or it is in the cache of its process, unless newer ones or a restart
\* pushed it out of there since (saveGapScanSubmission; public.ts).
AnsweredIsKept == \A s \in Scan :
  scans[s].pc = "answered" =>
    \/ rows[s] = scans[s].by
    \/ scans[s].by = "site" /\ InItsCache(s)

GapScanTypeOK ==
  /\ rows \in [Scan -> Owners] /\ scans \in [Scan -> ScanRecord]
  /\ caches \in [Site -> Seq(Scan)] /\ views \in [View -> ViewRecord]

\* A submission to the site is in its cache from before its row is inserted, and
\* a row is of whom the submission was made to.
CachedFirst == \A s \in Scan :
  /\ scans[s].pc # "idle" /\ scans[s].by = "site" => InItsCache(s)
  /\ rows[s] # "none" => rows[s] = scans[s].by /\ scans[s].pc # "idle"

ViewsOfSubmissions == \A v \in View :
  views[v].pc # "idle" => scans[views[v].scan].pc # "idle"

\* The inductive invariant.
GapScanInv ==
  GapScanTypeOK /\ CachedFirst /\ ViewsOfSubmissions /\ OwnReportIsFound /\ AnsweredIsKept
=============================================================================
