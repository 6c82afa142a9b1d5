------------------------------ MODULE Surface ------------------------------
(***************************************************************************)
(* What the scans of one project find: easm_findings and the events made   *)
(* of them (services/bbot_runner.py, services/easm_promoter.py and the     *)
(* actor of workers/easm.py), what analysts do with a finding and see of   *)
(* it (routers/easm.py, routers/assets.py), the history cleanup and the    *)
(* expiry of dismissals (scheduler/jobs.py).  How a scan runs, is          *)
(* cancelled and is bounded is the subject of EasmScan.                    *)
(*                                                                         *)
(* Scans are numbered in the order of started_at, which also serves as the *)
(* clock: a time is the number of scans launched so far.                   *)
(***************************************************************************)
EXTENDS Integers, FiniteSets

CONSTANTS
    Assets,     \* pairs of a bbot_event_type and a canonical_target
    Allowed,     \* those of a type in PROMOTION_ALLOWLIST
    Graded,      \* those of type FINDING, which are promoted when severe
    Contents,    \* what raw_bbot may be
    History,     \* BBOT_SCAN_HISTORY_LIMIT
    MaxScans,    \* bound: scans that are launched
    MaxReports,  \* bound: reports of targets
    MaxTriage    \* bound: requests of analysts

ASSUME PromotedAreTargets == Allowed \subseteq Assets /\ Graded \subseteq Assets \ Allowed
ASSUME SurfaceBounds == {History, MaxScans, MaxReports, MaxTriage} \subseteq Nat
ASSUME TargetsFinite == IsFiniteSet(Assets)

VARIABLES
    scanRow,    \* the row of each scan: its status, or that it is deleted
    acting,     \* the scans whose actor reads its container's output
    finding,    \* the row of each target
    promoted,   \* the events made of findings, by the report each was made of
    noted,      \* the targets that have a row in asset_notes
    seenBy,     \* history: the targets each scan has reported
    crossing,   \* history: a scan was launched while another still read
    reports, triage

scanning == <<scanRow, acting, seenBy, crossing, reports>>
surfaceVars == <<scanning, finding, promoted, noted, triage>>

ScanIds == 1..MaxScans
NoScanId == 0   \* no scan: of a row that is not there, or an event whose scan is deleted

Lifecycle == {"new", "confirmed", "dismissed", "watchlist"}
Finding == [scan : 0..MaxScans, raw : Contents \cup {"none"}, seen : 0..MaxScans,
            status : Lifecycle, until : BOOLEAN]
NoFinding == [scan |-> NoScanId, raw |-> "none", seen |-> 0, status |-> "new", until |-> FALSE]

Promotion == [targets : {{t} : t \in Assets}, scan : 0..MaxScans]
NoPromotion == [targets |-> {}, scan |-> NoScanId]

Found == {t \in Assets : finding[t].scan # NoScanId}
ScanRows == {s \in ScanIds : scanRow[s] \notin {"none", "deleted"}}
Launched == Cardinality({s \in ScanIds : scanRow[s] # "none"})

\* The rows; findings and events refer to scans that are there.
SurfaceTypeOK ==
    /\ scanRow \in [ScanIds -> {"none", "active", "finished", "stopped", "deleted"}]
    /\ acting \subseteq ScanIds
    /\ finding \in [Assets -> Finding]
    /\ \A t \in Found : finding[t].scan \in ScanRows
    /\ promoted \in [1..MaxReports -> Promotion \cup {NoPromotion}]
    /\ \A n \in 1..MaxReports : promoted[n].scan \in ScanRows \cup {NoScanId}
    /\ noted \subseteq Assets
    /\ seenBy \in [ScanIds -> SUBSET Assets]
    /\ crossing \in BOOLEAN
    /\ reports \in 0..MaxReports /\ triage \in 0..MaxTriage

SurfaceInit ==
    /\ scanRow = [s \in ScanIds |-> "none"]
    /\ acting = {}
    /\ finding = [t \in Assets |-> NoFinding]
    /\ promoted = [n \in 1..MaxReports |-> NoPromotion]
    /\ noted = {}
    /\ seenBy = [s \in ScanIds |-> {}]
    /\ crossing = FALSE
    /\ reports = 0 /\ triage = 0

-----------------------------------------------------------------------------
(* Scans, as far as their findings depend on them *)

\* A launch finds no scan queued or running; the actor of one that was cancelled or given
\* up may go on.
LaunchScan ==
    /\ \A s \in ScanIds : scanRow[s] # "active"
    /\ \E s \in ScanIds : /\ s = Launched + 1
                          /\ scanRow' = [scanRow EXCEPT ![s] = "active"]
                          /\ acting' = acting \cup {s}
    /\ crossing' = (crossing \/ acting # {})
    /\ UNCHANGED <<finding, promoted, noted, triage, seenBy, reports>>

\* cancel_scan, or the reaper: the row says so, the actor has yet to notice.
StopScan(s) ==
    /\ scanRow[s] = "active"
    /\ scanRow' = [scanRow EXCEPT ![s] = "stopped"]
    /\ UNCHANGED <<acting, seenBy, crossing, reports, finding, promoted, noted, triage>>

\* The actor comes to its end and writes how, if the row is still there.
EndScan(s) ==
    /\ s \in acting
    /\ acting' = acting \ {s}
    /\ \E how \in {"finished", "stopped"} :
          scanRow' = [scanRow EXCEPT ![s] = IF s \in ScanRows THEN how ELSE @]
    /\ UNCHANGED <<seenBy, crossing, reports, finding, promoted, noted, triage>>

\* should_promote.
Promotes(t, severe) == t \in Allowed \/ (t \in Graded /\ severe)

\* (mutant) The upsert leaves the row to the scan that found it first.
UpsertFindingFirst(s, t, raw) ==
    IF t \in Found THEN [finding[t] EXCEPT !.raw = raw, !.seen = Launched]
    ELSE [scan |-> s, raw |-> raw, seen |-> Launched, status |-> "new", until |-> FALSE]

\* persist_finding: a row that is there becomes this scan's, and keeps its status.
UpsertFinding(s, t, raw) ==
    IF t \in Found THEN [finding[t] EXCEPT !.scan = s, !.raw = raw, !.seen = Launched]
    ELSE [scan |-> s, raw |-> raw, seen |-> Launched, status |-> "new", until |-> FALSE]

\* One line of output, in one transaction: it loads the row of the scan, upserts the finding
\* and, of one that is promoted, adds an event, whether or not there is one already.
PersistFinding(s, t) ==
    /\ s \in acting /\ s \in ScanRows
    /\ reports < MaxReports
    /\ reports' = reports + 1
    /\ \E raw \in Contents, severe \in BOOLEAN :
          /\ finding' = [finding EXCEPT ![t] = UpsertFinding(s, t, raw)]
          /\ promoted' = [promoted EXCEPT ![reports'] =
                              IF Promotes(t, severe) THEN [targets |-> {t}, scan |-> s] ELSE @]
    /\ seenBy' = [seenBy EXCEPT ![s] = @ \cup {t}]
    /\ UNCHANGED <<scanRow, acting, crossing, noted, triage>>

-----------------------------------------------------------------------------
(* Analysts *)

\* patch_finding: a dismissal ends after 30 days, "new" has no end.
PatchFinding(t, s) ==
    /\ triage < MaxTriage
    /\ triage' = triage + 1
    /\ t \in Found
    /\ finding' = [finding EXCEPT ![t].status = s,
                      ![t].until = CASE s = "dismissed" -> TRUE [] s = "new" -> FALSE [] OTHER -> @]
    /\ UNCHANGED <<scanning, promoted, noted>>

\* patch_asset_note of a target that has a finding; the note outlives it.
PatchNote(t) ==
    /\ triage < MaxTriage
    /\ triage' = triage + 1
    /\ t \in Found
    /\ noted' = noted \cup {t}
    /\ UNCHANGED <<scanning, finding, promoted>>

\* dismiss_expiry_sweep_job, of those whose end has passed.
DismissExpiry ==
    /\ \E over \in SUBSET {t \in Found : finding[t].status = "dismissed" /\ finding[t].until} :
          finding' = [t \in Assets |->
              IF t \in over THEN [finding[t] EXCEPT !.status = "new", !.until = FALSE] ELSE finding[t]]
    /\ UNCHANGED <<scanning, promoted, noted, triage>>

\* scan_history_cleanup_job: findings go with their scan (ON DELETE CASCADE), events stay
\* without it (SET NULL), notes stay.
KeptScans == {s \in ScanRows : Cardinality({r \in ScanRows : r > s}) < History}
CleanUp ==
    LET gone == ScanRows \ KeptScans
    IN  /\ scanRow' = [s \in ScanIds |-> IF s \in gone THEN "deleted" ELSE scanRow[s]]
        /\ finding' = [t \in Assets |-> IF finding[t].scan \in gone THEN NoFinding ELSE finding[t]]
        /\ promoted' = [n \in 1..MaxReports |->
              IF promoted[n].scan \in gone THEN [promoted[n] EXCEPT !.scan = NoScanId] ELSE promoted[n]]
        /\ UNCHANGED <<acting, seenBy, crossing, reports, noted, triage>>

-----------------------------------------------------------------------------
SurfaceNext ==
    \/ LaunchScan \/ DismissExpiry \/ CleanUp
    \/ \E s \in ScanIds : StopScan(s) \/ EndScan(s) \/ \E t \in Assets : PersistFinding(s, t)
    \/ \E t \in Assets : PatchNote(t) \/ \E s \in Lifecycle : PatchFinding(t, s)

SurfaceSpec == SurfaceInit /\ [][SurfaceNext]_surfaceVars

-----------------------------------------------------------------------------
(* What analysts see *)

\* load_stale_cutoff: an asset is stale when its finding was last seen before the start of
\* the last scan that finished.
Finished == {s \in ScanIds : scanRow[s] = "finished"}
Stale(t) == \E s \in Finished : finding[t].seen < s

\* get_scan_diff compares the findings of a scan with those of the one that finished before.
FindingsOf(s) == {t \in Found : finding[t].scan = s}
Prior(s) == {r \in Finished : r < s /\ \A q \in Finished : q < s => q <= r}
DiffResolved(s) == UNION {FindingsOf(r) \ FindingsOf(s) : r \in Prior(s)}

-----------------------------------------------------------------------------
(* Properties *)

\* A target that a scan has reported is not shown as stale for that scan, nor as resolved by
\* it, whatever came later, unless the actors of two scans overlap: each upsert takes the row
\* from the scan that had it (persist_finding, get_scan_diff, load_stale_cutoff).
SeenIsNotGone ==
    /\ \A s \in Finished : \A t \in seenBy[s] \cap Found : Stale(t) => \E r \in Finished : s < r
    /\ \A s \in ScanRows : seenBy[s] \cap DiffResolved(s) # {} => crossing
=============================================================================
