------------------------------- MODULE Brand -------------------------------
(***************************************************************************)
(* Brand monitoring of one project: brand_terms and brand_matches          *)
(* (models/brand.py), the handlers of routers/brand.py that write them,    *)
(* the scan of a project (services/brand_monitor.py, workers/brand.py),    *)
(* the worker that follows certificates (workers/certstream_worker.py) and *)
(* the four jobs of scheduler/jobs.py.                                     *)
(*                                                                         *)
(* A scan is one transaction.  The rows it upserts stay locked until it    *)
(* commits, so that its writes take effect there; what it loaded at its    *)
(* start may be stale by then.  What the detectors report is any set of    *)
(* values, one for each term and source, and time is not counted: a        *)
(* dismissal with an end may be over, and a row old, at any moment.        *)
(***************************************************************************)
EXTENDS Integers, FiniteSets

CONSTANTS
    Terms,           \* brand_terms of the project
    TermType,        \* the type of each
    Hits,            \* what detectors may report: pairs of a term and a source
    Broad,           \* those that only the search of the full text finds
    NoiseThreshold,  \* BRAND_NOISE_THRESHOLD
    ScanRetries,     \* max_retries of brand_monitor_scan_project
    Monitors,        \* worker threads on the queue brand-monitor
    MaxTicks,        \* bound: scans that the scheduler sends
    MaxEdits         \* bound: requests of analysts

Sources == {"fts", "ct_log", "dnstwist", "certstream"}

ASSUME TermsTyped == TermType \in [Terms -> {"keyword", "domain", "product", "person"}]
ASSUME HitsKnown == Hits \subseteq Terms \X Sources /\ Broad \subseteq Hits
ASSUME BrandBounds == {NoiseThreshold, ScanRetries, MaxTicks, MaxEdits} \subseteq Nat

VARIABLES
    terms,       \* the row of each term
    stoplist,    \* the terms whose value the project's stoplist holds
    matches,     \* the row of each pair: its status; are dismiss_until and webhook_fired_at set
    followed,    \* the terms that the certificate worker looks for; certstream_enabled
    scanJobs,    \* messages of the scan, by how often they have failed
    monitor,     \* each thread: what its scan has loaded
    ticks, edits,
    decision,    \* history: the status and dismiss_until of a pair as an analyst last left them
    reported     \* history: pairs of high severity that a scan no fault stopped was told of

analysts == <<terms, stoplist, edits, decision>>
scans == <<scanJobs, monitor, ticks, reported>>
brandVars == <<analysts, scans, matches, followed>>

Statuses == {"new", "confirmed", "dismissed", "watchlist"}
Match == [status : Statuses \cup {"none"}, until : BOOLEAN, fired : BOOLEAN]
NoMatch == [status |-> "none", until |-> FALSE, fired |-> FALSE]
Decision == [status : Statuses \cup {"none"}, until : BOOLEAN]
NoDecision == [status |-> "none", until |-> FALSE]

BrandScan == [at : {"idle", "scanning"}, failed : 0..ScanRetries, terms : SUBSET Terms, stopped : SUBSET Terms]
NoScan == [at |-> "idle", failed |-> 0, terms |-> {}, stopped |-> {}]

\* The rows, the messages and the scans; a match has a term.
BrandTypeOK ==
    /\ terms \in [Terms -> [mode : {"none", "active", "watch_only"}, archived : BOOLEAN]]
    /\ stoplist \subseteq Terms
    /\ matches \in [Hits -> Match]
    /\ \A r \in Hits : matches[r].status # "none" => terms[r[1]].mode # "none"
    /\ followed \in [enabled : BOOLEAN, terms : SUBSET Terms]
    /\ scanJobs \in [0..ScanRetries -> 0..MaxTicks]
    /\ monitor \in [Monitors -> BrandScan]
    /\ ticks \in 0..MaxTicks /\ edits \in 0..MaxEdits
    /\ decision \in [Hits -> Decision]
    /\ reported \subseteq Hits

\* A project may come with terms; certstream_enabled is set in the database only.
BrandInit ==
    /\ terms \in [Terms -> {[mode |-> m, archived |-> FALSE] : m \in {"none", "active"}}]
    /\ stoplist = {}
    /\ matches = [r \in Hits |-> NoMatch]
    /\ followed \in [enabled : BOOLEAN, terms : {{}}]
    /\ scanJobs = [n \in 0..ScanRetries |-> 0]
    /\ monitor = [w \in Monitors |-> NoScan]
    /\ ticks = 0 /\ edits = 0
    /\ decision = [r \in Hits |-> NoDecision]
    /\ reported = {}

-----------------------------------------------------------------------------
(* routers/brand.py *)

BrandRequest == edits < MaxEdits /\ edits' = edits + 1

\* _require_modifier and _can_create_person_term, for a member with a role of the project.
Modifies(role) == role \in {"Contributor", "Lead"}
MayCreate(role, t, consent) == Modifies(role) /\ (TermType[t] = "person" => role = "Lead" /\ consent)

\* create_term; the same value a second time is a 409.
CreateTerm(t, role, consent) ==
    /\ BrandRequest
    /\ MayCreate(role, t, consent)
    /\ terms[t].mode = "none"
    /\ terms' = [terms EXCEPT ![t] = [mode |-> "active", archived |-> FALSE]]
    /\ UNCHANGED <<stoplist, decision, scans, matches, followed>>

\* patch_term writes the mode, the archived flag or both.
PatchTerm(t) ==
    /\ BrandRequest
    /\ terms[t].mode # "none"
    /\ \E m \in {"active", "watch_only"}, a \in BOOLEAN : terms' = [terms EXCEPT ![t] = [mode |-> m, archived |-> a]]
    /\ UNCHANGED <<stoplist, decision, scans, matches, followed>>

\* add_stoplist_term and delete_stoplist_term.
EditStoplist(t) ==
    /\ BrandRequest
    /\ stoplist' = IF t \in stoplist THEN stoplist \ {t} ELSE stoplist \cup {t}
    /\ UNCHANGED <<terms, decision, scans, matches, followed>>

\* An analyst leaves a row with a status and with or without an end.
Decide(r, s, until) ==
    /\ BrandRequest
    /\ matches[r].status # "none"
    /\ matches' = [matches EXCEPT ![r].status = s, ![r].until = until]
    /\ decision' = [decision EXCEPT ![r] = [status |-> s, until |-> until]]
    /\ UNCHANGED <<terms, stoplist, scans, followed>>

\* patch_match: a dismissal always has an end, 30 days if none is given, and a match that
\* is new again has none; the others keep what there was.
PatchMatch(r, s) ==
    Decide(r, s, CASE s = "dismissed" -> TRUE [] s = "new" -> FALSE [] OTHER -> matches[r].until)

\* extend_dismissal of a match of any status: it ends later, never, or at once.
ExtendDismissal(r) ==
    \/ Decide(r, "new", FALSE)
    \/ \E until \in BOOLEAN : Decide(r, matches[r].status, until)

-----------------------------------------------------------------------------
(* The scan of a project *)

\* brand_monitor_tick_job.
BrandTick ==
    /\ ticks < MaxTicks
    /\ ticks' = ticks + 1
    /\ scanJobs' = [scanJobs EXCEPT ![0] = @ + 1]
    /\ UNCHANGED <<analysts, matches, followed, monitor, reported>>

\* scan_project loads the stoplist and the terms that are active and not archived.
LoadTerms(w) ==
    /\ monitor[w].at = "idle"
    /\ \E n \in 0..ScanRetries :
          /\ scanJobs[n] > 0
          /\ scanJobs' = [scanJobs EXCEPT ![n] = @ - 1]
          /\ monitor' = [monitor EXCEPT ![w] =
                [at |-> "scanning", failed |-> n, stopped |-> stoplist,
                 terms |-> {t \in Terms : terms[t].mode = "active" /\ ~terms[t].archived}]]
    /\ UNCHANGED <<analysts, matches, followed, ticks, reported>>

\* What the branches of a scan may find: for a term of the stoplist not what only the
\* search of the full text finds, certificates unless the worker follows them.
Applies(r) ==
    CASE r[2] = "fts" -> TRUE
      [] r[2] = "ct_log" -> TermType[r[1]] \in {"domain", "product"} /\ ~followed.enabled
      [] r[2] = "dnstwist" -> TermType[r[1]] = "domain"
      [] OTHER -> FALSE
Findable(w) == {r \in Hits : /\ r[1] \in monitor[w].terms
                             /\ Applies(r)
                             /\ ~(r \in Broad /\ r[1] \in monitor[w].stopped)}

\* score: a lookalike domain is of high severity if it resolves, and any may.
MayBeHigh(found) == {r \in found : r[2] = "dnstwist"}

\* The event of a match is inserted ON CONFLICT of three columns; since migration 021 the
\* unique index has four, and PostgreSQL refuses the statement.
ConflictColumns == {"source_id", "content_hash", "observed_at"}
UniqueColumns == {"project_id", "source_id", "content_hash", "observed_at"}
EventInserts == ConflictColumns = UniqueColumns

\* (mutant) A match that is found again is new again.
UpsertReopened(r) ==
    IF matches[r].status = "none" THEN [NoMatch EXCEPT !.status = "new"]
    ELSE [matches[r] EXCEPT !.status = "new"]

\* _upsert_match writes last_seen and the metadata of a row that is there.
Upserted(r) == IF matches[r].status = "none" THEN [NoMatch EXCEPT !.status = "new"] ELSE matches[r]

\* The scan has found what it has, some of it high, and commits: every event it made of a
\* high match that had not fired was inserted.
CommitScan(w) ==
    /\ monitor[w].at = "scanning"
    /\ \E found \in SUBSET Findable(w) : \E high \in SUBSET MayBeHigh(found) :
          /\ \A r \in high : matches[r].fired \/ EventInserts
          /\ matches' = [r \in Hits |->
                IF r \in found THEN [Upserted(r) EXCEPT !.fired = @ \/ r \in high] ELSE matches[r]]
          /\ reported' = reported \cup high
    /\ monitor' = [monitor EXCEPT ![w] = NoScan]
    /\ UNCHANGED <<analysts, followed, scanJobs, ticks>>

\* Dramatiq sends the message of a scan that raised again, until it has failed too often.
ScanAgain(w) ==
    /\ monitor' = [monitor EXCEPT ![w] = NoScan]
    /\ scanJobs' = [n \in 0..ScanRetries |->
                       IF n = monitor[w].failed + 1 THEN scanJobs[n] + 1 ELSE scanJobs[n]]

\* _maybe_synth swallows the error of the insert; the next statement fails in the aborted
\* transaction, and all that the scan has written is rolled back.
AbortScan(w) ==
    /\ monitor[w].at = "scanning"
    /\ \E r \in MayBeHigh(Findable(w)) :
          /\ ~matches[r].fired /\ ~EventInserts
          /\ reported' = reported \cup {r}
    /\ ScanAgain(w)
    /\ UNCHANGED <<analysts, matches, followed, ticks>>

\* Any other exception: two scans of the project that wait for each other's rows, the time limit.
FailScan(w) ==
    /\ monitor[w].at = "scanning"
    /\ ScanAgain(w)
    /\ UNCHANGED <<analysts, matches, followed, ticks, reported>>

-----------------------------------------------------------------------------
(* The certificate worker *)

\* _pattern_refresh_loop: it asks neither for the mode nor for the archived flag of a term.
RefreshPatterns ==
    /\ followed' = [followed EXCEPT !.terms =
          IF followed.enabled
          THEN {t \in Terms : terms[t].mode # "none" /\ TermType[t] \in {"domain", "product"}} ELSE {}]
    /\ UNCHANGED <<analysts, scans, matches>>

\* _upsert_match of the worker: the error of the insert is swallowed, and the commit of the
\* aborted transaction rolls it back.
CertificateMatch(r) ==
    /\ r[2] = "certstream" /\ r[1] \in followed.terms
    /\ matches' = IF EventInserts \/ matches[r].fired
                  THEN [matches EXCEPT ![r] = Upserted(r)] ELSE matches
    /\ UNCHANGED <<analysts, scans, followed>>

-----------------------------------------------------------------------------
(* scheduler/jobs.py *)

\* brand_dismiss_expiry_sweep_job, of those whose end has passed.
ExpirySweep ==
    /\ \E over \in SUBSET {r \in Hits : matches[r].status = "dismissed" /\ matches[r].until} :
          matches' = [r \in Hits |->
              IF r \in over THEN [matches[r] EXCEPT !.status = "new", !.until = FALSE] ELSE matches[r]]
    /\ UNCHANGED <<analysts, scans, followed>>

\* brand_gdpr_purge_job deletes the matches of persons that were first seen too long ago.
GdprPurge ==
    /\ \E old \in SUBSET {r \in Hits : TermType[r[1]] = "person" /\ matches[r].status # "none"} :
          /\ matches' = [r \in Hits |-> IF r \in old THEN NoMatch ELSE matches[r]]
          /\ decision' = [r \in Hits |-> IF r \in old THEN NoDecision ELSE decision[r]]
    /\ UNCHANGED <<terms, stoplist, edits, scans, followed>>

\* brand_noise_downgrade_sweep_job, by the matches of a term seen in the last 24 hours.
NoiseSweep ==
    /\ \E recent \in SUBSET {r \in Hits : matches[r].status # "none"} :
          terms' = [t \in Terms |->
              IF /\ terms[t].mode = "active" /\ ~terms[t].archived
                 /\ Cardinality({r \in recent : r[1] = t}) > NoiseThreshold
              THEN [terms[t] EXCEPT !.mode = "watch_only"] ELSE terms[t]]
    /\ UNCHANGED <<stoplist, edits, decision, scans, matches, followed>>

-----------------------------------------------------------------------------
BrandNext ==
    \/ \E t \in Terms :
          \/ \E role \in {"Observer", "Contributor", "Lead"}, consent \in BOOLEAN : CreateTerm(t, role, consent)
          \/ PatchTerm(t) \/ EditStoplist(t)
    \/ \E r \in Hits :
          \/ \E s \in Statuses : PatchMatch(r, s)
          \/ ExtendDismissal(r) \/ CertificateMatch(r)
    \/ BrandTick \/ RefreshPatterns \/ ExpirySweep \/ GdprPurge \/ NoiseSweep
    \/ \E w \in Monitors : LoadTerms(w) \/ CommitScan(w) \/ AbortScan(w) \/ FailScan(w)

BrandSpec == BrandInit /\ [][BrandNext]_brandVars

-----------------------------------------------------------------------------
(* Properties *)

\* Scans and sweeps leave a match as an analyst left it, but for a dismissal that was given
\* an end, which may be over ("Re-fire prevention" and the lifecycle in docs/ops/brand.md).
DecisionsStand ==
    \A r \in Hits :
        LET m == matches[r]
            d == decision[r]
        IN  \/ m.status = d.status /\ m.until = d.until
            \/ /\ m.status = "new" /\ ~m.until
               /\ d = NoDecision \/ (d.status = "dismissed" /\ d.until)

\* "_maybe_synth writes an events row + marks match fired": a match of high severity that a
\* scan came upon is stored and has fired.
HighMatchesFire == \A r \in reported : matches[r].status # "none" /\ matches[r].fired
=============================================================================
