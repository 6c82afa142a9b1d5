------------------------------ MODULE Reports ------------------------------
(***************************************************************************)
(* One TIBER report (routers/tiber.py): the row with its state, the actor  *)
(* profiles and scenarios that belong to it, a clone made of it, and the   *)
(* exports of one format that generate_report_actor (workers/reports.py)   *)
(* adds.                                                                   *)
(*                                                                         *)
(* Texts are abstracted to what the gates look at: whether what is written *)
(* about the report, its events, its summary, an actor and a scenario are  *)
(* complete.  A handler that checks the state takes its check and its      *)
(* commit as two steps.                                                    *)
(***************************************************************************)
EXTENDS Integers, FiniteSets

CONSTANTS
    Profiles,      \* rows of tiber_actor_profiles the report may have
    Scenarios,     \* rows of tiber_scenarios it may have
    NoProfile,     \* the actor of a scenario that has none
    OtherProfile,  \* an actor profile of another report
    MinProfiles,   \* 3 in completeness_check,
    MinSelected,   \* 3 in both checks and
    MaxScenarios,  \* 6 in scenario_gate_check
    Editors,       \* handlers under way at once
    Exporters,     \* worker threads on the queue reports
    MaxExports,    \* bound: exports that are asked for
    MaxRetries     \* bound: attempts that fail and are made again

ASSUME ProfilesDiffer == NoProfile # OtherProfile /\ {NoProfile, OtherProfile} \cap Profiles = {}
ASSUME ExportersFinite == IsFiniteSet(Exporters)
ASSUME ExportBounds == MaxExports \in Nat /\ MaxRetries \in Nat

VARIABLES
    report,    \* its state; whether what analysts write of it is there (full), its
               \* tl_top_events are enough (events) and its aia_summary_text is there (summary)
    profile,   \* each actor profile: "none", "partial" or "full"
    scenario,  \* each scenario
    pending,   \* handlers between their check and their commit
    copy,      \* the clone: the profiles copied, and those its scenarios name
    jobs,      \* messages of generate_report_actor
    exporter,  \* each thread: "idle", "loaded", or the version it has computed
    exports,   \* rows of report_exports: how many there are of each version
    requested, retried,
    abreast    \* history: two exports computed their version side by side

parts == <<report, profile, scenario>>
exporting == <<jobs, exporter, exports, requested, retried, abreast>>
reportsVars == <<parts, pending, copy, exporting>>

States == {"draft", "published", "archived"}
Scenario == [there : BOOLEAN, actor : Profiles \cup {NoProfile, OtherProfile}, selected : BOOLEAN, full : BOOLEAN]
NoScenario == [there |-> FALSE, actor |-> NoProfile, selected |-> FALSE, full |-> FALSE]
ExportVersions == 1..(MaxExports + MaxRetries)
NoCopy == [made |-> "no", profiles |-> {}, named |-> {}]

\* The rows a scenario may name: patch_scenario does not ask whose they are.
There == {p \in Profiles : profile[p] # "none"}
Actors == There \cup {NoProfile, OtherProfile}
Longlist == {s \in Scenarios : scenario[s].there}

\* The rows, the handlers and the exports; a scenario names an actor profile that is there.
ReportsTypeOK ==
    /\ report \in [state : States, full : BOOLEAN, events : BOOLEAN, summary : BOOLEAN]
    /\ profile \in [Profiles -> {"none", "partial", "full"}]
    /\ scenario \in [Scenarios -> Scenario]
    /\ \A s \in Scenarios : scenario[s].actor \in Actors
    /\ pending \in [Editors -> {"idle", "patch", "publish", "archive", "restore"}]
    /\ copy \in [made : {"no", "profiles", "yes"}, profiles : SUBSET Profiles,
                 named : SUBSET (Profiles \cup {OtherProfile})]
    /\ jobs \in Nat
    /\ exporter \in [Exporters -> {-1, 0} \cup ExportVersions]
    /\ exports \in [ExportVersions -> Nat]
    /\ requested \in 0..MaxExports /\ retried \in 0..MaxRetries
    /\ abreast \in BOOLEAN

Resting == -1   \* a thread without a message
Loaded == 0     \* it has read the report, and goes on to render it

\* What populate_actor_profiles fills in, whatever the graph holds: a profile for each threat
\* group, without its assessments, ...
FilledProfiles == [Profiles -> {"none", "partial"}]
\* ... and populate_scenarios_longlist: a scenario for each technique, without an actor and not selected.
FilledScenarios == {[s \in Scenarios |-> [NoScenario EXCEPT !.there = s \in ss]] : ss \in SUBSET Scenarios}

\* create_report: the two sections it fills in may be found or not, what analysts write is missing.
ReportsInit ==
    /\ report \in [state : {"draft"}, full : {FALSE}, events : BOOLEAN, summary : BOOLEAN]
    /\ profile \in FilledProfiles /\ scenario \in FilledScenarios
    /\ pending = [e \in Editors |-> "idle"]
    /\ copy = NoCopy
    /\ jobs = 0 /\ requested = 0 /\ retried = 0
    /\ exporter = [x \in Exporters |-> Resting]
    /\ exports = [v \in ExportVersions |-> 0]
    /\ abreast = FALSE

-----------------------------------------------------------------------------
(* The gates: services/tiber/validators.py *)

\* completeness_check: the report's fields, enough profiles, each of them complete,
\* and enough scenarios that are selected.
Selected == {s \in Longlist : scenario[s].selected}
Complete ==
    /\ report.full /\ report.events /\ report.summary
    /\ Cardinality(There) >= MinProfiles
    /\ \A p \in There : profile[p] = "full"
    /\ Cardinality(Selected) >= MinSelected

\* scenario_gate_check: not too many, and each one selected is complete.
ScenariosReady ==
    /\ Cardinality(Longlist) <= MaxScenarios
    /\ \A s \in Selected : scenario[s].full /\ scenario[s].actor # NoProfile

Gates == Complete /\ ScenariosReady

-----------------------------------------------------------------------------
(* The row of the report *)

Check(e, op) == pending[e] = "idle" /\ pending' = [pending EXCEPT ![e] = op]
Done(e, op) == pending[e] = op /\ pending' = [pending EXCEPT ![e] = "idle"]

\* patch_report refuses a published report; ...
PatchReport(e) ==
    /\ report.state # "published"
    /\ Check(e, "patch")
    /\ UNCHANGED <<parts, copy, exporting>>

\* ... it writes the fields it was given, the summary among them; not the state, nor the events.
CommitPatch(e) ==
    /\ Done(e, "patch")
    /\ \E full, summary \in BOOLEAN : report' = [report EXCEPT !.full = full, !.summary = summary]
    /\ UNCHANGED <<profile, scenario, copy, exporting>>

\* The events that populate_threat_landscape finds now, enough or not, in the place of the
\* others, or the text of populate_actionable_intelligence, which is never empty.
Refreshed ==
    {[report EXCEPT !.events = enough] : enough \in BOOLEAN} \cup {[report EXCEPT !.summary = TRUE]}

\* apply_section_refresh writes it, whatever the state.
ApplySection ==
    /\ report' \in Refreshed
    /\ UNCHANGED <<profile, scenario, pending, copy, exporting>>

\* publish_report of a draft that passes the gates.
PublishReport(e) ==
    /\ report.state = "draft" /\ Gates
    /\ Check(e, "publish")
    /\ UNCHANGED <<parts, copy, exporting>>

\* archive_report and restore_report.
ArchiveReport(e) ==
    /\ report.state = "published"
    /\ Check(e, "archive")
    /\ UNCHANGED <<parts, copy, exporting>>

RestoreReport(e) ==
    /\ report.state = "archived"
    /\ Check(e, "restore")
    /\ UNCHANGED <<parts, copy, exporting>>

\* The three write the state, whatever it has become.
CommitState(e) ==
    \E move \in {<<"publish", "published">>, <<"archive", "archived">>, <<"restore", "draft">>} :
        /\ Done(e, move[1])
        /\ report' = [report EXCEPT !.state = move[2]]
        /\ UNCHANGED <<profile, scenario, copy, exporting>>

-----------------------------------------------------------------------------
(* Profiles and scenarios: none of these looks at the state of the report *)

\* create_actor and patch_actor.
WriteProfile(p) ==
    /\ \E x \in {"partial", "full"} : profile' = [profile EXCEPT ![p] = x]
    /\ UNCHANGED <<report, scenario, pending, copy, exporting>>

\* delete_actor; the scenarios that name it are left without one (ON DELETE SET NULL).
DeleteProfile(p) ==
    /\ p \in There
    /\ profile' = [profile EXCEPT ![p] = "none"]
    /\ scenario' = [s \in Scenarios |-> IF scenario[s].actor = p
                                        THEN [scenario[s] EXCEPT !.actor = NoProfile] ELSE scenario[s]]
    /\ UNCHANGED <<report, pending, copy, exporting>>

\* create_scenario and patch_scenario; the actor is any row of the table, or none.
WriteScenario(s) ==
    /\ \E sc \in Scenario :
          /\ sc.there /\ sc.actor \in Actors
          /\ scenario' = [scenario EXCEPT ![s] = sc]
    /\ UNCHANGED <<report, profile, pending, copy, exporting>>

\* delete_scenario.
DeleteScenario(s) ==
    /\ s \in Longlist
    /\ scenario' = [scenario EXCEPT ![s] = NoScenario]
    /\ UNCHANGED <<report, profile, pending, copy, exporting>>

-----------------------------------------------------------------------------
(* clone_report *)

\* It copies the profiles, remembering the new row of each, ...
CloneProfiles ==
    /\ copy.made = "no"
    /\ copy' = [made |-> "profiles", profiles |-> There, named |-> {}]
    /\ UNCHANGED <<parts, pending, exporting>>

\* (mutant) A scenario's actor is copied as it is.
CloneScenariosAsTheyAre ==
    /\ copy.made = "profiles"
    /\ copy' = [copy EXCEPT !.made = "yes",
                            !.named = {scenario[s].actor : s \in Longlist} \ {NoProfile}]
    /\ UNCHANGED <<parts, pending, exporting>>

\* ... and then the scenarios, each with the new row of its actor, if that was copied.
CloneScenarios ==
    /\ copy.made = "profiles"
    /\ copy' = [copy EXCEPT !.made = "yes",
                            !.named = {scenario[s].actor : s \in Longlist} \cap copy.profiles]
    /\ UNCHANGED <<parts, pending, exporting>>

-----------------------------------------------------------------------------
(* Exports *)

\* create_export passes the gates and sends the message.
CreateExport ==
    /\ requested < MaxExports
    /\ Gates
    /\ requested' = requested + 1
    /\ jobs' = jobs + 1
    /\ UNCHANGED <<parts, pending, copy, exporter, exports, retried, abreast>>

\* _async_generate reads the report and renders it, ...
LoadReport(x) ==
    /\ exporter[x] = Resting /\ jobs > 0
    /\ jobs' = jobs - 1
    /\ exporter' = [exporter EXCEPT ![x] = Loaded]
    /\ UNCHANGED <<parts, pending, copy, exports, requested, retried, abreast>>

Stored == {v \in ExportVersions : exports[v] > 0}
Newest == IF Stored = {} THEN 0 ELSE CHOOSE v \in Stored : \A w \in Stored : w <= v

\* (mutant) The version counts the requests.
ComputeVersionOfRequest(x) ==
    /\ exporter[x] = Loaded
    /\ exporter' = [exporter EXCEPT ![x] = requested]
    /\ abreast' = (abreast \/ \E y \in Exporters : exporter[y] \in ExportVersions)
    /\ UNCHANGED <<parts, pending, copy, jobs, exports, requested, retried>>

\* ... computes max(version_number) + 1, ...
ComputeVersion(x) ==
    /\ exporter[x] = Loaded
    /\ exporter' = [exporter EXCEPT ![x] = Newest + 1]
    /\ abreast' = (abreast \/ \E y \in Exporters : exporter[y] \in ExportVersions)
    /\ UNCHANGED <<parts, pending, copy, jobs, exports, requested, retried>>

\* ... and commits a row with it.
CommitExport(x) ==
    /\ exporter[x] \in ExportVersions
    /\ exports' = [exports EXCEPT ![exporter[x]] = @ + 1]
    /\ exporter' = [exporter EXCEPT ![x] = Resting]
    /\ UNCHANGED <<parts, pending, copy, jobs, requested, retried, abreast>>

\* It raises before the commit, on weasyprint's timeout for one, or the worker dies,
\* and the message is sent again (max_retries=2).
RetryExport(x) ==
    /\ exporter[x] # Resting /\ retried < MaxRetries
    /\ retried' = retried + 1
    /\ jobs' = jobs + 1
    /\ exporter' = [exporter EXCEPT ![x] = Resting]
    /\ UNCHANGED <<parts, pending, copy, exports, requested, abreast>>

\* The worker dies after the commit and before the message is acknowledged.
RepeatExport(x) ==
    /\ exporter[x] \in ExportVersions /\ retried < MaxRetries
    /\ exports' = [exports EXCEPT ![exporter[x]] = @ + 1]
    /\ retried' = retried + 1
    /\ jobs' = jobs + 1
    /\ exporter' = [exporter EXCEPT ![x] = Resting]
    /\ UNCHANGED <<parts, pending, copy, requested, abreast>>

-----------------------------------------------------------------------------
ReportsNext ==
    \/ ApplySection \/ CloneProfiles \/ CloneScenarios \/ CreateExport
    \/ \E e \in Editors : \/ PatchReport(e) \/ CommitPatch(e)
                          \/ PublishReport(e) \/ ArchiveReport(e) \/ RestoreReport(e) \/ CommitState(e)
    \/ \E p \in Profiles : WriteProfile(p) \/ DeleteProfile(p)
    \/ \E s \in Scenarios : WriteScenario(s) \/ DeleteScenario(s)
    \/ \E x \in Exporters : \/ LoadReport(x) \/ ComputeVersion(x) \/ CommitExport(x)
                            \/ RetryExport(x) \/ RepeatExport(x)

ReportsSpec == ReportsInit /\ [][ReportsNext]_reportsVars

-----------------------------------------------------------------------------
(* Properties *)

\* The versions of a report's exports have no gaps, whatever exports run side by side,
\* fail or are repeated, and none is given twice unless two were computed side by side
\* ("monotonic version_number": nothing locks the maximum, and no constraint holds it).
VersionsCount ==
    /\ Stored = 1..Newest
    /\ (\E v \in ExportVersions : exports[v] > 1) => abreast

\* The scenarios of a clone name actors of the clone, also when profiles come and go
\* while it is made (clone_report: "remap actor_id refs to new actor IDs").
CloneIsItsOwn == copy.named \subseteq copy.profiles

\* What is made of a report while others write it holds together: its exports and its clone.
DocumentsHold == VersionsCount /\ CloneIsItsOwn

\* "published reports are immutable" (patch_report): while a report stays published,
\* neither its fields nor its profiles and scenarios change.
PublishedIsImmutable ==
    [][report.state = "published" /\ report'.state = "published" => UNCHANGED parts]_reportsVars
=============================================================================
