------------------------------ MODULE MCIntel ------------------------------
(***************************************************************************)
(* The polls of the sources, the scheduler's jobs for them and those that  *)
(* watch them, the enrichment of an indicator that they find, the          *)
(* detonation of a sample, and the token budget of the summaries that are  *)
(* made of their events, for TLC.  They share no state: the run explores   *)
(* each with the others at rest (intel), never their product.              *)
(*                                                                         *)
(* A TAXII source and one of any kind publish items that mention the same  *)
(* two indicators of one project; the budget has an event's summary and a  *)
(* case's, with estimates that nearly fill it.                             *)
(***************************************************************************)
EXTENDS TokenBudget, Ingest, SourceJobs, Enrichment, Monitoring, Sandbox, TLC

CONSTANTS e1, c1, f1, f2, p1, i1, i2

MCKind == [c \in Calls |-> IF c = e1 THEN "event" ELSE "case"]
MCEstimate == [c \in Calls |-> IF c = c1 THEN 2 ELSE 5]
MCBoundTo == (f1 :> {p1}) @@ (f2 :> {p1})
\* Two polls with an item that mentions both indicators are enough for a deadlock.
MCMentions == [i \in Items |-> IF i = 1 THEN {i1, i2} ELSE {}]

\* The threads that poll are interchangeable.
MCSymmetry == Permutations(Pollers)

VARIABLE intel

IntelInit ==
    /\ intel \in {"budget", "ingest", "jobs", "enrichment", "monitoring", "sandbox"}
    /\ Init /\ IngestInit /\ SourceJobsInit /\ EnrichmentInit
    /\ MonitoringInit /\ SandboxInit
    /\ kind[f1] = "taxii" /\ malformed \in {{}, {<<f2, 2>>}}
    \* These differ from rss and paste in their refusals alone.
    /\ kind[f2] \notin {"social", "tor_html"}
    \* What is malformed matters to a cursor.
    /\ kind[f2] \notin {"nvd", "taxii", "otx"} => malformed = {}
    \* At rest, one initial state is enough.
    /\ intel # "ingest" => malformed = {} /\ kind[f2] = "taxii"

sourcesVars == <<vars, ingestVars, sourceJobsVars, enrichmentVars>>
followUpVars == <<monitoringVars, sandboxVars>>
intelVars == <<intel, sourcesVars, followUpVars>>

IntelNext ==
    \/ /\ UNCHANGED <<intel, followUpVars>>
       /\ \/ /\ intel = "budget" /\ Next
             /\ UNCHANGED <<ingestVars, sourceJobsVars, enrichmentVars>>
          \/ /\ intel = "ingest" /\ IngestNext
             /\ UNCHANGED <<vars, sourceJobsVars, enrichmentVars>>
          \/ /\ intel = "jobs" /\ SourceJobsNext
             /\ UNCHANGED <<vars, ingestVars, enrichmentVars>>
          \/ /\ intel = "enrichment" /\ EnrichmentNext
             /\ UNCHANGED <<vars, ingestVars, sourceJobsVars>>
    \/ /\ UNCHANGED <<intel, sourcesVars>>
       /\ \/ intel = "monitoring" /\ MonitoringNext /\ UNCHANGED sandboxVars
          \/ intel = "sandbox" /\ SandboxNext /\ UNCHANGED monitoringVars

IntelSpec == IntelInit /\ [][IntelNext]_intelVars

\* The state of each is well formed, down to what a handler, a poll or a job between two of
\* its steps relies on; stated part by part in the modules.
IntelTypeOK ==
    /\ intel = "budget" => TypeOK
    /\ intel = "ingest" => IngestTypeOK
    /\ intel = "jobs" => SourceJobsTypeOK
    /\ intel = "enrichment" => EnrichmentTypeOK
    /\ intel = "monitoring" => MonitoringTypeOK
    /\ intel = "sandbox" => SandboxTypeOK
=============================================================================
