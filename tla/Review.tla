------------------------------- MODULE Review -------------------------------
(***************************************************************************)
(* What analysts make of the suggestions of the AI workers: ai_suggestions *)
(* (services/llm/suggestion_validator.py, routers/ai.py,                   *)
(* scheduler/ai_jobs.py), and the exchange with MISP that follows from it: *)
(* misp_configs (routers/misp.py), the push of a confirmed suggestion      *)
(* (workers/misp_push.py) and the pull every six hours                     *)
(* (workers/misp_pull.py, scheduler/jobs.py).                              *)
(*                                                                         *)
(* A row is old, and so expires, at any moment.                            *)
(***************************************************************************)
EXTENDS Integers, FiniteSets

CONSTANTS
    Suggestions,  \* rows of ai_suggestions
    Reviewers,    \* requests that decide some of them
    PushRetries,  \* max_retries of misp_push_suggestion
    MaxDecisions  \* bound: requests

ASSUME ReviewBounds == {PushRetries, MaxDecisions} \subseteq Nat

VARIABLES
    suggestion,  \* each row; asked: what the user in decided_by_user_id asked for
    reviewer,    \* each request
    decisions,
    misp,        \* the project's row of misp_configs
    pullJob,     \* is there a pull job in the scheduler
    pushes,      \* messages of misp_push_suggestion by how often they have failed
    sideBySide   \* history: rows that two requests decided side by side

reviewVars == <<suggestion, reviewer, decisions, misp, pullJob, pushes, sideBySide>>

Decisions == {"confirmed", "discarded"}
\* seen: the status of each row as the request has loaded it.
Reviewer == [at : {"idle", "loaded", "decided"}, wants : Decisions, ids : SUBSET Suggestions,
             seen : [Suggestions -> {"none", "pending"} \cup Decisions]]
NoReviewer == [at |-> "idle", wants |-> "discarded", ids |-> {},
               seen |-> [s \in Suggestions |-> "none"]]
NoMisp == [there |-> FALSE, enabled |-> FALSE, pushes |-> FALSE]

\* The rows, the requests and the messages; a request has loaded rows that are there.
ReviewTypeOK ==
    /\ suggestion \in [Suggestions -> [status : {"none", "pending"} \cup Decisions,
                                       asked : {"none"} \cup Decisions]]
    /\ reviewer \in [Reviewers -> Reviewer]
    /\ \A h \in Reviewers : \A s \in reviewer[h].ids :
          reviewer[h].seen[s] # "none" /\ suggestion[s].status # "none"
    /\ decisions \in 0..MaxDecisions
    /\ misp \in [there : BOOLEAN, enabled : BOOLEAN, pushes : BOOLEAN]
    /\ ~misp.there => misp = NoMisp
    /\ pullJob \in BOOLEAN
    /\ pushes \in [0..PushRetries -> 0..MaxDecisions]
    /\ sideBySide \subseteq Suggestions

ReviewInit ==
    /\ suggestion = [s \in Suggestions |-> [status |-> "none", asked |-> "none"]]
    /\ reviewer = [h \in Reviewers |-> NoReviewer]
    /\ decisions = 0
    /\ misp = NoMisp /\ pullJob = FALSE
    /\ pushes = [n \in 0..PushRetries |-> 0]
    /\ sideBySide = {}

-----------------------------------------------------------------------------
(* Suggestions *)

\* validate_and_stage_suggestions; they are committed with the summary they come from.
StageSuggestions ==
    /\ \E new \in SUBSET {s \in Suggestions : suggestion[s].status = "none"} :
          /\ new # {}
          /\ suggestion' = [s \in Suggestions |->
                 IF s \in new THEN [status |-> "pending", asked |-> "none"] ELSE suggestion[s]]
    /\ UNCHANGED <<reviewer, decisions, misp, pullJob, pushes, sideBySide>>

Staged == {s \in Suggestions : suggestion[s].status # "none"}
Handled == UNION {reviewer[h].ids : h \in {q \in Reviewers : reviewer[q].at = "loaded"}}

\* _transition_suggestion of one row, _bulk_transition of any; a row of any status.
LoadSuggestions(h) ==
    /\ reviewer[h].at = "idle" /\ decisions < MaxDecisions
    /\ decisions' = decisions + 1
    /\ \E ids \in SUBSET Staged \ {{}}, d \in Decisions :
          /\ reviewer' = [reviewer EXCEPT ![h] =
                [at |-> "loaded", wants |-> d, ids |-> ids,
                 seen |-> [s \in Suggestions |-> IF s \in ids THEN suggestion[s].status ELSE "none"]]]
          /\ sideBySide' = sideBySide \cup (ids \cap Handled)
    /\ UNCHANGED <<suggestion, misp, pullJob, pushes>>

\* The rows are written with their decider and, where the status differs from the one that
\* was loaded, their status: SQLAlchemy leaves out a column that has not changed.
CommitDecision(h) ==
    /\ reviewer[h].at = "loaded"
    /\ LET d == reviewer[h].wants
       IN  suggestion' = [s \in Suggestions |->
               IF s \notin reviewer[h].ids THEN suggestion[s]
               ELSE [status |-> IF reviewer[h].seen[s] = d THEN suggestion[s].status ELSE d, asked |-> d]]
    /\ reviewer' = [reviewer EXCEPT ![h].at = "decided"]
    /\ UNCHANGED <<decisions, misp, pullJob, pushes, sideBySide>>

\* confirm_suggestion goes on to _enqueue_misp_push_if_configured, whatever the row says by
\* then; the bulk request does not, nor does a discard.
AnswerReviewer(h) ==
    /\ reviewer[h].at = "decided"
    /\ pushes' \in {pushes} \cup
           (IF /\ reviewer[h].wants = "confirmed" /\ Cardinality(reviewer[h].ids) = 1
               /\ misp.enabled /\ misp.pushes
            THEN {[pushes EXCEPT ![0] = @ + 1]} ELSE {})
    /\ reviewer' = [reviewer EXCEPT ![h] = NoReviewer]
    /\ UNCHANGED <<suggestion, decisions, misp, pullJob, sideBySide>>

\* (mutant) Rows expire whatever was decided.
ExpireAll ==
    /\ \E old \in SUBSET Staged :
          suggestion' = [s \in Suggestions |->
              IF s \in old THEN [suggestion[s] EXCEPT !.status = "discarded"] ELSE suggestion[s]]
    /\ UNCHANGED <<reviewer, decisions, misp, pullJob, pushes, sideBySide>>

\* ai_suggestion_expiry_job: one UPDATE of the rows that are pending and old.
ExpireSuggestions ==
    /\ \E old \in SUBSET {s \in Suggestions : suggestion[s].status = "pending"} :
          suggestion' = [s \in Suggestions |->
              IF s \in old THEN [suggestion[s] EXCEPT !.status = "discarded"] ELSE suggestion[s]]
    /\ UNCHANGED <<reviewer, decisions, misp, pullJob, pushes, sideBySide>>

-----------------------------------------------------------------------------
(* MISP *)

\* upsert_misp_config and patch_misp_config; pushes: is the type among push_types.
WriteMisp ==
    /\ \E on, push \in BOOLEAN : misp' = [there |-> TRUE, enabled |-> on, pushes |-> push]
    /\ UNCHANGED <<suggestion, reviewer, decisions, pullJob, pushes, sideBySide>>

DeleteMisp ==
    /\ misp.there
    /\ misp' = NoMisp
    /\ UNCHANGED <<suggestion, reviewer, decisions, pullJob, pushes, sideBySide>>

\* The columns that misp_push_suggestion selects, and those of ai_suggestions (models/ai.py).
PushSelects == {"suggestion_type", "content"}
SuggestionColumns == {"id", "ai_summary_id", "project_id", "event_id", "suggestion_type", "value", "status",
                      "decided_by_user_id", "decided_at", "created_at"}

\* The push ends without an enabled configuration and, if its query can be run, after it has
\* called MISP, whatever the outcome; otherwise it raises, and Dramatiq sends it again.
PushSuggestion(n) ==
    /\ pushes[n] > 0
    /\ pushes' = [k \in 0..PushRetries |->
           pushes[k] - (IF k = n THEN 1 ELSE 0)
                     + (IF k = n + 1 /\ misp.enabled /\ ~(PushSelects \subseteq SuggestionColumns) THEN 1 ELSE 0)]
    /\ UNCHANGED <<suggestion, reviewer, decisions, misp, pullJob, sideBySide>>

\* register_misp_jobs when the scheduler starts; the job keeps the configuration of then.
RestartPulls ==
    /\ pullJob' = misp.enabled
    /\ UNCHANGED <<suggestion, reviewer, decisions, misp, pushes, sideBySide>>

ReviewNext ==
    \/ StageSuggestions \/ ExpireSuggestions \/ WriteMisp \/ DeleteMisp \/ RestartPulls
    \/ \E h \in Reviewers : LoadSuggestions(h) \/ CommitDecision(h) \/ AnswerReviewer(h)
    \/ \E n \in 0..PushRetries : PushSuggestion(n)

ReviewSpec == ReviewInit /\ [][ReviewNext]_reviewVars

-----------------------------------------------------------------------------
(* Properties *)

\* A row has the status that the user it names as its decider asked for, and without a
\* decider it is pending or has expired, unless requests that decide it overlap
\* ("Confirmed/discarded rows never auto-expire", scheduler/ai_jobs.py).
DecidedAsAsked ==
    \A s \in Suggestions \ sideBySide :
        IF suggestion[s].asked = "none" THEN suggestion[s].status # "confirmed"
        ELSE suggestion[s].status = suggestion[s].asked
=============================================================================
