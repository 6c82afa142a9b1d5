----------------------------- MODULE Indicators -----------------------------
(***************************************************************************)
(* The rows of iocs that have one normalized value: the global one and one *)
(* for each project (unique on project, type and value).  Events, the      *)
(* backfill and imports see the value again, a nightly job expires rows,   *)
(* and analysts whitelist, patch and delete them: services/iocs.py and     *)
(* routers/iocs.py.  A handler loads its row in one step and commits in    *)
(* another, with others in between.                                        *)
(***************************************************************************)
CONSTANTS
    IocProjects,
    Global,        \* the scope of the rows whose project_id is NULL
    IocRequests,   \* handlers under way at once
    Confidences,   \* values of confidence
    NoWord         \* an analyst has not said

ASSUME GlobalIsNoProject == Global \notin IocProjects
ASSUME ConfidencesGiven == Confidences # {}
ASSUME NoWordIsNoConfidence == NoWord \notin Confidences \cup {"active", "whitelisted"}

VARIABLES
    ioc,          \* each scope's row: its status ("none": no row) and confidence
    iocRequest,   \* each handler: what it is to do, on which row, and that row as it was loaded
    decided       \* history: what analysts last said of each row

indicatorsVars == <<ioc, iocRequest, decided>>

IocScopes == IocProjects \cup {Global}
Analysts == IocProjects \cup {"admin"}   \* the Lead of a project, and an admin
IocStatuses == {"none", "active", "expired", "whitelisted"}
IndicatorRow == [status : IocStatuses, confidence : Confidences]
Ops == {"none", "whitelist", "clone", "unwhitelist", "patch", "delete"}

Absent == [status |-> "none", confidence |-> CHOOSE c \in Confidences : TRUE]
Unsaid == [status |-> NoWord, confidence |-> NoWord]
NoRequest == [op |-> "none", scope |-> Global, into |-> Global, seen |-> Absent, gone |-> FALSE]

\* The rows, and what a handler relies on between its steps: it has loaded a row, which
\* is still there unless it was deleted.
IndicatorsTypeOK ==
    /\ ioc \in [IocScopes -> IndicatorRow]
    /\ iocRequest \in [IocRequests -> [op : Ops, scope : IocScopes, into : IocScopes,
                                       seen : IndicatorRow, gone : BOOLEAN]]
    /\ decided \in [IocScopes -> [status : {NoWord, "active", "whitelisted"},
                                  confidence : Confidences \cup {NoWord}]]
    /\ \A r \in IocRequests :
          iocRequest[r].op # "none" =>
              /\ iocRequest[r].seen.status # "none"
              /\ ~iocRequest[r].gone => ioc[iocRequest[r].scope].status # "none"

IndicatorsInit ==
    /\ ioc = [s \in IocScopes |-> Absent]
    /\ iocRequest = [r \in IocRequests |-> NoRequest]
    /\ decided = [s \in IocScopes |-> Unsaid]

-----------------------------------------------------------------------------
(* services/iocs.py *)

Inserted(confidence) == [status |-> "active", confidence |-> confidence]

\* (mutant) A value that is seen again is active.
ResightActive(row) == [row EXCEPT !.status = "active"]

\* ON CONFLICT DO UPDATE: an expired row is active again, and nothing else but the times changes.
Resight(row) == [row EXCEPT !.status = IF @ = "expired" THEN "active" ELSE @]

\* upsert_ioc_for_event(_sync) and upsert_ioc_row, with what an event, the backfill or a
\* line of an import says of the value.
Sight(s) ==
    /\ \/ ioc[s].status # "none" /\ ioc' = [ioc EXCEPT ![s] = Resight(@)]
       \/ /\ ioc[s].status = "none"
          /\ \E confidence \in Confidences : ioc' = [ioc EXCEPT ![s] = Inserted(confidence)]
    /\ UNCHANGED <<iocRequest, decided>>

\* expire_iocs, of the scheduler: the active rows not seen for their ttl_days.
Expire ==
    /\ \E old \in SUBSET {s \in IocScopes : ioc[s].status = "active"} :
          ioc' = [s \in IocScopes |-> IF s \in old THEN [ioc[s] EXCEPT !.status = "expired"] ELSE ioc[s]]
    /\ UNCHANGED <<iocRequest, decided>>

-----------------------------------------------------------------------------
(* routers/iocs.py *)

\* The Lead's token says which project; an admin passes everywhere.
Visible(a, s) == a = "admin" \/ s \in {a, Global}
LeadOf(a, s) == a = "admin" \/ a = s

\* What the handlers let through; a Lead who whitelists a global row gets a clone.
Allowed(a, op, s) ==
    CASE op = "whitelist" -> LeadOf(a, s)
      [] op = "clone" -> s = Global /\ a # "admin"
      [] op \in {"unwhitelist", "patch"} -> LeadOf(a, s)
      [] op = "delete" -> a = "admin"

\* _fetch_visible_ioc and the check of the role.
LoadIoc(r, op, s) ==
    /\ iocRequest[r].op = "none" /\ ioc[s].status # "none"
    /\ \E into \in {IF op = "clone" THEN a ELSE s : a \in {x \in Analysts : Visible(x, s) /\ Allowed(x, op, s)}} :
          iocRequest' = [iocRequest EXCEPT ![r] = [op |-> op, scope |-> s, into |-> into,
                                                   seen |-> ioc[s], gone |-> FALSE]]
    /\ UNCHANGED <<ioc, decided>>

Respond(r) == iocRequest' = [iocRequest EXCEPT ![r] = NoRequest]

\* The session writes a column only if it differs from what was loaded.
CommitStatus(r, op, status) ==
    LET q == iocRequest[r]
    IN  /\ q.op = op /\ ~q.gone
        /\ IF q.seen.status = status THEN UNCHANGED <<ioc, decided>>
           ELSE /\ ioc' = [ioc EXCEPT ![q.scope].status = status]
                /\ decided' = [decided EXCEPT ![q.scope].status = status]
        /\ Respond(r)

WhitelistIoc(r) == CommitStatus(r, "whitelist", "whitelisted")
UnwhitelistIoc(r) == CommitStatus(r, "unwhitelist", "active")

PatchIoc(r) ==
    LET q == iocRequest[r]
    IN  /\ q.op = "patch" /\ ~q.gone
        /\ \E confidence \in Confidences :
              IF confidence = q.seen.confidence THEN UNCHANGED <<ioc, decided>>
              ELSE /\ ioc' = [ioc EXCEPT ![q.scope].confidence = confidence]
                   /\ decided' = [decided EXCEPT ![q.scope].confidence = confidence]
        /\ Respond(r)

\* The row was deleted: no row is updated, and the session raises StaleDataError.
UpdateNothing(r) ==
    /\ iocRequest[r].gone /\ iocRequest[r].op \in {"whitelist", "unwhitelist", "patch"}
    /\ Respond(r)
    /\ UNCHANGED <<ioc, decided>>

\* clone_global_to_project_whitelisted: one statement, with what was loaded of the global row.
CloneIoc(r) ==
    LET q == iocRequest[r]
    IN  /\ q.op = "clone"
        /\ ioc' = [ioc EXCEPT ![q.into] = IF @.status = "none" THEN [q.seen EXCEPT !.status = "whitelisted"]
                                          ELSE [@ EXCEPT !.status = "whitelisted"]]
        /\ decided' = [decided EXCEPT ![q.into].status = "whitelisted"]
        /\ Respond(r)

\* The handlers that have loaded the row hold one that is gone, whatever is inserted later.
DeleteIoc(r) ==
    LET q == iocRequest[r]
    IN  /\ q.op = "delete"
        /\ IF q.gone THEN UNCHANGED <<ioc, decided>> /\ Respond(r)
           ELSE /\ ioc' = [ioc EXCEPT ![q.scope] = Absent]
                /\ decided' = [decided EXCEPT ![q.scope] = Unsaid]
                /\ iocRequest' = [v \in IocRequests |->
                                     IF v = r THEN NoRequest
                                     ELSE IF iocRequest[v].op # "none" /\ iocRequest[v].scope = q.scope
                                     THEN [iocRequest[v] EXCEPT !.gone = TRUE]
                                     ELSE iocRequest[v]]

IndicatorsNext ==
    \/ \E s \in IocScopes : Sight(s)
    \/ Expire
    \/ \E r \in IocRequests :
          \/ \E op \in Ops \ {"none"}, s \in IocScopes : LoadIoc(r, op, s)
          \/ WhitelistIoc(r) \/ UnwhitelistIoc(r) \/ PatchIoc(r) \/ UpdateNothing(r)
          \/ CloneIoc(r) \/ DeleteIoc(r)

IndicatorsSpec == IndicatorsInit /\ [][IndicatorsNext]_indicatorsVars

-----------------------------------------------------------------------------
(* Properties *)

\* What an analyst last wrote of a row holds until another analyst writes, through events,
\* imports, the backfill, expiry and handlers that overlap: a row is whitelisted exactly
\* when the last word on it was to whitelist it, a project's clone and the global row each
\* by its own word, and a confidence that was set is not overwritten.
AnalystsDecide ==
    \A s \in IocScopes :
        /\ ioc[s].status = "whitelisted" <=> decided[s].status = "whitelisted"
        /\ decided[s].confidence # NoWord => ioc[s].confidence = decided[s].confidence
=============================================================================
