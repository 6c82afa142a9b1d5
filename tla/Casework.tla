------------------------------ MODULE Casework ------------------------------
(***************************************************************************)
(* Cases and campaigns, the events and indicators attached to them, and    *)
(* the audit log that says so (routers/cases.py, routers/campaigns.py,     *)
(* services/audit.py).                                                     *)
(*                                                                         *)
(* A request is one transaction under READ COMMITTED: it loads the case or *)
(* campaign, reads and writes row by row, adds a row of the audit log and  *)
(* commits.  An inserted link locks its case, its indicator and its own    *)
(* key until then.  Here, a dossier is a case or a campaign.               *)
(***************************************************************************)
EXTENDS Integers, Sequences, FiniteSets

CONSTANTS
    Cases, Campaigns, \* dossiers of one project
    SeenEvents,       \* ids given for events: nothing looks them up, and the archiver deletes what they name
    SeenIocs,         \* indicators: a link to one has a foreign key
    DossierRequests   \* requests, each served once

\* An event and an indicator are rows of two tables, with ids of their own.
ASSUME EvidenceApart == SeenEvents \cap SeenIocs = {}
ASSUME SomeDossier == Cases # {} \/ Campaigns # {}

Dossiers == Cases \cup Campaigns
Evidence == SeenEvents \cup SeenIocs
DossierOps == {"attach", "detach", "patch", "delete"}

VARIABLES
    dossier,    \* each: [there, closed: the status is resolved or closed, closedAt: it has a closing time]
    iocThere,   \* the indicators that are there
    links,      \* the rows of case_events, case_iocs and campaign_events
    handling,   \* each request
    trail,      \* the audit log of the dossiers: [action, of, evidence]
    raced       \* history: cases that were changed between the load and the commit of a patch

caseworkVars == <<dossier, iocThere, links, handling, trail, raced>>

\* changes: closed and closedAt as the body sets them, "unset" if it does not.
Patches == [closed : {"unset", "yes", "no"}, closedAt : {"unset", "given", "null"}]
NoPatch == [closed |-> "unset", closedAt |-> "unset"]
Closing == [there : BOOLEAN, closed : BOOLEAN, closedAt : BOOLEAN]

NotHandled(ds) ==
    [at |-> "new", op |-> "none", of |-> ds, left |-> <<>>, pending |-> FALSE, seen |-> FALSE, own |-> {}, names |-> {},
     patch |-> NoPatch, loaded |-> [there |-> FALSE, closed |-> FALSE, closedAt |-> FALSE]]
AnyDossier == CHOOSE d \in Dossiers : TRUE

\* Uncommitted links are of the dossier and the ids of their request, each held by one.
CaseworkTypeOK ==
    /\ dossier \in [Dossiers -> Closing] /\ iocThere \subseteq SeenIocs
    /\ links \subseteq Dossiers \X Evidence /\ raced \subseteq Cases
    /\ trail \subseteq [action : {"attached", "detached", "changed", "deleted"}, of : Dossiers, evidence : SUBSET Evidence]
    /\ \A r \in DossierRequests :
          LET h == handling[r] IN
          /\ h.at \in {"new", "loaded", "done"} /\ h.op \in DossierOps \cup {"none"} /\ h.of \in Dossiers
          /\ h.left \in Seq(Evidence) /\ h.own \subseteq h.names /\ h.names \subseteq Evidence
          /\ h.patch \in Patches /\ h.loaded \in Closing
          /\ h.pending => h.left # <<>> /\ Head(h.left) \notin h.own
          /\ \A w \in DossierRequests \ {r} : handling[w].of = h.of => h.own \cap handling[w].own = {}
          /\ (\E e \in h.own : h.at = "loaded") => dossier[h.of].there

CaseworkInit ==
    /\ dossier = [d \in Dossiers |-> [there |-> TRUE, closed |-> FALSE, closedAt |-> FALSE]]
    /\ iocThere = SeenIocs
    /\ links = {} /\ trail = {} /\ raced = {}
    /\ handling = [r \in DossierRequests |-> NotHandled(AnyDossier)]

tablesVars == <<dossier, iocThere, links, trail, raced>>

-----------------------------------------------------------------------------
(* A request *)

\* What a request carries: the ids of a bulk attachment, which may repeat; one id; or a body.
Bodies(d) ==
    {[op |-> "attach", left |-> s, patch |-> NoPatch] :
        s \in {<<e>> : e \in Evidence} \cup IF d \in Cases THEN {<<e, f>> : e, f \in Evidence} ELSE {}}
    \cup {[op |-> "detach", left |-> <<e>>, patch |-> NoPatch] : e \in Evidence}
    \cup {[op |-> "patch", left |-> <<>>, patch |-> p] : p \in IF d \in Cases THEN Patches ELSE {NoPatch}}
    \cup {[op |-> "delete", left |-> <<>>, patch |-> NoPatch]}

Over(r) == handling' = [handling EXCEPT ![r] = [NotHandled(AnyDossier) EXCEPT !.at = "done"]]
Names(s) == {s[i] : i \in DOMAIN s}

\* _get_case_or_404 or the get of a campaign; a case also loads the link that it is to detach.
LoadDossier(r, d) ==
    /\ handling[r].at = "new"
    /\ IF dossier[d].there
       THEN \E b \in Bodies(d) :
               /\ d \in Campaigns => Names(b.left) \subseteq SeenEvents
               /\ handling' = [handling EXCEPT
                      ![r] = [NotHandled(d) EXCEPT !.at = "loaded", !.op = b.op, !.left = b.left, !.names = Names(b.left),
                                                   !.patch = b.patch, !.loaded = dossier[d],
                                                   !.seen = b.op = "detach" /\ <<d, Head(b.left)>> \in links]]
       ELSE Over(r)
    /\ UNCHANGED tablesVars

Doing(r, op) == handling[r].at = "loaded" /\ handling[r].op = op
NextLink(r) == <<handling[r].of, Head(handling[r].left)>>
Held == UNION {{<<handling[r].of, e>> : e \in handling[r].own} : r \in DossierRequests}
HeldBy(r) == {<<handling[r].of, e>> : e \in handling[r].own}

\* attach_events and attach_iocs look for the next link and add it if it is not there; the
\* insert of a campaign asks nothing (ON CONFLICT DO NOTHING).
LookForLink(r) ==
    /\ Doing(r, "attach") /\ handling[r].left # <<>> /\ ~handling[r].pending
    /\ IF handling[r].of \in Cases /\ NextLink(r) \in links \cup HeldBy(r)
       THEN handling' = [handling EXCEPT ![r].left = Tail(@)]
       ELSE handling' = [handling EXCEPT ![r].pending = TRUE]
    /\ UNCHANGED tablesVars

\* (mutant) A key is taken without a look at who else holds it.
NeverWaits(r) == FALSE
Waits(r) == Doing(r, "attach") /\ handling[r].pending /\ NextLink(r) \in Held \ HeldBy(r)
\* The foreign keys of a link: that of its dossier and, if it has one, that of its indicator.
Keyed(link) == dossier[link[1]].there /\ (link[2] \in SeenIocs => link[2] \in iocThere)

\* The INSERT, which waits for an uncommitted row with its key; IntegrityError or a deadlock
\* answers 500 and rolls back.
InsertLink(r) ==
    /\ Doing(r, "attach") /\ handling[r].pending
    /\ LET link == NextLink(r)
           taken == [handling[r] EXCEPT !.left = Tail(@), !.pending = FALSE]
       IN \/ /\ ~Waits(r) /\ Keyed(link) /\ link \notin links
             /\ handling' = [handling EXCEPT ![r] = [taken EXCEPT !.own = @ \cup {link[2]}]]
          \/ /\ ~Waits(r) /\ Keyed(link) /\ link \in links /\ handling[r].of \in Campaigns
             /\ handling' = [handling EXCEPT ![r] = taken]
          \/ /\ \/ ~Waits(r) /\ (~Keyed(link) \/ (link \in links /\ handling[r].of \in Cases))
                \/ Waits(r) /\ \E w \in DossierRequests : Waits(w) /\ NextLink(w) \in HeldBy(r) /\ NextLink(r) \in HeldBy(w)
             /\ Over(r)
    /\ UNCHANGED tablesVars

\* log_audit: the row is committed with the change that it names.
Logged(action, d, evidence) == trail' = trail \cup {[action |-> action, of |-> d, evidence |-> evidence]}

CommitAttached(r) ==
    /\ Doing(r, "attach") /\ handling[r].left = <<>>
    /\ links' = links \cup HeldBy(r)
    /\ Logged("attached", handling[r].of, handling[r].names)
    /\ Over(r)
    /\ UNCHANGED <<dossier, iocThere, raced>>

\* detach_event and detach_ioc delete what they have seen, by its key; a campaign, what is there.
CommitDetached(r) ==
    /\ Doing(r, "detach")
    /\ links' = IF handling[r].of \in Campaigns \/ handling[r].seen THEN links \ {NextLink(r)} ELSE links
    /\ Logged("detached", handling[r].of, handling[r].names)
    /\ Over(r)
    /\ UNCHANGED <<dossier, iocThere, raced>>

\* (mutant) A closing time is set when the status changes only.
ClosedAtOnChange(loaded, closed, given) ==
    CASE closed /\ ~loaded.closed -> TRUE [] OTHER -> given
\* patch_case: a case that is resolved or closed gets a closing time if it has none.
ClosedAt(loaded, closed, given) == closed \/ given

\* patch_case and patch_campaign write the columns that differ from what they have loaded.  If the
\* row has gone, the UPDATE matches none (StaleDataError); without a column to write, the change is
\* logged all the same.
CommitPatch(r) ==
    /\ Doing(r, "patch")
    /\ LET h == handling[r]
           now == dossier[h.of]
           closed == IF h.patch.closed = "unset" THEN h.loaded.closed ELSE h.patch.closed = "yes"
           given == IF h.patch.closedAt = "unset" THEN h.loaded.closedAt ELSE h.patch.closedAt = "given"
           closedAt == IF h.of \in Cases THEN ClosedAt(h.loaded, closed, given) ELSE given
       IN IF now.there
          THEN /\ dossier' = [dossier EXCEPT
                      ![h.of].closed = IF closed # h.loaded.closed THEN closed ELSE @,
                      ![h.of].closedAt = IF closedAt # h.loaded.closedAt THEN closedAt ELSE @]
               /\ raced' = IF now # h.loaded THEN raced \cup {h.of} ELSE raced
               /\ Logged("changed", h.of, {})
          ELSE /\ UNCHANGED <<dossier, raced>>
               /\ \/ UNCHANGED trail
                  \/ closed = h.loaded.closed /\ closedAt = h.loaded.closedAt /\ Logged("changed", h.of, {})
    /\ Over(r)
    /\ UNCHANGED <<iocThere, links>>

\* (mutant) The links to events, which have no foreign key of their own, stay.
LeaveEvents(d) == {l \in links : l[1] = d /\ l[2] \in SeenIocs}
\* Links go with their dossier: those of a case by the session, what it has not loaded and those
\* of a campaign by ON DELETE CASCADE.
Cascaded(d) == {l \in links : l[1] = d}

\* The DELETE waits for those who have inserted links; a second one finds no row and succeeds.
CommitDelete(r) ==
    /\ Doing(r, "delete")
    /\ \A w \in DossierRequests : handling[w].of = handling[r].of => handling[w].own = {}
    /\ dossier' = [dossier EXCEPT ![handling[r].of] = [there |-> FALSE, closed |-> FALSE, closedAt |-> FALSE]]
    /\ links' = links \ Cascaded(handling[r].of)
    /\ Logged("deleted", handling[r].of, {})
    /\ Over(r)
    /\ UNCHANGED <<iocThere, raced>>

\* An admin deletes an indicator (delete_ioc of routers/iocs.py).
DeleteSeenIoc(e) ==
    /\ e \in iocThere /\ \A r \in DossierRequests : e \notin handling[r].own
    /\ iocThere' = iocThere \ {e}
    /\ links' = {l \in links : l[2] # e}
    /\ UNCHANGED <<dossier, handling, trail, raced>>

-----------------------------------------------------------------------------
CaseworkNext ==
    \/ \E r \in DossierRequests :
          \/ \E d \in Dossiers : LoadDossier(r, d)
          \/ LookForLink(r) \/ InsertLink(r) \/ CommitAttached(r) \/ CommitDetached(r) \/ CommitPatch(r) \/ CommitDelete(r)
    \/ \E e \in SeenIocs : DeleteSeenIoc(e)

CaseworkSpec == CaseworkInit /\ [][CaseworkNext]_caseworkVars

-----------------------------------------------------------------------------
Said(action, link) == \E t \in trail : t.action = action /\ t.of = link[1] /\ link[2] \in t.evidence

\* What is attached has its dossier and, if it is an indicator, is there, and the audit log has a
\* request that attached it; of an event nothing more is asked.  What the log says was attached
\* is, or the log or the loss of its dossier or indicator tells why not.
\* A case that is resolved or closed has a closing time, unless a patch crossed another change.
DossiersTraced ==
    /\ \A l \in links : Keyed(l) /\ Said("attached", l)
    /\ \A l \in Dossiers \X Evidence :
          Said("attached", l) => l \in links \/ Said("detached", l) \/ ~Keyed(l)
    /\ \A d \in Dossiers : ~dossier[d].there => [action |-> "deleted", of |-> d, evidence |-> {}] \in trail
    /\ \A d \in Cases \ raced : dossier[d].closed => dossier[d].closedAt
=============================================================================
