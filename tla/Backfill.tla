------------------------------ MODULE Backfill ------------------------------
(***************************************************************************)
(* The actor that reads the stored events of a project for indicators      *)
(* (routers/admin/iocs.py, workers/iocs.py, backfill_iocs_for_project of   *)
(* services/iocs.py), a page at a time, while feeds store events and the   *)
(* archiver deletes them.                                                  *)
(***************************************************************************)
EXTENDS Integers, FiniteSets

CONSTANTS
    EventIds,   \* the ids of the project's events; their order is that of id
    Page,       \* rows between two commits
    MaxArchived \* bound: events that are deleted

ASSUME BackfillAssumption == EventIds \subseteq Int /\ Page \in Nat \ {0} /\ MaxArchived \in Nat

VARIABLES
    storedEvents,   \* events that are there
    archived,       \* history: how many have been deleted
    backfill        \* the job; began, found, removed, aborted are history

backfillVars == <<storedEvents, archived, backfill>>

NoBackfill == [status |-> "none", offset |-> 0, began |-> {}, found |-> {}, removed |-> FALSE, aborted |-> FALSE]

\* A page that has been read is behind the offset, and what was found was there or has gone since.
BackfillTypeOK ==
    /\ storedEvents \subseteq EventIds
    /\ archived \in 0..MaxArchived
    /\ backfill \in [status : {"none", "running", "complete", "failed"}, offset : Nat, began : SUBSET EventIds,
                     found : SUBSET EventIds, removed : BOOLEAN, aborted : BOOLEAN]
    /\ backfill.offset % Page = 0
    /\ Cardinality(backfill.found) <= backfill.offset
    /\ backfill.removed => archived > 0
    /\ backfill.status = "none" => backfill = NoBackfill

BackfillInit == storedEvents = {} /\ archived = 0 /\ backfill = NoBackfill

-----------------------------------------------------------------------------
\* trigger_ioc_backfill, and the actor, whose status is "running" once it has started; one that
\* has failed or died starts from the first page again.
StartBackfill ==
    /\ backfill.status \in {"none", "failed"}
    /\ backfill' = [NoBackfill EXCEPT !.status = "running", !.began = storedEvents]
    /\ UNCHANGED <<storedEvents, archived>>

\* SELECT ... ORDER BY id OFFSET offset LIMIT Page, of the events that are there by now.
Rank(e) == Cardinality({f \in storedEvents : f < e})
PageAt(offset) == {e \in storedEvents : offset <= Rank(e) /\ Rank(e) < offset + Page}

\* (mutant) The offset is advanced past a page that was not read.
NextOffsetTwice == backfill.offset + 2 * Page
NextOffset == backfill.offset + Page

\* A page and its commit.  The upserts swallow their errors: an aborted page leaves nothing.
BackfillPage ==
    /\ backfill.status = "running" /\ PageAt(backfill.offset) # {}
    /\ \E aborted \in BOOLEAN :
          backfill' = [backfill EXCEPT !.offset = NextOffset, !.aborted = @ \/ aborted,
                                       !.found = IF aborted THEN @ ELSE @ \cup PageAt(backfill.offset)]
    /\ UNCHANGED <<storedEvents, archived>>

EndBackfill ==
    /\ backfill.status = "running"
    /\ \/ PageAt(backfill.offset) = {} /\ backfill' = [backfill EXCEPT !.status = "complete"]
       \/ backfill' = [backfill EXCEPT !.status = "failed"]
    /\ UNCHANGED <<storedEvents, archived>>

\* Feeds store events, whose ids are in no order.
StoreEvent(e) ==
    /\ e \notin storedEvents
    /\ storedEvents' = storedEvents \cup {e}
    /\ UNCHANGED <<archived, backfill>>

ArchiveEvent(e) ==
    /\ e \in storedEvents /\ archived < MaxArchived
    /\ storedEvents' = storedEvents \ {e}
    /\ archived' = archived + 1
    /\ backfill' = [backfill EXCEPT !.removed = @ \/ backfill.status = "running"]

BackfillNext ==
    \/ StartBackfill \/ BackfillPage \/ EndBackfill
    \/ \E e \in EventIds : StoreEvent(e) \/ ArchiveEvent(e)

BackfillSpec == BackfillInit /\ [][BackfillNext]_backfillVars

-----------------------------------------------------------------------------
\* A backfill that is complete has been through every event that was there when it began,
\* unless one was deleted meanwhile, by which later pages move up (OFFSET), or a page was aborted.
BackfillReaches ==
    backfill.status = "complete" /\ ~backfill.removed /\ ~backfill.aborted => backfill.began \subseteq backfill.found
=============================================================================
