------------------------------- MODULE Ingest -------------------------------
(***************************************************************************)
(* The polls of the sources (poll_*_impl of workers/) as transactions of   *)
(* PostgreSQL: one poll fetches its feed, inserts an event for each item   *)
(* and bound project, bumps the row of the source, upserts the indicators  *)
(* the item mentions (_persist_event of ingest/normalise.py), moves the    *)
(* cursor and the health of the source, and commits all of it at the end.  *)
(* A statement waits for a row another transaction has written, until      *)
(* PostgreSQL breaks the deadlock.                                         *)
(*                                                                         *)
(* Items of a feed are numbered by the second they were last modified in.  *)
(* Messages that _persist_event sends (enrichment, sandbox, summary), tags *)
(* and Sigma matches are left out.                                         *)
(***************************************************************************)
EXTENDS Integers, FiniteSets

CONSTANTS
    Sources,
    Pollers,       \* worker threads on the queues ingest and darkweb
    BoundTo,       \* the projects bound to each source (project_sources)
    Legacy,        \* LEGACY_PROJECT_ID
    Indicators,    \* the IOCs that items mention
    Mentions,      \* those each item mentions
    MaxItems,      \* bound: items a feed publishes
    MaxPolls,      \* bound: polls that are started
    Window         \* how many of its newest items a feed shows that is asked without a cursor

Items == 1..MaxItems

ASSUME IngestBounds == MaxItems \in Nat /\ MaxPolls \in Nat /\ Window \in Nat
ASSUME MentionsOfItems == Mentions \in [Items -> SUBSET Indicators]

VARIABLES
    kind,        \* sources.feed_type
    malformed,   \* the items whose normalisation raises or returns None
    feed,        \* how many items each feed has published
    events,      \* rows of events: project, source, item
    cursor,      \* sources.last_cursor; 0: none
    passed,      \* history: the items that the cursor of each source went past unseen
    health,      \* sources.last_status, consecutive_failures, silent_failure_count
    poll,        \* the poll of each thread
    polls        \* how many have been started

ingestVars == <<kind, malformed, feed, events, cursor, passed, health, poll, polls>>

\* A TAXII source whose URL is an OTX discovery is polled with TAXII 1.1, which carries
\* STIX 2 ("otx") or STIX 1.x ("stix1").
Kinds == {"rss", "nvd", "taxii", "otx", "stix1", "html_scrape", "social", "paste", "tor_html", "telegram"}
ValidStatuses == {"ok", "rate_limited", "http_error", "network_error", "parse_error"}
Health == [status : ValidStatuses \cup {"none"}, failures : 0..MaxPolls, silent : 0..MaxPolls]

BoundProjects(s) == IF BoundTo[s] = {} THEN {Legacy} ELSE BoundTo[s]
Tables == {Legacy} \cup UNION {BoundProjects(s) : s \in Sources}
Event == Tables \X Sources \X Items

\* What a statement may wait for: a unique key of events, the row of a source, or of iocs.
EventKey(row) == <<"event", row[1], row[2], row[3]>>
SourceRow(s) == <<"sources", s>>
IocRow(row, ioc) == <<"iocs", row[1], ioc>>
Nothing == <<>>

\* A poll: the cursor it will store, the items this goes past unseen, the rows left, the
\* row and its indicators left, what the next statement wants, what is written and not
\* committed, the rows locked.
NoPoll == [at |-> "idle", to |-> 0, unseen |-> {}, left |-> {}, row |-> <<>>, iocs |-> {},
           wants |-> Nothing, wrote |-> {}, locks |-> {}]

\* The rows, and what a poll relies on: it holds what it has written, and no two polls
\* hold one row.
IngestTypeOK ==
    /\ kind \in [Sources -> Kinds]
    /\ malformed \subseteq Sources \X Items
    /\ feed \in [Sources -> 0..MaxItems]
    /\ events \subseteq Event
    /\ cursor \in [Sources -> 0..(MaxItems + 1)]
    /\ passed \in [Sources -> SUBSET (1..(MaxItems + 1))]
    /\ health \in [Sources -> Health]
    /\ DOMAIN poll = Pollers
    /\ \A w \in Pollers :
          /\ poll[w].at \in {"idle", "insert", "bump", "ioc", "finish"}
          /\ poll[w].left \subseteq Event /\ poll[w].wrote \subseteq Event
          /\ {EventKey(row) : row \in poll[w].wrote} \subseteq poll[w].locks
          /\ \A v \in Pollers \ {w} : poll[v].locks \cap poll[w].locks = {}
    /\ polls \in 0..MaxPolls

IngestInit ==
    /\ kind \in [Sources -> Kinds]
    /\ malformed \in SUBSET (Sources \X Items)
    \* What STIX 1.x lacks, _poll_collection makes up.
    /\ \A s \in Sources, i \in Items : kind[s] = "stix1" => <<s, i>> \notin malformed
    /\ feed = [s \in Sources |-> 0]
    /\ events = {}
    /\ cursor = [s \in Sources |-> 0]
    /\ passed = [s \in Sources |-> {}]
    /\ health = [s \in Sources |-> [status |-> "none", failures |-> 0, silent |-> 0]]
    /\ poll = [w \in Pollers |-> NoPoll]
    /\ polls = 0

\* The feed publishes an item.
Publish(s) ==
    /\ feed[s] < MaxItems
    /\ feed' = [feed EXCEPT ![s] = @ + 1]
    /\ UNCHANGED <<kind, malformed, events, cursor, passed, health, poll, polls>>

-----------------------------------------------------------------------------
(* What each poller reads and writes *)

\* NVD is asked for what was modified from the second after the cursor on, and without a
\* cursor for the last 30 days: what is older is never asked for.
Aged(s) == IF kind[s] = "nvd" /\ cursor[s] = 0 THEN 1..(feed[s] - Window) ELSE {}
NvdShown(s) == {i \in 1..feed[s] : i >= cursor[s] + 1} \ Aged(s)

\* TAXII servers, OTX among them, are asked for what was added after the cursor.
TaxiiShown(s) == {i \in 1..feed[s] : i > cursor[s]}

\* The others have no cursor: the feed or page shows its newest items.
PageShown(s) == {i \in 1..feed[s] : i > feed[s] - Window}

IsOtx(s) == kind[s] \in {"otx", "stix1"}
HasCursor(s) == kind[s] \in {"nvd", "taxii"} \/ IsOtx(s)
Shown(s) == CASE kind[s] = "nvd" -> NvdShown(s)
              [] kind[s] = "taxii" \/ IsOtx(s) -> TaxiiShown(s)
              [] OTHER -> PageShown(s)

\* _build_event_row of Telegram has a key, url, that is no column of events: the INSERT
\* cannot be compiled, and every message counts as a parse error.
Parsed(s) == IF kind[s] = "telegram" THEN {}
             ELSE {i \in Shown(s) : <<s, i>> \notin malformed}

\* poll_html_scrape_impl and poll_otx_taxii1 call _persist_event itself, which knows no
\* bindings: their events are of the legacy project alone.
ProjectsOf(s) == IF kind[s] = "html_scrape" \/ IsOtx(s) THEN {Legacy} ELSE BoundProjects(s)

\* NVD writes no indicators.
Mentioned(s, i) == IF kind[s] = "nvd" THEN {} ELSE Mentions[i]

\* The cursors that a poll may store, 0 being none.  poll_nvd_impl stores one second more
\* than the latest change.  For STIX 1.x it is the clock's time as the answer is parsed, by
\* which the second of the next item may have come.
Latest(items) == IF items = {} THEN 0 ELSE CHOOSE i \in items : \A j \in items : j <= i
NextCursors(s, items) ==
    IF ~HasCursor(s) \/ items = {} THEN {0}
    ELSE CASE kind[s] = "nvd" -> {Latest(items) + 1}
           [] kind[s] = "stix1" -> {feed[s], feed[s] + 1}
           [] OTHER -> {Latest(items)}

\* The items no poll will be shown once that cursor is stored, and this one was not: what
\* NVD holds of the time before its last 30 days and, as a second is added when the cursor
\* is stored and another when it is read, of the second after the latest change; of STIX
\* 1.x what comes in between the answer and the look at the clock.
Unseen(s, to) == Aged(s) \cup {i \in {to} : kind[s] = "nvd" \/ (kind[s] = "stix1" /\ i > feed[s])}
Advance(s, to, unseen) ==
    IF to = 0 THEN UNCHANGED <<cursor, passed>>
    ELSE cursor' = [cursor EXCEPT ![s] = to] /\ passed' = [passed EXCEPT ![s] = @ \cup unseen]

\* The statuses a poller records when it cannot fetch; paste records "ok" for a site
\* whose robots.txt forbids it.
RssRefusals == {"network_error", "parse_error"}
NvdRefusals == {"rate_limited", "http_error", "network_error"}
TaxiiRefusals == {"http_error", "network_error"}
ScrapeRefusals == {"parse_error", "network_error"}
SocialRefusals == {"rate_limited", "network_error"}
PasteRefusals == {"config_error", "ok", "network_error", "parse_error"}
TorRefusals == {"config_error", "network_error"}
TelegramRefusals == {"config_error", "error"}

Refusals(s) ==
    CASE kind[s] = "rss" -> RssRefusals
      [] kind[s] = "nvd" -> NvdRefusals
      [] kind[s] = "taxii" \/ IsOtx(s) -> TaxiiRefusals
      [] kind[s] = "html_scrape" -> ScrapeRefusals
      [] kind[s] = "social" -> SocialRefusals
      [] kind[s] = "paste" -> PasteRefusals
      [] kind[s] = "tor_html" -> TorRefusals
      [] kind[s] = "telegram" -> TelegramRefusals

-----------------------------------------------------------------------------
(* Transactions *)

Locks == UNION {poll[w].locks : w \in Pollers}
FreeFor(w, r) == r \notin Locks \ poll[w].locks

\* The poll of which source.
SourceOf(w) == poll[w].wants[2]

\* The state of a poll that goes on with its next row, or ends.  The order of the rows is
\* that of the feed and of a SELECT without ORDER BY: any.
GoOn(p, s) ==
    IF p.left = {} THEN {[p EXCEPT !.at = "finish", !.row = <<>>, !.wants = SourceRow(s)]}
    ELSE {[p EXCEPT !.at = "insert", !.left = @ \ {row}, !.row = row, !.wants = EventKey(row)] : row \in p.left}

\* The next indicator of the row's item, or the next row.
NextIoc(p, s) ==
    IF p.iocs = {} THEN GoOn(p, s)
    ELSE {[p EXCEPT !.at = "ioc", !.iocs = @ \ {x}, !.wants = IocRow(p.row, x)] : x \in p.iocs}

\* update_source_health and update_silent_failure_count.
Recorded(h, status) ==
    [h EXCEPT !.status = status, !.failures = IF status = "ok" THEN 0 ELSE @ + 1]
Counted(h, inserted) == [h EXCEPT !.silent = IF inserted = {} THEN @ + 1 ELSE 0]

\* A poll that has fetched what its source shows: an event for each item and project is due.
Rows(s) == {<<p, s, i>> : p \in ProjectsOf(s), i \in Parsed(s)}
Fetched(s, to) == [NoPoll EXCEPT !.left = Rows(s), !.to = to, !.unseen = IF to = 0 THEN {} ELSE Unseen(s, to)]

\* (mutant) The cursor is moved, in a commit of its own, once the feed is fetched.
StartPollAdvancing(w, s) ==
    /\ poll[w].at = "idle" /\ polls < MaxPolls
    /\ polls' = polls + 1
    /\ \E to \in NextCursors(s, Parsed(s)) :
          /\ \E p \in GoOn(Fetched(s, to), s) : poll' = [poll EXCEPT ![w] = p]
          /\ Advance(s, to, Unseen(s, to))
    /\ UNCHANGED <<kind, malformed, feed, events, health>>

\* The poll fetches its feed, and begins to write.
StartPoll(w, s) ==
    /\ poll[w].at = "idle" /\ polls < MaxPolls
    /\ polls' = polls + 1
    /\ \E to \in NextCursors(s, Parsed(s)) :
          \E p \in GoOn(Fetched(s, to), s) : poll' = [poll EXCEPT ![w] = p]
    /\ UNCHANGED <<kind, malformed, feed, events, cursor, passed, health>>

\* It cannot: the status is recorded and committed.  update_source_health raises for a
\* status it does not know, and nothing is recorded.
FetchFails(w, s) ==
    /\ poll[w].at = "idle" /\ polls < MaxPolls
    /\ polls' = polls + 1
    /\ \E status \in Refusals(s) :
          IF status \in ValidStatuses
          THEN FreeFor(w, SourceRow(s)) /\ health' = [health EXCEPT ![s] = Recorded(@, status)]
          ELSE UNCHANGED health
    /\ UNCHANGED <<kind, malformed, feed, events, cursor, passed, poll>>

\* Each statement waits until the row it wants is free.
Runs(w, at) == poll[w].at = at /\ FreeFor(w, poll[w].wants)
Continue(w, next) == \E p \in next : poll' = [poll EXCEPT ![w] = p]

\* INSERT ... ON CONFLICT DO NOTHING: a row that is there is passed over.
InsertEvent(w) ==
    LET p == poll[w]  s == p.row[2]
    IN  /\ Runs(w, "insert")
        /\ IF p.row \in events THEN Continue(w, GoOn(p, s))
           ELSE Continue(w, {[p EXCEPT !.at = "bump", !.wrote = @ \cup {p.row},
                                       !.locks = @ \cup {p.wants}, !.wants = SourceRow(s)]})
        /\ UNCHANGED <<kind, malformed, feed, events, cursor, passed, health, polls>>

\* bump_last_event_at locks the row of the source until the commit.
BumpSource(w) ==
    LET p == poll[w]  s == p.row[2]
    IN  /\ Runs(w, "bump")
        /\ Continue(w, NextIoc([p EXCEPT !.locks = @ \cup {p.wants}, !.iocs = Mentioned(s, p.row[3])], s))
        /\ UNCHANGED <<kind, malformed, feed, events, cursor, passed, health, polls>>

\* INSERT ... ON CONFLICT DO UPDATE: the row of the indicator is locked.
UpsertIoc(w) ==
    LET p == poll[w]
    IN  /\ Runs(w, "ioc")
        /\ Continue(w, NextIoc([p EXCEPT !.locks = @ \cup {p.wants}], p.row[2]))
        /\ UNCHANGED <<kind, malformed, feed, events, cursor, passed, health, polls>>

\* Cursor, health and events are committed together; OTX's poll counts no silent ones.
FinishPoll(w) ==
    LET s == SourceOf(w)
    IN  /\ Runs(w, "finish")
        /\ events' = events \cup poll[w].wrote
        /\ Advance(s, poll[w].to, poll[w].unseen)
        /\ health' = [health EXCEPT ![s] = IF IsOtx(s) THEN Recorded(@, "ok")
                                           ELSE Counted(Recorded(@, "ok"), poll[w].wrote)]
        /\ poll' = [poll EXCEPT ![w] = NoPoll]
        /\ UNCHANGED <<kind, malformed, feed, polls>>

\* Polls that wait for each other in a circle.
WaitsFor(w, v) == poll[w].wants \in poll[v].locks
Circle(ws) == \A w \in ws : /\ \E v \in ws \ {w} : WaitsFor(w, v)
                          /\ \E v \in ws \ {w} : WaitsFor(v, w)

\* PostgreSQL fails the statement of one of them and aborts its transaction.  If it was
\* that of an indicator the exception is swallowed; every later statement of the poll
\* fails too, the last ones outside any handler, and nothing is committed.
DeadlockAborts(w) ==
    /\ \E ws \in SUBSET Pollers : w \in ws /\ Circle(ws)
    /\ poll' = [poll EXCEPT ![w] = NoPoll]
    /\ UNCHANGED <<kind, malformed, feed, events, cursor, passed, health, polls>>

\* The worker dies: max_retries=0, and the next poll starts anew.
CrashPoll(w) ==
    /\ poll[w].at # "idle"
    /\ poll' = [poll EXCEPT ![w] = NoPoll]
    /\ UNCHANGED <<kind, malformed, feed, events, cursor, passed, health, polls>>

IngestNext ==
    \/ \E s \in Sources : Publish(s)
    \/ \E w \in Pollers, s \in Sources : StartPoll(w, s) \/ FetchFails(w, s)
    \/ \E w \in Pollers : \/ InsertEvent(w) \/ BumpSource(w) \/ UpsertIoc(w)
                          \/ FinishPoll(w) \/ DeadlockAborts(w) \/ CrashPoll(w)

IngestSpec == IngestInit /\ [][IngestNext]_ingestVars

-----------------------------------------------------------------------------
(* Properties *)

\* Whatever polls overlap, deadlock, fail or die, an item of a feed with a cursor that is
\* well formed is in every project its poller writes to (the bound ones; of OTX the legacy
\* project alone) or will be shown to the next poll: the cursor never passes what was not
\* committed ("cursor advance ONLY after all pages written"), overtaken only by its own
\* arithmetic (Unseen): NVD's first 30 days and double second, and the clock of STIX 1.x.
NothingSkipped ==
    \A s \in Sources, i \in Items :
        HasCursor(s) /\ i <= feed[s] /\ <<s, i>> \notin malformed =>
            \/ \A p \in ProjectsOf(s) : <<p, s, i>> \in events
            \/ i \in Shown(s) \cup Aged(s)
            \/ i \in passed[s]
=============================================================================
