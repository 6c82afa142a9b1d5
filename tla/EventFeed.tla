------------------------------ MODULE EventFeed ------------------------------
(***************************************************************************)
(* GET /api/events, page by page (routers/events.py,                       *)
(* services/events_query.py, services/project_scope.py), while feeds       *)
(* store events, the archiver hides them and an analyst edits the scope    *)
(* rows and the bound sources of the project.                              *)
(*                                                                         *)
(* A request reads the scope rows and the bound sources, and then the page *)
(* with what it read: two statements, each of which sees what is committed *)
(* by then.  A reader follows next_cursor until there is none.             *)
(***************************************************************************)
EXTENDS Integers, Sequences, FiniteSets

CONSTANTS
    Feed,          \* events: integers, in the order of their ids
    Facts,         \* [Feed -> the columns that a filter or an order reads]
    Times,         \* values of observed_at
    Weights,       \* values of the score and of the rank, as doubles
    Kept,          \* [Weights -> what is left of a rank in a cursor of eight decimals]
    FeedSources,   \* sources
    ScopeRows,     \* rows of project_scope_rows
    Hits,          \* [ScopeRows -> the events of which the clause of the row is true]
    Queries,       \* the requests that a reader may walk through
    Limit,         \* rows of a page
    MaxFeedChanges \* bound: changes to the events, the scope and the bindings

\* What synthesised an event; the feed leaves these out unless the request includes them.
Kinds == {"intel", "bbot", "brand", "monitoring"}
EventColumns == [project : {"P", "Q"}, source : FeedSources, visibility : {"shared", "red_only", "blue_only"},
                 kind : Kinds, observed : Times, score : Weights, rank : Weights]

\* roles: the claim dashboard_roles; sources: the filter on source; text: whether there is a free_text
Query == [project : {"P", "none"}, roles : SUBSET {"red", "blue"}, sources : SUBSET FeedSources,
          include : SUBSET (Kinds \ {"intel"}), archived : BOOLEAN, text : BOOLEAN, byScore : BOOLEAN]

ASSUME EventFeedAssumption ==
    /\ Feed \subseteq Int /\ IsFiniteSet(Feed) /\ Facts \in [Feed -> EventColumns]
    /\ Hits \in [ScopeRows -> SUBSET Feed] /\ Queries \subseteq Query
    /\ Kept \in [Weights -> Int] /\ Weights \subseteq Int /\ Times \subseteq Int
    /\ Limit \in Nat \ {0} /\ MaxFeedChanges \in Nat
ASSUME SomeQuery == Queries # {}

VARIABLES
    feed,        \* events that are there
    hidden,      \* those that are archived
    scope,       \* [ScopeRows -> "none", "include" or "exclude"] of project P
    bound,       \* the sources that are bound to it
    reader,      \* the walk
    feedChanges

feedVars == <<feed, hidden, scope, bound, reader, feedChanges>>

-----------------------------------------------------------------------------
(* The filters of a request *)

\* build_scope_predicate: what some row includes and none excludes; nothing, if none includes.
InScope(rows) ==
    LET Of(mode) == UNION {Hits[r] : r \in {s \in ScopeRows : rows[s] = mode}}
    IN Of("include") \ Of("exclude")

\* An empty claim is an admin's or nobody's, who are shown everything.
ShownTo(e, roles) ==
    \/ roles = {} \/ Facts[e].visibility = "shared"
    \/ "red" \in roles /\ Facts[e].visibility = "red_only"
    \/ "blue" \in roles /\ Facts[e].visibility = "blue_only"

InProject(e, q, rows, sources) ==
    q.project # "none" =>
        /\ Facts[e].project = q.project
        /\ sources # {} => Facts[e].source \in sources
        /\ e \in InScope(rows)

\* build_events_query and build_fts_query, and what list_events adds to either.
Matches(e, q, archived, rows, sources) ==
    /\ q.sources # {} => Facts[e].source \in q.sources
    /\ e \in archived => q.archived
    /\ ShownTo(e, q.roles)
    /\ InProject(e, q, rows, sources)
    /\ Facts[e].kind \in q.include \cup {"intel"}
    /\ q.text => Facts[e].rank > 0

Matching(q, events, archived, rows, sources) == {e \in events : Matches(e, q, archived, rows, sources)}

-----------------------------------------------------------------------------
(* The order and the cursor *)

Less(s, t) == \E i \in DOMAIN s : s[i] < t[i] /\ \A j \in 1..(i - 1) : s[j] = t[j]

\* What a page is ordered by, the greatest first.
SortKey(e, q) ==
    <<CASE q.byScore -> Facts[e].score [] q.text /\ ~q.byScore -> Facts[e].rank [] OTHER -> 0,
      Facts[e].observed, e>>

\* The cursor names the last row by its rank, when there is a text, and by (observed_at, id),
\* also when the page is ordered by the score.
CursorOf(e, q) == <<IF q.text THEN Kept[Facts[e].rank] ELSE 0, Facts[e].observed, e>>
ComparedBy(e, q) == <<IF q.text THEN Facts[e].rank ELSE 0, Facts[e].observed, e>>

NoKey == <<>>
\* (mutant) The last row is on the next page once more.
FromCursorOn(e, q, cursor) == cursor = NoKey \/ ~Less(cursor, ComparedBy(e, q))
\* apply_cursor and apply_fts_cursor
BehindCursor(e, q, cursor) == cursor = NoKey \/ Less(ComparedBy(e, q), cursor)

\* ORDER BY and LIMIT: of the rows those that fewer than Limit come before, and the last of a page.
Ahead(e, rows, q) == {f \in rows : Less(SortKey(e, q), SortKey(f, q))}
FirstRows(rows, q) == {e \in rows : Cardinality(Ahead(e, rows, q)) < Limit}
IsLast(e, rows, q) == e \in rows /\ \A f \in rows \ {e} : Less(SortKey(e, q), SortKey(f, q))

-----------------------------------------------------------------------------
NoQuery == CHOOSE q \in Queries : TRUE
NoScope == [r \in ScopeRows |-> "none"]
\* pages: the rows of each page; their order is that of their keys.  steady is history: what has
\* matched the request since the walk began.
Unread == [at |-> "idle", query |-> NoQuery, cursor |-> NoKey, pages |-> <<>>, scope |-> NoScope, bound |-> {},
           steady |-> {}]

\* The reader has whole pages, and a cursor behind the last row of the last one.
EventFeedTypeOK ==
    /\ feed \subseteq Feed /\ hidden \subseteq feed
    /\ scope \in [ScopeRows -> {"none", "include", "exclude"}] /\ bound \subseteq FeedSources
    /\ reader.at \in {"idle", "scoped", "between", "done"} /\ reader.query \in Queries
    /\ reader.pages \in Seq(SUBSET Feed) /\ reader.steady \subseteq feed
    /\ \A i \in DOMAIN reader.pages :
          /\ Cardinality(reader.pages[i]) <= Limit
          /\ i < Len(reader.pages) \/ reader.at # "done" => Cardinality(reader.pages[i]) = Limit
    /\ reader.at \in {"scoped", "between"} =>
          IF reader.pages = <<>> THEN reader.cursor = NoKey
          ELSE LET page == reader.pages[Len(reader.pages)]
               IN \E e \in page : IsLast(e, page, reader.query) /\ reader.cursor = CursorOf(e, reader.query)
    /\ feedChanges \in 0..MaxFeedChanges

EventFeedInit ==
    /\ feed \in SUBSET Feed /\ hidden = {}
    /\ scope \in [ScopeRows -> {"none", "include", "exclude"}] /\ bound \in SUBSET FeedSources
    /\ reader = Unread
    /\ feedChanges = 0

-----------------------------------------------------------------------------
\* The first request of a walk, or the next, up to the page: fetch_scope_rows_intel and
\* fetch_bound_sources.
ReadScope ==
    /\ \/ /\ reader.at = "idle"
          /\ \E q \in Queries :
                reader' = [Unread EXCEPT !.at = "scoped", !.query = q, !.scope = scope, !.bound = bound,
                                         !.steady = Matching(q, feed, hidden, scope, bound)]
       \/ /\ reader.at = "between"
          /\ reader' = [reader EXCEPT !.at = "scoped", !.scope = scope, !.bound = bound]
    /\ UNCHANGED <<feed, hidden, scope, bound, feedChanges>>

\* The page, of Limit rows; a row more would show that there is another.
ReadPage ==
    /\ reader.at = "scoped"
    /\ LET q == reader.query
           matching == Matching(q, feed, hidden, reader.scope, reader.bound)
           rows == {e \in matching : BehindCursor(e, q, reader.cursor)}
           page == FirstRows(rows, q)
           read == [reader EXCEPT !.pages = Append(@, page), !.scope = NoScope, !.bound = {}]
       IN IF Cardinality(rows) > Limit
          THEN \E last \in page : /\ IsLast(last, page, q)
                                 /\ reader' = [read EXCEPT !.at = "between", !.cursor = CursorOf(last, q)]
          ELSE reader' = [read EXCEPT !.at = "done", !.cursor = NoKey]
    /\ UNCHANGED <<feed, hidden, scope, bound, feedChanges>>

-----------------------------------------------------------------------------
(* What happens meanwhile *)

Changes(events, archived, rows, sources) ==
    /\ feedChanges < MaxFeedChanges /\ feedChanges' = feedChanges + 1
    /\ feed' = events /\ hidden' = archived /\ scope' = rows /\ bound' = sources
    /\ reader' = [reader EXCEPT !.steady = @ \cap Matching(reader.query, events, archived, rows, sources)]

StoreInFeed(e) == e \notin feed /\ Changes(feed \cup {e}, hidden, scope, bound)
HideEvent(e) == e \in feed \ hidden /\ Changes(feed, hidden \cup {e}, scope, bound)
DropEvent(e) == e \in feed /\ Changes(feed \ {e}, hidden \ {e}, scope, bound)
EditScope(r) == \E mode \in {"none", "include", "exclude"} \ {scope[r]} :
                    Changes(feed, hidden, [scope EXCEPT ![r] = mode], bound)
BindSource(s) == Changes(feed, hidden, scope, IF s \in bound THEN bound \ {s} ELSE bound \cup {s})

EventFeedNext ==
    \/ ReadScope \/ ReadPage
    \/ \E e \in Feed : StoreInFeed(e) \/ HideEvent(e) \/ DropEvent(e)
    \/ \E r \in ScopeRows : EditScope(r)
    \/ \E s \in FeedSources : BindSource(s)

EventFeedSpec == EventFeedInit /\ [][EventFeedNext]_feedVars

-----------------------------------------------------------------------------
Received == UNION {reader.pages[i] : i \in DOMAIN reader.pages}

\* The cursors were exact: an order by the score has none of its own, and a rank has to survive
\* the rounding to eight decimals.
ExactCursors ==
    /\ ~reader.query.byScore
    /\ reader.query.text => \A e \in Received : Kept[Facts[e].rank] = Facts[e].rank

\* Who follows the cursors to the end gets each event that has matched the request throughout,
\* none twice, and in the order of the feed, whatever is stored, hidden, deleted, scoped or
\* bound between two pages, and between the reading of the scope and of a page.
WalkComplete ==
    ExactCursors =>
        /\ reader.at = "done" => reader.steady \subseteq Received
        /\ \A i, j \in DOMAIN reader.pages : i < j =>
              \A e \in reader.pages[i], f \in reader.pages[j] : Less(SortKey(f, reader.query), SortKey(e, reader.query))
=============================================================================
