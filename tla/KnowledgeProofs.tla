-------------------------- MODULE KnowledgeProofs ---------------------------
(***************************************************************************)
(* What modules EventFeed, Rerank, AttackGraph, Sigma and Clusters keep    *)
(* for any events, rules, posts, requests, messages and threads, and for   *)
(* every value of their bounds; and what MCKnowledge keeps, which takes    *)
(* the steps of one component at a time.                                   *)
(***************************************************************************)
EXTENDS MCKnowledge, CasesProofs

(* EventFeed: the pages of a walk *)

Keys == Int \X Int \X Int
Modes == {"none", "include", "exclude"}
Walker == [at : {"idle", "scoped", "between", "done"}, query : Queries \cup {NoQuery}, cursor : {NoKey} \cup Keys,
           pages : Seq(SUBSET Feed), scope : [ScopeRows -> Modes], bound : SUBSET FeedSources, steady : SUBSET Feed]

\* The pages before the last are of greater keys.
InOrder(w) ==
    \A i, j \in DOMAIN w.pages : i < j =>
        \A e \in w.pages[i], f \in w.pages[j] : Less(SortKey(f, w.query), SortKey(e, w.query))
Got(w) == UNION {w.pages[i] : i \in DOMAIN w.pages}
Exact(w) == ~w.query.byScore /\ (w.query.text => \A e \in Got(w) : Kept[Facts[e].rank] = Facts[e].rank)

\* The cursor is between what a walker has got and what it has still to get.
Between(w) ==
    IF w.cursor = NoKey THEN Got(w) = {}
    ELSE /\ \A e \in Got(w) : ~Less(SortKey(e, w.query), w.cursor)
         /\ \A e \in w.steady \ Got(w) : Less(SortKey(e, w.query), w.cursor)

WalkInv ==
    /\ feed \subseteq Feed /\ scope \in [ScopeRows -> Modes] /\ bound \subseteq FeedSources
    /\ reader \in Walker
    /\ IF reader.at = "idle" THEN Got(reader) = {} /\ reader.pages = <<>> /\ reader.steady = {} ELSE reader.query \in Queries
    /\ reader.steady \subseteq Matching(reader.query, feed, hidden, scope, bound)
    /\ reader.at = "scoped" => reader.steady \subseteq Matching(reader.query, feed, hidden, reader.scope, reader.bound)
    /\ Exact(reader) =>
          /\ InOrder(reader)
          /\ reader.at \in {"scoped", "between"} => Between(reader)
          /\ reader.at = "done" => reader.steady \subseteq Got(reader)

LEMMA LessIs ==
    ASSUME NEW a \in Keys, NEW b \in Keys
    PROVE  Less(a, b) <=> \/ a[1] < b[1]
                          \/ a[1] = b[1] /\ a[2] < b[2]
                          \/ a[1] = b[1] /\ a[2] = b[2] /\ a[3] < b[3]
<1>1. DOMAIN a = {1, 2, 3}
    BY DEF Keys
<1>2. 1..(1 - 1) = {} /\ 1..(2 - 1) = {1} /\ 1..(3 - 1) = {1, 2}
    OBVIOUS
<1> QED
    BY <1>1, <1>2 DEF Less

LEMMA LessOrders ==
    ASSUME NEW a \in Keys, NEW b \in Keys, NEW c \in Keys
    PROVE  /\ ~Less(a, a)
           /\ Less(a, b) => ~Less(b, a)
           /\ Less(a, b) /\ Less(b, c) => Less(a, c)
           /\ Less(a, b) /\ ~Less(c, b) => Less(a, c)
           /\ a # b => Less(a, b) \/ Less(b, a)
<1>1. PICK a1 \in Int, a2 \in Int, a3 \in Int : a = <<a1, a2, a3>>
    BY DEF Keys
<1>2. PICK b1 \in Int, b2 \in Int, b3 \in Int : b = <<b1, b2, b3>>
    BY DEF Keys
<1>3. PICK c1 \in Int, c2 \in Int, c3 \in Int : c = <<c1, c2, c3>>
    BY DEF Keys
<1> DEFINE L(x1, x2, x3, y1, y2, y3) == x1 < y1 \/ (x1 = y1 /\ x2 < y2) \/ (x1 = y1 /\ x2 = y2 /\ x3 < y3)
<1>4. /\ Less(a, a) <=> L(a1, a2, a3, a1, a2, a3)
      /\ Less(a, b) <=> L(a1, a2, a3, b1, b2, b3)
      /\ Less(b, a) <=> L(b1, b2, b3, a1, a2, a3)
      /\ Less(b, c) <=> L(b1, b2, b3, c1, c2, c3)
      /\ Less(c, b) <=> L(c1, c2, c3, b1, b2, b3)
      /\ Less(a, c) <=> L(a1, a2, a3, c1, c2, c3)
    BY <1>1, <1>2, <1>3, LessIs
<1>5. a # b => a1 # b1 \/ a2 # b2 \/ a3 # b3
    BY <1>1, <1>2
<1> QED
    BY <1>4, <1>5

LEMMA KeysAre ==
    ASSUME NEW q \in Query, NEW e \in Feed
    PROVE  /\ SortKey(e, q) \in Keys /\ SortKey(e, q)[3] = e
           /\ ComparedBy(e, q) \in Keys /\ CursorOf(e, q) \in Keys
           /\ ~q.byScore => ComparedBy(e, q) = SortKey(e, q)
           /\ ~q.byScore /\ (q.text => Kept[Facts[e].rank] = Facts[e].rank) => CursorOf(e, q) = SortKey(e, q)
<1>1. /\ Facts[e].rank \in Weights /\ Facts[e].rank \in Int /\ Facts[e].score \in Int /\ Facts[e].observed \in Int /\ e \in Int
      /\ Kept[Facts[e].rank] \in Int
    BY EventFeedAssumption DEF EventColumns
<1>2. q.byScore \in BOOLEAN /\ q.text \in BOOLEAN
    BY DEF Query
<1>3. PICK k \in Int : k = CASE q.byScore -> Facts[e].score [] q.text /\ ~q.byScore -> Facts[e].rank [] OTHER -> 0
    BY <1>1, <1>2
<1>4. PICK r \in Int : r = IF q.text THEN Facts[e].rank ELSE 0
    BY <1>1, <1>2
<1>5. PICK c \in Int : c = IF q.text THEN Kept[Facts[e].rank] ELSE 0
    BY <1>1, <1>2
<1>6. PICK o \in Int : o = Facts[e].observed
    BY <1>1
<1>7. SortKey(e, q) = <<k, o, e>> /\ ComparedBy(e, q) = <<r, o, e>> /\ CursorOf(e, q) = <<c, o, e>>
    BY <1>3, <1>4, <1>5, <1>6 DEF SortKey, ComparedBy, CursorOf
<1>8. ~q.byScore => k = r
    BY <1>2, <1>3, <1>4
<1>9. ~q.byScore /\ (q.text => Kept[Facts[e].rank] = Facts[e].rank) => k = c
    BY <1>2, <1>3, <1>5
<1> QED
    BY <1>1, <1>7, <1>8, <1>9 DEF Keys

\* A page is all of the rows when there are no more than Limit, and otherwise what is left of
\* them comes behind its last row.
LEMMA PageIs ==
    ASSUME NEW q \in Query, NEW rows \in SUBSET Feed
    PROVE  /\ Cardinality(rows) <= Limit => FirstRows(rows, q) = rows
           /\ \A last \in rows, e \in rows :
                 IsLast(last, FirstRows(rows, q), q) /\ e \notin FirstRows(rows, q) => Less(SortKey(e, q), SortKey(last, q))
<1>1. IsFiniteSet(rows)
    BY EventFeedAssumption, FS_Subset
<1>2. \A e \in rows : IsFiniteSet(Ahead(e, rows, q)) /\ Cardinality(Ahead(e, rows, q)) \in Nat
  <2> SUFFICES ASSUME NEW e \in rows PROVE IsFiniteSet(Ahead(e, rows, q)) /\ Cardinality(Ahead(e, rows, q)) \in Nat
      OBVIOUS
  <2>1. Ahead(e, rows, q) \subseteq rows
      BY DEF Ahead
  <2> QED
      BY <1>1, <2>1, FS_Subset, FS_CardinalityType
<1>3. ASSUME Cardinality(rows) <= Limit, NEW e \in rows PROVE e \in FirstRows(rows, q)
  <2>1. Ahead(e, rows, q) \subseteq rows /\ e \notin Ahead(e, rows, q)
      BY KeysAre, LessOrders DEF Ahead
  <2>2. Cardinality(Ahead(e, rows, q)) <= Cardinality(rows) /\ Cardinality(Ahead(e, rows, q)) # Cardinality(rows)
      BY <1>1, <2>1, FS_Subset
  <2>3. PICK n \in Nat, m \in Nat : n = Cardinality(Ahead(e, rows, q)) /\ m = Cardinality(rows)
      BY <1>1, <1>2, FS_CardinalityType
  <2>4. n < Limit
      BY <1>3, <2>2, <2>3, EventFeedAssumption
  <2> QED
      BY <2>3, <2>4 DEF FirstRows
<1>4. ASSUME NEW last \in rows, NEW e \in rows, IsLast(last, FirstRows(rows, q), q), e \notin FirstRows(rows, q)
      PROVE  Less(SortKey(e, q), SortKey(last, q))
  <2>1. SUFFICES ASSUME ~Less(SortKey(e, q), SortKey(last, q)) PROVE FALSE
      OBVIOUS
  <2>2. last \in FirstRows(rows, q) /\ last # e
      BY <1>4 DEF IsLast
  <2>3. SortKey(e, q) \in Keys /\ SortKey(last, q) \in Keys /\ SortKey(e, q) # SortKey(last, q)
      BY <2>2, KeysAre
  <2>4. Less(SortKey(last, q), SortKey(e, q))
      BY <2>1, <2>3, LessOrders
  <2>5. Ahead(e, rows, q) \subseteq Ahead(last, rows, q)
    <3>1. ASSUME NEW f \in rows, Less(SortKey(e, q), SortKey(f, q)) PROVE Less(SortKey(last, q), SortKey(f, q))
        BY <2>3, <2>4, <3>1, KeysAre, LessOrders
    <3> QED
        BY <3>1 DEF Ahead
  <2>6. Cardinality(Ahead(e, rows, q)) <= Cardinality(Ahead(last, rows, q))
      BY <1>2, <2>5, FS_Subset
  <2>7. PICK n \in Nat, m \in Nat : n = Cardinality(Ahead(e, rows, q)) /\ m = Cardinality(Ahead(last, rows, q))
      BY <1>2
  <2>8. ~(n < Limit) /\ m < Limit
      BY <1>4, <2>2, <2>7 DEF FirstRows
  <2> QED
      BY <2>6, <2>7, <2>8, EventFeedAssumption
<1>5. FirstRows(rows, q) \subseteq rows
    BY DEF FirstRows
<1> QED
    BY <1>3, <1>4, <1>5

LEMMA KeyIsNone == ASSUME NEW c \in Keys PROVE c # NoKey
<1>1. DOMAIN c = {1, 2, 3}
    BY DEF Keys
<1>2. DOMAIN NoKey = {}
    BY DEF NoKey
<1> QED
    BY <1>1, <1>2

\* Which rows a page is read from, with their place about the cursor.
LEMMA BehindPages ==
    ASSUME NEW q \in Query, NEW e \in Feed, NEW c \in {NoKey} \cup Keys, ~q.byScore
    PROVE  BehindCursor(e, q, c) <=> c = NoKey \/ Less(SortKey(e, q), c)
BY KeysAre DEF BehindCursor

LEMMA UnreadIs ==
    /\ Unread \in Walker /\ Unread.at = "idle" /\ Unread.pages = <<>> /\ Unread.steady = {} /\ Unread.cursor = NoKey
    /\ Got(Unread) = {}
<1>1. NoScope \in [ScopeRows -> Modes]
    BY DEF NoScope, Modes
<1>2. PICK none \in [ScopeRows -> Modes] : none = NoScope
    BY <1>1
<1> QED
    BY <1>2 DEF Unread, Walker, Got

LEMMA WalkInit == EventFeedInit => WalkInv
<1> SUFFICES ASSUME EventFeedInit PROVE WalkInv
    OBVIOUS
<1>1. feed \subseteq Feed /\ scope \in [ScopeRows -> Modes] /\ bound \subseteq FeedSources /\ reader = Unread
    BY DEF EventFeedInit, Modes
<1>2. InOrder(reader)
    BY <1>1, UnreadIs DEF InOrder
<1> QED
    BY <1>1, <1>2, UnreadIs DEF WalkInv

\* What matches by some scope and sources, of events that are there, does so by no other part
\* of the state.
Fits(e, q, rows, sources) ==
    /\ q.sources # {} => Facts[e].source \in q.sources
    /\ ShownTo(e, q.roles)
    /\ InProject(e, q, rows, sources)
    /\ Facts[e].kind \in q.include \cup {"intel"}
    /\ q.text => Facts[e].rank > 0
LEMMA MatchingIs ==
    ASSUME NEW q, NEW events, NEW away, NEW rows, NEW sources, NEW e
    PROVE  e \in Matching(q, events, away, rows, sources) <=>
              e \in events /\ (e \in away => q.archived) /\ Fits(e, q, rows, sources)
BY DEF Matching, Matches, Fits

\* The scope of a walk is read, with all that has matched so far.
LEMMA ReadScopeStep == WalkInv /\ ReadScope => WalkInv'
<1> SUFFICES ASSUME WalkInv, ReadScope PROVE WalkInv'
    OBVIOUS
<1> USE DEF WalkInv
<1>1. CASE reader.at = "idle"
  <2>1. PICK q \in Queries : reader' = [Unread EXCEPT !.at = "scoped", !.query = q, !.scope = scope, !.bound = bound,
                                               !.steady = Matching(q, feed, hidden, scope, bound)]
      BY <1>1 DEF ReadScope
  <2>2. PICK m \in SUBSET Feed : m = Matching(q, feed, hidden, scope, bound)
    <3>1. Matching(q, feed, hidden, scope, bound) \subseteq Feed
        BY DEF Matching
    <3> QED
        BY <3>1
  <2>3. /\ reader' \in Walker /\ reader'.at = "scoped" /\ reader'.query = q /\ reader'.scope = scope /\ reader'.bound = bound
        /\ reader'.steady = m /\ reader'.pages = <<>> /\ reader'.cursor = NoKey
      BY <2>1, <2>2, UnreadIs DEF Walker
  <2>4. Got(reader') = {} /\ InOrder(reader')
      BY <2>3 DEF Got, InOrder
  <2>5. Between(reader')
      BY <2>3, <2>4 DEF Between
  <2> QED
      BY <2>2, <2>3, <2>4, <2>5 DEF ReadScope
<1>2. CASE reader.at = "between"
  <2>1. reader' = [reader EXCEPT !.at = "scoped", !.scope = scope, !.bound = bound]
      BY <1>2 DEF ReadScope
  <2>2. /\ reader' \in Walker /\ reader'.at = "scoped" /\ reader'.query = reader.query /\ reader'.scope = scope
        /\ reader'.bound = bound /\ reader'.steady = reader.steady /\ reader'.pages = reader.pages /\ reader'.cursor = reader.cursor
      BY <2>1 DEF Walker
  <2>3. Got(reader') = Got(reader) /\ (InOrder(reader') <=> InOrder(reader))
      BY <2>2 DEF Got, InOrder
  <2>4. (Exact(reader') <=> Exact(reader)) /\ (Between(reader') <=> Between(reader))
      BY <2>2, <2>3 DEF Exact, Between
  <2> QED
      BY <1>2, <2>2, <2>3, <2>4 DEF ReadScope
<1> QED
    BY <1>1, <1>2 DEF ReadScope

\* What a page is read from, and what the reader has then.
Turned(q, rows, page, pages) ==
    /\ q = reader.query /\ q \in Queries
    /\ rows = {e \in Matching(q, feed, hidden, reader.scope, reader.bound) : BehindCursor(e, q, reader.cursor)}
    /\ page = FirstRows(rows, q) /\ page \subseteq rows
    /\ pages = reader.pages /\ Append(pages, page) \in Seq(SUBSET Feed)
    /\ reader'.pages = Append(pages, page) /\ reader'.query = q /\ reader'.steady = reader.steady /\ reader' \in Walker
    /\ \/ /\ Cardinality(rows) > Limit /\ reader'.at = "between"
          /\ \E last \in page : IsLast(last, page, q) /\ reader'.cursor = CursorOf(last, q)
       \/ Cardinality(rows) <= Limit /\ reader'.at = "done"

LEMMA ReadPageIs ==
    ASSUME WalkInv, ReadPage
    PROVE  \E q \in Query, rows \in SUBSET Feed, page \in SUBSET Feed, pages \in Seq(SUBSET Feed) : Turned(q, rows, page, pages)
<1> USE DEF WalkInv
<1>1. PICK q \in Query : q = reader.query /\ q \in Queries
    BY EventFeedAssumption DEF ReadPage
<1>2. PICK rows \in SUBSET Feed :
          rows = {e \in Matching(q, feed, hidden, reader.scope, reader.bound) : BehindCursor(e, q, reader.cursor)}
  <2>1. Matching(q, feed, hidden, reader.scope, reader.bound) \subseteq Feed
      BY DEF Matching
  <2> QED
      BY <2>1
<1>3. PICK page \in SUBSET Feed : page = FirstRows(rows, q) /\ page \subseteq rows
    BY DEF FirstRows
<1>4. PICK pages \in Seq(SUBSET Feed) : pages = reader.pages /\ Append(pages, page) \in Seq(SUBSET Feed)
    BY DEF Walker
<1> DEFINE read == [reader EXCEPT !.pages = Append(@, page), !.scope = NoScope, !.bound = {}]
<1>5. /\ read \in Walker /\ read.pages = Append(pages, page) /\ read.at = reader.at /\ read.query = q
      /\ read.steady = reader.steady /\ read.cursor = reader.cursor
  <2>1. PICK none \in [ScopeRows -> Modes] : none = NoScope
      BY DEF NoScope, Modes
  <2>2. PICK longer \in Seq(SUBSET Feed) : longer = Append(pages, page)
      BY <1>4
  <2>3. read = [reader EXCEPT !.pages = longer, !.scope = none, !.bound = {}]
      BY <1>4, <2>1, <2>2 DEF Walker
  <2> QED
      BY <1>1, <2>2, <2>3 DEF Walker
<1>6. PICK w \in Walker : w = read
    BY <1>5
<1> HIDE DEF read
<1>7. /\ reader'.pages = Append(pages, page) /\ reader'.query = q /\ reader'.steady = reader.steady /\ reader' \in Walker
      /\ \/ /\ Cardinality(rows) > Limit /\ reader'.at = "between"
            /\ \E last \in page : IsLast(last, page, q) /\ reader'.cursor = CursorOf(last, q)
         \/ Cardinality(rows) <= Limit /\ reader'.at = "done"
  <2>1. Cardinality(rows) \in Nat /\ Limit \in Nat
      BY EventFeedAssumption, FS_Subset, FS_CardinalityType
  <2> DEFINE Unseen == {e \in Matching(reader.query, feed, hidden, reader.scope, reader.bound) : BehindCursor(e, reader.query, reader.cursor)}
  <2>4. Unseen = rows /\ FirstRows(Unseen, reader.query) = page
      BY <1>1, <1>2, <1>3
  <2> HIDE DEF Unseen
  <2>5. IF Cardinality(Unseen) > Limit
        THEN \E last \in FirstRows(Unseen, reader.query) :
                /\ IsLast(last, FirstRows(Unseen, reader.query), reader.query)
                /\ reader' = [[reader EXCEPT !.pages = Append(@, FirstRows(Unseen, reader.query)), !.scope = NoScope, !.bound = {}]
                               EXCEPT !.at = "between", !.cursor = CursorOf(last, reader.query)]
        ELSE reader' = [[reader EXCEPT !.pages = Append(@, FirstRows(Unseen, reader.query)), !.scope = NoScope, !.bound = {}]
                           EXCEPT !.at = "done", !.cursor = NoKey]
      BY DEF ReadPage, Unseen
  <2>6. IF Cardinality(rows) > Limit
        THEN \E last \in page : IsLast(last, page, q) /\ reader' = [w EXCEPT !.at = "between", !.cursor = CursorOf(last, q)]
        ELSE reader' = [w EXCEPT !.at = "done", !.cursor = NoKey]
      BY <1>1, <1>6, <2>4, <2>5 DEF read
  <2>2. CASE Cardinality(rows) > Limit
    <3>1. PICK last \in page : IsLast(last, page, q) /\ reader' = [w EXCEPT !.at = "between", !.cursor = CursorOf(last, q)]
        BY <2>2, <2>6
    <3>2. PICK c \in Keys : c = CursorOf(last, q)
        BY KeysAre
    <3> QED
        BY <1>5, <1>6, <2>2, <3>1, <3>2 DEF Walker
  <2>3. CASE ~(Cardinality(rows) > Limit)
    <3>1. reader' = [w EXCEPT !.at = "done", !.cursor = NoKey]
        BY <2>3, <2>6
    <3>2. Cardinality(rows) <= Limit
        BY <2>1, <2>3
    <3>3. PICK none \in {NoKey} \cup Keys : none = NoKey
        OBVIOUS
    <3> QED
        BY <1>5, <1>6, <3>1, <3>2, <3>3 DEF Walker
  <2> QED
      BY <2>2, <2>3
<1> QED
    BY <1>1, <1>2, <1>3, <1>4, <1>7 DEF Turned

\* A page is read behind the cursor, and the cursor set behind it.
LEMMA ReadPageStep == WalkInv /\ ReadPage => WalkInv'
<1> SUFFICES ASSUME WalkInv, ReadPage PROVE WalkInv'
    OBVIOUS
<1> USE DEF WalkInv
<1>1. PICK q \in Query, rows \in SUBSET Feed, page \in SUBSET Feed, pages \in Seq(SUBSET Feed) : Turned(q, rows, page, pages)
    BY ReadPageIs
<1>2. q = reader.query /\ q \in Queries
    BY <1>1 DEF Turned
<1>3. /\ rows = {e \in Matching(q, feed, hidden, reader.scope, reader.bound) : BehindCursor(e, q, reader.cursor)}
      /\ page = FirstRows(rows, q) /\ page \subseteq rows
    BY <1>1 DEF Turned
<1>4. pages = reader.pages /\ Append(pages, page) \in Seq(SUBSET Feed)
    BY <1>1 DEF Turned
<1>5. /\ reader'.pages = Append(pages, page) /\ reader'.query = q /\ reader'.steady = reader.steady /\ reader' \in Walker
      /\ \/ /\ Cardinality(rows) > Limit /\ reader'.at = "between"
            /\ \E last \in page : IsLast(last, page, q) /\ reader'.cursor = CursorOf(last, q)
         \/ Cardinality(rows) <= Limit /\ reader'.at = "done"
    BY <1>1 DEF Turned
<1>6. Got(reader') = Got(reader) \cup page /\ Got(reader) \subseteq Feed
  <2>1. \A i \in DOMAIN pages : Append(pages, page)[i] = pages[i] /\ pages[i] \subseteq Feed
      BY <1>4
  <2>2. DOMAIN Append(pages, page) = DOMAIN pages \cup {Len(pages) + 1} /\ Append(pages, page)[Len(pages) + 1] = page
      BY <1>4
  <2> QED
      BY <1>4, <1>5, <2>1, <2>2 DEF Got
<1>7. ASSUME Exact(reader') PROVE Exact(reader) /\ InOrder(reader) /\ Between(reader) /\ ~q.byScore
    BY <1>2, <1>5, <1>6, <1>7 DEF Exact, ReadPage
<1>8. reader.cursor \in {NoKey} \cup Keys
    BY DEF Walker
<1>9. ASSUME Exact(reader'), NEW e \in page, NEW f \in Got(reader)
       PROVE  Less(SortKey(e, q), SortKey(f, q))
  <2>1. Less(SortKey(e, q), reader.cursor) /\ reader.cursor \in Keys
    <3>1. reader.cursor # NoKey
        BY <1>7, <1>9 DEF Between
    <3> QED
        BY <1>3, <1>7, <1>8, <1>9, <3>1, BehindPages
  <2>2. ~Less(SortKey(f, q), reader.cursor)
    <3>1. reader.cursor # NoKey
        BY <1>7, <1>9 DEF Between
    <3> QED
        BY <1>2, <1>7, <1>9, <3>1 DEF Between
  <2>3. SortKey(e, q) \in Keys /\ SortKey(f, q) \in Keys
      BY <1>6, KeysAre
  <2> QED
      BY <2>1, <2>2, <2>3, LessOrders
<1>10. ASSUME Exact(reader') PROVE InOrder(reader')
  <2> SUFFICES ASSUME NEW i \in DOMAIN reader'.pages, NEW j \in DOMAIN reader'.pages, i < j,
                      NEW f \in reader'.pages[i], NEW e \in reader'.pages[j]
               PROVE  Less(SortKey(e, q), SortKey(f, q))
      BY <1>5 DEF InOrder
  <2>1. i \in DOMAIN pages /\ f \in pages[i] /\ f \in Got(reader)
      BY <1>4, <1>5 DEF Got
  <2>2. CASE j \in DOMAIN pages
    <3>1. e \in pages[j]
        BY <1>4, <1>5, <2>2
    <3> QED
        BY <1>2, <1>4, <1>7, <1>10, <2>1, <2>2, <3>1 DEF InOrder
  <2>3. CASE j \notin DOMAIN pages
    <3>1. e \in page
        BY <1>4, <1>5, <2>3
    <3> QED
        BY <1>9, <1>10, <2>1, <3>1
  <2> QED
      BY <2>2, <2>3
<1>11. ASSUME Exact(reader'), NEW e \in reader.steady \ Got(reader) PROVE e \in rows
  <2>1. e \in Matching(q, feed, hidden, reader.scope, reader.bound) /\ e \in Feed
      BY <1>2, <1>11 DEF ReadPage, Walker
  <2>2. reader.cursor = NoKey \/ Less(SortKey(e, q), reader.cursor)
      BY <1>2, <1>7, <1>11 DEF Between
  <2> QED
      BY <1>3, <1>7, <1>8, <1>11, <2>1, <2>2, BehindPages
<1>12. ASSUME Exact(reader'), reader'.at = "between" PROVE Between(reader')
  <2>1. PICK last \in page : IsLast(last, page, q) /\ reader'.cursor = CursorOf(last, q)
      BY <1>5, <1>12
  <2>2. last \in Got(reader')
      BY <1>6
  <2>3. CursorOf(last, q) = SortKey(last, q) /\ SortKey(last, q) \in Keys
      BY <1>5, <1>12, <2>2, KeysAre DEF Exact
  <2>4. reader'.cursor # NoKey
      BY <2>1, <2>3, KeyIsNone
  <2>5. ASSUME NEW e \in Got(reader') PROVE ~Less(SortKey(e, q), SortKey(last, q))
    <3>1. e \in Feed
        BY <1>6
    <3>2. SortKey(e, q) \in Keys
        BY <3>1, KeysAre
    <3>3. CASE e \in Got(reader)
        BY <1>9, <1>12, <2>3, <3>2, <3>3, LessOrders
    <3>4. CASE e \in page
        BY <2>1, <2>3, <3>2, <3>4, LessOrders DEF IsLast
    <3> QED
        BY <1>6, <3>3, <3>4
  <2>6. ASSUME NEW e \in reader.steady \ Got(reader') PROVE Less(SortKey(e, q), SortKey(last, q))
    <3>1. e \in rows /\ e \notin page
        BY <1>6, <1>11, <1>12
    <3> QED
        BY <1>3, <2>1, <3>1, PageIs
  <2> QED
      BY <1>5, <2>1, <2>3, <2>4, <2>5, <2>6 DEF Between
<1>13. ASSUME Exact(reader'), reader'.at = "done" PROVE reader.steady \subseteq Got(reader')
  <2>1. page = rows
      BY <1>3, <1>5, <1>13, PageIs
  <2> QED
      BY <1>6, <1>11, <1>13, <2>1
<1> QED
    BY <1>2, <1>5, <1>10, <1>12, <1>13 DEF ReadPage

\* Whatever changes meanwhile leaves what has matched before and after.
LEMMA ChangesStep ==
    ASSUME WalkInv, NEW events \in SUBSET Feed, NEW away, NEW rows \in [ScopeRows -> Modes], NEW sources \in SUBSET FeedSources,
           Changes(events, away, rows, sources)
    PROVE  WalkInv'
<1> USE DEF WalkInv
<1>1. PICK kept \in SUBSET Feed : kept = reader.steady \cap Matching(reader.query, events, away, rows, sources)
    BY DEF Walker
<1>2. /\ reader' = [reader EXCEPT !.steady = kept]
      /\ feed' = events /\ hidden' = away /\ scope' = rows /\ bound' = sources
    BY <1>1 DEF Changes, Walker
<1>3. /\ reader' \in Walker /\ reader'.at = reader.at /\ reader'.query = reader.query /\ reader'.scope = reader.scope
      /\ reader'.bound = reader.bound /\ reader'.pages = reader.pages /\ reader'.cursor = reader.cursor
      /\ reader'.steady = kept /\ kept \subseteq reader.steady
    BY <1>1, <1>2 DEF Walker
<1>4. Got(reader') = Got(reader) /\ (InOrder(reader') <=> InOrder(reader))
    BY <1>3 DEF Got, InOrder
<1>5. (Exact(reader') <=> Exact(reader)) /\ (Between(reader) => Between(reader'))
    BY <1>3, <1>4 DEF Exact, Between
<1>6. kept \subseteq Matching(reader.query, events, away, rows, sources)
    BY <1>1
<1>7. reader.at = "scoped" => kept \subseteq Matching(reader.query, events, away, reader.scope, reader.bound)
    BY <1>3, <1>6, MatchingIs
<1> QED
    BY <1>2, <1>3, <1>4, <1>5, <1>6, <1>7

LEMMA WalkStep == WalkInv /\ [EventFeedNext]_feedVars => WalkInv'
<1> SUFFICES ASSUME WalkInv, [EventFeedNext]_feedVars PROVE WalkInv'
    OBVIOUS
<1>1. feed \in SUBSET Feed /\ scope \in [ScopeRows -> Modes] /\ bound \in SUBSET FeedSources
    BY DEF WalkInv
<1>2. CASE UNCHANGED feedVars
  <2>1. Got(reader)' = Got(reader) /\ InOrder(reader)' = InOrder(reader)
      BY <1>2 DEF feedVars, Got, InOrder
  <2> QED
      BY <1>2, <2>1 DEF feedVars, WalkInv, Exact, Between, Got, InOrder
<1>3. ASSUME NEW e \in Feed, StoreInFeed(e) \/ HideEvent(e) \/ DropEvent(e) PROVE WalkInv'
    BY <1>1, <1>3, ChangesStep DEF StoreInFeed, HideEvent, DropEvent
<1>4. ASSUME NEW r \in ScopeRows, EditScope(r) PROVE WalkInv'
  <2>1. PICK mode \in Modes : Changes(feed, hidden, [scope EXCEPT ![r] = mode], bound)
      BY <1>4 DEF EditScope, Modes
  <2> QED
      BY <1>1, <2>1, ChangesStep
<1>5. ASSUME NEW s \in FeedSources, BindSource(s) PROVE WalkInv'
  <2>1. (IF s \in bound THEN bound \ {s} ELSE bound \cup {s}) \in SUBSET FeedSources
      BY <1>1
  <2> QED
      BY <1>1, <1>5, <2>1, ChangesStep DEF BindSource
<1> QED
    BY <1>2, <1>3, <1>4, <1>5, ReadScopeStep, ReadPageStep DEF EventFeedNext

\* Whatever the feed, the request, the size of a page and the changes between two reads, who
\* follows exact cursors to the end gets all that matched throughout, once and in order.
THEOREM WalkCorrect == EventFeedSpec => []WalkComplete
<1>1. EventFeedInit => WalkInv
    BY WalkInit
<1>2. WalkInv /\ [EventFeedNext]_feedVars => WalkInv'
    BY WalkStep
<1>3. WalkInv => WalkComplete
    BY DEF WalkInv, WalkComplete, ExactCursors, Exact, InOrder, Received, Got
<1> QED
    BY <1>1, <1>2, <1>3, PTL DEF EventFeedSpec

-----------------------------------------------------------------------------
(* Rerank: the scores, the key and the digests *)

\* What a model may say of an event, clamped.
Fitting(e, x) == x = NoScore \/ (ScoreOf[e] # NoScore /\ x \in 0..100 /\ x - ScoreOf[e] \in -15..15)
FittingRows == {own \in [Ranked -> Scores] : \A e \in Ranked : Fitting(e, own[e])}

Thread == [at : {"idle", "events", "update", "finally", "digest", "written"}, of : Sent \cup {NoMessage}, left : Seq(Ranked),
           streak : Nat, given : Scores, own : FittingRows, aborted : BOOLEAN, raised : BOOLEAN]
\* A thread at work has a message of the actor it runs, and a score to write fits the event.
Sensible(s) ==
    /\ s.at = "update" => s.left # <<>> /\ Fitting(Head(s.left), s.given)
    /\ s.at \in {"events", "update", "finally"} => s.of \in Sent /\ s.of.actor = "rerank"
    /\ s.at \in {"digest", "written"} => s.of \in Sent /\ s.of.actor = "digest"
Worker == {s \in Thread : Sensible(s)}

RerankRows ==
    /\ aiScore \in FittingRows /\ inProgress \in BOOLEAN /\ stuck \in BOOLEAN
    /\ aiQueue \subseteq Sent /\ aiSent \in [Actors -> 0..MaxSent]
    /\ reranker \in [Rerankers -> Worker]
    /\ digests \in [1..MaxSent -> Nat] /\ doubled \in [1..MaxSent -> Nat]

\* The digest message of a number is in one place; while it is in the queue or nothing has been
\* written of it since it was taken, it has written a digest only where a worker has died.
Waiting(i, m) == m \in aiQueue /\ m.actor = "digest" /\ m.number = i
Holds(t, i) == reranker[t].at \in {"digest", "written"} /\ reranker[t].of.number = i
OnePlace(i) ==
    /\ \A m, n \in aiQueue : Waiting(i, m) /\ Waiting(i, n) => m = n
    /\ \A t, u \in Rerankers : Holds(t, i) /\ Holds(u, i) => t = u
    /\ \A m \in aiQueue, t \in Rerankers : ~(Waiting(i, m) /\ Holds(t, i))
Owed(i) == (\E m \in aiQueue : Waiting(i, m)) \/ (\E t \in Rerankers : Holds(t, i) /\ reranker[t].at = "digest")
Counted(i) ==
    /\ OnePlace(i)
    /\ i > aiSent["digest"] => digests[i] = 0 /\ (\A m \in aiQueue : ~Waiting(i, m)) /\ (\A t \in Rerankers : ~Holds(t, i))
    /\ digests[i] <= doubled[i] + 1
    /\ Owed(i) => digests[i] <= doubled[i]

RerankInv == RerankRows /\ KeyIsTrue /\ \A i \in 1..MaxSent : Counted(i)

LEMMA Vacant == NoScores \in FittingRows /\ Unemployed \in Worker /\ Unemployed.at = "idle"
<1>1. PICK own \in FittingRows : own = NoScores
  <2>1. NoScore \in Scores
      BY DEF Scores
  <2>2. NoScores \in [Ranked -> Scores] /\ \A e \in Ranked : NoScores[e] = NoScore
      BY <2>1 DEF NoScores
  <2>3. NoScores \in FittingRows
      BY <2>2 DEF FittingRows, Fitting
  <2> QED
      BY <2>3
<1>2. PICK none \in Sent \cup {NoMessage} : none = NoMessage
    OBVIOUS
<1>3. PICK left \in Seq(Ranked) : left = <<>>
  <2>1. <<>> \in Seq(Ranked)
      OBVIOUS
  <2> QED
      BY <2>1
<1>4. PICK given \in Scores : given = NoScore
    BY DEF Scores
<1> DEFINE free == [at |-> "idle", of |-> none, left |-> left, streak |-> 0, given |-> given, own |-> own,
                    aborted |-> FALSE, raised |-> FALSE]
<1>5. free \in Thread /\ free.at = "idle"
    BY DEF Thread
<1>6. free = Unemployed
    BY <1>1, <1>2, <1>3, <1>4 DEF Unemployed
<1>7. Unemployed.at = "idle"
    BY DEF Unemployed
<1>8. Sensible(Unemployed)
    BY <1>7 DEF Sensible
<1> QED
    BY <1>1, <1>5, <1>6, <1>7, <1>8 DEF Worker

LEMMA RerankStart == RerankInit => RerankInv
<1> SUFFICES ASSUME RerankInit PROVE RerankInv
    OBVIOUS
<1>1. RerankRows
  <2>1. aiScore \in FittingRows /\ reranker \in [Rerankers -> Worker]
      BY Vacant DEF RerankInit
  <2>2. digests \in [1..MaxSent -> Nat] /\ doubled \in [1..MaxSent -> Nat]
      BY DEF RerankInit
  <2>3. aiSent \in [Actors -> 0..MaxSent]
    <3>1. 0 \in 0..MaxSent
        BY RerankAssumption
    <3> QED
        BY <3>1 DEF RerankInit
  <2> QED
      BY <2>1, <2>2, <2>3 DEF RerankInit, RerankRows
<1>2. KeyIsTrue
    BY DEF RerankInit, KeyIsTrue
<1>3. ASSUME NEW i \in 1..MaxSent PROVE Counted(i)
  <2>1. \A t \in Rerankers : reranker[t].at = "idle"
      BY Vacant DEF RerankInit
  <2>2. aiQueue = {} /\ digests[i] = 0 /\ doubled[i] = 0
      BY DEF RerankInit
  <2>3. \A t \in Rerankers : ~Holds(t, i)
      BY <2>1 DEF Holds
  <2> QED
      BY <2>2, <2>3 DEF Counted, OnePlace, Owed, Holds, Waiting
<1> QED
    BY <1>1, <1>2, <1>3 DEF RerankInv

\* A step that neither sends, takes nor writes a digest message leaves what is counted of it.
LEMMA QuietStep ==
    ASSUME RerankInv, NEW i \in 1..MaxSent, digests'[i] = digests[i], doubled'[i] = doubled[i],
           i > aiSent'["digest"] => i > aiSent["digest"],
           \A m : m.actor = "digest" /\ m.number = i => (m \in aiQueue' <=> m \in aiQueue),
           \A t \in Rerankers : reranker'[t] = reranker[t] \/ (~Holds(t, i)' /\ ~Holds(t, i))
    PROVE  Counted(i)'
<1>1. Counted(i)
    BY DEF RerankInv
<1>2. \A m : Waiting(i, m)' <=> Waiting(i, m)
    BY DEF Waiting
<1>3. \A t \in Rerankers : /\ Holds(t, i)' <=> Holds(t, i)
                           /\ Holds(t, i) => reranker'[t] = reranker[t]
    BY DEF Holds
<1>4. OnePlace(i)'
  <2>1. OnePlace(i)
      BY <1>1 DEF Counted
  <2>2. \A m \in aiQueue' : Waiting(i, m)' => m \in aiQueue
      BY <1>2 DEF Waiting
  <2> QED
      BY <1>2, <1>3, <2>1, <2>2 DEF OnePlace
<1>5. Owed(i)' => Owed(i)
  <2>1. \A m \in aiQueue' : Waiting(i, m)' => m \in aiQueue
      BY <1>2 DEF Waiting
  <2> QED
      BY <1>2, <1>3, <2>1 DEF Owed
<1>6. \A m \in aiQueue' : Waiting(i, m)' => m \in aiQueue
    BY <1>2 DEF Waiting
<1> QED
    BY <1>1, <1>2, <1>3, <1>4, <1>5, <1>6 DEF Counted

LEMMA WorksIs ==
    ASSUME RerankRows, NEW t \in Rerankers, NEW s \in Worker, Works(t, s)
    PROVE  /\ reranker' \in [Rerankers -> Worker] /\ reranker'[t] = s
           /\ \A u \in Rerankers \ {t} : reranker'[u] = reranker[u]
BY DEF Works, RerankRows

\* A step of a thread on a rerank, which leaves the digests alone.
LEMMA RerankThreadStep ==
    ASSUME RerankInv, NEW t \in Rerankers, NEW s \in Worker, Works(t, s),
           s.at \notin {"digest", "written"}, reranker[t].at \notin {"digest", "written"},
           UNCHANGED <<digests, doubled, aiSent>>, aiQueue' \subseteq Sent,
           \A m : m.actor = "digest" => (m \in aiQueue' <=> m \in aiQueue),
           aiScore' \in FittingRows, inProgress' \in BOOLEAN, stuck' \in BOOLEAN,
           inProgress' /\ ~stuck' => (inProgress /\ ~stuck) \/ Reranks(t)',
           inProgress' /\ ~stuck' /\ Reranks(t) => Reranks(t)'
    PROVE  RerankInv'
<1>1. /\ reranker' \in [Rerankers -> Worker] /\ reranker'[t] = s
      /\ \A u \in Rerankers \ {t} : reranker'[u] = reranker[u]
    BY WorksIs DEF RerankInv
<1>2. RerankRows'
    BY <1>1 DEF RerankRows, RerankInv
<1>3. KeyIsTrue'
  <2> SUFFICES ASSUME inProgress', ~stuck' PROVE \E u \in Rerankers : Reranks(u)'
      BY DEF KeyIsTrue
  <2>1. CASE Reranks(t)'
      BY <2>1
  <2>2. CASE inProgress /\ ~stuck
    <3>1. PICK u \in Rerankers : Reranks(u)
        BY <2>2 DEF RerankInv, KeyIsTrue
    <3>2. CASE u = t
        BY <3>1, <3>2
    <3>3. CASE u # t
        BY <1>1, <3>1, <3>3 DEF Reranks
    <3> QED
        BY <3>2, <3>3
  <2> QED
      BY <2>1, <2>2
<1>4. ASSUME NEW i \in 1..MaxSent PROVE Counted(i)'
  <2>1. \A u \in Rerankers : reranker'[u] = reranker[u] \/ (~Holds(u, i)' /\ ~Holds(u, i))
      BY <1>1 DEF Holds
  <2>2. digests'[i] = digests[i] /\ doubled'[i] = doubled[i] /\ aiSent' = aiSent
      OBVIOUS
  <2> QED
      BY <2>1, <2>2, QuietStep
<1> QED
    BY <1>2, <1>3, <1>4 DEF RerankInv

LEMMA AgainIs ==
    ASSUME RerankRows, NEW t \in Rerankers, NEW failed \in 0..1, reranker[t].of \in Sent, Again(t, failed)
    PROVE  /\ aiQueue' \subseteq Sent
           /\ \/ aiQueue' = aiQueue
              \/ \E m \in Sent : /\ aiQueue' = aiQueue \cup {m}
                                 /\ m.actor = reranker[t].of.actor /\ m.number = reranker[t].of.number
<1>1. PICK m \in Sent : m = reranker[t].of
    OBVIOUS
<1>2. m.tries \in Nat /\ m.tries + failed \in Nat /\ RerankRetries \in Nat
    BY RerankAssumption DEF Sent
<1>3. PICK n \in Nat : n = m.tries + failed
    BY <1>2
<1>4. aiQueue' = IF n <= RerankRetries THEN aiQueue \cup {[m EXCEPT !.tries = n]} ELSE aiQueue
    BY <1>1, <1>3 DEF Again
<1>5. CASE n <= RerankRetries
  <2>1. PICK k \in 0..RerankRetries : k = n
      BY <1>2, <1>5
  <2>2. [m EXCEPT !.tries = k] \in Sent /\ [m EXCEPT !.tries = k].actor = m.actor /\ [m EXCEPT !.tries = k].number = m.number
      BY DEF Sent
  <2>3. PICK a \in Sent : a = [m EXCEPT !.tries = k]
      BY <2>2
  <2>4. aiQueue' = aiQueue \cup {a}
      BY <1>4, <1>5, <2>1, <2>3
  <2> QED
      BY <1>1, <2>2, <2>3, <2>4 DEF RerankRows
<1>6. CASE ~(n <= RerankRetries)
    BY <1>4, <1>6 DEF RerankRows
<1> QED
    BY <1>5, <1>6

LEMMA OrderIs == \A order \in Orders : order \in Seq(Ranked)
<1>1. PICK n \in Nat : n = Cardinality(Ranked)
    BY RerankAssumption, FS_CardinalityType
<1>2. \A order \in [1..n -> Ranked] : order \in Seq(Ranked)
    OBVIOUS
<1> QED
    BY <1>1, <1>2 DEF Orders

LEMMA TakeRerankStep ==
    ASSUME RerankInv, NEW t \in Rerankers, NEW m \in aiQueue, TakeRerank(t, m)
    PROVE  RerankInv'
<1>1. PICK order \in Seq(Ranked) : Works(t, [Unemployed EXCEPT !.at = "events", !.of = m, !.left = order])
    BY OrderIs DEF TakeRerank
<1>2. m \in Sent /\ m.actor = "rerank"
    BY DEF TakeRerank, Taken, RerankInv, RerankRows
<1>3. PICK s \in Thread : s = [Unemployed EXCEPT !.at = "events", !.of = m, !.left = order] /\ s.at = "events" /\ s.of = m
  <2>1. PICK free \in Thread : free = Unemployed
      BY Vacant DEF Worker
  <2> DEFINE a == [free EXCEPT !.at = "events", !.of = m, !.left = order]
  <2>2. a \in Thread /\ a.at = "events" /\ a.of = m
      BY <1>2 DEF Thread
  <2> HIDE DEF a
  <2>3. a = [Unemployed EXCEPT !.at = "events", !.of = m, !.left = order]
      BY <2>1 DEF a
  <2> QED
      BY <2>2, <2>3
<1>4. s \in Worker /\ Works(t, s)
    BY <1>1, <1>2, <1>3 DEF Worker, Sensible
<1>5. reranker'[t] = s
    BY <1>4, WorksIs DEF RerankInv
<1>6. Reranks(t)'
    BY <1>3, <1>5 DEF Reranks
<1>7. /\ inProgress' \in BOOLEAN /\ aiQueue' = aiQueue \ {m} /\ reranker[t].at = "idle"
      /\ UNCHANGED <<aiScore, digests, doubled, stuck, aiSent>>
    BY DEF TakeRerank, Taken, RerankInv, RerankRows
<1> QED
    BY <1>2, <1>3, <1>4, <1>6, <1>7, RerankThreadStep DEF RerankInv, RerankRows

\* A step of a rerank that goes on, and touches nothing but its thread and the scores.
LEMMA RerankGoesOn ==
    ASSUME RerankInv, NEW t \in Rerankers, NEW s \in Worker, Works(t, s), Reranks(t),
           s.at \in {"events", "update", "finally"}, aiScore' \in FittingRows,
           UNCHANGED <<inProgress, aiQueue, digests, doubled, stuck, aiSent>>
    PROVE  RerankInv'
<1>1. reranker'[t] = s
    BY WorksIs DEF RerankInv
<1>2. Reranks(t)'
    BY <1>1 DEF Reranks
<1>3. s.at \notin {"digest", "written"} /\ reranker[t].at \notin {"digest", "written"}
    BY DEF Reranks
<1>4. aiQueue' \subseteq Sent /\ inProgress' \in BOOLEAN /\ stuck' \in BOOLEAN
    BY DEF RerankInv, RerankRows
<1> QED
    BY <1>2, <1>3, <1>4, RerankThreadStep

LEMMA PassesIs ==
    ASSUME RerankInv, NEW t \in Rerankers, AtEvent(t, "events") \/ AtEvent(t, "update")
    PROVE  /\ First(t) \in Ranked /\ Reranks(t)
           /\ Passes(t) \in Worker /\ Passes(t).at = "events"
<1>1. PICK s \in Worker : s = reranker[t]
    BY DEF RerankInv, RerankRows
<1>2. PICK left \in Seq(Ranked) : left = s.left /\ left # <<>>
    BY <1>1 DEF Worker, Thread, AtEvent
<1>3. PICK rest \in Seq(Ranked) : rest = Tail(left)
  <2>1. Tail(left) \in Seq(Ranked)
      BY <1>2
  <2> QED
      BY <2>1
<1>4. PICK none \in Scores : none = NoScore
    BY DEF Scores
<1>5. Head(left) \in Ranked
    BY <1>2
<1>6. s.of \in Sent /\ s.of.actor = "rerank" /\ s.at \in {"events", "update"}
    BY <1>1 DEF Worker, Sensible, AtEvent
<1>7. PICK p \in Thread : p = [s EXCEPT !.at = "events", !.left = rest, !.given = none] /\ p.at = "events" /\ p.of = s.of
  <2> DEFINE a == [s EXCEPT !.at = "events", !.left = rest, !.given = none]
  <2>1. a \in Thread /\ a.at = "events" /\ a.of = s.of
      BY DEF Worker, Thread
  <2> HIDE DEF a
  <2>2. a = [s EXCEPT !.at = "events", !.left = rest, !.given = none]
      BY DEF a
  <2> QED
      BY <2>1, <2>2
<1>8. p \in Worker
    BY <1>6, <1>7 DEF Worker, Sensible
<1>9. p = Passes(t)
    BY <1>1, <1>2, <1>3, <1>4, <1>7 DEF Passes
<1> QED
    BY <1>1, <1>2, <1>5, <1>6, <1>7, <1>8, <1>9 DEF First, Reranks

\* The clamp keeps within 15 of the score and within the scale.
LEMMA ClampedFits ==
    ASSUME NEW e \in Ranked, ScoreOf[e] # NoScore, NEW x \in Int
    PROVE  /\ Clamped(ScoreOf[e], x) \in 0..100 /\ Clamped(ScoreOf[e], x) \in Scores
           /\ Fitting(e, Clamped(ScoreOf[e], x))
<1>1. PICK score \in 0..100 : score = ScoreOf[e]
    BY RerankAssumption
<1>2. Clamped(score, x) \in 0..100 /\ Clamped(score, x) - score \in -15..15
    BY DEF Clamped
<1> QED
    BY <1>1, <1>2 DEF Scores, Fitting

LEMMA AskModelsStep ==
    ASSUME RerankInv, NEW t \in Rerankers, AskModels(t)
    PROVE  RerankInv'
<1>1. PICK s \in Worker : s = reranker[t]
    BY DEF RerankInv, RerankRows
<1>2. /\ First(t) \in Ranked /\ Reranks(t) /\ Passes(t) \in Worker /\ Passes(t).at = "events"
      /\ s.at = "events" /\ s.left # <<>> /\ First(t) = Head(s.left) /\ s.of \in Sent /\ s.of.actor = "rerank"
    BY <1>1, PassesIs DEF AskModels, AtEvent, First, Worker, Sensible
<1>3. /\ UNCHANGED <<inProgress, aiQueue, digests, doubled, stuck, aiSent>>
      /\ aiScore' \in FittingRows
    BY DEF AskModels, RerankInv, RerankRows
<1>4. CASE Works(t, Passes(t))
    BY <1>2, <1>3, <1>4, RerankGoesOn
<1>5. ASSUME ScoreOf[First(t)] # NoScore, NEW x \in Adjustments,
             Works(t, [reranker[t] EXCEPT !.at = "update", !.streak = 0, !.given = Clamped(ScoreOf[First(t)], x)])
      PROVE  RerankInv'
  <2>1. PICK given \in Scores : given = Clamped(ScoreOf[First(t)], x) /\ Fitting(First(t), given)
      BY <1>2, <1>5, ClampedFits, RerankAssumption
  <2>2. PICK a \in Thread : /\ a = [s EXCEPT !.at = "update", !.streak = 0, !.given = given]
                            /\ a.at = "update" /\ a.of = s.of /\ a.left = s.left /\ a.given = given
    <3> DEFINE fresh == [s EXCEPT !.at = "update", !.streak = 0, !.given = given]
    <3>1. fresh \in Thread /\ fresh.at = "update" /\ fresh.of = s.of /\ fresh.left = s.left /\ fresh.given = given
        BY DEF Worker, Thread
    <3> HIDE DEF fresh
    <3>2. fresh = [s EXCEPT !.at = "update", !.streak = 0, !.given = given]
        BY DEF fresh
    <3> QED
        BY <3>1, <3>2
  <2>3. a \in Worker
      BY <1>2, <2>1, <2>2 DEF Worker, Sensible
  <2>4. Works(t, a)
      BY <1>1, <1>5, <2>1, <2>2
  <2> QED
      BY <1>2, <1>3, <2>2, <2>3, <2>4, RerankGoesOn
<1>6. CASE Works(t, IF reranker[t].streak + 1 >= Breaker THEN [reranker[t] EXCEPT !.left = <<>>] ELSE [Passes(t) EXCEPT !.streak = @ + 1])
  <2>1. CASE reranker[t].streak + 1 >= Breaker
    <3>1. PICK left \in Seq(Ranked) : left = <<>>
      <4>1. <<>> \in Seq(Ranked)
          OBVIOUS
      <4> QED
          BY <4>1
    <3>2. PICK a \in Thread : a = [s EXCEPT !.left = left] /\ a.at = "events" /\ a.of = s.of
      <4> DEFINE fresh == [s EXCEPT !.left = left]
      <4>1. fresh \in Thread /\ fresh.at = "events" /\ fresh.of = s.of
          BY <1>2 DEF Worker, Thread
      <4> HIDE DEF fresh
      <4>2. fresh = [s EXCEPT !.left = left]
          BY DEF fresh
      <4> QED
          BY <4>1, <4>2
    <3>3. a \in Worker
        BY <1>2, <3>2 DEF Worker, Sensible
    <3>4. Works(t, a)
        BY <1>1, <1>6, <2>1, <3>1, <3>2
    <3> QED
        BY <1>2, <1>3, <3>2, <3>3, <3>4, RerankGoesOn
  <2>2. CASE ~(reranker[t].streak + 1 >= Breaker)
    <3>1. PICK p \in Worker : p = Passes(t)
        BY <1>2
    <3>2. PICK n \in Nat : n = p.streak + 1
        BY DEF Worker, Thread
    <3>3. PICK a \in Thread : a = [p EXCEPT !.streak = n] /\ a.at = "events" /\ a.of = p.of
      <4> DEFINE fresh == [p EXCEPT !.streak = n]
      <4>1. fresh \in Thread /\ fresh.at = "events" /\ fresh.of = p.of
          BY <1>2, <3>1 DEF Worker, Thread
      <4> HIDE DEF fresh
      <4>2. fresh = [p EXCEPT !.streak = n]
          BY DEF fresh
      <4> QED
          BY <4>1, <4>2
    <3>4. a \in Worker
        BY <1>2, <3>1, <3>3 DEF Worker, Sensible
    <3>5. Works(t, a)
        BY <1>6, <2>2, <3>1, <3>2, <3>3
    <3> QED
        BY <1>2, <1>3, <3>3, <3>4, <3>5, RerankGoesOn
  <2> QED
      BY <2>1, <2>2
<1> QED
    BY <1>4, <1>5, <1>6 DEF AskModels

LEMMA UpdateScoreStep ==
    ASSUME RerankInv, NEW t \in Rerankers, UpdateScore(t)
    PROVE  RerankInv'
<1>1. PICK s \in Worker : s = reranker[t]
    BY DEF RerankInv, RerankRows
<1>2. /\ First(t) \in Ranked /\ Reranks(t) /\ Passes(t) \in Worker /\ Passes(t).at = "events"
      /\ s.at = "update" /\ First(t) = Head(s.left) /\ s.given \in Scores /\ Fitting(First(t), s.given)
    BY <1>1, PassesIs DEF UpdateScore, AtEvent, First, Worker, Thread, Sensible
<1>3. PICK p \in Worker : p = Passes(t) /\ p.at = "events" /\ p.of \in Sent /\ p.of.actor = "rerank"
    BY <1>2 DEF Worker, Sensible
<1>4. PICK e \in Ranked : e = First(t)
    BY <1>2
<1>5. /\ UNCHANGED <<inProgress, aiQueue, digests, doubled, stuck, aiSent>>
      /\ aiScore' \in FittingRows
    BY DEF UpdateScore, RerankInv, RerankRows
<1>6. CASE Works(t, [Passes(t) EXCEPT !.own[First(t)] = reranker[t].given])
  <2>1. PICK own \in FittingRows : own = [p.own EXCEPT ![e] = s.given]
    <3>1. p.own \in [Ranked -> Scores] /\ \A f \in Ranked : Fitting(f, p.own[f])
        BY DEF Worker, Thread, FittingRows
    <3>2. [p.own EXCEPT ![e] = s.given] \in FittingRows
        BY <1>2, <1>4, <3>1 DEF FittingRows
    <3> QED
        BY <3>2
  <2> DEFINE fresh == [p EXCEPT !.own = own]
  <2>2. fresh \in Thread /\ fresh.at = "events" /\ fresh.of = p.of
      BY <1>3 DEF Worker, Thread
  <2>3. fresh \in Worker
      BY <1>3, <2>2 DEF Worker, Sensible
  <2>4. Works(t, fresh)
      BY <1>1, <1>3, <1>4, <1>6, <2>1
  <2> QED
      BY <1>2, <1>5, <2>2, <2>3, <2>4, RerankGoesOn
<1>7. CASE Works(t, Passes(t))
    BY <1>2, <1>5, <1>7, RerankGoesOn
<1>8. CASE Works(t, [Passes(t) EXCEPT !.aborted = TRUE, !.own = NoScores])
  <2>1. PICK own \in FittingRows : own = NoScores
      BY Vacant
  <2> DEFINE fresh == [p EXCEPT !.aborted = TRUE, !.own = own]
  <2>2. fresh \in Thread /\ fresh.at = "events" /\ fresh.of = p.of
      BY <1>3 DEF Worker, Thread
  <2>3. fresh \in Worker
      BY <1>3, <2>2 DEF Worker, Sensible
  <2>4. Works(t, fresh)
      BY <1>3, <1>8, <2>1
  <2> QED
      BY <1>2, <1>5, <2>2, <2>3, <2>4, RerankGoesOn
<1> QED
    BY <1>6, <1>7, <1>8 DEF UpdateScore

LEMMA EndingIs ==
    ASSUME RerankInv, NEW t \in Rerankers, reranker[t].of \in Sent, reranker[t].of.actor = "rerank", NEW raised \in BOOLEAN
    PROVE  /\ [Unemployed EXCEPT !.at = "finally", !.of = reranker[t].of, !.raised = raised] \in Worker
           /\ [Unemployed EXCEPT !.at = "finally", !.of = reranker[t].of] \in Worker
           /\ [Unemployed EXCEPT !.at = "finally", !.of = reranker[t].of, !.raised = raised].at = "finally"
           /\ [Unemployed EXCEPT !.at = "finally", !.of = reranker[t].of].at = "finally"
<1>1. PICK m \in Sent : m = reranker[t].of /\ m.actor = "rerank"
    OBVIOUS
<1>2. PICK free \in Thread : free = Unemployed
    BY Vacant DEF Worker
<1>3. /\ [free EXCEPT !.at = "finally", !.of = m, !.raised = raised] \in Thread
      /\ [free EXCEPT !.at = "finally", !.of = m, !.raised = raised].at = "finally"
      /\ [free EXCEPT !.at = "finally", !.of = m, !.raised = raised].of = m
    BY DEF Thread
<1>4. /\ [free EXCEPT !.at = "finally", !.of = m] \in Thread
      /\ [free EXCEPT !.at = "finally", !.of = m].at = "finally"
      /\ [free EXCEPT !.at = "finally", !.of = m].of = m
    BY DEF Thread
<1> QED
    BY <1>1, <1>2, <1>3, <1>4 DEF Worker, Sensible

LEMMA CommitRerankStep ==
    ASSUME RerankInv, NEW t \in Rerankers, CommitRerank(t)
    PROVE  RerankInv'
<1>1. Reranks(t) /\ reranker[t].of \in Sent /\ reranker[t].of.actor = "rerank" /\ reranker[t].own \in FittingRows
    BY DEF CommitRerank, Reranks, RerankInv, RerankRows, Worker, Thread, Sensible
<1>2. PICK own \in FittingRows : own = reranker[t].own
    BY <1>1
<1>3. aiScore' \in FittingRows
  <2>1. aiScore' = [e \in Ranked |-> IF e \in Updated(t) THEN own[e] ELSE aiScore[e]]
      BY <1>2 DEF CommitRerank
  <2>2. aiScore \in FittingRows
      BY DEF RerankInv, RerankRows
  <2> QED
      BY <2>1, <2>2 DEF FittingRows
<1>4. /\ Works(t, [Unemployed EXCEPT !.at = "finally", !.of = reranker[t].of])
      /\ UNCHANGED <<inProgress, aiQueue, digests, doubled, stuck, aiSent>>
    BY DEF CommitRerank
<1>5. PICK s \in Worker : s = [Unemployed EXCEPT !.at = "finally", !.of = reranker[t].of] /\ s.at = "finally"
    BY <1>1, EndingIs
<1> QED
    BY <1>1, <1>3, <1>4, <1>5, RerankGoesOn

LEMMA RerankRaisesStep ==
    ASSUME RerankInv, NEW t \in Rerankers, RerankRaises(t)
    PROVE  RerankInv'
<1>1. Reranks(t) /\ reranker[t].of \in Sent /\ reranker[t].of.actor = "rerank" /\ aiScore' \in FittingRows
    BY DEF RerankRaises, Reranks, RerankInv, RerankRows, Worker, Thread, Sensible
<1>2. /\ Works(t, [Unemployed EXCEPT !.at = "finally", !.of = reranker[t].of, !.raised = TRUE])
      /\ UNCHANGED <<inProgress, aiQueue, digests, doubled, stuck, aiSent>>
    BY DEF RerankRaises
<1>3. PICK s \in Worker : s = [Unemployed EXCEPT !.at = "finally", !.of = reranker[t].of, !.raised = TRUE] /\ s.at = "finally"
    BY <1>1, EndingIs
<1> QED
    BY <1>1, <1>2, <1>3, RerankGoesOn

\* A rerank that ends takes the key away, or leaves it and is remembered to have.
LEMMA LeavesStep ==
    ASSUME RerankInv, NEW t \in Rerankers, Reranks(t), Works(t, Unemployed),
           UNCHANGED <<aiScore, digests, doubled, aiSent>>, aiQueue' = aiQueue \/ (\E failed \in 0..1 : Again(t, failed)),
           inProgress' \in BOOLEAN, stuck' \in BOOLEAN, ~(inProgress' /\ ~stuck')
    PROVE  RerankInv'
<1>1. reranker[t].of \in Sent /\ reranker[t].of.actor = "rerank" /\ aiScore' \in FittingRows
    BY DEF Reranks, RerankInv, RerankRows, Worker, Sensible
<1>2. aiQueue' \subseteq Sent /\ \A m : m.actor = "digest" => (m \in aiQueue' <=> m \in aiQueue)
    BY <1>1, AgainIs DEF RerankInv, RerankRows
<1>3. /\ Unemployed \in Worker /\ Unemployed.at \notin {"digest", "written"}
      /\ reranker[t].at \notin {"digest", "written"}
    BY Vacant DEF Reranks
<1> QED
    BY <1>1, <1>2, <1>3, RerankThreadStep

LEMMA FinishRerankStep ==
    ASSUME RerankInv, NEW t \in Rerankers, FinishRerank(t)
    PROVE  RerankInv'
<1>1. Reranks(t) /\ Works(t, Unemployed) /\ UNCHANGED <<aiScore, digests, doubled, aiSent>>
    BY DEF FinishRerank, Reranks
<1>2. inProgress' \in BOOLEAN /\ stuck' \in BOOLEAN /\ ~(inProgress' /\ ~stuck')
  <2>1. inProgress \in BOOLEAN /\ stuck \in BOOLEAN
      BY DEF RerankInv, RerankRows
  <2>2. CASE inProgress' = FALSE /\ stuck' = FALSE
      BY <2>2
  <2>3. CASE inProgress' = inProgress /\ stuck' = (stuck \/ inProgress)
    <3>1. inProgress = TRUE => stuck' = TRUE
        BY <2>1, <2>3
    <3>2. stuck' \in BOOLEAN
        BY <2>1, <2>3
    <3> QED
        BY <2>1, <2>3, <3>1, <3>2
  <2> QED
      BY <2>2, <2>3 DEF FinishRerank, DeletesKey
<1>3. aiQueue' = aiQueue \/ (\E failed \in 0..1 : Again(t, failed))
    BY DEF FinishRerank
<1> QED
    BY <1>1, <1>2, <1>3, LeavesStep

LEMMA RerankDiesStep ==
    ASSUME RerankInv, NEW t \in Rerankers, RerankDies(t)
    PROVE  RerankInv'
<1>1. Reranks(t) /\ Works(t, Unemployed) /\ UNCHANGED <<aiScore, digests, doubled, aiSent>>
    BY DEF RerankDies, Reranks
<1>2. inProgress' \in BOOLEAN /\ stuck' \in BOOLEAN /\ ~(inProgress' /\ ~stuck')
  <2>1. inProgress' = inProgress /\ stuck' = (stuck \/ inProgress)
      BY DEF RerankDies
  <2>2. inProgress \in BOOLEAN /\ stuck \in BOOLEAN
      BY DEF RerankInv, RerankRows
  <2>3. inProgress = TRUE => stuck' = TRUE
      BY <2>1, <2>2
  <2>4. stuck' \in BOOLEAN
      BY <2>1, <2>2
  <2> QED
      BY <2>1, <2>2, <2>3, <2>4
<1>3. \E failed \in 0..1 : Again(t, failed)
    BY DEF RerankDies
<1> QED
    BY <1>1, <1>2, <1>3, LeavesStep

\* The key expires, or a message is sent.
LEMMA KeyExpiresStep == ASSUME RerankInv, KeyExpires PROVE RerankInv'
<1>1. RerankRows' /\ KeyIsTrue'
    BY DEF KeyExpires, RerankInv, RerankRows, KeyIsTrue
<1>2. ASSUME NEW i \in 1..MaxSent PROVE Counted(i)'
  <2>1. \A t \in Rerankers : reranker'[t] = reranker[t]
      BY DEF KeyExpires
  <2> QED
      BY <2>1, QuietStep DEF KeyExpires
<1> QED
    BY <1>1, <1>2 DEF RerankInv

LEMMA SendAiStep == ASSUME RerankInv, NEW a \in Actors, SendAi(a) PROVE RerankInv'
<1>1. PICK n \in 1..MaxSent : n = aiSent[a] + 1 /\ aiSent' = [aiSent EXCEPT ![a] = n]
  <2>1. aiSent[a] \in 0..MaxSent /\ aiSent[a] < MaxSent
      BY DEF SendAi, RerankInv, RerankRows
  <2>2. aiSent[a] + 1 \in 1..MaxSent
      BY <2>1, RerankAssumption
  <2>3. aiSent' = [aiSent EXCEPT ![a] = aiSent[a] + 1]
      BY DEF SendAi
  <2> QED
      BY <2>2, <2>3
<1>2. PICK m \in Sent : m = Message(a, n, 0) /\ m.actor = a /\ m.number = n
  <2>1. [actor |-> a, number |-> n, tries |-> 0] \in Sent
      BY RerankAssumption DEF Sent
  <2> QED
      BY <2>1 DEF Message
<1>3. /\ aiQueue' = aiQueue \cup {m} /\ aiSent'[a] = n /\ aiSent' \in [Actors -> 0..MaxSent]
      /\ UNCHANGED <<aiScore, inProgress, reranker, digests, doubled, stuck>>
  <2>1. aiSent'[a] = n /\ aiSent' \in [Actors -> 0..MaxSent]
      BY <1>1, RerankAssumption DEF RerankInv, RerankRows
  <2> QED
      BY <1>1, <1>2, <2>1 DEF SendAi
<1>4. RerankRows'
    BY <1>3 DEF RerankInv, RerankRows
<1>5. KeyIsTrue'
    BY <1>3 DEF RerankInv, KeyIsTrue, Reranks
<1>6. ASSUME NEW i \in 1..MaxSent PROVE Counted(i)'
  <2>1. \A t \in Rerankers : reranker'[t] = reranker[t]
      BY <1>3
  <2>2. CASE a # "digest" \/ i # n
    <3>1. \A k : k.actor = "digest" /\ k.number = i => (k \in aiQueue' <=> k \in aiQueue)
        BY <1>2, <1>3, <2>2
    <3>2. i > aiSent'["digest"] => i > aiSent["digest"]
        BY <1>1, <2>2, RerankAssumption DEF RerankInv, RerankRows, Actors
    <3> QED
        BY <1>3, <2>1, <3>1, <3>2, QuietStep
  <2>3. CASE a = "digest" /\ i = n
    <3>1. /\ digests[i] = 0 /\ (\A k \in aiQueue : ~Waiting(i, k)) /\ (\A t \in Rerankers : ~Holds(t, i))
          /\ doubled[i] \in Nat /\ aiSent'["digest"] = i
        BY <1>1, <1>3, <2>3 DEF RerankInv, RerankRows, Counted, Actors
    <3>2. \A k \in aiQueue' : Waiting(i, k)' => k = m
        BY <1>3, <3>1 DEF Waiting
    <3>3. \A t \in Rerankers : ~Holds(t, i)'
        BY <1>3, <3>1 DEF Holds
    <3> QED
        BY <1>3, <3>1, <3>2, <3>3 DEF Counted, OnePlace, Owed
  <2> QED
      BY <2>2, <2>3
<1> QED
    BY <1>4, <1>5, <1>6 DEF RerankInv

\* A step of a thread on a digest leaves the scores and the key.
LEMMA DigestRows ==
    ASSUME RerankInv, NEW t \in Rerankers, NEW s \in Worker, Works(t, s), ~Reranks(t), aiQueue' \subseteq Sent,
           UNCHANGED <<aiScore, inProgress, stuck, aiSent>>,
           digests' \in [1..MaxSent -> Nat], doubled' \in [1..MaxSent -> Nat]
    PROVE  RerankRows' /\ KeyIsTrue'
<1>1. /\ reranker' \in [Rerankers -> Worker] /\ reranker'[t] = s
      /\ \A u \in Rerankers \ {t} : reranker'[u] = reranker[u]
    BY WorksIs DEF RerankInv
<1>2. RerankRows'
    BY <1>1 DEF RerankRows, RerankInv
<1>3. KeyIsTrue'
  <2> SUFFICES ASSUME inProgress, ~stuck PROVE \E u \in Rerankers : Reranks(u)'
      BY DEF KeyIsTrue
  <2>1. PICK u \in Rerankers : Reranks(u)
      BY DEF RerankInv, KeyIsTrue
  <2> QED
      BY <1>1, <2>1 DEF Reranks
<1> QED
    BY <1>2, <1>3

LEMMA HeldIs ==
    ASSUME RerankInv, NEW t \in Rerankers, reranker[t].at \in {"digest", "written"}
    PROVE  /\ reranker[t].of \in Sent /\ reranker[t].of.actor = "digest" /\ reranker[t].of.number \in 1..MaxSent
           /\ ~Reranks(t) /\ Holds(t, reranker[t].of.number)
BY DEF RerankInv, RerankRows, Worker, Sensible, Sent, Reranks, Holds

LEMMA TakeDigestStep ==
    ASSUME RerankInv, NEW t \in Rerankers, NEW m \in aiQueue, TakeDigest(t, m)
    PROVE  RerankInv'
<1>1. m \in Sent /\ m.actor = "digest" /\ m.number \in 1..MaxSent /\ reranker[t].at = "idle" /\ aiQueue' = aiQueue \ {m}
    BY DEF TakeDigest, Taken, RerankInv, RerankRows, Sent
<1>2. PICK s \in Worker : s = [Unemployed EXCEPT !.at = "digest", !.of = m] /\ s.at = "digest" /\ s.of = m
  <2>1. PICK free \in Thread : free = Unemployed
      BY Vacant DEF Worker
  <2> DEFINE fresh == [free EXCEPT !.at = "digest", !.of = m]
  <2>2. fresh \in Thread /\ fresh.at = "digest" /\ fresh.of = m
      BY <1>1 DEF Thread
  <2>3. fresh \in Worker
      BY <1>1, <2>2 DEF Worker, Sensible
  <2> QED
      BY <2>1, <2>2, <2>3
<1>3. UNCHANGED <<aiScore, inProgress, digests, doubled, stuck, aiSent>> /\ (Works(t, s) \/ reranker' = reranker)
    BY <1>2 DEF TakeDigest
<1>4. aiQueue' \subseteq Sent /\ digests' \in [1..MaxSent -> Nat] /\ doubled' \in [1..MaxSent -> Nat]
    BY <1>1, <1>3 DEF RerankInv, RerankRows
<1>5. RerankRows' /\ KeyIsTrue'
  <2>1. CASE Works(t, s)
      BY <1>1, <1>3, <1>4, <2>1, DigestRows DEF Reranks
  <2>2. CASE reranker' = reranker
      BY <1>3, <1>4, <2>2 DEF RerankInv, RerankRows, KeyIsTrue, Reranks
  <2> QED
      BY <1>3, <2>1, <2>2
<1>6. \A u \in Rerankers : \/ reranker'[u] = reranker[u]
                           \/ u = t /\ reranker'[u] = s
    BY <1>3, WorksIs DEF RerankInv
<1>7. ASSUME NEW i \in 1..MaxSent PROVE Counted(i)'
  <2>1. CASE i # m.number
    <3>1. \A k : k.actor = "digest" /\ k.number = i => (k \in aiQueue' <=> k \in aiQueue)
        BY <1>1, <2>1
    <3>2. \A u \in Rerankers : reranker'[u] = reranker[u] \/ (~Holds(u, i)' /\ ~Holds(u, i))
        BY <1>1, <1>2, <1>6, <2>1 DEF Holds
    <3> QED
        BY <1>3, <3>1, <3>2, QuietStep
  <2>2. CASE i = m.number
    <3>1. Waiting(i, m) /\ Counted(i)
        BY <1>1, <2>2 DEF Waiting, RerankInv
    <3>2. \A u \in Rerankers : Holds(u, i)' => u = t
        BY <1>6, <3>1 DEF Counted, OnePlace, Holds
    <3>3. \A k \in aiQueue' : ~Waiting(i, k)'
        BY <1>1, <3>1 DEF Counted, OnePlace, Waiting
    <3>4. digests[i] <= doubled[i] /\ digests[i] <= doubled[i] + 1 /\ ~(i > aiSent["digest"])
        BY <3>1 DEF Counted, Owed
    <3> QED
        BY <1>3, <3>2, <3>3, <3>4 DEF Counted, OnePlace, Owed
  <2> QED
      BY <2>1, <2>2
<1> QED
    BY <1>5, <1>7 DEF RerankInv

LEMMA CommitDigestStep ==
    ASSUME RerankInv, NEW t \in Rerankers, CommitDigest(t)
    PROVE  RerankInv'
<1>1. PICK j \in 1..MaxSent : j = reranker[t].of.number /\ reranker[t].at = "digest" /\ Holds(t, j)
    BY HeldIs DEF CommitDigest
<1>2. PICK s \in Worker : s = [reranker[t] EXCEPT !.at = "written"] /\ s.at = "written" /\ s.of = reranker[t].of
  <2>1. PICK old \in Thread : old = reranker[t] /\ old.of \in Sent /\ old.of.actor = "digest"
      BY <1>1, HeldIs DEF RerankInv, RerankRows, Worker
  <2> DEFINE fresh == [old EXCEPT !.at = "written"]
  <2>2. fresh \in Thread /\ fresh.at = "written" /\ fresh.of = old.of
      BY DEF Thread
  <2>3. fresh \in Worker
      BY <2>1, <2>2 DEF Worker, Sensible
  <2> QED
      BY <2>1, <2>2, <2>3
<1>3. /\ UNCHANGED <<aiScore, inProgress, aiQueue, doubled, stuck, aiSent>> /\ Works(t, s)
      /\ digests' = [digests EXCEPT ![j] = @ + 1]
    BY <1>1, <1>2 DEF CommitDigest
<1>4. /\ digests' \in [1..MaxSent -> Nat] /\ digests'[j] = digests[j] + 1
      /\ \A i \in 1..MaxSent : i # j => digests'[i] = digests[i]
    BY <1>3 DEF RerankInv, RerankRows
<1>5. aiQueue' \subseteq Sent /\ doubled' \in [1..MaxSent -> Nat] /\ ~Reranks(t)
    BY <1>1, <1>3 DEF RerankInv, RerankRows, Reranks
<1>6. RerankRows' /\ KeyIsTrue'
    BY <1>3, <1>4, <1>5, DigestRows
<1>7. reranker'[t] = s /\ \A u \in Rerankers \ {t} : reranker'[u] = reranker[u]
    BY <1>3, WorksIs DEF RerankInv
<1>8. ASSUME NEW i \in 1..MaxSent PROVE Counted(i)'
  <2>1. \A u \in Rerankers : Holds(u, i)' <=> Holds(u, i)
    <3>1. Holds(t, i)' <=> Holds(t, i)
        BY <1>1, <1>2, <1>7 DEF Holds
    <3>2. \A u \in Rerankers \ {t} : Holds(u, i)' <=> Holds(u, i)
        BY <1>7 DEF Holds
    <3> QED
        BY <3>1, <3>2
  <2>2. CASE i # j
    <3>1. \A u \in Rerankers : reranker'[u] = reranker[u] \/ (~Holds(u, i)' /\ ~Holds(u, i))
        BY <1>1, <1>7, <2>1, <2>2 DEF Holds
    <3> QED
        BY <1>3, <1>4, <2>2, <3>1, QuietStep
  <2>3. CASE i = j
    <3>1. Counted(i) /\ Owed(i)
        BY <1>1, <2>3 DEF RerankInv, Owed
    <3>2. digests[i] <= doubled[i] /\ digests[i] \in Nat /\ doubled[i] \in Nat
        BY <3>1 DEF Counted, RerankInv, RerankRows
    <3>3. digests'[i] <= doubled'[i] + 1 /\ ~(i > aiSent'["digest"])
        BY <1>1, <1>3, <1>4, <2>3, <3>1, <3>2 DEF Counted
    <3>4. \A m \in aiQueue' : Waiting(i, m)' <=> Waiting(i, m)
        BY <1>3 DEF Waiting
    <3>5. OnePlace(i)'
        BY <1>3, <2>1, <3>1, <3>4 DEF Counted, OnePlace
    <3>6. ~Owed(i)'
      <4>1. \A u \in Rerankers : Holds(u, i) => u = t
          BY <1>1, <2>3, <3>1 DEF Counted, OnePlace
      <4>2. \A m \in aiQueue : ~Waiting(i, m)
          BY <1>1, <2>3, <3>1 DEF Counted, OnePlace
      <4> QED
          BY <1>2, <1>3, <1>7, <2>1, <3>4, <4>1, <4>2 DEF Owed
    <3> QED
        BY <3>3, <3>5, <3>6 DEF Counted
  <2> QED
      BY <2>2, <2>3
<1> QED
    BY <1>6, <1>8 DEF RerankInv

\* A thread lets its digest message go: it is done, or there again.
LEMMA LetsGo ==
    ASSUME RerankInv, NEW t \in Rerankers, NEW j \in 1..MaxSent, j = reranker[t].of.number, reranker[t].at \in {"digest", "written"},
           Works(t, Unemployed), UNCHANGED <<aiScore, inProgress, digests, stuck, aiSent>>,
           doubled' \in [1..MaxSent -> Nat], \A i \in 1..MaxSent : i # j => doubled'[i] = doubled[i],
           doubled[j] <= doubled'[j],
           aiQueue' = aiQueue \/ (\E failed \in 0..1 : Again(t, failed)),
           aiQueue' # aiQueue => digests[j] <= doubled'[j]
    PROVE  RerankInv'
<1>1. reranker[t].of \in Sent /\ reranker[t].of.actor = "digest" /\ ~Reranks(t) /\ Holds(t, j)
    BY HeldIs
<1>2. /\ aiQueue' \subseteq Sent
      /\ \/ aiQueue' = aiQueue
         \/ \E m \in Sent : aiQueue' = aiQueue \cup {m} /\ m.actor = "digest" /\ m.number = j
    BY <1>1, AgainIs DEF RerankInv, RerankRows
<1>3. Unemployed \in Worker /\ Unemployed.at = "idle"
    BY Vacant
<1>4. RerankRows' /\ KeyIsTrue'
  <2>1. digests' \in [1..MaxSent -> Nat]
      BY DEF RerankInv, RerankRows
  <2> QED
      BY <1>1, <1>2, <1>3, <2>1, DigestRows
<1>5. reranker'[t] = Unemployed /\ \A u \in Rerankers \ {t} : reranker'[u] = reranker[u]
    BY <1>3, WorksIs DEF RerankInv
<1>6. ASSUME NEW i \in 1..MaxSent PROVE Counted(i)'
  <2>1. CASE i # j
    <3>1. \A k : k.actor = "digest" /\ k.number = i => (k \in aiQueue' <=> k \in aiQueue)
        BY <1>2, <2>1
    <3>2. \A u \in Rerankers : reranker'[u] = reranker[u] \/ (~Holds(u, i)' /\ ~Holds(u, i))
        BY <1>3, <1>5, <2>1 DEF Holds
    <3> QED
        BY <2>1, <3>1, <3>2, QuietStep
  <2>2. CASE i = j
    <3>1. /\ Counted(i) /\ (\A m \in aiQueue : ~Waiting(i, m)) /\ (\A u \in Rerankers : Holds(u, i) => u = t)
          /\ ~(i > aiSent["digest"])
        BY <1>1, <2>2 DEF RerankInv, Counted, OnePlace
    <3>2. \A u \in Rerankers : ~Holds(u, i)'
        BY <1>3, <1>5, <3>1 DEF Holds
    <3>3. \A m, n \in aiQueue' : Waiting(i, m)' /\ Waiting(i, n)' => m = n
        BY <1>2, <3>1 DEF Waiting
    <3>4. Owed(i)' => aiQueue' # aiQueue
        BY <3>1, <3>2 DEF Owed, Waiting
    <3>5. digests[i] \in Nat /\ doubled[i] \in Nat /\ doubled'[i] \in Nat /\ digests[i] <= doubled[i] + 1
        BY <3>1 DEF Counted, RerankInv, RerankRows
    <3>6. digests'[i] <= doubled'[i] + 1
        BY <2>2, <3>5
    <3> QED
        BY <2>2, <3>1, <3>2, <3>3, <3>4, <3>6 DEF Counted, OnePlace
  <2> QED
      BY <2>1, <2>2
<1> QED
    BY <1>4, <1>6 DEF RerankInv

LEMMA AcknowledgeDigestStep ==
    ASSUME RerankInv, NEW t \in Rerankers, AcknowledgeDigest(t)
    PROVE  RerankInv'
<1>1. PICK j \in 1..MaxSent : j = reranker[t].of.number /\ reranker[t].at = "written"
    BY HeldIs DEF AcknowledgeDigest
<1>2. /\ Works(t, Unemployed) /\ UNCHANGED <<aiScore, inProgress, aiQueue, digests, doubled, stuck, aiSent>>
      /\ doubled' \in [1..MaxSent -> Nat] /\ doubled[j] <= doubled'[j]
    BY DEF AcknowledgeDigest, RerankInv, RerankRows
<1> QED
    BY <1>1, <1>2, LetsGo

LEMMA DigestFailsStep ==
    ASSUME RerankInv, NEW t \in Rerankers, DigestFails(t)
    PROVE  RerankInv'
<1>1. PICK j \in 1..MaxSent : j = reranker[t].of.number /\ reranker[t].at = "digest" /\ Holds(t, j)
    BY HeldIs DEF DigestFails
<1>2. digests[j] <= doubled[j]
    BY <1>1 DEF RerankInv, Counted, Owed
<1>3. /\ Works(t, Unemployed) /\ UNCHANGED <<aiScore, inProgress, digests, doubled, stuck, aiSent>>
      /\ (\E failed \in 0..1 : Again(t, failed)) /\ doubled' \in [1..MaxSent -> Nat] /\ doubled[j] <= doubled'[j]
    BY DEF DigestFails, RerankInv, RerankRows
<1> QED
    BY <1>1, <1>2, <1>3, LetsGo

LEMMA DigestRepeatsStep ==
    ASSUME RerankInv, NEW t \in Rerankers, DigestRepeats(t)
    PROVE  RerankInv'
<1>1. PICK j \in 1..MaxSent : j = reranker[t].of.number /\ reranker[t].at = "written"
    BY HeldIs DEF DigestRepeats
<1>2. digests[j] <= doubled[j] + 1 /\ doubled[j] \in Nat
    BY DEF RerankInv, RerankRows, Counted
<1>3. /\ Works(t, Unemployed) /\ UNCHANGED <<aiScore, inProgress, digests, stuck, aiSent>> /\ Again(t, 0)
      /\ doubled' = [doubled EXCEPT ![j] = @ + 1]
    BY <1>1 DEF DigestRepeats
<1>4. /\ doubled' \in [1..MaxSent -> Nat] /\ doubled'[j] = doubled[j] + 1
      /\ \A i \in 1..MaxSent : i # j => doubled'[i] = doubled[i]
    BY <1>3 DEF RerankInv, RerankRows
<1>5. digests[j] <= doubled'[j] /\ doubled[j] <= doubled'[j]
    BY <1>2, <1>4
<1>6. j = reranker[t].of.number /\ reranker[t].at \in {"digest", "written"}
    BY <1>1
<1>7. \E failed \in 0..1 : Again(t, failed)
  <2>1. 0 \in 0..1 /\ Again(t, 0)
      BY <1>3
  <2> QED
      BY <2>1
<1>8. doubled' \in [1..MaxSent -> Nat] /\ (\A i \in 1..MaxSent : i # j => doubled'[i] = doubled[i])
    BY <1>4
<1> QED
    BY <1>3, <1>5, <1>6, <1>7, <1>8, LetsGo

LEMMA RerankStep == RerankInv /\ [RerankNext]_rerankVars => RerankInv'
<1> SUFFICES ASSUME RerankInv, [RerankNext]_rerankVars PROVE RerankInv'
    OBVIOUS
<1>1. CASE UNCHANGED rerankVars
  <2>1. RerankRows' /\ KeyIsTrue'
      BY <1>1 DEF rerankVars, RerankInv, RerankRows, KeyIsTrue, Reranks
  <2>2. ASSUME NEW i \in 1..MaxSent PROVE Counted(i)'
      BY <1>1, QuietStep DEF rerankVars
  <2> QED
      BY <2>1, <2>2 DEF RerankInv
<1> QED
    BY <1>1, KeyExpiresStep, SendAiStep, TakeRerankStep, TakeDigestStep, AskModelsStep, UpdateScoreStep, CommitRerankStep,
       RerankRaisesStep, FinishRerankStep, RerankDiesStep, CommitDigestStep, AcknowledgeDigestStep, DigestFailsStep,
       DigestRepeatsStep DEF RerankNext

LEMMA RerankGives == RerankInv => RerankHolds
<1> SUFFICES ASSUME RerankInv PROVE WithinFifteen /\ DigestsCounted
    BY DEF RerankInv, RerankHolds
<1>1. WithinFifteen
    BY DEF RerankInv, RerankRows, FittingRows, Fitting, WithinFifteen
<1>2. ASSUME NEW i \in 1..MaxSent PROVE digests[i] + Cardinality(Digesting(i)) <= 1 + doubled[i]
  <2>1. digests[i] \in Nat /\ doubled[i] \in Nat /\ Counted(i)
      BY DEF RerankInv, RerankRows
  <2>2. CASE Digesting(i) = {}
    <3>1. Cardinality(Digesting(i)) = 0
        BY <2>2, FS_EmptySet
    <3> QED
        BY <2>1, <3>1 DEF Counted
  <2>3. ASSUME NEW t \in Digesting(i) PROVE digests[i] + Cardinality(Digesting(i)) <= 1 + doubled[i]
    <3>1. \A u \in Digesting(i) : u = t
        BY <2>1, <2>3 DEF Counted, OnePlace, Holds, Digesting
    <3>2. Digesting(i) = {t}
        BY <2>3, <3>1
    <3>3. Cardinality(Digesting(i)) = 1
        BY <3>2, FS_Singleton
    <3>4. digests[i] <= doubled[i]
        BY <2>1, <2>3 DEF Counted, Owed, Holds, Digesting
    <3> QED
        BY <2>1, <3>3, <3>4
  <2> QED
      BY <2>2, <2>3
<1> QED
    BY <1>1, <1>2 DEF DigestsCounted

\* For any events, scores, answers, threads, retries and faults, the models' scores keep to the
\* clamp, the key says the truth, and a message writes one digest but for the deaths counted.
THEOREM RerankCorrect == RerankSpec => []RerankHolds
<1>1. RerankInit => RerankInv
    BY RerankStart
<1>2. RerankInv /\ [RerankNext]_rerankVars => RerankInv'
    BY RerankStep
<1>3. RerankInv => RerankHolds
    BY RerankGives
<1> QED
    BY <1>1, <1>2, <1>3, PTL DEF RerankSpec

-----------------------------------------------------------------------------
(* AttackGraph: the layers of a drawing *)

\* The event that a request is at, and what it would show.
SeedOf(d) == CHOOSE e \in d.seed : TRUE
AtSeed(d) == d.at \in {"techniques", "technique", "objects", "cross", "load", "other"}
Viewed(d, e) == e \in Shown /\ (d.project # "none" => HomeOf[e] = d.project)

Drawing == [at : Labels, depth : 0..3, project : Homes \cup {"none"}, seed : SUBSET GraphEvents, seeds : SUBSET GraphEvents,
            techniques : SUBSET Techniques, rows : SUBSET Techniques, objects : Seq(StixRefs \X StixRefs),
            cross : SUBSET (GraphEvents \X Techniques), nodes : SUBSET Nodes, edges : SUBSET (Nodes \X Nodes),
            truncated : BOOLEAN, steady : SUBSET GraphEvents, steadyTags : SUBSET (GraphEvents \X Techniques)]

\* Whatever is drawn has its ends and is in view, and so is what is about to be.
Sound(d) ==
    /\ \A edge \in d.edges : edge[1] \in d.nodes /\ edge[2] \in d.nodes
    /\ \A e \in GraphEvents : Event(e) \in d.nodes => Viewed(d, e)
    /\ \A e \in d.seeds : Viewed(d, e)
    /\ \A t \in d.techniques : Technique(t) \in d.nodes
    /\ d.cross \subseteq GraphEvents \X d.techniques
    /\ d.at = "other" => \A tag \in d.cross : Viewed(d, tag[1])
    /\ AtSeed(d) => SeedOf(d) \in GraphEvents /\ Event(SeedOf(d)) \in d.nodes

\* The caps are looked at behind each node; a relationship adds three edges, the third layer one.
Small(d) ==
    /\ IsFiniteSet(d.nodes) /\ IsFiniteSet(d.edges)
    /\ IF d.at = "done" THEN Cardinality(d.nodes) <= NodeCap /\ Cardinality(d.edges) <= EdgeCap + 3
       ELSE /\ Cardinality(d.nodes) < NodeCap
            /\ IF d.at \in {"objects", "cross", "load", "other"} THEN Cardinality(d.edges) <= EdgeCap + 2
               ELSE Cardinality(d.edges) < EdgeCap

Tagged(d, e, t) == <<e, t>> \in d.steadyTags
HasTechniques(d, e) == \A t \in Techniques : Tagged(d, e, t) => Technique(t) \in d.nodes
HasObjects(d, e) == \A i \in DOMAIN StixOf[e] : \A ref \in Ends(StixOf[e][i]) : Stix(ref) \in d.nodes
HasOther(d, f, e) == \A t \in Techniques : Tagged(d, e, t) /\ Tagged(d, f, t) => Event(f) \in d.nodes
HasAll(d, e) == Event(e) \in d.nodes /\ HasTechniques(d, e) /\ HasObjects(d, e)

\* What is not drawn yet and was there throughout is still to come.
ToCome(d) ==
    /\ d.at = "technique" => \A t \in Techniques : Tagged(d, SeedOf(d), t) => t \in d.rows \cup d.techniques
    /\ d.at \in {"objects", "cross", "load", "other"} => \A t \in Techniques : Tagged(d, SeedOf(d), t) => t \in d.techniques
    /\ d.at = "objects" =>
          /\ d.depth # 1
          /\ \A i \in DOMAIN StixOf[SeedOf(d)] :
                \/ \E j \in DOMAIN d.objects : d.objects[j] = StixOf[SeedOf(d)][i]
                \/ \A ref \in Ends(StixOf[SeedOf(d)][i]) : Stix(ref) \in d.nodes
    /\ d.at \in {"cross", "load", "other"} => d.depth = 3 /\ HasObjects(d, SeedOf(d))
    /\ d.at = "load" => \A tag \in d.steadyTags : tag[2] \in d.techniques /\ tag[1] # SeedOf(d) => tag \in d.cross
    /\ d.at = "other" =>
          \A tag \in d.steadyTags : tag[2] \in d.techniques /\ tag[1] # SeedOf(d) /\ tag[1] \in d.steady /\ Viewed(d, tag[1]) =>
              tag \in d.cross \/ Event(tag[1]) \in d.nodes
Reached(d) ==
    IF d.depth = 0
    THEN /\ d.at # "idle" => d.project # "none"
         /\ d.at = "done" /\ ~d.truncated => d.seeds = {}
         /\ d.at \notin {"cross", "load", "other"}
         /\ d.at # "idle" /\ ~d.truncated =>
              \A e \in d.steady : Viewed(d, e) => e \in d.seeds \/ (AtSeed(d) /\ e = SeedOf(d)) \/ HasAll(d, e)
    ELSE /\ d.at \notin {"idle", "seeds"} /\ SeedOf(d) \in GraphEvents /\ Event(SeedOf(d)) \in d.nodes
         /\ d.at = "done" /\ ~d.truncated =>
              /\ HasTechniques(d, SeedOf(d))
              /\ d.depth > 1 => HasObjects(d, SeedOf(d))
              /\ d.depth = 3 => \A f \in d.steady : f # SeedOf(d) /\ Viewed(d, f) => HasOther(d, f, SeedOf(d))

Steady(d, events, tagged) ==
    /\ d.steady \subseteq events /\ d.steadyTags \subseteq tagged
    /\ d.truncated => d.at = "done"
DrawingInv(d) == d \in Drawing /\ Sound(d) /\ Small(d) /\ ToCome(d) /\ Reached(d)
GraphInv ==
    /\ present \subseteq GraphEvents /\ tags \subseteq GraphEvents \X Techniques
    /\ DrawingInv(drawing) /\ Steady(drawing, present, tags)

LEMMA AddOne ==
    ASSUME NEW S, IsFiniteSet(S), NEW x
    PROVE  /\ IsFiniteSet(S \cup {x}) /\ Cardinality(S) \in Nat /\ Cardinality(S \cup {x}) \in Nat
           /\ Cardinality(S \cup {x}) <= Cardinality(S) + 1
<1>1. Cardinality(S) \in Nat
    BY FS_CardinalityType
<1>2. IsFiniteSet(S \cup {x}) /\ Cardinality(S \cup {x}) = IF x \in S THEN Cardinality(S) ELSE Cardinality(S) + 1
    BY FS_AddElement
<1> QED
    BY <1>1, <1>2

LEMMA NodesApart ==
    /\ \A e, f \in GraphEvents : Event(e) = Event(f) => e = f
    /\ \A e \in GraphEvents, t \in Techniques : Event(e) # Technique(t)
    /\ \A e \in GraphEvents, ref \in Displayable : Event(e) # Stix(ref)
    /\ \A e \in GraphEvents : Event(e) \in Nodes
    /\ \A t \in Techniques : Technique(t) \in Nodes
    /\ \A ref \in Displayable : Stix(ref) \in Nodes
BY DEF Event, Technique, Stix, Nodes

LEMMA AtIs == ASSUME NEW d, NEW e, d.seed = {e} PROVE SeedOf(d) = e
BY DEF SeedOf

\* What a step of the request leaves, it leaves as it was, of whatever is already drawn.
Like(n, d) == n.depth = d.depth /\ n.project = d.project /\ n.steady = d.steady /\ n.steadyTags = d.steadyTags
LEMMA LikeKeeps ==
    ASSUME NEW n, NEW d, Like(n, d), d.nodes \subseteq n.nodes
    PROVE  /\ \A e : Viewed(n, e) <=> Viewed(d, e)
           /\ \A e, t : Tagged(n, e, t) <=> Tagged(d, e, t)
           /\ \A e : HasTechniques(d, e) => HasTechniques(n, e)
           /\ \A e : HasObjects(d, e) => HasObjects(n, e)
           /\ \A e : HasAll(d, e) => HasAll(n, e)
           /\ \A e, f : HasOther(d, f, e) => HasOther(n, f, e)
<1>1. (\A e : Viewed(n, e) <=> Viewed(d, e)) /\ (\A e, t : Tagged(n, e, t) <=> Tagged(d, e, t))
    BY DEF Like, Viewed, Tagged
<1>2. \A e : HasTechniques(d, e) => HasTechniques(n, e)
    BY <1>1 DEF HasTechniques
<1>3. \A e : HasObjects(d, e) => HasObjects(n, e)
    BY DEF HasObjects
<1>4. \A e : HasAll(d, e) => HasAll(n, e)
    BY <1>2, <1>3 DEF HasAll
<1>5. \A e, f : HasOther(d, f, e) => HasOther(n, f, e)
    BY <1>1 DEF HasOther
<1> QED
    BY <1>1, <1>2, <1>3, <1>4, <1>5

\* A graph at a cap is handed out as it is, and says so.
LEMMA CappedIs ==
    ASSUME NEW before, NEW d \in Drawing
    PROVE  /\ ~AtCap(d) => Capped(before, d) = d
           /\ AtCap(d) =>
                LET c == Capped(before, d) IN
                /\ c \in Drawing /\ c.at = "done" /\ c.truncated = TRUE /\ Like(c, d)
                /\ c.seed = d.seed /\ c.seeds = {} /\ c.techniques = d.techniques /\ c.cross = {}
                /\ c.nodes = d.nodes /\ c.edges = d.edges
<1>1. ~AtCap(d) => Capped(before, d) = d
    BY DEF Capped
<1>2. PICK none \in Seq(StixRefs \X StixRefs) : none = <<>>
  <2>1. <<>> \in Seq(StixRefs \X StixRefs)
      OBVIOUS
  <2> QED
      BY <2>1
<1> DEFINE c == [d EXCEPT !.at = "done", !.truncated = TRUE, !.rows = {}, !.objects = none, !.cross = {}, !.seeds = {}]
<1>3. /\ c \in Drawing /\ c.at = "done" /\ c.truncated = TRUE /\ Like(c, d)
      /\ c.seed = d.seed /\ c.seeds = {} /\ c.techniques = d.techniques /\ c.cross = {}
      /\ c.nodes = d.nodes /\ c.edges = d.edges
    BY DEF Drawing, Like, Labels
<1>4. AtCap(d) => Capped(before, d) = c
    BY <1>2 DEF Capped
<1> HIDE DEF c
<1> QED
    BY <1>1, <1>3, <1>4

Cut(c, d) == c \in Drawing /\ c.at = "done" /\ c.truncated = TRUE /\ Like(c, d) /\ c.seed = d.seed
LEMMA CutIs ==
    ASSUME NEW before, NEW d \in Drawing, AtCap(d)
    PROVE  Cut(Capped(before, d), d)
BY CappedIs DEF Cut

LEMMA CappedStep ==
    ASSUME NEW before, NEW d \in Drawing, Sound(d), IsFiniteSet(d.nodes), IsFiniteSet(d.edges),
           Cardinality(d.nodes) <= NodeCap, Cardinality(d.edges) <= EdgeCap + 3, d.at # "done",
           d.depth = 0 => d.project # "none",
           d.depth # 0 => SeedOf(d) \in GraphEvents /\ Event(SeedOf(d)) \in d.nodes,
           ~AtCap(d) => ToCome(d) /\ Reached(d)
    PROVE  DrawingInv(Capped(before, d))
<1>1. CASE AtCap(d)
  <2>1. PICK c \in Drawing :
            /\ c = Capped(before, d) /\ c.at = "done" /\ c.truncated = TRUE /\ Like(c, d)
            /\ c.seed = d.seed /\ c.seeds = {} /\ c.techniques = d.techniques /\ c.cross = {}
            /\ c.nodes = d.nodes /\ c.edges = d.edges
      BY <1>1, CappedIs
  <2>2. Sound(c)
      BY <2>1, LikeKeeps DEF Sound, AtSeed
  <2>3. Small(c)
      BY <2>1 DEF Small
  <2>4. ToCome(c)
      BY <2>1 DEF ToCome
  <2>5. SeedOf(c) = SeedOf(d) /\ c.depth = d.depth /\ c.project = d.project
      BY <2>1 DEF SeedOf, Like
  <2>6. Reached(c)
      BY <2>1, <2>5 DEF Reached
  <2> QED
      BY <2>1, <2>2, <2>3, <2>4, <2>6 DEF DrawingInv
<1>2. CASE ~AtCap(d)
  <2>1. Capped(before, d) = d
      BY <1>2, CappedIs
  <2>2. Cardinality(d.nodes) \in Nat /\ Cardinality(d.edges) \in Nat /\ NodeCap \in Nat /\ EdgeCap \in Nat
      BY FS_CardinalityType, AttackGraphAssumption
  <2>3. Cardinality(d.nodes) < NodeCap /\ Cardinality(d.edges) < EdgeCap
      BY <1>2, <2>2 DEF AtCap
  <2>4. Cardinality(d.edges) <= EdgeCap + 2
      BY <2>2, <2>3
  <2>5. Small(d)
      BY <2>3, <2>4 DEF Small
  <2> QED
      BY <1>2, <2>1, <2>5 DEF DrawingInv
<1> QED
    BY <1>1, <1>2

\* A step of the request that leaves a drawing the invariant allows.
LEMMA DrawsStep ==
    ASSUME GraphInv, NEW d, DrawingInv(d), Draws(d), d.at # "idle", drawing.at # "idle", Like(d, drawing),
           d.truncated => d.at = "done"
    PROVE  GraphInv'
<1>1. drawing' = d /\ present' = present /\ tags' = tags
    BY DEF Draws, tableVars
<1>2. Steady(d, present, tags)
    BY DEF GraphInv, Steady, Like
<1>3. DrawingInv(drawing)' /\ Steady(drawing, present, tags)'
    BY <1>1, <1>2
<1> QED
    BY <1>1, <1>3 DEF GraphInv

\* The same, of a graph that may have reached a cap.
LEMMA CappedDraws ==
    ASSUME GraphInv, drawing.at # "idle", NEW before, NEW d \in Drawing, Draws(Capped(before, d)), Like(d, drawing),
           Sound(d), IsFiniteSet(d.nodes), IsFiniteSet(d.edges),
           Cardinality(d.nodes) <= NodeCap, Cardinality(d.edges) <= EdgeCap + 3, d.at # "done", d.at # "idle", ~d.truncated,
           d.depth = 0 => d.project # "none",
           d.depth # 0 => SeedOf(d) \in GraphEvents /\ Event(SeedOf(d)) \in d.nodes,
           ~AtCap(d) => ToCome(d) /\ Reached(d)
    PROVE  GraphInv'
<1>1. DrawingInv(Capped(before, d))
    BY CappedStep
<1>2. CASE AtCap(d)
  <2>1. PICK c \in Drawing : c = Capped(before, d) /\ c.at = "done" /\ c.truncated = TRUE /\ Like(c, d)
      BY <1>2, CappedIs
  <2>2. DrawingInv(c) /\ Draws(c) /\ Like(c, drawing)
      BY <1>1, <2>1 DEF Like
  <2> QED
      BY <2>1, <2>2, DrawsStep
<1>3. CASE ~AtCap(d)
  <2>1. Capped(before, d) = d
      BY <1>3, CappedIs
  <2>2. DrawingInv(d) /\ Draws(d)
      BY <1>1, <2>1
  <2> QED
      BY <2>2, DrawsStep
<1> QED
    BY <1>2, <1>3

LEMMA NothingIs ==
    /\ NoDrawing \in Drawing /\ NoDrawing.at = "idle" /\ NoDrawing.nodes = {} /\ NoDrawing.edges = {}
    /\ NoDrawing.seeds = {} /\ NoDrawing.techniques = {} /\ NoDrawing.cross = {} /\ NoDrawing.depth = 0
    /\ NoDrawing.truncated = FALSE /\ NoDrawing.steady = {} /\ NoDrawing.steadyTags = {}
<1>1. PICK none \in Seq(StixRefs \X StixRefs) : none = <<>>
  <2>1. <<>> \in Seq(StixRefs \X StixRefs)
      OBVIOUS
  <2> QED
      BY <2>1
<1> DEFINE d == [at |-> "idle", depth |-> 0, project |-> "none", seed |-> {}, seeds |-> {}, techniques |-> {}, rows |-> {},
                 objects |-> none, cross |-> {}, nodes |-> {}, edges |-> {}, truncated |-> FALSE, steady |-> {}, steadyTags |-> {}]
<1>2. d \in Drawing
    BY DEF Drawing, Labels
<1>3. d = NoDrawing
    BY <1>1 DEF NoDrawing
<1>4. /\ NoDrawing.at = "idle" /\ NoDrawing.nodes = {} /\ NoDrawing.edges = {}
      /\ NoDrawing.seeds = {} /\ NoDrawing.techniques = {} /\ NoDrawing.cross = {} /\ NoDrawing.depth = 0
      /\ NoDrawing.truncated = FALSE /\ NoDrawing.steady = {} /\ NoDrawing.steadyTags = {}
    BY DEF NoDrawing
<1> HIDE DEF d
<1> QED
    BY <1>2, <1>3, <1>4

LEMMA GraphStart == AttackGraphInit => GraphInv
<1> SUFFICES ASSUME AttackGraphInit PROVE GraphInv
    OBVIOUS
<1>1. PICK d \in Drawing : /\ d = NoDrawing /\ d.at = "idle" /\ d.nodes = {} /\ d.edges = {} /\ d.seeds = {} /\ d.techniques = {}
                           /\ d.cross = {} /\ d.depth = 0 /\ d.truncated = FALSE /\ d.steady = {} /\ d.steadyTags = {}
    BY NothingIs
<1>2. IsFiniteSet({}) /\ Cardinality({}) = 0 /\ 0 < NodeCap /\ 0 < EdgeCap
    BY FS_EmptySet, AttackGraphAssumption
<1>3. Sound(d) /\ Small(d) /\ ToCome(d) /\ Reached(d)
    BY <1>1, <1>2 DEF Sound, Small, ToCome, Reached, AtSeed
<1>4. DrawingInv(d) /\ Steady(d, present, tags)
    BY <1>1, <1>3 DEF DrawingInv, Steady
<1> QED
    BY <1>1, <1>4 DEF AttackGraphInit, GraphInv

LEMMA DrawEventStep ==
    ASSUME GraphInv, NEW e \in GraphEvents, NEW depth \in 1..3, NEW project \in Homes \cup {"none"}, DrawEvent(e, depth, project)
    PROVE  GraphInv'
<1>1. PICK o \in Drawing : /\ o = NoDrawing /\ o.edges = {} /\ o.seeds = {} /\ o.techniques = {}
                           /\ o.cross = {} /\ o.truncated = FALSE
    BY NothingIs
<1>0. PICK at \in Labels, far \in 0..3, seed \in SUBSET GraphEvents, nodes \in SUBSET Nodes,
           steady \in SUBSET GraphEvents, steadyTags \in SUBSET (GraphEvents \X Techniques) :
          at = "techniques" /\ far = depth /\ seed = {e} /\ nodes = {Event(e)} /\ steady = present /\ steadyTags = tags
  <2>1. /\ "techniques" \in Labels /\ depth \in 0..3 /\ {e} \in SUBSET GraphEvents /\ {Event(e)} \in SUBSET Nodes
        /\ present \in SUBSET GraphEvents /\ tags \in SUBSET (GraphEvents \X Techniques)
      BY NodesApart DEF Labels, GraphInv
  <2> QED
      BY <2>1
<1> DEFINE d == [o EXCEPT !.at = at, !.depth = far, !.project = project, !.seed = seed,
                          !.nodes = nodes, !.steady = steady, !.steadyTags = steadyTags]
<1>2. /\ d \in Drawing /\ d.at = "techniques" /\ d.depth = depth /\ d.project = project /\ d.seed = {e}
      /\ d.nodes = {Event(e)} /\ d.steady = present /\ d.steadyTags = tags
      /\ d.edges = {} /\ d.seeds = {} /\ d.techniques = {} /\ d.cross = {} /\ d.truncated = FALSE
  <2>1. /\ d \in Drawing /\ d.at = at /\ d.depth = far /\ d.project = project /\ d.seed = seed
        /\ d.nodes = nodes /\ d.steady = steady /\ d.steadyTags = steadyTags
        /\ d.edges = o.edges /\ d.seeds = o.seeds /\ d.techniques = o.techniques /\ d.cross = o.cross /\ d.truncated = o.truncated
      BY DEF Drawing
  <2> HIDE DEF d
  <2> QED
      BY <1>0, <1>1, <2>1
<1>3. drawing' = d /\ present' = present /\ tags' = tags /\ e \in Shown /\ (project # "none" => HomeOf[e] = project)
    BY <1>0, <1>1 DEF DrawEvent, Draws, tableVars
<1> HIDE DEF d
<1>4. SeedOf(d) = e
    BY <1>2, AtIs
<1>5. Sound(d)
    BY <1>2, <1>3, <1>4, NodesApart DEF Sound, AtSeed, Viewed
<1>6. Small(d)
  <2>1. IsFiniteSet({Event(e)}) /\ Cardinality({Event(e)}) = 1 /\ IsFiniteSet({}) /\ Cardinality({}) = 0
      BY FS_Singleton, FS_EmptySet
  <2>2. 1 < NodeCap /\ 0 < EdgeCap
      BY AttackGraphAssumption
  <2> QED
      BY <1>2, <2>1, <2>2 DEF Small
<1>7. ToCome(d) /\ Reached(d)
    BY <1>2, <1>4 DEF ToCome, Reached
<1>8. Steady(d, present, tags)
    BY <1>2 DEF Steady
<1>9. DrawingInv(drawing)' /\ Steady(drawing, present, tags)'
    BY <1>2, <1>3, <1>5, <1>6, <1>7, <1>8 DEF DrawingInv
<1> QED
    BY <1>3, <1>9 DEF GraphInv

LEMMA DrawProjectStep ==
    ASSUME GraphInv, NEW project \in Homes, DrawProject(project)
    PROVE  GraphInv'
<1>1. PICK o \in Drawing : /\ o = NoDrawing /\ o.nodes = {} /\ o.edges = {} /\ o.techniques = {} /\ o.depth = 0
                           /\ o.cross = {} /\ o.truncated = FALSE
    BY NothingIs
<1>2. PICK seeds \in SUBSET GraphEvents : seeds = {e \in (present \ cold) \cap Shown : HomeOf[e] = project}
  <2>1. {e \in (present \ cold) \cap Shown : HomeOf[e] = project} \subseteq GraphEvents
      BY DEF GraphInv
  <2> QED
      BY <2>1
<1>0. PICK at \in Labels, home \in Homes \cup {"none"}, steady \in SUBSET GraphEvents, steadyTags \in SUBSET (GraphEvents \X Techniques) :
          at = "seeds" /\ home = project /\ steady = present \ cold /\ steadyTags = tags
  <2>1. /\ "seeds" \in Labels /\ project \in Homes \cup {"none"}
        /\ present \ cold \in SUBSET GraphEvents /\ tags \in SUBSET (GraphEvents \X Techniques)
      BY DEF Labels, GraphInv
  <2> QED
      BY <2>1
<1> DEFINE d == [o EXCEPT !.at = at, !.project = home, !.steady = steady, !.steadyTags = steadyTags, !.seeds = seeds]
<1>3. /\ d \in Drawing /\ d.at = "seeds" /\ d.depth = 0 /\ d.project = project /\ d.seeds = seeds
      /\ d.nodes = {} /\ d.steady = present \ cold /\ d.steadyTags = tags
      /\ d.edges = {} /\ d.techniques = {} /\ d.cross = {} /\ d.truncated = FALSE
  <2>1. /\ d \in Drawing /\ d.at = at /\ d.depth = o.depth /\ d.project = home /\ d.seeds = seeds
        /\ d.nodes = o.nodes /\ d.steady = steady /\ d.steadyTags = steadyTags
        /\ d.edges = o.edges /\ d.techniques = o.techniques /\ d.cross = o.cross /\ d.truncated = o.truncated
      BY DEF Drawing
  <2> HIDE DEF d
  <2> QED
      BY <1>0, <1>1, <2>1
<1>4. drawing' = d /\ present' = present /\ tags' = tags
    BY <1>0, <1>1, <1>2 DEF DrawProject, Draws, tableVars
<1> HIDE DEF d
<1>5. project # "none"
    BY AttackGraphAssumption DEF Homes
<1>6. Sound(d)
    BY <1>2, <1>3 DEF Sound, AtSeed, Viewed
<1>7. Small(d)
  <2>1. IsFiniteSet({}) /\ Cardinality({}) = 0 /\ 0 < NodeCap /\ 0 < EdgeCap
      BY FS_EmptySet, AttackGraphAssumption
  <2> QED
      BY <1>3, <2>1 DEF Small
<1>8. ToCome(d)
    BY <1>3 DEF ToCome
<1>9. Reached(d)
    BY <1>2, <1>3, <1>5 DEF Reached, Viewed
<1>10. Steady(d, present, tags)
    BY <1>3 DEF Steady
<1>11. DrawingInv(drawing)' /\ Steady(drawing, present, tags)'
    BY <1>3, <1>4, <1>6, <1>7, <1>8, <1>9, <1>10 DEF DrawingInv
<1> QED
    BY <1>4, <1>11 DEF GraphInv

LEMMA DrawSeedStep ==
    ASSUME GraphInv, NEW e \in GraphEvents, DrawSeed(e)
    PROVE  GraphInv'
<1>1. PICK o \in Drawing : o = drawing /\ DrawingInv(o) /\ o.at = "seeds" /\ e \in o.seeds /\ Steady(o, present, tags) /\ ~o.truncated
    BY DEF GraphInv, DrawingInv, DrawSeed, Steady
<1>2. Sound(o) /\ Small(o) /\ o.depth = 0 /\ o.project # "none" /\ Viewed(o, e)
    BY <1>1 DEF DrawingInv, Reached, Sound
<1> DEFINE rest == [o EXCEPT !.seeds = @ \ {e}]
<1>3. /\ rest \in Drawing /\ rest.at = "seeds" /\ Like(rest, o) /\ rest.seed = o.seed /\ rest.seeds = o.seeds \ {e}
      /\ rest.techniques = o.techniques /\ rest.cross = o.cross /\ rest.nodes = o.nodes /\ rest.edges = o.edges
      /\ rest.truncated = o.truncated
    BY <1>1 DEF Drawing, Like
<1> HIDE DEF rest
<1>4. CASE e \notin present
  <2>1. Draws(rest)
      BY <1>1, <1>4 DEF DrawSeed, rest
  <2>2. Sound(rest)
      BY <1>1, <1>2, <1>3, LikeKeeps DEF Sound, AtSeed
  <2>3. Small(rest)
      BY <1>1, <1>2, <1>3 DEF Small
  <2>4. ToCome(rest)
      BY <1>3 DEF ToCome
  <2>5. Reached(rest)
    <3>1. e \notin o.steady
        BY <1>1, <1>4 DEF Steady
    <3>2. \A f \in o.steady : Viewed(o, f) => f \in o.seeds \/ HasAll(o, f)
        BY <1>1, <1>2 DEF DrawingInv, Reached, AtSeed
    <3>3. \A f \in rest.steady : Viewed(rest, f) => f \in rest.seeds \/ HasAll(rest, f)
        BY <1>3, <3>1, <3>2, LikeKeeps DEF Like
    <3> QED
        BY <1>2, <1>3, <3>3 DEF Reached, Like
  <2>6. DrawingInv(rest)
      BY <1>3, <2>2, <2>3, <2>4, <2>5 DEF DrawingInv
  <2> QED
      BY <1>1, <1>3, <2>1, <2>6, DrawsStep
<1>5. CASE e \in present
  <2>0. PICK at \in Labels, seed \in SUBSET GraphEvents, nodes \in SUBSET Nodes :
            at = "techniques" /\ seed = {e} /\ nodes = o.nodes \cup {Event(e)}
    <3>1. o.nodes \subseteq Nodes
        BY DEF Drawing
    <3>2. "techniques" \in Labels /\ {e} \in SUBSET GraphEvents /\ o.nodes \cup {Event(e)} \in SUBSET Nodes
        BY <3>1, NodesApart DEF Labels
    <3> QED
        BY <3>2
  <2> DEFINE d == [rest EXCEPT !.at = at, !.seed = seed, !.nodes = nodes]
  <2>1. /\ d \in Drawing /\ d.at = "techniques" /\ Like(d, o) /\ d.seed = {e} /\ d.seeds = o.seeds \ {e}
        /\ d.techniques = o.techniques /\ d.cross = o.cross /\ d.nodes = o.nodes \cup {Event(e)} /\ d.edges = o.edges
        /\ d.truncated = o.truncated
    <3>1. /\ d \in Drawing /\ d.at = at /\ Like(d, rest) /\ d.seed = seed /\ d.seeds = rest.seeds
          /\ d.techniques = rest.techniques /\ d.cross = rest.cross /\ d.nodes = nodes /\ d.edges = rest.edges
          /\ d.truncated = rest.truncated
        BY <1>3 DEF Drawing, Like
    <3> HIDE DEF d
    <3> QED
        BY <1>3, <2>0, <3>1 DEF Like
  <2>2. Draws(Capped(rest, d))
    <3>1. rest = [drawing EXCEPT !.seeds = @ \ {e}]
        BY <1>1 DEF rest
    <3>2. d = [rest EXCEPT !.at = "techniques", !.seed = {e}, !.nodes = @ \cup {Event(e)}]
        BY <1>3, <2>0
    <3> HIDE DEF d
    <3> QED
        BY <1>5, <3>1, <3>2 DEF DrawSeed
  <2> HIDE DEF d
  <2>3. SeedOf(d) = e
      BY <2>1, AtIs
  <2>4. Sound(d)
    <3>1. \A f \in GraphEvents : Event(f) \in d.nodes => Viewed(d, f)
        BY <1>2, <2>1, LikeKeeps, NodesApart DEF Sound
    <3>2. \A f \in d.seeds : Viewed(d, f)
        BY <1>2, <2>1, LikeKeeps DEF Sound
    <3> QED
        BY <1>2, <2>1, <2>3, <3>1, <3>2 DEF Sound
  <2>5. IsFiniteSet(d.nodes) /\ IsFiniteSet(d.edges) /\ Cardinality(d.nodes) <= NodeCap /\ Cardinality(d.edges) <= EdgeCap + 3
    <3>1. IsFiniteSet(o.nodes) /\ IsFiniteSet(o.edges) /\ Cardinality(o.nodes) < NodeCap /\ Cardinality(o.edges) < EdgeCap
        BY <1>1, <1>2 DEF Small
    <3>2. IsFiniteSet(d.nodes) /\ Cardinality(d.nodes) \in Nat /\ Cardinality(o.nodes) \in Nat /\ Cardinality(d.nodes) <= Cardinality(o.nodes) + 1
      <4>1. PICK N : N = o.nodes /\ IsFiniteSet(N)
          BY <3>1
      <4>2. PICK x : x = Event(e)
          OBVIOUS
      <4>3. IsFiniteSet(N \cup {x}) /\ Cardinality(N \cup {x}) \in Nat /\ Cardinality(N) \in Nat /\ Cardinality(N \cup {x}) <= Cardinality(N) + 1
          BY <4>1, AddOne
      <4>4. d.nodes = N \cup {x}
          BY <2>1, <4>1, <4>2
      <4> QED
          BY <4>1, <4>3, <4>4
    <3>3. Cardinality(o.edges) \in Nat
        BY <3>1, FS_CardinalityType
    <3> QED
        BY <2>1, <3>1, <3>2, <3>3, AttackGraphAssumption
  <2>6. ToCome(d)
      BY <2>1 DEF ToCome
  <2>7. Reached(d)
    <3>1. \A f \in o.steady : Viewed(o, f) => f \in o.seeds \/ HasAll(o, f)
        BY <1>1, <1>2 DEF DrawingInv, Reached, AtSeed
    <3>2. \A f \in d.steady : Viewed(d, f) => f \in d.seeds \/ f = SeedOf(d) \/ HasAll(d, f)
        BY <2>1, <2>3, <3>1, LikeKeeps DEF Like
    <3> QED
        BY <1>2, <2>1, <3>2 DEF Reached, Like, AtSeed
  <2>8. d.depth = 0 /\ d.project # "none"
      BY <1>2, <2>1 DEF Like
  <2> QED
      BY <1>1, <2>1, <2>2, <2>4, <2>5, <2>6, <2>7, <2>8, CappedDraws
<1> QED
    BY <1>4, <1>5

-----------------------------------------------------------------------------
(* The layers of a seed *)

\* What a step within a seed leaves as it was; objects, rows and cross are the step's own.
Within(n, o) ==
    /\ Like(n, o) /\ n.seed = o.seed /\ n.seeds = o.seeds /\ n.truncated = o.truncated
    /\ o.nodes \subseteq n.nodes

LEMMA WithinIs ==
    ASSUME NEW n, NEW o, Within(n, o)
    PROVE  /\ SeedOf(n) = SeedOf(o)
           /\ \A e : Viewed(n, e) <=> Viewed(o, e)
           /\ \A e, t : Tagged(n, e, t) <=> Tagged(o, e, t)
           /\ \A e : HasTechniques(o, e) => HasTechniques(n, e)
           /\ \A e : HasObjects(o, e) => HasObjects(n, e)
           /\ \A e : HasAll(o, e) => HasAll(n, e)
           /\ \A e, f : HasOther(o, f, e) => HasOther(n, f, e)
BY LikeKeeps DEF Within, SeedOf

LEMMA ReachedStays ==
    ASSUME NEW n, NEW o, Within(n, o), Reached(o), ~o.truncated, AtSeed(o), AtSeed(n),
           n.at \in {"cross", "load", "other"} => o.depth # 0
    PROVE  Reached(n)
<1>1. n.depth = o.depth /\ n.project = o.project /\ n.steady = o.steady /\ n.seeds = o.seeds /\ o.nodes \subseteq n.nodes
    BY DEF Within, Like
<1>2. n.at \notin {"idle", "seeds", "done"} /\ o.at \notin {"idle", "seeds", "done"}
    BY DEF AtSeed
<1>3. CASE o.depth = 0
  <2>1. \A e \in o.steady : Viewed(o, e) => e \in o.seeds \/ e = SeedOf(o) \/ HasAll(o, e)
      BY <1>2, <1>3 DEF Reached
  <2>2. \A e \in n.steady : Viewed(n, e) => e \in n.seeds \/ (AtSeed(n) /\ e = SeedOf(n)) \/ HasAll(n, e)
      BY <1>1, <2>1, WithinIs
  <2>3. n.project # "none" /\ n.at \notin {"cross", "load", "other"} /\ n.at # "done" /\ n.depth = 0
      BY <1>1, <1>2, <1>3 DEF Reached
  <2> QED
      BY <2>2, <2>3 DEF Reached
<1>4. CASE o.depth # 0
  <2>1. SeedOf(n) \in GraphEvents /\ Event(SeedOf(n)) \in n.nodes
      BY <1>1, <1>4, WithinIs DEF Reached
  <2> QED
      BY <1>1, <1>2, <1>4, <2>1 DEF Reached
<1> QED
    BY <1>3, <1>4

LEMMA SoundStays ==
    ASSUME NEW n, NEW o, Within(n, o), Sound(o), n.techniques = o.techniques, n.nodes = o.nodes, n.edges = o.edges,
           AtSeed(n) => AtSeed(o), n.cross \subseteq GraphEvents \X n.techniques,
           n.at = "other" => \A tag \in n.cross : Viewed(n, tag[1])
    PROVE  Sound(n)
<1>1. SeedOf(n) = SeedOf(o) /\ (\A e : Viewed(n, e) <=> Viewed(o, e)) /\ n.seeds = o.seeds
    BY WithinIs DEF Within
<1>2. \A edge \in n.edges : edge[1] \in n.nodes /\ edge[2] \in n.nodes
    BY DEF Sound
<1>3. (\A e \in GraphEvents : Event(e) \in n.nodes => Viewed(n, e)) /\ (\A e \in n.seeds : Viewed(n, e))
    BY <1>1 DEF Sound
<1>4. (\A t \in n.techniques : Technique(t) \in n.nodes) /\ (AtSeed(n) => SeedOf(n) \in GraphEvents /\ Event(SeedOf(n)) \in n.nodes)
    BY <1>1 DEF Sound
<1> QED
    BY <1>2, <1>3, <1>4 DEF Sound

LEMMA SmallStays ==
    ASSUME NEW n, NEW o, Small(o), n.nodes = o.nodes, n.edges = o.edges, o.at # "done",
           n.at \in {"done", "objects", "cross", "load", "other"} \/ o.at \notin {"objects", "cross", "load", "other"}
    PROVE  Small(n)
<1>1. Cardinality(o.nodes) \in Nat /\ Cardinality(o.edges) \in Nat /\ NodeCap \in Nat /\ EdgeCap \in Nat
    BY FS_CardinalityType, AttackGraphAssumption DEF Small
<1>2. Cardinality(o.nodes) < NodeCap /\ Cardinality(o.edges) <= EdgeCap + 2
    BY <1>1 DEF Small
<1>3. Cardinality(o.nodes) <= NodeCap /\ Cardinality(o.edges) <= EdgeCap + 3
    BY <1>1, <1>2
<1> QED
    BY <1>2, <1>3 DEF Small

\* A request at work, and what the invariant says of it.
LEMMA GraphWork ==
    ASSUME GraphInv, AtSeed(drawing) \/ drawing.at = "seeds"
    PROVE  /\ drawing \in Drawing /\ Sound(drawing) /\ Small(drawing) /\ ToCome(drawing) /\ Reached(drawing)
           /\ ~drawing.truncated /\ drawing.at # "idle" /\ drawing.at # "done" /\ Seed = SeedOf(drawing)
           /\ drawing.steady \subseteq present /\ drawing.steadyTags \subseteq tags
           /\ present \subseteq GraphEvents /\ tags \subseteq GraphEvents \X Techniques
           /\ AtSeed(drawing) => SeedOf(drawing) \in GraphEvents /\ Event(SeedOf(drawing)) \in drawing.nodes
<1>1. drawing.at # "idle" /\ drawing.at # "done"
    BY DEF AtSeed
<1>2. drawing \in Drawing /\ Sound(drawing) /\ Small(drawing) /\ ToCome(drawing) /\ Reached(drawing)
    BY DEF GraphInv, DrawingInv
<1>3. ~drawing.truncated /\ drawing.steady \subseteq present /\ drawing.steadyTags \subseteq tags
    BY <1>1 DEF GraphInv, Steady
<1>4. Seed = SeedOf(drawing)
    BY DEF Seed, SeedOf
<1>5. AtSeed(drawing) => SeedOf(drawing) \in GraphEvents /\ Event(SeedOf(drawing)) \in drawing.nodes
    BY <1>2 DEF Sound
<1>6. present \subseteq GraphEvents /\ tags \subseteq GraphEvents \X Techniques
    BY DEF GraphInv
<1> QED
    BY <1>1, <1>2, <1>3, <1>4, <1>5, <1>6

\* A step that draws nothing: its drawing is typed and within the seed, and has its part to come.
LEMMA Reads ==
    ASSUME GraphInv, AtSeed(drawing) \/ drawing.at = "seeds", NEW n \in Drawing, Draws(n), Within(n, drawing),
           n.techniques = drawing.techniques, n.nodes = drawing.nodes, n.edges = drawing.edges, n.at # "idle",
           AtSeed(n) => AtSeed(drawing), n.cross \subseteq GraphEvents \X n.techniques,
           n.at = "other" => \A tag \in n.cross : Viewed(n, tag[1]),
           n.at \in {"done", "objects", "cross", "load", "other"} \/ drawing.at \notin {"objects", "cross", "load", "other"},
           ToCome(n), Reached(n)
    PROVE  GraphInv'
<1>1. Sound(n) /\ Small(n)
    BY GraphWork, SoundStays, SmallStays
<1>2. DrawingInv(n) /\ Like(n, drawing) /\ ~n.truncated
    BY <1>1, GraphWork DEF DrawingInv, Within
<1> QED
    BY <1>2, GraphWork, DrawsStep

LEMMA ReadTechniquesStep == ASSUME GraphInv, ReadTechniques PROVE GraphInv'
<1>1. PICK o \in Drawing : o = drawing /\ o.at = "techniques"
    BY GraphWork DEF ReadTechniques, AtSeed
<1>2. AtSeed(o) /\ AtSeed(drawing) /\ Sound(o) /\ Reached(o) /\ ~o.truncated /\ Seed = SeedOf(o) /\ o.steadyTags \subseteq tags
    BY <1>1, GraphWork DEF AtSeed
<1>3. PICK rows \in SUBSET Techniques, at \in Labels : rows = {t \in Techniques : <<Seed, t>> \in tags} /\ at = "technique"
  <2>1. {t \in Techniques : <<Seed, t>> \in tags} \in SUBSET Techniques /\ "technique" \in Labels
      BY DEF Labels
  <2> QED
      BY <2>1
<1> DEFINE n == [o EXCEPT !.at = at, !.rows = rows]
<1>4. /\ n \in Drawing /\ n.at = at /\ n.rows = rows /\ Within(n, o) /\ n.cross = o.cross
      /\ n.techniques = o.techniques /\ n.nodes = o.nodes /\ n.edges = o.edges
    BY DEF Drawing, Within, Like
<1>5. Draws(n)
    BY <1>1, <1>3 DEF ReadTechniques
<1> HIDE DEF n
<1>6. AtSeed(n) /\ n.at = "technique"
    BY <1>3, <1>4 DEF AtSeed
<1>7. ToCome(n)
    BY <1>2, <1>3, <1>4, <1>6, WithinIs DEF ToCome, Tagged
<1>8. Reached(n)
    BY <1>2, <1>4, <1>6, ReachedStays
<1>9. n.cross \subseteq GraphEvents \X n.techniques
    BY <1>2, <1>4 DEF Sound
<1> QED
    BY <1>1, <1>2, <1>4, <1>5, <1>6, <1>7, <1>8, <1>9, Reads

LEMMA EndTechniquesStep == ASSUME GraphInv, EndTechniques PROVE GraphInv'
<1>1. PICK o \in Drawing : o = drawing /\ o.at = "technique" /\ o.rows = {}
    BY GraphWork DEF EndTechniques, AtSeed
<1>2. /\ AtSeed(o) /\ AtSeed(drawing) /\ Sound(o) /\ Reached(o) /\ ~o.truncated /\ Seed = SeedOf(o) /\ ToCome(o)
      /\ SeedOf(o) \in GraphEvents /\ Event(SeedOf(o)) \in o.nodes
    BY <1>1, GraphWork DEF AtSeed
<1>3. o.cross \subseteq GraphEvents \X o.techniques
    BY <1>2 DEF Sound
<1>4. \A t \in Techniques : Tagged(o, SeedOf(o), t) => t \in o.techniques
    BY <1>1, <1>2 DEF ToCome
<1>5. CASE o.depth = 1
  <2>1. PICK at \in Labels : at = "done"
      BY DEF Labels
  <2> DEFINE n == [o EXCEPT !.at = at]
  <2>2. /\ n \in Drawing /\ n.at = at /\ Within(n, o) /\ n.cross = o.cross
        /\ n.techniques = o.techniques /\ n.nodes = o.nodes /\ n.edges = o.edges
      BY DEF Drawing, Within, Like
  <2>3. Draws(n)
      BY <1>1, <1>5, <2>1 DEF EndTechniques
  <2> HIDE DEF n
  <2>4. ToCome(n) /\ ~AtSeed(n)
      BY <2>1, <2>2 DEF ToCome, AtSeed
  <2>5. Reached(n)
    <3>1. SeedOf(n) = SeedOf(o) /\ n.depth = 1
        BY <1>5, <2>2, WithinIs DEF Within, Like
    <3>2. HasTechniques(o, SeedOf(o))
        BY <1>2, <1>4 DEF HasTechniques, Sound
    <3>3. HasTechniques(n, SeedOf(n))
        BY <2>2, <3>1, <3>2, WithinIs
    <3> QED
        BY <1>2, <2>1, <2>2, <3>1, <3>3 DEF Reached
  <2> QED
      BY <1>1, <1>2, <1>3, <2>1, <2>2, <2>3, <2>4, <2>5, Reads
<1>6. CASE o.depth # 1
  <2>1. PICK at \in Labels, objects \in Seq(StixRefs \X StixRefs) : at = "objects" /\ objects = StixOf[Seed]
    <3>1. "objects" \in Labels /\ StixOf[Seed] \in Seq(StixRefs \X StixRefs)
        BY <1>2, AttackGraphAssumption DEF Labels
    <3> QED
        BY <3>1
  <2> DEFINE n == [o EXCEPT !.at = at, !.objects = objects]
  <2>2. /\ n \in Drawing /\ n.at = at /\ n.objects = objects /\ Within(n, o) /\ n.cross = o.cross
        /\ n.techniques = o.techniques /\ n.nodes = o.nodes /\ n.edges = o.edges /\ n.depth = o.depth
      BY DEF Drawing, Within, Like
  <2>3. Draws(n)
      BY <1>1, <1>6, <2>1 DEF EndTechniques
  <2> HIDE DEF n
  <2>4. AtSeed(n)
      BY <2>1, <2>2 DEF AtSeed
  <2>5. ToCome(n)
      BY <1>2, <1>4, <1>6, <2>1, <2>2, WithinIs DEF ToCome
  <2>6. Reached(n)
      BY <1>2, <2>1, <2>2, <2>4, ReachedStays
  <2> QED
      BY <1>1, <1>2, <1>3, <2>1, <2>2, <2>3, <2>4, <2>5, <2>6, Reads
<1> QED
    BY <1>5, <1>6

\* The end of a seed whose relationships are drawn.
LEMMA EndObjectsStep == ASSUME GraphInv, EndObjects PROVE GraphInv'
<1>1. PICK o \in Drawing : o = drawing /\ o.at = "objects" /\ o.objects = <<>>
    BY GraphWork DEF EndObjects, AtSeed
<1>2. /\ AtSeed(o) /\ AtSeed(drawing) /\ Sound(o) /\ Small(o) /\ Reached(o) /\ ~o.truncated /\ Seed = SeedOf(o) /\ ToCome(o)
      /\ SeedOf(o) \in GraphEvents /\ Event(SeedOf(o)) \in o.nodes
    BY <1>1, GraphWork DEF AtSeed
<1>3. o.cross \subseteq GraphEvents \X o.techniques
    BY <1>2 DEF Sound
<1>4. (\A t \in Techniques : Tagged(o, SeedOf(o), t) => t \in o.techniques) /\ o.depth # 1
    BY <1>1, <1>2 DEF ToCome
<1>5. HasTechniques(o, SeedOf(o))
    BY <1>2, <1>4 DEF HasTechniques, Sound
<1>6. HasObjects(o, SeedOf(o))
  <2>1. DOMAIN o.objects = {}
      BY <1>1
  <2> QED
      BY <1>1, <1>2, <2>1 DEF ToCome, HasObjects
<1>7. CASE o.depth = 0
  <2>1. PICK at \in Labels : at = "seeds"
      BY DEF Labels
  <2> DEFINE n == [o EXCEPT !.at = at]
  <2>2. /\ n \in Drawing /\ n.at = at /\ Within(n, o) /\ n.cross = o.cross /\ n.depth = 0 /\ n.project = o.project
        /\ n.techniques = o.techniques /\ n.nodes = o.nodes /\ n.edges = o.edges
      BY <1>7 DEF Drawing, Within, Like
  <2>3. Draws(Capped(drawing, n))
      BY <1>1, <1>7, <2>1 DEF EndObjects
  <2> HIDE DEF n
  <2>4. ~AtSeed(n) /\ ToCome(n)
      BY <2>1, <2>2 DEF AtSeed, ToCome
  <2>5. Sound(n)
      BY <1>2, <1>3, <2>1, <2>2, <2>4, SoundStays
  <2>6. n.project # "none"
      BY <1>1, <1>2, <1>7, <2>2 DEF Reached
  <2>7. Reached(n)
    <3>1. \A e \in o.steady : Viewed(o, e) => e \in o.seeds \/ HasAll(o, e)
        BY <1>2, <1>5, <1>6, <1>7, <1>1 DEF Reached, HasAll
    <3>2. n.steady = o.steady /\ n.seeds = o.seeds
        BY <2>2 DEF Within, Like
    <3>3. \A e \in n.steady : Viewed(n, e) => e \in n.seeds \/ HasAll(n, e)
        BY <2>2, <3>1, <3>2, WithinIs
    <3> QED
        BY <2>1, <2>2, <2>6, <3>3 DEF Reached
  <2>8. /\ IsFiniteSet(n.nodes) /\ IsFiniteSet(n.edges)
        /\ Cardinality(n.nodes) <= NodeCap /\ Cardinality(n.edges) <= EdgeCap + 3
    <3>1. Cardinality(o.nodes) \in Nat /\ Cardinality(o.edges) \in Nat /\ NodeCap \in Nat /\ EdgeCap \in Nat
        BY <1>2, FS_CardinalityType, AttackGraphAssumption DEF Small
    <3>2. Cardinality(o.nodes) < NodeCap /\ Cardinality(o.edges) <= EdgeCap + 2
        BY <1>1, <1>2 DEF Small
    <3> QED
        BY <1>2, <2>2, <3>1, <3>2 DEF Small
  <2>9. ~n.truncated /\ Like(n, drawing)
      BY <1>1, <1>2, <2>2 DEF Within
  <2> QED
      BY <1>1, <2>1, <2>2, <2>3, <2>4, <2>5, <2>6, <2>7, <2>8, <2>9, CappedDraws
<1>8. CASE o.depth = 3 /\ o.techniques # {}
  <2>1. PICK at \in Labels : at = "cross"
      BY DEF Labels
  <2> DEFINE n == [o EXCEPT !.at = at]
  <2>2. /\ n \in Drawing /\ n.at = at /\ Within(n, o) /\ n.cross = o.cross /\ n.depth = 3
        /\ n.techniques = o.techniques /\ n.nodes = o.nodes /\ n.edges = o.edges
      BY <1>8 DEF Drawing, Within, Like
  <2>3. Draws(n)
      BY <1>1, <1>8, <2>1 DEF EndObjects
  <2> HIDE DEF n
  <2>4. AtSeed(n)
      BY <2>1, <2>2 DEF AtSeed
  <2>5. ToCome(n)
      BY <1>4, <1>6, <2>1, <2>2, WithinIs DEF ToCome
  <2>6. Reached(n)
      BY <1>2, <1>8, <2>2, <2>4, ReachedStays
  <2> QED
      BY <1>1, <1>2, <1>3, <2>1, <2>2, <2>3, <2>4, <2>5, <2>6, Reads
<1>9. CASE o.depth # 0 /\ ~(o.depth = 3 /\ o.techniques # {})
  <2>1. PICK at \in Labels : at = "done"
      BY DEF Labels
  <2> DEFINE n == [o EXCEPT !.at = at]
  <2>2. /\ n \in Drawing /\ n.at = at /\ Within(n, o) /\ n.cross = o.cross /\ n.depth = o.depth
        /\ n.techniques = o.techniques /\ n.nodes = o.nodes /\ n.edges = o.edges
      BY DEF Drawing, Within, Like
  <2>3. Draws(n)
      BY <1>1, <1>9, <2>1 DEF EndObjects
  <2> HIDE DEF n
  <2>4. ~AtSeed(n) /\ ToCome(n)
      BY <2>1, <2>2 DEF AtSeed, ToCome
  <2>5. Reached(n)
    <3>1. SeedOf(n) = SeedOf(o)
        BY <2>2, WithinIs
    <3>2. HasTechniques(n, SeedOf(n)) /\ HasObjects(n, SeedOf(n))
        BY <1>5, <1>6, <2>2, <3>1, WithinIs
    <3>3. ASSUME n.depth = 3, NEW f PROVE HasOther(n, f, SeedOf(n))
      <4>1. \A t \in Techniques : ~Tagged(n, SeedOf(n), t)
          BY <1>4, <1>9, <2>2, <3>1, <3>3, WithinIs
      <4> QED
          BY <4>1 DEF HasOther
    <3> QED
        BY <1>2, <1>9, <2>1, <2>2, <3>1, <3>2, <3>3 DEF Reached
  <2> QED
      BY <1>1, <1>2, <1>3, <2>1, <2>2, <2>3, <2>4, <2>5, Reads
<1> QED
    BY <1>7, <1>8, <1>9

LEMMA EndSeedsStep == ASSUME GraphInv, EndSeeds PROVE GraphInv'
<1>1. PICK o \in Drawing : o = drawing /\ o.at = "seeds" /\ o.seeds = {}
    BY GraphWork DEF EndSeeds
<1>2. Sound(o) /\ Reached(o) /\ ~o.truncated /\ ~AtSeed(o)
    BY <1>1, GraphWork DEF AtSeed
<1>3. o.cross \subseteq GraphEvents \X o.techniques /\ o.depth = 0
    BY <1>1, <1>2 DEF Sound, Reached
<1>4. PICK at \in Labels : at = "done"
    BY DEF Labels
<1> DEFINE n == [o EXCEPT !.at = at]
<1>5. /\ n \in Drawing /\ n.at = at /\ Within(n, o) /\ n.cross = o.cross /\ n.seeds = o.seeds /\ n.depth = o.depth
      /\ n.techniques = o.techniques /\ n.nodes = o.nodes /\ n.edges = o.edges /\ n.project = o.project /\ n.steady = o.steady
    BY DEF Drawing, Within, Like
<1>6. Draws(n)
    BY <1>1, <1>4 DEF EndSeeds
<1> HIDE DEF n
<1>7. ToCome(n) /\ ~AtSeed(n)
    BY <1>4, <1>5 DEF ToCome, AtSeed
<1>8. Reached(n)
  <2>1. (\A e \in o.steady : Viewed(o, e) => HasAll(o, e)) /\ o.project # "none"
      BY <1>1, <1>2, <1>3 DEF Reached
  <2>2. \A e \in n.steady : Viewed(n, e) => HasAll(n, e)
      BY <1>5, <2>1, WithinIs
  <2> QED
      BY <1>1, <1>3, <1>4, <1>5, <2>1, <2>2 DEF Reached
<1> QED
    BY <1>1, <1>3, <1>4, <1>5, <1>6, <1>7, <1>8, Reads

\* The tags of the seed's techniques are read, ...
LEMMA ReadCrossStep == ASSUME GraphInv, ReadCross PROVE GraphInv'
<1>1. PICK o \in Drawing : o = drawing /\ o.at = "cross"
    BY GraphWork DEF ReadCross, AtSeed
<1>2. /\ AtSeed(o) /\ AtSeed(drawing) /\ Sound(o) /\ Reached(o) /\ ~o.truncated /\ Seed = SeedOf(o) /\ ToCome(o)
      /\ o.steadyTags \subseteq tags /\ tags \subseteq GraphEvents \X Techniques
    BY <1>1, GraphWork DEF AtSeed
<1>3. PICK at \in Labels, cross \in SUBSET (GraphEvents \X Techniques) :
          at = "load" /\ cross = {tag \in tags : tag[2] \in o.techniques /\ tag[1] # Seed}
  <2>1. "load" \in Labels /\ {tag \in tags : tag[2] \in o.techniques /\ tag[1] # Seed} \in SUBSET (GraphEvents \X Techniques)
      BY <1>2 DEF Labels
  <2> QED
      BY <2>1
<1> DEFINE n == [o EXCEPT !.at = at, !.cross = cross]
<1>4. /\ n \in Drawing /\ n.at = at /\ n.cross = cross /\ Within(n, o) /\ n.depth = o.depth
      /\ n.techniques = o.techniques /\ n.nodes = o.nodes /\ n.edges = o.edges /\ n.steadyTags = o.steadyTags
    BY DEF Drawing, Within, Like
<1>5. Draws(n)
    BY <1>1, <1>3 DEF ReadCross
<1> HIDE DEF n
<1>6. AtSeed(n) /\ n.at = "load"
    BY <1>3, <1>4 DEF AtSeed
<1>7. o.depth = 3 /\ HasObjects(o, SeedOf(o)) /\ (\A t \in Techniques : Tagged(o, SeedOf(o), t) => t \in o.techniques)
    BY <1>1, <1>2 DEF ToCome
<1>8. ToCome(n)
  <2>1. \A tag \in n.steadyTags : tag[2] \in n.techniques /\ tag[1] # SeedOf(n) => tag \in n.cross
      BY <1>2, <1>3, <1>4, WithinIs
  <2>2. HasObjects(n, SeedOf(n)) /\ (\A t \in Techniques : Tagged(n, SeedOf(n), t) => t \in n.techniques)
      BY <1>4, <1>7, WithinIs
  <2> QED
      BY <1>4, <1>6, <1>7, <2>1, <2>2 DEF ToCome
<1>9. Reached(n)
    BY <1>2, <1>4, <1>6, <1>7, ReachedStays
<1>10. n.cross \subseteq GraphEvents \X n.techniques
    BY <1>2, <1>3, <1>4
<1> QED
    BY <1>1, <1>2, <1>4, <1>5, <1>6, <1>8, <1>9, <1>10, Reads

\* ... then those of their events that are in view, ...
LEMMA LoadCrossStep == ASSUME GraphInv, LoadCross PROVE GraphInv'
<1>1. PICK o \in Drawing : o = drawing /\ o.at = "load"
    BY GraphWork DEF LoadCross, AtSeed
<1>2. /\ AtSeed(o) /\ AtSeed(drawing) /\ Sound(o) /\ Reached(o) /\ ~o.truncated /\ Seed = SeedOf(o) /\ ToCome(o)
      /\ o.steady \subseteq present
    BY <1>1, GraphWork DEF AtSeed
<1>3. PICK at \in Labels, cross \in SUBSET (GraphEvents \X Techniques) :
          at = "other" /\ cross = {tag \in o.cross : tag[1] \in present /\ InView(tag[1])}
  <2>1. o.cross \subseteq GraphEvents \X Techniques
      BY DEF Drawing
  <2>2. "other" \in Labels /\ {tag \in o.cross : tag[1] \in present /\ InView(tag[1])} \in SUBSET (GraphEvents \X Techniques)
      BY <2>1 DEF Labels
  <2> QED
      BY <2>2
<1> DEFINE n == [o EXCEPT !.at = at, !.cross = cross]
<1>4. /\ n \in Drawing /\ n.at = at /\ n.cross = cross /\ Within(n, o) /\ n.depth = o.depth /\ n.steady = o.steady
      /\ n.techniques = o.techniques /\ n.nodes = o.nodes /\ n.edges = o.edges /\ n.steadyTags = o.steadyTags
    BY DEF Drawing, Within, Like
<1>5. Draws(n)
    BY <1>1, <1>3 DEF LoadCross
<1> HIDE DEF n
<1>6. AtSeed(n) /\ n.at = "other"
    BY <1>3, <1>4 DEF AtSeed
<1>7. o.depth = 3 /\ HasObjects(o, SeedOf(o)) /\ (\A t \in Techniques : Tagged(o, SeedOf(o), t) => t \in o.techniques)
    BY <1>1, <1>2 DEF ToCome
<1>8. \A e : Viewed(n, e) <=> InView(e)
  <2>1. \A e : Viewed(o, e) <=> InView(e)
      BY <1>1 DEF Viewed, InView
  <2> QED
      BY <1>4, <2>1, WithinIs
<1>9. ToCome(n)
  <2>1. \A tag \in o.steadyTags : tag[2] \in o.techniques /\ tag[1] # SeedOf(o) => tag \in o.cross
      BY <1>1, <1>2 DEF ToCome
  <2>2. SeedOf(n) = SeedOf(o)
      BY <1>4, WithinIs
  <2>3. ASSUME NEW tag \in n.steadyTags, tag[2] \in n.techniques, tag[1] # SeedOf(n), tag[1] \in n.steady, Viewed(n, tag[1])
        PROVE  tag \in n.cross
      BY <1>2, <1>3, <1>4, <1>8, <2>1, <2>2, <2>3
  <2>4. HasObjects(n, SeedOf(n)) /\ (\A t \in Techniques : Tagged(n, SeedOf(n), t) => t \in n.techniques)
      BY <1>4, <1>7, WithinIs
  <2> QED
      BY <1>4, <1>6, <1>7, <2>3, <2>4 DEF ToCome
<1>10. Reached(n)
    BY <1>2, <1>4, <1>6, <1>7, ReachedStays
<1>11. n.cross \subseteq GraphEvents \X n.techniques
    BY <1>2, <1>3, <1>4 DEF Sound
<1>12. \A tag \in n.cross : Viewed(n, tag[1])
    BY <1>3, <1>4, <1>8
<1> QED
    BY <1>1, <1>2, <1>4, <1>5, <1>6, <1>9, <1>10, <1>11, <1>12, Reads

\* ... and when all of these are drawn, nothing of what was there throughout is missing.
LEMMA EndOthersStep == ASSUME GraphInv, EndOthers PROVE GraphInv'
<1>1. PICK o \in Drawing : o = drawing /\ o.at = "other" /\ o.cross = {}
    BY GraphWork DEF EndOthers, AtSeed
<1>2. /\ AtSeed(o) /\ AtSeed(drawing) /\ Sound(o) /\ Reached(o) /\ ~o.truncated /\ ToCome(o)
      /\ SeedOf(o) \in GraphEvents /\ Event(SeedOf(o)) \in o.nodes
    BY <1>1, GraphWork DEF AtSeed
<1>3. PICK at \in Labels : at = "done"
    BY DEF Labels
<1> DEFINE n == [o EXCEPT !.at = at]
<1>4. /\ n \in Drawing /\ n.at = at /\ Within(n, o) /\ n.cross = o.cross /\ n.depth = o.depth /\ n.steady = o.steady
      /\ n.techniques = o.techniques /\ n.nodes = o.nodes /\ n.edges = o.edges
    BY DEF Drawing, Within, Like
<1>5. Draws(n)
    BY <1>1, <1>3 DEF EndOthers
<1> HIDE DEF n
<1>6. o.depth = 3 /\ HasObjects(o, SeedOf(o)) /\ (\A t \in Techniques : Tagged(o, SeedOf(o), t) => t \in o.techniques)
    BY <1>1, <1>2 DEF ToCome
<1>7. ToCome(n) /\ ~AtSeed(n)
    BY <1>3, <1>4 DEF ToCome, AtSeed
<1>8. Reached(n)
  <2>1. SeedOf(n) = SeedOf(o)
      BY <1>4, WithinIs
  <2>2. HasTechniques(o, SeedOf(o))
      BY <1>2, <1>6 DEF HasTechniques, Sound
  <2>3. ASSUME NEW f \in o.steady, f # SeedOf(o), Viewed(o, f) PROVE HasOther(o, f, SeedOf(o))
    <3>1. ASSUME NEW t \in Techniques, Tagged(o, SeedOf(o), t), Tagged(o, f, t) PROVE Event(f) \in o.nodes
      <4>1. PICK tag \in o.steadyTags : tag = <<f, t>>
          BY <3>1 DEF Tagged
      <4>2. tag[1] = f /\ tag[2] = t /\ t \in o.techniques
          BY <1>6, <3>1, <4>1
      <4> QED
          BY <1>1, <1>2, <2>3, <4>1, <4>2 DEF ToCome
    <3> QED
        BY <3>1 DEF HasOther
  <2>4. \A f \in n.steady : f # SeedOf(n) /\ Viewed(n, f) => HasOther(n, f, SeedOf(n))
      BY <1>4, <2>1, <2>3, WithinIs
  <2>5. HasTechniques(n, SeedOf(n)) /\ HasObjects(n, SeedOf(n))
      BY <1>4, <1>6, <2>1, <2>2, WithinIs
  <2> QED
      BY <1>2, <1>3, <1>4, <1>6, <2>1, <2>4, <2>5 DEF Reached
<1>9. n.cross \subseteq GraphEvents \X n.techniques
    BY <1>1, <1>4
<1> QED
    BY <1>1, <1>2, <1>3, <1>4, <1>5, <1>7, <1>8, <1>9, Reads

-----------------------------------------------------------------------------
(* What a row adds *)

LEMMA OneMoreOf ==
    ASSUME NEW N, NEW E, IsFiniteSet(N), IsFiniteSet(E), Cardinality(N) < NodeCap, Cardinality(E) <= EdgeCap + 2, NEW x, NEW y
    PROVE  /\ IsFiniteSet(N \cup {x}) /\ IsFiniteSet(E \cup {y})
           /\ Cardinality(N \cup {x}) <= NodeCap /\ Cardinality(E \cup {y}) <= EdgeCap + 3
<1>1. IsFiniteSet(N \cup {x}) /\ Cardinality(N) \in Nat /\ Cardinality(N \cup {x}) \in Nat /\ Cardinality(N \cup {x}) <= Cardinality(N) + 1
    BY AddOne
<1>2. IsFiniteSet(E \cup {y}) /\ Cardinality(E) \in Nat /\ Cardinality(E \cup {y}) \in Nat /\ Cardinality(E \cup {y}) <= Cardinality(E) + 1
    BY AddOne
<1>3. NodeCap \in Nat /\ EdgeCap \in Nat
    BY AttackGraphAssumption
<1> QED
    BY <1>1, <1>2, <1>3

LEMMA SmallIs ==
    ASSUME NEW o, Small(o), o.at # "done"
    PROVE  IsFiniteSet(o.nodes) /\ IsFiniteSet(o.edges) /\ Cardinality(o.nodes) < NodeCap /\ Cardinality(o.edges) <= EdgeCap + 2
<1>1. Cardinality(o.edges) \in Nat /\ EdgeCap \in Nat
    BY FS_CardinalityType, AttackGraphAssumption DEF Small
<1> QED
    BY <1>1 DEF Small

LEMMA DrawTechniqueStep == ASSUME GraphInv, NEW t \in Techniques, DrawTechnique(t) PROVE GraphInv'
<1>1. PICK o \in Drawing : o = drawing /\ o.at = "technique" /\ t \in o.rows
    BY GraphWork DEF DrawTechnique, AtSeed
<1>2. /\ AtSeed(o) /\ AtSeed(drawing) /\ Sound(o) /\ Small(o) /\ Reached(o) /\ ~o.truncated /\ ToCome(o) /\ Seed = SeedOf(o)
      /\ SeedOf(o) \in GraphEvents /\ Event(SeedOf(o)) \in o.nodes
    BY <1>1, GraphWork DEF AtSeed
<1>3. PICK x \in Nodes : x = Technique(t)
    BY NodesApart
<1>4. PICK y \in Nodes \X Nodes : y = <<Event(SeedOf(o)), Technique(t)>>
    BY <1>2, NodesApart
<1>5. PICK nodes \in SUBSET Nodes, edges \in SUBSET (Nodes \X Nodes) : nodes = o.nodes \cup {x} /\ edges = o.edges \cup {y}
  <2>1. o.nodes \subseteq Nodes /\ o.edges \subseteq Nodes \X Nodes
      BY DEF Drawing
  <2>2. o.nodes \cup {x} \in SUBSET Nodes /\ o.edges \cup {y} \in SUBSET (Nodes \X Nodes)
      BY <2>1
  <2> QED
      BY <2>2
<1>6. PICK rows \in SUBSET Techniques, techniques \in SUBSET Techniques : rows = o.rows \ {t} /\ techniques = o.techniques \cup {t}
  <2>1. o.rows \subseteq Techniques /\ o.techniques \subseteq Techniques
      BY DEF Drawing
  <2>2. o.rows \ {t} \in SUBSET Techniques /\ o.techniques \cup {t} \in SUBSET Techniques
      BY <2>1
  <2> QED
      BY <2>2
<1> DEFINE n == [o EXCEPT !.rows = rows, !.techniques = techniques, !.nodes = nodes, !.edges = edges]
<1>7. /\ n \in Drawing /\ n.at = o.at /\ Like(n, o) /\ n.seed = o.seed /\ n.seeds = o.seeds /\ n.truncated = o.truncated
      /\ n.rows = rows /\ n.techniques = techniques /\ n.nodes = nodes /\ n.edges = edges /\ n.cross = o.cross
    BY DEF Drawing, Like
<1>8. Draws(Capped(drawing, n))
  <2>1. n = [drawing EXCEPT !.rows = @ \ {t}, !.techniques = @ \cup {t}, !.nodes = @ \cup {Technique(t)},
                            !.edges = @ \cup {<<Event(Seed), Technique(t)>>}]
      BY <1>1, <1>2, <1>3, <1>4, <1>5, <1>6
  <2> HIDE DEF n
  <2> QED
      BY <2>1 DEF DrawTechnique
<1> HIDE DEF n
<1>9. Within(n, o) /\ AtSeed(n) /\ n.at = "technique"
    BY <1>1, <1>2, <1>5, <1>7 DEF Within, AtSeed
<1>10. SeedOf(n) = SeedOf(o) /\ \A e : Viewed(n, e) <=> Viewed(o, e)
    BY <1>9, WithinIs
<1>11. Sound(n)
  <2>1. \A edge \in n.edges : edge[1] \in n.nodes /\ edge[2] \in n.nodes
    <3>1. y[1] = Event(SeedOf(o)) /\ y[2] = x
        BY <1>3, <1>4
    <3> QED
        BY <1>2, <1>5, <1>7, <3>1 DEF Sound
  <2>2. \A e \in GraphEvents : Event(e) \in n.nodes => Viewed(n, e)
    <3>1. \A e \in GraphEvents : Event(e) # x
        BY <1>3, NodesApart
    <3> QED
        BY <1>2, <1>5, <1>7, <1>10, <3>1 DEF Sound
  <2>3. \A e \in n.seeds : Viewed(n, e)
      BY <1>2, <1>7, <1>10 DEF Sound
  <2>4. \A u \in n.techniques : Technique(u) \in n.nodes
      BY <1>2, <1>3, <1>5, <1>6, <1>7 DEF Sound
  <2>5. n.cross \subseteq GraphEvents \X n.techniques
    <3>1. o.cross \subseteq GraphEvents \X o.techniques /\ o.techniques \subseteq n.techniques
        BY <1>2, <1>6, <1>7 DEF Sound
    <3> QED
        BY <1>7, <3>1
  <2> QED
      BY <1>2, <1>5, <1>7, <1>9, <1>10, <2>1, <2>2, <2>3, <2>4, <2>5 DEF Sound
<1>12. /\ IsFiniteSet(n.nodes) /\ IsFiniteSet(n.edges)
       /\ Cardinality(n.nodes) <= NodeCap /\ Cardinality(n.edges) <= EdgeCap + 3
  <2>1. IsFiniteSet(o.nodes) /\ IsFiniteSet(o.edges) /\ Cardinality(o.nodes) < NodeCap /\ Cardinality(o.edges) <= EdgeCap + 2
      BY <1>1, <1>2, SmallIs
  <2>2. PICK N, E : N = o.nodes /\ E = o.edges
      OBVIOUS
  <2>3. /\ IsFiniteSet(N \cup {x}) /\ IsFiniteSet(E \cup {y})
        /\ Cardinality(N \cup {x}) <= NodeCap /\ Cardinality(E \cup {y}) <= EdgeCap + 3
    <3>1. IsFiniteSet(N) /\ IsFiniteSet(E) /\ Cardinality(N) < NodeCap /\ Cardinality(E) <= EdgeCap + 2
        BY <2>1, <2>2
    <3> QED
        BY <3>1, OneMoreOf
  <2>4. n.nodes = N \cup {x} /\ n.edges = E \cup {y}
      BY <1>5, <1>7, <2>2
  <2> QED
      BY <2>3, <2>4
<1>13. ToCome(n)
  <2>1. \A u \in Techniques : Tagged(o, SeedOf(o), u) => u \in o.rows \cup o.techniques
      BY <1>1, <1>2 DEF ToCome
  <2>2. \A u \in Techniques : Tagged(n, SeedOf(n), u) => u \in n.rows \cup n.techniques
      BY <1>6, <1>7, <1>9, <1>10, <2>1, WithinIs
  <2> QED
      BY <1>9, <2>2 DEF ToCome
<1>14. Reached(n)
    BY <1>2, <1>9, ReachedStays
<1>15. (n.depth = 0 => n.project # "none") /\ (SeedOf(n) \in GraphEvents /\ Event(SeedOf(n)) \in n.nodes)
  <2>1. n.depth = 0 => n.project # "none"
      BY <1>9, <1>14 DEF Reached
  <2>2. SeedOf(n) \in GraphEvents /\ Event(SeedOf(n)) \in n.nodes
      BY <1>2, <1>5, <1>7, <1>10
  <2> QED
      BY <2>1, <2>2
<1> QED
    BY <1>1, <1>2, <1>7, <1>8, <1>9, <1>11, <1>12, <1>13, <1>14, <1>15, CappedDraws

LEMMA DrawOtherStep == ASSUME GraphInv, NEW tag \in GraphEvents \X Techniques, DrawOther(tag) PROVE GraphInv'
<1>1. PICK o \in Drawing : o = drawing /\ o.at = "other" /\ tag \in o.cross
    BY GraphWork DEF DrawOther, AtSeed
<1>2. /\ AtSeed(o) /\ AtSeed(drawing) /\ Sound(o) /\ Small(o) /\ Reached(o) /\ ~o.truncated /\ ToCome(o)
      /\ SeedOf(o) \in GraphEvents /\ Event(SeedOf(o)) \in o.nodes
    BY <1>1, GraphWork DEF AtSeed
<1>3. PICK f \in GraphEvents, t \in Techniques : f = tag[1] /\ t = tag[2] /\ Viewed(o, f) /\ t \in o.techniques
  <2>1. tag[1] \in GraphEvents /\ tag[2] \in Techniques /\ Viewed(o, tag[1])
      BY <1>1, <1>2 DEF Sound
  <2>2. tag[2] \in o.techniques
      BY <1>1, <1>2 DEF Sound
  <2> QED
      BY <2>1, <2>2
<1>4. PICK x \in Nodes, y \in Nodes \X Nodes : x = Event(f) /\ y = <<Event(f), Technique(t)>>
  <2>1. Event(f) \in Nodes /\ <<Event(f), Technique(t)>> \in Nodes \X Nodes
      BY NodesApart
  <2> QED
      BY <2>1
<1>5. PICK nodes \in SUBSET Nodes, edges \in SUBSET (Nodes \X Nodes) : nodes = o.nodes \cup {x} /\ edges = o.edges \cup {y}
  <2>1. o.nodes \subseteq Nodes /\ o.edges \subseteq Nodes \X Nodes
      BY DEF Drawing
  <2>2. o.nodes \cup {x} \in SUBSET Nodes /\ o.edges \cup {y} \in SUBSET (Nodes \X Nodes)
      BY <2>1
  <2> QED
      BY <2>2
<1>6. PICK cross \in SUBSET (GraphEvents \X Techniques) : cross = o.cross \ {tag}
  <2>1. o.cross \ {tag} \in SUBSET (GraphEvents \X Techniques)
      BY DEF Drawing
  <2> QED
      BY <2>1
<1> DEFINE n == [o EXCEPT !.cross = cross, !.nodes = nodes, !.edges = edges]
<1>7. /\ n \in Drawing /\ n.at = o.at /\ Like(n, o) /\ n.seed = o.seed /\ n.seeds = o.seeds /\ n.truncated = o.truncated
      /\ n.techniques = o.techniques /\ n.nodes = nodes /\ n.edges = edges /\ n.cross = cross
    BY DEF Drawing, Like
<1>8. Draws(Capped(drawing, n))
  <2>1. n = [drawing EXCEPT !.cross = @ \ {tag}, !.nodes = @ \cup {Event(tag[1])},
                            !.edges = @ \cup {<<Event(tag[1]), Technique(tag[2])>>}]
      BY <1>1, <1>3, <1>4, <1>5, <1>6
  <2> HIDE DEF n
  <2> QED
      BY <2>1 DEF DrawOther
<1> HIDE DEF n
<1>9. Within(n, o) /\ AtSeed(n) /\ n.at = "other"
    BY <1>1, <1>2, <1>5, <1>7 DEF Within, AtSeed
<1>10. SeedOf(n) = SeedOf(o) /\ (\A e : Viewed(n, e) <=> Viewed(o, e)) /\ n.depth = o.depth /\ n.steady = o.steady /\ n.steadyTags = o.steadyTags
    BY <1>9, WithinIs DEF Within, Like
<1>11. Sound(n)
  <2>1. \A edge \in n.edges : edge[1] \in n.nodes /\ edge[2] \in n.nodes
    <3>1. y[1] = x /\ y[2] = Technique(t) /\ Technique(t) \in o.nodes
        BY <1>2, <1>3, <1>4 DEF Sound
    <3> QED
        BY <1>2, <1>5, <1>7, <3>1 DEF Sound
  <2>2. \A e \in GraphEvents : Event(e) \in n.nodes => Viewed(n, e)
    <3>1. \A e \in GraphEvents : Event(e) = x => e = f
        BY <1>4, NodesApart
    <3> QED
        BY <1>2, <1>3, <1>5, <1>7, <1>10, <3>1 DEF Sound
  <2>3. \A e \in n.seeds : Viewed(n, e)
      BY <1>2, <1>7, <1>10 DEF Sound
  <2>4. \A u \in n.techniques : Technique(u) \in n.nodes
      BY <1>2, <1>5, <1>7 DEF Sound
  <2>5. n.cross \subseteq GraphEvents \X n.techniques
      BY <1>2, <1>6, <1>7 DEF Sound
  <2>6. \A other \in n.cross : Viewed(n, other[1])
      BY <1>1, <1>2, <1>6, <1>7, <1>10 DEF Sound
  <2> QED
      BY <1>2, <1>5, <1>7, <1>9, <1>10, <2>1, <2>2, <2>3, <2>4, <2>5, <2>6 DEF Sound
<1>12. /\ IsFiniteSet(n.nodes) /\ IsFiniteSet(n.edges)
       /\ Cardinality(n.nodes) <= NodeCap /\ Cardinality(n.edges) <= EdgeCap + 3
  <2>1. IsFiniteSet(o.nodes) /\ IsFiniteSet(o.edges) /\ Cardinality(o.nodes) < NodeCap /\ Cardinality(o.edges) <= EdgeCap + 2
      BY <1>1, <1>2, SmallIs
  <2>2. PICK N, E : N = o.nodes /\ E = o.edges
      OBVIOUS
  <2>3. /\ IsFiniteSet(N \cup {x}) /\ IsFiniteSet(E \cup {y})
        /\ Cardinality(N \cup {x}) <= NodeCap /\ Cardinality(E \cup {y}) <= EdgeCap + 3
    <3>1. IsFiniteSet(N) /\ IsFiniteSet(E) /\ Cardinality(N) < NodeCap /\ Cardinality(E) <= EdgeCap + 2
        BY <2>1, <2>2
    <3> QED
        BY <3>1, OneMoreOf
  <2>4. n.nodes = N \cup {x} /\ n.edges = E \cup {y}
      BY <1>5, <1>7, <2>2
  <2> QED
      BY <2>3, <2>4
<1>13. o.depth = 3 /\ HasObjects(o, SeedOf(o)) /\ (\A u \in Techniques : Tagged(o, SeedOf(o), u) => u \in o.techniques)
    BY <1>1, <1>2 DEF ToCome
<1>14. ToCome(n)
  <2>1. ASSUME NEW other \in n.steadyTags, other[2] \in n.techniques, other[1] # SeedOf(n), other[1] \in n.steady, Viewed(n, other[1])
        PROVE  other \in n.cross \/ Event(other[1]) \in n.nodes
    <3>1. other \in o.cross \/ Event(other[1]) \in o.nodes
        BY <1>1, <1>2, <1>7, <1>10, <2>1 DEF ToCome
    <3>2. other = tag => Event(other[1]) \in n.nodes
        BY <1>3, <1>4, <1>5, <1>7
    <3> QED
        BY <1>5, <1>6, <1>7, <3>1, <3>2
  <2>2. HasObjects(n, SeedOf(n)) /\ (\A u \in Techniques : Tagged(n, SeedOf(n), u) => u \in n.techniques)
      BY <1>7, <1>9, <1>10, <1>13, WithinIs
  <2> QED
      BY <1>9, <1>10, <1>13, <2>1, <2>2 DEF ToCome
<1>15. Reached(n)
    BY <1>2, <1>9, <1>13, ReachedStays
<1>16. n.depth # 0 /\ SeedOf(n) \in GraphEvents /\ Event(SeedOf(n)) \in n.nodes
    BY <1>2, <1>5, <1>7, <1>10, <1>13
<1> QED
    BY <1>1, <1>2, <1>7, <1>8, <1>9, <1>11, <1>12, <1>14, <1>15, <1>16, CappedDraws

-----------------------------------------------------------------------------
(* A relationship: its ends and then its edges *)

\* A drawing behind none, one or both of the ends of the relationship at the head.
Halfway(d, o) ==
    /\ d \in Drawing /\ Like(d, o) /\ d.seed = o.seed /\ d.at # "idle"
    /\ IF d.truncated THEN d.at = "done" /\ DrawingInv(d)
       ELSE /\ Within(d, o) /\ d.at = "objects" /\ d.objects = Tail(o.objects)
            /\ d.techniques = o.techniques /\ d.cross = o.cross /\ d.edges = o.edges
            /\ Sound(d) /\ IsFiniteSet(d.nodes) /\ Cardinality(d.nodes) < NodeCap

\* Whoever draws another node was below the cap of edges.
Drawn(d, ref) == ref \in Displayable /\ ~d.truncated => Stix(ref) \in d.nodes /\ Cardinality(d.edges) < EdgeCap

LEMMA WithNodeIs ==
    ASSUME NEW o \in Drawing, Small(o), o.at = "objects", ~o.truncated, Reached(o), Sound(o), NEW d, Halfway(d, o), NEW ref \in StixRefs
    PROVE  Halfway(WithNode(d, ref), o) /\ Drawn(WithNode(d, ref), ref)
<1>1. CASE d.truncated \/ ref \notin Displayable
    BY <1>1 DEF WithNode, Drawn
<1>2. CASE ~d.truncated /\ ref \in Displayable
  <2>1. /\ d \in Drawing /\ Within(d, o) /\ d.at = "objects" /\ d.objects = Tail(o.objects) /\ Like(d, o)
        /\ d.techniques = o.techniques /\ d.cross = o.cross /\ d.edges = o.edges /\ d.truncated = o.truncated
        /\ Sound(d) /\ IsFiniteSet(d.nodes) /\ Cardinality(d.nodes) < NodeCap
      BY <1>2 DEF Halfway, Within
  <2>2. PICK x \in Nodes : x = Stix(ref)
      BY <1>2, NodesApart
  <2>3. PICK nodes \in SUBSET Nodes : nodes = d.nodes \cup {x}
    <3>1. d.nodes \cup {x} \in SUBSET Nodes
        BY <2>1 DEF Drawing
    <3> QED
        BY <3>1
  <2> DEFINE n == [d EXCEPT !.nodes = nodes]
  <2>4. /\ n \in Drawing /\ n.at = d.at /\ Like(n, d) /\ n.seed = d.seed /\ n.seeds = d.seeds /\ n.truncated = d.truncated
        /\ n.objects = d.objects /\ n.techniques = d.techniques /\ n.cross = d.cross /\ n.nodes = nodes /\ n.edges = d.edges
      BY <2>1 DEF Drawing, Like
  <2>5. WithNode(d, ref) = Capped(d, n)
    <3>1. n = [d EXCEPT !.nodes = @ \cup {Stix(ref)}]
        BY <2>2, <2>3
    <3> HIDE DEF n
    <3> QED
        BY <1>2, <3>1 DEF WithNode
  <2> HIDE DEF n
  <2>6. Within(n, d) /\ Within(n, o) /\ Like(n, o) /\ n.seed = o.seed
      BY <2>1, <2>3, <2>4 DEF Within, Like
  <2>7. SeedOf(n) = SeedOf(d) /\ (\A e : Viewed(n, e) <=> Viewed(d, e)) /\ AtSeed(n) /\ AtSeed(d)
      BY <2>1, <2>4, <2>6, WithinIs DEF AtSeed
  <2>8. Sound(n)
    <3>1. \A edge \in n.edges : edge[1] \in n.nodes /\ edge[2] \in n.nodes
        BY <2>1, <2>3, <2>4 DEF Sound
    <3>2. \A e \in GraphEvents : Event(e) \in n.nodes => Viewed(n, e)
      <4>1. \A e \in GraphEvents : Event(e) # x
          BY <1>2, <2>2, NodesApart
      <4> QED
          BY <2>1, <2>3, <2>4, <2>7, <4>1 DEF Sound
    <3>3. (\A e \in n.seeds : Viewed(n, e)) /\ n.cross \subseteq GraphEvents \X n.techniques /\ n.at # "other"
        BY <2>1, <2>4, <2>7 DEF Sound
    <3>4. (\A t \in n.techniques : Technique(t) \in n.nodes) /\ SeedOf(n) \in GraphEvents /\ Event(SeedOf(n)) \in n.nodes
        BY <2>1, <2>3, <2>4, <2>7 DEF Sound
    <3> QED
        BY <3>1, <3>2, <3>3, <3>4 DEF Sound
  <2>9. IsFiniteSet(n.nodes) /\ Cardinality(n.nodes) <= NodeCap
    <3>1. PICK N : N = d.nodes /\ IsFiniteSet(N) /\ Cardinality(N) < NodeCap
        BY <2>1
    <3>2. IsFiniteSet(N \cup {x}) /\ Cardinality(N) \in Nat /\ Cardinality(N \cup {x}) \in Nat /\ Cardinality(N \cup {x}) <= Cardinality(N) + 1
        BY <3>1, AddOne
    <3>3. n.nodes = N \cup {x} /\ NodeCap \in Nat
        BY <2>3, <2>4, <3>1, AttackGraphAssumption
    <3> QED
        BY <3>1, <3>2, <3>3
  <2>10. IsFiniteSet(n.edges) /\ Cardinality(n.edges) \in Nat /\ Cardinality(n.edges) <= EdgeCap + 3
    <3>1. IsFiniteSet(o.edges) /\ Cardinality(o.edges) <= EdgeCap + 2
        BY SmallIs
    <3>2. Cardinality(o.edges) \in Nat /\ EdgeCap \in Nat
        BY <3>1, FS_CardinalityType, AttackGraphAssumption
    <3> QED
        BY <2>1, <2>4, <3>1, <3>2
  <2>11. CASE AtCap(n)
    <3>1. PICK c \in Drawing : c = Capped(d, n) /\ c.at = "done" /\ c.truncated = TRUE /\ Like(c, n) /\ c.seed = n.seed
      <4>1. n \in Drawing
          BY <2>4
      <4>2. Cut(Capped(d, n), n)
          BY <2>11, <4>1, CutIs
      <4>3. PICK c : c = Capped(d, n)
          OBVIOUS
      <4>4. Cut(c, n)
          BY <4>2, <4>3
      <4> QED
          BY <4>3, <4>4 DEF Cut
    <3>2. /\ n.depth = 0 => n.project # "none"
          /\ SeedOf(n) \in GraphEvents /\ Event(SeedOf(n)) \in n.nodes
        BY <2>1, <2>4, <2>6, <2>7, <2>8 DEF Reached, Sound, Like
    <3>3. DrawingInv(Capped(d, n))
        BY <2>1, <2>4, <2>8, <2>9, <2>10, <2>11, <3>2, CappedStep
    <3>4. Halfway(c, o) /\ Drawn(c, ref)
        BY <2>6, <3>1, <3>3 DEF Halfway, Drawn, Like
    <3> QED
        BY <2>5, <3>1, <3>4
  <2>12. CASE ~AtCap(n)
    <3>1. Capped(d, n) = n
        BY <2>4, <2>12, CappedIs
    <3>2. Cardinality(n.nodes) \in Nat /\ NodeCap \in Nat /\ EdgeCap \in Nat
        BY <2>9, FS_CardinalityType, AttackGraphAssumption
    <3>3. Cardinality(n.nodes) < NodeCap /\ Cardinality(n.edges) < EdgeCap
        BY <2>10, <2>12, <3>2 DEF AtCap
    <3>4. Stix(ref) \in n.nodes
        BY <2>2, <2>3, <2>4
    <3>5. ~n.truncated
        BY <1>2, <2>4
    <3>6. Halfway(n, o)
        BY <2>1, <2>4, <2>6, <2>8, <2>9, <3>3, <3>5 DEF Halfway
    <3> QED
        BY <2>5, <3>1, <3>3, <3>4, <3>6 DEF Drawn
  <2> QED
      BY <2>11, <2>12
<1> QED
    BY <1>1, <1>2

\* A node is added to what is there.
LEMMA GrowsWith ==
    ASSUME NEW d \in Drawing, NEW ref, ~WithNode(d, ref).truncated
    PROVE  ~d.truncated /\ d.nodes \subseteq WithNode(d, ref).nodes
<1>1. CASE d.truncated \/ ref \notin Displayable
    BY <1>1 DEF WithNode
<1>2. CASE ~d.truncated /\ ref \in Displayable
  <2> DEFINE n == [d EXCEPT !.nodes = @ \cup {Stix(ref)}]
  <2>1. d.nodes \subseteq n.nodes
      BY DEF Drawing
  <2>2. WithNode(d, ref) = Capped(d, n)
      BY <1>2 DEF WithNode
  <2>3. d.nodes \subseteq Capped(d, n).nodes
    <3>1. n = [d EXCEPT !.nodes = d.nodes \cup {Stix(ref)}]
        OBVIOUS
    <3>2. DOMAIN n = DOMAIN d
        OBVIOUS
    <3> QED
        BY <2>1 DEF Capped, Drawing
  <2> QED
      BY <1>2, <2>2, <2>3
<1> QED
    BY <1>1, <1>2

\* The edges of a relationship: at most three, and none unless one of its ends is drawn.
LEMMA TiesAre ==
    ASSUME NEW rel \in StixRefs \X StixRefs, NEW E, IsFiniteSet(E), Cardinality(E) <= EdgeCap + 2,
           rel[1] \in Displayable \/ rel[2] \in Displayable => Cardinality(E) < EdgeCap
    PROVE  IsFiniteSet(E \cup Ties(rel)) /\ Cardinality(E \cup Ties(rel)) <= EdgeCap + 2
<1>1. Cardinality(E) \in Nat /\ EdgeCap \in Nat
    BY FS_CardinalityType, AttackGraphAssumption
<1>2. CASE rel[1] \notin Displayable /\ rel[2] \notin Displayable
  <2>1. Ties(rel) = {}
      BY <1>2 DEF Ties, Ends
  <2>2. E \cup Ties(rel) = E
      BY <2>1
  <2> QED
      BY <2>2
<1>3. CASE rel[1] \in Displayable \/ rel[2] \in Displayable
  <2>1. PICK a, b, c : a = <<Stix(rel[1]), Stix(rel[2])>> /\ b = <<Stix(rel[1]), Event(Seed)>> /\ c = <<Event(Seed), Stix(rel[2])>>
      OBVIOUS
  <2>2. PICK A : A = E \cup {a} /\ IsFiniteSet(A) /\ Cardinality(A) \in Nat /\ Cardinality(A) <= Cardinality(E) + 1
      BY AddOne
  <2>3. PICK B : B = A \cup {b} /\ IsFiniteSet(B) /\ Cardinality(B) \in Nat /\ Cardinality(B) <= Cardinality(A) + 1
      BY <2>2, AddOne
  <2>4. PICK C : C = B \cup {c} /\ IsFiniteSet(C) /\ Cardinality(C) \in Nat /\ Cardinality(C) <= Cardinality(B) + 1
      BY <2>3, AddOne
  <2>5. Ties(rel) \subseteq {a, b, c}
      BY <2>1 DEF Ties
  <2>6. PICK T : T = E \cup Ties(rel)
      OBVIOUS
  <2>7. T \subseteq C
      BY <2>2, <2>3, <2>4, <2>5, <2>6
  <2>8. IsFiniteSet(T) /\ Cardinality(T) <= Cardinality(C) /\ Cardinality(T) \in Nat
      BY <2>4, <2>7, FS_Subset, FS_CardinalityType
  <2>9. Cardinality(T) <= EdgeCap + 2
      BY <1>1, <1>3, <2>2, <2>3, <2>4, <2>8
  <2> QED
      BY <2>6, <2>8, <2>9
<1> QED
    BY <1>2, <1>3

LEMMA DrawRelationshipStep == ASSUME GraphInv, DrawRelationship PROVE GraphInv'
<1>1. PICK o \in Drawing : o = drawing /\ o.at = "objects" /\ o.objects # <<>>
    BY GraphWork DEF DrawRelationship, AtSeed
<1>2. /\ AtSeed(o) /\ AtSeed(drawing) /\ Sound(o) /\ Small(o) /\ Reached(o) /\ ~o.truncated /\ ToCome(o) /\ Seed = SeedOf(o)
      /\ SeedOf(o) \in GraphEvents /\ Event(SeedOf(o)) \in o.nodes
    BY <1>1, GraphWork DEF AtSeed
<1>3. PICK s \in Seq(StixRefs \X StixRefs) : s = o.objects /\ s # <<>>
    BY <1>1 DEF Drawing
<1>4. PICK rel \in StixRefs \X StixRefs, rest \in Seq(StixRefs \X StixRefs) : rel = Head(s) /\ rest = Tail(s)
  <2>1. PICK R : R = StixRefs \X StixRefs
      OBVIOUS
  <2>2. s \in Seq(R) /\ s # <<>>
      BY <1>3, <2>1
  <2>3. Head(s) \in R /\ Tail(s) \in Seq(R)
      BY <2>2
  <2> QED
      BY <2>1, <2>3
<1>5. rel[1] \in StixRefs /\ rel[2] \in StixRefs
    BY <1>4
<1> DEFINE d0 == [o EXCEPT !.objects = rest]
<1>6. /\ d0 \in Drawing /\ Within(d0, o) /\ d0.at = o.at /\ d0.objects = rest
      /\ d0.techniques = o.techniques /\ d0.cross = o.cross /\ d0.nodes = o.nodes /\ d0.edges = o.edges
    BY DEF Drawing, Within, Like
<1>7. d0 = [drawing EXCEPT !.objects = Tail(@)]
    BY <1>1, <1>3, <1>4
<1> HIDE DEF d0
<1>8. Halfway(d0, o)
  <2>1. AtSeed(d0) /\ ~d0.truncated /\ d0.cross \subseteq GraphEvents \X d0.techniques /\ d0.at # "other"
      BY <1>1, <1>2, <1>6 DEF AtSeed, Within, Sound
  <2>2. Sound(d0)
      BY <1>2, <1>6, <2>1, SoundStays
  <2>3. IsFiniteSet(d0.nodes) /\ Cardinality(d0.nodes) < NodeCap
      BY <1>1, <1>2, <1>6, SmallIs
  <2> QED
      BY <1>1, <1>3, <1>4, <1>6, <2>1, <2>2, <2>3 DEF Halfway, Within
<1>9. PICK d1 : d1 = WithNode(d0, rel[1]) /\ Halfway(d1, o) /\ Drawn(d1, rel[1])
    BY <1>1, <1>2, <1>5, <1>8, WithNodeIs
<1>10. PICK d2 : d2 = WithNode(d1, rel[2]) /\ Halfway(d2, o) /\ Drawn(d2, rel[2])
    BY <1>1, <1>2, <1>5, <1>9, WithNodeIs
<1>11. Draws(IF d2.truncated THEN d2 ELSE [d2 EXCEPT !.edges = @ \cup Ties(rel)])
    BY <1>1, <1>3, <1>4, <1>7, <1>9, <1>10 DEF DrawRelationship
<1>12. CASE d2.truncated
  <2>1. DrawingInv(d2) /\ Draws(d2) /\ d2.at = "done" /\ Like(d2, drawing)
      BY <1>1, <1>10, <1>11, <1>12 DEF Halfway
  <2> QED
      BY <1>1, <2>1, DrawsStep
<1>13. CASE ~d2.truncated
  <2>1. /\ d2 \in Drawing /\ Within(d2, o) /\ d2.at = "objects" /\ d2.objects = rest
        /\ d2.techniques = o.techniques /\ d2.cross = o.cross /\ d2.edges = o.edges
        /\ Sound(d2) /\ IsFiniteSet(d2.nodes) /\ Cardinality(d2.nodes) < NodeCap
      BY <1>3, <1>4, <1>10, <1>13 DEF Halfway
  <2>2. /\ rel[1] \in Displayable => Stix(rel[1]) \in d2.nodes /\ Cardinality(o.edges) < EdgeCap
        /\ rel[2] \in Displayable => Stix(rel[2]) \in d2.nodes /\ Cardinality(o.edges) < EdgeCap
    <3>1. rel[2] \in Displayable => Stix(rel[2]) \in d2.nodes /\ Cardinality(o.edges) < EdgeCap
        BY <1>10, <1>13, <2>1 DEF Drawn
    <3>2. ~d1.truncated /\ d1.nodes \subseteq d2.nodes
        BY <1>9, <1>10, <1>13, GrowsWith DEF Halfway
    <3>3. rel[1] \in Displayable => Stix(rel[1]) \in d2.nodes /\ Cardinality(o.edges) < EdgeCap
        BY <1>9, <3>2 DEF Drawn, Halfway
    <3> QED
        BY <3>1, <3>3
  <2>0. Ties(rel) \subseteq d2.nodes \X d2.nodes
    <3>1. Event(Seed) \in d2.nodes
        BY <1>2, <2>1 DEF Within
    <3>2. Ends(rel) = {rel[1], rel[2]} => rel[1] \in Displayable /\ rel[2] \in Displayable
        BY DEF Ends
    <3> QED
        BY <2>2, <3>1, <3>2 DEF Ties
  <2>3. PICK edges \in SUBSET (Nodes \X Nodes) : edges = d2.edges \cup Ties(rel)
    <3>1. Ties(rel) \subseteq d2.nodes \X d2.nodes
        BY <2>0
    <3>2. d2.nodes \subseteq Nodes /\ d2.edges \subseteq Nodes \X Nodes
        BY <2>1 DEF Drawing
    <3>3. d2.edges \cup Ties(rel) \in SUBSET (Nodes \X Nodes)
        BY <3>1, <3>2
    <3> QED
        BY <3>3
  <2> DEFINE n == [d2 EXCEPT !.edges = edges]
  <2>4. /\ n \in Drawing /\ n.at = d2.at /\ Like(n, d2) /\ n.seed = d2.seed /\ n.seeds = d2.seeds /\ n.truncated = d2.truncated
        /\ n.objects = d2.objects /\ n.techniques = d2.techniques /\ n.cross = d2.cross /\ n.nodes = d2.nodes /\ n.edges = edges
      BY <2>1 DEF Drawing, Like
  <2>5. Draws(n)
    <3>1. n = [d2 EXCEPT !.edges = @ \cup Ties(rel)]
        BY <2>3
    <3> HIDE DEF n
    <3> QED
        BY <1>11, <1>13, <3>1
  <2> HIDE DEF n
  <2>6. Within(n, o) /\ AtSeed(n) /\ n.at = "objects" /\ n.objects = rest
      BY <1>2, <2>1, <2>4 DEF Within, Like, AtSeed
  <2>7. SeedOf(n) = SeedOf(o) /\ SeedOf(d2) = SeedOf(o) /\ (\A e : Viewed(n, e) <=> Viewed(d2, e))
      BY <2>1, <2>4, <2>6, LikeKeeps, WithinIs
  <2>8. Sound(n)
    <3>1. \A edge \in n.edges : edge[1] \in n.nodes /\ edge[2] \in n.nodes
        BY <2>0, <2>1, <2>3, <2>4 DEF Sound
    <3>2. \A e \in GraphEvents : Event(e) \in n.nodes => Viewed(n, e)
        BY <2>1, <2>4, <2>7 DEF Sound
    <3>3. (\A e \in n.seeds : Viewed(n, e)) /\ n.cross \subseteq GraphEvents \X n.techniques /\ n.at # "other"
        BY <2>1, <2>4, <2>7 DEF Sound
    <3>4. (\A t \in n.techniques : Technique(t) \in n.nodes) /\ SeedOf(n) \in GraphEvents /\ Event(SeedOf(n)) \in n.nodes
        BY <1>2, <2>1, <2>4, <2>7 DEF Sound, Within
    <3> QED
        BY <3>1, <3>2, <3>3, <3>4 DEF Sound
  <2>9. Small(n)
    <3>1. PICK E : E = o.edges /\ IsFiniteSet(E) /\ Cardinality(E) <= EdgeCap + 2
        BY <1>1, <1>2, SmallIs
    <3>2. rel[1] \in Displayable \/ rel[2] \in Displayable => Cardinality(E) < EdgeCap
        BY <2>2, <3>1
    <3>3. IsFiniteSet(E \cup Ties(rel)) /\ Cardinality(E \cup Ties(rel)) <= EdgeCap + 2
        BY <3>1, <3>2, TiesAre
    <3>4. n.edges = E \cup Ties(rel) /\ n.nodes = d2.nodes
        BY <2>1, <2>3, <2>4, <3>1
    <3> QED
        BY <2>1, <2>6, <3>3, <3>4 DEF Small
  <2>10. ToCome(n)
    <3>1. o.depth # 1 /\ n.depth # 1 /\ n.techniques = o.techniques
        BY <1>1, <1>2, <2>1, <2>4, <2>6 DEF ToCome, Within, Like
    <3>2. \A t \in Techniques : Tagged(n, SeedOf(n), t) => t \in n.techniques
        BY <1>1, <1>2, <2>6, <2>7, <3>1, WithinIs DEF ToCome
    <3>3. ASSUME NEW i \in DOMAIN StixOf[SeedOf(n)]
          PROVE  \/ \E j \in DOMAIN n.objects : n.objects[j] = StixOf[SeedOf(n)][i]
                 \/ \A ref \in Ends(StixOf[SeedOf(n)][i]) : Stix(ref) \in n.nodes
      <4>1. PICK r : r = StixOf[SeedOf(n)][i]
          OBVIOUS
      <4>2. (\E j \in DOMAIN s : s[j] = r) \/ (\A ref \in Ends(r) : Stix(ref) \in o.nodes)
          BY <1>1, <1>2, <1>3, <2>7, <3>3, <4>1 DEF ToCome
      <4>3. CASE \A ref \in Ends(r) : Stix(ref) \in o.nodes
          BY <2>6, <4>1, <4>3 DEF Within
      <4>4. CASE \E j \in DOMAIN s : s[j] = r
        <5>1. PICK j \in DOMAIN s : s[j] = r
            BY <4>4
        <5>2. PICK R : R = StixRefs \X StixRefs
            OBVIOUS
        <5>3. s \in Seq(R) /\ s # <<>> /\ rel = Head(s) /\ rest = Tail(s)
            BY <1>3, <1>4, <5>2
        <5>4. j = 1 => r = rel
            BY <5>1, <5>3
        <5>5. j # 1 => j - 1 \in DOMAIN rest /\ rest[j - 1] = r
            BY <5>1, <5>3
        <5>6. r = rel => \A ref \in Ends(r) : Stix(ref) \in n.nodes
            BY <2>2, <2>4 DEF Ends
        <5> QED
            BY <2>6, <4>1, <5>4, <5>5, <5>6
      <4> QED
          BY <4>2, <4>3, <4>4
    <3> QED
        BY <2>6, <3>1, <3>2, <3>3 DEF ToCome
  <2>11. Reached(n)
      BY <1>2, <2>6, ReachedStays
  <2>12. DrawingInv(n) /\ Like(n, drawing) /\ ~n.truncated
      BY <1>1, <1>13, <2>4, <2>6, <2>8, <2>9, <2>10, <2>11 DEF DrawingInv, Within
  <2> QED
      BY <1>1, <2>5, <2>6, <2>12, DrawsStep
<1> QED
    BY <1>12, <1>13

-----------------------------------------------------------------------------
(* What happens meanwhile *)

\* What comes and goes takes from what was there throughout, and from nothing that is drawn.
LEMMA ChangesGraphStep ==
    ASSUME GraphInv, NEW events \in SUBSET GraphEvents, NEW tagged \in SUBSET (GraphEvents \X Techniques), ChangesGraph(events, tagged)
    PROVE  GraphInv'
<1>1. PICK o \in Drawing : o = drawing /\ DrawingInv(o) /\ Steady(o, present, tags)
    BY DEF GraphInv, DrawingInv
<1>2. PICK steady \in SUBSET GraphEvents, steadyTags \in SUBSET (GraphEvents \X Techniques) :
          steady = o.steady \cap events /\ steadyTags = o.steadyTags \cap tagged
  <2>1. o.steady \cap events \in SUBSET GraphEvents /\ o.steadyTags \cap tagged \in SUBSET (GraphEvents \X Techniques)
      OBVIOUS
  <2> QED
      BY <2>1
<1> DEFINE n == [o EXCEPT !.steady = steady, !.steadyTags = steadyTags]
<1>3. /\ n \in Drawing /\ n.steady = steady /\ n.steadyTags = steadyTags /\ n.at = o.at /\ n.depth = o.depth /\ n.project = o.project
      /\ n.seed = o.seed /\ n.seeds = o.seeds /\ n.techniques = o.techniques /\ n.rows = o.rows /\ n.objects = o.objects
      /\ n.cross = o.cross /\ n.nodes = o.nodes /\ n.edges = o.edges /\ n.truncated = o.truncated
    BY DEF Drawing
<1>4. present' = events /\ tags' = tagged /\ drawing' = n
    BY <1>1, <1>2 DEF ChangesGraph
<1> HIDE DEF n
<1>5. n.steady \subseteq o.steady /\ n.steadyTags \subseteq o.steadyTags /\ n.steady \subseteq events /\ n.steadyTags \subseteq tagged
    BY <1>2, <1>3
<1>6. /\ SeedOf(n) = SeedOf(o) /\ (AtSeed(n) <=> AtSeed(o))
      /\ \A e : Viewed(n, e) <=> Viewed(o, e)
      /\ \A e, t : Tagged(n, e, t) => Tagged(o, e, t)
    BY <1>3, <1>5 DEF SeedOf, AtSeed, Viewed, Tagged
<1>7. /\ \A e : HasTechniques(o, e) => HasTechniques(n, e)
      /\ \A e : HasObjects(o, e) => HasObjects(n, e)
      /\ \A e, f : HasOther(o, f, e) => HasOther(n, f, e)
  <2>1. \A e : HasTechniques(o, e) => HasTechniques(n, e)
      BY <1>3, <1>6 DEF HasTechniques
  <2>2. \A e : HasObjects(o, e) => HasObjects(n, e)
      BY <1>3 DEF HasObjects
  <2>3. \A e, f : HasOther(o, f, e) => HasOther(n, f, e)
      BY <1>3, <1>6 DEF HasOther
  <2> QED
      BY <2>1, <2>2, <2>3
<1>8. \A e : HasAll(o, e) => HasAll(n, e)
    BY <1>3, <1>7 DEF HasAll
<1>9. Sound(n)
    BY <1>1, <1>3, <1>6 DEF DrawingInv, Sound
<1>10. Small(n)
    BY <1>1, <1>3 DEF DrawingInv, Small
<1>11. ToCome(n)
  <2>1. ToCome(o)
      BY <1>1 DEF DrawingInv
  <2>2. n.at = "technique" => \A t \in Techniques : Tagged(n, SeedOf(n), t) => t \in n.rows \cup n.techniques
      BY <1>3, <1>6, <2>1 DEF ToCome
  <2>3. n.at \in {"objects", "cross", "load", "other"} => \A t \in Techniques : Tagged(n, SeedOf(n), t) => t \in n.techniques
      BY <1>3, <1>6, <2>1 DEF ToCome
  <2>4. n.at = "objects" =>
          /\ n.depth # 1
          /\ \A i \in DOMAIN StixOf[SeedOf(n)] :
                \/ \E j \in DOMAIN n.objects : n.objects[j] = StixOf[SeedOf(n)][i]
                \/ \A ref \in Ends(StixOf[SeedOf(n)][i]) : Stix(ref) \in n.nodes
      BY <1>3, <1>6, <2>1 DEF ToCome
  <2>5. n.at \in {"cross", "load", "other"} => n.depth = 3 /\ HasObjects(n, SeedOf(n))
      BY <1>3, <1>6, <1>7, <2>1 DEF ToCome
  <2>6. n.at = "load" => \A tag \in n.steadyTags : tag[2] \in n.techniques /\ tag[1] # SeedOf(n) => tag \in n.cross
      BY <1>3, <1>5, <1>6, <2>1 DEF ToCome
  <2>7. n.at = "other" =>
          \A tag \in n.steadyTags : tag[2] \in n.techniques /\ tag[1] # SeedOf(n) /\ tag[1] \in n.steady /\ Viewed(n, tag[1]) =>
              tag \in n.cross \/ Event(tag[1]) \in n.nodes
      BY <1>3, <1>5, <1>6, <2>1 DEF ToCome
  <2> QED
      BY <2>2, <2>3, <2>4, <2>5, <2>6, <2>7 DEF ToCome
<1>12. Reached(n)
  <2>1. Reached(o)
      BY <1>1 DEF DrawingInv
  <2>2. CASE o.depth = 0
    <3>1. n.at # "idle" /\ ~n.truncated =>
              \A e \in n.steady : Viewed(n, e) => e \in n.seeds \/ (AtSeed(n) /\ e = SeedOf(n)) \/ HasAll(n, e)
        BY <1>3, <1>5, <1>6, <1>8, <2>1, <2>2 DEF Reached
    <3>2. /\ n.at # "idle" => n.project # "none"
          /\ n.at = "done" /\ ~n.truncated => n.seeds = {}
          /\ n.at \notin {"cross", "load", "other"}
        BY <1>3, <2>1, <2>2 DEF Reached
    <3> QED
        BY <1>3, <2>2, <3>1, <3>2 DEF Reached
  <2>3. CASE o.depth # 0
    <3>1. n.at \notin {"idle", "seeds"} /\ SeedOf(n) \in GraphEvents /\ Event(SeedOf(n)) \in n.nodes
        BY <1>3, <1>6, <2>1, <2>3 DEF Reached
    <3>2. ASSUME n.at = "done", ~n.truncated
          PROVE  /\ HasTechniques(n, SeedOf(n))
                 /\ n.depth > 1 => HasObjects(n, SeedOf(n))
                 /\ n.depth = 3 => \A f \in n.steady : f # SeedOf(n) /\ Viewed(n, f) => HasOther(n, f, SeedOf(n))
      <4>1. /\ HasTechniques(o, SeedOf(o))
            /\ o.depth > 1 => HasObjects(o, SeedOf(o))
            /\ o.depth = 3 => \A f \in o.steady : f # SeedOf(o) /\ Viewed(o, f) => HasOther(o, f, SeedOf(o))
          BY <1>3, <2>1, <2>3, <3>2 DEF Reached
      <4> QED
          BY <1>3, <1>5, <1>6, <1>7, <4>1
    <3> QED
        BY <1>3, <2>3, <3>1, <3>2 DEF Reached
  <2> QED
      BY <2>2, <2>3
<1>13. DrawingInv(n) /\ Steady(n, events, tagged)
    BY <1>1, <1>3, <1>5, <1>9, <1>10, <1>11, <1>12 DEF DrawingInv, Steady
<1>14. DrawingInv(drawing)' /\ Steady(drawing, present, tags)'
    BY <1>4, <1>13
<1> QED
    BY <1>4, <1>14 DEF GraphInv

LEMMA GraphStep == GraphInv /\ [AttackGraphNext]_attackGraphVars => GraphInv'
<1> SUFFICES ASSUME GraphInv, [AttackGraphNext]_attackGraphVars PROVE GraphInv'
    OBVIOUS
<1>1. CASE UNCHANGED attackGraphVars
  <2>1. present' = present /\ tags' = tags /\ drawing' = drawing
      BY <1>1 DEF attackGraphVars
  <2>2. DrawingInv(drawing)' /\ Steady(drawing, present, tags)'
      BY <2>1 DEF GraphInv
  <2> QED
      BY <2>1, <2>2 DEF GraphInv
<1>2. present \subseteq GraphEvents /\ tags \subseteq GraphEvents \X Techniques
    BY DEF GraphInv
<1>3. ASSUME NEW e \in GraphEvents, NEW t \in Techniques, TagEvent(e, t) PROVE GraphInv'
  <2>1. tags \cup {<<e, t>>} \in SUBSET (GraphEvents \X Techniques) /\ present \in SUBSET GraphEvents
      BY <1>2
  <2> QED
      BY <1>3, <2>1, ChangesGraphStep DEF TagEvent
<1>4. ASSUME NEW tag, UntagEvent(tag) PROVE GraphInv'
  <2>1. tags \ {tag} \in SUBSET (GraphEvents \X Techniques) /\ present \in SUBSET GraphEvents
      BY <1>2
  <2> QED
      BY <1>4, <2>1, ChangesGraphStep DEF UntagEvent
<1>5. ASSUME NEW e \in GraphEvents, DeleteEvent(e) PROVE GraphInv'
  <2>1. present \ {e} \in SUBSET GraphEvents /\ {tag \in tags : tag[1] # e} \in SUBSET (GraphEvents \X Techniques)
      BY <1>2
  <2> QED
      BY <1>5, <2>1, ChangesGraphStep DEF DeleteEvent
<1>6. CASE \E e \in GraphEvents, depth \in 1..3, project \in Homes \cup {"none"} : DrawEvent(e, depth, project)
    BY <1>6, DrawEventStep
<1>7. CASE \E project \in Homes : DrawProject(project)
    BY <1>7, DrawProjectStep
<1>8. CASE \E e \in GraphEvents : DrawSeed(e) \/ DeleteEvent(e) \/ MarkArchived(e)
  <2>1. ASSUME NEW e \in GraphEvents, MarkArchived(e) PROVE GraphInv'
    <3>1. present' = present /\ tags' = tags /\ drawing' = drawing
        BY <2>1 DEF MarkArchived
    <3>2. DrawingInv(drawing)' /\ Steady(drawing, present, tags)'
        BY <3>1 DEF GraphInv
    <3> QED
        BY <3>1, <3>2 DEF GraphInv
  <2> QED
      BY <1>5, <1>8, <2>1, DrawSeedStep
<1>9. CASE ReadTechniques \/ EndTechniques \/ DrawRelationship \/ EndObjects \/ EndSeeds \/ ReadCross \/ LoadCross \/ EndOthers
    BY <1>9, ReadTechniquesStep, EndTechniquesStep, DrawRelationshipStep, EndObjectsStep, EndSeedsStep, ReadCrossStep,
       LoadCrossStep, EndOthersStep
<1>10. CASE \E t \in Techniques : DrawTechnique(t) \/ \E e \in GraphEvents : TagEvent(e, t)
    BY <1>3, <1>10, DrawTechniqueStep
<1>11. CASE \E tag \in GraphEvents \X Techniques : DrawOther(tag) \/ UntagEvent(tag)
    BY <1>4, <1>11, DrawOtherStep
<1> QED
    BY <1>1, <1>6, <1>7, <1>8, <1>9, <1>10, <1>11 DEF AttackGraphNext

LEMMA OfSeedIs ==
    ASSUME GraphInv, NEW e, Event(e) \in drawing.nodes, HasTechniques(drawing, e), NEW deep \in BOOLEAN, deep => HasObjects(drawing, e)
    PROVE  OfSeed(e, deep) \subseteq drawing.nodes
<1>1. ASSUME NEW t \in Around(e) PROVE Technique(t) \in drawing.nodes
  <2>1. PICK tag \in drawing.steadyTags : tag[1] = e /\ tag[2] = t
      BY <1>1 DEF Around
  <2>2. drawing.steadyTags \subseteq GraphEvents \X Techniques
      BY DEF GraphInv, DrawingInv, Drawing
  <2>3. t \in Techniques /\ <<e, t>> \in drawing.steadyTags
      BY <2>1, <2>2
  <2> QED
      BY <2>3 DEF HasTechniques, Tagged
<1>2. ASSUME deep, NEW ref \in UNION {Ends(rel) : rel \in Relations(e)} PROVE Stix(ref) \in drawing.nodes
  <2>1. PICK i \in DOMAIN StixOf[e] : ref \in Ends(StixOf[e][i])
      BY <1>2 DEF Relations
  <2> QED
      BY <1>2, <2>1 DEF HasObjects
<1> QED
    BY <1>1, <1>2 DEF OfSeed

LEMMA GraphGives == GraphInv => GraphFaithful
<1> SUFFICES ASSUME GraphInv PROVE GraphFaithful
    OBVIOUS
<1>1. drawing \in Drawing /\ Sound(drawing) /\ Small(drawing) /\ Reached(drawing)
    BY DEF GraphInv, DrawingInv
<1>2. \A edge \in drawing.edges : {edge[1], edge[2]} \subseteq drawing.nodes
    BY <1>1 DEF Sound
<1>3. \A e : Viewed(drawing, e) <=> InView(e)
    BY DEF Viewed, InView
<1>4. \A e \in GraphEvents : Event(e) \in drawing.nodes => InView(e)
    BY <1>1, <1>3 DEF Sound
<1>5. Cardinality(drawing.nodes) <= NodeCap /\ Cardinality(drawing.edges) <= EdgeCap + 3
  <2>1. CASE drawing.at = "done"
      BY <1>1, <2>1 DEF Small
  <2>2. CASE drawing.at # "done"
    <3>1. Cardinality(drawing.nodes) < NodeCap /\ Cardinality(drawing.edges) <= EdgeCap + 2
        BY <1>1, <2>2, SmallIs
    <3>2. Cardinality(drawing.nodes) \in Nat /\ Cardinality(drawing.edges) \in Nat /\ NodeCap \in Nat /\ EdgeCap \in Nat
        BY <1>1, FS_CardinalityType, AttackGraphAssumption DEF Small
    <3> QED
        BY <3>1, <3>2
  <2> QED
      BY <2>1, <2>2
<1>6. ASSUME drawing.at = "done", ~drawing.truncated PROVE Reference \subseteq drawing.nodes
  <2>1. CASE drawing.depth = 0
    <3>1. ASSUME NEW e \in drawing.steady, InView(e) PROVE OfSeed(e, TRUE) \subseteq drawing.nodes
      <4>1. HasAll(drawing, e)
          BY <1>1, <1>3, <1>6, <2>1, <3>1 DEF Reached, AtSeed
      <4> QED
          BY <4>1, OfSeedIs DEF HasAll
    <3> QED
        BY <2>1, <3>1 DEF Reference
  <2>2. CASE drawing.depth # 0
    <3>1. Seed = SeedOf(drawing)
        BY DEF Seed, SeedOf
    <3>2. /\ Event(Seed) \in drawing.nodes /\ HasTechniques(drawing, Seed)
          /\ drawing.depth > 1 => HasObjects(drawing, Seed)
          /\ drawing.depth = 3 => \A f \in drawing.steady : f # Seed /\ Viewed(drawing, f) => HasOther(drawing, f, Seed)
        BY <1>1, <1>6, <2>2, <3>1 DEF Reached
    <3>3. OfSeed(Seed, drawing.depth > 1) \subseteq drawing.nodes
      <4>1. CASE drawing.depth > 1
        <5>1. OfSeed(Seed, TRUE) \subseteq drawing.nodes
            BY <3>2, <4>1, OfSeedIs
        <5> QED
            BY <4>1, <5>1 DEF OfSeed
      <4>2. CASE ~(drawing.depth > 1)
        <5>1. OfSeed(Seed, FALSE) \subseteq drawing.nodes
            BY <3>2, OfSeedIs
        <5> QED
            BY <4>2, <5>1 DEF OfSeed
      <4> QED
          BY <4>1, <4>2
    <3>4. ASSUME drawing.depth = 3, NEW f \in Neighbours(Seed) PROVE Event(f) \in drawing.nodes
      <4>1. f \in drawing.steady /\ f # Seed /\ InView(f)
          BY <3>4 DEF Neighbours
      <4>2. PICK t : t \in Around(f) /\ t \in Around(Seed)
          BY <3>4 DEF Neighbours
      <4>3. drawing.steadyTags \subseteq GraphEvents \X Techniques
          BY <1>1 DEF Drawing
      <4>4. t \in Techniques /\ <<f, t>> \in drawing.steadyTags
          BY <4>2, <4>3 DEF Around
      <4>5. <<Seed, t>> \in drawing.steadyTags
          BY <4>2, <4>3 DEF Around
      <4>6. HasOther(drawing, f, Seed)
          BY <1>3, <3>2, <3>4, <4>1
      <4> QED
          BY <4>4, <4>5, <4>6 DEF HasOther, Tagged
    <3> QED
        BY <2>2, <3>3, <3>4 DEF Reference
  <2> QED
      BY <2>1, <2>2
<1> QED
    BY <1>2, <1>4, <1>5, <1>6 DEF GraphFaithful

\* For any events, tags, relationships, roles and caps, and whatever comes and goes while a graph
\* is drawn, it has the ends of its edges, nothing out of view, keeps to the caps, and is complete
\* for what was there throughout, or says that it was cut.
THEOREM GraphCorrect == AttackGraphSpec => []GraphFaithful
<1>1. AttackGraphInit => GraphInv
    BY GraphStart
<1>2. GraphInv /\ [AttackGraphNext]_attackGraphVars => GraphInv'
    BY GraphStep
<1>3. GraphInv => GraphFaithful
    BY GraphGives
<1> QED
    BY <1>1, <1>2, <1>3, PTL DEF AttackGraphSpec

-----------------------------------------------------------------------------
(* Sigma: the reading of a condition *)

\* What has been read of the first n terms: one turn, and all of them.
Turn(c, read, i) ==
    IF i > 1 /\ c.ops[i - 1] = "and" THEN [read EXCEPT !.product = @ /\ TermHolds(c.terms[i])]
    ELSE [sum |-> read.sum \/ read.product, product |-> TermHolds(c.terms[i])]

Reading(f, c, n) ==
    f = [i \in 0..n |-> IF i = 0 THEN [sum |-> FALSE, product |-> FALSE] ELSE Turn(c, f[i - 1], i)]

LEMMA ReadingExists ==
    ASSUME NEW c, NEW n \in Nat
    PROVE  \E f : Reading(f, c, n)
<1> DEFINE Never == {m \in Nat : \A f : ~Reading(f, c, m)}
<1> SUFFICES ASSUME Never # {} PROVE FALSE
    OBVIOUS
<1>1. PICK m \in Never : \A k \in Never : m <= k
    BY LeastNatural
<1> HIDE DEF Never
<1>2. m \in Nat /\ \A f : ~Reading(f, c, m)
    BY <1>1 DEF Never
<1>3. m # 0
  <2>1. Reading([i \in 0..0 |-> [sum |-> FALSE, product |-> FALSE]], c, 0)
      BY DEF Reading
  <2> QED
      BY <1>2, <2>1
<1>4. m - 1 \in Nat /\ m - 1 \notin Never
    BY <1>1, <1>2, <1>3
<1>5. PICK f : Reading(f, c, m - 1)
    BY <1>4 DEF Never
<1> DEFINE g == [i \in 0..m |-> IF i = m THEN Turn(c, f[m - 1], m) ELSE f[i]]
<1>6. Reading(g, c, m)
  <2>1. ASSUME NEW i \in 0..m
        PROVE  g[i] = IF i = 0 THEN [sum |-> FALSE, product |-> FALSE] ELSE Turn(c, g[i - 1], i)
    <3>1. CASE i = m
      <4>1. m - 1 \in 0..m /\ m - 1 # m /\ i # 0
          BY <1>2, <1>3, <3>1
      <4>2. g[m - 1] = f[m - 1] /\ g[i] = Turn(c, f[m - 1], m)
          BY <3>1, <4>1
      <4> QED
          BY <3>1, <4>1, <4>2
    <3>2. CASE i # m
      <4>1. i \in 0..(m - 1) /\ g[i] = f[i]
          BY <1>2, <3>2
      <4>2. CASE i = 0
          BY <1>5, <4>1, <4>2 DEF Reading
      <4>3. CASE i # 0
        <5>1. i - 1 \in 0..m /\ i - 1 # m
            BY <1>2, <4>1, <4>3
        <5>2. g[i - 1] = f[i - 1]
            BY <5>1
        <5> QED
            BY <1>5, <4>1, <4>3, <5>2 DEF Reading
      <4> QED
          BY <4>2, <4>3
    <3> QED
        BY <3>1, <3>2
  <2> QED
      BY <2>1 DEF Reading
<1> QED
    BY <1>2, <1>6

LEMMA ReadingTurns ==
    ASSUME NEW c, NEW n \in Nat, NEW f, Reading(f, c, n)
    PROVE  /\ f[0] = [sum |-> FALSE, product |-> FALSE]
           /\ \A i \in 1..n : f[i] = Turn(c, f[i - 1], i)
<1>1. f[0] = [sum |-> FALSE, product |-> FALSE]
  <2>1. 0 \in 0..n
      OBVIOUS
  <2> QED
      BY <2>1 DEF Reading
<1>2. ASSUME NEW i \in 1..n PROVE f[i] = Turn(c, f[i - 1], i)
  <2>1. i \in 0..n /\ i # 0
      OBVIOUS
  <2> QED
      BY <2>1 DEF Reading
<1> QED
    BY <1>1, <1>2

LEMMA ReadsTerms ==
    ASSUME NEW c, Len(c.terms) \in Nat
    PROVE  \E f : /\ Reading(f, c, Len(c.terms))
                  /\ ReadFromLeft(c) <=> f[Len(c.terms)].sum \/ f[Len(c.terms)].product
<1> DEFINE f == CHOOSE f : Reading(f, c, Len(c.terms))
<1>1. Reading(f, c, Len(c.terms))
    BY ReadingExists
<1>2. ReadFromLeft(c) = (f[Len(c.terms)].sum \/ f[Len(c.terms)].product)
    BY DEF ReadFromLeft, Reading, Turn
<1> QED
    BY <1>1, <1>2

-----------------------------------------------------------------------------
\* The terms first..last of a condition are linked by "and", and nothing before them is linked to
\* them by it; they all hold.
Linked(c, first, last) ==
    /\ first = 1 \/ c.ops[first - 1] = "or"
    /\ \A i \in first..(last - 1) : c.ops[i] = "and"

Hold(c, first, last) == \A i \in first..last : TermHolds(c.terms[i])

\* product is about the part that is open after i terms, sum about those that are closed.
OpenHolds(c, i) == \E first \in 1..i : Linked(c, first, i) /\ Hold(c, first, i)
SomeClosedHolds(c, i) ==
    \E last \in 1..(i - 1) : \E first \in 1..last : c.ops[last] = "or" /\ Linked(c, first, last) /\ Hold(c, first, last)

LEMMA ConditionShape ==
    ASSUME NEW c \in Conditions
    PROVE  /\ Len(c.terms) \in Nat \ {0} /\ c.terms \in [1..Len(c.terms) -> Term] /\ c.group \in BOOLEAN
           /\ \A i \in 1..(Len(c.terms) - 1) : c.ops[i] \in {"and", "or"}
<1>1. PICK n \in 1..MaxTerms : c \in [terms : [1..n -> Term], ops : [1..(n - 1) -> {"and", "or"}], group : BOOLEAN]
    BY DEF Conditions
<1>2. n \in Nat \ {0} /\ c.terms \in [1..n -> Term] /\ c.ops \in [1..(n - 1) -> {"and", "or"}]
    BY <1>1, SigmaAssumption
<1>3. Len(c.terms) = n
    BY <1>2
<1> QED
    BY <1>1, <1>2, <1>3

ReadState == [sum : BOOLEAN, product : BOOLEAN]

LEMMA TurnIs ==
    ASSUME NEW c, NEW i, NEW read \in ReadState, NEW next, next = Turn(c, read, i)
    PROVE  /\ next \in ReadState
           /\ i > 1 /\ c.ops[i - 1] = "and" =>
                  (next.sum <=> read.sum) /\ (next.product <=> read.product /\ TermHolds(c.terms[i]))
           /\ ~(i > 1 /\ c.ops[i - 1] = "and") =>
                  (next.sum <=> read.sum \/ read.product) /\ (next.product <=> TermHolds(c.terms[i]))
<1>1. TermHolds(c.terms[i]) \in BOOLEAN
    BY DEF TermHolds
<1>2. CASE i > 1 /\ c.ops[i - 1] = "and"
    BY <1>1, <1>2 DEF Turn, ReadState
<1>3. CASE ~(i > 1 /\ c.ops[i - 1] = "and")
    BY <1>1, <1>3 DEF Turn, ReadState
<1> QED
    BY <1>2, <1>3

\* A term that "and" links to those before it belongs to their part, ...
LEMMA LinkedTerm ==
    ASSUME NEW c \in Conditions, NEW i \in 2..Len(c.terms), c.ops[i - 1] = "and"
    PROVE  /\ OpenHolds(c, i) <=> OpenHolds(c, i - 1) /\ TermHolds(c.terms[i])
           /\ SomeClosedHolds(c, i) <=> SomeClosedHolds(c, i - 1)
<1>1. Len(c.terms) \in Nat
    BY ConditionShape
<1>2. ASSUME NEW first \in 1..i, Linked(c, first, i), Hold(c, first, i)
      PROVE  OpenHolds(c, i - 1) /\ TermHolds(c.terms[i])
  <2>1. first # i
      BY <1>1, <1>2 DEF Linked
  <2>2. first \in 1..(i - 1) /\ Linked(c, first, i - 1) /\ Hold(c, first, i - 1)
      BY <1>1, <1>2, <2>1 DEF Linked, Hold
  <2>3. TermHolds(c.terms[i])
      BY <1>1, <1>2 DEF Hold
  <2> QED
      BY <2>2, <2>3 DEF OpenHolds
<1>3. ASSUME NEW first \in 1..(i - 1), Linked(c, first, i - 1), Hold(c, first, i - 1), TermHolds(c.terms[i])
      PROVE  OpenHolds(c, i)
  <2>1. \A j \in first..(i - 1) : j = i - 1 \/ j \in first..((i - 1) - 1)
      BY <1>1
  <2>2. \A j \in first..i : j = i \/ j \in first..(i - 1)
      BY <1>1
  <2>3. first \in 1..i /\ Linked(c, first, i) /\ Hold(c, first, i)
      BY <1>1, <1>3, <2>1, <2>2 DEF Linked, Hold
  <2> QED
      BY <2>3 DEF OpenHolds
<1>4. ASSUME NEW last \in 1..(i - 1), c.ops[last] = "or" PROVE last \in 1..((i - 1) - 1)
    BY <1>1, <1>4
<1>5. 1..((i - 1) - 1) \subseteq 1..(i - 1)
    BY <1>1
<1>6. OpenHolds(c, i) <=> OpenHolds(c, i - 1) /\ TermHolds(c.terms[i])
    BY <1>2, <1>3 DEF OpenHolds
<1>7. SomeClosedHolds(c, i) => SomeClosedHolds(c, i - 1)
    BY <1>4 DEF SomeClosedHolds
<1>8. SomeClosedHolds(c, i - 1) => SomeClosedHolds(c, i)
    BY <1>5 DEF SomeClosedHolds
<1> QED
    BY <1>6, <1>7, <1>8

\* ... and any other opens a part, and closes the one before.
LEMMA OpeningTerm ==
    ASSUME NEW c \in Conditions, NEW i \in 1..Len(c.terms), i = 1 \/ c.ops[i - 1] = "or"
    PROVE  /\ OpenHolds(c, i) <=> TermHolds(c.terms[i])
           /\ SomeClosedHolds(c, i) <=> i > 1 /\ (SomeClosedHolds(c, i - 1) \/ OpenHolds(c, i - 1))
<1>1. Len(c.terms) \in Nat /\ i \in Nat
    BY ConditionShape
<1>2. ASSUME NEW first \in 1..i, Linked(c, first, i), Hold(c, first, i) PROVE TermHolds(c.terms[i])
    BY <1>1, <1>2 DEF Hold
<1>3. ASSUME TermHolds(c.terms[i]) PROVE OpenHolds(c, i)
  <2>1. i \in 1..i /\ i..(i - 1) = {} /\ i..i = {i}
      BY <1>1
  <2>2. Linked(c, i, i) /\ Hold(c, i, i)
      BY <1>3, <2>1 DEF Linked, Hold
  <2> QED
      BY <2>1, <2>2 DEF OpenHolds
<1>4. OpenHolds(c, i) <=> TermHolds(c.terms[i])
    BY <1>2, <1>3 DEF OpenHolds
<1>5. ASSUME SomeClosedHolds(c, i) PROVE i > 1 /\ (SomeClosedHolds(c, i - 1) \/ OpenHolds(c, i - 1))
  <2>1. PICK last \in 1..(i - 1) : \E first \in 1..last : c.ops[last] = "or" /\ Linked(c, first, last) /\ Hold(c, first, last)
      BY <1>5 DEF SomeClosedHolds
  <2>2. i > 1
      BY <1>1, <2>1
  <2>3. CASE last = i - 1
      BY <2>1, <2>3 DEF OpenHolds
  <2>4. CASE last # i - 1
    <3>1. last \in 1..((i - 1) - 1)
        BY <1>1, <2>4
    <3> QED
        BY <2>1, <3>1 DEF SomeClosedHolds
  <2> QED
      BY <2>2, <2>3, <2>4
<1>6. ASSUME i > 1, SomeClosedHolds(c, i - 1) PROVE SomeClosedHolds(c, i)
  <2>1. 1..((i - 1) - 1) \subseteq 1..(i - 1)
      BY <1>1
  <2> QED
      BY <1>6, <2>1 DEF SomeClosedHolds
<1>7. ASSUME i > 1, OpenHolds(c, i - 1) PROVE SomeClosedHolds(c, i)
  <2>1. i - 1 \in 1..(i - 1) /\ c.ops[i - 1] = "or"
      BY <1>1, <1>7
  <2> QED
      BY <1>7, <2>1 DEF SomeClosedHolds, OpenHolds
<1> QED
    BY <1>4, <1>5, <1>6, <1>7

\* What is read of n terms is what their parts say.
LEMMA ReadingHolds ==
    ASSUME NEW c \in Conditions, NEW f, Reading(f, c, Len(c.terms))
    PROVE  LET n == Len(c.terms) IN
           (f[n].sum <=> SomeClosedHolds(c, n)) /\ (f[n].product <=> OpenHolds(c, n))
<1> DEFINE n == Len(c.terms)
<1>1. n \in Nat \ {0} /\ \A i \in 1..(n - 1) : c.ops[i] \in {"and", "or"}
    BY ConditionShape
<1>2. f[0] = [sum |-> FALSE, product |-> FALSE] /\ \A i \in 1..n : f[i] = Turn(c, f[i - 1], i)
    BY <1>1, ReadingTurns
<1> DEFINE Right(i) == f[i] \in ReadState /\ (f[i].sum <=> SomeClosedHolds(c, i)) /\ (f[i].product <=> OpenHolds(c, i))
           Wrong == {i \in 1..n : ~Right(i)}
<1>3. f[0] \in ReadState /\ ~f[0].sum /\ ~f[0].product
    BY <1>2 DEF ReadState
<1>4. Right(1)
  <2>1. 1 \in 1..n /\ f[1] = Turn(c, f[1 - 1], 1) /\ 1 - 1 = 0 /\ ~(1 > 1)
      BY <1>1, <1>2
  <2>2. f[1] \in ReadState /\ (f[1].sum <=> f[0].sum \/ f[0].product) /\ (f[1].product <=> TermHolds(c.terms[1]))
      BY <1>3, <2>1, TurnIs
  <2>3. (OpenHolds(c, 1) <=> TermHolds(c.terms[1])) /\ ~SomeClosedHolds(c, 1)
      BY <2>1, OpeningTerm
  <2> QED
      BY <1>3, <2>2, <2>3
<1>5. ASSUME NEW i \in 2..n, Right(i - 1) PROVE Right(i)
  <2>1. i \in 1..n /\ i > 1 /\ i - 1 \in 1..(n - 1) /\ f[i] = Turn(c, f[i - 1], i) /\ c.ops[i - 1] \in {"and", "or"}
      BY <1>1, <1>2
  <2>2. CASE c.ops[i - 1] = "and"
    <3>1. f[i] \in ReadState /\ (f[i].sum <=> f[i - 1].sum) /\ (f[i].product <=> f[i - 1].product /\ TermHolds(c.terms[i]))
        BY <1>5, <2>1, <2>2, TurnIs
    <3> QED
        BY <1>5, <2>2, <3>1, LinkedTerm
  <2>3. CASE c.ops[i - 1] # "and"
    <3>1. f[i] \in ReadState /\ (f[i].sum <=> f[i - 1].sum \/ f[i - 1].product) /\ (f[i].product <=> TermHolds(c.terms[i]))
        BY <1>5, <2>1, <2>3, TurnIs
    <3>2. c.ops[i - 1] = "or"
        BY <2>1, <2>3
    <3> QED
        BY <1>5, <2>1, <3>1, <3>2, OpeningTerm
  <2> QED
      BY <2>2, <2>3
<1> HIDE DEF Right
<1>6. Wrong = {}
  <2> SUFFICES ASSUME Wrong # {} PROVE FALSE
      OBVIOUS
  <2>0. Wrong \in SUBSET Nat
      OBVIOUS
  <2>1. PICK i \in Wrong : \A k \in Wrong : i <= k
    <3> HIDE DEF Wrong
    <3> QED
        BY <2>0, LeastNatural
  <2>2. i \in 2..n /\ i - 1 \in 1..n /\ ~(i <= i - 1)
      BY <1>1, <1>4, <2>1
  <2> QED
      BY <1>5, <2>1, <2>2
<1>7. Right(n)
    BY <1>1, <1>6
<1> QED
    BY <1>7 DEF Right

-----------------------------------------------------------------------------
\* The parts that the text is split into at "or" are the linked ones, and at "and" a part is
\* split into its terms.
LEMMA SplitsHold ==
    ASSUME NEW c \in Conditions
    PROVE  Splits(c) <=> SomeClosedHolds(c, Len(c.terms)) \/ OpenHolds(c, Len(c.terms))
<1> DEFINE n == Len(c.terms)
<1>1. n \in Nat \ {0} /\ \A i \in 1..(n - 1) : c.ops[i] \in {"and", "or"}
    BY ConditionShape
<1>2. ASSUME NEW first \in 1..n, NEW last \in first..n, \A i \in first..(last - 1) : c.ops[i] = "and"
      PROVE  (\A q \in Parts(c, "and", first, last) : TermHolds(c.terms[q[1]])) <=> Hold(c, first, last)
  <2>1. ASSUME NEW i \in first..last PROVE <<i, i>> \in Parts(c, "and", first, last)
    <3>1. i..(i - 1) = {} /\ i <= i
        BY <1>1
    <3>2. i = first \/ c.ops[i - 1] = "and"
        BY <1>1, <1>2
    <3>3. i = last \/ c.ops[i] = "and"
        BY <1>1, <1>2
    <3> QED
        BY <3>1, <3>2, <3>3 DEF Parts
  <2>2. \A q \in Parts(c, "and", first, last) : q[1] \in first..last
      BY DEF Parts
  <2>3. \A i \in first..last : <<i, i>>[1] = i
      OBVIOUS
  <2> QED
      BY <2>1, <2>2, <2>3 DEF Hold
<1>3. ASSUME NEW p \in Parts(c, "or", 1, n)
      PROVE  /\ p[1] \in 1..n /\ p[2] \in p[1]..n
             /\ Linked(c, p[1], p[2]) /\ (p[2] = n \/ c.ops[p[2]] = "or")
  <2>1. /\ p[1] \in 1..n /\ p[2] \in 1..n /\ p[1] <= p[2] /\ (p[1] = 1 \/ c.ops[p[1] - 1] = "or")
        /\ (p[2] = n \/ c.ops[p[2]] = "or") /\ \A i \in p[1]..(p[2] - 1) : c.ops[i] # "or"
      BY DEF Parts
  <2>2. \A i \in p[1]..(p[2] - 1) : i \in 1..(n - 1)
      BY <1>1, <2>1
  <2>3. \A i \in p[1]..(p[2] - 1) : c.ops[i] = "and"
      BY <1>1, <2>1, <2>2
  <2> QED
      BY <1>1, <2>1, <2>3 DEF Linked
<1>4. ASSUME NEW first \in 1..n, NEW last \in first..n, Linked(c, first, last), last = n \/ c.ops[last] = "or"
      PROVE  <<first, last>> \in Parts(c, "or", 1, n)
  <2>1. first \in 1..n /\ last \in 1..n /\ first <= last
      BY <1>1
  <2>2. \A i \in first..(last - 1) : c.ops[i] # "or"
      BY <1>4 DEF Linked
  <2>3. first = 1 \/ c.ops[first - 1] = "or"
      BY <1>4 DEF Linked
  <2> QED
      BY <1>4, <2>1, <2>2, <2>3 DEF Parts
<1> HIDE DEF n
<1>5. ASSUME NEW p \in Parts(c, "or", 1, n), \A q \in Parts(c, "and", p[1], p[2]) : TermHolds(c.terms[q[1]])
      PROVE  SomeClosedHolds(c, n) \/ OpenHolds(c, n)
  <2>1. PICK first \in 1..n : \E last \in first..n : first = p[1] /\ last = p[2]
      BY <1>3
  <2>1a. PICK last \in first..n : first = p[1] /\ last = p[2]
      BY <2>1
  <2>2. Linked(c, first, last) /\ (last = n \/ c.ops[last] = "or")
      BY <1>3, <2>1a
  <2>3. Hold(c, first, last)
      BY <1>2, <1>5, <2>1a, <2>2 DEF Linked
  <2>4. CASE last = n
      BY <2>2, <2>3, <2>4 DEF OpenHolds
  <2>5. CASE last # n
    <3>1. last \in 1..(n - 1) /\ first \in 1..last /\ c.ops[last] = "or"
        BY <1>1, <2>2, <2>5
    <3> QED
        BY <2>2, <2>3, <3>1 DEF SomeClosedHolds
  <2> QED
      BY <2>4, <2>5
<1>6. ASSUME NEW first \in 1..n, NEW last \in first..n, Linked(c, first, last), Hold(c, first, last),
             last = n \/ c.ops[last] = "or"
      PROVE  \E p \in Parts(c, "or", 1, n) : \A q \in Parts(c, "and", p[1], p[2]) : TermHolds(c.terms[q[1]])
  <2>1. PICK p : p = <<first, last>>
      OBVIOUS
  <2>2. p[1] = first /\ p[2] = last /\ p \in Parts(c, "or", 1, n)
      BY <1>4, <1>6, <2>1
  <2>3. \A q \in Parts(c, "and", first, last) : TermHolds(c.terms[q[1]])
      BY <1>2, <1>6 DEF Linked
  <2> QED
      BY <2>2, <2>3
<1>7. SomeClosedHolds(c, n) => \E first \in 1..n : \E last \in first..n :
          Linked(c, first, last) /\ Hold(c, first, last) /\ (last = n \/ c.ops[last] = "or")
  <2> SUFFICES ASSUME NEW last \in 1..(n - 1), NEW first \in 1..last, c.ops[last] = "or",
                      Linked(c, first, last), Hold(c, first, last)
               PROVE  first \in 1..n /\ last \in first..n
      BY DEF SomeClosedHolds
  <2> QED
      BY <1>1
<1>8. OpenHolds(c, n) => \E first \in 1..n : \E last \in first..n :
          Linked(c, first, last) /\ Hold(c, first, last) /\ (last = n \/ c.ops[last] = "or")
  <2> SUFFICES ASSUME NEW first \in 1..n, Linked(c, first, n), Hold(c, first, n) PROVE n \in first..n
      BY DEF OpenHolds
  <2> QED
      BY <1>1
<1>9. Splits(c) <=> \E p \in Parts(c, "or", 1, n) : \A q \in Parts(c, "and", p[1], p[2]) : TermHolds(c.terms[q[1]])
    BY DEF Splits, n
<1> QED
    BY <1>5, <1>6, <1>7, <1>8, <1>9 DEF n

\* The splits say what a reading from the left says, of a condition of any length.
LEMMA SplitsReadFromLeft == ASSUME NEW c \in Conditions PROVE Splits(c) <=> ReadFromLeft(c)
<1>1. Len(c.terms) \in Nat
    BY ConditionShape
<1>2. PICK f : Reading(f, c, Len(c.terms)) /\ (ReadFromLeft(c) <=> f[Len(c.terms)].sum \/ f[Len(c.terms)].product)
    BY <1>1, ReadsTerms
<1> QED
    BY <1>2, ReadingHolds, SplitsHold

SigmaInv ==
    /\ rule.condition \in Conditions /\ rule.condition.group \in BOOLEAN
    /\ verdict \in {"none", "match", "no match"}
    /\ verdict # "none" => (verdict = "match" <=> EvalCondition(rule.condition))

LEMMA SomeCondition == Conditions # {}
<1>1. PICK term \in Term : term = [nots |-> 0, name |-> "unknown"]
  <2>1. 0 \in 0..MaxNots
      BY SigmaAssumption
  <2> QED
      BY <2>1 DEF Term
<1>2. 1 \in 1..MaxTerms
    BY SigmaAssumption
<1> DEFINE c == [terms |-> [i \in 1..1 |-> term], ops |-> [i \in 1..(1 - 1) |-> "or"], group |-> FALSE]
<1>3. c \in [terms : [1..1 -> Term], ops : [1..(1 - 1) -> {"and", "or"}], group : BOOLEAN]
    BY <1>1
<1> HIDE DEF c
<1>4. c \in Conditions
    BY <1>2, <1>3 DEF Conditions
<1> QED
    BY <1>4

LEMMA SigmaStart == SigmaInit => SigmaInv
<1> SUFFICES ASSUME SigmaInit PROVE SigmaInv
    OBVIOUS
<1>1. rule.condition \in Conditions /\ verdict = "none"
    BY DEF SigmaInit
<1> QED
    BY <1>1, ConditionShape DEF SigmaInv

LEMMA SigmaStep == SigmaInv /\ [TestSigmaRule]_sigmaVars => SigmaInv'
<1> SUFFICES ASSUME SigmaInv, [TestSigmaRule]_sigmaVars PROVE SigmaInv'
    OBVIOUS
<1>1. CASE UNCHANGED sigmaVars
    BY <1>1 DEF SigmaInv, sigmaVars, EvalCondition, Splits, TermHolds, DetectionHolds, ItemHolds
<1>2. CASE TestSigmaRule
  <2>1. rule' = rule /\ (EvalCondition(rule.condition)' <=> EvalCondition(rule.condition))
      BY <1>2 DEF TestSigmaRule, EvalCondition, Splits, TermHolds, DetectionHolds, ItemHolds
  <2> QED
      BY <1>2, <2>1 DEF SigmaInv, TestSigmaRule
<1> QED
    BY <1>1, <1>2

LEMMA SigmaTells == SigmaInv => SigmaFaithful
BY SplitsReadFromLeft DEF SigmaInv, SigmaFaithful, EvalCondition

\* Of any rule, the reading of its condition from the left says the same as its meaning: the clauses
\* between "or", each of which holds if all its terms do (test_sigma_rule, _eval_condition_expr).
THEOREM SigmaCorrect == SigmaSpec => []SigmaFaithful
BY SigmaStart, SigmaStep, SigmaTells, PTL DEF SigmaSpec

-----------------------------------------------------------------------------
(* Clusters: the sweep of the posts *)

\* The loop over the first n posts of an order.
Loop(f, order, n) ==
    f = [i \in 0..n |-> IF i = 0 THEN [visited |-> {}, groups |-> {}]
                                 ELSE Group(f[i - 1], order[i], ToSet(order))]

LEMMA LoopRuns ==
    ASSUME NEW order, NEW n \in Nat
    PROVE  \E f : Loop(f, order, n)
<1> DEFINE Never == {m \in Nat : \A f : ~Loop(f, order, m)}
<1> SUFFICES ASSUME Never # {} PROVE FALSE
    OBVIOUS
<1>1. PICK m \in Never : \A k \in Never : m <= k
    BY LeastNatural
<1> HIDE DEF Never
<1>2. m \in Nat /\ \A f : ~Loop(f, order, m)
    BY <1>1 DEF Never
<1>3. m # 0
  <2>1. Loop([i \in 0..0 |-> [visited |-> {}, groups |-> {}]], order, 0)
      BY DEF Loop
  <2> QED
      BY <1>2, <2>1
<1>4. m - 1 \in Nat /\ m - 1 \notin Never
    BY <1>1, <1>2, <1>3
<1>5. PICK f : Loop(f, order, m - 1)
    BY <1>4 DEF Never
<1> DEFINE g == [i \in 0..m |-> IF i = m THEN Group(f[m - 1], order[m], ToSet(order)) ELSE f[i]]
<1>6. Loop(g, order, m)
  <2>1. ASSUME NEW i \in 0..m
        PROVE  g[i] = IF i = 0 THEN [visited |-> {}, groups |-> {}] ELSE Group(g[i - 1], order[i], ToSet(order))
    <3>1. CASE i = m
      <4>1. m - 1 \in 0..m /\ m - 1 # m /\ i # 0
          BY <1>2, <1>3, <3>1
      <4>2. g[m - 1] = f[m - 1] /\ g[i] = Group(f[m - 1], order[m], ToSet(order))
          BY <3>1, <4>1
      <4> QED
          BY <3>1, <4>1, <4>2
    <3>2. CASE i # m
      <4>1. i \in 0..(m - 1) /\ g[i] = f[i]
          BY <1>2, <3>2
      <4>2. CASE i = 0
          BY <1>5, <4>1, <4>2 DEF Loop
      <4>3. CASE i # 0
        <5>1. i - 1 \in 0..m /\ i - 1 # m
            BY <1>2, <4>1, <4>3
        <5>2. g[i - 1] = f[i - 1]
            BY <5>1
        <5> QED
            BY <1>5, <4>1, <4>3, <5>2 DEF Loop
      <4> QED
          BY <4>2, <4>3
    <3> QED
        BY <3>1, <3>2
  <2> QED
      BY <2>1 DEF Loop
<1> QED
    BY <1>2, <1>6

LEMMA LoopTurns ==
    ASSUME NEW order, NEW n \in Nat, NEW f, Loop(f, order, n)
    PROVE  /\ f[0] = [visited |-> {}, groups |-> {}]
           /\ \A i \in 1..n : f[i] = Group(f[i - 1], order[i], ToSet(order))
<1>1. f[0] = [visited |-> {}, groups |-> {}]
  <2>1. 0 \in 0..n
      OBVIOUS
  <2> QED
      BY <2>1 DEF Loop
<1>2. ASSUME NEW i \in 1..n PROVE f[i] = Group(f[i - 1], order[i], ToSet(order))
  <2>1. i \in 0..n /\ i # 0
      OBVIOUS
  <2> QED
      BY <2>1 DEF Loop
<1> QED
    BY <1>1, <1>2

LEMMA Detects ==
    ASSUME NEW order \in Seq(Posts)
    PROVE  \E f : Loop(f, order, Len(order)) /\ DetectClusters(order) = f[Len(order)].groups
<1> DEFINE f == CHOOSE f : Loop(f, order, Len(order))
<1>1. Loop(f, order, Len(order))
    BY LoopRuns
<1>2. DetectClusters(order) = f[Len(order)].groups
    BY DEF DetectClusters, Loop
<1> QED
    BY <1>1, <1>2

\* What the loop has found among ps: the posts it is done with are those of its groups, and
\* each group is a post's candidates, and large enough.
Found(found, ps) ==
    /\ found.visited = UNION found.groups
    /\ \A g \in found.groups : Cardinality(g) >= MinCluster /\ \E p \in ps : g = Candidates(p, ps)

LEMMA GroupFinds ==
    ASSUME NEW ps \in SUBSET Posts, NEW p \in ps, NEW found, Found(found, ps)
    PROVE  /\ Found(Group(found, p, ps), ps)
           /\ found.visited \subseteq Group(found, p, ps).visited
           /\ Cardinality(Candidates(p, ps)) >= MinCluster => p \in Group(found, p, ps).visited
<1>1. p \in Candidates(p, ps)
    BY ClustersAssumption DEF Candidates
<1>2. CASE p \in found.visited \/ Cardinality(Candidates(p, ps)) < MinCluster
  <2>1. Group(found, p, ps) = found
      BY <1>2 DEF Group
  <2>2. Cardinality(Candidates(p, ps)) \in Nat /\ MinCluster \in Nat
      BY ClustersAssumption, FS_Subset, FS_CardinalityType DEF Candidates
  <2> QED
      BY <1>2, <2>1, <2>2
<1>3. CASE ~(p \in found.visited \/ Cardinality(Candidates(p, ps)) < MinCluster)
  <2>1. Cardinality(Candidates(p, ps)) \in Nat /\ MinCluster \in Nat
      BY ClustersAssumption, FS_Subset, FS_CardinalityType DEF Candidates
  <2>2. PICK c : c = Candidates(p, ps)
      OBVIOUS
  <2>3. Group(found, p, ps) = [visited |-> found.visited \cup c, groups |-> found.groups \cup {c}]
      BY <1>3, <2>2 DEF Group
  <2>4. /\ Group(found, p, ps).visited = found.visited \cup c
        /\ Group(found, p, ps).groups = found.groups \cup {c}
      BY <2>3
  <2>5. UNION (found.groups \cup {c}) = (UNION found.groups) \cup c
      OBVIOUS
  <2>6. Cardinality(c) >= MinCluster
      BY <1>3, <2>1, <2>2
  <2> QED
      BY <1>1, <2>2, <2>4, <2>5, <2>6 DEF Found
<1> QED
    BY <1>2, <1>3

\* The loop leaves out no post that is like enough others, whatever the order.
LEMMA DetectsAll ==
    ASSUME NEW order \in Seq(Posts)
    PROVE  LET ps == ToSet(order) IN
           /\ \A g \in DetectClusters(order) :
                  Cardinality(g) >= MinCluster /\ \E p \in ps : g = Candidates(p, ps)
           /\ \A p \in ps : Cardinality(Candidates(p, ps)) >= MinCluster => p \in UNION DetectClusters(order)
<1> DEFINE ps == ToSet(order)
           n == Len(order)
<1>1. n \in Nat /\ DOMAIN order = 1..n /\ ps \in SUBSET Posts /\ \A i \in 1..n : order[i] \in ps
    BY DEF ToSet
<1>2. PICK f : Loop(f, order, n) /\ DetectClusters(order) = f[n].groups
    BY Detects
<1>3. f[0] = [visited |-> {}, groups |-> {}] /\ \A i \in 1..n : f[i] = Group(f[i - 1], order[i], ps)
    BY <1>1, <1>2, LoopTurns
<1> DEFINE Right(m) == /\ Found(f[m], ps)
                       /\ \A i \in 1..m : Cardinality(Candidates(order[i], ps)) >= MinCluster => order[i] \in f[m].visited
           Wrong == {m \in 0..n : ~Right(m)}
<1>4. Right(0)
    BY <1>3 DEF Found
<1>5. ASSUME NEW m \in 1..n, Right(m - 1) PROVE Right(m)
  <2>1. order[m] \in ps /\ f[m] = Group(f[m - 1], order[m], ps)
      BY <1>1, <1>3
  <2>2. /\ Found(f[m], ps) /\ f[m - 1].visited \subseteq f[m].visited
        /\ Cardinality(Candidates(order[m], ps)) >= MinCluster => order[m] \in f[m].visited
      BY <1>1, <1>5, <2>1, GroupFinds
  <2>3. \A i \in 1..m : i = m \/ i \in 1..(m - 1)
      BY <1>1
  <2> QED
      BY <1>5, <2>2, <2>3
<1> HIDE DEF Right, ps, n
<1>6. Wrong = {}
  <2> SUFFICES ASSUME Wrong # {} PROVE FALSE
      OBVIOUS
  <2>1. Wrong \in SUBSET Nat
      BY <1>1
  <2>2. PICK m \in Wrong : \A k \in Wrong : m <= k
      BY <2>1, LeastNatural
  <2>3. m \in 1..n /\ m - 1 \in 0..n /\ ~(m <= m - 1)
      BY <1>1, <1>4, <2>2
  <2> QED
      BY <1>5, <2>2, <2>3
<1>7. Right(n)
    BY <1>1, <1>6
<1>8. /\ Found(f[n], ps)
      /\ \A i \in 1..n : Cardinality(Candidates(order[i], ps)) >= MinCluster => order[i] \in f[n].visited
    BY <1>7 DEF Right
<1>9. \A p \in ps : \E i \in 1..n : p = order[i]
    BY <1>1 DEF ps, ToSet
<1> QED
    BY <1>2, <1>8, <1>9 DEF Found, ps

-----------------------------------------------------------------------------
(* run_cib_sweep *)

\* What was found is large enough, of one project and was recent together.
Coordinated(c) ==
    /\ Cardinality(c) >= MinCluster
    /\ \A p, q \in c : ProjectOf[p] = ProjectOf[q] /\ ObservedAt[p] - ObservedAt[q] <= RecentFor

\* Each post in ps that is like enough others of its project there is in a cluster of cs.
Covers(ps, cs) ==
    \A p \in ps : Cardinality(Candidates(p, SameProject(p, ps))) >= MinCluster => p \in UNION cs

\* A sweep fetches a project once, and has grouped what it fetched, unless it was aborted; what
\* a project that raised had inserted is from posts that are not counted as fetched.
SweepHeld(w) ==
    /\ w.left \subseteq Swept /\ w.aborted \in BOOLEAN
    /\ w.own \subseteq SUBSET posted /\ w.fetched \subseteq posted
    /\ w.aborted => w.own = {}
    /\ \A c \in w.own : Coordinated(c)
    /\ w.at \in {"idle", "select"} => w.fetched = {} /\ w.own = {}
    /\ w.at = "projects" => /\ \A p \in w.fetched : ProjectOf[p] \notin w.left
                            /\ ~w.aborted => Covers(w.fetched, w.own)
    /\ w.at = "release" /\ ~w.aborted => Covers(w.fetched, reported)

\* The key is that of the one sweep there is, unless one has outlived it.
Exclusive ==
    /\ \A s \in Sweepers : sweep[s].at # "idle" => sweep[s].until = sweepLock /\ sweepLock > time
    /\ \A s, v \in Sweepers : sweep[s].at # "idle" /\ sweep[v].at # "idle" => s = v

SweepRecord == [at : {"idle", "select", "projects", "release"}, until : Nat, left : SUBSET Swept,
                own : SUBSET SUBSET Posts, fetched : SUBSET Posts, aborted : BOOLEAN]

SweepsInv ==
    /\ time \in 0..LastTime /\ posted \subseteq Posts /\ sweepLock \in 0..(LastTime + LockTtl)
    /\ overran \in BOOLEAN /\ sweepFaults \in 0..MaxSweepFaults
    /\ \A p \in posted : ObservedAt[p] <= time
    /\ sweep \in [Sweepers -> SweepRecord]
    /\ \A s \in Sweepers : SweepHeld(sweep[s]) /\ (sweep[s].at # "idle" => sweep[s].until > 0)
    /\ reported \subseteq SUBSET Posts
    /\ \A c \in reported : Coordinated(c)
    /\ overran \/ Exclusive

LEMMA SweepNumbers ==
    /\ RecentFor \in Nat \ {0} /\ MaxPosts \in Nat \ {0} /\ MinCluster \in Nat \ {0} /\ LockTtl \in Nat \ {0}
    /\ LastTime \in Nat /\ MaxSweepFaults \in Nat
    BY ClustersAssumption

LEMMA SweepsInit == ClustersInit => SweepsInv
<1> SUFFICES ASSUME ClustersInit PROVE SweepsInv
    OBVIOUS
<1>1. NoSweep \in SweepRecord /\ SweepHeld(NoSweep)
    BY DEF NoSweep, SweepRecord, SweepHeld
<1>2. /\ time \in 0..LastTime /\ sweepLock \in 0..(LastTime + LockTtl) /\ sweepFaults \in 0..MaxSweepFaults
      /\ posted = {} /\ reported = {} /\ overran = FALSE
    BY SweepNumbers DEF ClustersInit
<1>3. \A s \in Sweepers : sweep[s] = NoSweep /\ sweep[s].at = "idle"
    BY DEF ClustersInit, NoSweep
<1>4. sweep \in [Sweepers -> SweepRecord]
    BY <1>1 DEF ClustersInit
<1> QED
    BY <1>1, <1>2, <1>3, <1>4 DEF SweepsInv, Exclusive

\* One sweep moves on, and no other loses anything.
LEMMA SweepMoves ==
    ASSUME SweepsInv, NEW s \in Sweepers, NEW w \in SweepRecord, Goes(s, w), SweepHeld(w)',
           w.at # "idle" => w.until > 0,
           UNCHANGED <<time, posted, overran>>, sweepLock' \in 0..(LastTime + LockTtl),
           sweepFaults' \in 0..MaxSweepFaults,
           reported \subseteq reported', \A c \in reported' \ reported : c \in SUBSET Posts /\ Coordinated(c),
           overran \/ Exclusive'
    PROVE  SweepsInv'
<1>1. sweep' = [sweep EXCEPT ![s] = w]
    BY DEF Goes
<1>2. ASSUME NEW v \in Sweepers PROVE SweepHeld(sweep[v])' /\ (sweep'[v].at # "idle" => sweep'[v].until > 0)
  <2>1. CASE v = s
      BY <1>1, <2>1 DEF SweepsInv, SweepHeld
  <2>2. CASE v # s
    <3>1. sweep'[v] = sweep[v] /\ SweepHeld(sweep[v])
        BY <1>1, <2>2 DEF SweepsInv
    <3>2. \A ps : Covers(ps, reported) => Covers(ps, reported')
        BY DEF Covers
    <3>3. PICK o \in SweepRecord : o = sweep[v] /\ o = sweep'[v]
        BY <3>1 DEF SweepsInv
    <3>4. SweepHeld(o) /\ (o.at # "idle" => o.until > 0)
        BY <3>3 DEF SweepsInv
    <3>5. Covers(o.fetched, reported) => Covers(o.fetched, reported')
        BY <3>2
    <3>6. SweepHeld(o)'
        BY <3>4, <3>5 DEF SweepHeld
    <3>7. SweepHeld(sweep[v])'
        BY <3>3, <3>6
    <3> QED
        BY <3>3, <3>4, <3>7
  <2> QED
      BY <2>1, <2>2
<1>3. sweep' \in [Sweepers -> SweepRecord]
    BY <1>1 DEF SweepsInv
<1>4. /\ reported' \subseteq SUBSET Posts
      /\ \A c \in reported' : Coordinated(c)
    BY DEF SweepsInv
<1>5. /\ time' \in 0..LastTime /\ posted' \subseteq Posts /\ overran' \in BOOLEAN
      /\ \A p \in posted' : ObservedAt[p] <= time'
    BY DEF SweepsInv
<1>6. overran' \/ Exclusive'
    OBVIOUS
<1> QED
    BY <1>2, <1>3, <1>4, <1>5, <1>6 DEF SweepsInv, Coordinated

LEMMA SweepIs ==
    ASSUME SweepsInv, NEW s \in Sweepers
    PROVE  sweep[s] \in SweepRecord /\ SweepHeld(sweep[s]) /\ (sweep[s].at # "idle" => sweep[s].until > 0)
    BY DEF SweepsInv

LEMMA NoSweepHeld == NoSweep \in SweepRecord /\ NoSweep.at = "idle" /\ SweepHeld(NoSweep) /\ SweepHeld(NoSweep)'
    BY DEF NoSweep, SweepRecord, SweepHeld

\* A sweep that goes on keeps its label idle or not, and its key.
LEMMA StaysExclusive ==
    ASSUME SweepsInv, NEW s \in Sweepers, NEW w \in SweepRecord, Goes(s, w), UNCHANGED time,
           \/ w.at = "idle"
           \/ sweep[s].at # "idle" /\ w.until = sweep[s].until /\ sweepLock' = sweepLock,
           sweepLock' = sweepLock \/ sweep[s].at # "idle"
    PROVE  overran \/ Exclusive'
<1> SUFFICES ASSUME Exclusive PROVE Exclusive'
    BY DEF SweepsInv
<1>1. sweep' = [sweep EXCEPT ![s] = w] /\ sweep \in [Sweepers -> SweepRecord]
    BY DEF Goes, SweepsInv
<1>2. \A v \in Sweepers : v # s => sweep'[v] = sweep[v]
    BY <1>1
<1>3. sweep'[s] = w
    BY <1>1
<1> QED
    BY <1>2, <1>3 DEF Exclusive

LEMMA StartsSweep == ASSUME SweepsInv, NEW s \in Sweepers, StartSweep(s) PROVE SweepsInv'
<1> USE SweepNumbers
<1>1. PICK w : w = [NoSweep EXCEPT !.at = "select", !.until = time + LockTtl]
    OBVIOUS
<1>2. /\ sweep[s].at = "idle" /\ sweepLock = 0 /\ sweepLock' = time + LockTtl /\ Goes(s, w)
      /\ UNCHANGED <<time, posted, reported, overran, sweepFaults>>
    BY <1>1 DEF StartSweep
<1>3. time \in 0..LastTime /\ time + LockTtl \in 0..(LastTime + LockTtl) /\ time + LockTtl > time
    BY DEF SweepsInv
<1>4. /\ w.at = "select" /\ w.until = time + LockTtl
      /\ w.left = {} /\ w.own = {} /\ w.fetched = {} /\ w.aborted = FALSE
    BY <1>1 DEF NoSweep
<1>6. w \in SweepRecord /\ w.until > 0
  <2>1. time + LockTtl \in Nat /\ time + LockTtl > 0
      BY <1>3
  <2> QED
      BY <1>1, <1>4, <2>1, NoSweepHeld DEF SweepRecord
<1>7. SweepHeld(w)'
    BY <1>4 DEF SweepHeld
<1>5. overran \/ Exclusive'
  <2> SUFFICES ASSUME Exclusive PROVE Exclusive'
      BY DEF SweepsInv
  <2>1. sweep' = [sweep EXCEPT ![s] = w] /\ sweep \in [Sweepers -> SweepRecord]
      BY <1>2 DEF Goes, SweepsInv
  <2>2. \A v \in Sweepers : sweep[v].at = "idle"
      BY <1>2, <1>3 DEF Exclusive
  <2>3. \A v \in Sweepers : v # s => sweep'[v].at = "idle"
      BY <2>1, <2>2
  <2>4. sweep'[s] = w
      BY <2>1
  <2> QED
      BY <1>2, <1>3, <1>4, <2>3, <2>4 DEF Exclusive
<1> QED
    BY <1>2, <1>3, <1>5, <1>6, <1>7, SweepMoves DEF SweepsInv

LEMMA SelectsProjects == ASSUME SweepsInv, NEW s \in Sweepers, SelectProjects(s) PROVE SweepsInv'
<1>1. PICK left : left = {ProjectOf[p] : p \in Recent}
    OBVIOUS
<1>2. left \subseteq Swept
    BY <1>1 DEF Recent, SweepsInv, Swept
<1>3. PICK w : w = [sweep[s] EXCEPT !.at = "projects", !.left = left]
    OBVIOUS
<1>4. /\ sweep[s].at = "select" /\ Goes(s, w)
      /\ UNCHANGED <<time, posted, sweepLock, reported, overran, sweepFaults>>
    BY <1>1, <1>3 DEF SelectProjects
<1>5. /\ w \in SweepRecord /\ w.at = "projects" /\ w.left = left /\ w.until = sweep[s].until
      /\ w.own = sweep[s].own /\ w.fetched = sweep[s].fetched /\ w.aborted = sweep[s].aborted
    BY <1>2, <1>3, SweepIs DEF SweepRecord
<1>6. w.own = {} /\ w.fetched = {} /\ sweep[s].until > 0
    BY <1>4, <1>5, SweepIs DEF SweepHeld
<1>7. SweepHeld(w)'
    BY <1>2, <1>5, <1>6 DEF SweepHeld, SweepRecord, Covers
<1>8. overran \/ Exclusive'
    BY <1>4, <1>5, StaysExclusive
<1> QED
    BY <1>4, <1>5, <1>6, <1>7, <1>8, SweepMoves DEF SweepsInv

\* An order of the newest posts is a sequence of some of them.
LEMMA OrderOfSome ==
    ASSUME NEW ps \in SUBSET Posts, NEW all \in NewestOf(ps), NEW k \in Nat, k <= Len(all)
    PROVE  SubSeq(all, 1, k) \in Seq(Posts) /\ ToSet(SubSeq(all, 1, k)) \subseteq ps /\ Len(all) \in Nat
<1>1. Cardinality(ps) \in Nat
    BY ClustersAssumption, FS_Subset, FS_CardinalityType
<1>2. all \in [1..Cardinality(ps) -> ps]
    BY DEF NewestOf, SetToSeqs
<1>3. all \in Seq(ps) /\ Len(all) = Cardinality(ps)
    BY <1>1, <1>2
<1>4. SubSeq(all, 1, k) = [i \in 1..k |-> all[i]]
    BY <1>3
<1>5. \A i \in 1..k : all[i] \in ps
    BY <1>1, <1>2, <1>3
<1>6. SubSeq(all, 1, k) \in [1..k -> ps]
    BY <1>4, <1>5
<1> QED
    BY <1>1, <1>3, <1>4, <1>5, <1>6 DEF ToSet

LEMMA FetchesRecent ==
    ASSUME SweepsInv, NEW project, NEW order \in Fetches(project)
    PROVE  order \in Seq(Posts) /\ ToSet(order) \subseteq {p \in Recent : ProjectOf[p] = project}
<1>1. PICK all \in NewestOf({p \in Recent : ProjectOf[p] = project}) :
          order = SubSeq(all, 1, IF Len(all) > MaxPosts THEN MaxPosts ELSE Len(all))
    BY DEF Fetches
<1>2. {p \in Recent : ProjectOf[p] = project} \in SUBSET Posts
    BY DEF Recent, SweepsInv
<1>3. Len(all) \in Nat
    BY <1>2, OrderOfSome
<1>4. PICK k \in Nat : k = (IF Len(all) > MaxPosts THEN MaxPosts ELSE Len(all)) /\ k <= Len(all)
    BY <1>3, SweepNumbers
<1>5. order = SubSeq(all, 1, k)
    BY <1>1, <1>4
<1> QED
    BY <1>2, <1>4, <1>5, OrderOfSome

\* What the posts of one project yield, that were recent together.
LEMMA FetchFinds ==
    ASSUME SweepsInv, NEW project, NEW order \in Seq(Posts),
           ToSet(order) \subseteq {p \in Recent : ProjectOf[p] = project}
    PROVE  /\ DetectClusters(order) \subseteq SUBSET ToSet(order)
           /\ \A c \in DetectClusters(order) : Coordinated(c)
           /\ Covers(ToSet(order), DetectClusters(order))
<1> DEFINE ps == ToSet(order)
<1>1. /\ \A g \in DetectClusters(order) : Cardinality(g) >= MinCluster /\ \E p \in ps : g = Candidates(p, ps)
      /\ \A p \in ps : Cardinality(Candidates(p, ps)) >= MinCluster => p \in UNION DetectClusters(order)
    BY DetectsAll
<1>2. \A p, q \in ps : ProjectOf[p] = ProjectOf[q] /\ ObservedAt[p] - ObservedAt[q] <= RecentFor
  <2>1. ASSUME NEW p \in ps PROVE /\ ProjectOf[p] = project /\ ObservedAt[p] \in Nat
                                  /\ ObservedAt[p] <= time /\ ObservedAt[p] >= time - RecentFor
      BY ClustersAssumption DEF SweepsInv, Recent
  <2>2. time \in Nat /\ RecentFor \in Nat
      BY SweepNumbers DEF SweepsInv
  <2> QED
      BY <2>1, <2>2
<1>3. \A p \in ps : SameProject(p, ps) = ps
    BY <1>2 DEF SameProject
<1>4. \A g \in DetectClusters(order) : g \subseteq ps
    BY <1>1 DEF Candidates
<1> HIDE DEF ps
<1>5. \A c \in DetectClusters(order) : Coordinated(c)
    BY <1>1, <1>2, <1>4 DEF Coordinated
<1>6. Covers(ps, DetectClusters(order))
    BY <1>1, <1>3 DEF Covers
<1> QED
    BY <1>4, <1>5, <1>6 DEF ps

LEMMA SweepsProject ==
    ASSUME SweepsInv, NEW s \in Sweepers, NEW project \in Swept, SweepProject(s, project)
    PROVE  SweepsInv'
<1>1. /\ sweep[s].at = "projects" /\ project \in sweep[s].left
      /\ UNCHANGED <<time, posted, sweepLock, reported, overran, sweepFaults>>
    BY DEF SweepProject
<1>2. sweep[s] \in SweepRecord /\ SweepHeld(sweep[s]) /\ sweep[s].until > 0
    BY <1>1, SweepIs
<1>3. PICK rest : rest = [sweep[s] EXCEPT !.left = @ \ {project}]
    OBVIOUS
<1>4. /\ rest \in SweepRecord /\ rest.at = "projects" /\ rest.left = sweep[s].left \ {project}
      /\ rest.until = sweep[s].until /\ rest.own = sweep[s].own /\ rest.fetched = sweep[s].fetched
      /\ rest.aborted = sweep[s].aborted
    BY <1>1, <1>2, <1>3 DEF SweepRecord
<1>5. ASSUME NEW w \in SweepRecord, Goes(s, w), SweepHeld(w), w.at = "projects", w.until = sweep[s].until
      PROVE  SweepsInv'
  <2>1. overran \/ Exclusive'
      BY <1>1, <1>5, StaysExclusive
  <2>2. SweepHeld(w)'
      BY <1>1, <1>5 DEF SweepHeld
  <2> QED
      BY <1>1, <1>2, <1>5, <2>1, <2>2, SweepMoves DEF SweepsInv
<1>6. CASE rest.aborted
  <2>1. Goes(s, rest)
      BY <1>3, <1>6 DEF SweepProject
  <2>2. SweepHeld(rest)
      BY <1>1, <1>2, <1>4, <1>6 DEF SweepHeld
  <2> QED
      BY <1>4, <1>5, <2>1, <2>2
<1>7. CASE ~rest.aborted
  <2>1. PICK order \in Fetches(project) :
            Goes(s, [rest EXCEPT !.own = @ \cup DetectClusters(order), !.fetched = @ \cup ToSet(order)])
      BY <1>3, <1>7 DEF SweepProject
  <2>6. order \in Seq(Posts) /\ ToSet(order) \subseteq {p \in Recent : ProjectOf[p] = project}
      BY FetchesRecent
  <2>7. PICK own : own = DetectClusters(order)
      OBVIOUS
  <2>8. PICK ps : ps = ToSet(order)
      OBVIOUS
  <2>9. /\ own \subseteq SUBSET ps /\ \A c \in own : Coordinated(c)
        /\ Covers(ps, own)
      BY <2>6, <2>7, <2>8, FetchFinds
  <2>10. ps \subseteq posted /\ \A p \in ps : ProjectOf[p] = project
      BY <2>6, <2>8 DEF Recent
  <2>11. PICK w : w = [rest EXCEPT !.own = @ \cup own, !.fetched = @ \cup ps]
      OBVIOUS
  <2>12. Goes(s, w)
      BY <2>1, <2>7, <2>8, <2>11
  <2>13. /\ w \in SweepRecord /\ w.at = "projects" /\ w.until = sweep[s].until
         /\ w.own = sweep[s].own \cup own /\ w.fetched = sweep[s].fetched \cup ps
         /\ w.left = sweep[s].left \ {project} /\ w.aborted = FALSE
      BY <1>4, <1>7, <2>9, <2>10, <2>11 DEF SweepRecord, SweepsInv
  <2>14. \A p \in sweep[s].fetched : ProjectOf[p] # project
      BY <1>1, <1>2 DEF SweepHeld
  <2>15. Covers(w.fetched, w.own)
    <3>1. Covers(sweep[s].fetched, sweep[s].own)
        BY <1>1, <1>2, <1>4, <1>7 DEF SweepHeld
    <3>2. \A p \in ps : SameProject(p, w.fetched) = SameProject(p, ps)
        BY <2>10, <2>13, <2>14 DEF SameProject
    <3>3. \A p \in sweep[s].fetched : SameProject(p, w.fetched) = SameProject(p, sweep[s].fetched)
        BY <2>10, <2>13, <2>14 DEF SameProject
    <3> QED
        BY <2>9, <2>13, <3>1, <3>2, <3>3 DEF Covers
  <2>16. SweepHeld(w)
      BY <1>1, <1>2, <2>9, <2>10, <2>13, <2>15 DEF SweepHeld
  <2> QED
      BY <1>5, <2>12, <2>13, <2>16
<1> QED
    BY <1>6, <1>7

LEMMA RaisesProject ==
    ASSUME SweepsInv, NEW s \in Sweepers, NEW project \in Swept, ProjectRaises(s, project)
    PROVE  SweepsInv'
<1>1. /\ sweep[s].at = "projects" /\ project \in sweep[s].left
      /\ sweepFaults' = sweepFaults + 1 /\ sweepFaults < MaxSweepFaults
      /\ UNCHANGED <<time, posted, sweepLock, reported, overran>>
    BY DEF ProjectRaises
<1>2. sweep[s] \in SweepRecord /\ SweepHeld(sweep[s]) /\ sweep[s].until > 0
    BY <1>1, SweepIs
<1>3. sweepFaults' \in 0..MaxSweepFaults
    BY <1>1, SweepNumbers DEF SweepsInv
<1>4. \/ ~sweep[s].aborted /\ \E order \in Fetches(project) : \E found \in SUBSET DetectClusters(order) :
             Goes(s, [sweep[s] EXCEPT !.left = @ \ {project}, !.own = @ \cup found])
      \/ Goes(s, [sweep[s] EXCEPT !.left = @ \ {project}, !.aborted = TRUE, !.own = {}])
    BY DEF ProjectRaises
<1>5. ASSUME NEW w \in SweepRecord, Goes(s, w), SweepHeld(w), w.at = "projects", w.until = sweep[s].until
      PROVE  SweepsInv'
  <2>1. overran \/ Exclusive'
      BY <1>1, <1>5, StaysExclusive
  <2>2. SweepHeld(w)'
      BY <1>1, <1>5 DEF SweepHeld
  <2> QED
      BY <1>1, <1>2, <1>3, <1>5, <2>1, <2>2, SweepMoves DEF SweepsInv
<1>6. ASSUME ~sweep[s].aborted, NEW order \in Fetches(project), NEW found \in SUBSET DetectClusters(order),
             Goes(s, [sweep[s] EXCEPT !.left = @ \ {project}, !.own = @ \cup found])
      PROVE  SweepsInv'
  <2>1. order \in Seq(Posts) /\ ToSet(order) \subseteq {p \in Recent : ProjectOf[p] = project}
      BY FetchesRecent
  <2>2. found \subseteq SUBSET ToSet(order) /\ \A c \in found : Coordinated(c)
      BY <2>1, FetchFinds
  <2>3. ToSet(order) \subseteq posted /\ posted \subseteq Posts
      BY <2>1 DEF Recent, SweepsInv
  <2>4. found \subseteq SUBSET posted /\ found \subseteq SUBSET Posts
      BY <2>2, <2>3
  <2>5. PICK w : w = [sweep[s] EXCEPT !.left = @ \ {project}, !.own = @ \cup found]
      OBVIOUS
  <2>6. /\ w \in SweepRecord /\ w.at = "projects" /\ w.left = sweep[s].left \ {project}
        /\ w.until = sweep[s].until /\ w.fetched = sweep[s].fetched
        /\ w.own = sweep[s].own \cup found /\ w.aborted = FALSE
      BY <1>1, <1>2, <1>6, <2>4, <2>5 DEF SweepRecord
  <2>7. Covers(w.fetched, w.own)
      BY <1>1, <1>2, <1>6, <2>6 DEF SweepHeld, Covers
  <2>8. SweepHeld(w)
      BY <1>1, <1>2, <2>2, <2>4, <2>6, <2>7 DEF SweepHeld
  <2>9. Goes(s, w)
      BY <1>6, <2>5
  <2> QED
      BY <1>5, <2>6, <2>8, <2>9
<1>7. ASSUME Goes(s, [sweep[s] EXCEPT !.left = @ \ {project}, !.aborted = TRUE, !.own = {}])
      PROVE  SweepsInv'
  <2>1. PICK w : w = [sweep[s] EXCEPT !.left = @ \ {project}, !.aborted = TRUE, !.own = {}]
      OBVIOUS
  <2>2. /\ w \in SweepRecord /\ w.at = "projects" /\ w.left = sweep[s].left \ {project}
        /\ w.until = sweep[s].until /\ w.fetched = sweep[s].fetched /\ w.own = {} /\ w.aborted = TRUE
      BY <1>1, <1>2, <2>1 DEF SweepRecord
  <2>3. SweepHeld(w)
      BY <1>1, <1>2, <2>2 DEF SweepHeld
  <2> QED
      BY <1>5, <1>7, <2>1, <2>2, <2>3
<1> QED
    BY <1>4, <1>6, <1>7

LEMMA CommitsSweep == ASSUME SweepsInv, NEW s \in Sweepers, CommitSweep(s) PROVE SweepsInv'
<1>1. PICK w : w = [sweep[s] EXCEPT !.at = "release"]
    OBVIOUS
<1>2. /\ sweep[s].at = "projects" /\ reported' = reported \cup sweep[s].own /\ Goes(s, w)
      /\ UNCHANGED <<time, posted, sweepLock, overran, sweepFaults>>
    BY <1>1 DEF CommitSweep
<1>3. sweep[s] \in SweepRecord /\ SweepHeld(sweep[s]) /\ sweep[s].until > 0
    BY <1>2, SweepIs
<1>4. /\ w \in SweepRecord /\ w.at = "release" /\ w.left = sweep[s].left /\ w.own = sweep[s].own
      /\ w.until = sweep[s].until /\ w.fetched = sweep[s].fetched /\ w.aborted = sweep[s].aborted
    BY <1>1, <1>3 DEF SweepRecord
<1>5. ~w.aborted => Covers(w.fetched, reported')
    BY <1>2, <1>3, <1>4 DEF SweepHeld, Covers
<1>6. SweepHeld(w)'
    BY <1>2, <1>3, <1>4, <1>5 DEF SweepHeld
<1>7. overran \/ Exclusive'
    BY <1>2, <1>4, StaysExclusive
<1>8. \A c \in sweep[s].own : c \in SUBSET Posts /\ Coordinated(c)
    BY <1>3 DEF SweepHeld, SweepRecord
<1> QED
    BY <1>2, <1>3, <1>4, <1>6, <1>7, <1>8, SweepMoves DEF SweepsInv

\* A sweep that is over, with the key deleted or not.
LEMMA EndsSweep ==
    ASSUME SweepsInv, NEW s \in Sweepers, sweep[s].at # "idle", Goes(s, NoSweep), sweepLock' \in {0, sweepLock},
           sweepFaults' \in 0..MaxSweepFaults, UNCHANGED <<time, posted, reported, overran>>
    PROVE  SweepsInv'
<1>1. overran \/ Exclusive'
    BY NoSweepHeld, StaysExclusive
<1>2. sweepLock' \in 0..(LastTime + LockTtl)
    BY SweepNumbers DEF SweepsInv
<1> QED
    BY <1>1, <1>2, NoSweepHeld, SweepMoves

LEMMA StoresPost == ASSUME SweepsInv, NEW p \in Posts, StorePost(p) PROVE SweepsInv'
<1>1. /\ posted' = posted \cup {p} /\ ObservedAt[p] <= time
      /\ UNCHANGED <<time, sweepLock, sweep, reported, overran, sweepFaults>>
    BY DEF StorePost
<1>2. \A s \in Sweepers : SweepHeld(sweep[s])'
    BY <1>1 DEF SweepsInv, SweepHeld
<1> QED
    BY <1>1, <1>2 DEF SweepsInv, Exclusive

LEMMA PassesTime == ASSUME SweepsInv, TimePasses PROVE SweepsInv'
<1>1. /\ time < LastTime /\ time' = time + 1
      /\ sweepLock' = (IF sweepLock <= time' THEN 0 ELSE sweepLock)
      /\ overran' = (overran \/ \E s \in Sweepers : sweep[s].at # "idle" /\ sweep[s].until <= time')
      /\ UNCHANGED <<posted, sweep, reported, sweepFaults>>
    BY DEF TimePasses
<1>2. time \in Nat /\ time' \in 0..LastTime /\ sweepLock' \in 0..(LastTime + LockTtl) /\ time <= time'
    BY <1>1, SweepNumbers DEF SweepsInv
<1>3. \A p \in posted' : ObservedAt[p] <= time'
    BY <1>1, <1>2, ClustersAssumption DEF SweepsInv
<1>4. overran' \in BOOLEAN
    BY <1>1 DEF SweepsInv
<1>5. overran' \/ Exclusive'
  <2> SUFFICES ASSUME ~overran' PROVE Exclusive'
      OBVIOUS
  <2>1. Exclusive /\ \A s \in Sweepers : sweep[s].at # "idle" => ~(sweep[s].until <= time')
      BY <1>1 DEF SweepsInv
  <2>2. ASSUME NEW s \in Sweepers, sweep[s].at # "idle" PROVE sweep[s].until = sweepLock' /\ sweepLock' > time'
    <3>1. sweep[s].until = sweepLock /\ ~(sweepLock <= time') /\ sweepLock \in Nat
        BY <2>1, <2>2, SweepNumbers DEF Exclusive, SweepsInv
    <3> QED
        BY <1>1, <1>2, <3>1
  <2> QED
      BY <1>1, <2>1, <2>2 DEF Exclusive
<1>6. \A s \in Sweepers : SweepHeld(sweep[s])' /\ (sweep'[s].at # "idle" => sweep'[s].until > 0)
    BY <1>1 DEF SweepsInv, SweepHeld
<1> QED
    BY <1>1, <1>2, <1>3, <1>4, <1>5, <1>6 DEF SweepsInv

LEMMA SweepsNext == SweepsInv /\ [ClustersNext]_clustersVars => SweepsInv'
<1> SUFFICES ASSUME SweepsInv, [ClustersNext]_clustersVars PROVE SweepsInv'
    OBVIOUS
<1>1. CASE UNCHANGED clustersVars
  <2>1. UNCHANGED <<time, posted, sweepLock, sweep, reported, overran, sweepFaults>>
      BY <1>1 DEF clustersVars
  <2>2. \A s \in Sweepers : SweepHeld(sweep[s])'
      BY <2>1 DEF SweepsInv, SweepHeld
  <2> QED
      BY <2>1, <2>2 DEF SweepsInv, Exclusive
<1>2. ASSUME NEW s \in Sweepers, ReleaseLock(s) PROVE SweepsInv'
    BY <1>2, EndsSweep DEF ReleaseLock, SweepsInv
<1>3. ASSUME NEW s \in Sweepers, SweepDies(s) PROVE SweepsInv'
  <2>1. sweepFaults' \in 0..MaxSweepFaults
      BY <1>3, SweepNumbers DEF SweepDies, SweepsInv
  <2> QED
      BY <1>3, <2>1, EndsSweep DEF SweepDies
<1> QED
    BY <1>1, <1>2, <1>3, PassesTime, StoresPost, StartsSweep, SelectsProjects, CommitsSweep, SweepsProject,
       RaisesProject DEF ClustersNext

\* What SweepsInv says in the words of the module.
LEMMA SweepsTell == SweepsInv => ClustersTypeOK /\ ClustersReported
<1> SUFFICES ASSUME SweepsInv PROVE ClustersTypeOK /\ ClustersReported
    OBVIOUS
<1>1. ASSUME NEW s \in Sweepers
      PROVE  /\ sweep[s].at \in {"idle", "select", "projects", "release"}
             /\ sweep[s].left \subseteq Swept /\ sweep[s].aborted \in BOOLEAN
             /\ UNION sweep[s].own \subseteq posted /\ sweep[s].fetched \subseteq posted
             /\ sweep[s].aborted => sweep[s].own = {}
             /\ sweep[s].at # "idle" => sweep[s].until > 0
    BY SweepIs DEF SweepHeld, SweepRecord
<1>2. ASSUME NEW s \in Sweepers, sweep[s].at = "release", ~sweep[s].aborted PROVE Covers(sweep[s].fetched, reported)
    BY <1>2, SweepIs DEF SweepHeld
<1>3. ASSUME ~overran PROVE Cardinality({s \in Sweepers : sweep[s].at # "idle"}) <= 1
  <2>1. PICK S : S = {s \in Sweepers : sweep[s].at # "idle"}
      OBVIOUS
  <2>2. \A s, v \in S : s = v
      BY <1>3, <2>1 DEF SweepsInv, Exclusive
  <2>3. CASE S = {}
      BY <2>1, <2>3, FS_EmptySet
  <2>4. ASSUME NEW s \in S PROVE Cardinality(S) = 1
    <3>1. S = {s}
        BY <2>2
    <3> QED
        BY <3>1, FS_Singleton
  <2> QED
      BY <2>1, <2>3, <2>4
<1>4. ClustersTypeOK
    BY <1>1 DEF ClustersTypeOK, SweepsInv
<1> QED
    BY <1>2, <1>3, <1>4 DEF ClustersReported, Covers, SweepsInv, Coordinated

\* Of any posts, sweeps, intervals and clocks: a sweep between two of its steps has what the rest of
\* it relies on (run_cib_sweep).
THEOREM ClustersTypeCorrect == ClustersSpec => []ClustersTypeOK
    BY SweepsTell, SweepsInit, SweepsNext, PTL DEF ClustersSpec

\* Whatever the posts, their times and likenesses and the order in which they are compared: once a
\* sweep that was not aborted has committed, each post it fetched that is like enough others is in a
\* reported cluster; every reported cluster is large enough, of one project and recent together; and
\* two sweeps run at once only after one outlived its key (run_cib_sweep, detect_cib_cluster).
THEOREM ClustersCorrect == ClustersSpec => []ClustersReported
    BY SweepsTell, SweepsInit, SweepsNext, PTL DEF ClustersSpec

-----------------------------------------------------------------------------
(* What is left of the types *)

\* A page has Limit rows, or all if there are no more: no two rows have as many before them.
LEMMA FullPage ==
    ASSUME NEW q \in Query, NEW rows \in SUBSET Feed
    PROVE  /\ Cardinality(FirstRows(rows, q)) <= Limit
           /\ Cardinality(rows) > Limit => Cardinality(FirstRows(rows, q)) = Limit
<1> DEFINE rank(e) == Cardinality(Ahead(e, rows, q))
           page == FirstRows(rows, q)
           rest == rows \ page
<1>1. IsFiniteSet(rows) /\ Limit \in Nat \ {0}
    BY EventFeedAssumption, FS_Subset
<1>2. page \subseteq rows /\ \A e \in rows : e \in page <=> rank(e) < Limit
    BY DEF FirstRows
<1>3. \A e \in rows : Ahead(e, rows, q) \subseteq rows /\ IsFiniteSet(Ahead(e, rows, q)) /\ rank(e) \in Nat
  <2> SUFFICES ASSUME NEW e \in rows
               PROVE  Ahead(e, rows, q) \subseteq rows /\ IsFiniteSet(Ahead(e, rows, q)) /\ rank(e) \in Nat
      OBVIOUS
  <2>1. Ahead(e, rows, q) \subseteq rows
      BY DEF Ahead
  <2> QED
      BY <1>1, <2>1, FS_Subset, FS_CardinalityType
<1>4. ASSUME NEW e \in rows, NEW f \in rows, Less(SortKey(e, q), SortKey(f, q)) PROVE rank(f) < rank(e)
  <2>1. SortKey(e, q) \in Keys /\ SortKey(f, q) \in Keys /\ \A g \in rows : SortKey(g, q) \in Keys
      BY KeysAre
  <2>2. f \in Ahead(e, rows, q) /\ f \notin Ahead(f, rows, q)
      BY <1>4, <2>1, LessOrders DEF Ahead
  <2>3. Ahead(f, rows, q) \subseteq Ahead(e, rows, q)
    <3>1. ASSUME NEW g \in rows, Less(SortKey(f, q), SortKey(g, q)) PROVE Less(SortKey(e, q), SortKey(g, q))
        BY <1>4, <2>1, <3>1, LessOrders
    <3> QED
        BY <3>1 DEF Ahead
  <2>4. Cardinality(Ahead(f, rows, q)) <= Cardinality(Ahead(e, rows, q)) /\ rank(f) # rank(e)
      BY <1>3, <2>2, <2>3, FS_Subset
  <2> QED
      BY <1>3, <2>4
<1>5. \A e, f \in rows : e # f => Less(SortKey(e, q), SortKey(f, q)) \/ Less(SortKey(f, q), SortKey(e, q))
  <2> SUFFICES ASSUME NEW e \in rows, NEW f \in rows, e # f
               PROVE  Less(SortKey(e, q), SortKey(f, q)) \/ Less(SortKey(f, q), SortKey(e, q))
      OBVIOUS
  <2>1. SortKey(e, q) \in Keys /\ SortKey(f, q) \in Keys /\ SortKey(e, q) # SortKey(f, q)
      BY KeysAre
  <2> QED
      BY <2>1, LessOrders
<1>6. \A e, f \in rows : e # f => rank(e) # rank(f)
    BY <1>3, <1>4, <1>5
<1> HIDE DEF rank, page
<1>7. IsFiniteSet(page) /\ Cardinality(page) \in Nat
    BY <1>1, <1>2, FS_Subset, FS_CardinalityType
<1>8. Cardinality(page) <= Limit
  <2> DEFINE r == [e \in page |-> rank(e)]
  <2>1. r \in [page -> 0..(Limit - 1)] /\ \A e, f \in page : e # f => r[e] # r[f]
      BY <1>1, <1>2, <1>3, <1>6
  <2>2. IsFiniteSet(0..(Limit - 1)) /\ Cardinality(0..(Limit - 1)) = Limit
    <3>1. 0 \in Int /\ Limit - 1 \in Int
        BY <1>1
    <3>2. /\ IsFiniteSet(0..(Limit - 1))
          /\ Cardinality(0..(Limit - 1)) = IF 0 > Limit - 1 THEN 0 ELSE (Limit - 1) - 0 + 1
        BY <3>1, FS_Interval
    <3> QED
        BY <1>1, <3>2
  <2> HIDE DEF r
  <2>3. ~(Cardinality(page) > Cardinality(0..(Limit - 1)))
      BY <1>7, <2>1, <2>2, FS_PigeonHole
  <2> QED
      BY <1>1, <1>7, <2>2, <2>3
<1>9. ASSUME Cardinality(rows) > Limit PROVE Cardinality(page) = Limit
  <2>1. rest # {}
    <3>1. page # rows
        BY <1>1, <1>7, <1>8, <1>9
    <3> QED
        BY <1>2, <3>1
  <2> DEFINE ranks == {rank(e) : e \in rest}
  <2>2. ranks \in SUBSET Nat /\ ranks # {}
      BY <1>3, <2>1
  <2>3. PICK n \in ranks : \A m \in ranks : n <= m
      BY <2>2, LeastNatural
  <2>4. PICK f \in rest : n = rank(f)
      OBVIOUS
  <2>5. \A e \in rest : rank(f) <= rank(e)
      BY <2>3, <2>4
  <2>6. Ahead(f, rows, q) \subseteq page
    <3> SUFFICES ASSUME NEW e \in Ahead(f, rows, q) PROVE e \in page
        OBVIOUS
    <3>1. e \in rows /\ Less(SortKey(f, q), SortKey(e, q))
        BY DEF Ahead
    <3>2. rank(e) < rank(f) /\ rank(e) \in Nat /\ rank(f) \in Nat
        BY <1>3, <1>4, <3>1
    <3> QED
        BY <2>5, <3>1, <3>2
  <2>7. Cardinality(Ahead(f, rows, q)) <= Cardinality(page)
      BY <1>7, <2>6, FS_Subset
  <2>8. rank(f) \in Nat /\ ~(rank(f) < Limit)
      BY <1>2, <1>3
  <2>9. rank(f) <= Cardinality(page)
      BY <2>7 DEF rank
  <2> QED
      BY <1>1, <1>7, <1>8, <2>8, <2>9
<1> QED
    BY <1>8, <1>9 DEF page

\* What WalkInv does not say of the state: whole pages, and a cursor behind the last row of the last.
Whole(pages, done) ==
    \A i \in DOMAIN pages :
        /\ Cardinality(pages[i]) <= Limit
        /\ i < Len(pages) \/ ~done => Cardinality(pages[i]) = Limit
LastOf(pages, q, cursor) ==
    IF pages = <<>> THEN cursor = NoKey
    ELSE LET page == pages[Len(pages)] IN \E e \in page : IsLast(e, page, q) /\ cursor = CursorOf(e, q)
WalkRest ==
    /\ hidden \subseteq feed /\ feedChanges \in 0..MaxFeedChanges /\ reader.query \in Queries
    /\ Whole(reader.pages, reader.at = "done")
    /\ reader.at \in {"scoped", "between"} => LastOf(reader.pages, reader.query, reader.cursor)

LEMMA WalkRestInit == EventFeedInit => WalkRest
<1> SUFFICES ASSUME EventFeedInit PROVE WalkRest
    OBVIOUS
<1>1. NoQuery \in Queries
    BY SomeQuery DEF NoQuery
<1>2. PICK w : w = Unread
    OBVIOUS
<1>3. w.query = NoQuery /\ w.pages = <<>> /\ w.at = "idle"
    BY <1>2 DEF Unread
<1>4. Whole(w.pages, w.at = "done")
    BY <1>3 DEF Whole
<1> QED
    BY <1>1, <1>2, <1>3, <1>4, EventFeedAssumption DEF EventFeedInit, WalkRest

LEMMA ReadScopeRests ==
    ASSUME WalkInv, WalkRest, ReadScope
    PROVE  WalkRest'
<1>1. hidden' = hidden /\ feed' = feed /\ feedChanges' = feedChanges
    BY DEF ReadScope
<1>2. CASE reader.at = "idle"
  <2>1. PICK q \in Queries : reader' = [Unread EXCEPT !.at = "scoped", !.query = q, !.scope = scope, !.bound = bound,
                                               !.steady = Matching(q, feed, hidden, scope, bound)]
      BY <1>2 DEF ReadScope
  <2>2. reader'.query = q /\ reader'.pages = <<>> /\ reader'.cursor = NoKey /\ reader'.at = "scoped"
      BY <2>1 DEF Unread
  <2>3. Whole(reader'.pages, reader'.at = "done") /\ LastOf(reader'.pages, reader'.query, reader'.cursor)
      BY <2>2 DEF Whole, LastOf
  <2> QED
      BY <1>1, <2>2, <2>3 DEF WalkRest, Whole, LastOf, IsLast
<1>3. CASE reader.at = "between"
  <2>1. reader' = [reader EXCEPT !.at = "scoped", !.scope = scope, !.bound = bound] /\ reader \in Walker
      BY <1>3 DEF ReadScope, WalkInv
  <2>2. /\ reader'.query = reader.query /\ reader'.pages = reader.pages /\ reader'.cursor = reader.cursor
        /\ reader'.at = "scoped"
      BY <2>1 DEF Walker
  <2>3. Whole(reader'.pages, reader'.at = "done") /\ LastOf(reader'.pages, reader'.query, reader'.cursor)
      BY <1>3, <2>2 DEF WalkRest, Whole
  <2> QED
      BY <1>1, <2>2, <2>3 DEF WalkRest, Whole, LastOf, IsLast
<1> QED
    BY <1>2, <1>3 DEF ReadScope

LEMMA ReadPageRests ==
    ASSUME WalkInv, WalkRest, ReadPage
    PROVE  WalkRest'
<1>1. hidden' = hidden /\ feed' = feed /\ feedChanges' = feedChanges /\ reader.at = "scoped"
    BY DEF ReadPage
<1>2. PICK q \in Query, rows \in SUBSET Feed, page \in SUBSET Feed, pages \in Seq(SUBSET Feed) : Turned(q, rows, page, pages)
    BY ReadPageIs
<1>3. /\ pages = reader.pages /\ page = FirstRows(rows, q) /\ reader'.pages = Append(pages, page) /\ reader'.query = q
      /\ q \in Queries
      /\ \/ /\ Cardinality(rows) > Limit /\ reader'.at = "between"
            /\ \E last \in page : IsLast(last, page, q) /\ reader'.cursor = CursorOf(last, q)
         \/ Cardinality(rows) <= Limit /\ reader'.at = "done"
    BY <1>2 DEF Turned
<1>4. Cardinality(page) <= Limit /\ (Cardinality(rows) > Limit => Cardinality(page) = Limit)
    BY <1>3, FullPage
<1>5. PICK n \in Nat : n = Len(pages)
    OBVIOUS
<1>6. PICK longer \in Seq(SUBSET Feed) : longer = Append(pages, page)
    BY <1>2 DEF Turned
<1>7. /\ DOMAIN longer = 1..(n + 1) /\ Len(longer) = n + 1 /\ longer[n + 1] = page /\ longer # <<>>
      /\ \A i \in 1..n : longer[i] = pages[i] /\ i \in DOMAIN pages
    BY <1>5, <1>6
<1>8. ASSUME NEW i \in 1..n PROVE Cardinality(longer[i]) = Limit
    BY <1>1, <1>3, <1>7 DEF WalkRest, Whole
<1>9. ASSUME NEW i \in 1..(n + 1)
      PROVE  /\ Cardinality(longer[i]) <= Limit
             /\ i < n + 1 \/ reader'.at # "done" => Cardinality(longer[i]) = Limit
  <2>1. CASE i \in 1..n
      BY <1>8, <2>1, EventFeedAssumption
  <2>2. CASE i = n + 1
      BY <1>3, <1>4, <1>7, <2>2
  <2> QED
      BY <2>1, <2>2
<1>10. Whole(reader'.pages, reader'.at = "done")
    BY <1>3, <1>6, <1>7, <1>9 DEF Whole
<1>11. ASSUME reader'.at \in {"scoped", "between"} PROVE LastOf(reader'.pages, reader'.query, reader'.cursor)
  <2>1. PICK last \in page : IsLast(last, page, q) /\ reader'.cursor = CursorOf(last, q)
      BY <1>3, <1>11
  <2>2. LastOf(longer, q, reader'.cursor)
      BY <1>7, <2>1 DEF LastOf
  <2> QED
      BY <1>3, <1>6, <2>2
<1> QED
    BY <1>1, <1>3, <1>10, <1>11 DEF WalkRest, Whole, LastOf, IsLast

LEMMA WalkRestNext == WalkInv /\ WalkRest /\ [EventFeedNext]_feedVars => WalkRest'
<1> SUFFICES ASSUME WalkInv, WalkRest, [EventFeedNext]_feedVars PROVE WalkRest'
    OBVIOUS
<1>1. CASE UNCHANGED feedVars
  <2>1. /\ reader' = reader /\ hidden' = hidden /\ feed' = feed /\ feedChanges' = feedChanges
        /\ Whole(reader'.pages, reader'.at = "done") = Whole(reader.pages, reader.at = "done")
        /\ LastOf(reader'.pages, reader'.query, reader'.cursor) = LastOf(reader.pages, reader.query, reader.cursor)
      BY <1>1 DEF feedVars
  <2> QED
      BY <2>1 DEF WalkRest, Whole, LastOf, IsLast
<1>2. ASSUME NEW events, NEW old, NEW rows, NEW sources, Changes(events, old, rows, sources), old \subseteq events
      PROVE  WalkRest'
  <2>1. PICK kept : reader' = [reader EXCEPT !.steady = kept]
      BY <1>2 DEF Changes
  <2>2. /\ reader'.query = reader.query /\ reader'.pages = reader.pages /\ reader'.cursor = reader.cursor
        /\ reader'.at = reader.at
      BY <2>1 DEF WalkInv, Walker
  <2>3. hidden' \subseteq feed' /\ feedChanges' \in 0..MaxFeedChanges
      BY <1>2, EventFeedAssumption DEF Changes, WalkRest
  <2>4. /\ Whole(reader'.pages, reader'.at = "done")
        /\ reader'.at \in {"scoped", "between"} => LastOf(reader'.pages, reader'.query, reader'.cursor)
      BY <2>2 DEF WalkRest
  <2> QED
      BY <2>2, <2>3, <2>4 DEF WalkRest, Whole, LastOf, IsLast
<1>3. ASSUME NEW e, StoreInFeed(e) \/ HideEvent(e) \/ DropEvent(e) PROVE WalkRest'
  <2>1. hidden \subseteq feed /\ hidden \ {e} \subseteq feed \ {e} /\ hidden \subseteq feed \cup {e}
      BY DEF WalkRest
  <2> QED
      BY <1>2, <1>3, <2>1 DEF StoreInFeed, HideEvent, DropEvent
<1>4. ASSUME NEW r, EditScope(r) \/ BindSource(r) PROVE WalkRest'
    BY <1>2, <1>4 DEF EditScope, BindSource, WalkRest
<1> QED
    BY <1>1, <1>3, <1>4, ReadScopeRests, ReadPageRests DEF EventFeedNext

LEMMA WalkTyped == WalkInv /\ WalkRest => EventFeedTypeOK
<1> SUFFICES ASSUME WalkInv, WalkRest PROVE EventFeedTypeOK
    OBVIOUS
<1>1. /\ reader.at \in {"idle", "scoped", "between", "done"} /\ reader.pages \in Seq(SUBSET Feed)
    BY DEF WalkInv, Walker
<1>2. reader.steady \subseteq feed
    BY DEF WalkInv, Matching
<1> QED
    BY <1>1, <1>2 DEF EventFeedTypeOK, WalkInv, WalkRest, Whole, LastOf, Modes

\* Whatever the feed, the requests, the size of a page and the changes meanwhile: the pages before the last
\* are full, and the cursor is that of the last row of the last page (list_events).
THEOREM WalkTypeCorrect == EventFeedSpec => []EventFeedTypeOK
BY WalkInit, WalkStep, WalkRestInit, WalkRestNext, WalkTyped, PTL DEF EventFeedSpec

\* What RerankInv does not say of the state: no two reranks hold a row, and one that is aborted none.
Apart(a, b) == \A e \in Ranked : a[e] = NoScore \/ b[e] = NoScore
Alone(s) == s.streak \in 0..(Breaker - 1) /\ (s.aborted => s.own = NoScores)
RerankRest ==
    /\ aiFaults \in 0..MaxAiFaults
    /\ \A t \in Rerankers : Alone(reranker[t])
    /\ \A t, u \in Rerankers : t # u => Apart(reranker[t].own, reranker[u].own)

LEMMA NoneAlone ==
    /\ Alone(Unemployed) /\ Unemployed.own = NoScores
    /\ \A own : Apart(NoScores, own)
BY RerankAssumption DEF Alone, Unemployed, Apart, NoScores

LEMMA RerankRestInit == RerankInit => RerankRest
<1> SUFFICES ASSUME RerankInit PROVE RerankRest
    OBVIOUS
<1>1. PICK none : none = Unemployed
    OBVIOUS
<1>2. \A t \in Rerankers : reranker[t] = none
    BY <1>1 DEF RerankInit
<1>3. Alone(none) /\ \A own : Apart(none.own, own)
    BY <1>1, NoneAlone
<1> QED
    BY <1>2, <1>3, RerankAssumption DEF RerankInit, RerankRest

LEMMA ThreadRests ==
    ASSUME RerankInv, RerankRest, NEW t \in Rerankers, NEW s, Works(t, s), Alone(s),
           \A u \in Rerankers \ {t} : Apart(s.own, reranker[u].own), aiFaults' \in 0..MaxAiFaults
    PROVE  RerankRest'
<1>1. \A u \in Rerankers : reranker'[u] = IF u = t THEN s ELSE reranker[u]
    BY DEF Works, RerankInv, RerankRows
<1>2. \A u \in Rerankers : Alone(reranker'[u])
    BY <1>1 DEF RerankRest
<1>3. \A u, v \in Rerankers : u # v => Apart(reranker'[u].own, reranker'[v].own)
  <2> SUFFICES ASSUME NEW u \in Rerankers, NEW v \in Rerankers, u # v PROVE Apart(reranker'[u].own, reranker'[v].own)
      OBVIOUS
  <2>1. CASE u = t
      BY <1>1, <2>1
  <2>2. CASE v = t
    <3>1. Apart(s.own, reranker[u].own)
        BY <2>2
    <3> QED
        BY <1>1, <2>2, <3>1 DEF Apart
  <2>3. CASE u # t /\ v # t
      BY <1>1, <2>3 DEF RerankRest
  <2> QED
      BY <2>1, <2>2, <2>3
<1>4. \A u \in Rerankers : Alone(reranker[u])'
    BY <1>2 DEF Alone
<1>5. \A u, v \in Rerankers : u # v => Apart(reranker[u].own, reranker[v].own)'
    BY <1>3 DEF Apart
<1> QED
    BY <1>4, <1>5 DEF RerankRest

\* A thread that holds no row ...
LEMMA FreeRests ==
    ASSUME RerankInv, RerankRest, NEW t \in Rerankers, NEW s, Works(t, s),
           s.own = NoScores, s.streak = 0, s.aborted = FALSE, aiFaults' \in 0..MaxAiFaults
    PROVE  RerankRest'
<1>1. Alone(s)
    BY RerankAssumption DEF Alone
<1> QED
    BY <1>1, NoneAlone, ThreadRests

\* ... or the rows that it held.
LEMMA HoldingRests ==
    ASSUME RerankInv, RerankRest, NEW t \in Rerankers, NEW s, Works(t, s),
           s.streak \in 0..(Breaker - 1), s.aborted = reranker[t].aborted, s.own = reranker[t].own,
           aiFaults' \in 0..MaxAiFaults
    PROVE  RerankRest'
<1>1. Alone(s)
    BY DEF Alone, RerankRest
<1>2. \A u \in Rerankers \ {t} : Apart(s.own, reranker[u].own)
    BY DEF RerankRest
<1> QED
    BY <1>1, <1>2, ThreadRests

LEMMA FaultsRest == RerankRest /\ (Stays \/ Fault) => aiFaults' \in 0..MaxAiFaults
BY RerankAssumption DEF RerankRest, Stays, Fault

LEMMA AskRests ==
    ASSUME RerankInv, RerankRest, NEW t \in Rerankers, AskModels(t)
    PROVE  RerankRest'
<1>1. PICK s \in Thread : s = reranker[t]
    BY DEF RerankInv, RerankRows, Worker
<1>2. aiFaults' \in 0..MaxAiFaults /\ s.streak \in 0..(Breaker - 1) /\ Breaker \in Nat \ {0}
    BY <1>1, RerankAssumption DEF AskModels, RerankRest, Alone
<1>3. PICK p : p = [s EXCEPT !.at = "events", !.left = Tail(s.left), !.given = NoScore]
    OBVIOUS
<1>4. p = Passes(t) /\ p.own = s.own /\ p.aborted = s.aborted /\ p.streak = s.streak
    BY <1>1, <1>3 DEF Passes, Thread
<1>5. CASE Works(t, Passes(t))
    BY <1>1, <1>2, <1>4, <1>5, HoldingRests
<1>6. ASSUME NEW x \in Adjustments,
             Works(t, [reranker[t] EXCEPT !.at = "update", !.streak = 0, !.given = Clamped(ScoreOf[First(t)], x)])
      PROVE  RerankRest'
  <2>1. PICK g : g = Clamped(ScoreOf[First(t)], x)
      OBVIOUS
  <2>2. PICK q : q = [s EXCEPT !.at = "update", !.streak = 0, !.given = g]
      OBVIOUS
  <2>3. q.own = s.own /\ q.aborted = s.aborted /\ q.streak = 0
      BY <2>2 DEF Thread
  <2>4. Works(t, q)
      BY <1>1, <1>6, <2>1, <2>2
  <2> QED
      BY <1>1, <1>2, <2>3, <2>4, HoldingRests
<1>7. CASE reranker[t].streak + 1 >= Breaker /\ Works(t, [reranker[t] EXCEPT !.left = <<>>])
  <2>1. PICK q : q = [s EXCEPT !.left = <<>>]
      OBVIOUS
  <2>2. q.own = s.own /\ q.aborted = s.aborted /\ q.streak = s.streak
      BY <2>1 DEF Thread
  <2> QED
      BY <1>1, <1>2, <1>7, <2>1, <2>2, HoldingRests
<1>8. CASE ~(reranker[t].streak + 1 >= Breaker) /\ Works(t, [Passes(t) EXCEPT !.streak = @ + 1])
  <2>1. PICK n \in 0..(Breaker - 1) : n = s.streak + 1
      BY <1>1, <1>2, <1>8
  <2>2. PICK q : q = [p EXCEPT !.streak = n]
      OBVIOUS
  <2>3. q.own = s.own /\ q.aborted = s.aborted /\ q.streak = n
      BY <1>3, <1>4, <2>2 DEF Thread
  <2>4. Works(t, q)
      BY <1>4, <1>8, <2>1, <2>2
  <2> QED
      BY <1>1, <2>1, <2>3, <2>4, <1>2, HoldingRests
<1> QED
    BY <1>5, <1>6, <1>7, <1>8 DEF AskModels

\* A row is written only where no other rerank holds it.
LEMMA UpdateRests ==
    ASSUME RerankInv, RerankRest, NEW t \in Rerankers, UpdateScore(t)
    PROVE  RerankRest'
<1>1. PICK s \in Thread : s = reranker[t]
    BY DEF RerankInv, RerankRows, Worker
<1>2. aiFaults' \in 0..MaxAiFaults
    BY FaultsRest DEF UpdateScore
<1>3. s.streak \in 0..(Breaker - 1)
    BY <1>1 DEF RerankRest, Alone
<1>4. PICK p : p = [s EXCEPT !.at = "events", !.left = Tail(s.left), !.given = NoScore]
    OBVIOUS
<1>5. p = Passes(t) /\ p.own = s.own /\ p.aborted = s.aborted /\ p.streak = s.streak
    BY <1>1, <1>4 DEF Passes, Thread
<1>6. CASE ~s.aborted /\ ~Locked(t) /\ Works(t, [Passes(t) EXCEPT !.own[First(t)] = reranker[t].given])
  <2>1. PICK own, e : own = [s.own EXCEPT ![e] = s.given] /\ e = First(t)
      OBVIOUS
  <2>2. PICK q : q = [p EXCEPT !.own = own]
      OBVIOUS
  <2>3. q.own = own /\ q.aborted = s.aborted /\ q.streak = s.streak
      BY <1>4, <1>5, <2>2 DEF Thread
  <2>4. Works(t, q)
    <3>1. [p EXCEPT !.own[e] = s.given] = [p EXCEPT !.own = [p.own EXCEPT ![e] = s.given]]
        BY Zenon
    <3> QED
        BY <1>1, <1>5, <1>6, <2>1, <2>2, <3>1
  <2>5. Alone(q)
      BY <1>3, <1>6, <2>3 DEF Alone
  <2>6. ASSUME NEW u \in Rerankers \ {t} PROVE Apart(q.own, reranker[u].own)
    <3>1. reranker[u].own[e] = NoScore
        BY <1>6, <2>1 DEF Locked
    <3>2. Apart(s.own, reranker[u].own)
        BY <1>1 DEF RerankRest
    <3>3. s.own \in [Ranked -> Scores]
        BY DEF Thread, FittingRows
    <3>4. \A f \in Ranked : f # e => own[f] = s.own[f]
        BY <2>1, <3>3
    <3> QED
        BY <2>3, <3>1, <3>2, <3>4 DEF Apart
  <2> QED
      BY <1>2, <2>4, <2>5, <2>6, ThreadRests
<1>7. CASE Works(t, Passes(t))
    BY <1>1, <1>2, <1>3, <1>5, <1>7, HoldingRests
<1>8. CASE Works(t, [Passes(t) EXCEPT !.aborted = TRUE, !.own = NoScores])
  <2>1. PICK q : q = [p EXCEPT !.aborted = TRUE, !.own = NoScores]
      OBVIOUS
  <2>2. q.own = NoScores /\ q.streak = s.streak
      BY <1>4, <1>5, <2>1 DEF Thread
  <2>3. Alone(q)
      BY <1>3, <2>2 DEF Alone
  <2> QED
      BY <1>2, <1>5, <1>8, <2>1, <2>2, <2>3, NoneAlone, ThreadRests
<1> QED
    BY <1>1, <1>6, <1>7, <1>8 DEF UpdateScore

LEMMA ResignRests ==
    ASSUME RerankInv, RerankRest, NEW t \in Rerankers, Works(t, Unemployed), aiFaults' \in 0..MaxAiFaults
    PROVE  RerankRest'
BY NoneAlone, ThreadRests

LEMMA RerankRestNext == RerankInv /\ RerankRest /\ [RerankNext]_rerankVars => RerankRest'
<1> SUFFICES ASSUME RerankInv, RerankRest, [RerankNext]_rerankVars PROVE RerankRest'
    OBVIOUS
<1>1. CASE UNCHANGED <<reranker, aiFaults>>
    BY <1>1 DEF RerankRest, Alone, Apart
<1>2. CASE UNCHANGED rerankVars \/ KeyExpires \/ \E a \in Actors : SendAi(a)
    BY <1>1, <1>2 DEF rerankVars, KeyExpires, SendAi
<1>4. ASSUME NEW t \in Rerankers, NEW m \in aiQueue, TakeRerank(t, m) PROVE RerankRest'
  <2>1. PICK order : Works(t, [Unemployed EXCEPT !.at = "events", !.of = m, !.left = order])
      BY <1>4 DEF TakeRerank
  <2>2. PICK s : s = [Unemployed EXCEPT !.at = "events", !.of = m, !.left = order]
      OBVIOUS
  <2>3. s.own = NoScores /\ s.streak = 0 /\ s.aborted = FALSE
      BY <2>2 DEF Unemployed
  <2>4. aiFaults' \in 0..MaxAiFaults
      BY <1>4, FaultsRest DEF TakeRerank
  <2> QED
      BY <2>1, <2>2, <2>3, <2>4, FreeRests
<1>5. ASSUME NEW t \in Rerankers, NEW m \in aiQueue, TakeDigest(t, m) PROVE RerankRest'
  <2>1. PICK s : s = [Unemployed EXCEPT !.at = "digest", !.of = m]
      OBVIOUS
  <2>2. s.own = NoScores /\ s.streak = 0 /\ s.aborted = FALSE
      BY <2>1 DEF Unemployed
  <2>3. aiFaults' = aiFaults /\ aiFaults' \in 0..MaxAiFaults
      BY <1>5 DEF TakeDigest, RerankRest
  <2>4. CASE Works(t, s)
      BY <2>2, <2>3, <2>4, FreeRests
  <2> QED
      BY <1>1, <1>5, <2>1, <2>3, <2>4 DEF TakeDigest
<1>6. ASSUME NEW t \in Rerankers, CommitRerank(t) \/ RerankRaises(t) PROVE RerankRest'
  <2>1. PICK s, w : /\ s = [Unemployed EXCEPT !.at = "finally", !.of = reranker[t].of]
                    /\ w = [Unemployed EXCEPT !.at = "finally", !.of = reranker[t].of, !.raised = TRUE]
      OBVIOUS
  <2>2. /\ s.own = NoScores /\ s.streak = 0 /\ s.aborted = FALSE
        /\ w.own = NoScores /\ w.streak = 0 /\ w.aborted = FALSE
      BY <2>1 DEF Unemployed
  <2>3. Works(t, s) \/ Works(t, w)
      BY <1>6, <2>1 DEF CommitRerank, RerankRaises
  <2>4. aiFaults' \in 0..MaxAiFaults
      BY <1>6, FaultsRest DEF CommitRerank, RerankRaises, Stays
  <2> QED
      BY <2>2, <2>3, <2>4, FreeRests
<1>7. ASSUME NEW t \in Rerankers,
             FinishRerank(t) \/ RerankDies(t) \/ AcknowledgeDigest(t) \/ DigestFails(t) \/ DigestRepeats(t)
      PROVE  RerankRest'
  <2>1. Works(t, Unemployed) /\ (Stays \/ Fault)
      BY <1>7 DEF FinishRerank, DeletesKey, RerankDies, AcknowledgeDigest, DigestFails, DigestRepeats, Stays
  <2> QED
      BY <2>1, FaultsRest, ResignRests
<1>8. ASSUME NEW t \in Rerankers, CommitDigest(t) PROVE RerankRest'
  <2>1. PICK s \in Thread : s = reranker[t]
      BY DEF RerankInv, RerankRows, Worker
  <2>2. PICK q : q = [s EXCEPT !.at = "written"]
      OBVIOUS
  <2>3. q.own = s.own /\ q.aborted = s.aborted /\ q.streak = s.streak
      BY <2>2 DEF Thread
  <2>4. Works(t, q) /\ aiFaults' \in 0..MaxAiFaults /\ s.streak \in 0..(Breaker - 1)
      BY <1>8, <2>1, <2>2 DEF CommitDigest, RerankRest, Alone
  <2> QED
      BY <2>1, <2>3, <2>4, HoldingRests
<1> QED
    BY <1>2, <1>4, <1>5, <1>6, <1>7, <1>8, AskRests, UpdateRests DEF RerankNext

LEMMA RerankTyped == RerankInv /\ RerankRest => RerankTypeOK
<1> SUFFICES ASSUME RerankInv, RerankRest PROVE RerankTypeOK
    OBVIOUS
<1>1. ASSUME NEW t \in Rerankers
      PROVE  /\ reranker[t] \in [at : {"idle", "events", "update", "finally", "digest", "written"},
                                 of : Sent \cup {NoMessage}, left : Seq(Ranked), streak : 0..(Breaker - 1),
                                 given : Scores, own : [Ranked -> Scores], aborted : BOOLEAN, raised : BOOLEAN]
             /\ reranker[t].at = "update" => reranker[t].left # <<>>
             /\ reranker[t].aborted => reranker[t].own = NoScores
  <2>1. PICK s \in Thread : s = reranker[t] /\ Sensible(s) /\ Alone(s)
      BY DEF RerankInv, RerankRows, Worker, RerankRest
  <2>2. s.own \in [Ranked -> Scores] /\ s.streak \in 0..(Breaker - 1)
      BY <2>1 DEF Thread, FittingRows, Alone
  <2>3. s \in [at : {"idle", "events", "update", "finally", "digest", "written"},
               of : Sent \cup {NoMessage}, left : Seq(Ranked), streak : 0..(Breaker - 1),
               given : Scores, own : [Ranked -> Scores], aborted : BOOLEAN, raised : BOOLEAN]
      BY <2>2 DEF Thread
  <2> QED
      BY <2>1, <2>3 DEF Sensible, Alone
<1>2. \A t \in Rerankers : \A u \in Rerankers \ {t}, e \in Ranked : NoScore \in {reranker[t].own[e], reranker[u].own[e]}
    BY DEF RerankRest, Apart
<1>3. aiScore \in [Ranked -> Scores]
    BY DEF RerankInv, RerankRows, FittingRows
<1>4. reranker \in [Rerankers -> [at : {"idle", "events", "update", "finally", "digest", "written"},
                                   of : Sent \cup {NoMessage}, left : Seq(Ranked), streak : 0..(Breaker - 1),
                                   given : Scores, own : [Ranked -> Scores], aborted : BOOLEAN, raised : BOOLEAN]]
    BY <1>1 DEF RerankInv, RerankRows
<1> QED
    BY <1>1, <1>2, <1>3, <1>4 DEF RerankTypeOK, RerankInv, RerankRows, RerankRest

\* For any events, scores, answers, threads, retries and faults: a score that is not committed is locked by
\* one rerank, one whose transaction was aborted holds none, and no three events in a row go without
\* an answer but the last (_async_rescore).
THEOREM RerankTypeCorrect == RerankSpec => []RerankTypeOK
BY RerankStart, RerankStep, RerankRestInit, RerankRestNext, RerankTyped, PTL DEF RerankSpec

\* What GraphInv does not say of the state: what is read at a layer is used up there.
Tidy(d) ==
    /\ {"at", "depth", "seed", "seeds", "rows", "objects"} \subseteq DOMAIN d
    /\ \A e, f \in d.seed : e = f
    /\ d.seeds # {} => d.depth = 0
    /\ d.rows # {} => d.at = "technique"
    /\ d.objects # <<>> => d.at = "objects"
GraphRest == Tidy(drawing) /\ graphChanges \in 0..MaxGraphChanges /\ cold \subseteq present

LEMMA CappedTidy ==
    ASSUME NEW o, NEW d, d = [d EXCEPT !.at = d.at], Tidy(d)
    PROVE  Tidy(Capped(o, d))
<1>1. CASE Capped(o, d) = d
    BY <1>1
<1>2. CASE Capped(o, d) = [d EXCEPT !.at = "done", !.truncated = TRUE, !.rows = {}, !.objects = <<>>, !.cross = {}, !.seeds = {}]
  <2>1. PICK c : c = [d EXCEPT !.at = "done", !.truncated = TRUE, !.rows = {}, !.objects = <<>>, !.cross = {}, !.seeds = {}]
      OBVIOUS
  <2>2. DOMAIN c = DOMAIN d
      BY <2>1
  <2>3. c.seed = d.seed /\ c.seeds = {} /\ c.rows = {} /\ c.objects = <<>>
      BY <2>1 DEF Tidy
  <2> QED
      BY <1>2, <2>1, <2>2, <2>3 DEF Tidy
<1> QED
    BY <1>1, <1>2 DEF Capped

LEMMA GraphRestInit == AttackGraphInit => GraphRest
<1> SUFFICES ASSUME AttackGraphInit PROVE GraphRest
    OBVIOUS
<1>1. Tidy(NoDrawing)
    BY DEF NoDrawing, Tidy
<1> QED
    BY <1>1, AttackGraphAssumption DEF AttackGraphInit, GraphRest

LEMMA DrawsTidy ==
    ASSUME GraphRest, NEW d, Tidy(d), Draws(d)
    PROVE  GraphRest'
<1>1. drawing' = d /\ graphChanges' = graphChanges /\ cold' = cold /\ present' = present
    BY DEF Draws, tableVars
<1>2. Tidy(drawing')
    BY <1>1
<1> QED
    BY <1>1, <1>2 DEF GraphRest, Tidy

LEMMA DrawEventTidy ==
    ASSUME GraphRest, NEW e, NEW depth, NEW project, DrawEvent(e, depth, project)
    PROVE  GraphRest'
<1>1. PICK d : d = [NoDrawing EXCEPT !.at = "techniques", !.depth = depth, !.project = project, !.seed = {e},
                                     !.nodes = {Event(e)}, !.steady = present, !.steadyTags = tags]
    OBVIOUS
<1>2. Tidy(d)
    BY <1>1 DEF NoDrawing, Tidy
<1> QED
    BY <1>1, <1>2, DrawsTidy DEF DrawEvent

LEMMA DrawProjectTidy ==
    ASSUME GraphRest, NEW project, DrawProject(project)
    PROVE  GraphRest'
<1>1. PICK d : d = [NoDrawing EXCEPT !.at = "seeds", !.project = project, !.steady = present \ cold, !.steadyTags = tags,
                                     !.seeds = {e \in (present \ cold) \cap Shown : HomeOf[e] = project}]
    OBVIOUS
<1>2. Tidy(d)
    BY <1>1 DEF NoDrawing, Tidy
<1> QED
    BY <1>1, <1>2, DrawsTidy DEF DrawProject

LEMMA DrawSeedTidy ==
    ASSUME GraphInv, GraphRest, NEW e, DrawSeed(e)
    PROVE  GraphRest'
<1>1. drawing \in Drawing /\ drawing.at = "seeds" /\ Tidy(drawing)
    BY DEF GraphInv, DrawingInv, GraphRest, DrawSeed
<1>2. PICK rest : rest = [drawing EXCEPT !.seeds = @ \ {e}]
    OBVIOUS
<1>3. /\ rest.at = drawing.at /\ rest.depth = drawing.depth /\ rest.seed = drawing.seed /\ rest.rows = drawing.rows
      /\ rest.objects = drawing.objects /\ rest.seeds = drawing.seeds \ {e} /\ DOMAIN rest = DOMAIN drawing
    BY <1>1, <1>2 DEF Drawing
<1>4. Tidy(rest)
    BY <1>1, <1>3 DEF Tidy
<1>5. PICK d : d = [rest EXCEPT !.at = "techniques", !.seed = {e}, !.nodes = @ \cup {Event(e)}]
    OBVIOUS
<1>6. /\ d.at = "techniques" /\ d.depth = drawing.depth /\ d.seed = {e} /\ d.rows = drawing.rows
      /\ d.objects = drawing.objects /\ d.seeds = drawing.seeds \ {e} /\ DOMAIN d = DOMAIN drawing
    BY <1>1, <1>3, <1>5 DEF Drawing
<1>7. Tidy(d)
    BY <1>1, <1>6 DEF Tidy
<1>8. d = [d EXCEPT !.at = d.at]
    BY <1>5
<1>9. Tidy(Capped(rest, d))
    BY <1>7, <1>8, CappedTidy
<1>10. CASE e \in present
    BY <1>2, <1>5, <1>9, <1>10, DrawsTidy DEF DrawSeed
<1>11. CASE e \notin present
    BY <1>2, <1>4, <1>11, DrawsTidy DEF DrawSeed
<1> QED
    BY <1>10, <1>11

\* The steps of a layer and from one layer to the next.
LEMMA LayersTidy ==
    ASSUME GraphInv, GraphRest,
           \/ ReadTechniques \/ EndTechniques \/ EndObjects \/ EndSeeds \/ ReadCross \/ LoadCross \/ EndOthers
    PROVE  GraphRest'
<1>1. PICK o \in Drawing : o = drawing /\ Tidy(o)
    BY DEF GraphInv, DrawingInv, GraphRest
<1>2. ASSUME NEW at, o.rows = {}, o.objects = <<>> PROVE Tidy([o EXCEPT !.at = at])
  <2>1. PICK d : d = [o EXCEPT !.at = at]
      OBVIOUS
  <2>2. /\ d.depth = o.depth /\ d.seed = o.seed /\ d.rows = o.rows
        /\ d.objects = o.objects /\ d.seeds = o.seeds /\ DOMAIN d = DOMAIN o
      BY <2>1 DEF Drawing
  <2> QED
      BY <1>1, <1>2, <2>1, <2>2 DEF Tidy
<1>3. ASSUME NEW at, NEW cross, o.rows = {}, o.objects = <<>> PROVE Tidy([o EXCEPT !.at = at, !.cross = cross])
  <2>1. PICK d : d = [o EXCEPT !.at = at, !.cross = cross]
      OBVIOUS
  <2>2. /\ d.depth = o.depth /\ d.seed = o.seed /\ d.rows = o.rows
        /\ d.objects = o.objects /\ d.seeds = o.seeds /\ DOMAIN d = DOMAIN o
      BY <2>1 DEF Drawing
  <2> QED
      BY <1>1, <1>3, <2>1, <2>2 DEF Tidy
<1>4. CASE ReadTechniques
  <2>1. PICK d : d = [o EXCEPT !.at = "technique", !.rows = {t \in Techniques : <<Seed, t>> \in tags}]
      OBVIOUS
  <2>2. /\ d.at = "technique" /\ d.depth = o.depth /\ d.seed = o.seed /\ o.at = "techniques"
        /\ d.objects = o.objects /\ d.seeds = o.seeds /\ DOMAIN d = DOMAIN o
      BY <1>1, <1>4, <2>1 DEF Drawing, ReadTechniques
  <2>3. Tidy(d)
      BY <1>1, <2>2 DEF Tidy
  <2> QED
      BY <1>1, <1>4, <2>1, <2>3, DrawsTidy DEF ReadTechniques
<1>5. CASE EndTechniques
  <2>1. o.rows = {} /\ o.objects = <<>>
      BY <1>1, <1>5 DEF EndTechniques, Tidy
  <2>2. PICK d : d = [o EXCEPT !.at = "objects", !.objects = StixOf[Seed]]
      OBVIOUS
  <2>3. /\ d.at = "objects" /\ d.depth = o.depth /\ d.seed = o.seed /\ d.rows = o.rows
        /\ d.seeds = o.seeds /\ DOMAIN d = DOMAIN o
      BY <2>2 DEF Drawing
  <2>4. Tidy(d)
      BY <1>1, <2>1, <2>3 DEF Tidy
  <2>5. Tidy([o EXCEPT !.at = "done"])
      BY <1>2, <2>1
  <2>6. CASE drawing.depth = 1
      BY <1>1, <1>5, <2>5, <2>6, DrawsTidy DEF EndTechniques
  <2>7. CASE drawing.depth # 1
      BY <1>1, <1>5, <2>2, <2>4, <2>7, DrawsTidy DEF EndTechniques
  <2> QED
      BY <2>6, <2>7
<1>6. CASE EndObjects
  <2>1. o.rows = {} /\ o.objects = <<>>
      BY <1>1, <1>6 DEF EndObjects, Tidy
  <2>2. PICK d : d = [o EXCEPT !.at = "seeds"]
      OBVIOUS
  <2>3. Tidy(d) /\ d = [d EXCEPT !.at = d.at]
      BY <1>2, <2>1, <2>2
  <2>4. Tidy(Capped(o, d)) /\ Tidy([o EXCEPT !.at = "cross"]) /\ Tidy([o EXCEPT !.at = "done"])
      BY <1>2, <2>1, <2>3, CappedTidy
  <2>5. \/ Draws(Capped(o, d)) \/ Draws([o EXCEPT !.at = "cross"]) \/ Draws([o EXCEPT !.at = "done"])
      BY <1>1, <1>6, <2>2 DEF EndObjects
  <2> QED
      BY <2>4, <2>5, DrawsTidy
<1>7. CASE EndSeeds \/ EndOthers
  <2>1. o.rows = {} /\ o.objects = <<>> /\ Draws([o EXCEPT !.at = "done"])
      BY <1>1, <1>7 DEF EndSeeds, EndOthers, Tidy
  <2> QED
      BY <1>2, <2>1, DrawsTidy
<1>8. CASE ReadCross
  <2>1. /\ o.rows = {} /\ o.objects = <<>>
        /\ Draws([o EXCEPT !.at = "load", !.cross = {tag \in tags : tag[2] \in o.techniques /\ tag[1] # Seed}])
      BY <1>1, <1>8 DEF ReadCross, Tidy
  <2> QED
      BY <1>3, <2>1, DrawsTidy
<1>9. CASE LoadCross
  <2>1. /\ o.rows = {} /\ o.objects = <<>>
        /\ Draws([o EXCEPT !.at = "other", !.cross = {tag \in o.cross : tag[1] \in present /\ InView(tag[1])}])
      BY <1>1, <1>9 DEF LoadCross, Tidy, Drawing
  <2> QED
      BY <1>3, <2>1, DrawsTidy
<1> QED
    BY <1>4, <1>5, <1>6, <1>7, <1>8, <1>9

LEMMA RowsTidy ==
    ASSUME GraphInv, GraphRest, NEW t, NEW tag, DrawTechnique(t) \/ DrawOther(tag)
    PROVE  GraphRest'
<1>1. PICK o \in Drawing : o = drawing /\ Tidy(o)
    BY DEF GraphInv, DrawingInv, GraphRest
<1>2. CASE DrawTechnique(t)
  <2>1. PICK d : d = [o EXCEPT !.rows = @ \ {t}, !.techniques = @ \cup {t}, !.nodes = @ \cup {Technique(t)},
                               !.edges = @ \cup {<<Event(Seed), Technique(t)>>}]
      OBVIOUS
  <2>2. /\ d.at = o.at /\ d.depth = o.depth /\ d.seed = o.seed /\ o.at = "technique"
        /\ d.objects = o.objects /\ d.seeds = o.seeds /\ DOMAIN d = DOMAIN o
      BY <1>1, <1>2, <2>1 DEF Drawing, DrawTechnique
  <2>3. Tidy(d) /\ d = [d EXCEPT !.at = d.at]
      BY <1>1, <2>1, <2>2 DEF Tidy
  <2> QED
      BY <1>1, <1>2, <2>1, <2>3, CappedTidy, DrawsTidy DEF DrawTechnique
<1>3. CASE DrawOther(tag)
  <2>1. PICK d : d = [o EXCEPT !.cross = @ \ {tag}, !.nodes = @ \cup {Event(tag[1])},
                               !.edges = @ \cup {<<Event(tag[1]), Technique(tag[2])>>}]
      OBVIOUS
  <2>2. /\ d.at = o.at /\ d.depth = o.depth /\ d.seed = o.seed /\ d.rows = o.rows
        /\ d.objects = o.objects /\ d.seeds = o.seeds /\ DOMAIN d = DOMAIN o
      BY <1>1, <1>3, <2>1 DEF Drawing, DrawOther
  <2>3. Tidy(d) /\ d = [d EXCEPT !.at = d.at]
      BY <1>1, <2>1, <2>2 DEF Tidy
  <2> QED
      BY <1>1, <1>3, <2>1, <2>3, CappedTidy, DrawsTidy DEF DrawOther
<1> QED
    BY <1>2, <1>3

\* A node of a relationship, which may be the last.
LEMMA NodeTidy ==
    ASSUME NEW d, NEW ref, d = [d EXCEPT !.at = d.at], Tidy(d)
    PROVE  Tidy(WithNode(d, ref)) /\ WithNode(d, ref) = [WithNode(d, ref) EXCEPT !.at = WithNode(d, ref).at]
<1>1. PICK n : n = [d EXCEPT !.nodes = @ \cup {Stix(ref)}]
    OBVIOUS
<1>2. /\ n.at = d.at /\ n.depth = d.depth /\ n.seed = d.seed /\ n.rows = d.rows
      /\ n.objects = d.objects /\ n.seeds = d.seeds /\ DOMAIN n = DOMAIN d
    BY <1>1 DEF Tidy
<1>3. Tidy(n) /\ n = [n EXCEPT !.at = n.at]
    BY <1>1, <1>2 DEF Tidy
<1>4. Tidy(Capped(d, n)) /\ Capped(d, n) = [Capped(d, n) EXCEPT !.at = Capped(d, n).at]
  <2>1. Capped(d, n) = [Capped(d, n) EXCEPT !.at = Capped(d, n).at]
      BY <1>3 DEF Capped
  <2> QED
      BY <1>3, <2>1, CappedTidy
<1> QED
    BY <1>1, <1>4 DEF WithNode

LEMMA RelationshipTidy ==
    ASSUME GraphInv, GraphRest, DrawRelationship
    PROVE  GraphRest'
<1>1. PICK o \in Drawing : o = drawing /\ Tidy(o) /\ o.at = "objects"
    BY DEF GraphInv, DrawingInv, GraphRest, DrawRelationship
<1>2. PICK d, rel : d = [o EXCEPT !.objects = Tail(@)] /\ rel = Head(o.objects)
    OBVIOUS
<1>3. /\ d.at = o.at /\ d.depth = o.depth /\ d.seed = o.seed /\ d.rows = o.rows
      /\ d.seeds = o.seeds /\ DOMAIN d = DOMAIN o
    BY <1>2 DEF Drawing
<1>4. Tidy(d) /\ d = [d EXCEPT !.at = d.at]
    BY <1>1, <1>2, <1>3 DEF Tidy
<1>5. PICK both : both = WithNode(WithNode(d, rel[1]), rel[2])
    OBVIOUS
<1>6. Tidy(both) /\ both = [both EXCEPT !.at = both.at]
    BY <1>4, <1>5, NodeTidy
<1>7. PICK tied : tied = [both EXCEPT !.edges = @ \cup Ties(rel)]
    OBVIOUS
<1>8. /\ tied.at = both.at /\ tied.depth = both.depth /\ tied.seed = both.seed /\ tied.rows = both.rows
      /\ tied.objects = both.objects /\ tied.seeds = both.seeds /\ DOMAIN tied = DOMAIN both
    BY <1>6, <1>7 DEF Tidy
<1>9. Tidy(tied)
    BY <1>6, <1>8 DEF Tidy
<1>10. Draws(both) \/ Draws(tied)
    BY <1>1, <1>2, <1>5, <1>7 DEF DrawRelationship
<1> QED
    BY <1>6, <1>9, <1>10, DrawsTidy

LEMMA GraphRestNext == GraphInv /\ GraphRest /\ [AttackGraphNext]_attackGraphVars => GraphRest'
<1> SUFFICES ASSUME GraphInv, GraphRest, [AttackGraphNext]_attackGraphVars PROVE GraphRest'
    OBVIOUS
<1>1. CASE UNCHANGED attackGraphVars
    BY <1>1 DEF attackGraphVars, GraphRest, Tidy
<1>2. ASSUME NEW events, NEW tagged, ChangesGraph(events, tagged) PROVE GraphRest'
  <2>1. PICK d : d = [drawing EXCEPT !.steady = @ \cap events, !.steadyTags = @ \cap tagged]
      OBVIOUS
  <2>2. drawing' = d /\ drawing \in Drawing
      BY <1>2, <2>1 DEF ChangesGraph, GraphInv, DrawingInv
  <2>3. /\ d.at = drawing.at /\ d.depth = drawing.depth /\ d.seed = drawing.seed /\ d.rows = drawing.rows
        /\ d.objects = drawing.objects /\ d.seeds = drawing.seeds /\ DOMAIN d = DOMAIN drawing
      BY <2>1, <2>2 DEF Drawing
  <2>4. Tidy(drawing')
      BY <2>2, <2>3 DEF GraphRest, Tidy
  <2>5. graphChanges' \in 0..MaxGraphChanges
      BY <1>2, AttackGraphAssumption DEF ChangesGraph, GraphRest
  <2>6. cold' \subseteq present'
      BY <1>2 DEF ChangesGraph
  <2> QED
      BY <2>4, <2>5, <2>6 DEF GraphRest, Tidy
<1>3. ASSUME NEW e \in GraphEvents, MarkArchived(e) PROVE GraphRest'
  <2>1. graphChanges' \in 0..MaxGraphChanges
      BY <1>3, AttackGraphAssumption DEF MarkArchived, GraphRest
  <2>2. cold' \subseteq present' /\ drawing' = drawing
      BY <1>3 DEF MarkArchived, GraphRest
  <2> QED
      BY <2>1, <2>2 DEF GraphRest, Tidy
<1> QED
  <2>1. \A e \in GraphEvents : DeleteEvent(e) => GraphRest'
      BY <1>2 DEF DeleteEvent
  <2>2. \A tag : UntagEvent(tag) => GraphRest'
      BY <1>2 DEF UntagEvent
  <2>3. \A e, t : TagEvent(e, t) => GraphRest'
      BY <1>2 DEF TagEvent
  <2>4. \A e, depth, project : DrawEvent(e, depth, project) \/ DrawProject(project) \/ DrawSeed(e) => GraphRest'
      BY DrawEventTidy, DrawProjectTidy, DrawSeedTidy
  <2>5. \A t, tag : DrawTechnique(t) \/ DrawOther(tag) => GraphRest'
      BY RowsTidy
  <2> QED
      BY <1>1, <1>3, <2>1, <2>2, <2>3, <2>4, <2>5, LayersTidy, RelationshipTidy DEF AttackGraphNext

LEMMA GraphTyped == GraphInv /\ GraphRest => AttackGraphTypeOK
<1> SUFFICES ASSUME GraphInv, GraphRest PROVE AttackGraphTypeOK
    OBVIOUS
<1>1. drawing \in Drawing /\ Sound(drawing) /\ Tidy(drawing)
    BY DEF GraphInv, DrawingInv, GraphRest
<1>2. Cardinality(drawing.seed) <= 1
  <2>1. CASE drawing.seed = {}
      BY <2>1, FS_EmptySet
  <2>2. ASSUME NEW e \in drawing.seed PROVE Cardinality(drawing.seed) = 1
    <3>1. drawing.seed = {e}
        BY <1>1, <2>2 DEF Tidy
    <3> QED
        BY <3>1, FS_Singleton
  <2> QED
      BY <2>1, <2>2
<1>3. drawing.cross \subseteq GraphEvents \X drawing.techniques
    BY <1>1 DEF Sound
<1>4. drawing.steady \subseteq present /\ drawing.steadyTags \subseteq tags /\ (drawing.truncated => drawing.at = "done")
    BY DEF GraphInv, Steady
<1>5. /\ drawing.at \in Labels /\ drawing.depth \in 0..3 /\ drawing.project \in Homes \cup {"none"}
      /\ drawing.seed \subseteq GraphEvents /\ drawing.seeds \subseteq GraphEvents /\ drawing.rows \subseteq Techniques
      /\ drawing.objects \in Seq(StixRefs \X StixRefs) /\ drawing.nodes \subseteq Nodes
      /\ drawing.edges \subseteq Nodes \X Nodes /\ drawing.truncated \in BOOLEAN
    BY <1>1 DEF Drawing
<1> QED
    BY <1>1, <1>2, <1>3, <1>4, <1>5 DEF AttackGraphTypeOK, GraphInv, GraphRest, Tidy

\* For any events, tags, relationships and caps: what a layer of the drawing reads is used up in that
\* layer, also when it is cut off (traverse_graph, traverse_project).
THEOREM GraphTypeCorrect == AttackGraphSpec => []AttackGraphTypeOK
BY GraphStart, GraphStep, GraphRestInit, GraphRestNext, GraphTyped, PTL DEF AttackGraphSpec

-----------------------------------------------------------------------------
(* The components side by side *)

DetectorsInv == SigmaInv /\ SweepsInv /\ RerankInv

LEMMA DetectorsStart == KnowledgeInit => DetectorsInv
<1> SUFFICES ASSUME KnowledgeInit PROVE DetectorsInv
    OBVIOUS
<1>1. SweepsInv /\ RerankInv
    BY SweepsInit, RerankStart DEF KnowledgeInit
<1>2. CASE know = "sigma"
    BY <1>1, <1>2, SigmaStart DEF KnowledgeInit, DetectorsInv
<1>3. CASE know # "sigma"
  <2>1. PICK c \in Conditions : c = CHOOSE x \in Conditions : TRUE
      BY SomeCondition
  <2>2. rule = [condition |-> c, hits |-> {}] /\ verdict = "none"
      BY <1>3, <2>1 DEF KnowledgeInit
  <2>3. rule.condition \in Conditions /\ rule.condition.group \in BOOLEAN
      BY <2>2, ConditionShape
  <2> QED
      BY <1>1, <2>2, <2>3 DEF SigmaInv, DetectorsInv
<1> QED
    BY <1>2, <1>3

\* Each takes its own steps, and rests while another component does.
LEMMA DetectorsNext == DetectorsInv /\ [KnowledgeNext]_knowledgeVars => DetectorsInv'
<1> SUFFICES ASSUME DetectorsInv, [KnowledgeNext]_knowledgeVars PROVE DetectorsInv'
    OBVIOUS
<1>1. /\ [TestSigmaRule]_sigmaVars
      /\ [ClustersNext]_clustersVars
      /\ [RerankNext]_rerankVars
    BY DEF KnowledgeNext, knowledgeVars, detectVars
<1> QED
    BY <1>1, SigmaStep, SweepsNext, RerankStep DEF DetectorsInv

\* With all three together, and whatever else is read and kept: what a rule, the sweep for coordinated
\* posts and the models say of the events is what it should be.
THEOREM DetectorsCorrect == KnowledgeSpec => []DetectorsHold
<1>1. DetectorsInv => DetectorsHold
    BY SigmaTells, SweepsTell, RerankGives DEF DetectorsInv, DetectorsHold
<1> QED
    BY <1>1, DetectorsStart, DetectorsNext, PTL DEF KnowledgeSpec

\* What is kept of each component, by the others' sections; an inductive invariant for each.
IocsInv == IocInv /\ ImportInv /\ ImportBounds /\ BackfillInv /\ BackfillRest
ReadsInv == WalkInv /\ WalkRest /\ DossierInv /\ CaseRest /\ GraphInv /\ GraphRest
KnowledgeInv == IocsInv /\ ReadsInv /\ DetectorsInv /\ RerankRest

\* A component at rest is in one of its own initial states.
LEMMA KnowledgeStart == KnowledgeInit => KnowledgeInv
<1> SUFFICES ASSUME KnowledgeInit PROVE KnowledgeInv
    OBVIOUS
<1>1. IndicatorsInit /\ ImportInit /\ BackfillInit /\ CaseworkInit /\ ClustersInit /\ RerankInit
    BY DEF KnowledgeInit
<1>2. EventFeedInit /\ AttackGraphInit
    BY DEF KnowledgeInit
<1>3. IocsInv
    BY <1>1, IocInit, ImportStart, ImportBoundsInit, BackfillStart, BackfillRestInit DEF IocsInv
<1>4. ReadsInv
    BY <1>1, <1>2, WalkInit, WalkRestInit, DossierInitInv, CaseRestInit, GraphStart, GraphRestInit DEF ReadsInv
<1>5. DetectorsInv /\ RerankRest
    BY <1>1, DetectorsStart, RerankRestInit
<1> QED
    BY <1>3, <1>4, <1>5 DEF KnowledgeInv

LEMMA KnowledgeKept == KnowledgeInv /\ [KnowledgeNext]_knowledgeVars => KnowledgeInv'
<1> SUFFICES ASSUME KnowledgeInv, [KnowledgeNext]_knowledgeVars PROVE KnowledgeInv'
    OBVIOUS
<1>1. [IndicatorsNext]_indicatorsVars /\ [ImportNext]_importVars /\ [BackfillNext]_backfillVars
    BY DEF KnowledgeNext, knowledgeVars, iocsVars
<1>2. [EventFeedNext]_feedVars /\ [CaseworkNext]_caseworkVars /\ [AttackGraphNext]_attackGraphVars
    BY DEF KnowledgeNext, knowledgeVars, readVars
<1>3. [RerankNext]_rerankVars
    BY DEF KnowledgeNext, knowledgeVars, detectVars
<1>4. IocsInv'
  <2>1. IocInv'
      BY <1>1, IocInvNext DEF KnowledgeInv, IocsInv
  <2>2. ImportInv' /\ ImportBounds'
      BY <1>1, ImportStep, ImportBoundsNext DEF KnowledgeInv, IocsInv
  <2>3. BackfillInv' /\ BackfillRest'
      BY <1>1, BackfillStep, BackfillRestNext DEF KnowledgeInv, IocsInv
  <2> QED
      BY <2>1, <2>2, <2>3 DEF IocsInv
<1>5. ReadsInv'
  <2>1. WalkInv' /\ WalkRest'
      BY <1>2, WalkStep, WalkRestNext DEF KnowledgeInv, ReadsInv
  <2>2. DossierInv' /\ CaseRest'
      BY <1>2, DossierStep, CaseRestNext DEF KnowledgeInv, ReadsInv
  <2>3. GraphInv' /\ GraphRest'
      BY <1>2, GraphStep, GraphRestNext DEF KnowledgeInv, ReadsInv
  <2> QED
      BY <2>1, <2>2, <2>3 DEF ReadsInv
<1>6. DetectorsInv' /\ RerankRest'
    BY <1>3, DetectorsNext, RerankRestNext DEF KnowledgeInv, DetectorsInv
<1> QED
    BY <1>4, <1>5, <1>6 DEF KnowledgeInv

\* Whichever of them works, the state of each is well formed: the indicators, files of them and the
\* backfill, the walk through the feed, cases and campaigns, the attack graph, the sweep of posts and
\* the rerank, down to what a request, a job or a sweep between two of its steps relies on.
THEOREM KnowledgeTypeCorrect == KnowledgeSpec => []KnowledgeTypeOK
<1>1. KnowledgeInv => KnowledgeTypeOK
  <2> SUFFICES ASSUME KnowledgeInv PROVE KnowledgeTypeOK
      OBVIOUS
  <2>1. IndicatorsTypeOK /\ ImportTypeOK /\ BackfillTypeOK
      BY ImportTyped, BackfillTyped DEF KnowledgeInv, IocsInv, IocInv
  <2>2. EventFeedTypeOK /\ CaseworkTypeOK /\ AttackGraphTypeOK
      BY WalkTyped, CaseworkTyped, GraphTyped DEF KnowledgeInv, ReadsInv
  <2>3. ClustersTypeOK /\ RerankTypeOK
      BY SweepsTell, RerankTyped DEF KnowledgeInv, DetectorsInv
  <2> QED
      BY <2>1, <2>2, <2>3 DEF KnowledgeTypeOK
<1> QED
    BY <1>1, KnowledgeStart, KnowledgeKept, PTL DEF KnowledgeSpec
=============================================================================
