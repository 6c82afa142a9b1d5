---------------------- MODULE WebhookDispatchProofs ----------------------
(***************************************************************************)
(* Proofs about WebhookDispatch, for any number of webhooks, events and    *)
(* threads and any value of the caps.                                      *)
(***************************************************************************)
EXTENDS WebhookDispatch, FiniteSetTheorems, SequenceTheorems, TLAPS

-----------------------------------------------------------------------------
(* Lemmas about the helpers *)

\* AtMost is the lesser of two naturals.
LEMMA AtMostType ==
    ASSUME NEW n \in Nat, NEW limit \in Nat
    PROVE  AtMost(n, limit) \in 0 .. limit /\ AtMost(n, limit) <= n
BY DEF AtMost

\* The query returns a sequence of events of the set it selects from.
LEMMA NewestFirstIsSeq ==
    ASSUME NEW S, IsFiniteSet(S), NEW s \in NewestFirst(S)
    PROVE  s \in Seq(S)
<1>1. Cardinality(S) \in Nat
  BY FS_CardinalityType
<1>2. AtMost(Cardinality(S), MaxDigest) \in Nat
  BY <1>1, CapsPositive, AtMostType
<1>3. s \in [1 .. AtMost(Cardinality(S), MaxDigest) -> S]
  BY DEF NewestFirst
<1>. QED
  BY <1>2, <1>3, SeqDef

\* RPUSH and the truncation to MaxDigest entries keep a sequence of S.
LEMMA PushedIsSeq ==
    ASSUME NEW S, NEW w \in Webhooks, batch[w] \in Seq(S), NEW s \in Seq(S)
    PROVE  Pushed(w, s) \in Seq(S)
<1> DEFINE both == batch[w] \o s
<1>1. both \in Seq(S) /\ Len(both) \in Nat
  BY ConcatProperties, LenProperties
<1>2. AtMost(Len(both), MaxDigest) \in 0 .. Len(both)
  BY <1>1, CapsPositive DEF AtMost
<1>3. \A i \in 1 .. AtMost(Len(both), MaxDigest) : both[i] \in S
  BY <1>1, <1>2, ElementOfSeq
<1>4. SubSeq(both, 1, AtMost(Len(both), MaxDigest)) \in Seq(S)
  BY <1>2, <1>3, SubSeqProperties
<1>. QED
  BY <1>4 DEF Pushed

\* What RPUSH puts beyond the first MaxDigest entries are members of S.
LEMMA OverflowSubset ==
    ASSUME NEW S, NEW w \in Webhooks, batch[w] \in Seq(S), NEW s \in Seq(S)
    PROVE  Overflow(w, s) \subseteq S
<1>1. batch[w] \o s \in Seq(S)
  BY ConcatProperties
<1>2. \A i \in DOMAIN (batch[w] \o s) : (batch[w] \o s)[i] \in S
  BY <1>1, ElementOfSeq, LenProperties
<1>. QED
  BY <1>2 DEF Overflow

LEMMA ElementsSubset ==
    ASSUME NEW S, NEW s \in Seq(S)
    PROVE  Elements(s) \subseteq S
BY ElementOfSeq, LenProperties DEF Elements

\* A row read afresh or held by a session is a row.
LEMMA HeldIsRow ==
    ASSUME TypeOK, NEW t \in Threads, NEW w \in Webhooks
    PROVE  Held(t, w) \in Row /\ RowOf(w) \in Row
BY DEF TypeOK, Held, RowOf, Row

-----------------------------------------------------------------------------
(* Type correctness *)

\* A thread past the match works on a webhook, and records an event it holds.
AtWork ==
    \A t \in Threads :
        /\ pc[t] \notin {"idle", "next"} => cur[t] \in Webhooks
        /\ pc[t] = "record" => queue[t] # <<>>

\* TypeOK is not inductive: the LIMIT of the query is a number only of a finite
\* table, and the keys a thread touches are those of a webhook.
Typed == TypeOK /\ IsFiniteSet(ingested) /\ AtWork

LEMMA TypedInit == Init => Typed
<1> SUFFICES ASSUME Init PROVE Typed
  OBVIOUS
<1>1. TypeOK
  BY CapsPositive, ClockShape DEF Init, TypeOK, Labels
<1>2. IsFiniteSet(ingested)
  BY FS_EmptySet DEF Init
<1>3. AtWork
  BY DEF Init, AtWork
<1>. QED
  BY <1>1, <1>2, <1>3 DEF Typed

\* session.commit keeps the types of what it writes.
LEMMA SessionTyped ==
    ASSUME Typed, NEW t \in Threads, CommitSession(t), UNCHANGED <<cur, queue>>
    PROVE  /\ tagged' \in SUBSET Events
           /\ tagging' \in [Threads -> SUBSET Events]
           /\ drained' \in [Threads -> SUBSET Events]
           /\ pc' \in [Threads -> Labels]
           /\ orm' \in [Threads -> [Webhooks -> Row \cup {None}]]
           /\ AtWork'
<1> USE DEF Typed
<1>1. tagged' \in SUBSET Events /\ tagging' \in [Threads -> SUBSET Events]
  BY DEF CommitSession, TypeOK
<1>2. drained' \in [Threads -> SUBSET Events] /\ pc' \in [Threads -> Labels]
  BY DEF CommitSession, TypeOK, Labels
<1>3. orm' \in [Threads -> [Webhooks -> Row \cup {None}]]
  BY DEF CommitSession, Forget, TypeOK
<1>4. AtWork'
  BY DEF CommitSession, AtWork, TypeOK
<1>. QED
  BY <1>1, <1>2, <1>3, <1>4

LEMMA TypedStep == Typed /\ [Next]_vars => Typed'
<1> SUFFICES ASSUME Typed, [Next]_vars PROVE Typed'
  OBVIOUS
<1> USE DEF Typed, AtWork
<1>1. CASE Minute
  BY <1>1, CapsPositive, ClockShape, EmptySeq DEF Minute, TypeOK, AtMost, Older, Expires, db, session, work, world
<1>2. CASE LookbackMoves
  BY <1>2, ClockShape DEF LookbackMoves, TypeOK, db, keys, session, work
<1>3. ASSUME NEW e \in Events, Ingest(e) PROVE Typed'
  BY <1>3, FS_AddElement DEF Ingest, TypeOK, keys, session, work, world
<1>4. CASE BurstEntryAges
  BY <1>4 DEF BurstEntryAges, TypeOK, db, keys, session, work, world
<1>5. ASSUME NEW t \in Threads, StartTick(t) PROVE Typed'
  BY <1>5, HeldIsRow, ClockShape DEF StartTick, TypeOK, Labels, db, keys, work, world
<1>6. ASSUME NEW t \in Threads, EndTick(t) PROVE Typed'
  BY <1>6 DEF EndTick, TypeOK, Labels, Forget, db, keys, work, world
<1>7. ASSUME NEW t \in Threads, NEW w \in Webhooks, Match(t, w) PROVE Typed'
  <2>1. IsFiniteSet(Matching(t, w)) /\ Matching(t, w) \subseteq Events
    BY FS_Subset DEF Matching, TypeOK
  <2>2. \A s \in NewestFirst(Matching(t, w)) : s \in Seq(Events)
    BY <2>1, NewestFirstIsSeq, SeqMonotonic
  <2>3. orm' \in [Threads -> [Webhooks -> Row \cup {None}]]
    <3>1. Held(t, w) \in Row
      BY HeldIsRow
    <3>. QED
      BY <1>7, <3>1 DEF Match, TypeOK
  <2>4. CASE Matching(t, w) = {}
    BY <1>7, <2>3, <2>4 DEF Match, TypeOK, Labels, db, keys, work, world
  <2>5. CASE Matching(t, w) # {}
    <3>1. PICK s \in NewestFirst(Matching(t, w)) : queue' = [queue EXCEPT ![t] = s]
      BY <1>7, <2>5 DEF Match
    <3>2. s \in Seq(Events)
      BY <2>2
    <3>. QED
      <4>1. queue' \in [Threads -> Seq(Events)]
        BY <3>1, <3>2 DEF TypeOK
      <4>2. /\ pc' \in [Threads -> Labels] /\ todo' \in [Threads -> SUBSET Webhooks]
            /\ cur' \in [Threads -> Webhooks \cup {None}]
        <5>1. "burst" \in Labels /\ todo[t] \ {w} \in SUBSET Webhooks
          BY DEF TypeOK, Labels
        <5>2. /\ pc' = [pc EXCEPT ![t] = "burst"] /\ cur' = [cur EXCEPT ![t] = w]
              /\ todo' = [todo EXCEPT ![t] = todo[t] \ {w}]
          BY <1>7, <2>5 DEF Match
        <5>. QED
          BY <1>7, <5>1, <5>2 DEF TypeOK
      <4>3. TypeOK'
        BY <1>7, <2>3, <2>5, <4>1, <4>2 DEF Match, TypeOK, db, keys, world
      <4>4. AtWork'
        BY <1>7, <2>5, <3>1 DEF Match, TypeOK
      <4>. QED
        BY <1>7, <4>3, <4>4 DEF Match, db
  <2>. QED
    BY <2>4, <2>5
<1>8. ASSUME NEW t \in Threads, Bypass(t) PROVE Typed'
  BY <1>8, HeadTailProperties, AppendProperties DEF Bypass, TypeOK, Labels, db, keys, session, world
<1>9. ASSUME NEW t \in Threads, Suppress(t) PROVE Typed'
  BY <1>9, HeadTailProperties DEF Suppress, TypeOK, Labels, db, keys, world
<1>10. ASSUME NEW t \in Threads, Admit(t) PROVE Typed'
  BY <1>10 DEF Admit, TypeOK, Labels, db, keys, session, work, world
<1>12. ASSUME NEW t \in Threads, NothingSurvived(t) PROVE Typed'
  BY <1>12 DEF NothingSurvived, TypeOK, Labels, db, keys, session, work, world
<1>13. ASSUME NEW t \in Threads, ReadLength(t) PROVE Typed'
  BY <1>13 DEF ReadLength, TypeOK, Labels, db, keys, session, work, world
<1>14. ASSUME NEW t \in Threads, Push(t) PROVE Typed'
  <2>1. cur[t] \in Webhooks
    BY <1>14 DEF Push
  <2>2. Pushed(cur[t], surviving[t]) \in Seq(Events)
    BY <2>1, PushedIsSeq DEF TypeOK
  <2>3. Overflow(cur[t], surviving[t]) \subseteq Events
    BY <2>1, OverflowSubset DEF TypeOK
  <2>. QED
    BY <1>14, <2>1, <2>2, <2>3, EmptySeq DEF Push, TypeOK, Labels, db, session, world
<1>15. ASSUME NEW t \in Threads, OpenWindow(t) \/ ExtendWindow(t) PROVE Typed'
  <2>1. cur[t] \in Webhooks
    BY <1>15 DEF OpenWindow, ExtendWindow
  <2>2. /\ UNCHANGED <<db, batch, rest, burst, pending, session, work, world>> /\ Renew(cur[t])
        /\ \E label \in {"drain", "next"} : pc' = [pc EXCEPT ![t] = label]
    BY <1>15 DEF OpenWindow, ExtendWindow
  <2>3. pc' \in [Threads -> Labels]
    BY <2>2 DEF TypeOK, Labels
  <2>6. batchAge' \in [Webhooks -> Nat \cup {None}]
    BY <2>2 DEF Renew, TypeOK
  <2>7. tsAge' \in [Webhooks -> Nat \cup {None}]
    <3>1. CASE OpenWindow(t)
      BY <3>1 DEF OpenWindow, TypeOK
    <3>2. CASE ExtendWindow(t)
      BY <3>2 DEF ExtendWindow, TypeOK
    <3>. QED
      BY <1>15, <3>1, <3>2
  <2>4. TypeOK'
    BY <2>2, <2>3, <2>6, <2>7 DEF TypeOK, db, session, work, world
  <2>5. AtWork'
    BY <1>15, <2>1, <2>2 DEF TypeOK, session, work
  <2>. QED
    BY <2>2, <2>4, <2>5 DEF db
<1>16. ASSUME NEW t \in Threads, Drain(t) PROVE Typed'
  <2>1. cur[t] \in Webhooks
    BY <1>16 DEF Drain
  <2>2. Elements(batch[cur[t]]) \subseteq Events
    BY <2>1, ElementsSubset DEF TypeOK
  <2>3. drained' \in [Threads -> SUBSET Events] /\ pc' \in [Threads -> Labels]
    BY <1>16, <2>2 DEF Drain, TypeOK, Labels
  <2>4. TypeOK'
    BY <1>16, <2>3 DEF Drain, TypeOK, db, keys, session, world
  <2>5. AtWork'
    BY <1>16, <2>1 DEF Drain, TypeOK, session
  <2>. QED
    BY <1>16, <2>4, <2>5 DEF Drain, db
<1>17. ASSUME NEW t \in Threads, PostOk(t) PROVE Typed'
  BY <1>17 DEF PostOk, TypeOK, Labels, db, keys, session, work
<1>18. ASSUME NEW t \in Threads, ClearBatch(t) PROVE Typed'
  BY <1>18, EmptySeq DEF ClearBatch, TypeOK, Labels, db, session, work, world
<1>19. ASSUME NEW t \in Threads, Commit(t) PROVE Typed'
  <2>1. PICK e \in drained[t] : cursor' = [cursor EXCEPT ![cur[t]] = ObservedAt[e]]
    BY <1>19 DEF Commit
  <2>2. ObservedAt[e] \in Nat
    BY <2>1, EventShape DEF TypeOK
  <2>. QED
      <3>1. cursor' \in [Webhooks -> Nat \cup {None}]
      BY <2>1, <2>2 DEF TypeOK
    <3>2. failures' \in [Webhooks -> Nat] /\ streak' \in [Webhooks -> Nat]
      BY <1>19 DEF Commit, TypeOK
    <3>3. CommitSession(t)
      BY <1>19 DEF Commit
    <3>. QED
      BY <1>19, <3>1, <3>2, <3>3, SessionTyped DEF Commit, TypeOK, keys
<1>20. ASSUME NEW t \in Threads, PostFail(t) PROVE Typed'
  <2>1. cur[t] \in Webhooks
    BY <1>20 DEF PostFail
  <2>2. Held(t, cur[t]).failures \in Nat /\ streak[cur[t]] \in Nat
    BY <2>1, HeldIsRow DEF Row, TypeOK
  <2>. QED
    <3>1. /\ failures' \in [Webhooks -> Nat]
          /\ streak' \in [Webhooks -> Nat]
          /\ enabled' \in [Webhooks -> BOOLEAN]
      <4>1. PICK n \in Nat, k \in Nat : n = Held(t, cur[t]).failures + 1 /\ k = streak[cur[t]] + 1
        BY <2>2
      <4>8. RecordFailure(t, cur[t])
        BY <1>20 DEF PostFail
      <4>2. failures' = [failures EXCEPT ![cur[t]] = n]
        BY <4>1, <4>8 DEF RecordFailure
      <4>3. streak' = [streak EXCEPT ![cur[t]] = k]
        BY <4>1, <4>8 DEF RecordFailure
      <4>4. enabled' = [enabled EXCEPT ![cur[t]] = @ /\ n < AutoDisable]
        BY <4>1, <4>8 DEF RecordFailure
      <4>5. failures' \in [Webhooks -> Nat]
        BY <4>2 DEF TypeOK
      <4>6. streak' \in [Webhooks -> Nat]
        BY <4>3 DEF TypeOK
      <4>7. enabled' \in [Webhooks -> BOOLEAN]
        BY <4>4 DEF TypeOK
      <4>. QED
        BY <4>5, <4>6, <4>7
    <3>2. received' \in [Webhooks -> SUBSET Events]
      <4>1. PICK got \in {{}, drained[t]} :
                 received' = [received EXCEPT ![cur[t]] = @ \cup got]
        BY <1>20 DEF PostFail
      <4>2. got \in SUBSET Events
        BY DEF TypeOK
      <4>. QED
        BY <4>1, <4>2 DEF TypeOK
    <3>3. CommitSession(t)
      BY <1>20 DEF PostFail, RecordFailure
    <3>. QED
      BY <1>20, <3>1, <3>2, <3>3, SessionTyped DEF PostFail, TypeOK, keys
<1>21. ASSUME NEW t \in Threads, ProcessError(t) PROVE Typed'
  BY <1>21, EmptySeq DEF ProcessError, Forget, TypeOK, Labels, db, keys, world
<1>22. CASE Crash
  <2>1. IsFiniteSet(Busy) /\ Cardinality(Busy) \in Nat
    BY ThreadsFinite, FS_Subset, FS_CardinalityType DEF Busy
  <2>2. AtMost(pending + Cardinality(Busy), MaxPending) \in 0 .. MaxPending
    BY <2>1, ClockShape DEF AtMost, TypeOK
  <2>. QED
    BY <1>22, <2>2, EmptySeq DEF Crash, TypeOK, Labels, db, keys, world
<1>23. ASSUME NEW w \in Webhooks, UpdateWebhook(w) PROVE Typed'
  BY <1>23 DEF UpdateWebhook, TypeOK, keys, session, work, world
<1>24. ASSUME NEW w \in Webhooks, ResetCursor(w) PROVE Typed'
  BY <1>24 DEF ResetCursor, TypeOK, keys, session, work, world
<1>25. CASE UNCHANGED vars
  BY <1>25 DEF TypeOK, vars, db, keys, session, work, world
<1>11. ASSUME NEW t \in Threads, Record(t) PROVE Typed'
  <2>1. queue[t] # <<>>
    BY <1>11 DEF Record
  <2>. QED
    <3>1. Head(queue[t]) \in Events /\ Tail(queue[t]) \in Seq(Events)
      BY <2>1, HeadTailProperties DEF TypeOK
    <3>2. Append(surviving[t], Head(queue[t])) \in Seq(Events)
      BY <3>1, AppendProperties DEF TypeOK
    <3>. QED
      <4>1. /\ surviving' \in [Threads -> Seq(Events)] /\ queue' \in [Threads -> Seq(Events)]
            /\ pc' \in [Threads -> Labels]
        BY <1>11, <3>1, <3>2 DEF Record, TypeOK, Labels
      <4>2. TypeOK'
        BY <1>11, <4>1 DEF Record, TypeOK, db, keys, session, world
      <4>3. AtWork'
        BY <1>11 DEF Record, TypeOK, session
      <4>. QED
        BY <1>11, <4>2, <4>3 DEF Record, db
<1>. QED
  BY <1>1, <1>2, <1>3, <1>4, <1>5, <1>6, <1>7, <1>8, <1>9, <1>10, <1>11, <1>12, <1>13, <1>14,
     <1>15, <1>16, <1>17, <1>18, <1>19, <1>20, <1>21, <1>22, <1>23, <1>24, <1>25
     DEF Next, Sending, Environment, Faults, Admin

\* Every variable of the dispatcher keeps its type: the rows, the Redis keys
\* and what each thread holds of them.
THEOREM TypeCorrect == Spec => []TypeOK
<1>1. Spec => []Typed
  BY TypedInit, TypedStep, PTL DEF Spec
<1>2. Typed => TypeOK
  BY DEF Typed
<1>. QED
  BY <1>1, <1>2, PTL
-----------------------------------------------------------------------------
(* The burst window *)

LEMMA RecordersFinite ==
    ASSUME NEW R, R \subseteq Threads
    PROVE  IsFiniteSet(R) /\ Cardinality(R) \in Nat /\ Cardinality(R) <= Cardinality(Threads)
           /\ Cardinality(Threads) \in Nat
BY ThreadsFinite, FS_Subset, FS_CardinalityType

\* BurstOverrunBounded is inductive over Typed: a thread is admitted only under
\* the cap, when at most the other threads are between the check and the record.
LEMMA BurstStep == Typed /\ BurstOverrunBounded /\ [Next]_vars => BurstOverrunBounded'
<1> SUFFICES ASSUME Typed, BurstOverrunBounded, [Next]_vars PROVE BurstOverrunBounded'
  OBVIOUS
<1>0. /\ Recorders \subseteq Threads /\ Recorders' \subseteq Threads
      /\ burst \in Nat /\ TypeOK
  BY DEF Recorders, Typed, TypeOK
<1>1. /\ IsFiniteSet(Recorders) /\ Cardinality(Recorders) \in Nat
      /\ IsFiniteSet(Recorders') /\ Cardinality(Recorders') \in Nat
      /\ Cardinality(Recorders') <= Cardinality(Threads) /\ Cardinality(Threads) \in Nat
  BY <1>0, RecordersFinite
<1>2. CASE burst' = burst /\ Recorders' \subseteq Recorders
  <2>1. Cardinality(Recorders') <= Cardinality(Recorders)
    BY <1>1, <1>2, FS_Subset
  <2>. QED
    BY <1>0, <1>1, <1>2, <2>1, CapsPositive DEF BurstOverrunBounded
<1>3. CASE BurstEntryAges
  <2>1. burst' = burst - 1 /\ Recorders' = Recorders
    BY <1>3 DEF BurstEntryAges, Recorders
  <2>. QED
    BY <1>0, <1>1, <2>1, CapsPositive DEF BurstOverrunBounded
<1>4. ASSUME NEW t \in Threads, Admit(t) PROVE BurstOverrunBounded'
  BY <1>0, <1>1, <1>4, CapsPositive DEF Admit, BurstOverrunBounded
<1>5. ASSUME NEW t \in Threads, Record(t) PROVE BurstOverrunBounded'
  <2>1. t \in Recorders /\ Recorders' = Recorders \ {t} /\ burst' = burst + 1
    BY <1>0, <1>5 DEF Record, Recorders, TypeOK
  <2>2. Cardinality(Recorders') = Cardinality(Recorders) - 1
    BY <1>1, <2>1, FS_RemoveElement
  <2>. QED
    BY <1>0, <1>1, <2>1, <2>2, CapsPositive DEF BurstOverrunBounded
<1>6. ASSUME NEW t \in Threads,
             \/ StartTick(t) \/ EndTick(t) \/ (\E w \in Webhooks : Match(t, w))
             \/ Bypass(t) \/ Suppress(t) \/ NothingSurvived(t) \/ ReadLength(t) \/ Push(t)
             \/ OpenWindow(t) \/ ExtendWindow(t) \/ Drain(t) \/ PostOk(t) \/ ClearBatch(t) \/ Commit(t)
             \/ PostFail(t) \/ ProcessError(t)
      PROVE  burst' = burst /\ \E label \in Labels \ {"record"} : pc' \in {pc, [pc EXCEPT ![t] = label]}
  BY <1>6 DEF StartTick, EndTick, Match, Bypass, Suppress, NothingSurvived, ReadLength, Push,
     OpenWindow, ExtendWindow, Drain, PostOk, ClearBatch, Commit, PostFail, RecordFailure, CommitSession,
     ProcessError, Labels
<1>7. ASSUME NEW t \in Threads, NEW label \in Labels \ {"record"},
             burst' = burst, pc' \in {pc, [pc EXCEPT ![t] = label]}
      PROVE  BurstOverrunBounded'
  <2>1. Recorders' \subseteq Recorders
    BY <1>0, <1>7 DEF Recorders, TypeOK
  <2>. QED
    BY <1>2, <1>7, <2>1
<1>8. CASE Crash
  BY <1>2, <1>8 DEF Crash, Recorders
<1>9. CASE Minute \/ LookbackMoves \/ (\E e \in Events : Ingest(e)) \/ Admin \/ UNCHANGED vars
  BY <1>2, <1>9 DEF Minute, LookbackMoves, Ingest, Admin, UpdateWebhook, ResetCursor, vars, Recorders
<1>. QED
  BY <1>3, <1>4, <1>5, <1>6, <1>7, <1>8, <1>9 DEF Next, Sending, Environment, Faults

\* However many threads run ticks, and however they interleave, fail or crash,
\* the rolling hour holds at most one entry over BURST_HIGH_CAP for each other thread.
THEOREM BurstCorrect == Spec => []BurstOverrunBounded
<1>1. Init => BurstOverrunBounded
  <2> SUFFICES ASSUME Init PROVE BurstOverrunBounded
    OBVIOUS
  <2>1. Recorders = {} /\ burst = 0
    BY DEF Init, Recorders
  <2>2. Cardinality(Recorders) = 0 /\ Cardinality(Threads) \in Nat
    BY <2>1, FS_EmptySet, ThreadsFinite, FS_CardinalityType
  <2>. QED
    BY <2>1, <2>2, CapsPositive DEF BurstOverrunBounded
<1>2. Spec => []Typed
  BY TypedInit, TypedStep, PTL DEF Spec
<1>. QED
  BY <1>1, <1>2, BurstStep, PTL DEF Spec
-----------------------------------------------------------------------------
(* What is queued, posted and recorded *)

Scope(w) == ingested \cap Wanted[w]

\* Every event on its way from the query to the receiver is one the webhook's
\* presets match, and a payload exists only from the LRANGE to the commit.
Holds(t) ==
    /\ pc[t] \notin {"idle", "next"} =>
          /\ queue[t] \in Seq(Scope(cur[t]))
          /\ surviving[t] \in Seq(Scope(cur[t]))
          /\ drained[t] \subseteq Scope(cur[t])
    /\ pc[t] \notin {"burst", "record", "first", "more"} => surviving[t] = <<>>
    /\ pc[t] \notin {"post", "won", "commit"} => drained[t] = {}

InScope ==
    /\ \A w \in Webhooks : batch[w] \in Seq(Scope(w))
    /\ \A t \in Threads : Holds(t)

\* Between the answer and the commit, the payload has been received.  The commit
\* writes the observed_at of a payload event, so neither the promise nor
\* CursorWasReceived is inductive without this.
Sent == \A t \in Threads : pc[t] \in {"won", "commit"} => drained[t] \subseteq received[cur[t]]

\* A step of t that changes no list leaves the other threads as they were.
LEMMA ThreadStep ==
    ASSUME InScope, NEW t \in Threads, UNCHANGED <<ingested, batch>>,
           \A u \in Threads \ {t} : /\ pc'[u] = pc[u] /\ cur'[u] = cur[u] /\ queue'[u] = queue[u]
                                    /\ surviving'[u] = surviving[u] /\ drained'[u] = drained[u],
           Holds(t)'
    PROVE  InScope'
BY DEF InScope, Holds, Scope

LEMMA ScopeStep == Typed /\ InScope /\ [Next]_vars => InScope'
<1> SUFFICES ASSUME Typed, InScope, [Next]_vars PROVE InScope'
  OBVIOUS
<1>0. TypeOK /\ AtWork /\ \A S : <<>> \in Seq(S)
  BY EmptySeq DEF Typed
<1>1. CASE Minute
  BY <1>0, <1>1 DEF Minute, InScope, Holds, Scope, db, session, work
<1>2. CASE LookbackMoves \/ BurstEntryAges \/ Admin \/ UNCHANGED vars
  BY <1>2 DEF LookbackMoves, BurstEntryAges, Admin, UpdateWebhook, ResetCursor, vars,
     InScope, Holds, Scope, db, keys, session, work
<1>3. ASSUME NEW e \in Events, Ingest(e) PROVE InScope'
  <2>1. \A w : Scope(w) \subseteq Scope(w)'
    BY <1>3 DEF Ingest, Scope
  <2>2. \A w : \A s \in Seq(Scope(w)) : s \in Seq(Scope(w)')
    BY <2>1, SeqMonotonic
  <2>3. \A w \in Webhooks : batch'[w] \in Seq(Scope(w)')
    BY <1>3, <2>2 DEF Ingest, InScope, keys
  <2>. QED
    BY <1>3, <2>1, <2>2, <2>3 DEF Ingest, InScope, Holds, keys, session, work
<1>4. ASSUME NEW t \in Threads, StartTick(t) \/ EndTick(t) PROVE InScope'
  <2>1. Holds(t)'
    BY <1>0, <1>4 DEF StartTick, EndTick, InScope, Holds, TypeOK, session, work
  <2>. QED
    BY <1>0, <1>4, <2>1, ThreadStep DEF StartTick, EndTick, TypeOK, db, keys, session, work
<1>5. ASSUME NEW t \in Threads, NEW w \in Webhooks, Match(t, w) PROVE InScope'
  <2>1. CASE Matching(t, w) = {}
    BY <1>5, <2>1 DEF Match, InScope, Holds, Scope, db, keys, work
  <2>2. CASE Matching(t, w) # {}
    <3>1. PICK s \in NewestFirst(Matching(t, w)) : queue' = [queue EXCEPT ![t] = s]
      BY <1>5, <2>2 DEF Match
    <3>2. Matching(t, w) \subseteq Scope(w) /\ IsFiniteSet(Matching(t, w))
      BY FS_Subset DEF Matching, Scope, Typed
    <3>3. s \in Seq(Scope(w))
      BY <3>1, <3>2, NewestFirstIsSeq, SeqMonotonic
    <3>4. Holds(t)'
      <4>1. /\ pc'[t] = "burst" /\ cur'[t] = w /\ queue'[t] = s
            /\ surviving'[t] = <<>> /\ drained'[t] = {}
        BY <1>0, <1>5, <2>2, <3>1 DEF Match, InScope, Holds, TypeOK
      <4>2. Scope(w)' = Scope(w)
        BY <1>5 DEF Match, Scope, db
      <4>. QED
        BY <1>0, <3>3, <4>1, <4>2 DEF Holds
    <3>. QED
      BY <1>0, <1>5, <2>2, <3>1, <3>4, ThreadStep DEF Match, TypeOK, db, keys
  <2>. QED
    BY <2>1, <2>2
<1>6. ASSUME NEW t \in Threads, Bypass(t) \/ Suppress(t) \/ Record(t) PROVE InScope'
  <2>1. queue[t] # <<>> /\ queue[t] \in Seq(Scope(cur[t])) /\ surviving[t] \in Seq(Scope(cur[t]))
    BY <1>0, <1>6 DEF Bypass, Suppress, Record, InScope, Holds, AtWork
  <2>2. Head(queue[t]) \in Scope(cur[t]) /\ Tail(queue[t]) \in Seq(Scope(cur[t]))
    BY <2>1, HeadTailProperties
  <2>3. Append(surviving[t], Head(queue[t])) \in Seq(Scope(cur[t]))
    BY <2>1, <2>2, AppendProperties
  <2>4. Holds(t)'
    <3>1. /\ pc'[t] = "burst" /\ cur'[t] = cur[t] /\ ingested' = ingested /\ drained'[t] = drained[t]
          /\ queue'[t] = Tail(queue[t])
          /\ surviving'[t] = surviving[t] \/ surviving'[t] = Append(surviving[t], Head(queue[t]))
      BY <1>0, <1>6 DEF Bypass, Suppress, Record, TypeOK, db, session
    <3>2. drained[t] = {}
      BY <1>0, <1>6 DEF Bypass, Suppress, Record, InScope, Holds
    <3>3. Scope(cur[t])' = Scope(cur[t])
      BY <3>1 DEF Scope
    <3>. QED
      BY <2>1, <2>2, <2>3, <3>1, <3>2, <3>3 DEF Holds
  <2>. QED
    BY <1>0, <1>6, <2>4, ThreadStep DEF Bypass, Suppress, Record, TypeOK, db, keys, session
<1>7. ASSUME NEW t \in Threads,
             Admit(t) \/ NothingSurvived(t) \/ ReadLength(t) \/ PostOk(t)
      PROVE  InScope'
  <2>1. Holds(t)'
    <3>1. /\ cur' = cur /\ ingested' = ingested /\ queue' = queue /\ surviving' = surviving /\ drained' = drained
          /\ pc'[t] \in {"record", "next", "first", "more", "won"} /\ pc[t] \in {"burst", "post"}
          /\ pc'[t] = "next" => surviving[t] = <<>>
          /\ pc'[t] = "won" <=> pc[t] = "post"
      BY <1>0, <1>7 DEF Admit, NothingSurvived, ReadLength, PostOk, TypeOK, db, session, work
    <3>2. Scope(cur[t])' = Scope(cur[t])
      BY <3>1 DEF Scope
    <3>. QED
      BY <1>0, <1>7, <3>1, <3>2 DEF InScope, Holds
  <2>. QED
    BY <1>0, <1>7, <2>1, ThreadStep DEF Admit, NothingSurvived, ReadLength, PostOk, TypeOK,
       db, keys, session, work
<1>8. ASSUME NEW t \in Threads, Push(t) PROVE InScope'
  <2>1. cur[t] \in Webhooks /\ batch[cur[t]] \in Seq(Scope(cur[t])) /\ surviving[t] \in Seq(Scope(cur[t]))
    BY <1>0, <1>8 DEF Push, InScope, Holds, AtWork
  <2>2. Pushed(cur[t], surviving[t]) \in Seq(Scope(cur[t]))
    BY <2>1, PushedIsSeq
  <2>. QED
    BY <1>0, <1>8, <2>2 DEF Push, InScope, Holds, Scope, TypeOK, db, session
<1>9. ASSUME NEW t \in Threads, OpenWindow(t) \/ ExtendWindow(t) \/ Drain(t) PROVE InScope'
  <2>1. cur[t] \in Webhooks /\ batch[cur[t]] \in Seq(Scope(cur[t]))
    BY <1>0, <1>9 DEF OpenWindow, ExtendWindow, Drain, InScope, AtWork
  <2>2. Elements(batch[cur[t]]) \subseteq Scope(cur[t]) /\ Elements(<<>>) = {}
    BY <2>1, ElementsSubset DEF Elements
  <2>3. CASE Drain(t)
    <3>1. CASE batch[cur[t]] = <<>>
      BY <1>0, <2>2, <2>3, <3>1 DEF Drain, InScope, Holds, Scope, TypeOK, db, keys, session
    <3>2. CASE batch[cur[t]] # <<>>
      BY <1>0, <2>2, <2>3, <3>2 DEF Drain, InScope, Holds, Scope, TypeOK, db, keys, session
    <3>. QED
      BY <3>1, <3>2
  <2>4. CASE OpenWindow(t) \/ ExtendWindow(t)
    <3>1. /\ UNCHANGED <<ingested, batch, cur, queue, surviving, drained>> /\ pc'[t] \in {"drain", "next"}
          /\ \A u \in Threads \ {t} : pc'[u] = pc[u]
      BY <1>0, <2>4 DEF OpenWindow, ExtendWindow, TypeOK, db, session, work
    <3>2. Holds(t)'
      BY <1>0, <2>4, <3>1 DEF OpenWindow, ExtendWindow, InScope, Holds, Scope
    <3>. QED
      BY <3>1, <3>2, ThreadStep
  <2>. QED
    BY <1>9, <2>3, <2>4
<1>10. ASSUME NEW t \in Threads, ClearBatch(t) PROVE InScope'
  BY <1>0, <1>10 DEF ClearBatch, InScope, Holds, Scope, TypeOK, db, session, work
<1>11. ASSUME NEW t \in Threads, Commit(t) \/ PostFail(t) PROVE InScope'
  <2>1. CommitSession(t) /\ UNCHANGED <<ingested, batch, cur, queue, surviving>> /\ pc[t] \in {"post", "commit"}
    BY <1>11 DEF Commit, PostFail, RecordFailure, keys
  <2>2. Holds(t)'
    BY <1>0, <2>1 DEF CommitSession, InScope, Holds, TypeOK
  <2>. QED
    BY <1>0, <2>1, <2>2, ThreadStep DEF CommitSession, TypeOK
<1>12. ASSUME NEW t \in Threads, ProcessError(t) PROVE InScope'
  BY <1>0, <1>12 DEF ProcessError, InScope, Holds, Scope, TypeOK, db, keys
<1>13. CASE Crash
  BY <1>13 DEF Crash, InScope, Holds, Scope, db, keys
<1>. QED
  BY <1>1, <1>2, <1>3, <1>4, <1>5, <1>6, <1>7, <1>8, <1>9, <1>10, <1>11, <1>12, <1>13
     DEF Next, Sending, Environment, Faults
LEMMA SentStep == Typed /\ InScope /\ Sent /\ [Next]_vars => Sent'
<1> SUFFICES ASSUME Typed, InScope, Sent, [Next]_vars PROVE Sent'
  OBVIOUS
<1>0. TypeOK /\ AtWork
  BY DEF Typed
<1>1. CASE Environment \/ Admin \/ UNCHANGED vars
  BY <1>1 DEF Environment, Minute, LookbackMoves, Ingest, BurstEntryAges, Admin, UpdateWebhook,
     ResetCursor, vars, Sent, session, work, world
<1>2. ASSUME NEW t \in Threads,
             \/ StartTick(t) \/ EndTick(t) \/ (\E w \in Webhooks : Match(t, w))
             \/ Bypass(t) \/ Suppress(t) \/ Admit(t) \/ Record(t)
             \/ NothingSurvived(t) \/ ReadLength(t) \/ Push(t) \/ OpenWindow(t) \/ ExtendWindow(t)
             \/ Drain(t) \/ ProcessError(t)
      PROVE  Sent'
  <2>1. /\ received' = received /\ pc'[t] \notin {"won", "commit"}
        /\ \A u \in Threads \ {t} : pc'[u] = pc[u] /\ cur'[u] = cur[u] /\ drained'[u] = drained[u]
    BY <1>0, <1>2 DEF StartTick, EndTick, Match, Bypass, Suppress, Admit, Record, NothingSurvived,
       ReadLength, Push, OpenWindow, ExtendWindow, Drain, ProcessError, TypeOK, session, work, world
  <2>. QED
    BY <2>1 DEF Sent
<1>3. ASSUME NEW t \in Threads, PostOk(t) PROVE Sent'
  <2>1. cur[t] \in Webhooks
    BY <1>0, <1>3 DEF PostOk, AtWork
  <2>2. received' = [received EXCEPT ![cur[t]] = @ \cup drained[t]] /\ UNCHANGED <<cur, drained>>
    BY <1>3 DEF PostOk, session, work
  <2>3. \A u \in Threads \ {t} : pc'[u] = pc[u]
    BY <1>0, <1>3 DEF PostOk, TypeOK
  <2>4. drained[t] \subseteq received'[cur[t]]
    BY <1>0, <2>1, <2>2 DEF TypeOK
  <2>5. \A w \in Webhooks : received[w] \subseteq received'[w]
    BY <1>0, <2>2 DEF TypeOK
  <2>6. \A u \in Threads : pc[u] \in {"won", "commit"} => cur[u] \in Webhooks
    BY <1>0 DEF AtWork
  <2>. QED
    BY <2>2, <2>3, <2>4, <2>5, <2>6 DEF Sent
<1>4. ASSUME NEW t \in Threads, ClearBatch(t) PROVE Sent'
  BY <1>0, <1>4 DEF ClearBatch, Sent, TypeOK, session, work, world
<1>5. ASSUME NEW t \in Threads, Commit(t) \/ PostFail(t) PROVE Sent'
  <2>1. pc'[t] = "next" /\ cur' = cur /\ \A u \in Threads \ {t} : pc'[u] = pc[u] /\ drained'[u] = drained[u]
    BY <1>0, <1>5 DEF Commit, PostFail, RecordFailure, CommitSession, TypeOK
  <2>2. \A w \in Webhooks : received[w] \subseteq received'[w]
    <3>1. CASE Commit(t)
      BY <3>1 DEF Commit
    <3>2. CASE PostFail(t)
      <4>1. PICK got \in {{}, drained[t]} : received' = [received EXCEPT ![cur[t]] = @ \cup got]
        BY <3>2 DEF PostFail
      <4>. QED
        BY <1>0, <4>1 DEF TypeOK
    <3>. QED
      BY <1>5, <3>1, <3>2
  <2>3. \A u \in Threads : pc[u] \in {"won", "commit"} => cur[u] \in Webhooks
    BY <1>0 DEF AtWork
  <2>. QED
    BY <2>1, <2>2, <2>3 DEF Sent
<1>6. CASE Crash
  BY <1>6 DEF Crash, Sent
<1>. QED
  BY <1>1, <1>2, <1>3, <1>4, <1>5, <1>6 DEF Next, Sending, Faults

\* A step maps to a step of DeliveryPromise or to a stutter.
LEMMA PromiseStep ==
    Typed /\ InScope /\ Sent /\ [Next]_vars => [Promise!Next]_(Promise!promised)
<1> SUFFICES ASSUME Typed, InScope, Sent, [Next]_vars
             PROVE  Promise!Next \/ UNCHANGED <<ingested, received, cursor>>
  BY DEF Promise!promised
<1>0. TypeOK /\ AtWork
  BY DEF Typed
<1>1. ASSUME NEW e \in Events, Ingest(e) PROVE Promise!Ingest
  BY <1>1 DEF Ingest, Promise!Ingest, world
<1>2. ASSUME NEW t \in Threads, PostOk(t) \/ PostFail(t)
      PROVE  \E w \in Webhooks : Promise!Send(w)
  <2>1. cur[t] \in Webhooks /\ drained[t] \in SUBSET (ingested \cap Wanted[cur[t]])
    BY <1>0, <1>2 DEF PostOk, PostFail, AtWork, InScope, Holds, Scope
  <2>2. PICK sent \in {{}, drained[t]} : received' = [received EXCEPT ![cur[t]] = @ \cup sent]
    <3>1. CASE PostOk(t)
      BY <3>1 DEF PostOk
    <3>2. CASE PostFail(t)
      BY <3>2 DEF PostFail
    <3>. QED
      BY <1>2, <3>1, <3>2
  <2>3. UNCHANGED <<ingested, cursor>>
    BY <1>2 DEF PostOk, PostFail, db
  <2>. QED
    BY <2>1, <2>2, <2>3 DEF Promise!Send
<1>3. ASSUME NEW t \in Threads, Commit(t) PROVE \E w \in Webhooks : Promise!Advance(w)
  <2>1. cur[t] \in Webhooks /\ drained[t] \subseteq received[cur[t]]
    BY <1>0, <1>3 DEF Commit, AtWork, Sent
  <2>. QED
    BY <1>3, <2>1 DEF Commit, Promise!Advance
<1>4. ASSUME NEW w \in Webhooks, ResetCursor(w) PROVE Promise!Reset(w)
  BY <1>4 DEF ResetCursor, Promise!Reset, world
<1>5. ASSUME NEW t \in Threads,
             \/ StartTick(t) \/ EndTick(t) \/ (\E w \in Webhooks : Match(t, w))
             \/ Bypass(t) \/ Suppress(t) \/ Admit(t) \/ Record(t)
             \/ NothingSurvived(t) \/ ReadLength(t) \/ Push(t) \/ OpenWindow(t) \/ ExtendWindow(t)
             \/ Drain(t) \/ ClearBatch(t) \/ ProcessError(t)
      PROVE  UNCHANGED <<ingested, received, cursor>>
  BY <1>5 DEF StartTick, EndTick, Match, Bypass, Suppress, Admit, Record, NothingSurvived,
     ReadLength, Push, OpenWindow, ExtendWindow, Drain, ClearBatch, ProcessError, db, world
<1>6. CASE Minute \/ LookbackMoves \/ BurstEntryAges \/ Crash \/ (\E w \in Webhooks : UpdateWebhook(w))
           \/ UNCHANGED vars
  BY <1>6 DEF Minute, LookbackMoves, BurstEntryAges, Crash, UpdateWebhook, vars, db, world
<1>. QED
  BY <1>1, <1>2, <1>3, <1>4, <1>5, <1>6
     DEF Next, Sending, Environment, Faults, Admin, Promise!Next

LEMMA CursorStep == Typed /\ Sent /\ CursorWasReceived /\ [Promise!Next]_(Promise!promised) => CursorWasReceived'
<1> SUFFICES ASSUME Typed, CursorWasReceived, Promise!Next \/ UNCHANGED <<ingested, received, cursor>>
             PROVE  CursorWasReceived'
  BY DEF Promise!promised
<1>0. cursor \in [Webhooks -> Nat \cup {None}] /\ received \in [Webhooks -> SUBSET Events]
  BY DEF Typed, TypeOK
<1>1. CASE Promise!Ingest \/ UNCHANGED <<ingested, received, cursor>>
  BY <1>1 DEF Promise!Ingest, CursorWasReceived
<1>2. ASSUME NEW w \in Webhooks, Promise!Send(w) PROVE CursorWasReceived'
  BY <1>0, <1>2 DEF Promise!Send, CursorWasReceived
<1>3. ASSUME NEW w \in Webhooks, Promise!Advance(w) PROVE CursorWasReceived'
  BY <1>0, <1>3 DEF Promise!Advance, CursorWasReceived
<1>4. ASSUME NEW w \in Webhooks, Promise!Reset(w) PROVE CursorWasReceived'
  BY <1>0, <1>4 DEF Promise!Reset, CursorWasReceived
<1>. QED
  BY <1>1, <1>2, <1>3, <1>4 DEF Promise!Next

LEMMA DeliveringInit == Init => InScope /\ Sent /\ CursorWasReceived /\ Promise!Init
BY EmptySeq DEF Init, InScope, Holds, Sent, CursorWasReceived, Promise!Init

\* With any number of overlapping, failing and crashing ticks, and an admin who
\* disables webhooks and resets cursors, the dispatcher does only what
\* DeliveryPromise allows.
THEOREM PromiseKept == Spec => KeepsPromise
<1>1. Spec => [](Typed /\ InScope /\ Sent)
  BY TypedInit, TypedStep, DeliveringInit, ScopeStep, SentStep, PTL DEF Spec
<1>2. Spec => Promise!Init
  BY DeliveringInit, PTL DEF Spec
<1>3. Spec => [][Promise!Next]_(Promise!promised)
  BY <1>1, PromiseStep, PTL DEF Spec
<1>. QED
  BY <1>2, <1>3, PTL DEF KeepsPromise, Promise!Spec

\* last_dispatch_at is always the observed_at of an event the destination was sent.
THEOREM CursorCorrect == Spec => []CursorWasReceived
<1>1. Spec => [](Typed /\ InScope /\ Sent)
  BY TypedInit, TypedStep, DeliveringInit, ScopeStep, SentStep, PTL DEF Spec
<1>2. Spec => [][Promise!Next]_(Promise!promised)
  BY <1>1, PromiseStep, PTL DEF Spec
<1>3. Init => CursorWasReceived
  BY DeliveringInit
<1>. QED
  BY <1>1, <1>2, <1>3, CursorStep, PTL DEF Spec

-----------------------------------------------------------------------------
(* Ticks that do not overlap *)

\* The worker runs one tick at a time.
Solo == \A t, u \in Threads : t = u

\* What a session holds of a row is what the row says, but for a cursor that was reset.
SessionFresh ==
    \A t \in Threads, w \in Webhooks : orm[t][w] # None =>
        orm[t][w].failures = failures[w] /\ cursor[w] \in {None, orm[t][w].cursor}

\* What a tick has in hand is not behind the cursor, what it posts is all that a digest reads
\* of the list, and nothing is pushed between the deletion of the list and the commit.
Ahead(t) ==
    /\ pc[t] \notin {"burst", "record"} => queue[t] = <<>>
    /\ pc[t] \notin {"idle", "next"} /\ cursor[cur[t]] # None =>
          \A e \in Elements(queue[t]) \cup Elements(surviving[t]) \cup drained[t] : ObservedAt[e] >= cursor[cur[t]]
    /\ pc[t] \in {"post", "won"} => Elements(batch[cur[t]]) \subseteq drained[t]
    /\ pc[t] = "commit" => batch[cur[t]] = <<>>

\* BatchNotBehindCursor, event by event.
ListAhead == \A w \in Webhooks : cursor[w] # None => \A e \in Elements(batch[w]) : ObservedAt[e] >= cursor[w]
Bounded == \A w \in Webhooks : Len(batch[w]) <= MaxDigest

\* FailuresCountTheStreak is not inductive without SessionFresh, from which the next count is
\* computed, nor BatchNotBehindCursor without Ahead: the events reach the list by the tick.
SoloInv == SessionFresh /\ FailuresCountTheStreak /\ ListAhead /\ Bounded /\ \A t \in Threads : Ahead(t)

\* The elements of sequences that the tick takes apart and puts together.
LEMMA ElementsOf ==
    ASSUME NEW S, NEW s \in Seq(S)
    PROVE  /\ Elements(<<>>) = {}
           /\ \A x \in S : Elements(Append(s, x)) = Elements(s) \cup {x}
           /\ s # <<>> => Head(s) \in Elements(s) /\ Elements(Tail(s)) \subseteq Elements(s)
<1>1. Elements(<<>>) = {}
  BY DEF Elements
<1>2. ASSUME NEW x \in S PROVE Elements(Append(s, x)) = Elements(s) \cup {x}
  <2>1. /\ Len(s) \in Nat /\ DOMAIN s = 1 .. Len(s) /\ DOMAIN Append(s, x) = 1 .. Len(s) + 1
        /\ \A i \in 1 .. Len(s) : Append(s, x)[i] = s[i]
        /\ Append(s, x)[Len(s) + 1] = x
    BY AppendProperties, LenProperties
  <2>2. Elements(Append(s, x)) \subseteq Elements(s) \cup {x}
    BY <2>1 DEF Elements
  <2>3. Elements(s) \cup {x} \subseteq Elements(Append(s, x))
    BY <2>1 DEF Elements
  <2> QED
    BY <2>2, <2>3
<1>3. ASSUME s # <<>> PROVE Head(s) \in Elements(s) /\ Elements(Tail(s)) \subseteq Elements(s)
  <2>1. /\ Len(s) \in Nat \ {0} /\ DOMAIN s = 1 .. Len(s) /\ Head(s) = s[1]
        /\ DOMAIN Tail(s) = 1 .. Len(s) - 1 /\ \A i \in 1 .. Len(s) - 1 : Tail(s)[i] = s[i + 1]
    BY <1>3, HeadTailProperties, LenProperties, EmptySeq
  <2> QED
    BY <2>1 DEF Elements
<1> QED
  BY <1>1, <1>2, <1>3

\* RPUSH keeps the entries that a digest reads, adds survivors only, and no more than it reads.
LEMMA PushedElements ==
    ASSUME NEW S, NEW w \in Webhooks, batch[w] \in Seq(S), NEW s \in Seq(S), Len(batch[w]) <= MaxDigest
    PROVE  /\ Elements(Pushed(w, s)) \subseteq Elements(batch[w]) \cup Elements(s)
           /\ Elements(batch[w]) \subseteq Elements(Pushed(w, s))
           /\ Len(Pushed(w, s)) <= MaxDigest
<1> DEFINE both == batch[w] \o s
           n == AtMost(Len(both), MaxDigest)
<1>1. /\ both \in Seq(S) /\ Len(both) = Len(batch[w]) + Len(s) /\ Len(batch[w]) \in Nat /\ Len(s) \in Nat
      /\ \A i \in 1 .. Len(both) : both[i] = IF i <= Len(batch[w]) THEN batch[w][i] ELSE s[i - Len(batch[w])]
  BY ConcatProperties, LenProperties
<1>2. n \in 0 .. Len(both) /\ n <= MaxDigest /\ Len(batch[w]) <= n
  BY <1>1, CapsPositive DEF AtMost
<1>3. SubSeq(both, 1, n) \in Seq(S) /\ Len(SubSeq(both, 1, n)) = n /\ \A i \in 1 .. n : SubSeq(both, 1, n)[i] = both[i]
  <2>1. \A i \in 1 .. n : both[i] \in S
    BY <1>1, <1>2, ElementOfSeq
  <2> HIDE DEF n, both
  <2> QED
    BY <1>2, <2>1, SubSeqProperties
<1>4. /\ DOMAIN batch[w] = 1 .. Len(batch[w]) /\ DOMAIN s = 1 .. Len(s) /\ DOMAIN SubSeq(both, 1, n) = 1 .. n
  BY <1>3, LenProperties
<1> HIDE DEF n, both
<1>5. Elements(SubSeq(both, 1, n)) \subseteq Elements(batch[w]) \cup Elements(s)
  <2> SUFFICES ASSUME NEW i \in 1 .. n PROVE both[i] \in Elements(batch[w]) \cup Elements(s)
    BY <1>3, <1>4 DEF Elements
  <2>1. CASE i <= Len(batch[w])
    BY <1>1, <1>2, <1>4, <2>1 DEF Elements
  <2>2. CASE i > Len(batch[w])
    <3>1. i \in 1 .. Len(both) /\ i - Len(batch[w]) \in 1 .. Len(s) /\ ~(i <= Len(batch[w]))
      BY <1>1, <1>2, <2>2
    <3>2. both[i] = s[i - Len(batch[w])]
      BY <1>1, <3>1
    <3> QED
      BY <1>4, <3>1, <3>2 DEF Elements
  <2> QED
    BY <1>1, <1>2, <2>1, <2>2
<1>6. Elements(batch[w]) \subseteq Elements(SubSeq(both, 1, n))
  <2> SUFFICES ASSUME NEW i \in 1 .. Len(batch[w]) PROVE batch[w][i] \in Elements(SubSeq(both, 1, n))
    BY <1>4 DEF Elements
  <2>1. i \in 1 .. n /\ i \in 1 .. Len(both) /\ i <= Len(batch[w])
    BY <1>1, <1>2
  <2>2. SubSeq(both, 1, n)[i] = batch[w][i]
    BY <1>1, <1>3, <2>1
  <2> QED
    BY <1>4, <2>1, <2>2 DEF Elements
<1> QED
  BY <1>2, <1>3, <1>5, <1>6 DEF Pushed, n, both

\* A tick's session that ends, or commits, holds no row.
LEMMA StreakStep ==
    ASSUME Solo, Typed, SessionFresh, FailuresCountTheStreak, [Next]_vars
    PROVE  SessionFresh' /\ FailuresCountTheStreak'
<1>0. TypeOK /\ AtWork
  BY DEF Typed
<1> USE DEF FailuresCountTheStreak
<1>1. CASE \/ Environment \/ (\E w \in Webhooks : UpdateWebhook(w)) \/ UNCHANGED vars
  BY <1>1 DEF Environment, Minute, LookbackMoves, Ingest, BurstEntryAges, UpdateWebhook, vars, SessionFresh,
     db, session, world
<1>2. ASSUME NEW w \in Webhooks, ResetCursor(w) PROVE SessionFresh' /\ FailuresCountTheStreak'
  BY <1>0, <1>2 DEF ResetCursor, SessionFresh, TypeOK, session, world
<1>3. ASSUME NEW t \in Threads, StartTick(t) PROVE SessionFresh' /\ FailuresCountTheStreak'
  BY <1>0, <1>3 DEF StartTick, SessionFresh, Solo, RowOf, TypeOK, db, world
<1>4. ASSUME NEW t \in Threads, NEW w \in Webhooks, Match(t, w) PROVE SessionFresh' /\ FailuresCountTheStreak'
  <2>1. Held(t, w).failures = failures[w] /\ cursor[w] \in {None, Held(t, w).cursor}
    BY DEF Held, RowOf, SessionFresh
  <2>2. orm' = [orm EXCEPT ![t][w] = Held(t, w)] /\ UNCHANGED <<db, world>>
    BY <1>4 DEF Match
  <2> QED
    BY <1>0, <2>1, <2>2 DEF SessionFresh, TypeOK, db, world
<1>5. ASSUME NEW t \in Threads,
             \/ Bypass(t) \/ Suppress(t) \/ Admit(t) \/ Record(t) \/ NothingSurvived(t) \/ ReadLength(t)
             \/ Push(t) \/ OpenWindow(t) \/ ExtendWindow(t) \/ Drain(t) \/ PostOk(t) \/ ClearBatch(t)
      PROVE  SessionFresh' /\ FailuresCountTheStreak'
  <2>1. UNCHANGED <<orm, cursor, failures, streak>>
    BY <1>5 DEF Bypass, Suppress, Admit, Record, NothingSurvived, ReadLength, Push, OpenWindow, ExtendWindow,
       Drain, PostOk, ClearBatch, db, session, world
  <2> QED
    BY <2>1 DEF SessionFresh
<1>6. ASSUME NEW t \in Threads, EndTick(t) \/ ProcessError(t) PROVE SessionFresh' /\ FailuresCountTheStreak'
  BY <1>0, <1>6 DEF EndTick, ProcessError, Forget, SessionFresh, Solo, TypeOK, db, world
<1>7. ASSUME NEW t \in Threads, Commit(t) PROVE SessionFresh' /\ FailuresCountTheStreak'
  <2>1. \A w \in Webhooks : orm'[t][w] = None
    BY <1>0, <1>7 DEF Commit, CommitSession, Forget, TypeOK
  <2>2. SessionFresh'
    BY <2>1 DEF SessionFresh, Solo
  <2> QED
    BY <1>0, <1>7, <2>2 DEF Commit, TypeOK
<1>8. ASSUME NEW t \in Threads, PostFail(t) PROVE SessionFresh' /\ FailuresCountTheStreak'
  <2>1. \A w \in Webhooks : orm'[t][w] = None
    BY <1>0, <1>8 DEF PostFail, RecordFailure, CommitSession, Forget, TypeOK
  <2>2. SessionFresh'
    BY <2>1 DEF SessionFresh, Solo
  <2>3. cur[t] \in Webhooks
    BY <1>0, <1>8 DEF PostFail, AtWork
  <2>4. Held(t, cur[t]).failures = failures[cur[t]]
    BY <2>3 DEF Held, RowOf, SessionFresh
  <2> QED
    BY <1>0, <1>8, <2>2, <2>3, <2>4 DEF PostFail, RecordFailure, TypeOK
<1>9. CASE Crash
  BY <1>9 DEF Crash, SessionFresh, db, world
<1> QED
  BY <1>1, <1>2, <1>3, <1>4, <1>5, <1>6, <1>7, <1>8, <1>9 DEF Next, Sending, Faults, Admin

\* What a step of the one tick leaves as it was.
LEMMA AheadStep ==
    ASSUME Solo, Typed, InScope, SessionFresh, ListAhead, Bounded, \A t \in Threads : Ahead(t), [Next]_vars
    PROVE  ListAhead' /\ Bounded' /\ \A t \in Threads : Ahead(t)'
<1> DEFINE Goal == ListAhead /\ Bounded /\ \A t \in Threads : Ahead(t)
<1> SUFFICES Goal'
  OBVIOUS
<1>0. TypeOK /\ AtWork /\ Elements(<<>>) = {} /\ Len(<<>>) = 0 /\ MaxDigest \in Nat
  BY EmptySeq, CapsPositive DEF Typed, Elements
<1>1. CASE Minute
  <2>1. \A w \in Webhooks : batch'[w] = batch[w] \/ batch'[w] = <<>>
    BY <1>1 DEF Minute
  <2>2. UNCHANGED <<cursor, pc, cur, queue, surviving, drained>>
    BY <1>1 DEF Minute, db, session, work
  <2>3. ListAhead' /\ Bounded'
    BY <1>0, <2>1, <2>2 DEF ListAhead, Bounded
  <2>4. ASSUME NEW t \in Threads PROVE Ahead(t)'
    <3>1. CASE pc[t] \in {"post", "won", "commit"}
      <4>1. cur[t] \in Webhooks
        BY <1>0, <3>1 DEF AtWork
      <4> QED
        BY <1>0, <2>1, <2>2, <4>1 DEF Ahead
    <3>2. CASE pc[t] \notin {"post", "won", "commit"}
      BY <2>2, <3>2 DEF Ahead
    <3> QED
      BY <3>1, <3>2
  <2> QED
    BY <2>3, <2>4
<1>2. CASE \/ LookbackMoves \/ BurstEntryAges \/ (\E e \in Events : Ingest(e)) \/ (\E w \in Webhooks : UpdateWebhook(w))
           \/ UNCHANGED vars
  <2>1. UNCHANGED <<cursor, batch, pc, cur, queue, surviving, drained>>
    BY <1>2 DEF LookbackMoves, BurstEntryAges, Ingest, UpdateWebhook, vars, db, keys, session, work
  <2> QED
    BY <2>1 DEF ListAhead, Bounded, Ahead
<1>3. ASSUME NEW w \in Webhooks, ResetCursor(w) PROVE Goal'
  <2>1. UNCHANGED <<batch, pc, cur, queue, surviving, drained>> /\ cursor' = [cursor EXCEPT ![w] = None]
    BY <1>3 DEF ResetCursor, keys, session, work
  <2>2. \A v \in Webhooks : cursor'[v] = cursor[v] \/ cursor'[v] = None
    BY <1>0, <2>1 DEF TypeOK
  <2>3. ListAhead' /\ Bounded'
    BY <2>1, <2>2 DEF ListAhead, Bounded
  <2>4. \A t \in Threads : pc[t] \notin {"idle", "next"} => cur[t] \in Webhooks
    BY <1>0 DEF AtWork
  <2> QED
    BY <2>1, <2>2, <2>3, <2>4 DEF Ahead
<1>4. ASSUME NEW t \in Threads, StartTick(t) \/ EndTick(t) \/ ProcessError(t) PROVE Goal'
  <2>1. UNCHANGED <<cursor, batch>> /\ pc'[t] \in {"idle", "next"} /\ queue'[t] = <<>>
    BY <1>0, <1>4 DEF StartTick, EndTick, ProcessError, Ahead, TypeOK, db, keys, work
  <2> QED
    BY <2>1 DEF ListAhead, Bounded, Ahead, Solo
<1>5. ASSUME NEW t \in Threads, NEW w \in Webhooks, Match(t, w) PROVE Goal'
  <2>0. UNCHANGED <<cursor, batch>>
    BY <1>5 DEF Match, db, keys
  <2>1. CASE Matching(t, w) = {}
    BY <1>5, <2>0, <2>1 DEF Match, ListAhead, Bounded, Ahead, Solo, work
  <2>2. CASE Matching(t, w) # {}
    <3>1. PICK s \in NewestFirst(Matching(t, w)) : queue' = [queue EXCEPT ![t] = s]
      BY <1>5, <2>2 DEF Match
    <3>2. Elements(s) \subseteq Matching(t, w)
      <4>1. IsFiniteSet(Matching(t, w))
        BY FS_Subset DEF Matching, Typed
      <4> QED
        BY <3>1, <4>1, NewestFirstIsSeq, ElementsSubset
    <3>3. cursor[w] # None => \A e \in Matching(t, w) : ObservedAt[e] >= cursor[w]
      BY DEF Matching, Cutoff, Held, RowOf, SessionFresh
    <3>4. /\ pc'[t] = "burst" /\ cur'[t] = w /\ queue'[t] = s
          /\ surviving'[t] = <<>> /\ drained'[t] = {}
      BY <1>0, <1>5, <2>2, <3>1 DEF Match, InScope, Holds, TypeOK
    <3>5. Ahead(t)'
      BY <1>0, <2>0, <3>2, <3>3, <3>4 DEF Ahead
    <3> QED
      BY <2>0, <3>5 DEF ListAhead, Bounded, Solo
  <2> QED
    BY <2>1, <2>2
<1>6. ASSUME NEW t \in Threads, Bypass(t) \/ Suppress(t) \/ Record(t) PROVE Goal'
  <2>1. queue[t] # <<>> /\ queue[t] \in Seq(Scope(cur[t])) /\ surviving[t] \in Seq(Scope(cur[t]))
    BY <1>0, <1>6 DEF Bypass, Suppress, Record, InScope, Holds, AtWork
  <2>2. Head(queue[t]) \in Scope(cur[t])
    BY <2>1, HeadTailProperties
  <2>3. /\ Head(queue[t]) \in Elements(queue[t]) /\ Elements(Tail(queue[t])) \subseteq Elements(queue[t])
        /\ Elements(Append(surviving[t], Head(queue[t]))) = Elements(surviving[t]) \cup {Head(queue[t])}
    BY <2>1, <2>2, ElementsOf
  <2>4. /\ pc[t] \in {"burst", "record"} /\ pc'[t] = "burst" /\ UNCHANGED <<cursor, batch, cur, drained>>
        /\ queue'[t] = Tail(queue[t]) /\ surviving'[t] \in {surviving[t], Append(surviving[t], Head(queue[t]))}
    BY <1>0, <1>6 DEF Bypass, Suppress, Record, TypeOK, db, keys, session
  <2>5. /\ Elements(queue[t])' \subseteq Elements(queue[t])
        /\ Elements(surviving[t])' \subseteq Elements(surviving[t]) \cup Elements(queue[t])
    BY <2>3, <2>4
  <2>6. Ahead(t)'
    BY <2>4, <2>5 DEF Ahead
  <2> QED
    BY <2>4, <2>6 DEF ListAhead, Bounded, Solo
<1>7. ASSUME NEW t \in Threads, Admit(t) \/ NothingSurvived(t) \/ ReadLength(t) \/ PostOk(t) PROVE Goal'
  <2>1. UNCHANGED <<cursor, batch, cur, queue, surviving, drained>>
    BY <1>7 DEF Admit, NothingSurvived, ReadLength, PostOk, db, keys, session, work
  <2>2. /\ pc[t] \notin {"idle", "next"}
        /\ \/ pc'[t] \in {"record", "first", "more", "next"} /\ (pc'[t] = "record" \/ queue[t] = <<>>)
           \/ pc'[t] = "won" /\ pc[t] = "post"
    BY <1>0, <1>7 DEF Admit, NothingSurvived, ReadLength, PostOk, TypeOK
  <2>3. Ahead(t)'
    BY <2>1, <2>2 DEF Ahead
  <2> QED
    BY <2>1, <2>3 DEF ListAhead, Bounded, Solo
<1>8. ASSUME NEW t \in Threads, Push(t) PROVE Goal'
  <2> DEFINE w == cur[t]
  <2>1. w \in Webhooks /\ batch[w] \in Seq(Scope(w)) /\ surviving[t] \in Seq(Scope(w))
    BY <1>0, <1>8 DEF Push, InScope, Holds, AtWork
  <2>2. /\ Elements(Pushed(w, surviving[t])) \subseteq Elements(batch[w]) \cup Elements(surviving[t])
        /\ Len(Pushed(w, surviving[t])) <= MaxDigest
    BY <2>1, PushedElements DEF Bounded
  <2>3. /\ batch' = [batch EXCEPT ![w] = Pushed(w, surviving[t])] /\ UNCHANGED <<cursor, cur, queue, drained>>
        /\ pc[t] \in {"first", "more"} /\ pc'[t] \in {"open", "extend"} /\ surviving'[t] = <<>>
    BY <1>0, <1>8 DEF Push, TypeOK, db, session
  <2>4. ListAhead' /\ Bounded'
    BY <1>0, <2>1, <2>2, <2>3 DEF ListAhead, Bounded, Ahead, TypeOK
  <2>5. Ahead(t)'
    BY <1>0, <2>3 DEF Ahead
  <2> QED
    BY <2>4, <2>5 DEF Solo
<1>9. ASSUME NEW t \in Threads, OpenWindow(t) \/ ExtendWindow(t) \/ Drain(t) PROVE Goal'
  <2>1. /\ UNCHANGED <<cursor, batch, cur, queue, surviving>> /\ queue[t] = <<>> /\ surviving[t] = <<>>
        /\ cur[t] \in Webhooks
    BY <1>0, <1>9 DEF OpenWindow, ExtendWindow, Drain, Ahead, InScope, Holds, AtWork, db, keys, session, work
  <2>2. \/ pc'[t] = "next"
        \/ pc'[t] = "drain" /\ drained'[t] = {}
        \/ pc'[t] = "post" /\ drained'[t] = Elements(batch[cur[t]])
    BY <1>0, <1>9 DEF OpenWindow, ExtendWindow, Drain, InScope, Holds, TypeOK, work
  <2>3. Ahead(t)'
    BY <1>0, <2>1, <2>2 DEF Ahead, ListAhead
  <2> QED
    BY <2>1, <2>3 DEF ListAhead, Bounded, Solo
<1>10. ASSUME NEW t \in Threads, ClearBatch(t) PROVE Goal'
  <2>1. /\ cur[t] \in Webhooks /\ batch' = [batch EXCEPT ![cur[t]] = <<>>]
        /\ UNCHANGED <<cursor, cur, queue, surviving, drained>> /\ pc[t] = "won" /\ pc'[t] = "commit"
    BY <1>0, <1>10 DEF ClearBatch, AtWork, TypeOK, db, session, work
  <2>2. ListAhead' /\ Bounded' /\ batch'[cur[t]] = <<>>
    BY <1>0, <2>1 DEF ListAhead, Bounded, TypeOK
  <2>3. Ahead(t)'
    BY <2>1, <2>2 DEF Ahead
  <2> QED
    BY <2>2, <2>3 DEF Solo
<1>11. ASSUME NEW t \in Threads, Commit(t) \/ PostFail(t) PROVE Goal'
  <2>1. /\ cur[t] \in Webhooks /\ UNCHANGED <<batch, queue>> /\ queue[t] = <<>> /\ pc'[t] = "next"
    BY <1>0, <1>11 DEF Commit, PostFail, RecordFailure, CommitSession, AtWork, Ahead, TypeOK, keys
  <2>2. \A w \in Webhooks : cursor'[w] = cursor[w] \/ (w = cur[t] /\ batch[w] = <<>>)
    BY <1>0, <1>11 DEF Commit, PostFail, Ahead, TypeOK
  <2>3. ListAhead' /\ Bounded'
    BY <1>0, <2>1, <2>2 DEF ListAhead, Bounded
  <2>4. Ahead(t)'
    BY <2>1 DEF Ahead
  <2> QED
    BY <2>3, <2>4 DEF Solo
<1>12. CASE Crash
  BY <1>12 DEF Crash, ListAhead, Bounded, Ahead, db, keys
<1> QED
  BY <1>1, <1>2, <1>3, <1>4, <1>5, <1>6, <1>7, <1>8, <1>9, <1>10, <1>11, <1>12
     DEF Next, Sending, Environment, Faults, Admin

\* Event by event is entry by entry.
LEMMA AheadImplies ==
    ASSUME InScope, ListAhead, \A t \in Threads : Ahead(t)
    PROVE  BatchNotBehindCursor
<1> SUFFICES ASSUME NEW w \in Webhooks, cursor[w] # None
             PROVE  /\ \A i \in DOMAIN batch[w] : ObservedAt[batch[w][i]] >= cursor[w]
                    /\ \A t \in Threads : cur[t] = w => \A e \in drained[t] : ObservedAt[e] >= cursor[w]
  BY DEF BatchNotBehindCursor
<1>1. \A i \in DOMAIN batch[w] : batch[w][i] \in Elements(batch[w])
  BY DEF Elements
<1>2. \A t \in Threads : pc[t] \in {"idle", "next"} => drained[t] = {}
  BY DEF InScope, Holds
<1> QED
  BY <1>1, <1>2 DEF ListAhead, Ahead

SoloSafe == Typed /\ InScope /\ Sent /\ SoloInv

LEMMA SoloInvariant ==
    ASSUME Solo
    PROVE  Spec => []SoloSafe
<1>1. Init => SoloSafe
  <2>1. ASSUME Init PROVE SoloInv
    <3>1. SessionFresh /\ FailuresCountTheStreak /\ ListAhead
      BY <2>1 DEF Init, SessionFresh, FailuresCountTheStreak, ListAhead
    <3>2. Bounded /\ \A t \in Threads : Ahead(t)
      BY <2>1, EmptySeq, CapsPositive DEF Init, Bounded, Ahead
    <3> QED
      BY <3>1, <3>2 DEF SoloInv
  <2> QED
    BY <2>1, TypedInit, DeliveringInit DEF SoloSafe
<1>2. SoloSafe /\ [Next]_vars => SoloSafe'
  BY TypedStep, ScopeStep, SentStep, StreakStep, AheadStep DEF SoloSafe, SoloInv
<1> QED
  BY <1>1, <1>2, PTL DEF Spec

\* With ticks that do not overlap, consecutive_failures is the number of failed deliveries
\* since the last that succeeded, whatever fails, dies or is edited (_record_delivery_result).
THEOREM StreakCorrect ==
    ASSUME Solo
    PROVE  Spec => []FailuresCountTheStreak
<1>1. SoloSafe => FailuresCountTheStreak
  BY DEF SoloSafe, SoloInv
<1> QED
  BY <1>1, SoloInvariant, PTL

\* With ticks that do not overlap, nothing in the list or in the payload lies behind the
\* cursor, for any sizes of the digest and the window (_process_webhook, _drain_and_dispatch).
THEOREM BatchCorrect ==
    ASSUME Solo
    PROVE  Spec => []BatchNotBehindCursor
<1>1. SoloSafe => BatchNotBehindCursor
  BY AheadImplies DEF SoloSafe, SoloInv
<1> QED
  BY <1>1, SoloInvariant, PTL

\* With ticks that do not overlap, no entry that a digest reads is dropped unsent: not by a
\* failed post, nor by the r.delete of _drain_and_dispatch, though what lies beyond
\* MAX_DIGEST_EVENTS goes with it.
THEOREM ClearedCorrect ==
    ASSUME Solo
    PROVE  Spec => ClearedWasSent
<1> DEFINE Kept == \A w \in Webhooks : \A e \in Elements(batch[w]) \ Elements(batch'[w]) :
                      e \in received[w] \/ Expires(batchAge[w])
<1>1. ASSUME SoloSafe, [Next]_vars PROVE Kept
  <2>0. TypeOK /\ AtWork
    BY <1>1 DEF SoloSafe, Typed
  <2>1. CASE Minute
    BY <2>1 DEF Minute
  <2>2. ASSUME NEW t \in Threads, Push(t) PROVE Kept
    <3> DEFINE w == cur[t]
    <3>1. w \in Webhooks /\ batch[w] \in Seq(Scope(w)) /\ surviving[t] \in Seq(Scope(w)) /\ Len(batch[w]) <= MaxDigest
      BY <1>1, <2>0, <2>2 DEF Push, SoloSafe, SoloInv, InScope, Holds, AtWork, Bounded
    <3>2. Elements(batch[w]) \subseteq Elements(Pushed(w, surviving[t]))
      BY <3>1, PushedElements
    <3>3. batch' = [batch EXCEPT ![w] = Pushed(w, surviving[t])]
      BY <2>2 DEF Push
    <3> QED
      BY <2>0, <3>1, <3>2, <3>3 DEF TypeOK
  <2>3. ASSUME NEW t \in Threads, ClearBatch(t) PROVE Kept
    <3>1. cur[t] \in Webhooks /\ Elements(batch[cur[t]]) \subseteq received[cur[t]]
      BY <1>1, <2>0, <2>3 DEF ClearBatch, SoloSafe, SoloInv, Ahead, Sent, AtWork
    <3>2. batch' = [batch EXCEPT ![cur[t]] = <<>>]
      BY <2>3 DEF ClearBatch
    <3> QED
      BY <2>0, <3>1, <3>2 DEF TypeOK
  <2>4. CASE UNCHANGED batch
    BY <2>4
  <2>5. ASSUME NEW t \in Threads, Sending(t), ~Push(t), ~ClearBatch(t) PROVE UNCHANGED batch
    BY <2>5 DEF Sending, StartTick, EndTick, Match, Bypass, Suppress, Admit, Record, NothingSurvived,
       ReadLength, OpenWindow, ExtendWindow, Drain, PostOk, Commit, keys
  <2>6. ASSUME Environment, ~Minute PROVE UNCHANGED batch
    BY <2>6 DEF Environment, LookbackMoves, BurstEntryAges, Ingest, keys
  <2>7. Faults \/ Admin \/ UNCHANGED vars => UNCHANGED batch
    BY DEF Faults, Admin, Crash, PostFail, ProcessError, UpdateWebhook, ResetCursor, vars, keys
  <2> QED
    BY <1>1, <2>1, <2>2, <2>3, <2>4, <2>5, <2>6, <2>7 DEF Next
<1>2. SoloSafe /\ [Next]_vars => [Kept]_vars
  BY <1>1
<1> QED
  BY <1>2, SoloInvariant, PTL DEF Spec, ClearedWasSent
=============================================================================
