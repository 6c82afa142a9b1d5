------------------------- MODULE WebhookDispatch -------------------------
(***************************************************************************)
(* The webhook dispatcher: backend/app/services/webhook_dispatcher.py with *)
(* the burst window of services/scoring/burst.py, the tick the scheduler   *)
(* enqueues every minute, and the admin handlers that write the same row.  *)
(*                                                                         *)
(* A tick is a Dramatiq message on the queue "webhooks", taken by one of   *)
(* the worker's threads.  A POST may sleep for minutes between attempts,   *)
(* so ticks overlap: Threads is the set of threads that can be inside a    *)
(* tick at once.  The webhooks are those of one project (two projects      *)
(* share neither a row, a Redis key nor a burst window) and a webhook has  *)
(* one filter preset bound, whose matches are Wanted[w].                   *)
(***************************************************************************)
EXTENDS Integers, Sequences, FiniteSets

CONSTANTS
    Webhooks,     \* rows of the table webhooks, of one project
    Events,       \* events that may be ingested
    Threads,      \* worker threads that may run a tick
    ObservedAt,   \* observed_at of an event
    IdRank,       \* the order of the events' ids, which breaks ties
    HighTier,     \* events whose score is in tier S or A
    Wanted,       \* Wanted[w]: the events in scope that w's preset matches
    MaxDigest,    \* MAX_DIGEST_EVENTS
    BurstCap,     \* BURST_HIGH_CAP
    AutoDisable,  \* AUTO_DISABLE_FAILURES
    Window,       \* batching_window_sec, in minutes
    MinTtl,       \* the least TTL of the batch keys, in minutes
    Horizon,      \* bound: the latest "now - 24h" the run reaches
    MaxPending,   \* bound: tick messages told apart in the queue
    MaxFailures,  \* bound: the failure count that is written
    None

ASSUME ThreadsFinite == IsFiniteSet(Threads) /\ Threads # {}
ASSUME CapsPositive ==
    /\ MaxDigest \in Nat \ {0}
    /\ BurstCap \in Nat \ {0}
    /\ AutoDisable \in Nat \ {0}
ASSUME ClockShape ==
    /\ Window \in Nat /\ MinTtl \in Nat \ {0}
    /\ Horizon \in Nat /\ MaxPending \in Nat \ {0} /\ MaxFailures \in Nat
ASSUME EventShape ==
    /\ ObservedAt \in [Events -> Nat]
    /\ IdRank \in [Events -> Nat]
    /\ HighTier \subseteq Events
    /\ Wanted \in [Webhooks -> SUBSET Events]
ASSUME NoneIsNoNumber == None \notin Nat

VARIABLES
    \* Postgres
    ingested,   \* events in the table
    tagged,     \* events whose committed tags hold burst_cluster
    cursor,     \* last_dispatch_at, or None
    failures,   \* consecutive_failures
    enabled,
    \* Redis
    batch,      \* wh-batch:{w}: the first MaxDigest entries
    rest,       \* wh-batch:{w}: the events of the entries beyond them
    batchAge,   \* minutes since the TTL of wh-batch:{w} was set, None: it has none
    tsAge,      \* minutes since wh-batch-ts:{w} was set, or None
    burst,      \* ZCARD of the project's window
    pending,    \* tick messages in the queue
    \* a thread inside run_dispatch_tick
    pc,
    todo,       \* the webhooks it has yet to process
    cur,        \* the webhook it is processing
    orm,        \* the rows its session holds (None: to be read again)
    queue,      \* matched events not yet through the burst check
    surviving,  \* the events that went through it
    tagging,    \* its uncommitted burst_cluster updates
    drained,    \* the events of the payload it is posting
    \* the clock and the receiver
    lookback,   \* now - NULL_CURSOR_LOOKBACK_HOURS
    received,   \* events the destination of w has been sent
    streak      \* deliveries of w recorded as failed since one was recorded as ok

db      == <<ingested, tagged, cursor, failures, enabled>>
keys    == <<batch, rest, batchAge, tsAge>>
session == <<todo, cur, orm, tagging>>
work    == <<queue, surviving, drained>>
world   == <<lookback, received, streak>>
vars    == <<db, keys, burst, pending, pc, session, work, world>>

\* The row of a webhook as the session loads it.
Row == [cursor : Nat \cup {None}, failures : Nat]

Labels == {"idle", "next", "burst", "record", "first", "more", "open", "extend", "drain",
           "post", "won", "commit"}

TypeOK ==
    /\ ingested \subseteq Events
    /\ tagged \subseteq Events
    /\ cursor \in [Webhooks -> Nat \cup {None}]
    /\ failures \in [Webhooks -> Nat]
    /\ enabled \in [Webhooks -> BOOLEAN]
    /\ batch \in [Webhooks -> Seq(Events)]
    /\ rest \in [Webhooks -> SUBSET Events]
    /\ batchAge \in [Webhooks -> Nat \cup {None}]
    /\ tsAge \in [Webhooks -> Nat \cup {None}]
    /\ burst \in Nat
    /\ pending \in 0..MaxPending
    /\ pc \in [Threads -> Labels]
    /\ todo \in [Threads -> SUBSET Webhooks]
    /\ cur \in [Threads -> Webhooks \cup {None}]
    /\ orm \in [Threads -> [Webhooks -> Row \cup {None}]]
    /\ queue \in [Threads -> Seq(Events)]
    /\ surviving \in [Threads -> Seq(Events)]
    /\ tagging \in [Threads -> SUBSET Events]
    /\ drained \in [Threads -> SUBSET Events]
    /\ lookback \in 0..Horizon
    /\ received \in [Webhooks -> SUBSET Events]
    /\ streak \in [Webhooks -> Nat]

Init ==
    /\ ingested = {} /\ tagged = {}
    /\ cursor = [w \in Webhooks |-> None]
    /\ failures = [w \in Webhooks |-> 0]
    /\ enabled = [w \in Webhooks |-> TRUE]
    /\ batch = [w \in Webhooks |-> <<>>]
    /\ rest = [w \in Webhooks |-> {}]
    /\ batchAge = [w \in Webhooks |-> None]
    /\ tsAge = [w \in Webhooks |-> None]
    /\ burst = 0 /\ pending = 0
    /\ pc = [t \in Threads |-> "idle"]
    /\ todo = [t \in Threads |-> {}]
    /\ cur = [t \in Threads |-> None]
    /\ orm = [t \in Threads |-> [w \in Webhooks |-> None]]
    /\ queue = [t \in Threads |-> <<>>]
    /\ surviving = [t \in Threads |-> <<>>]
    /\ tagging = [t \in Threads |-> {}]
    /\ drained = [t \in Threads |-> {}]
    /\ lookback = 0
    /\ received = [w \in Webhooks |-> {}]
    /\ streak = [w \in Webhooks |-> 0]

-----------------------------------------------------------------------------
(* Helpers *)

Elements(s) == {s[i] : i \in DOMAIN s}
AtMost(n, limit) == IF n <= limit THEN n ELSE limit

\* _redis_ttl_for: twice the window, and never less than the minimum.
RedisTtl == IF 2 * Window >= MinTtl THEN 2 * Window ELSE MinTtl

\* What a minute does to a key whose TTL was set so long ago; None has no TTL.
Expires(age) == age # None /\ age + 1 >= RedisTtl
Older(age) == IF age = None \/ Expires(age) THEN None ELSE age + 1

RowOf(w) == [cursor |-> cursor[w], failures |-> failures[w]]

\* What the thread's session shows for w: the row it holds, or the current
\* one when a commit or a rollback has expired it.
Held(t, w) == IF orm[t][w] = None THEN RowOf(w) ELSE orm[t][w]

\* The cutoff of _fetch_matching_events.
Cutoff(t, w) == IF Held(t, w).cursor = None THEN lookback ELSE Held(t, w).cursor

\* (mutant) The cutoff is exclusive.
MatchingAfter(t, w) == {e \in ingested \cap Wanted[w] : ObservedAt[e] > Cutoff(t, w)}

Matching(t, w) == {e \in ingested \cap Wanted[w] : ObservedAt[e] >= Cutoff(t, w)}

\* ORDER BY observed_at DESC, id DESC.
Before(d, e) ==
    \/ ObservedAt[d] > ObservedAt[e]
    \/ ObservedAt[d] = ObservedAt[e] /\ IdRank[d] > IdRank[e]

\* The first MaxDigest of S in that order: one sequence, if no two ids are equal.
NewestFirst(S) ==
    {s \in [1 .. AtMost(Cardinality(S), MaxDigest) -> S] :
        /\ \A i, j \in DOMAIN s : i < j => Before(s[i], s[j])
        /\ \A e \in S \ Elements(s) : \A i \in DOMAIN s : Before(s[i], e)}

\* The list after RPUSH; only its first MaxDigest entries are ever read.
Pushed(w, s) == SubSeq(batch[w] \o s, 1, AtMost(Len(batch[w] \o s), MaxDigest))
Overflow(w, s) == {(batch[w] \o s)[i] : i \in {j \in DOMAIN (batch[w] \o s) : j > MaxDigest}}

\* A thread between its UPDATE of w's row and its commit holds the row lock.
Locked(w) == \E t \in Threads : pc[t] = "commit" /\ cur[t] = w

\* session.commit and session.rollback expire every row the session holds.
Forget(t) == orm' = [orm EXCEPT ![t] = [w \in Webhooks |-> None]]

-----------------------------------------------------------------------------
(* The scheduler, the clock and the feeds *)

\* A minute passes: the keys age and expire, and the interval job sends a tick.
Minute ==
    /\ pending' = AtMost(pending + 1, MaxPending)
    /\ batch' = [w \in Webhooks |-> IF Expires(batchAge[w]) THEN <<>> ELSE batch[w]]
    /\ rest' = [w \in Webhooks |-> IF Expires(batchAge[w]) THEN {} ELSE rest[w]]
    /\ batchAge' = [w \in Webhooks |-> Older(batchAge[w])]
    /\ tsAge' = [w \in Webhooks |-> Older(tsAge[w])]
    /\ UNCHANGED <<db, burst, pc, session, work, world>>

\* The 24h lookback of a webhook without a cursor moves past older events.
LookbackMoves ==
    /\ lookback < Horizon
    /\ lookback' = lookback + 1
    /\ UNCHANGED <<db, keys, burst, pending, pc, session, work, received, streak>>

\* An ingest worker commits an event, whatever its observed_at.
Ingest(e) ==
    /\ e \notin ingested
    /\ ingested' = ingested \cup {e}
    /\ UNCHANGED <<tagged, cursor, failures, enabled, keys, burst, pending, pc, session, work, world>>

\* The oldest member of the sorted set leaves the rolling hour.
BurstEntryAges ==
    /\ burst > 0
    /\ burst' = burst - 1
    /\ UNCHANGED <<db, keys, pending, pc, session, work, world>>

-----------------------------------------------------------------------------
(* run_dispatch_tick *)

\* A thread takes a tick message and loads the enabled webhooks.
StartTick(t) ==
    /\ pc[t] = "idle" /\ pending > 0
    /\ pending' = pending - 1
    /\ pc' = [pc EXCEPT ![t] = "next"]
    /\ todo' = [todo EXCEPT ![t] = {w \in Webhooks : enabled[w]}]
    /\ orm' = [orm EXCEPT ![t] = [w \in Webhooks |-> IF enabled[w] THEN RowOf(w) ELSE None]]
    /\ UNCHANGED <<db, keys, burst, cur, tagging, work, world>>

\* The loop is over: the session closes, and what it did not commit is gone.
EndTick(t) ==
    /\ pc[t] = "next" /\ todo[t] = {}
    /\ pc' = [pc EXCEPT ![t] = "idle"]
    /\ tagging' = [tagging EXCEPT ![t] = {}]
    /\ cur' = [cur EXCEPT ![t] = None]
    /\ Forget(t)
    /\ UNCHANGED <<db, keys, burst, pending, todo, work, world>>

\* _process_webhook up to the match; with no match it returns at once.
Match(t, w) ==
    /\ pc[t] = "next" /\ w \in todo[t]
    /\ todo' = [todo EXCEPT ![t] = @ \ {w}]
    /\ orm' = [orm EXCEPT ![t][w] = Held(t, w)]
    /\ IF Matching(t, w) = {}
         THEN UNCHANGED <<pc, cur, work>>
         ELSE /\ \E s \in NewestFirst(Matching(t, w)) : queue' = [queue EXCEPT ![t] = s]
              /\ pc' = [pc EXCEPT ![t] = "burst"]
              /\ cur' = [cur EXCEPT ![t] = w]
              /\ UNCHANGED <<surviving, drained>>
    /\ UNCHANGED <<db, keys, burst, pending, tagging, world>>

\* An event of a lower tier, or without a score, bypasses the burst window.
Bypass(t) ==
    /\ pc[t] = "burst" /\ queue[t] # <<>> /\ Head(queue[t]) \notin HighTier
    /\ surviving' = [surviving EXCEPT ![t] = Append(@, Head(queue[t]))]
    /\ queue' = [queue EXCEPT ![t] = Tail(@)]
    /\ UNCHANGED <<db, keys, burst, pending, pc, session, drained, world>>

\* is_burst_suppressed says yes: _tag_burst_cluster, which waits for the row
\* lock of another session that updated the event, and nothing is committed.
Suppress(t) ==
    /\ pc[t] = "burst" /\ queue[t] # <<>> /\ Head(queue[t]) \in HighTier
    /\ burst >= BurstCap
    /\ \A u \in Threads \ {t} : Head(queue[t]) \notin tagging[u]
    /\ tagging' = [tagging EXCEPT ![t] = @ \cup {Head(queue[t])}]
    /\ queue' = [queue EXCEPT ![t] = Tail(@)]
    /\ UNCHANGED <<db, keys, burst, pending, pc, todo, cur, orm, surviving, drained, world>>

\* (mutant) The cap is compared with ">".
AdmitAtCap(t) ==
    /\ pc[t] = "burst" /\ queue[t] # <<>> /\ Head(queue[t]) \in HighTier
    /\ burst <= BurstCap
    /\ pc' = [pc EXCEPT ![t] = "record"]
    /\ UNCHANGED <<db, keys, burst, pending, session, work, world>>

\* is_burst_suppressed says no.
Admit(t) ==
    /\ pc[t] = "burst" /\ queue[t] # <<>> /\ Head(queue[t]) \in HighTier
    /\ burst < BurstCap
    /\ pc' = [pc EXCEPT ![t] = "record"]
    /\ UNCHANGED <<db, keys, burst, pending, session, work, world>>

\* record_high_tier_dispatch, a round trip to Redis of its own.
Record(t) ==
    /\ pc[t] = "record"
    /\ burst' = burst + 1
    /\ surviving' = [surviving EXCEPT ![t] = Append(@, Head(queue[t]))]
    /\ queue' = [queue EXCEPT ![t] = Tail(@)]
    /\ pc' = [pc EXCEPT ![t] = "burst"]
    /\ UNCHANGED <<db, keys, pending, session, drained, world>>

\* Nothing survived: return, with the tags uncommitted.
NothingSurvived(t) ==
    /\ pc[t] = "burst" /\ queue[t] = <<>> /\ surviving[t] = <<>>
    /\ pc' = [pc EXCEPT ![t] = "next"]
    /\ UNCHANGED <<db, keys, burst, pending, session, work, world>>

\* existing = LLEN: the first event of a window, or one more.
ReadLength(t) ==
    /\ pc[t] = "burst" /\ queue[t] = <<>> /\ surviving[t] # <<>>
    /\ pc' = [pc EXCEPT ![t] = IF batch[cur[t]] = <<>> THEN "first" ELSE "more"]
    /\ UNCHANGED <<db, keys, burst, pending, session, work, world>>

\* RPUSH of the survivors; a list it creates has no TTL yet.
Push(t) ==
    LET w == cur[t] IN
    /\ pc[t] \in {"first", "more"}
    /\ batch' = [batch EXCEPT ![w] = Pushed(w, surviving[t])]
    /\ rest' = [rest EXCEPT ![w] = @ \cup Overflow(w, surviving[t])]
    /\ surviving' = [surviving EXCEPT ![t] = <<>>]
    /\ pc' = [pc EXCEPT ![t] = IF @ = "first" THEN "open" ELSE "extend"]
    /\ UNCHANGED <<db, batchAge, tsAge, burst, pending, session, queue, drained, world>>

\* EXPIRE of the list, a no-op if the list is gone.
Renew(w) == batchAge' = [batchAge EXCEPT ![w] = IF batch[w] = <<>> THEN None ELSE 0]

\* existing == 0: start the window and dispatch at once.  The SET and the two
\* EXPIREs are one step: between them the keys only lack a TTL, as after Push.
OpenWindow(t) ==
    /\ pc[t] = "open"
    /\ tsAge' = [tsAge EXCEPT ![cur[t]] = 0]
    /\ Renew(cur[t])
    /\ pc' = [pc EXCEPT ![t] = "drain"]
    /\ UNCHANGED <<db, batch, rest, burst, pending, session, work, world>>

\* existing > 0: dispatch only if the window's start is known and long enough ago.
ExtendWindow(t) ==
    /\ pc[t] = "extend"
    /\ Renew(cur[t])
    /\ pc' = [pc EXCEPT ![t] = IF tsAge[cur[t]] # None /\ tsAge[cur[t]] >= Window
                                 THEN "drain" ELSE "next"]
    /\ UNCHANGED <<db, batch, rest, tsAge, burst, pending, session, work, world>>

\* The LRANGE of _drain_and_dispatch, which returns if it finds nothing.
Drain(t) ==
    /\ pc[t] = "drain"
    /\ drained' = [drained EXCEPT ![t] = Elements(batch[cur[t]])]
    /\ pc' = [pc EXCEPT ![t] = IF batch[cur[t]] = <<>> THEN "next" ELSE "post"]
    /\ UNCHANGED <<db, keys, burst, pending, session, queue, surviving, world>>

\* _post_with_retry or _dispatch_email returned True.
PostOk(t) ==
    /\ pc[t] = "post"
    /\ received' = [received EXCEPT ![cur[t]] = @ \cup drained[t]]
    /\ pc' = [pc EXCEPT ![t] = "won"]
    /\ UNCHANGED <<db, keys, burst, pending, session, work, lookback, streak>>

\* (mutant) Only the timestamp key is deleted.
ClearTimestamp(t) ==
    /\ pc[t] = "won" /\ ~Locked(cur[t])
    /\ tsAge' = [tsAge EXCEPT ![cur[t]] = None]
    /\ pc' = [pc EXCEPT ![t] = "commit"]
    /\ UNCHANGED <<db, batch, rest, batchAge, burst, pending, session, work, world>>

\* The UPDATEs of _record_delivery_result and _advance_cursor take the row
\* lock, then r.delete removes both keys, whatever the list holds by now.
ClearBatch(t) ==
    LET w == cur[t] IN
    /\ pc[t] = "won" /\ ~Locked(w)
    /\ batch' = [batch EXCEPT ![w] = <<>>]
    /\ rest' = [rest EXCEPT ![w] = {}]
    /\ batchAge' = [batchAge EXCEPT ![w] = None]
    /\ tsAge' = [tsAge EXCEPT ![w] = None]
    /\ pc' = [pc EXCEPT ![t] = "commit"]
    /\ UNCHANGED <<db, burst, pending, session, work, world>>

\* session.commit: the burst tags of the session go with it.
CommitSession(t) ==
    /\ tagged' = tagged \cup tagging[t]
    /\ tagging' = [tagging EXCEPT ![t] = {}]
    /\ drained' = [drained EXCEPT ![t] = {}]
    /\ pc' = [pc EXCEPT ![t] = "next"]
    /\ Forget(t)

\* (mutant) The cursor becomes the time of the run, not of the payload.
CommitNow(t) ==
    LET w == cur[t] IN
    /\ pc[t] = "commit"
    /\ cursor' = [cursor EXCEPT ![w] = lookback]
    /\ failures' = [failures EXCEPT ![w] = 0]
    /\ streak' = [streak EXCEPT ![w] = 0]
    /\ CommitSession(t)
    /\ UNCHANGED <<ingested, enabled, keys, burst, pending, todo, cur, queue, surviving,
                   lookback, received>>

\* (mutant) A success does not reset the failure count.
CommitKeepsFailures(t) ==
    LET w == cur[t] IN
    /\ pc[t] = "commit"
    /\ \E e \in drained[t] :
          /\ \A d \in drained[t] : ObservedAt[d] <= ObservedAt[e]
          /\ cursor' = [cursor EXCEPT ![w] = ObservedAt[e]]
    /\ streak' = [streak EXCEPT ![w] = 0]
    /\ CommitSession(t)
    /\ UNCHANGED <<ingested, failures, enabled, keys, burst, pending, todo, cur, queue, surviving,
                   lookback, received>>

\* The cursor becomes the latest observed_at of the payload.
Commit(t) ==
    LET w == cur[t] IN
    /\ pc[t] = "commit"
    /\ \E e \in drained[t] :
          /\ \A d \in drained[t] : ObservedAt[d] <= ObservedAt[e]
          /\ cursor' = [cursor EXCEPT ![w] = ObservedAt[e]]
    /\ failures' = [failures EXCEPT ![w] = 0]
    /\ streak' = [streak EXCEPT ![w] = 0]
    /\ CommitSession(t)
    /\ UNCHANGED <<ingested, enabled, keys, burst, pending, todo, cur, queue, surviving,
                   lookback, received>>

\* The UPDATE after three failed attempts.  The new count comes from the row
\* the session loaded; a webhook an admin enables again goes on counting.
RecordFailure(t, w) ==
    LET newCount == Held(t, w).failures + 1 IN
    /\ newCount <= MaxFailures
    /\ failures' = [failures EXCEPT ![w] = newCount]
    /\ enabled' = [enabled EXCEPT ![w] = @ /\ newCount < AutoDisable]
    /\ streak' = [streak EXCEPT ![w] = @ + 1]
    /\ CommitSession(t)

\* (mutant) The batch is deleted whatever the receiver said.
PostFailDeletes(t) ==
    LET w == cur[t] IN
    /\ pc[t] = "post" /\ ~Locked(w)
    /\ batch' = [batch EXCEPT ![w] = <<>>]
    /\ rest' = [rest EXCEPT ![w] = {}]
    /\ batchAge' = [batchAge EXCEPT ![w] = None]
    /\ tsAge' = [tsAge EXCEPT ![w] = None]
    /\ RecordFailure(t, w)
    /\ UNCHANGED <<ingested, cursor, burst, pending, todo, cur, queue, surviving, lookback, received>>

\* Three attempts failed; the last may have reached the receiver all the
\* same (a timeout).
PostFail(t) ==
    LET w == cur[t] IN
    /\ pc[t] = "post" /\ ~Locked(w)
    /\ \E got \in {{}, drained[t]} : received' = [received EXCEPT ![w] = @ \cup got]
    /\ RecordFailure(t, w)
    /\ UNCHANGED <<ingested, cursor, keys, burst, pending, todo, cur, queue, surviving, lookback>>

\* Redis or Postgres raised: the tick rolls back and goes to the next webhook.
\* When it is the commit itself, the keys are deleted and the row is as it was.
ProcessError(t) ==
    /\ pc[t] \notin {"idle", "next"}
    /\ pc' = [pc EXCEPT ![t] = "next"]
    /\ queue' = [queue EXCEPT ![t] = <<>>]
    /\ surviving' = [surviving EXCEPT ![t] = <<>>]
    /\ drained' = [drained EXCEPT ![t] = {}]
    /\ tagging' = [tagging EXCEPT ![t] = {}]
    /\ Forget(t)
    /\ UNCHANGED <<db, keys, burst, pending, todo, cur, world>>

Busy == {t \in Threads : pc[t] # "idle"}

\* The worker process dies with every thread of it; Redis and Postgres keep
\* what was written, and the unacknowledged messages come back.
Crash ==
    /\ Busy # {}
    /\ pending' = AtMost(pending + Cardinality(Busy), MaxPending)
    /\ pc' = [t \in Threads |-> "idle"]
    /\ todo' = [t \in Threads |-> {}]
    /\ cur' = [t \in Threads |-> None]
    /\ orm' = [t \in Threads |-> [w \in Webhooks |-> None]]
    /\ tagging' = [t \in Threads |-> {}]
    /\ queue' = [t \in Threads |-> <<>>]
    /\ surviving' = [t \in Threads |-> <<>>]
    /\ drained' = [t \in Threads |-> {}]
    /\ UNCHANGED <<db, keys, burst, world>>

-----------------------------------------------------------------------------
(* The admin handlers *)

\* PATCH with enabled: the failure count stays as it is.
UpdateWebhook(w) ==
    /\ ~Locked(w)
    /\ enabled' = [enabled EXCEPT ![w] = ~@]
    /\ UNCHANGED <<ingested, tagged, cursor, failures, keys, burst, pending, pc, session, work, world>>

ResetCursor(w) ==
    /\ ~Locked(w)
    /\ cursor' = [cursor EXCEPT ![w] = None]
    /\ UNCHANGED <<ingested, tagged, failures, enabled, keys, burst, pending, pc, session, work, world>>

-----------------------------------------------------------------------------
Sending(t) ==
    \/ StartTick(t) \/ EndTick(t) \/ (\E w \in Webhooks : Match(t, w))
    \/ Bypass(t) \/ Suppress(t) \/ Admit(t) \/ Record(t)
    \/ NothingSurvived(t) \/ ReadLength(t) \/ Push(t) \/ OpenWindow(t) \/ ExtendWindow(t) \/ Drain(t)
    \/ PostOk(t) \/ ClearBatch(t) \/ Commit(t)

Environment ==
    \/ Minute \/ LookbackMoves \/ BurstEntryAges
    \/ \E e \in Events : Ingest(e)

Faults == Crash \/ \E t \in Threads : PostFail(t) \/ ProcessError(t)

Admin == \E w \in Webhooks : UpdateWebhook(w) \/ ResetCursor(w)

Next == (\E t \in Threads : Sending(t)) \/ Environment \/ Faults \/ Admin

Spec == Init /\ [][Next]_vars

\* The receiver answers, Redis and Postgres stay up and nobody edits the webhook:
\* then the worker's threads, the clock and the burst window all go on.  Between an
\* EXPIRE and the LRANGE that follows it no TTL, of 120 s or more, runs out.
ReadsInTime == \A t \in Threads : pc[t] = "drain" => ~Expires(batchAge[cur[t]])
HealthyNext ==
    \/ \E t \in Threads : Sending(t)
    \/ ReadsInTime /\ Minute
    \/ LookbackMoves \/ BurstEntryAges \/ \E e \in Events : Ingest(e)
HealthySpec ==
    /\ Init /\ [][HealthyNext]_vars
    /\ WF_vars(ReadsInTime /\ Minute) /\ WF_vars(BurstEntryAges)
    /\ \A t \in Threads : WF_vars(Sending(t))

-----------------------------------------------------------------------------
(* Properties of any number of overlapping ticks *)

Recorders == {t \in Threads : pc[t] = "record"}

\* is_burst_suppressed and record_high_tier_dispatch are two round trips: the
\* window can overrun BURST_HIGH_CAP, but by no more than one entry for each
\* other thread, however the ticks interleave, fail or crash.
BurstOverrunBounded ==
    burst + Cardinality(Recorders) <= BurstCap + Cardinality(Threads) - 1

\* The cursor of a webhook is the observed_at of an event its destination has
\* been sent: no crash, failure or overlap moves it over events on the word
\* of a delivery that did not happen.
CursorWasReceived ==
    \A w \in Webhooks : cursor[w] # None => \E e \in received[w] : ObservedAt[e] = cursor[w]

\* What the dispatcher promises its receivers, as a specification of its own.
Promise == INSTANCE DeliveryPromise WITH
    Webhooks <- Webhooks, Events <- Events, ObservedAt <- ObservedAt, Wanted <- Wanted, None <- None,
    ingested <- ingested, received <- received, cursor <- cursor
KeepsPromise == Promise!Spec

-----------------------------------------------------------------------------
(* Properties of ticks that do not overlap: Threads has one member *)

\* Nothing that waits in Redis, or in the payload being posted, lies behind
\* the cursor, whatever failed, expired or was reset in between.
BatchNotBehindCursor ==
    \A w \in Webhooks : cursor[w] # None =>
        /\ \A i \in DOMAIN batch[w] : ObservedAt[batch[w][i]] >= cursor[w]
        /\ \A t \in Threads : cur[t] = w => \A e \in drained[t] : ObservedAt[e] >= cursor[w]

\* consecutive_failures, computed from the row as the session loaded it, is
\* the number of failures recorded since the last success: auto-disable
\* counts neither too many nor too few.
FailuresCountTheStreak == \A w \in Webhooks : failures[w] = streak[w]

\* Among the entries a digest reads, a failed or timed-out post drops none, and
\* r.delete after a success none that the destination was not sent; only the TTL
\* does, when no tick has pushed for that long.  It says nothing of the entries
\* beyond MAX_DIGEST_EVENTS: r.delete drops those unsent.
ClearedWasSent ==
    [][\A w \in Webhooks : \A e \in Elements(batch[w]) \ Elements(batch'[w]) :
          e \in received[w] \/ Expires(batchAge[w])]_vars

-----------------------------------------------------------------------------
(* Liveness *)

\* The event is inside what the next tick of w asks the database for.
Due(w, e) ==
    ObservedAt[e] >= (IF cursor[w] = None THEN lookback ELSE cursor[w])

\* With a healthy receiver an event below tier A that is due is sent, or the
\* cursor passes it: it never sits in the window of an enabled webhook forever.
EventuallySent ==
    \A w \in Webhooks : \A e \in Wanted[w] \ HighTier :
        (e \in ingested /\ Due(w, e)) ~> (e \in received[w] \/ ~Due(w, e))

=============================================================================
