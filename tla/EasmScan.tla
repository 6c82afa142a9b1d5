---------------------------- MODULE EasmScan ----------------------------
(***************************************************************************)
(* The life of an EASM scan: the API handlers that launch and cancel it    *)
(* (backend/app/routers/easm.py), the Dramatiq actor that runs it          *)
(* (workers/easm.py), the Docker and Redis calls of                        *)
(* services/bbot_runner.py, and the scheduler's hourly and nightly jobs.   *)
(*                                                                         *)
(* A scan is a row of easm_scans, a message on the queue "easm", a slot of *)
(* the counter bbot:concurrent_scans and a container, and nothing but the  *)
(* code below keeps the four together.  A launch request is named after    *)
(* the row it would insert; scan modes, modules and roles are left out.    *)
(***************************************************************************)
EXTENDS Integers, FiniteSets

CONSTANTS
    Scans,        \* rows that requests may insert
    ProjectOf,    \* the project of a scan
    Workers,      \* threads of easm-worker
    Containers,   \* container ids; one is used again only when nobody holds it
    Limit,        \* BBOT_CONCURRENT_LIMIT
    History,      \* BBOT_SCAN_HISTORY_LIMIT
    MaxDrift,     \* bound: decrements that may be lost
    None

ASSUME WorkersFinite == IsFiniteSet(Workers) /\ Workers # {}
ASSUME LimitsPositive == Limit \in Nat \ {0} /\ History \in Nat \ {0} /\ MaxDrift \in Nat
ASSUME NoneIsNobody == None \notin Scans \cup Containers

VARIABLES
    \* Postgres
    status,      \* easm_scans.status, "absent" before the insert, "deleted" after the cleanup
    recorded,    \* easm_scans.container_id
    newer,       \* newer[s]: the scans of its project whose started_at is later
    overdue,     \* scans started longer ago than the reaper's grace window
    \* Redis
    slots,       \* bbot:concurrent_scans
    messages,    \* the scans whose run_bbot_scan message is in the queue
    \* Docker
    alive,       \* the scan a container runs, or None
    loose,       \* the containers a docker command that timed out left running
    \* the API
    launching,   \* where the launch request of a scan is
    cancelling,  \* scans with a cancel request between its read and its write
    seen,        \* the container_id that request read
    \* easm-worker
    pc, scan, mine  \* a thread's place, its scan and the container it started

rows == <<status, recorded, newer, overdue>>
api  == <<launching, cancelling, seen>>
work == <<pc, scan, mine>>
docker == <<alive, loose>>
vars == <<rows, slots, messages, docker, api, work>>

Active == {"queued", "running"}
Statuses == Active \cup {"absent", "finished", "failed", "cancelled", "orphaned", "deleted"}
Labels == {"idle", "acquire", "refused", "load", "launched", "stream", "ended",
           "throwing", "expiring", "dropping", "failing", "failed", "timeup", "expired", "release"}

TypeOK ==
    /\ status \in [Scans -> Statuses]
    /\ recorded \in [Scans -> Containers \cup {None}]
    /\ newer \in [Scans -> SUBSET Scans]
    /\ overdue \subseteq Scans
    /\ slots \in Nat
    /\ messages \subseteq Scans
    /\ alive \in [Containers -> Scans \cup {None}]
    /\ loose \subseteq Containers
    /\ launching \in [Scans -> {"no", "checked", "inserted"}]
    /\ cancelling \subseteq Scans
    /\ seen \in [Scans -> Containers \cup {None}]
    /\ pc \in [Workers -> Labels]
    /\ scan \in [Workers -> Scans \cup {None}]
    /\ mine \in [Workers -> Containers \cup {None}]

Init ==
    /\ status = [s \in Scans |-> "absent"]
    /\ recorded = [s \in Scans |-> None]
    /\ newer = [s \in Scans |-> {}]
    /\ overdue = {} /\ slots = 0 /\ messages = {}
    /\ alive = [c \in Containers |-> None]
    /\ loose = {}
    /\ launching = [s \in Scans |-> "no"]
    /\ cancelling = {}
    /\ seen = [s \in Scans |-> None]
    /\ pc = [w \in Workers |-> "idle"]
    /\ scan = [w \in Workers |-> None]
    /\ mine = [w \in Workers |-> None]

-----------------------------------------------------------------------------
(* Helpers *)

Exists(s) == status[s] \notin {"absent", "deleted"}
SameProject(s) == {r \in Scans : ProjectOf[r] = ProjectOf[s]}

\* UPDATE easm_scans SET status WHERE id: whatever the status was, and
\* without effect on a row that is gone.
Mark(s, new) == status' = [status EXCEPT ![s] = IF Exists(s) THEN new ELSE @]

\* docker stop and docker kill, where the Docker socket can be reached.
Stop(c) ==
    /\ alive' = [d \in Containers |-> IF d = c THEN None ELSE alive[d]]
    /\ loose' = loose \ {c}

\* An id that no container, thread, request or active row holds.
Unused(c) ==
    /\ alive[c] = None
    /\ \A w \in Workers : mine[w] # c
    /\ \A s \in Scans : seen[s] # c /\ (status[s] \in Active => recorded[s] # c)

\* Threads that have incremented the counter and not yet decremented it, and
\* the increments that nobody will take back.
Counted == {w \in Workers : pc[w] \notin {"idle", "acquire"}}
Drifted == slots - Cardinality(Counted)

Step(w, from, to) == pc[w] = from /\ pc' = [pc EXCEPT ![w] = to]

-----------------------------------------------------------------------------
(* launch_scan *)

\* (mutant) Only a queued scan holds a launch back.
PassChecksQueuedOnly(s) ==
    /\ status[s] = "absent" /\ launching[s] = "no"
    /\ \A r \in SameProject(s) : status[r] # "queued"
    /\ slots < Limit
    /\ launching' = [launching EXCEPT ![s] = "checked"]
    /\ UNCHANGED <<rows, slots, messages, docker, cancelling, seen, work>>

\* The project has no scan queued or running: the request goes on to its row.
Pass(s) ==
    /\ status[s] = "absent" /\ launching[s] = "no"
    /\ \A r \in SameProject(s) : status[r] \notin Active
    /\ launching' = [launching EXCEPT ![s] = "checked"]
    /\ UNCHANGED <<rows, slots, messages, docker, cancelling, seen, work>>

\* The counter is below the limit, ...
PassChecks(s) == slots < Limit /\ Pass(s)

\* ... or Redis did not say and is taken to have said 0.
PassBlind(s) == Pass(s)

InsertScan(s) ==
    /\ launching[s] = "checked"
    /\ launching' = [launching EXCEPT ![s] = "inserted"]
    /\ status' = [status EXCEPT ![s] = "queued"]
    /\ newer' = [r \in Scans |-> IF r \in SameProject(s) /\ Exists(r) THEN newer[r] \cup {s} ELSE newer[r]]
    /\ UNCHANGED <<recorded, overdue, slots, messages, docker, cancelling, seen, work>>

SendMessage(s) ==
    /\ launching[s] = "inserted"
    /\ launching' = [launching EXCEPT ![s] = "no"]
    /\ messages' = messages \cup {s}
    /\ UNCHANGED <<rows, slots, docker, cancelling, seen, work>>

\* The API process or the broker fails between the commit and the send.
SendFails(s) ==
    /\ launching[s] = "inserted"
    /\ launching' = [launching EXCEPT ![s] = "no"]
    /\ UNCHANGED <<rows, slots, messages, docker, cancelling, seen, work>>

-----------------------------------------------------------------------------
(* cancel_scan *)

CancelReads(s) ==
    /\ status[s] \in Active /\ s \notin cancelling
    /\ cancelling' = cancelling \cup {s}
    /\ seen' = [seen EXCEPT ![s] = recorded[s]]
    /\ UNCHANGED <<rows, slots, messages, docker, launching, work>>

\* Best effort: in the compose file the API has no Docker socket.
CancelStops(s) ==
    /\ s \in cancelling /\ seen[s] # None
    /\ Stop(seen[s]) \/ UNCHANGED docker
    /\ seen' = [seen EXCEPT ![s] = None]
    /\ UNCHANGED <<rows, slots, messages, launching, cancelling, work>>

CancelWrites(s) ==
    /\ s \in cancelling /\ seen[s] = None
    /\ Mark(s, "cancelled")
    /\ cancelling' = cancelling \ {s}
    /\ UNCHANGED <<recorded, newer, overdue, slots, messages, docker, launching, seen, work>>

-----------------------------------------------------------------------------
(* run_bbot_scan *)

Take(w) ==
    /\ Step(w, "idle", "acquire")
    /\ \E s \in messages :
          /\ messages' = messages \ {s}
          /\ scan' = [scan EXCEPT ![w] = s]
    /\ UNCHANGED <<rows, slots, docker, api, mine>>

\* (mutants) The limit is compared with the value before the INCR, or is itself refused.
AcquireOneMore(w) ==
    /\ Step(w, "acquire", IF slots > Limit THEN "refused" ELSE "load")
    /\ slots' = slots + 1
    /\ UNCHANGED <<rows, messages, docker, api, scan, mine>>

AcquireOneLess(w) ==
    /\ Step(w, "acquire", IF slots + 1 >= Limit THEN "refused" ELSE "load")
    /\ slots' = slots + 1
    /\ UNCHANGED <<rows, messages, docker, api, scan, mine>>

\* acquire_semaphore: INCR, then compare.
Acquire(w) ==
    /\ Step(w, "acquire", IF slots + 1 > Limit THEN "refused" ELSE "load")
    /\ slots' = slots + 1
    /\ UNCHANGED <<rows, messages, docker, api, scan, mine>>

\* The thread has nothing left to do with its message.
Done(w) ==
    /\ scan' = [scan EXCEPT ![w] = None]
    /\ mine' = [mine EXCEPT ![w] = None]

\* (mutant) The semaphore is acquired inside the try, whose finally decrements again.
RefuseTwice(w) ==
    /\ Step(w, "refused", "idle")
    /\ slots' = slots - 2
    /\ Done(w)
    /\ UNCHANGED <<rows, messages, docker, api>>

\* DECR, then dramatiq.Retry: with max_retries=0 the message is dropped.
Refuse(w) ==
    /\ Step(w, "refused", "idle")
    /\ slots' = slots - 1
    /\ Done(w)
    /\ UNCHANGED <<rows, messages, docker, api>>

\* (mutant) The early return is outside the try, and keeps its slot.
RejectKeepsSlot(w) ==
    /\ Step(w, "load", "idle")
    /\ Exists(scan[w])
    /\ Mark(scan[w], "failed")
    /\ Done(w)
    /\ UNCHANGED <<recorded, newer, overdue, slots, messages, docker, api>>

\* A module outside the safelist, or an empty scope.
Reject(w) ==
    /\ Step(w, "load", "release")
    /\ Exists(scan[w])
    /\ Mark(scan[w], "failed")
    /\ UNCHANGED <<recorded, newer, overdue, slots, messages, docker, api, scan, mine>>

\* docker run -d: the status of the row is not looked at.
Launch(w) ==
    /\ Step(w, "load", "launched")
    /\ Exists(scan[w])
    /\ \E c \in Containers :
          /\ Unused(c)
          /\ alive' = [alive EXCEPT ![c] = scan[w]]
          /\ mine' = [mine EXCEPT ![w] = c]
    /\ UNCHANGED <<rows, slots, messages, loose, api, scan>>

MarkRunning(w) ==
    /\ Step(w, "launched", "stream")
    /\ Mark(scan[w], "running")
    /\ recorded' = [recorded EXCEPT ![scan[w]] = IF Exists(scan[w]) THEN mine[w] ELSE @]
    /\ UNCHANGED <<newer, overdue, slots, messages, docker, api, scan, mine>>

\* docker logs --follow ends with the container.
StreamEnds(w) ==
    /\ Step(w, "stream", "ended")
    /\ alive[mine[w]] = None
    /\ UNCHANGED <<rows, slots, messages, docker, api, scan, mine>>

Finish(w) ==
    /\ Step(w, "ended", "release")
    /\ Mark(scan[w], "finished")
    /\ UNCHANGED <<recorded, newer, overdue, slots, messages, docker, api, scan, mine>>

\* An exception: the row is gone, docker run failed, or Postgres did.  Out of
\* the streaming loop it closes the generator of stream_bbot_logs on its way,
\* whose finally waits for docker logs to end, before any handler runs.
Throw(w) ==
    /\ \/ Step(w, "load", "failing") \/ Step(w, "launched", "failing") \/ Step(w, "ended", "failing")
       \/ Step(w, "stream", "throwing")
    /\ UNCHANGED <<rows, slots, messages, docker, api, scan, mine>>

\* TimeLimitExceeded, raised in the thread wherever it is: the coroutine gets
\* it, or the event loop does and cancels the coroutine, whose handlers do not
\* catch CancelledError.  What precedes the stream takes seconds, the limit is
\* half an hour or more.
TimeLimit(w) ==
    /\ \/ Step(w, "stream", "expiring") \/ Step(w, "stream", "dropping")
       \/ Step(w, "ended", "timeup") \/ Step(w, "ended", "release")
    /\ UNCHANGED <<rows, slots, messages, docker, api, scan, mine>>

\* The generator is closed once docker logs has ended, with the container.
GeneratorCloses(w) ==
    /\ \/ Step(w, "throwing", "failing") \/ Step(w, "expiring", "timeup") \/ Step(w, "dropping", "release")
    /\ alive[mine[w]] = None
    /\ UNCHANGED <<rows, slots, messages, docker, api, scan, mine>>

\* docker run gave no id within 15 s, and Docker started the container all the same.
LaunchTimesOut(w) ==
    /\ Step(w, "load", "failing")
    /\ Exists(scan[w])
    /\ \E c \in Containers :
          /\ Unused(c)
          /\ alive' = [alive EXCEPT ![c] = scan[w]]
          /\ loose' = loose \cup {c}
    /\ UNCHANGED <<rows, slots, messages, api, scan, mine>>

\* (mutant) The handlers leave the container alone.
StopNothing(w) ==
    /\ Step(w, "failing", "failed") \/ Step(w, "timeup", "expired")
    /\ UNCHANGED <<rows, slots, messages, docker, api, scan, mine>>

\* Both handlers stop the container first, if there is one, then write the row.
StopContainer(w) ==
    /\ Step(w, "failing", "failed") \/ Step(w, "timeup", "expired")
    /\ Stop(mine[w])
    /\ UNCHANGED <<rows, slots, messages, api, scan, mine>>

MarkFailed(w) ==
    /\ Step(w, "failed", "release")
    /\ Mark(scan[w], "failed")
    /\ UNCHANGED <<recorded, newer, overdue, slots, messages, docker, api, scan, mine>>

MarkTimedOut(w) ==
    /\ Step(w, "expired", "release")
    /\ Mark(scan[w], "cancelled")
    /\ UNCHANGED <<recorded, newer, overdue, slots, messages, docker, api, scan, mine>>

\* A handler raises: docker stop took more than 15 s, ...
StopFails(w) ==
    /\ Step(w, "failing", "release") \/ Step(w, "timeup", "release")
    /\ loose' = loose \cup {c \in Containers : c = mine[w] /\ alive[c] # None}
    /\ UNCHANGED <<rows, slots, messages, alive, api, scan, mine>>

\* ... or Postgres is away.
MarkFails(w) ==
    /\ Step(w, "failed", "release") \/ Step(w, "expired", "release")
    /\ UNCHANGED <<rows, slots, messages, docker, api, scan, mine>>

\* finally: release_semaphore.
Release(w) ==
    /\ Step(w, "release", "idle")
    /\ slots' = slots - 1
    /\ Done(w)
    /\ UNCHANGED <<rows, messages, docker, api>>

\* Redis is away when the counter is to be decremented.
DecrFails(w) ==
    /\ Drifted < MaxDrift
    /\ Step(w, "release", "idle") \/ Step(w, "refused", "idle")
    /\ Done(w)
    /\ UNCHANGED <<rows, slots, messages, docker, api>>

\* The process dies with both threads.  The counter and the containers stay,
\* no startup hook runs, and the unacknowledged messages come back.
Crash ==
    /\ \E w \in Workers : pc[w] # "idle"
    /\ Drifted < MaxDrift
    /\ messages' = messages \cup {scan[w] : w \in {v \in Workers : pc[v] # "idle"}}
    /\ pc' = [w \in Workers |-> "idle"]
    /\ scan' = [w \in Workers |-> None]
    /\ mine' = [w \in Workers |-> None]
    /\ UNCHANGED <<rows, slots, docker, api>>

-----------------------------------------------------------------------------
(* Docker, the clock and the scheduler's jobs *)

ContainerExits(c) ==
    /\ alive[c] # None
    /\ Stop(c)
    /\ UNCHANGED <<rows, slots, messages, api, work>>

\* started_at + BBOT_PASSIVE_MAX_SECONDS + 600 s has passed.  started_at is the
\* time of the request, and the time limit of the actor is longer than this.
GraceElapses(s) ==
    /\ Exists(s) /\ s \notin overdue
    /\ overdue' = overdue \cup {s}
    /\ UNCHANGED <<status, recorded, newer, slots, messages, docker, api, work>>

\* reap_orphan_scans, of the hourly job.
ReapOrphans ==
    /\ \E s \in overdue : status[s] = "running"
    /\ status' = [s \in Scans |-> IF s \in overdue /\ status[s] = "running" THEN "orphaned" ELSE status[s]]
    /\ UNCHANGED <<recorded, newer, overdue, slots, messages, docker, api, work>>

\* (mutant) The rank is compared with "<".
CleanHistoryOneMore ==
    LET beyond == {s \in Scans : Exists(s) /\ Cardinality({r \in newer[s] : Exists(r)}) >= History - 1}
    IN
    /\ beyond # {}
    /\ status' = [s \in Scans |-> IF s \in beyond THEN "deleted" ELSE status[s]]
    /\ UNCHANGED <<recorded, newer, overdue, slots, messages, docker, api, work>>

\* scan_history_cleanup_job: all but the History newest rows of each project go,
\* whatever their status.
CleanHistory ==
    LET beyond == {s \in Scans : Exists(s) /\ Cardinality({r \in newer[s] : Exists(r)}) >= History}
    IN
    /\ beyond # {}
    /\ status' = [s \in Scans |-> IF s \in beyond THEN "deleted" ELSE status[s]]
    /\ UNCHANGED <<recorded, newer, overdue, slots, messages, docker, api, work>>

-----------------------------------------------------------------------------
Run(w) ==
    \/ Take(w) \/ Acquire(w) \/ Refuse(w) \/ Reject(w) \/ Launch(w) \/ MarkRunning(w)
    \/ StreamEnds(w) \/ Finish(w) \/ GeneratorCloses(w) \/ StopContainer(w)
    \/ MarkFailed(w) \/ MarkTimedOut(w) \/ Release(w)

Launches == \E s \in Scans : PassChecks(s) \/ InsertScan(s) \/ SendMessage(s)
Cancels == \E s \in Scans : CancelReads(s) \/ CancelStops(s) \/ CancelWrites(s)
Interrupts == \E w \in Workers : Throw(w) \/ TimeLimit(w)
Exits == \E c \in Containers : ContainerExits(c)
Jobs == ReapOrphans \/ CleanHistory \/ \E s \in Scans : GraceElapses(s)
NoPostgres == \E w \in Workers : MarkFails(w)
NoRedis == (\E w \in Workers : DecrFails(w)) \/ \E s \in Scans : PassBlind(s) \/ SendFails(s)
NoDocker == \E w \in Workers : LaunchTimesOut(w) \/ StopFails(w)

Steady == Launches \/ (\E w \in Workers : Run(w)) \/ Interrupts \/ Exits \/ Cancels \/ Jobs \/ NoPostgres

\* Everything.
Next == Steady \/ NoRedis \/ NoDocker \/ Crash
Spec == Init /\ [][Next]_vars

\* easm-worker, Redis and Docker stay up and answer.
SteadySpec == Init /\ [][Steady]_vars

\* Nothing breaks, and users launch one scan at a time for a project and cancel
\* a scan only when its page shows it running.
Alone(s) == \A r \in SameProject(s) : launching[r] = "no"
CarefulNext ==
    \/ \E s \in Scans : \/ Alone(s) /\ PassChecks(s)
                        \/ InsertScan(s) \/ SendMessage(s)
                        \/ status[s] = "running" /\ CancelReads(s)
                        \/ CancelStops(s) \/ CancelWrites(s)
    \/ \E w \in Workers : Run(w)
    \/ Interrupts \/ Exits \/ Jobs

\* A request that inserted its row sends its message, the threads of easm-worker
\* are scheduled, containers end by themselves and the reaper runs every hour.
CarefulSpec ==
    /\ Init /\ [][CarefulNext]_vars
    /\ \A s \in Scans : WF_vars(InsertScan(s)) /\ WF_vars(SendMessage(s)) /\ WF_vars(GraceElapses(s))
    /\ \A w \in Workers : WF_vars(Run(w))
    /\ \A c \in Containers : WF_vars(ContainerExits(c))
    /\ WF_vars(ReapOrphans)

-----------------------------------------------------------------------------
(* Properties *)

\* The threads that were let past the semaphore and still owe it a decrement.
Holders == {w \in Workers : pc[w] \notin {"idle", "acquire", "refused"}}

\* config.py: a host-wide cap on concurrent scans.  Neither a lost decrement, a
\* crash nor a timed-out docker command ever lets more than Limit actors past
\* acquire_semaphore.
SlotsBounded == Cardinality(Holders) <= Limit

\* Every way out of _run_bbot_scan_inner gives its slot back: the counter stays the number
\* of threads that hold a slot or are about to be refused one, as long as ...
SlotsReturned == Drifted = 0

\* ... easm-worker does not die and Redis does not fail a decrement: no exception, time
\* limit, cancel request or docker command that times out ever leaks a slot.
OnlyLossesLeak == [][Drifted' # Drifted => Crash \/ \E w \in Workers : DecrFails(w)]_vars

\* No container outlives its actor, whatever exception, time limit or cancel
\* request came: a container that runs is the one some thread started.
NoStrayContainer ==
    \A c \in Containers : alive[c] # None =>
        \E w \in Workers : pc[w] # "idle" /\ mine[w] = c /\ scan[w] = alive[c]

\* The host never runs more than Limit scan containers, not even those that
\* survive easm-worker: the slots that crash lost are still counted for them.
\* Only those that Docker started or kept without an answer are not counted.
ContainersBounded == Cardinality({c \in Containers : alive[c] # None} \ loose) <= Limit

\* The cap of config.py, of actors and of containers, whatever fails.
HostBounded == SlotsBounded /\ ContainersBounded

\* routers/easm.py, M-5: a project has at most one scan queued or running.
OneActivePerProject ==
    \A r, s \in Scans : r # s /\ status[r] \in Active /\ status[s] \in Active => ProjectOf[r] # ProjectOf[s]

\* The nightly cleanup, which looks at the age of a scan only, never takes the
\* row of a scan that is queued or running.
CleanupSparesActive == [][\A s \in Scans : status[s] \in Active => status'[s] # "deleted"]_vars

\* A scan that was accepted comes to an end.
ScanEnds == \A s \in Scans : status[s] = "queued" ~> status[s] \notin Active

(* What the comments and the runbook say, and the code does not do. *)

\* routers/easm.py counts cancelled among the terminal states: a scan that a user cancelled
\* while it was queued does not run after all.
CancelledNeverRuns == [][\A s \in Scans : status[s] = "cancelled" => status'[s] # "running"]_vars
=============================================================================
