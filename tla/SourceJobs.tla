----------------------------- MODULE SourceJobs -----------------------------
(***************************************************************************)
(* The poll jobs of the scheduler and the rows they are made from: an      *)
(* admin request commits a change of sources and then publishes it on      *)
(* intellibird:sources:changed; the listener thread of scheduler/jobs.py   *)
(* removes the jobs a message names and loads those of the enabled rows.   *)
(***************************************************************************)
EXTENDS Integers, Sequences

CONSTANTS
    SourceIds,       \* rows that are ever created; an id is not used again
    AdminRequests,   \* handlers under way at once
    Intervals,       \* poll_interval_sec
    NoJob,
    MaxWaiting,      \* bound: messages on the channel
    MaxFaults        \* bound: failures of Redis and of the database, and restarts

ASSUME IntervalsGiven == Intervals # {} /\ NoJob \notin Intervals
ASSUME SourceJobsBounds == MaxWaiting \in Nat /\ MaxFaults \in Nat

VARIABLES
    source,     \* each row: "none" yet, "there" or "deleted"; enabled; its interval
    admin,      \* each request: what it has still to publish after its commit
    channel,    \* messages for the listener, each the set of deleted sources it names
    listener,   \* "starting", "built", "listening", "loading" for a message, or "ended"
    pollJobs,   \* the interval of the job of each source, or NoJob
    faults,
    missed      \* history: a change was not brought to the scheduler

sourceJobsVars == <<source, admin, channel, listener, pollJobs, faults, missed>>

SourceState == [at : {"none", "there", "deleted"}, enabled : BOOLEAN, interval : Intervals]
Publishing == [busy : BOOLEAN, deleted : SUBSET SourceIds]
Idle == [busy |-> FALSE, deleted |-> {}]

Due(s) == source[s].at = "there" /\ source[s].enabled

\* The rows, the requests, the messages and the jobs.
SourceJobsTypeOK ==
    /\ source \in [SourceIds -> SourceState]
    /\ admin \in [AdminRequests -> Publishing]
    /\ channel \in Seq(SUBSET SourceIds)
    /\ listener \in {"starting", "built", "listening", "loading", "ended"}
    /\ pollJobs \in [SourceIds -> Intervals \cup {NoJob}]
    /\ faults \in 0..MaxFaults
    /\ missed \in BOOLEAN
    /\ listener \in {"starting", "built", "ended"} => channel = <<>>

SourceJobsInit ==
    /\ source = [s \in SourceIds |-> [at |-> "none", enabled |-> FALSE,
                                      interval |-> CHOOSE n \in Intervals : TRUE]]
    /\ admin = [r \in AdminRequests |-> Idle]
    /\ channel = <<>>
    /\ listener = "starting"
    /\ pollJobs = [s \in SourceIds |-> NoJob]
    /\ faults = 0
    /\ missed = FALSE

-----------------------------------------------------------------------------
(* routers/admin/sources.py, services/source_events.py *)

Committed(r, deleted) ==
    /\ ~admin[r].busy
    /\ admin' = [admin EXCEPT ![r] = [busy |-> TRUE, deleted |-> deleted]]
    /\ UNCHANGED <<channel, listener, pollJobs, faults, missed>>

CreateSource(r, s) ==
    /\ source[s].at = "none"
    /\ \E enabled \in BOOLEAN, n \in Intervals :
          source' = [source EXCEPT ![s] = [at |-> "there", enabled |-> enabled, interval |-> n]]
    /\ Committed(r, {})

\* The message does not say that a source was disabled.
UpdateSource(r, s) ==
    /\ source[s].at = "there"
    /\ \E enabled \in BOOLEAN, n \in Intervals :
          source' = [source EXCEPT ![s] = [at |-> "there", enabled |-> enabled, interval |-> n]]
    /\ Committed(r, {})

\* (mutant) The message does not name the deleted source.
DeleteUnnamed(r, s) ==
    /\ source[s].at = "there"
    /\ source' = [source EXCEPT ![s].at = "deleted"]
    /\ Committed(r, {})

DeleteSource(r, s) ==
    /\ source[s].at = "there"
    /\ source' = [source EXCEPT ![s].at = "deleted"]
    /\ Committed(r, {s})

\* publish_sources_changed: Redis brings the message to who is subscribed.
PublishChange(r) ==
    /\ admin[r].busy /\ Len(channel) < MaxWaiting
    /\ admin' = [admin EXCEPT ![r] = Idle]
    /\ IF listener \in {"listening", "loading"}
       THEN channel' = Append(channel, admin[r].deleted) /\ UNCHANGED missed
       ELSE missed' = TRUE /\ UNCHANGED channel
    /\ UNCHANGED <<source, listener, pollJobs, faults>>

\* It never raises: without Redis, or when the process dies before it, nothing is sent.
PublishFails(r) ==
    /\ admin[r].busy /\ faults < MaxFaults
    /\ faults' = faults + 1
    /\ admin' = [admin EXCEPT ![r] = Idle]
    /\ missed' = TRUE
    /\ UNCHANGED <<source, channel, listener, pollJobs>>

-----------------------------------------------------------------------------
(* scheduler/jobs.py *)

\* _load_source_jobs only adds and replaces.
Loaded == [s \in SourceIds |-> IF Due(s) THEN source[s].interval ELSE pollJobs[s]]

\* build_scheduler loads the jobs and starts the listener; a failure to load is logged, ...
BuildScheduler ==
    /\ listener = "starting"
    /\ listener' = "built"
    /\ \/ pollJobs' = Loaded /\ missed' = FALSE /\ UNCHANGED faults
       \/ faults < MaxFaults /\ faults' = faults + 1 /\ missed' = TRUE /\ UNCHANGED pollJobs
    /\ UNCHANGED <<source, admin, channel>>

\* ... and the thread subscribes a moment later; what is published in between is gone.
Subscribe ==
    /\ listener = "built"
    /\ listener' = "listening"
    /\ UNCHANGED <<source, admin, channel, pollJobs, faults, missed>>

\* _reload_handler removes the jobs the message names, ...
RemoveDeleted ==
    /\ listener = "listening" /\ channel # <<>>
    /\ pollJobs' = [s \in SourceIds |-> IF s \in Head(channel) THEN NoJob ELSE pollJobs[s]]
    /\ channel' = Tail(channel)
    /\ listener' = "loading"
    /\ UNCHANGED <<source, admin, faults, missed>>

\* ... and loads the rest.
Reload ==
    /\ listener = "loading"
    /\ pollJobs' = Loaded
    /\ listener' = "listening"
    /\ UNCHANGED <<source, admin, channel, faults, missed>>

\* The rows cannot be read: the exception is logged, and the message is gone.
ReloadFails ==
    /\ listener = "loading" /\ faults < MaxFaults
    /\ faults' = faults + 1
    /\ listener' = "listening"
    /\ missed' = TRUE
    /\ UNCHANGED <<source, admin, channel, pollJobs>>

\* A Redis error ends the thread, and nothing starts it again.
ListenerEnds ==
    /\ listener = "listening" /\ faults < MaxFaults
    /\ faults' = faults + 1
    /\ listener' = "ended"
    /\ channel' = <<>>
    /\ missed' = (missed \/ channel # <<>>)
    /\ UNCHANGED <<source, admin, pollJobs>>

\* The scheduler is restarted: its jobs were in memory only.
RestartScheduler ==
    /\ faults < MaxFaults
    /\ faults' = faults + 1
    /\ listener' = "starting"
    /\ channel' = <<>>
    /\ pollJobs' = [s \in SourceIds |-> NoJob]
    /\ UNCHANGED <<source, admin, missed>>

SourceJobsNext ==
    \/ \E r \in AdminRequests : \/ PublishChange(r) \/ PublishFails(r)
                               \/ \E s \in SourceIds : CreateSource(r, s) \/ UpdateSource(r, s) \/ DeleteSource(r, s)
    \/ BuildScheduler \/ Subscribe \/ RemoveDeleted \/ Reload
    \/ ReloadFails \/ ListenerEnds \/ RestartScheduler

SourceJobsSpec == SourceJobsInit /\ [][SourceJobsNext]_sourceJobsVars

-----------------------------------------------------------------------------
(* Properties *)

CaughtUp ==
    /\ listener = "listening" /\ channel = <<>> /\ ~missed
    /\ \A r \in AdminRequests : ~admin[r].busy

\* Once the scheduler has caught up, every enabled source is polled at its interval and
\* no deleted one is, in whatever order the changes of several requests were committed
\* and published, and after a restart; unless a change was not brought to it, because
\* Redis or the database failed or the listener had not yet subscribed.
JobsFollowSources ==
    CaughtUp => \A s \in SourceIds : /\ Due(s) => pollJobs[s] = source[s].interval
                                     /\ source[s].at = "deleted" => pollJobs[s] = NoJob
=============================================================================
