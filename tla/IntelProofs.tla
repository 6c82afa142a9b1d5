---------------------------- MODULE IntelProofs ----------------------------
(***************************************************************************)
(* What modules SourceJobs, Enrichment, Sandbox, Ingest, Monitoring and    *)
(* TokenBudget keep for any number of sources, projects, requests, jobs,   *)
(* threads and polls, and for every value of their bounds; and what        *)
(* MCIntel keeps, which takes the steps of one of them at a time.          *)
(***************************************************************************)
EXTENDS MCIntel, FiniteSetTheorems, TLAPS

(* SourceJobs *)

NothingToPublish == \A r \in AdminRequests : ~admin[r].busy

\* The jobs of the enabled rows are right unless a change is on its way, ...
DuePolled ==
    listener \in {"built", "listening"} /\ channel = <<>> /\ ~missed /\ NothingToPublish
        => \A s \in SourceIds : Due(s) => pollJobs[s] = source[s].interval

\* ... and the job of a deleted one is gone unless a message that names it is.
DeletedNamed ==
    ~missed => \A s \in SourceIds :
        source[s].at = "deleted" /\ pollJobs[s] # NoJob =>
            \/ \E r \in AdminRequests : admin[r].busy /\ s \in admin[r].deleted
            \/ \E i \in 1..Len(channel) : s \in channel[i]

NoJobsYet == listener = "starting" => \A s \in SourceIds : pollJobs[s] = NoJob

JobsInv == SourceJobsTypeOK /\ NoJobsYet /\ DuePolled /\ DeletedNamed

LEMMA JobsInit == SourceJobsInit => JobsInv
<1> SUFFICES ASSUME SourceJobsInit PROVE JobsInv
    OBVIOUS
<1>1. (CHOOSE n \in Intervals : TRUE) \in Intervals
    BY IntervalsGiven
<1>2. SourceJobsTypeOK
  <2>1. source \in [SourceIds -> SourceState]
    BY <1>1 DEF SourceJobsInit, SourceState
  <2>2. admin \in [AdminRequests -> Publishing]
    BY DEF SourceJobsInit, Publishing, Idle
  <2>3. channel \in Seq(SUBSET SourceIds) /\ faults \in 0..MaxFaults
    BY SourceJobsBounds DEF SourceJobsInit
  <2>4. pollJobs \in [SourceIds -> Intervals \cup {NoJob}] /\ missed \in BOOLEAN
    BY DEF SourceJobsInit
  <2> QED
    BY <2>1, <2>2, <2>3, <2>4 DEF SourceJobsInit, SourceJobsTypeOK
<1>3. NoJobsYet /\ DuePolled /\ DeletedNamed
    BY DEF SourceJobsInit, NoJobsYet, DuePolled, DeletedNamed
<1> QED
    BY <1>2, <1>3 DEF JobsInv

\* The rows change, and the change is to be published.
LEMMA CommitKeepsJobs ==
    ASSUME JobsInv, NEW r \in AdminRequests, NEW deleted \in SUBSET SourceIds, Committed(r, deleted),
           source' \in [SourceIds -> SourceState],
           \A s \in SourceIds : source'[s].at = "deleted" => source[s].at = "deleted" \/ s \in deleted
    PROVE  JobsInv'
<1>1. /\ ~admin[r].busy /\ UNCHANGED <<channel, listener, pollJobs, faults, missed>>
      /\ admin' = [admin EXCEPT ![r] = [busy |-> TRUE, deleted |-> deleted]]
    BY DEF Committed
<1>2. [busy |-> TRUE, deleted |-> deleted] \in Publishing
    BY DEF Publishing
<1>3. /\ admin'[r].busy /\ admin'[r].deleted = deleted
      /\ \A q \in AdminRequests \ {r} : admin'[q] = admin[q]
    BY <1>1 DEF JobsInv, SourceJobsTypeOK
<1>4. SourceJobsTypeOK'
    BY <1>1, <1>2 DEF JobsInv, SourceJobsTypeOK
<1>5. DuePolled' /\ NoJobsYet'
    BY <1>1, <1>3 DEF JobsInv, DuePolled, NothingToPublish, NoJobsYet
<1>6. DeletedNamed'
    BY <1>1, <1>3 DEF JobsInv, DeletedNamed
<1> QED
    BY <1>4, <1>5, <1>6 DEF JobsInv

LEMMA JobsNext == JobsInv /\ SourceJobsNext => JobsInv'
<1> SUFFICES ASSUME JobsInv, SourceJobsNext PROVE JobsInv'
    OBVIOUS
<1> USE SourceJobsBounds
<1>1. SourceJobsTypeOK /\ NoJobsYet /\ DuePolled /\ DeletedNamed
    BY DEF JobsInv
<1>2. \A s \in SourceIds : source[s] \in SourceState /\ Loaded[s] \in Intervals \cup {NoJob}
    BY <1>1 DEF SourceJobsTypeOK, SourceState, Loaded
<1>3. ASSUME NEW r \in AdminRequests, NEW s \in SourceIds,
             CreateSource(r, s) \/ UpdateSource(r, s)
      PROVE  JobsInv'
  <2>1. PICK enabled \in BOOLEAN, n \in Intervals :
          source' = [source EXCEPT ![s] = [at |-> "there", enabled |-> enabled, interval |-> n]]
    BY <1>3 DEF CreateSource, UpdateSource
  <2>2. source' \in [SourceIds -> SourceState]
    BY <1>1, <2>1 DEF SourceJobsTypeOK, SourceState
  <2>3. \A t \in SourceIds : source'[t].at = "deleted" => source[t].at = "deleted"
    BY <1>1, <2>1 DEF SourceJobsTypeOK
  <2> QED
    BY <1>3, <2>2, <2>3, CommitKeepsJobs DEF CreateSource, UpdateSource
<1>4. ASSUME NEW r \in AdminRequests, NEW s \in SourceIds, DeleteSource(r, s)
      PROVE  JobsInv'
  <2>1. source' \in [SourceIds -> SourceState]
    BY <1>1, <1>4 DEF DeleteSource, SourceJobsTypeOK, SourceState
  <2>2. \A t \in SourceIds : source'[t].at = "deleted" => source[t].at = "deleted" \/ t \in {s}
    BY <1>1, <1>4 DEF DeleteSource, SourceJobsTypeOK
  <2> QED
    BY <1>4, <2>1, <2>2, CommitKeepsJobs DEF DeleteSource
<1>5. ASSUME NEW r \in AdminRequests, PublishChange(r) PROVE JobsInv'
  <2>1. /\ admin[r].busy /\ admin' = [admin EXCEPT ![r] = Idle]
        /\ UNCHANGED <<source, listener, pollJobs, faults>>
    BY <1>5 DEF PublishChange
  <2>2. Idle \in Publishing /\ admin[r].deleted \in SUBSET SourceIds
    BY <1>1 DEF SourceJobsTypeOK, Publishing, Idle
  <2>3. admin' \in [AdminRequests -> Publishing] /\ \A q \in AdminRequests \ {r} : admin'[q] = admin[q]
    BY <1>1, <2>1, <2>2 DEF SourceJobsTypeOK
  <2>4. CASE listener \in {"listening", "loading"}
    <3>1. channel' = Append(channel, admin[r].deleted) /\ missed' = missed
      BY <1>5, <2>4 DEF PublishChange
    <3>2. channel \in Seq(SUBSET SourceIds)
      BY <1>1 DEF SourceJobsTypeOK
    <3>3. /\ channel' \in Seq(SUBSET SourceIds) /\ channel' # <<>> /\ Len(channel') = Len(channel) + 1
          /\ channel'[Len(channel')] = admin[r].deleted /\ Len(channel) \in Nat
          /\ \A i \in 1..Len(channel) : channel'[i] = channel[i]
      BY <2>2, <3>1, <3>2
    <3>4. SourceJobsTypeOK'
      BY <1>1, <2>1, <2>3, <2>4, <3>1, <3>3 DEF SourceJobsTypeOK
    <3>5. DuePolled' /\ NoJobsYet'
      BY <2>1, <2>4, <3>3 DEF DuePolled, NoJobsYet
    <3>6. DeletedNamed'
      <4> SUFFICES ASSUME ~missed, NEW s \in SourceIds, source[s].at = "deleted", pollJobs[s] # NoJob
                   PROVE  \/ \E q \in AdminRequests : admin'[q].busy /\ s \in admin'[q].deleted
                          \/ \E i \in 1..Len(channel') : s \in channel'[i]
        BY <2>1, <3>1 DEF DeletedNamed
      <4>1. CASE \E q \in AdminRequests \ {r} : admin[q].busy /\ s \in admin[q].deleted
        BY <2>3, <4>1
      <4>2. CASE s \in admin[r].deleted
        BY <3>3, <4>2
      <4>3. CASE \E i \in 1..Len(channel) : s \in channel[i]
        BY <3>3, <4>3
      <4> QED
        BY <1>1, <4>1, <4>2, <4>3 DEF DeletedNamed
    <3> QED
      BY <3>4, <3>5, <3>6 DEF JobsInv
  <2>5. CASE listener \notin {"listening", "loading"}
    <3>1. missed' = TRUE /\ channel' = channel
      BY <1>5, <2>5 DEF PublishChange
    <3>2. SourceJobsTypeOK'
      BY <1>1, <2>1, <2>3, <3>1 DEF SourceJobsTypeOK
    <3> QED
      BY <1>1, <2>1, <3>1, <3>2 DEF JobsInv, DuePolled, NoJobsYet, DeletedNamed
  <2> QED
    BY <2>4, <2>5
<1>6. ASSUME NEW r \in AdminRequests, PublishFails(r) PROVE JobsInv'
  <2>1. /\ admin' = [admin EXCEPT ![r] = Idle] /\ missed' = TRUE /\ faults < MaxFaults /\ faults' = faults + 1
        /\ UNCHANGED <<source, channel, listener, pollJobs>>
    BY <1>6 DEF PublishFails
  <2>2. Idle \in Publishing
    BY DEF Publishing, Idle
  <2>3. faults' \in 0..MaxFaults
    BY <1>1, <2>1 DEF SourceJobsTypeOK
  <2>4. SourceJobsTypeOK'
    BY <1>1, <2>1, <2>2, <2>3 DEF SourceJobsTypeOK
  <2> QED
    BY <1>1, <2>1, <2>4 DEF JobsInv, DuePolled, NoJobsYet, DeletedNamed
<1>7. CASE BuildScheduler
  <2>1. listener = "starting" /\ listener' = "built" /\ UNCHANGED <<source, admin, channel>>
    BY <1>7 DEF BuildScheduler
  <2>2. CASE pollJobs' = Loaded /\ missed' = FALSE /\ faults' = faults
    <3>1. pollJobs' \in [SourceIds -> Intervals \cup {NoJob}]
      BY <1>2, <2>2 DEF Loaded
    <3>2. \A s \in SourceIds : pollJobs'[s] = IF Due(s) THEN source[s].interval ELSE pollJobs[s]
      BY <2>2 DEF Loaded
    <3>3. SourceJobsTypeOK'
      BY <1>1, <2>1, <2>2, <3>1 DEF SourceJobsTypeOK
    <3> QED
      BY <1>1, <2>1, <3>2, <3>3 DEF JobsInv, DuePolled, NoJobsYet, DeletedNamed, Due
  <2>3. CASE faults < MaxFaults /\ faults' = faults + 1 /\ missed' = TRUE /\ pollJobs' = pollJobs
    <3>1. faults' \in 0..MaxFaults
      BY <1>1, <2>3 DEF SourceJobsTypeOK
    <3>2. SourceJobsTypeOK'
      BY <1>1, <2>1, <2>3, <3>1 DEF SourceJobsTypeOK
    <3> QED
      BY <2>1, <2>3, <3>2 DEF JobsInv, DuePolled, NoJobsYet, DeletedNamed
  <2> QED
    BY <1>7, <2>2, <2>3 DEF BuildScheduler
<1>8. CASE Subscribe
  <2>1. /\ listener = "built" /\ listener' = "listening"
        /\ UNCHANGED <<source, admin, channel, pollJobs, faults, missed>>
    BY <1>8 DEF Subscribe
  <2>2. SourceJobsTypeOK'
    BY <1>1, <2>1 DEF SourceJobsTypeOK
  <2> QED
    BY <1>1, <2>1, <2>2 DEF JobsInv, DuePolled, NoJobsYet, DeletedNamed, NothingToPublish, Due
<1>9. CASE RemoveDeleted
  <2>1. /\ channel # <<>> /\ channel' = Tail(channel) /\ listener' = "loading"
        /\ pollJobs' = [s \in SourceIds |-> IF s \in Head(channel) THEN NoJob ELSE pollJobs[s]]
        /\ UNCHANGED <<source, admin, faults, missed>>
    BY <1>9 DEF RemoveDeleted
  <2>2. channel \in Seq(SUBSET SourceIds)
    BY <1>1 DEF SourceJobsTypeOK
  <2>3. /\ channel' \in Seq(SUBSET SourceIds) /\ Len(channel) \in Nat \ {0} /\ Head(channel) = channel[1]
        /\ Len(channel') = Len(channel) - 1
        /\ \A i \in 1..Len(channel') : channel'[i] = channel[i + 1]
    BY <2>1, <2>2
  <2>4. SourceJobsTypeOK'
    BY <1>1, <2>1, <2>3 DEF SourceJobsTypeOK
  <2>5. DeletedNamed'
    <3> SUFFICES ASSUME ~missed, NEW s \in SourceIds, source[s].at = "deleted", pollJobs'[s] # NoJob
                 PROVE  \/ \E q \in AdminRequests : admin[q].busy /\ s \in admin[q].deleted
                        \/ \E i \in 1..Len(channel') : s \in channel'[i]
      BY <2>1 DEF DeletedNamed
    <3>1. s \notin channel[1] /\ pollJobs[s] # NoJob
      BY <2>1, <2>3
    <3>2. CASE \E i \in 1..Len(channel) : s \in channel[i]
      <4>1. PICK i \in 1..Len(channel) : s \in channel[i]
        BY <3>2
      <4>2. i - 1 \in 1..Len(channel') /\ channel'[i - 1] = channel[i]
        BY <2>3, <3>1, <4>1
      <4> QED
        BY <4>1, <4>2
    <3> QED
      BY <1>1, <3>1, <3>2 DEF DeletedNamed
  <2> QED
    BY <2>1, <2>4, <2>5 DEF JobsInv, DuePolled, NoJobsYet
<1>10. CASE Reload
  <2>1. /\ listener = "loading" /\ listener' = "listening" /\ pollJobs' = Loaded
        /\ UNCHANGED <<source, admin, channel, faults, missed>>
    BY <1>10 DEF Reload
  <2>2. pollJobs' \in [SourceIds -> Intervals \cup {NoJob}]
    BY <1>2, <2>1 DEF Loaded
  <2>3. \A s \in SourceIds : pollJobs'[s] = IF Due(s) THEN source[s].interval ELSE pollJobs[s]
    BY <2>1 DEF Loaded
  <2>4. SourceJobsTypeOK'
    BY <1>1, <2>1, <2>2 DEF SourceJobsTypeOK
  <2>5. DuePolled' /\ NoJobsYet'
    BY <2>1, <2>3 DEF DuePolled, NoJobsYet, Due
  <2>6. DeletedNamed'
    BY <1>1, <2>1, <2>3 DEF DeletedNamed, Due
  <2> QED
    BY <2>4, <2>5, <2>6 DEF JobsInv
<1>11. CASE ReloadFails \/ ListenerEnds \/ RestartScheduler
  <2>1. faults < MaxFaults /\ faults' = faults + 1 /\ UNCHANGED <<source, admin>>
    BY <1>11 DEF ReloadFails, ListenerEnds, RestartScheduler
  <2>2. faults' \in 0..MaxFaults
    BY <1>1, <2>1 DEF SourceJobsTypeOK
  <2>3. CASE ReloadFails
    BY <1>1, <2>1, <2>2, <2>3 DEF ReloadFails, JobsInv, SourceJobsTypeOK, DuePolled, NoJobsYet, DeletedNamed
  <2>4. CASE ListenerEnds
    <3>1. SourceJobsTypeOK'
      BY <1>1, <2>1, <2>2, <2>4 DEF ListenerEnds, SourceJobsTypeOK
    <3> QED
      BY <1>1, <2>1, <2>4, <3>1 DEF ListenerEnds, JobsInv, DuePolled, NoJobsYet, DeletedNamed
  <2>5. CASE RestartScheduler
    <3>1. SourceJobsTypeOK'
      BY <1>1, <2>1, <2>2, <2>5 DEF RestartScheduler, SourceJobsTypeOK
    <3> QED
      BY <2>1, <2>5, <3>1 DEF RestartScheduler, JobsInv, DuePolled, NoJobsYet, DeletedNamed
  <2> QED
    BY <1>11, <2>3, <2>4, <2>5
<1> QED
    BY <1>3, <1>4, <1>5, <1>6, <1>7, <1>8, <1>9, <1>10, <1>11 DEF SourceJobsNext

LEMMA JobsInvNext == JobsInv /\ [SourceJobsNext]_sourceJobsVars => JobsInv'
<1>1. JobsInv /\ UNCHANGED sourceJobsVars => JobsInv'
    BY DEF sourceJobsVars, JobsInv, SourceJobsTypeOK, NoJobsYet, DuePolled, DeletedNamed,
           NothingToPublish, Due
<1> QED
    BY <1>1, JobsNext

\* For any sources, requests and intervals: the rows, the jobs, the requests between their
\* commit and their message, and the listener are well formed.
THEOREM SourceJobsTypeCorrect == SourceJobsSpec => []SourceJobsTypeOK
<1>1. JobsInv => SourceJobsTypeOK
    BY DEF JobsInv
<1> QED
    BY <1>1, JobsInit, JobsInvNext, PTL DEF SourceJobsSpec

\* For any number of sources and requests: once the scheduler has caught up, the enabled
\* sources are polled at their interval and the deleted ones are not (_reload_handler,
\* _load_source_jobs, publish_sources_changed).
THEOREM JobsCorrect == SourceJobsSpec => []JobsFollowSources
<1>1. JobsInv => JobsFollowSources
  <2> SUFFICES ASSUME JobsInv, CaughtUp PROVE \A s \in SourceIds :
                        /\ Due(s) => pollJobs[s] = source[s].interval
                        /\ source[s].at = "deleted" => pollJobs[s] = NoJob
    BY DEF JobsFollowSources
  <2>1. /\ listener = "listening" /\ channel = <<>> /\ ~missed /\ NothingToPublish
        /\ DuePolled /\ DeletedNamed
    BY DEF CaughtUp, NothingToPublish, JobsInv
  <2>2. ASSUME NEW s \in SourceIds, Due(s) PROVE pollJobs[s] = source[s].interval
    BY <2>1, <2>2 DEF DuePolled
  <2>3. 1..Len(channel) = {}
    BY <2>1
  <2>4. ASSUME NEW s \in SourceIds, source[s].at = "deleted" PROVE pollJobs[s] = NoJob
    BY <2>1, <2>3, <2>4 DEF DeletedNamed, NothingToPublish
  <2> QED
    BY <2>2, <2>4
<1> QED
    BY JobsInvNext, <1>1, JobsInit, PTL DEF SourceJobsSpec

-----------------------------------------------------------------------------
(* Enrichment *)

\* Jobs that have taken a minute's unit, and have neither called nor given it back.
Uncalled(m) == {j \in EnrichJobs : job[j].at \in {"counted", "refused"} /\ job[j].minute = m}

Paid == \A m \in MinutesOf : called[m] + Cardinality(Uncalled(m)) <= minuteCount[m]

CapsInv == EnrichmentTypeOK /\ Paid

LEMMA UncalledFinite ==
    ASSUME NEW m
    PROVE  IsFiniteSet(Uncalled(m)) /\ Cardinality(Uncalled(m)) \in Nat
<1>1. Uncalled(m) \subseteq EnrichJobs
    BY DEF Uncalled
<1> QED
    BY <1>1, JobsFinite, FS_Subset, FS_CardinalityType

\* Everything but the counters, the jobs and what was called.
OtherTypes ==
    /\ target \in {"active", "whitelisted", "deleted"}
    /\ forceFlag \in BOOLEAN /\ breakerOpen \in BOOLEAN
    /\ cached \in Verdicts \cup {NoVerdict} /\ enriched \in Verdicts \cup {NoVerdict}
    /\ minute \in MinutesOf
    /\ quotaFails \in Nat
    /\ enrichCrashes \in 0..MaxEnrichCrashes

CounterTypes ==
    /\ minuteCount \in [MinutesOf -> 0..MinuteCap]
    /\ dayCount \in [DaysOf -> 0..DailyCap]
    /\ called \in [MinutesOf -> Nat]

LEMMA EnrichmentTypes ==
    EnrichmentTypeOK <=> OtherTypes /\ CounterTypes /\ job \in [EnrichJobs -> JobState]
BY DEF EnrichmentTypeOK, OtherTypes, CounterTypes

LEMMA CapsInit == EnrichmentInit => CapsInv
<1> SUFFICES ASSUME EnrichmentInit PROVE CapsInv
    OBVIOUS
<1> USE EnrichmentBounds
<1>1. 0 \in MinutesOf /\ NoJobYet \in JobState /\ NoJobYet.at = "none"
    BY DEF MinutesOf, NoJobYet, JobState, Places
<1>2. OtherTypes
  <2>1. target = "active" /\ forceFlag = FALSE /\ breakerOpen = FALSE
    BY DEF EnrichmentInit
  <2>2. cached = NoVerdict /\ enriched = NoVerdict /\ minute = 0 /\ quotaFails = 0
    BY DEF EnrichmentInit
  <2>3. enrichCrashes = 0 /\ 0 \in 0..MaxEnrichCrashes
    BY DEF EnrichmentInit
  <2> QED
    BY <1>1, <2>1, <2>2, <2>3 DEF OtherTypes
<1>3. CounterTypes
    BY DEF EnrichmentInit, CounterTypes
<1>4. job \in [EnrichJobs -> JobState]
    BY <1>1 DEF EnrichmentInit
<1>5. ASSUME NEW m \in MinutesOf PROVE called[m] + Cardinality(Uncalled(m)) <= minuteCount[m]
  <2>1. called[m] = 0 /\ minuteCount[m] = 0
    BY DEF EnrichmentInit
  <2>2. Uncalled(m) = {}
    BY <1>1 DEF EnrichmentInit, Uncalled
  <2> QED
    BY <2>1, <2>2, FS_EmptySet
<1> QED
    BY <1>2, <1>3, <1>4, <1>5, EnrichmentTypes DEF CapsInv, Paid

\* The counters stay, and no job is new among those that have a unit to use.
LEMMA CountersKept ==
    ASSUME CapsInv, UNCHANGED counters, OtherTypes', job' \in [EnrichJobs -> JobState],
           \A j \in EnrichJobs : job'[j].at \in {"counted", "refused"} =>
               job[j].at \in {"counted", "refused"} /\ job'[j].minute = job[j].minute
    PROVE  CapsInv'
<1>1. minuteCount' = minuteCount /\ dayCount' = dayCount /\ called' = called
    BY DEF counters
<1>2. EnrichmentTypeOK'
    BY <1>1 DEF CapsInv, EnrichmentTypeOK, OtherTypes
<1>3. ASSUME NEW m \in MinutesOf
      PROVE  called'[m] + Cardinality({j \in EnrichJobs : job'[j].at \in {"counted", "refused"} /\ job'[j].minute = m})
                 <= minuteCount'[m]
  <2> DEFINE U == {j \in EnrichJobs : job'[j].at \in {"counted", "refused"} /\ job'[j].minute = m}
  <2>1. U \subseteq Uncalled(m)
    BY DEF Uncalled
  <2>2. IsFiniteSet(U) /\ Cardinality(U) \in Nat /\ Cardinality(U) <= Cardinality(Uncalled(m))
    BY <2>1, UncalledFinite, FS_Subset, FS_CardinalityType
  <2>3. called[m] \in Nat /\ minuteCount[m] \in Nat /\ Cardinality(Uncalled(m)) \in Nat
    BY UncalledFinite, EnrichmentBounds DEF CapsInv, EnrichmentTypeOK
  <2>4. called[m] + Cardinality(Uncalled(m)) <= minuteCount[m]
    BY DEF CapsInv, Paid
  <2> HIDE DEF U
  <2>5. called'[m] + Cardinality(U) <= minuteCount'[m]
    BY <1>1, <2>2, <2>3, <2>4
  <2> QED
    BY <2>5 DEF U
<1> QED
    BY <1>2, <1>3 DEF CapsInv, Paid, Uncalled

\* One job goes on to a place where it has no unit.
LEMMA GoesOnWithout ==
    ASSUME CapsInv, UNCHANGED counters, OtherTypes', NEW j \in EnrichJobs, NEW h \in JobState,
           job' = [job EXCEPT ![j] = h], h.at \notin {"counted", "refused"}
    PROVE  CapsInv'
<1>1. job \in [EnrichJobs -> JobState]
    BY DEF CapsInv, EnrichmentTypeOK
<1>2. job' \in [EnrichJobs -> JobState] /\ job'[j] = h /\ \A k \in EnrichJobs \ {j} : job'[k] = job[k]
    BY <1>1
<1> QED
    BY <1>2, CountersKept

\* What To and WithResult make of a job.
LEMMA JobShapes ==
    ASSUME NEW x \in JobState, NEW at \in Places
    PROVE  /\ [x EXCEPT !.at = at] \in JobState /\ [x EXCEPT !.at = at].at = at
           /\ [x EXCEPT !.at = at].minute = x.minute
BY DEF JobState

LEMMA ToStep ==
    ASSUME CapsInv, UNCHANGED counters, OtherTypes', NEW j \in EnrichJobs,
           NEW at \in Places \ {"counted", "refused"}, To(j, at)
    PROVE  CapsInv'
<1> DEFINE h == [job[j] EXCEPT !.at = at]
<1>1. job[j] \in JobState
    BY DEF CapsInv, EnrichmentTypeOK
<1>3. h \in JobState /\ h.at = at
    BY <1>1, JobShapes
<1>4. job' = [job EXCEPT ![j] = h]
    BY DEF To
<1> HIDE DEF h
<1> QED
    BY <1>3, <1>4, GoesOnWithout

LEMMA ResultStep ==
    ASSUME CapsInv, UNCHANGED counters, OtherTypes', NEW j \in EnrichJobs,
           NEW at \in Places \ {"counted", "refused"}, NEW v \in Verdicts \cup {NoVerdict}, WithResult(j, at, v)
    PROVE  CapsInv'
<1> DEFINE h == [job[j] EXCEPT !.at = at, !.verdict = v]
<1>1. job[j] \in JobState
    BY DEF CapsInv, EnrichmentTypeOK
<1>2. h \in JobState /\ h.at = at
    BY <1>1 DEF JobState
<1>3. job' = [job EXCEPT ![j] = h]
    BY DEF WithResult
<1> HIDE DEF h
<1> QED
    BY <1>2, <1>3, GoesOnWithout

\* A step that leaves the jobs and the counters alone.
LEMMA AtRest ==
    ASSUME CapsInv, UNCHANGED counters, OtherTypes', job' = job
    PROVE  CapsInv'
<1>1. job \in [EnrichJobs -> JobState]
    BY DEF CapsInv, EnrichmentTypeOK
<1> QED
    BY <1>1, CountersKept

\* TakeMinute: the unit that is taken is counted.
LEMMA TakeMinuteStep ==
    ASSUME CapsInv, NEW j \in EnrichJobs, TakeMinute(j) PROVE CapsInv'
<1> USE EnrichmentBounds
<1>1. OtherTypes /\ CounterTypes /\ job \in [EnrichJobs -> JobState] /\ Paid
    BY EnrichmentTypes DEF CapsInv
<1>2. /\ job[j].at = "uncached"
      /\ job' = [job EXCEPT ![j].at = IF minuteCount[minute] + 1 > MinuteCap THEN "result" ELSE "counted",
                            ![j].minute = minute]
      /\ minuteCount' = [minuteCount EXCEPT ![minute] = IF @ + 1 > MinuteCap THEN @ ELSE @ + 1]
      /\ UNCHANGED <<target, forceFlag, minute, dayCount, called, breaker, answers, enrichCrashes>>
    BY DEF TakeMinute, From
<1>3. OtherTypes'
    BY <1>1, <1>2 DEF OtherTypes, breaker, answers
<1>4. minute \in MinutesOf /\ minuteCount[minute] \in 0..MinuteCap
    BY <1>1 DEF OtherTypes, CounterTypes
<1>5. /\ job' \in [EnrichJobs -> JobState] /\ job'[j].minute = minute
      /\ job'[j].at = IF minuteCount[minute] + 1 > MinuteCap THEN "result" ELSE "counted"
      /\ \A k \in EnrichJobs \ {j} : job'[k] = job[k]
  <2> DEFINE at == IF minuteCount[minute] + 1 > MinuteCap THEN "result" ELSE "counted"
             h == [job[j] EXCEPT !.at = at, !.minute = minute]
  <2>1. job[j] \in JobState /\ at \in Places /\ job' = [job EXCEPT ![j] = h]
    BY <1>1, <1>2 DEF Places
  <2>2. h \in JobState /\ h.at = at /\ h.minute = minute
    <3> HIDE DEF at
    <3> QED
      BY <1>4, <2>1 DEF JobState
  <2> HIDE DEF h
  <2> QED
    BY <1>1, <2>1, <2>2
<1>6. CounterTypes'
    BY <1>1, <1>2, <1>4 DEF CounterTypes
<1>7. ASSUME NEW m \in MinutesOf
      PROVE  called'[m] + Cardinality({k \in EnrichJobs : job'[k].at \in {"counted", "refused"} /\ job'[k].minute = m})
                 <= minuteCount'[m]
  <2> DEFINE U == {k \in EnrichJobs : job'[k].at \in {"counted", "refused"} /\ job'[k].minute = m}
  <2>1. j \notin Uncalled(m) /\ IsFiniteSet(Uncalled(m)) /\ Cardinality(Uncalled(m)) \in Nat
    BY <1>2, UncalledFinite DEF Uncalled
  <2>2. called'[m] = called[m] /\ called[m] \in Nat /\ minuteCount[m] \in Nat
        /\ called[m] + Cardinality(Uncalled(m)) <= minuteCount[m]
    BY <1>1, <1>2 DEF CounterTypes, Paid
  <2>3. CASE m = minute /\ minuteCount[minute] + 1 <= MinuteCap
    <3>1. U = Uncalled(m) \cup {j}
      BY <1>4, <1>5, <2>3 DEF Uncalled
    <3>2. Cardinality(U) = Cardinality(Uncalled(m)) + 1
      BY <2>1, <3>1, FS_AddElement
    <3>3. minuteCount'[m] = minuteCount[m] + 1
      BY <1>1, <1>2, <1>4, <2>3 DEF CounterTypes
    <3> HIDE DEF U
    <3>4. called'[m] + Cardinality(U) <= minuteCount'[m]
      BY <2>1, <2>2, <3>2, <3>3
    <3> QED
      BY <3>4 DEF U
  <2>4. CASE ~(m = minute /\ minuteCount[minute] + 1 <= MinuteCap)
    <3>1. U = Uncalled(m)
      BY <1>2, <1>4, <1>5, <2>4 DEF Uncalled
    <3>2. minuteCount'[m] = minuteCount[m]
      BY <1>1, <1>2, <1>4, <2>4 DEF CounterTypes
    <3> HIDE DEF U
    <3>3. called'[m] + Cardinality(U) <= minuteCount'[m]
      BY <2>2, <3>1, <3>2
    <3> QED
      BY <3>3 DEF U
  <2> QED
    BY <2>3, <2>4
<1> QED
    BY <1>3, <1>5, <1>6, <1>7 DEF CapsInv, EnrichmentTypeOK, OtherTypes, CounterTypes, Paid, Uncalled

\* TakeDay: the unit is used for the call, or kept to be given back.
LEMMA TakeDayStep ==
    ASSUME CapsInv, NEW j \in EnrichJobs, TakeDay(j) PROVE CapsInv'
<1> USE EnrichmentBounds
<1> DEFINE d == DayOf(minute)
<1>1. OtherTypes /\ CounterTypes /\ job \in [EnrichJobs -> JobState] /\ Paid
    BY EnrichmentTypes DEF CapsInv
<1>2. /\ job[j].at = "counted" /\ minuteCount' = minuteCount
      /\ UNCHANGED <<target, forceFlag, minute, breaker, answers, enrichCrashes>>
    BY DEF TakeDay, From
<1>3. OtherTypes'
    BY <1>1, <1>2 DEF OtherTypes, breaker, answers
<1>4. minute \in MinutesOf /\ d \in DaysOf /\ dayCount[d] \in 0..DailyCap
    BY <1>1 DEF OtherTypes, CounterTypes, DaysOf
<1>5. job[j] \in JobState /\ job[j].minute \in MinutesOf
    BY <1>1 DEF JobState
<1>6. CASE dayCount[d] + 1 > DailyCap
  <2>1. job' = [job EXCEPT ![j].at = "refused"] /\ dayCount' = dayCount /\ called' = called
    BY <1>6 DEF TakeDay, To
  <2>2. /\ job' \in [EnrichJobs -> JobState] /\ job'[j].at = "refused" /\ job'[j].minute = job[j].minute
        /\ \A k \in EnrichJobs \ {j} : job'[k] = job[k]
    BY <1>1, <1>5, <2>1 DEF JobState, Places
  <2>3. UNCHANGED counters
    BY <1>2, <2>1 DEF counters
  <2> QED
    BY <1>2, <1>3, <2>2, <2>3, CountersKept
<1>7. CASE ~(dayCount[d] + 1 > DailyCap)
  <2> DEFINE n == job[j].minute
  <2>1. /\ job' = [job EXCEPT ![j].at = "calling"] /\ dayCount' = [dayCount EXCEPT ![d] = @ + 1]
        /\ called' = [called EXCEPT ![n] = @ + 1]
    BY <1>7 DEF TakeDay, To
  <2>2. /\ job' \in [EnrichJobs -> JobState] /\ job'[j].at = "calling"
        /\ \A k \in EnrichJobs \ {j} : job'[k] = job[k]
    BY <1>1, <1>5, <2>1 DEF JobState, Places
  <2>3. CounterTypes'
    <3>1. dayCount' \in [DaysOf -> 0..DailyCap]
      BY <1>1, <1>4, <1>7, <2>1 DEF CounterTypes
    <3>2. called' \in [MinutesOf -> Nat]
      BY <1>1, <1>5, <2>1 DEF CounterTypes
    <3> QED
      BY <1>1, <1>2, <3>1, <3>2 DEF CounterTypes
  <2>4. ASSUME NEW m \in MinutesOf
        PROVE  called'[m] + Cardinality({k \in EnrichJobs : job'[k].at \in {"counted", "refused"} /\ job'[k].minute = m})
                   <= minuteCount'[m]
    <3> DEFINE U == {k \in EnrichJobs : job'[k].at \in {"counted", "refused"} /\ job'[k].minute = m}
    <3>1. IsFiniteSet(Uncalled(m)) /\ Cardinality(Uncalled(m)) \in Nat
      BY UncalledFinite
    <3>2. called[m] \in Nat /\ minuteCount[m] \in Nat /\ called[m] + Cardinality(Uncalled(m)) <= minuteCount[m]
      BY <1>1 DEF CounterTypes, Paid
    <3>3. U = Uncalled(m) \ {j}
      BY <2>2 DEF Uncalled
    <3>4. CASE m = n
      <4>1. j \in Uncalled(m)
        BY <1>2, <3>4 DEF Uncalled
      <4>5. Cardinality(Uncalled(m) \ {j}) = Cardinality(Uncalled(m)) - 1
        BY <3>1, <4>1, FS_RemoveElement
      <4>2. Cardinality(U) = Cardinality(Uncalled(m)) - 1
        BY <3>3, <4>5
      <4>3. called'[m] = called[m] + 1
        BY <1>1, <1>5, <2>1, <3>4 DEF CounterTypes
      <4> HIDE DEF U
      <4>4. called'[m] + Cardinality(U) <= minuteCount'[m]
        BY <1>2, <3>1, <3>2, <4>2, <4>3
      <4> QED
        BY <4>4 DEF U
    <3>5. CASE m # n
      <4>1. U = Uncalled(m)
        BY <3>3, <3>5 DEF Uncalled
      <4>2. called'[m] = called[m]
        BY <1>1, <2>1, <3>5 DEF CounterTypes
      <4> HIDE DEF U
      <4>3. called'[m] + Cardinality(U) <= minuteCount'[m]
        BY <1>2, <3>2, <4>1, <4>2
      <4> QED
        BY <4>3 DEF U
    <3> QED
      BY <3>4, <3>5
  <2> QED
    BY <1>3, <2>2, <2>3, <2>4 DEF CapsInv, EnrichmentTypeOK, OtherTypes, CounterTypes, Paid, Uncalled
<1> QED
    BY <1>6, <1>7

\* GiveBack: the unit was one of those that had not been used.
LEMMA GiveBackStep ==
    ASSUME CapsInv, NEW j \in EnrichJobs, GiveBack(j) PROVE CapsInv'
<1> USE EnrichmentBounds
<1> DEFINE n == job[j].minute
<1>1. OtherTypes /\ CounterTypes /\ job \in [EnrichJobs -> JobState] /\ Paid
    BY EnrichmentTypes DEF CapsInv
<1>2. /\ job[j].at = "refused" /\ job' = [job EXCEPT ![j].at = "result"]
      /\ minuteCount' = [minuteCount EXCEPT ![n] = @ - 1]
      /\ UNCHANGED <<target, forceFlag, minute, dayCount, called, breaker, answers, enrichCrashes>>
    BY DEF GiveBack, From, To
<1>3. OtherTypes'
    BY <1>1, <1>2 DEF OtherTypes, breaker, answers
<1>4. job[j] \in JobState /\ n \in MinutesOf
    BY <1>1 DEF JobState
<1>5. /\ job' \in [EnrichJobs -> JobState] /\ job'[j].at = "result"
      /\ \A k \in EnrichJobs \ {j} : job'[k] = job[k]
    BY <1>1, <1>2, <1>4 DEF JobState, Places
<1>6. ASSUME NEW m \in MinutesOf
      PROVE  /\ IsFiniteSet(Uncalled(m)) /\ Cardinality(Uncalled(m)) \in Nat
             /\ called[m] \in Nat /\ minuteCount[m] \in 0..MinuteCap
             /\ called[m] + Cardinality(Uncalled(m)) <= minuteCount[m]
    BY <1>1, UncalledFinite DEF CounterTypes, Paid
<1>7. j \in Uncalled(n) /\ Cardinality(Uncalled(n) \ {j}) = Cardinality(Uncalled(n)) - 1
      /\ Cardinality(Uncalled(n) \ {j}) \in Nat
  <2>1. j \in Uncalled(n)
    BY <1>2 DEF Uncalled
  <2>2. IsFiniteSet(Uncalled(n)) /\ IsFiniteSet(Uncalled(n) \ {j})
    BY <1>4, <1>6, FS_Subset
  <2> QED
    BY <2>1, <2>2, FS_RemoveElement, FS_CardinalityType
<1>8. CounterTypes'
  <2>1. minuteCount[n] - 1 \in 0..MinuteCap
    BY <1>4, <1>6, <1>7
  <2> QED
    BY <1>1, <1>2, <1>4, <2>1 DEF CounterTypes
<1>9. ASSUME NEW m \in MinutesOf
      PROVE  called'[m] + Cardinality({k \in EnrichJobs : job'[k].at \in {"counted", "refused"} /\ job'[k].minute = m})
                 <= minuteCount'[m]
  <2> DEFINE U == {k \in EnrichJobs : job'[k].at \in {"counted", "refused"} /\ job'[k].minute = m}
  <2>1. U = Uncalled(m) \ {j} /\ (m # n => U = Uncalled(m))
    BY <1>5 DEF Uncalled
  <2>2. minuteCount'[m] = IF m = n THEN minuteCount[m] - 1 ELSE minuteCount[m]
    BY <1>1, <1>2, <1>4 DEF CounterTypes
  <2> HIDE DEF U
  <2>3. called'[m] + Cardinality(U) <= minuteCount'[m]
    <3>1. called'[m] = called[m]
      BY <1>2
    <3>2. CASE m = n
      <4>1. U = Uncalled(n) \ {j} /\ minuteCount'[m] = minuteCount[n] - 1
        BY <2>1, <2>2, <3>2
      <4>2. /\ called[n] \in Nat /\ minuteCount[n] \in Nat /\ Cardinality(Uncalled(n)) \in Nat
            /\ called[n] + Cardinality(Uncalled(n)) <= minuteCount[n]
        BY <1>4, <1>6
      <4> QED
        BY <1>7, <3>1, <3>2, <4>1, <4>2
    <3>3. CASE m # n
      BY <1>6, <2>1, <2>2, <3>1, <3>3
    <3> QED
      BY <3>2, <3>3
  <2> QED
    BY <2>3 DEF U
<1> QED
    BY <1>3, <1>5, <1>8, <1>9 DEF CapsInv, EnrichmentTypeOK, OtherTypes, CounterTypes, Paid, Uncalled

LEMMA CapsNext == CapsInv /\ EnrichmentNext => CapsInv'
<1> SUFFICES ASSUME CapsInv, EnrichmentNext PROVE CapsInv'
    OBVIOUS
<1> USE EnrichmentBounds
<1>1. OtherTypes /\ job \in [EnrichJobs -> JobState]
    BY EnrichmentTypes DEF CapsInv
<1>2. \A j \in EnrichJobs : job[j] \in JobState /\ job[j].verdict \in Verdicts \cup {NoVerdict}
    BY <1>1 DEF JobState
<1>3. ASSUME NEW j \in EnrichJobs, SendEnrich(j) PROVE CapsInv'
  <2>1. To(j, "queued") /\ OtherTypes' /\ UNCHANGED counters
    BY <1>1, <1>3 DEF SendEnrich, OtherTypes, breaker
  <2> QED
    BY <2>1, ToStep DEF Places
<1>4. ASSUME NEW j \in EnrichJobs, ReadFlag(j) PROVE CapsInv'
  <2> DEFINE h == [job[j] EXCEPT !.at = "flagged", !.forced = forceFlag]
  <2>1. job' = [job EXCEPT ![j] = h] /\ OtherTypes' /\ UNCHANGED counters
    BY <1>1, <1>4 DEF ReadFlag, OtherTypes, breaker, answers
  <2>2. h \in JobState /\ h.at = "flagged"
    BY <1>1, <1>2 DEF JobState, Places, OtherTypes
  <2> HIDE DEF h
  <2> QED
    BY <2>1, <2>2, GoesOnWithout
<1>5. ASSUME NEW j \in EnrichJobs, LoadTarget(j) PROVE CapsInv'
  <2>1. OtherTypes' /\ UNCHANGED counters /\ (To(j, "routed") \/ To(j, "done"))
    BY <1>1, <1>5 DEF LoadTarget, OtherTypes, breaker, answers
  <2> QED
    BY <2>1, ToStep DEF Places
<1>6. ASSUME NEW j \in EnrichJobs, SaveResult(j) PROVE CapsInv'
  <2>1. OtherTypes' /\ UNCHANGED counters /\ (To(j, "done") \/ To(j, "saved"))
    BY <1>1, <1>2, <1>6 DEF SaveResult, OtherTypes, breaker
  <2> QED
    BY <2>1, ToStep DEF Places
<1>7. ASSUME NEW j \in EnrichJobs, DeleteFlag(j) PROVE CapsInv'
  <2>1. OtherTypes' /\ UNCHANGED counters /\ To(j, "done")
    BY <1>1, <1>7 DEF DeleteFlag, OtherTypes, breaker, answers
  <2> QED
    BY <2>1, ToStep DEF Places
<1>8. ASSUME NEW j \in EnrichJobs, CheckBreaker(j) PROVE CapsInv'
  <2>1. OtherTypes' /\ UNCHANGED counters /\ (To(j, "result") \/ To(j, "closed"))
    BY <1>1, <1>8 DEF CheckBreaker, OtherTypes, breaker, answers
  <2> QED
    BY <2>1, ToStep DEF Places
<1>9. ASSUME NEW j \in EnrichJobs, LookInCache(j) PROVE CapsInv'
  <2>1. OtherTypes' /\ UNCHANGED counters /\ (WithResult(j, "result", cached) \/ To(j, "uncached"))
    BY <1>1, <1>9 DEF LookInCache, OtherTypes, breaker, answers
  <2> QED
    BY <1>1, <2>1, ToStep, ResultStep DEF Places, OtherTypes
<1>10. ASSUME NEW j \in EnrichJobs, Answer(j) PROVE CapsInv'
  <2>1. OtherTypes' /\ UNCHANGED counters
    BY <1>1, <1>10 DEF Answer, OtherTypes, breaker, answers
  <2>2. \/ \E v \in Verdicts : WithResult(j, "answered", v) \/ WithResult(j, "result", v)
        \/ To(j, "limited") \/ To(j, "result")
    BY <1>10 DEF Answer
  <2> QED
    BY <2>1, <2>2, ToStep, ResultStep DEF Places
<1>11. ASSUME NEW j \in EnrichJobs, CacheResult(j) PROVE CapsInv'
  <2>1. OtherTypes' /\ UNCHANGED counters /\ To(j, "kept")
    BY <1>1, <1>2, <1>11 DEF CacheResult, OtherTypes, breaker
  <2> QED
    BY <2>1, ToStep DEF Places
<1>12. ASSUME NEW j \in EnrichJobs,
              RecordSuccess(j) \/ RecordFailure(j) \/ OpenBreaker(j) \/ ResetFailures(j)
       PROVE  CapsInv'
  <2>1. /\ quotaFails' \in {0, quotaFails, quotaFails + 1} /\ breakerOpen' \in {breakerOpen, TRUE}
        /\ UNCHANGED <<target, forceFlag, minute, counters, answers, enrichCrashes>>
    <3>1. CASE RecordSuccess(j)
      BY <3>1 DEF RecordSuccess
    <3>2. CASE RecordFailure(j)
      BY <3>2 DEF RecordFailure
    <3>3. CASE OpenBreaker(j)
      BY <3>3 DEF OpenBreaker
    <3>4. CASE ResetFailures(j)
      BY <3>4 DEF ResetFailures
    <3> QED
      BY <1>12, <3>1, <3>2, <3>3, <3>4
  <2>3. OtherTypes' /\ UNCHANGED counters
    <3>1. quotaFails \in Nat /\ breakerOpen \in BOOLEAN
      BY <1>1 DEF OtherTypes
    <3>2. quotaFails' \in Nat
      BY <2>1, <3>1, SMT
    <3>3. breakerOpen' \in BOOLEAN
      BY <2>1, <3>1, Zenon
    <3> QED
      BY <1>1, <2>1, <3>2, <3>3 DEF OtherTypes, answers
  <2>2. To(j, "result") \/ To(j, "opening") \/ To(j, "opened")
    BY <1>12 DEF RecordSuccess, RecordFailure, OpenBreaker, ResetFailures
  <2> QED
    BY <2>2, <2>3, ToStep DEF Places
<1>13. CASE TargetChanges
    BY <1>1, <1>13, AtRest DEF TargetChanges, OtherTypes, breaker
<1>14. CASE NextMinute
    BY <1>1, <1>14, AtRest DEF NextMinute, OtherTypes, breaker, answers, MinutesOf
<1>15. CASE KeyExpires
  <2>1. /\ forceFlag' \in {forceFlag, FALSE} /\ cached' \in {cached, NoVerdict}
        /\ quotaFails' \in {quotaFails, 0} /\ breakerOpen' \in {breakerOpen, FALSE}
    BY <1>15 DEF KeyExpires, breaker
  <2>2. UNCHANGED <<target, minute, counters, enriched, job, enrichCrashes>>
    BY <1>15 DEF KeyExpires
  <2>3. OtherTypes'
    <3>1. forceFlag \in BOOLEAN /\ breakerOpen \in BOOLEAN
      BY <1>1 DEF OtherTypes
    <3>2. forceFlag' \in BOOLEAN /\ breakerOpen' \in BOOLEAN
      BY <2>1, <3>1, Zenon
    <3>3. quotaFails' \in Nat /\ cached' \in Verdicts \cup {NoVerdict}
      BY <1>1, <2>1 DEF OtherTypes
    <3> QED
      BY <1>1, <2>2, <3>2, <3>3 DEF OtherTypes
  <2> QED
    BY <2>2, <2>3, AtRest
<1>16. CASE CrashEnrich
  <2>1. OtherTypes' /\ UNCHANGED counters
    BY <1>1, <1>16 DEF CrashEnrich, OtherTypes, breaker, answers
  <2>2. job' = [j \in EnrichJobs |-> IF job[j].at \in {"none", "done"} THEN job[j]
                                    ELSE [NoJobYet EXCEPT !.at = "queued"]]
    BY <1>16 DEF CrashEnrich
  <2>3. [NoJobYet EXCEPT !.at = "queued"] \in JobState /\ [NoJobYet EXCEPT !.at = "queued"].at = "queued"
    <3>1. NoJobYet \in JobState
      BY DEF NoJobYet, JobState, Places, MinutesOf
    <3> QED
      BY <3>1 DEF JobState, Places
  <2>4. \A j \in EnrichJobs : job'[j] \in JobState /\ job'[j].at \in {"none", "done", "queued"}
    BY <1>2, <2>2, <2>3
  <2>5. job' \in [EnrichJobs -> JobState]
    BY <2>2, <2>4
  <2> QED
    BY <2>1, <2>4, <2>5, CountersKept
<1> QED
    BY <1>3, <1>4, <1>5, <1>6, <1>7, <1>8, <1>9, <1>10, <1>11, <1>12, <1>13, <1>14, <1>15, <1>16,
       TakeMinuteStep, TakeDayStep, GiveBackStep
    DEF EnrichmentNext

LEMMA CapsInvNext == CapsInv /\ [EnrichmentNext]_enrichmentVars => CapsInv'
<1>1. CapsInv /\ UNCHANGED enrichmentVars => CapsInv'
    BY DEF enrichmentVars, CapsInv, EnrichmentTypeOK, Paid, Uncalled
<1> QED
    BY <1>1, CapsNext

\* For any jobs, caps and minutes: the counters, the cache, the breaker and the jobs between
\* two of their steps are well formed.
THEOREM EnrichmentTypeCorrect == EnrichmentSpec => []EnrichmentTypeOK
<1>1. CapsInv => EnrichmentTypeOK
    BY DEF CapsInv
<1> QED
    BY <1>1, CapsInit, CapsInvNext, PTL DEF EnrichmentSpec

\* For any number of jobs, any caps and any number of crashes: the provider is called no
\* more often than its cap under any minute that was charged, and what a job gives back
\* it had taken (check_and_consume_quota).
THEOREM CapsCorrect == EnrichmentSpec => []CallsWithinCaps
<1>1. CapsInv => CallsWithinCaps
  <2> SUFFICES ASSUME CapsInv, NEW m \in MinutesOf PROVE called[m] <= MinuteCap
    BY DEF CallsWithinCaps
  <2>1. called[m] \in Nat /\ minuteCount[m] \in 0..MinuteCap /\ Cardinality(Uncalled(m)) \in Nat
    BY UncalledFinite DEF CapsInv, EnrichmentTypeOK
  <2>2. called[m] + Cardinality(Uncalled(m)) <= minuteCount[m]
    BY DEF CapsInv, Paid
  <2> QED
    BY <2>1, <2>2, EnrichmentBounds
<1> QED
    BY CapsInvNext, <1>1, CapsInit, PTL DEF EnrichmentSpec

-----------------------------------------------------------------------------
(* Numbers *)

LEMMA RangeGrows ==
    ASSUME NEW s \in Nat, NEW x \in Nat, NEW y \in Nat, x <= y, NEW n \in 0..(s + x)
    PROVE  n \in 0..(s + y)
    OBVIOUS

LEMMA LeastElement ==
    ASSUME NEW S \in SUBSET Nat, S # {}
    PROVE  \E m \in S : \A k \in S : m <= k
<1> DEFINE less == OpToRel(<, Nat)
<1>1. \E m \in S : \A k \in S : ~ (<<k, m>> \in less)
  <2> HIDE DEF less
  <2>1. IsWellFoundedOn(less, Nat)
    BY NatLessThanWellFounded DEF less
  <2> QED
    BY <2>1, WFMin
<1>2. \A k, m \in Nat : k < m => <<k, m>> \in less
    BY DEF OpToRel
<1> HIDE DEF less
<1>3. PICK m \in S : \A k \in S : ~ (<<k, m>> \in less)
    BY <1>1
<1>4. \A k \in S : ~ (k < m)
    BY <1>2, <1>3
<1> QED
    BY <1>4

LEMMA GreatestElement ==
    ASSUME NEW n \in Nat, NEW S \in SUBSET (1..n), S # {}
    PROVE  \E m \in S : \A k \in S : k <= m
<1> DEFINE T == {n - i : i \in S}
<1>1. T \in SUBSET Nat /\ T # {}
  <2>1. PICK s \in S : n - s \in T
    OBVIOUS
  <2>2. \A k \in S : k \in Nat /\ k <= n
    OBVIOUS
  <2>3. \A k \in S : n - k \in Nat
    BY <2>2
  <2> QED
    BY <2>1, <2>3
<1>2. PICK m \in T : \A k \in T : m <= k
  <2> HIDE DEF T
  <2> QED
    BY <1>1, LeastElement
<1>3. PICK i \in S : m = n - i
    OBVIOUS
<1>4. \A j \in S : m <= n - j
    BY <1>2
<1> QED
    BY <1>3, <1>4

-----------------------------------------------------------------------------
(* Sandbox *)

Asked(r) == \E a \in Attempts : pollMessages[<<r, a>>] > 0
Follows(w, r) == r \in detonator[w].of /\ detonator[w].at \in {"submitted", "polling", "polled"}
Dropped(r) == ~Asked(r) /\ \A w \in Detonators : ~Follows(w, r)

\* One message or one thread sees to a report, and not both.
SeenToOnce(r) ==
    /\ \A a \in Attempts : pollMessages[<<r, a>>] <= 1
    /\ \A a, b \in Attempts : pollMessages[<<r, a>>] > 0 /\ pollMessages[<<r, b>>] > 0 => a = b
    /\ \A v, w \in Detonators : Follows(v, r) /\ Follows(w, r) => v = w
    /\ \A w \in Detonators : Follows(w, r) => ~Asked(r)

\* A report that is not there is nobody's; one that is pending is followed or lost; one that
\* no death repeated is seen to once, and no more when its result is written.
ReportHeld(r) ==
    /\ sandboxReport[r].status = "none" => /\ Dropped(r) /\ r \notin judged
                                           /\ \A w \in Detonators : r \notin detonator[w].of
    /\ sandboxReport[r].status = "pending" => ~Dropped(r) \/ r \in lost
    /\ r \notin repeated => SeenToOnce(r)
    /\ r \in judged \ repeated => sandboxReport[r].status = "complete" /\ Dropped(r)

SandboxShapes ==
    /\ sandboxReport \in [ReportIds -> [status : Final \cup {"none", "pending"}, attempts : 0..PollAttempts]]
    /\ pollMessages \in [ReportIds \X Attempts -> Nat]
    /\ detonator \in [Detonators -> Detonator] /\ judged \subseteq ReportIds
    /\ \A w \in Detonators :
          /\ detonator[w].at \in {"idle", "submitting"} => detonator[w].of = {}
          /\ detonator[w].at \in {"submitted", "polling", "polled"} => detonator[w].of # {}
          /\ detonator[w].at = "polled" => detonator[w].attempt + 1 \in Attempts

SandboxInv == SandboxShapes /\ \A r \in ReportIds : ReportHeld(r)

LEMMA SandboxInitInv == SandboxInit => SandboxInv
<1> SUFFICES ASSUME SandboxInit PROVE SandboxInv
    OBVIOUS
<1> USE SandboxBounds
<1>1. \A r \in ReportIds : sandboxReport[r] = NoReport
    BY DEF SandboxInit
<1>2. \A w \in Detonators : detonator[w] = Unoccupied
    BY DEF SandboxInit
<1>3. \A r \in ReportIds, a \in Attempts : pollMessages[<<r, a>>] = 0
    BY DEF SandboxInit
<1>4. NoReport \in [status : Final \cup {"none", "pending"}, attempts : 0..PollAttempts] /\ Unoccupied \in Detonator
    BY DEF NoReport, Unoccupied, Detonator, Attempts
<1>5. SandboxShapes
    BY <1>1, <1>2, <1>4 DEF SandboxInit, SandboxShapes, Unoccupied
<1>6. \A r \in ReportIds : Dropped(r) /\ \A w \in Detonators : r \notin detonator[w].of
  <2>1. \A w \in Detonators : detonator[w].of = {}
      BY <1>2 DEF Unoccupied
  <2>2. ASSUME NEW r \in ReportIds PROVE ~Asked(r)
    <3>1. ASSUME NEW a \in Attempts PROVE ~(pollMessages[<<r, a>>] > 0)
      <4>1. pollMessages[<<r, a>>] = 0
          BY <1>3
      <4> QED
          BY <4>1
    <3> QED
        BY <3>1 DEF Asked
  <2> QED
      BY <2>1, <2>2 DEF Dropped, Follows
<1>7. \A r \in ReportIds : SeenToOnce(r)
    BY <1>3, <1>6 DEF SeenToOnce, Dropped
<1>8. \A r \in ReportIds : sandboxReport[r].status = "none" /\ r \notin judged
    BY <1>1 DEF SandboxInit, NoReport
<1> QED
    BY <1>5, <1>6, <1>7, <1>8 DEF SandboxInv, ReportHeld

\* A step of thread w that leaves report q, its messages and its threads as they are.
LEMMA LeavesReport ==
    ASSUME NEW q \in ReportIds, ReportHeld(q),
           sandboxReport'[q].status = sandboxReport[q].status,
           \A a \in Attempts : pollMessages'[<<q, a>>] = pollMessages[<<q, a>>],
           \A w \in Detonators : /\ q \in detonator'[w].of => q \in detonator[w].of
                                 /\ Follows(w, q)' <=> Follows(w, q),
           q \in judged' <=> q \in judged, q \in lost => q \in lost', q \in repeated => q \in repeated'
    PROVE  ReportHeld(q)'
<1>1. Asked(q)' <=> Asked(q)
    BY DEF Asked, Attempts
<1>2. Dropped(q)' <=> Dropped(q)
    BY <1>1 DEF Dropped
<1>3. SeenToOnce(q) => SeenToOnce(q)'
    BY <1>1 DEF SeenToOnce, Attempts
<1> QED
    BY <1>2, <1>3 DEF ReportHeld

\* The next row is one of those that are not there yet.
LEMMA NextRowUnused == Unused # {} => NextRow \in Unused
<1> SUFFICES ASSUME Unused # {} PROVE NextRow \in Unused
    OBVIOUS
<1>1. Unused \in SUBSET Nat
    BY SandboxBounds DEF Unused, ReportIds
<1>2. \E r \in Unused : \A q \in Unused : r <= q
  <2> HIDE DEF Unused
  <2> QED
      BY <1>1, LeastElement
<1> QED
    BY <1>2 DEF NextRow

\* A step of one thread that changes nothing of the rows and messages but what concerns one report.
LEMMA ReportMoves ==
    ASSUME SandboxInv, NEW w \in Detonators, NEW d \in Detonator, Becomes(w, d),
           NEW r \in ReportIds,
           d.of \subseteq {r}, detonator[w].of \subseteq {r},
           d.at \in {"idle", "submitting"} => d.of = {},
           d.at \in {"submitted", "polling", "polled"} => d.of # {},
           d.at = "polled" => d.attempt + 1 \in Attempts,
           sandboxReport' \in [ReportIds -> [status : Final \cup {"none", "pending"}, attempts : 0..PollAttempts]],
           pollMessages' \in [ReportIds \X Attempts -> Nat],
           \A q \in ReportIds \ {r} : /\ sandboxReport'[q].status = sandboxReport[q].status
                                      /\ \A a \in Attempts : pollMessages'[<<q, a>>] = pollMessages[<<q, a>>]
                                      /\ q \in judged' <=> q \in judged,
           judged' \subseteq ReportIds, lost \subseteq lost', repeated \subseteq repeated',
           ReportHeld(r)'
    PROVE  SandboxInv'
<1>1. /\ detonator \in [Detonators -> Detonator] /\ detonator' \in [Detonators -> Detonator]
      /\ detonator'[w] = d /\ \A v \in Detonators \ {w} : detonator'[v] = detonator[v]
    BY DEF SandboxInv, SandboxShapes, Becomes
<1>2. SandboxShapes'
    BY <1>1 DEF SandboxInv, SandboxShapes
<1>3. ASSUME NEW q \in ReportIds \ {r} PROVE ReportHeld(q)'
  <2>1. \A v \in Detonators : /\ q \in detonator'[v].of => q \in detonator[v].of
                              /\ Follows(v, q)' <=> Follows(v, q)
      BY <1>1, <1>3 DEF Follows
  <2>2. ReportHeld(q)
      BY <1>3 DEF SandboxInv
  <2> QED
      BY <1>3, <2>1, <2>2, LeavesReport
<1> QED
    BY <1>2, <1>3 DEF SandboxInv

\* What the invariant says of one thread and its report.
LEMMA ThreadShape ==
    ASSUME SandboxInv, NEW w \in Detonators
    PROVE  /\ detonator[w] \in Detonator
           /\ detonator[w].at \in {"submitted", "polling", "polled"} =>
                 \E r \in ReportIds : detonator[w].of = {r} /\ sandboxReport[r].status # "none"
           /\ detonator[w].at = "polled" => detonator[w].attempt + 1 \in Attempts
           /\ detonator[w].of # {} => \E r \in ReportIds : detonator[w].of = {r} /\ sandboxReport[r].status # "none"
<1>1. detonator[w] \in Detonator /\ SandboxShapes /\ \A r \in ReportIds : ReportHeld(r)
    BY DEF SandboxInv, SandboxShapes
<1>2. detonator[w].of # {} => \E r \in ReportIds : detonator[w].of = {r} /\ sandboxReport[r].status # "none"
    BY <1>1 DEF Detonator, ReportHeld
<1> QED
    BY <1>1, <1>2 DEF SandboxShapes

\* A thread that had no report and has none.
LEMMA ThreadMoves ==
    ASSUME SandboxInv, NEW w \in Detonators, NEW d \in Detonator, Becomes(w, d),
           d.of = {}, d.at \in {"idle", "submitting", "finished"},
           detonator[w].at \in {"idle", "submitting", "finished"},
           UNCHANGED <<sandboxReport, pollMessages, judged>>,
           lost \subseteq lost', repeated \subseteq repeated'
    PROVE  SandboxInv'
<1>1. /\ detonator \in [Detonators -> Detonator] /\ detonator' \in [Detonators -> Detonator]
      /\ detonator'[w] = d /\ \A v \in Detonators \ {w} : detonator'[v] = detonator[v]
    BY DEF SandboxInv, SandboxShapes, Becomes
<1>2. SandboxShapes'
    BY <1>1 DEF SandboxInv, SandboxShapes
<1>3. ASSUME NEW q \in ReportIds PROVE ReportHeld(q)'
  <2>1. \A v \in Detonators : /\ q \in detonator'[v].of => q \in detonator[v].of
                              /\ Follows(v, q)' <=> Follows(v, q)
      BY <1>1 DEF Follows
  <2>2. ReportHeld(q)
      BY DEF SandboxInv
  <2> QED
      BY <2>1, <2>2, LeavesReport
<1> QED
    BY <1>2, <1>3 DEF SandboxInv

\* Who follows a report after a step of thread w.
LEMMA FollowersAfter ==
    ASSUME SandboxInv, NEW w \in Detonators, NEW d \in Detonator, Becomes(w, d), NEW r \in ReportIds
    PROVE  /\ \A v \in Detonators \ {w} : (Follows(v, r)' <=> Follows(v, r)) /\ detonator'[v] = detonator[v]
           /\ Follows(w, r)' <=> r \in d.of /\ d.at \in {"submitted", "polling", "polled"}
           /\ detonator'[w] = d
<1>1. detonator'[w] = d /\ \A v \in Detonators \ {w} : detonator'[v] = detonator[v]
    BY DEF SandboxInv, SandboxShapes, Becomes
<1> QED
    BY <1>1 DEF Follows

\* The messages after one is sent.
LEMMA SendsOne ==
    ASSUME SandboxInv, NEW r \in ReportIds, NEW a \in Attempts, Send(r, a)
    PROVE  /\ pollMessages' \in [ReportIds \X Attempts -> Nat]
           /\ pollMessages'[<<r, a>>] = pollMessages[<<r, a>>] + 1
           /\ \A q \in ReportIds, b \in Attempts : <<q, b>> # <<r, a>> => pollMessages'[<<q, b>>] = pollMessages[<<q, b>>]
           /\ Asked(r)'
<1>1. pollMessages \in [ReportIds \X Attempts -> Nat] /\ <<r, a>> \in ReportIds \X Attempts
    BY DEF SandboxInv, SandboxShapes
<1>2. /\ pollMessages' \in [ReportIds \X Attempts -> Nat]
      /\ pollMessages'[<<r, a>>] = pollMessages[<<r, a>>] + 1
      /\ \A q \in ReportIds, b \in Attempts : <<q, b>> # <<r, a>> => pollMessages'[<<q, b>>] = pollMessages[<<q, b>>]
    BY <1>1 DEF Send
<1>3. pollMessages[<<r, a>>] \in Nat
    BY <1>1
<1>4. Asked(r)'
    BY <1>2, <1>3 DEF Asked
<1> QED
    BY <1>2, <1>4

\* A thread hands its report over to a message.
LEMMA HandsOver ==
    ASSUME SandboxInv, NEW w \in Detonators, NEW d \in Detonator, Becomes(w, d),
           NEW r \in ReportIds, NEW a \in Attempts, Send(r, a),
           detonator[w].of = {r}, d.of \subseteq {r}, d.at \in {"idle", "finished"}, d.at = "idle" => d.of = {},
           UNCHANGED <<sandboxReport, judged, lost>>,
           \/ Follows(w, r) /\ repeated' = repeated
           \/ repeated' = repeated \cup {r}
    PROVE  SandboxInv'
<1>1. /\ \A v \in Detonators \ {w} : (Follows(v, r)' <=> Follows(v, r)) /\ detonator'[v] = detonator[v]
      /\ ~Follows(w, r)' /\ detonator'[w] = d
    BY FollowersAfter
<1>2. /\ pollMessages' \in [ReportIds \X Attempts -> Nat]
      /\ pollMessages'[<<r, a>>] = pollMessages[<<r, a>>] + 1
      /\ \A q \in ReportIds, b \in Attempts : <<q, b>> # <<r, a>> => pollMessages'[<<q, b>>] = pollMessages[<<q, b>>]
      /\ Asked(r)'
    BY SendsOne
<1>3. SandboxShapes /\ ReportHeld(r) /\ sandboxReport[r].status # "none"
    BY DEF SandboxInv, ReportHeld
<1>4. \A b \in Attempts : pollMessages[<<r, b>>] \in Nat
    BY <1>3 DEF SandboxShapes
<1>5. ASSUME r \notin repeated'
      PROVE  SeenToOnce(r)' /\ r \notin judged
  <2>1. Follows(w, r) /\ SeenToOnce(r) /\ repeated' = repeated
      BY <1>3, <1>5 DEF ReportHeld
  <2>2. \A b \in Attempts : pollMessages[<<r, b>>] = 0
      BY <1>4, <2>1 DEF SeenToOnce, Asked
  <2>3. \A v \in Detonators : ~Follows(v, r)'
      BY <1>1, <2>1 DEF SeenToOnce
  <2>4. \A b \in Attempts : pollMessages'[<<r, b>>] = IF b = a THEN 1 ELSE 0
      BY <1>2, <2>2
  <2>5. SeenToOnce(r)'
      BY <2>3, <2>4 DEF SeenToOnce
  <2>6. r \notin judged
      BY <1>3, <2>1, <1>5 DEF ReportHeld, Dropped
  <2> QED
      BY <2>5, <2>6
<1>6. ReportHeld(r)'
    BY <1>2, <1>3, <1>5 DEF ReportHeld, Dropped
<1>7. /\ sandboxReport' \in [ReportIds -> [status : Final \cup {"none", "pending"}, attempts : 0..PollAttempts]]
      /\ judged' \subseteq ReportIds
    BY <1>3 DEF SandboxShapes
<1> QED
    BY <1>2, <1>6, <1>7, ReportMoves

\* A thread drops its report, which is not pending any more, or lost.
LEMMA DropsReport ==
    ASSUME SandboxInv, NEW w \in Detonators, NEW d \in Detonator, Becomes(w, d),
           NEW r \in ReportIds, detonator[w].of = {r}, d.of \subseteq {r},
           d.at \in {"idle", "finished"}, d.at = "idle" => d.of = {},
           Follows(w, r), UNCHANGED <<pollMessages, repeated>>, lost \subseteq lost',
           sandboxReport' \in [ReportIds -> [status : Final \cup {"none", "pending"}, attempts : 0..PollAttempts]],
           \A q \in ReportIds \ {r} : sandboxReport'[q] = sandboxReport[q],
           \/ sandboxReport'[r] = sandboxReport[r] /\ r \in lost' /\ judged' = judged
           \/ sandboxReport'[r].status = "complete" /\ judged' = judged \cup {r}
           \/ sandboxReport'[r].status = "timeout" /\ judged' = judged
    PROVE  SandboxInv'
<1>1. /\ \A v \in Detonators \ {w} : (Follows(v, r)' <=> Follows(v, r)) /\ detonator'[v] = detonator[v]
      /\ ~Follows(w, r)' /\ detonator'[w] = d
    BY FollowersAfter
<1>2. SandboxShapes /\ ReportHeld(r) /\ sandboxReport[r].status # "none"
    BY DEF SandboxInv, ReportHeld
<1>3. Asked(r)' <=> Asked(r)
    BY DEF Asked
<1>4. ASSUME r \notin repeated
      PROVE  SeenToOnce(r)' /\ Dropped(r)' /\ r \notin judged
  <2>1. SeenToOnce(r)
      BY <1>2, <1>4 DEF ReportHeld
  <2>2. \A v \in Detonators : ~Follows(v, r)'
      BY <1>1, <2>1 DEF SeenToOnce
  <2>3. ~Asked(r)
      BY <2>1 DEF SeenToOnce
  <2>4. SeenToOnce(r)'
      BY <1>3, <2>1, <2>2 DEF SeenToOnce
  <2>5. r \notin judged
      BY <1>2, <1>4 DEF ReportHeld, Dropped
  <2> QED
      BY <1>3, <2>2, <2>3, <2>4, <2>5 DEF Dropped
<1>5. ReportHeld(r)'
    BY <1>2, <1>4 DEF ReportHeld
<1>6. /\ pollMessages' \in [ReportIds \X Attempts -> Nat]
      /\ judged' \subseteq ReportIds /\ \A q \in ReportIds \ {r} : q \in judged' <=> q \in judged
    BY <1>2 DEF SandboxShapes
<1> QED
    BY <1>5, <1>6, ReportMoves

LEMMA SubmitKeeps == ASSUME SandboxInv, NEW w \in Detonators, Submit(w) PROVE SandboxInv'
<1> USE SandboxBounds
<1>0. PICK r \in ReportIds : r = NextRow /\ r \in Unused
    BY NextRowUnused DEF Submit, Unused
<1>1. PICK s \in {"sample_unavailable", "error", "pending"} :
        /\ sandboxReport' = [sandboxReport EXCEPT ![r].status = s]
        /\ Becomes(w, IF s = "pending" THEN [at |-> "submitted", of |-> {r}, attempt |-> 0]
                      ELSE [Unoccupied EXCEPT !.at = "finished"])
    BY <1>0 DEF Submit
<1>2. /\ detonator[w].at = "submitting" /\ Unused # {}
      /\ UNCHANGED <<pollMessages, lost, repeated, judged>>
    BY DEF Submit, around, past
<1>3. r \in ReportIds /\ sandboxReport[r].status = "none"
    BY <1>0 DEF Unused
<1>4. SandboxShapes /\ ReportHeld(r)
    BY <1>3 DEF SandboxInv
<1>5. detonator[w].of = {}
    BY <1>2, <1>4 DEF SandboxShapes
<1>6. /\ sandboxReport' \in [ReportIds -> [status : Final \cup {"none", "pending"}, attempts : 0..PollAttempts]]
      /\ sandboxReport'[r].status = s
      /\ \A q \in ReportIds \ {r} : sandboxReport'[q] = sandboxReport[q]
    BY <1>1, <1>3, <1>4 DEF SandboxShapes, Final
<1>7. Dropped(r) /\ r \notin judged
    BY <1>3, <1>4 DEF ReportHeld
<1>8. Asked(r)' <=> Asked(r)
    BY <1>2 DEF Asked
<1>9. CASE s = "pending"
  <2> DEFINE d == [at |-> "submitted", of |-> {r}, attempt |-> 0]
  <2>1. d \in Detonator /\ Becomes(w, d)
      BY <1>1, <1>3, <1>9 DEF Detonator, Attempts
  <2>2. d.of = {r} /\ d.at = "submitted"
      OBVIOUS
  <2> HIDE DEF d
  <2>3. /\ \A v \in Detonators \ {w} : Follows(v, r)' <=> Follows(v, r)
        /\ Follows(w, r)'
      BY <1>3, <2>1, <2>2, FollowersAfter
  <2>4. SeenToOnce(r)'
    <3>1. \A v \in Detonators \ {w} : ~Follows(v, r)'
        BY <1>7, <2>3 DEF Dropped
    <3>2. ~Asked(r)'
        BY <1>7, <1>8 DEF Dropped
    <3>3. \A a \in Attempts : pollMessages'[<<r, a>>] <= 1
        BY <1>2, <1>3, <1>4, <3>2 DEF Asked, SandboxShapes
    <3>4. \A a \in Attempts : ~(pollMessages'[<<r, a>>] > 0)
        BY <3>2 DEF Asked
    <3> QED
        BY <3>1, <3>2, <3>3, <3>4 DEF SeenToOnce
  <2>5. ReportHeld(r)'
      BY <1>2, <1>6, <1>7, <1>9, <2>3, <2>4 DEF ReportHeld, Dropped
  <2> QED
      BY <1>2, <1>3, <1>4, <1>5, <1>6, <2>1, <2>2, <2>5, ReportMoves DEF SandboxShapes
<1>10. CASE s # "pending"
  <2> DEFINE d == [Unoccupied EXCEPT !.at = "finished"]
  <2>1. d \in Detonator /\ Becomes(w, d) /\ d.of = {} /\ d.at = "finished"
      BY <1>1, <1>10 DEF Detonator, Unoccupied, Attempts
  <2> HIDE DEF d
  <2>2. /\ \A v \in Detonators \ {w} : Follows(v, r)' <=> Follows(v, r)
        /\ ~Follows(w, r)'
      BY <1>3, <2>1, FollowersAfter
  <2>3. Dropped(r)'
      BY <1>7, <1>8, <2>2 DEF Dropped
  <2>4. SeenToOnce(r)'
    <3>1. \A a \in Attempts : pollMessages'[<<r, a>>] <= 1
        BY <1>2, <1>3, <1>4, <2>3 DEF Dropped, Asked, SandboxShapes
    <3>2. \A a \in Attempts : ~(pollMessages'[<<r, a>>] > 0)
        BY <2>3 DEF Dropped, Asked
    <3> QED
        BY <2>3, <3>1, <3>2 DEF SeenToOnce, Dropped
  <2>5. ReportHeld(r)'
      BY <1>2, <1>6, <1>7, <1>10, <2>3, <2>4 DEF ReportHeld
  <2> QED
      BY <1>2, <1>3, <1>4, <1>5, <1>6, <2>1, <2>5, ReportMoves DEF SandboxShapes
<1> QED
    BY <1>9, <1>10

\* A message becomes a thread, which goes on if the report has not come to an end.
LEMMA TakePollKeeps ==
    ASSUME SandboxInv, NEW w \in Detonators, NEW r \in ReportIds, NEW a \in Attempts, TakePoll(w, r, a)
    PROVE  SandboxInv'
<1> DEFINE d == [at |-> IF sandboxReport[r].status \in Final THEN "finished" ELSE "polling",
                 of |-> {r}, attempt |-> a]
<1>1. /\ detonator[w].at = "idle" /\ pollMessages[<<r, a>>] > 0
      /\ pollMessages' = [pollMessages EXCEPT ![<<r, a>>] = @ - 1]
      /\ Becomes(w, d) /\ UNCHANGED <<sandboxReport, lost, repeated, judged>>
    BY DEF TakePoll, past
<1>2. d \in Detonator /\ d.of = {r} /\ d.at = (IF sandboxReport[r].status \in Final THEN "finished" ELSE "polling")
    BY DEF Detonator
<1> HIDE DEF d
<1>3. SandboxShapes /\ ReportHeld(r) /\ <<r, a>> \in ReportIds \X Attempts
    BY DEF SandboxInv
<1>4. detonator[w].of = {} /\ \A b \in Attempts : pollMessages[<<r, b>>] \in Nat
    BY <1>1, <1>3 DEF SandboxShapes
<1>5. /\ pollMessages' \in [ReportIds \X Attempts -> Nat]
      /\ pollMessages'[<<r, a>>] = pollMessages[<<r, a>>] - 1
      /\ \A q \in ReportIds, b \in Attempts : <<q, b>> # <<r, a>> => pollMessages'[<<q, b>>] = pollMessages[<<q, b>>]
  <2>1. pollMessages \in [ReportIds \X Attempts -> Nat] /\ pollMessages[<<r, a>>] - 1 \in Nat
      BY <1>1, <1>3, <1>4 DEF SandboxShapes
  <2> QED
      BY <1>1, <1>3, <2>1
<1>6. Asked(r)
    BY <1>1 DEF Asked
<1>7. sandboxReport[r].status \in Final \cup {"pending"}
    BY <1>3, <1>6 DEF ReportHeld, Dropped, SandboxShapes
<1>8. /\ \A v \in Detonators \ {w} : (Follows(v, r)' <=> Follows(v, r)) /\ detonator'[v] = detonator[v]
      /\ Follows(w, r)' <=> d.at = "polling"
    BY <1>1, <1>2, FollowersAfter
<1>9. ~Follows(w, r)
    BY <1>4 DEF Follows
<1>10. ASSUME r \notin repeated PROVE SeenToOnce(r)' /\ r \notin judged
  <2>1. SeenToOnce(r)
      BY <1>3, <1>10 DEF ReportHeld
  <2>2. \A b \in Attempts : pollMessages[<<r, b>>] = IF b = a THEN 1 ELSE 0
      BY <1>1, <1>4, <2>1 DEF SeenToOnce
  <2>3. \A b \in Attempts : pollMessages'[<<r, b>>] = 0
      BY <1>5, <2>2
  <2>4. \A v \in Detonators \ {w} : ~Follows(v, r)'
      BY <1>6, <1>8, <2>1 DEF SeenToOnce
  <2>5. ~Asked(r)'
    <3>1. ASSUME NEW b \in Attempts PROVE ~(pollMessages'[<<r, b>>] > 0)
      <4>1. pollMessages'[<<r, b>>] = 0
          BY <2>3
      <4> QED
          BY <4>1
    <3> QED
        BY <3>1 DEF Asked
  <2>6. SeenToOnce(r)'
    <3>1. ASSUME NEW b \in Attempts PROVE pollMessages'[<<r, b>>] <= 1 /\ ~(pollMessages'[<<r, b>>] > 0)
      <4>1. pollMessages'[<<r, b>>] = 0
          BY <2>3
      <4> QED
          BY <4>1
    <3> QED
        BY <2>4, <2>5, <3>1 DEF SeenToOnce
  <2>7. r \notin judged
      BY <1>3, <1>6, <1>10 DEF ReportHeld, Dropped
  <2> QED
      BY <2>6, <2>7
<1>11. sandboxReport[r].status = "pending" => ~Dropped(r)'
    BY <1>2, <1>8 DEF Dropped, Final
<1>12. ReportHeld(r)'
    BY <1>1, <1>7, <1>10, <1>11 DEF ReportHeld, Final
<1>13. /\ sandboxReport' \in [ReportIds -> [status : Final \cup {"none", "pending"}, attempts : 0..PollAttempts]]
       /\ d.at \in {"finished", "polling"} /\ judged' \subseteq ReportIds
    BY <1>1, <1>2, <1>3 DEF SandboxShapes
<1> QED
    BY <1>1, <1>2, <1>4, <1>5, <1>12, <1>13, ReportMoves

LEMMA UnfinishedKeeps == ASSUME SandboxInv, NEW w \in Detonators, Unfinished(w) PROVE SandboxInv'
<1> USE SandboxBounds
<1>1. detonator[w].at = "polling" /\ UNCHANGED <<pollMessages, lost, repeated, judged>>
    BY DEF Unfinished, past
<1>2. PICK r \in ReportIds : detonator[w].of = {r} /\ sandboxReport[r].status # "none"
    BY <1>1, ThreadShape
<1> DEFINE n == detonator[w].attempt + 1
           d == [detonator[w] EXCEPT !.at = IF n >= PollAttempts THEN "finished" ELSE "polled"]
<1>3. /\ sandboxReport' = [sandboxReport EXCEPT ![r].attempts = n,
                                                ![r].status = IF n >= PollAttempts THEN "timeout" ELSE @]
      /\ Becomes(w, d)
    BY <1>2 DEF Unfinished
<1>4. SandboxShapes /\ ReportHeld(r) /\ detonator[w] \in Detonator
    BY DEF SandboxInv, SandboxShapes
<1>5. detonator[w].attempt \in Nat /\ n \in 0..PollAttempts
    BY <1>4 DEF Detonator, Attempts
<1>6. /\ d \in Detonator /\ d.of = {r} /\ d.attempt = detonator[w].attempt
      /\ d.at = IF n >= PollAttempts THEN "finished" ELSE "polled"
    BY <1>2, <1>4 DEF Detonator
<1>7. d.at = "polled" => d.attempt + 1 \in Attempts
    BY <1>5, <1>6 DEF Attempts
<1> HIDE DEF d
<1>8. /\ sandboxReport' \in [ReportIds -> [status : Final \cup {"none", "pending"}, attempts : 0..PollAttempts]]
      /\ sandboxReport'[r].status = IF n >= PollAttempts THEN "timeout" ELSE sandboxReport[r].status
      /\ \A q \in ReportIds \ {r} : sandboxReport'[q] = sandboxReport[q]
  <2>1. sandboxReport[r] \in [status : Final \cup {"none", "pending"}, attempts : 0..PollAttempts]
      BY <1>4 DEF SandboxShapes
  <2>2. [sandboxReport[r] EXCEPT !.attempts = n, !.status = IF n >= PollAttempts THEN "timeout" ELSE @]
            \in [status : Final \cup {"none", "pending"}, attempts : 0..PollAttempts]
      BY <1>5, <2>1 DEF Final
  <2> QED
      BY <1>3, <1>4, <2>2 DEF SandboxShapes
<1>9. CASE n >= PollAttempts
  <2>1. Follows(w, r)
      BY <1>1, <1>2 DEF Follows
  <2> QED
      BY <1>1, <1>2, <1>3, <1>6, <1>8, <1>9, <2>1, DropsReport
<1>10. CASE ~(n >= PollAttempts)
  <2>1. sandboxReport'[r].status = sandboxReport[r].status /\ d.at = "polled"
      BY <1>6, <1>8, <1>10
  <2>2. /\ \A v \in Detonators \ {w} : (Follows(v, r)' <=> Follows(v, r)) /\ detonator'[v] = detonator[v]
        /\ Follows(w, r)' /\ detonator'[w] = d
      BY <1>3, <1>6, <2>1, FollowersAfter
  <2>3. Follows(w, r)
      BY <1>1, <1>2 DEF Follows
  <2>4. ReportHeld(r)'
    <3>1. \A v \in Detonators : /\ r \in detonator'[v].of => r \in detonator[v].of
                                /\ Follows(v, r)' <=> Follows(v, r)
        BY <1>2, <1>6, <2>2, <2>3
    <3> QED
        BY <1>1, <1>4, <2>1, <3>1, LeavesReport
  <2> QED
      BY <1>1, <1>2, <1>3, <1>4, <1>6, <1>7, <1>8, <2>1, <2>4, ReportMoves DEF SandboxShapes
<1> QED
    BY <1>9, <1>10

LEMMA SandboxNextInv == SandboxInv /\ [SandboxNext]_sandboxVars => SandboxInv'
<1> SUFFICES ASSUME SandboxInv, [SandboxNext]_sandboxVars PROVE SandboxInv'
    OBVIOUS
<1> USE SandboxBounds
<1>1. ASSUME UNCHANGED <<sandboxReport, pollMessages, detonator, past>> PROVE SandboxInv'
    BY <1>1 DEF past, SandboxInv, SandboxShapes, ReportHeld, SeenToOnce, Dropped, Asked, Follows
<1>2. CASE SightSample \/ CommitSample \/ \E c \in {"disabled", "enabled"} : UpsertConfig(c)
    BY <1>1, <1>2 DEF SightSample, CommitSample, UpsertConfig
<1>3. CASE UNCHANGED sandboxVars
    BY <1>1, <1>3 DEF sandboxVars
<1>4. ASSUME NEW w \in Detonators, TakeSubmit(w) PROVE SandboxInv'
  <2>1. PICK at \in {"submitting", "finished"} : Becomes(w, [Unoccupied EXCEPT !.at = at])
      BY <1>4 DEF TakeSubmit
  <2>2. [Unoccupied EXCEPT !.at = at] = [at |-> at, of |-> {}, attempt |-> 0]
      BY DEF Unoccupied
  <2>3. [at |-> at, of |-> {}, attempt |-> 0] \in Detonator
      BY DEF Detonator, Attempts
  <2>4. detonator[w].at = "idle" /\ UNCHANGED <<sandboxReport, pollMessages, judged, lost, repeated>>
      BY <1>4 DEF TakeSubmit, past
  <2> QED
      BY <2>1, <2>2, <2>3, <2>4, ThreadMoves
<1>5. ASSUME NEW w \in Detonators, FirstPoll(w) PROVE SandboxInv'
  <2>1. detonator[w].at = "submitted" /\ UNCHANGED <<sandboxReport, judged, lost, repeated>>
      BY <1>5 DEF FirstPoll, past
  <2>2. PICK r \in ReportIds : detonator[w].of = {r}
      BY <2>1, ThreadShape
  <2> DEFINE d == [Unoccupied EXCEPT !.at = "finished"]
  <2>3. d \in Detonator /\ d.of = {} /\ d.at = "finished"
      BY DEF Unoccupied, Detonator, Attempts
  <2>4. Becomes(w, d) /\ Send(r, 0) /\ 0 \in Attempts
      BY <1>5, <2>2 DEF FirstPoll, Attempts
  <2>5. Follows(w, r)
      BY <2>1, <2>2 DEF Follows
  <2> HIDE DEF d
  <2> QED
      BY <2>1, <2>2, <2>3, <2>4, <2>5, HandsOver
<1>6. ASSUME NEW w \in Detonators, NextPoll(w) PROVE SandboxInv'
  <2>1. detonator[w].at = "polled" /\ UNCHANGED <<sandboxReport, judged, lost, repeated>>
      BY <1>6 DEF NextPoll, past
  <2>2. PICK r \in ReportIds : detonator[w].of = {r}
      BY <2>1, ThreadShape
  <2>3. detonator[w] \in Detonator /\ detonator[w].attempt + 1 \in Attempts
      BY <2>1, ThreadShape
  <2> DEFINE d == [detonator[w] EXCEPT !.at = "finished"]
  <2>4. d \in Detonator /\ d.of = {r} /\ d.at = "finished"
      BY <2>2, <2>3 DEF Detonator
  <2>5. Becomes(w, d) /\ Send(r, detonator[w].attempt + 1)
      BY <1>6, <2>2 DEF NextPoll
  <2>6. Follows(w, r)
      BY <2>1, <2>2 DEF Follows
  <2> HIDE DEF d
  <2> QED
      BY <2>1, <2>2, <2>3, <2>4, <2>5, <2>6, HandsOver
<1>7. ASSUME NEW w \in Detonators, WriteResult(w) \/ PollRaises(w) PROVE SandboxInv'
  <2>1. /\ detonator[w].at \in {"submitted", "polling", "polled"}
        /\ UNCHANGED <<pollMessages, repeated>>
      BY <1>7 DEF WriteResult, PollRaises
  <2>2. PICK r \in ReportIds : detonator[w].of = {r} /\ detonator[w] \in Detonator
      BY <2>1, ThreadShape
  <2> DEFINE d == [detonator[w] EXCEPT !.at = "finished"]
  <2>3. d \in Detonator /\ d.of = {r} /\ d.at = "finished" /\ Becomes(w, d)
      BY <1>7, <2>2 DEF Detonator, WriteResult, PollRaises
  <2>4. Follows(w, r)
      BY <2>1, <2>2 DEF Follows
  <2> HIDE DEF d
  <2>5. sandboxReport \in [ReportIds -> [status : Final \cup {"none", "pending"}, attempts : 0..PollAttempts]]
      BY DEF SandboxInv, SandboxShapes
  <2>6. CASE WriteResult(w)
    <3>1. /\ sandboxReport' = [sandboxReport EXCEPT ![r].status = "complete"]
          /\ judged' = judged \cup {r} /\ lost' = lost
        BY <2>2, <2>6 DEF WriteResult
    <3>2. /\ sandboxReport' \in [ReportIds -> [status : Final \cup {"none", "pending"}, attempts : 0..PollAttempts]]
          /\ sandboxReport'[r].status = "complete"
          /\ \A q \in ReportIds \ {r} : sandboxReport'[q] = sandboxReport[q]
        BY <2>5, <3>1 DEF Final
    <3> QED
        BY <2>1, <2>2, <2>3, <2>4, <3>1, <3>2, DropsReport
  <2>7. CASE PollRaises(w)
    <3>1. UNCHANGED <<sandboxReport, judged>> /\ lost' = lost \cup {r}
        BY <2>2, <2>7 DEF PollRaises
    <3> QED
        BY <2>1, <2>2, <2>3, <2>4, <2>5, <3>1, DropsReport
  <2> QED
      BY <1>7, <2>6, <2>7
<1>8. ASSUME NEW w \in Detonators, Acknowledge(w) PROVE SandboxInv'
  <2>1. /\ detonator[w].at = "finished" /\ Becomes(w, Unoccupied)
        /\ UNCHANGED <<sandboxReport, pollMessages, judged, lost, repeated>>
      BY <1>8 DEF Acknowledge, past
  <2>2. Unoccupied \in Detonator /\ Unoccupied.of = {} /\ Unoccupied.at = "idle"
      BY DEF Unoccupied, Detonator, Attempts
  <2> QED
      BY <2>1, <2>2, ThreadMoves
<1>9. ASSUME NEW w \in Detonators, WorkerDies(w) PROVE SandboxInv'
  <2>1. /\ detonator[w].at # "idle" /\ Becomes(w, Unoccupied) /\ UNCHANGED <<sandboxReport, judged>>
      BY <1>9 DEF WorkerDies
  <2>2. Unoccupied \in Detonator /\ Unoccupied.of = {} /\ Unoccupied.at = "idle"
      BY DEF Unoccupied, Detonator, Attempts
  <2>3. detonator[w] \in Detonator
      BY ThreadShape
  <2>4. CASE detonator[w].of = {}
    <3>1. lost' = lost /\ UNCHANGED <<pollMessages, repeated>>
        BY <1>9, <2>4 DEF WorkerDies
    <3>2. detonator[w].at \in {"idle", "submitting", "finished"}
      <4>1. detonator[w].at \in {"idle", "submitting", "submitted", "polling", "polled", "finished"}
          BY <2>3 DEF Detonator
      <4>2. detonator[w].at \notin {"submitted", "polling", "polled"}
          BY <2>4, ThreadShape
      <4> QED
          BY <4>1, <4>2
    <3> QED
        BY <2>1, <2>2, <3>1, <3>2, ThreadMoves
  <2>5. ASSUME NEW r \in ReportIds, detonator[w].of = {r}, detonator[w].at = "submitted" PROVE SandboxInv'
    <3>1. lost' = lost \cup {r} /\ UNCHANGED <<pollMessages, repeated>>
        BY <1>9, <2>5 DEF WorkerDies
    <3>2. Follows(w, r)
        BY <2>5 DEF Follows
    <3>3. sandboxReport \in [ReportIds -> [status : Final \cup {"none", "pending"}, attempts : 0..PollAttempts]]
        BY DEF SandboxInv, SandboxShapes
    <3> QED
        BY <2>1, <2>2, <2>5, <3>1, <3>2, <3>3, DropsReport
  <2>6. ASSUME NEW r \in ReportIds, detonator[w].of = {r}, detonator[w].at # "submitted" PROVE SandboxInv'
    <3>1. Send(r, detonator[w].attempt) /\ repeated' = repeated \cup {r} /\ lost' = lost
        BY <1>9, <2>6 DEF WorkerDies
    <3>2. detonator[w].attempt \in Attempts
        BY <2>3 DEF Detonator
    <3> QED
        BY <2>1, <2>2, <2>6, <3>1, <3>2, HandsOver
  <2> QED
      BY <2>4, <2>5, <2>6, ThreadShape
<1> QED
    BY <1>2, <1>3, <1>4, <1>5, <1>6, <1>7, <1>8, <1>9, SubmitKeeps, TakePollKeeps, UnfinishedKeeps DEF SandboxNext

\* For any samples, threads, attempts and deaths: a report that is pending has a poll on its
\* way, unless an exception or a death took it, and a written result stands unless a poll was
\* delivered twice (workers/sandbox.py).
THEOREM ReportsCorrect == SandboxSpec => []ReportsFollowed
<1>1. SandboxInv => ReportsFollowed
  <2> SUFFICES ASSUME SandboxInv PROVE ReportsFollowed
      OBVIOUS
  <2>1. \A r \in ReportIds : ReportHeld(r)
      BY DEF SandboxInv
  <2>2. ASSUME NEW r \in ReportIds, sandboxReport[r].status = "pending" PROVE Followed(r) \/ r \in lost
      BY <2>1, <2>2 DEF ReportHeld, Dropped, Asked, Follows, Followed
  <2>3. ASSUME NEW r \in judged PROVE sandboxReport[r].status = "complete" \/ r \in repeated
      BY <2>1, <2>3 DEF ReportHeld, SandboxInv, SandboxShapes
  <2> QED
      BY <2>2, <2>3 DEF ReportsFollowed
<1> QED
    BY <1>1, SandboxInitInv, SandboxNextInv, PTL DEF SandboxSpec

-----------------------------------------------------------------------------
(* Sandbox: how many see to a report *)

\* The messages of a report, each attempt's numbered, and the threads that see to it.
Waiting(r) == {m \in Attempts \X Nat : 1 <= m[2] /\ m[2] <= pollMessages[<<r, m[1]>>]}
Following(r) == {w \in Detonators : Follows(w, r)}

\* One sees to a report, and one more for each worker that died.
FewSeeTo(r) ==
    /\ IsFiniteSet(Waiting(r)) /\ IsFiniteSet(Following(r))
    /\ Cardinality(Waiting(r)) + Cardinality(Following(r)) <= 1 + deaths

SandboxCounts ==
    /\ sample \in BOOLEAN /\ config \in {"none", "disabled", "enabled"}
    /\ sightings \in 0..MaxSightings /\ deaths \in 0..MaxDeaths
    /\ submits \in 0..(sightings + deaths)
    /\ lost \subseteq ReportIds /\ repeated \subseteq ReportIds
    /\ \A r \in ReportIds : FewSeeTo(r)

LEMMA AddsAtMostOne ==
    ASSUME NEW S, IsFiniteSet(S), NEW x, NEW T \in SUBSET (S \cup {x})
    PROVE  IsFiniteSet(T) /\ Cardinality(T) \in Nat /\ Cardinality(S) \in Nat /\ Cardinality(T) <= Cardinality(S) + 1
<1>1. IsFiniteSet(S \cup {x}) /\ Cardinality(S \cup {x}) <= Cardinality(S) + 1 /\ Cardinality(S) \in Nat
    BY FS_AddElement, FS_CardinalityType
<1>2. IsFiniteSet(T) /\ Cardinality(T) <= Cardinality(S \cup {x}) /\ Cardinality(T) \in Nat /\ Cardinality(S \cup {x}) \in Nat
    BY <1>1, FS_Subset, FS_CardinalityType
<1> QED
    BY <1>1, <1>2

LEMMA TakesAtLeastOne ==
    ASSUME NEW S, IsFiniteSet(S), NEW x \in S, NEW T \in SUBSET (S \ {x})
    PROVE  IsFiniteSet(T) /\ Cardinality(T) \in Nat /\ Cardinality(S) \in Nat /\ Cardinality(T) <= Cardinality(S) - 1
<1>1. IsFiniteSet(S \ {x}) /\ Cardinality(S \ {x}) = Cardinality(S) - 1 /\ Cardinality(S) \in Nat
    BY FS_RemoveElement, FS_CardinalityType
<1>2. IsFiniteSet(T) /\ Cardinality(T) <= Cardinality(S \ {x}) /\ Cardinality(T) \in Nat
    BY <1>1, FS_Subset, FS_CardinalityType
<1> QED
    BY <1>1, <1>2

LEMMA TakesNone ==
    ASSUME NEW S, IsFiniteSet(S), NEW T \in SUBSET S
    PROVE  IsFiniteSet(T) /\ Cardinality(T) \in Nat /\ Cardinality(S) \in Nat /\ Cardinality(T) <= Cardinality(S)
BY FS_Subset, FS_CardinalityType

\* A step after which no more see to a report, ...
LEMMA NoMoreSeeTo ==
    ASSUME NEW r, FewSeeTo(r), Waiting(r)' \subseteq Waiting(r), Following(r)' \subseteq Following(r),
           deaths \in Nat, deaths' \in Nat, deaths <= deaths'
    PROVE  FewSeeTo(r)'
<1>1. PICK W, W1, F, F1 : W = Waiting(r) /\ W1 = Waiting(r)' /\ F = Following(r) /\ F1 = Following(r)'
    OBVIOUS
<1>2. IsFiniteSet(W) /\ IsFiniteSet(F) /\ W1 \in SUBSET W /\ F1 \in SUBSET F
    BY <1>1 DEF FewSeeTo
<1>3. Cardinality(W) + Cardinality(F) <= 1 + deaths
    BY <1>1 DEF FewSeeTo
<1>4. /\ IsFiniteSet(W1) /\ Cardinality(W1) \in Nat /\ Cardinality(W) \in Nat /\ Cardinality(W1) <= Cardinality(W)
      /\ IsFiniteSet(F1) /\ Cardinality(F1) \in Nat /\ Cardinality(F) \in Nat /\ Cardinality(F1) <= Cardinality(F)
    BY <1>2, TakesNone
<1>5. Cardinality(W1) + Cardinality(F1) <= 1 + deaths'
    BY <1>3, <1>4
<1> QED
    BY <1>1, <1>4, <1>5 DEF FewSeeTo

\* ... in which a message becomes a thread, ...
LEMMA MessageTaken ==
    ASSUME NEW r, FewSeeTo(r), NEW m \in Waiting(r), Waiting(r)' \subseteq Waiting(r) \ {m},
           NEW w, Following(r)' \subseteq Following(r) \cup {w}, deaths \in Nat, deaths' = deaths
    PROVE  FewSeeTo(r)'
<1>1. PICK W, W1, F, F1 : W = Waiting(r) /\ W1 = Waiting(r)' /\ F = Following(r) /\ F1 = Following(r)'
    OBVIOUS
<1>2. IsFiniteSet(W) /\ IsFiniteSet(F) /\ m \in W /\ W1 \in SUBSET (W \ {m}) /\ F1 \in SUBSET (F \cup {w})
    BY <1>1 DEF FewSeeTo
<1>3. Cardinality(W) + Cardinality(F) <= 1 + deaths
    BY <1>1 DEF FewSeeTo
<1>4. /\ IsFiniteSet(W1) /\ Cardinality(W1) \in Nat /\ Cardinality(W) \in Nat /\ Cardinality(W1) <= Cardinality(W) - 1
      /\ IsFiniteSet(F1) /\ Cardinality(F1) \in Nat /\ Cardinality(F) \in Nat /\ Cardinality(F1) <= Cardinality(F) + 1
    BY <1>2, TakesAtLeastOne, AddsAtMostOne
<1>5. Cardinality(W1) + Cardinality(F1) <= 1 + deaths'
    BY <1>3, <1>4
<1> QED
    BY <1>1, <1>4, <1>5 DEF FewSeeTo

\* ... a thread sends a message, ...
LEMMA MessageSent ==
    ASSUME NEW r, FewSeeTo(r), NEW m, Waiting(r)' \subseteq Waiting(r) \cup {m},
           NEW w \in Following(r), Following(r)' \subseteq Following(r) \ {w}, deaths \in Nat, deaths' \in Nat, deaths <= deaths'
    PROVE  FewSeeTo(r)'
<1>1. PICK W, W1, F, F1 : W = Waiting(r) /\ W1 = Waiting(r)' /\ F = Following(r) /\ F1 = Following(r)'
    OBVIOUS
<1>2. IsFiniteSet(W) /\ IsFiniteSet(F) /\ w \in F /\ W1 \in SUBSET (W \cup {m}) /\ F1 \in SUBSET (F \ {w})
    BY <1>1 DEF FewSeeTo
<1>3. Cardinality(W) + Cardinality(F) <= 1 + deaths
    BY <1>1 DEF FewSeeTo
<1>4. /\ IsFiniteSet(W1) /\ Cardinality(W1) \in Nat /\ Cardinality(W) \in Nat /\ Cardinality(W1) <= Cardinality(W) + 1
      /\ IsFiniteSet(F1) /\ Cardinality(F1) \in Nat /\ Cardinality(F) \in Nat /\ Cardinality(F1) <= Cardinality(F) - 1
    BY <1>2, TakesAtLeastOne, AddsAtMostOne
<1>5. Cardinality(W1) + Cardinality(F1) <= 1 + deaths'
    BY <1>3, <1>4
<1> QED
    BY <1>1, <1>4, <1>5 DEF FewSeeTo

\* ... or a message is delivered again.
LEMMA MessageAgain ==
    ASSUME NEW r, FewSeeTo(r), NEW m, Waiting(r)' \subseteq Waiting(r) \cup {m},
           Following(r)' \subseteq Following(r), deaths \in Nat, deaths' = deaths + 1
    PROVE  FewSeeTo(r)'
<1>1. PICK W, W1, F, F1 : W = Waiting(r) /\ W1 = Waiting(r)' /\ F = Following(r) /\ F1 = Following(r)'
    OBVIOUS
<1>2. IsFiniteSet(W) /\ IsFiniteSet(F) /\ W1 \in SUBSET (W \cup {m}) /\ F1 \in SUBSET F
    BY <1>1 DEF FewSeeTo
<1>3. Cardinality(W) + Cardinality(F) <= 1 + deaths
    BY <1>1 DEF FewSeeTo
<1>4. /\ IsFiniteSet(W1) /\ Cardinality(W1) \in Nat /\ Cardinality(W) \in Nat /\ Cardinality(W1) <= Cardinality(W) + 1
      /\ IsFiniteSet(F1) /\ Cardinality(F1) \in Nat /\ Cardinality(F) \in Nat /\ Cardinality(F1) <= Cardinality(F)
    BY <1>2, TakesNone, AddsAtMostOne
<1>5. Cardinality(W1) + Cardinality(F1) <= 1 + deaths'
    BY <1>3, <1>4
<1> QED
    BY <1>1, <1>4, <1>5 DEF FewSeeTo

\* Nobody sees to a report that is not there, and then one thread does.
LEMMA FirstSeesTo ==
    ASSUME NEW r, Waiting(r)' = {}, NEW w, Following(r)' \subseteq {w}, deaths' \in Nat
    PROVE  FewSeeTo(r)'
<1>1. PICK W1, F1 : W1 = Waiting(r)' /\ F1 = Following(r)' /\ F1 \in SUBSET ({} \cup {w})
    OBVIOUS
<1>2. IsFiniteSet({}) /\ Cardinality({}) = 0
    BY FS_EmptySet
<1>3. IsFiniteSet(F1) /\ Cardinality(F1) \in Nat /\ Cardinality(F1) <= Cardinality({}) + 1
    BY <1>1, <1>2, AddsAtMostOne
<1>4. Cardinality(W1) + Cardinality(F1) <= 1 + deaths' /\ IsFiniteSet(W1)
    BY <1>1, <1>2, <1>3
<1> QED
    BY <1>1, <1>3, <1>4 DEF FewSeeTo

\* An attempt has no more messages than the report.
LEMMA MessagesFew ==
    ASSUME NEW r \in ReportIds, NEW a \in Attempts, FewSeeTo(r), pollMessages[<<r, a>>] \in Nat, deaths \in Nat
    PROVE  pollMessages[<<r, a>>] <= 1 + deaths
<1>1. PICK k \in Nat : k = pollMessages[<<r, a>>]
    OBVIOUS
<1> PICK W, F : W = Waiting(r) /\ F = Following(r)
    OBVIOUS
<1>2. IsFiniteSet(W) /\ IsFiniteSet(F) /\ Cardinality(W) + Cardinality(F) <= 1 + deaths
    BY <1>1 DEF FewSeeTo
<1> DEFINE f == [n \in 1..k |-> <<a, n>>]
<1>3. f \in Injection(1..k, W)
  <2>1. \A n \in 1..k : <<a, n>> \in W
      BY <1>1 DEF Waiting
  <2>2. f \in [1..k -> W] /\ \A n \in 1..k : f[n][2] = n
      BY <2>1
  <2> HIDE DEF f
  <2>3. \A m, n \in 1..k : f[m] = f[n] => m = n
      BY <2>2
  <2>4. IsInjective(f)
      BY <2>2, <2>3 DEF IsInjective
  <2> QED
      BY <2>2, <2>4 DEF Injection
<1>4. Cardinality(1..k) <= Cardinality(W) /\ Cardinality(W) \in Nat /\ Cardinality(F) \in Nat
    BY <1>2, <1>3, FS_Injection, FS_CardinalityType
<1>5. Cardinality(1..k) = k
    BY FS_Interval
<1> QED
    BY <1>1, <1>2, <1>4, <1>5

LEMMA SandboxCountsInit == SandboxInit => SandboxCounts
<1> SUFFICES ASSUME SandboxInit PROVE SandboxCounts
    OBVIOUS
<1>1. /\ sample \in BOOLEAN /\ config \in {"none", "disabled", "enabled"}
      /\ sightings = 0 /\ deaths = 0 /\ submits = 0 /\ lost = {} /\ repeated = {}
    BY DEF SandboxInit
<1>2. ASSUME NEW r \in ReportIds PROVE FewSeeTo(r)
  <2>1. \A a \in Attempts : pollMessages[<<r, a>>] = 0
      BY DEF SandboxInit
  <2>2. \A w \in Detonators : detonator[w].of = {}
      BY DEF SandboxInit, Unoccupied
  <2>3. Waiting(r) = {} /\ Following(r) = {}
      BY <2>1, <2>2 DEF Waiting, Following, Follows
  <2>4. IsFiniteSet({}) /\ Cardinality({}) = 0
      BY FS_EmptySet
  <2> QED
      BY <1>1, <2>3, <2>4 DEF FewSeeTo
<1> QED
    BY <1>1, <1>2, SandboxBounds DEF SandboxCounts

\* What a step of one thread leaves of the threads that see to a report.
LEMMA FollowingAfter ==
    ASSUME SandboxInv, NEW w \in Detonators, NEW d \in Detonator, Becomes(w, d), NEW r \in ReportIds
    PROVE  /\ Following(r)' \subseteq Following(r) \cup {w}
           /\ r \notin d.of \/ d.at \notin {"submitted", "polling", "polled"} => Following(r)' \subseteq Following(r) \ {w}
           /\ r \in detonator[w].of /\ detonator[w].at \in {"submitted", "polling", "polled"} => w \in Following(r)
<1>1. /\ \A v \in Detonators \ {w} : Follows(v, r)' <=> Follows(v, r)
      /\ Follows(w, r)' <=> r \in d.of /\ d.at \in {"submitted", "polling", "polled"}
    BY FollowersAfter
<1>2. r \in detonator[w].of /\ detonator[w].at \in {"submitted", "polling", "polled"} => w \in Following(r)
    BY DEF Following, Follows
<1>3. Following(r)' \subseteq Following(r) \cup {w}
    BY <1>1 DEF Following
<1>4. ~Follows(w, r)' => Following(r)' \subseteq Following(r) \ {w}
    BY <1>1 DEF Following
<1> QED
    BY <1>1, <1>2, <1>3, <1>4

\* A thread that sends a message of a report.
LEMMA WaitingAfter ==
    ASSUME SandboxInv, NEW r \in ReportIds, NEW a \in Attempts, Send(r, a)
    PROVE  /\ \A q \in ReportIds \ {r} : Waiting(q)' = Waiting(q)
           /\ \E m : Waiting(r)' \subseteq Waiting(r) \cup {m}
<1>1. /\ pollMessages'[<<r, a>>] = pollMessages[<<r, a>>] + 1
      /\ \A q \in ReportIds, b \in Attempts : <<q, b>> # <<r, a>> => pollMessages'[<<q, b>>] = pollMessages[<<q, b>>]
    BY SendsOne
<1>2. ASSUME NEW q \in ReportIds \ {r} PROVE Waiting(q)' = Waiting(q)
  <2>1. \A b \in Attempts : pollMessages'[<<q, b>>] = pollMessages[<<q, b>>]
      BY <1>1
  <2> QED
      BY <2>1 DEF Waiting
<1>3. Waiting(r)' \subseteq Waiting(r) \cup {<<a, pollMessages[<<r, a>>] + 1>>}
  <2>1. PICK k \in Nat : k = pollMessages[<<r, a>>]
      BY DEF SandboxInv, SandboxShapes
  <2>2. ASSUME NEW m \in Waiting(r)', m \notin Waiting(r) PROVE m = <<a, k + 1>>
    <3>1. PICK b \in Attempts, n \in Nat : m = <<b, n>> /\ 1 <= n /\ n <= pollMessages'[<<r, b>>]
        BY <2>2 DEF Waiting
    <3>2. ~(n <= pollMessages[<<r, b>>])
        BY <2>2, <3>1 DEF Waiting
    <3>3. CASE b = a
        BY <1>1, <2>1, <3>1, <3>2, <3>3
    <3>4. CASE b # a
      <4>1. pollMessages'[<<r, b>>] = pollMessages[<<r, b>>]
          BY <1>1, <3>4
      <4> QED
          BY <3>1, <3>2, <4>1
    <3> QED
        BY <3>3, <3>4
  <2> QED
      BY <2>1, <2>2
<1> QED
    BY <1>2, <1>3

\* A step of one thread that sends nothing, nor takes a message.
LEMMA ThreadCounts ==
    ASSUME SandboxInv, SandboxCounts, NEW w \in Detonators, NEW d \in Detonator, Becomes(w, d),
           UNCHANGED <<around, pollMessages, repeated>>,
           submits' \in 0..(sightings' + deaths'), deaths' \in 0..MaxDeaths, deaths <= deaths',
           lost' \subseteq ReportIds,
           \A r \in d.of : r \in ReportIds => d.at \notin {"submitted", "polling", "polled"} \/ w \in Following(r)
    PROVE  SandboxCounts'
<1>1. UNCHANGED <<sample, config, sightings>>
    BY DEF around
<1>2. ASSUME NEW r \in ReportIds PROVE FewSeeTo(r)'
  <2>1. Waiting(r)' = Waiting(r)
      BY DEF Waiting
  <2>2. Following(r)' \subseteq Following(r)
      BY FollowingAfter
  <2>3. FewSeeTo(r) /\ deaths \in Nat /\ deaths' \in Nat
      BY SandboxBounds DEF SandboxCounts
  <2> QED
      BY <2>1, <2>2, <2>3, NoMoreSeeTo
<1> QED
    BY <1>1, <1>2 DEF SandboxCounts

LEMMA TakeSubmitCounts == ASSUME SandboxInv, SandboxCounts, NEW w \in Detonators, TakeSubmit(w) PROVE SandboxCounts'
<1>1. PICK at \in {"submitting", "finished"} : Becomes(w, [Unoccupied EXCEPT !.at = at])
    BY DEF TakeSubmit
<1>2. PICK d : d = [Unoccupied EXCEPT !.at = at]
    OBVIOUS
<1>3. d \in Detonator /\ d.of = {} /\ Becomes(w, d)
    BY <1>1, <1>2, SandboxBounds DEF Detonator, Unoccupied, Attempts
<1>4. submits' \in 0..(sightings' + deaths')
    BY SandboxBounds DEF TakeSubmit, SandboxCounts, around
<1> QED
    BY <1>3, <1>4, ThreadCounts, SandboxBounds DEF TakeSubmit, past, SandboxCounts

LEMMA SubmitCounts == ASSUME SandboxInv, SandboxCounts, NEW w \in Detonators, Submit(w) PROVE SandboxCounts'
<1> USE SandboxBounds
<1>1. PICK r \in ReportIds : r = NextRow /\ r \in Unused
    BY NextRowUnused DEF Submit, Unused
<1>2. /\ \/ Becomes(w, [at |-> "submitted", of |-> {r}, attempt |-> 0])
         \/ Becomes(w, [Unoccupied EXCEPT !.at = "finished"])
      /\ UNCHANGED <<around, deaths, submits, pollMessages, lost, repeated>>
    BY <1>1 DEF Submit, past
<1>3. ReportHeld(r) /\ sandboxReport[r].status = "none"
    BY <1>1 DEF Unused, SandboxInv
<1>4. CASE Becomes(w, [Unoccupied EXCEPT !.at = "finished"])
  <2>1. PICK d : d = [Unoccupied EXCEPT !.at = "finished"]
      OBVIOUS
  <2>2. d \in Detonator /\ d.of = {} /\ Becomes(w, d)
      BY <1>4, <2>1 DEF Detonator, Unoccupied, Attempts
  <2>3. /\ submits' \in 0..(sightings' + deaths') /\ deaths' \in 0..MaxDeaths /\ deaths <= deaths'
        /\ lost' \subseteq ReportIds
      BY <1>2 DEF SandboxCounts, around
  <2> QED
      BY <1>2, <2>2, <2>3, ThreadCounts
<1>5. CASE Becomes(w, [at |-> "submitted", of |-> {r}, attempt |-> 0])
  <2>0. [at |-> "submitted", of |-> {r}, attempt |-> 0] \in Detonator
      BY DEF Detonator, Attempts
  <2>1. PICK d \in Detonator : d = [at |-> "submitted", of |-> {r}, attempt |-> 0]
      BY <2>0
  <2>2. Becomes(w, d) /\ d.of = {r}
      BY <1>5, <2>1
  <2>3. ASSUME NEW q \in ReportIds PROVE FewSeeTo(q)'
    <3>1. Waiting(q)' = Waiting(q) /\ FewSeeTo(q) /\ deaths \in Nat
        BY <1>2 DEF Waiting, SandboxCounts
    <3>2. CASE q = r
      <4>1. \A a \in Attempts : pollMessages[<<r, a>>] \in Nat /\ ~(pollMessages[<<r, a>>] > 0)
          BY <1>3 DEF ReportHeld, Dropped, Asked, SandboxInv, SandboxShapes
      <4>2. Waiting(r) = {}
          BY <4>1 DEF Waiting
      <4>3. Following(r) = {}
          BY <1>3 DEF ReportHeld, Dropped, Following
      <4>4. Following(r)' \subseteq {w}
          BY <2>2, <4>3, FollowingAfter
      <4> QED
          BY <1>2, <3>1, <3>2, <4>2, <4>4, FirstSeesTo
    <3>3. CASE q # r
      <4>1. Following(q)' \subseteq Following(q)
          BY <2>2, <3>3, FollowingAfter
      <4> QED
          BY <1>2, <3>1, <4>1, NoMoreSeeTo
    <3> QED
        BY <3>2, <3>3
  <2> QED
      BY <1>2, <2>3 DEF SandboxCounts, around
<1> QED
    BY <1>2, <1>4, <1>5

LEMMA TakePollCounts ==
    ASSUME SandboxInv, SandboxCounts, NEW w \in Detonators, NEW r \in ReportIds, NEW a \in Attempts, TakePoll(w, r, a)
    PROVE  SandboxCounts'
<1>1. PICK d \in Detonator : d = [at |-> IF sandboxReport[r].status \in Final THEN "finished" ELSE "polling",
                                 of |-> {r}, attempt |-> a]
  <2>1. ASSUME NEW at \in {"finished", "polling"} PROVE [at |-> at, of |-> {r}, attempt |-> a] \in Detonator
      BY DEF Detonator
  <2> QED
      BY <2>1
<1>2. /\ pollMessages[<<r, a>>] > 0 /\ pollMessages' = [pollMessages EXCEPT ![<<r, a>>] = @ - 1]
      /\ Becomes(w, d) /\ d.of = {r} /\ UNCHANGED <<around, deaths, submits, lost, repeated>>
    BY <1>1 DEF TakePoll, past
<1>3. PICK k \in Nat : k = pollMessages[<<r, a>>] /\ pollMessages'[<<r, a>>] = k - 1 /\ k > 0
    BY <1>2 DEF SandboxInv, SandboxShapes
<1>4. \A q \in ReportIds, b \in Attempts : <<q, b>> # <<r, a>> => pollMessages'[<<q, b>>] = pollMessages[<<q, b>>]
    BY <1>2 DEF SandboxInv, SandboxShapes
<1>5. ASSUME NEW q \in ReportIds PROVE FewSeeTo(q)'
  <2>1. FewSeeTo(q) /\ deaths \in Nat /\ deaths' = deaths
      BY <1>2, SandboxBounds DEF SandboxCounts
  <2>2. CASE q = r
    <3>1. <<a, k>> \in Waiting(r)
        BY <1>3 DEF Waiting
    <3>2. ASSUME NEW m \in Waiting(r)' PROVE m \in Waiting(r) /\ m # <<a, k>>
      <4>1. PICK b \in Attempts, n \in Nat : m = <<b, n>> /\ 1 <= n /\ n <= pollMessages'[<<r, b>>]
          BY <3>2 DEF Waiting
      <4>2. CASE b = a
          BY <1>3, <4>1, <4>2 DEF Waiting
      <4>3. CASE b # a
        <5>1. pollMessages'[<<r, b>>] = pollMessages[<<r, b>>]
            BY <1>4, <4>3
        <5> QED
            BY <4>1, <4>3, <5>1 DEF Waiting
      <4> QED
          BY <4>2, <4>3
    <3>3. Waiting(r)' \subseteq Waiting(r) \ {<<a, k>>}
        BY <3>2
    <3>4. Following(r)' \subseteq Following(r) \cup {w}
        BY <1>2, FollowingAfter
    <3> QED
        BY <2>1, <2>2, <3>1, <3>3, <3>4, MessageTaken
  <2>3. CASE q # r
    <3>1. \A b \in Attempts : pollMessages'[<<q, b>>] = pollMessages[<<q, b>>]
        BY <1>4, <2>3
    <3>2. Waiting(q)' = Waiting(q)
        BY <3>1 DEF Waiting
    <3>3. Following(q)' \subseteq Following(q)
        BY <1>2, <2>3, FollowingAfter
    <3> QED
        BY <2>1, <3>2, <3>3, NoMoreSeeTo
  <2> QED
      BY <2>2, <2>3
<1> QED
    BY <1>2, <1>5 DEF SandboxCounts, around

\* A thread hands its report over to a message, or, when it dies, has it delivered again.
LEMMA SendCounts ==
    ASSUME SandboxInv, SandboxCounts, NEW w \in Detonators, NEW d \in Detonator, Becomes(w, d),
           NEW r \in ReportIds, NEW a \in Attempts, Send(r, a), d.at \in {"idle", "finished"},
           detonator[w].of = {r}, UNCHANGED <<around, submits, lost>>, repeated' \subseteq ReportIds,
           deaths' \in 0..MaxDeaths,
           \/ deaths' = deaths /\ detonator[w].at \in {"submitted", "polling", "polled"}
           \/ deaths' = deaths + 1
    PROVE  SandboxCounts'
<1> USE SandboxBounds
<1>1. deaths \in Nat /\ deaths' \in Nat /\ deaths <= deaths' /\ sightings \in Nat /\ submits \in 0..(sightings + deaths)
    BY DEF SandboxCounts
<1>2. ASSUME NEW q \in ReportIds PROVE FewSeeTo(q)'
  <2>1. FewSeeTo(q) /\ Following(q)' \subseteq Following(q) \ {w}
      BY FollowingAfter DEF SandboxCounts
  <2>2. CASE q # r
      BY <1>1, <2>1, <2>2, WaitingAfter, NoMoreSeeTo
  <2>3. CASE q = r
    <3>1. PICK m : Waiting(r)' \subseteq Waiting(r) \cup {m}
        BY WaitingAfter
    <3>2. CASE deaths' = deaths + 1
        BY <1>1, <2>1, <2>3, <3>1, <3>2, MessageAgain
    <3>3. CASE detonator[w].at \in {"submitted", "polling", "polled"}
      <4>1. w \in Following(r)
          BY <3>3 DEF Following, Follows
      <4> QED
          BY <1>1, <2>1, <2>3, <3>1, <4>1, MessageSent
    <3> QED
        BY <3>2, <3>3
  <2> QED
      BY <2>2, <2>3
<1>3. UNCHANGED <<sample, config, sightings, submits>>
    BY DEF around
<1>4. submits' \in 0..(sightings' + deaths')
  <2>1. submits \in 0..(sightings + deaths')
      BY <1>1, RangeGrows
  <2> QED
      BY <1>3, <2>1
<1> QED
    BY <1>2, <1>3, <1>4 DEF SandboxCounts

LEMMA DiesCounts == ASSUME SandboxInv, SandboxCounts, NEW w \in Detonators, WorkerDies(w) PROVE SandboxCounts'
<1> USE SandboxBounds
<1>1. Unoccupied \in Detonator /\ Unoccupied.at = "idle" /\ Unoccupied.of = {}
    BY DEF Unoccupied, Detonator, Attempts
<1>2. PICK d \in Detonator : d = Unoccupied /\ d.at = "idle" /\ d.of = {}
    BY <1>1
<1>3. /\ Becomes(w, d) /\ deaths' = deaths + 1 /\ deaths' \in 0..MaxDeaths /\ UNCHANGED around
      /\ detonator[w].at # "idle" /\ detonator[w] \in Detonator
    BY <1>2 DEF WorkerDies, SandboxCounts, SandboxInv, SandboxShapes
<1>4. /\ deaths \in Nat /\ sightings \in Nat /\ submits \in 0..(sightings + deaths) /\ sightings' = sightings
      /\ lost \subseteq ReportIds /\ repeated \subseteq ReportIds
    BY <1>3 DEF SandboxCounts, around
<1>5. detonator[w].of \subseteq ReportIds /\ detonator[w].attempt \in Attempts
    BY <1>3 DEF Detonator
<1>6. CASE detonator[w].of = {} \/ detonator[w].at = "submitted"
  <2>1. submits' = submits + 1 /\ lost' = lost \cup detonator[w].of /\ UNCHANGED <<pollMessages, repeated>>
      BY <1>6 DEF WorkerDies
  <2>2. submits' \in 0..(sightings' + deaths') /\ deaths <= deaths'
      BY <1>3, <1>4, <2>1
  <2> QED
      BY <1>2, <1>3, <1>4, <1>5, <2>1, <2>2, ThreadCounts
<1>7. CASE ~(detonator[w].of = {} \/ detonator[w].at = "submitted")
  <2>1. PICK r \in ReportIds : detonator[w].of = {r}
      BY <1>7, ThreadShape
  <2>2. /\ Send(r, detonator[w].attempt) /\ repeated' = repeated \cup {r} /\ UNCHANGED <<submits, lost>>
      BY <1>7, <2>1 DEF WorkerDies
  <2> QED
      BY <1>2, <1>3, <1>4, <1>5, <2>1, <2>2, SendCounts
<1> QED
    BY <1>6, <1>7

LEMMA SandboxCountsNext == SandboxInv /\ SandboxCounts /\ [SandboxNext]_sandboxVars => SandboxCounts'
<1> SUFFICES ASSUME SandboxInv, SandboxCounts, [SandboxNext]_sandboxVars PROVE SandboxCounts'
    OBVIOUS
<1> USE SandboxBounds
<1>1. ASSUME UNCHANGED <<pollMessages, detonator, deaths, lost, repeated>>,
             sample' \in BOOLEAN, config' \in {"none", "disabled", "enabled"},
             sightings' \in 0..MaxSightings, submits' \in 0..(sightings' + deaths)
      PROVE  SandboxCounts'
  <2>1. \A r \in ReportIds : FewSeeTo(r)'
      BY <1>1 DEF SandboxCounts, FewSeeTo, Waiting, Following, Follows
  <2> QED
      BY <1>1, <2>1 DEF SandboxCounts
<1>2. CASE SightSample
    BY <1>1, <1>2 DEF SightSample, SandboxCounts, past
<1>3. CASE CommitSample
    BY <1>1, <1>3 DEF CommitSample, SandboxCounts, past
<1>4. ASSUME NEW c \in {"disabled", "enabled"}, UpsertConfig(c) PROVE SandboxCounts'
    BY <1>1, <1>4 DEF UpsertConfig, SandboxCounts, past
<1>5. CASE UNCHANGED sandboxVars
    BY <1>1, <1>5 DEF sandboxVars, around, past, SandboxCounts
<1>6. /\ submits \in 0..(sightings + deaths) /\ deaths \in 0..MaxDeaths /\ deaths <= deaths
      /\ lost \subseteq ReportIds /\ repeated \subseteq ReportIds
    BY DEF SandboxCounts
\* A thread finishes, loses its report, or goes on with it.
<1>7. ASSUME NEW w \in Detonators, NEW at \in {"finished", "polled"}, detonator[w].at # "idle",
             Becomes(w, [detonator[w] EXCEPT !.at = at]),
             UNCHANGED <<around, deaths, submits, pollMessages, repeated>>, lost' \subseteq ReportIds,
             at = "polled" => detonator[w].at = "polling"
      PROVE  SandboxCounts'
  <2>1. PICK d : d = [detonator[w] EXCEPT !.at = at]
      OBVIOUS
  <2>2. d \in Detonator /\ d.at = at /\ d.of = detonator[w].of /\ Becomes(w, d)
      BY <1>7, <2>1 DEF SandboxInv, SandboxShapes, Detonator
  <2>3. \A r \in d.of : r \in ReportIds => d.at \notin {"submitted", "polling", "polled"} \/ w \in Following(r)
      BY <1>7, <2>2 DEF Following, Follows
  <2>4. submits' \in 0..(sightings' + deaths') /\ deaths' \in 0..MaxDeaths /\ deaths <= deaths'
      BY <1>6, <1>7 DEF around
  <2> QED
      BY <1>7, <2>2, <2>3, <2>4, ThreadCounts
<1>8. ASSUME NEW w \in Detonators, Unfinished(w) PROVE SandboxCounts'
  <2>1. PICK at \in {"finished", "polled"} : Becomes(w, [detonator[w] EXCEPT !.at = at])
      BY <1>8 DEF Unfinished
  <2> QED
      BY <1>6, <1>7, <1>8, <2>1 DEF Unfinished, past
<1>9. ASSUME NEW w \in Detonators, WriteResult(w) PROVE SandboxCounts'
    BY <1>6, <1>7, <1>9 DEF WriteResult
<1>10. ASSUME NEW w \in Detonators, PollRaises(w) PROVE SandboxCounts'
  <2>1. detonator[w].of \subseteq ReportIds
      BY DEF SandboxInv, SandboxShapes, Detonator
  <2> QED
      BY <1>6, <1>7, <1>10, <2>1 DEF PollRaises
<1>11. ASSUME NEW w \in Detonators, NEW at \in {"idle", "finished"}, Becomes(w, [Unoccupied EXCEPT !.at = at]),
              UNCHANGED <<around, deaths, submits, pollMessages, repeated, lost>>
       PROVE  SandboxCounts'
  <2>1. PICK d : d = [Unoccupied EXCEPT !.at = at]
      OBVIOUS
  <2>2. d \in Detonator /\ d.of = {} /\ Becomes(w, d)
      BY <1>11, <2>1 DEF Unoccupied, Detonator, Attempts
  <2>3. submits' \in 0..(sightings' + deaths') /\ deaths' \in 0..MaxDeaths /\ deaths <= deaths' /\ lost' \subseteq ReportIds
      BY <1>6, <1>11 DEF around
  <2> QED
      BY <1>11, <2>2, <2>3, ThreadCounts
<1>12. ASSUME NEW w \in Detonators, Acknowledge(w) PROVE SandboxCounts'
  <2>1. Unoccupied = [Unoccupied EXCEPT !.at = "idle"]
      BY DEF Unoccupied
  <2> QED
      BY <1>11, <1>12, <2>1 DEF Acknowledge, past
<1>13. ASSUME NEW w \in Detonators, FirstPoll(w) PROVE SandboxCounts'
  <2>1. PICK d : d = [Unoccupied EXCEPT !.at = "finished"]
      OBVIOUS
  <2>2. d \in Detonator /\ d.at = "finished" /\ Becomes(w, d)
      BY <1>13, <2>1 DEF FirstPoll, Unoccupied, Detonator, Attempts
  <2>3. PICK r \in ReportIds : detonator[w].of = {r}
      BY <1>13, ThreadShape DEF FirstPoll
  <2>4. /\ detonator[w].at = "submitted" /\ Send(r, 0) /\ 0 \in Attempts
        /\ UNCHANGED <<around, deaths, submits, lost, repeated>>
      BY <1>13, <2>3 DEF FirstPoll, Attempts, past
  <2> QED
      BY <1>6, <2>2, <2>3, <2>4, SendCounts
<1>14. ASSUME NEW w \in Detonators, NextPoll(w) PROVE SandboxCounts'
  <2>1. PICK d : d = [detonator[w] EXCEPT !.at = "finished"]
      OBVIOUS
  <2>2. d \in Detonator /\ d.at = "finished" /\ Becomes(w, d)
      BY <1>14, <2>1 DEF NextPoll, SandboxInv, SandboxShapes, Detonator
  <2>3. PICK r \in ReportIds : detonator[w].of = {r}
      BY <1>14, ThreadShape DEF NextPoll
  <2>4. /\ detonator[w].at = "polled" /\ Send(r, detonator[w].attempt + 1) /\ detonator[w].attempt + 1 \in Attempts
        /\ UNCHANGED <<around, deaths, submits, lost, repeated>>
      BY <1>14, <2>3, ThreadShape DEF NextPoll, past
  <2> QED
      BY <1>6, <2>2, <2>3, <2>4, SendCounts
<1> QED
    BY <1>2, <1>3, <1>4, <1>5, <1>8, <1>9, <1>10, <1>12, <1>13, <1>14,
       TakeSubmitCounts, SubmitCounts, TakePollCounts, DiesCounts DEF SandboxNext

LEMMA SandboxTyped == SandboxInv /\ SandboxCounts => SandboxTypeOK
<1> SUFFICES ASSUME SandboxInv, SandboxCounts PROVE SandboxTypeOK
    OBVIOUS
<1> USE SandboxBounds
<1>1. SandboxShapes /\ \A r \in ReportIds : ReportHeld(r)
    BY DEF SandboxInv
<1>2. submits \in 0..(MaxSightings + MaxDeaths)
    BY DEF SandboxCounts
<1>3. pollMessages \in [ReportIds \X Attempts -> 0..(1 + MaxDeaths)]
  <2>1. ASSUME NEW m \in ReportIds \X Attempts PROVE pollMessages[m] \in 0..(1 + MaxDeaths)
    <3>1. PICK r \in ReportIds, a \in Attempts : m = <<r, a>>
        OBVIOUS
    <3>2. pollMessages[<<r, a>>] \in Nat /\ FewSeeTo(r) /\ deaths \in Nat /\ deaths <= MaxDeaths
        BY <1>1 DEF SandboxShapes, SandboxCounts
    <3>3. pollMessages[<<r, a>>] <= 1 + deaths
        BY <3>2, MessagesFew
    <3> QED
        BY <3>1, <3>2, <3>3
  <2> QED
      BY <1>1, <2>1 DEF SandboxShapes
<1>4. /\ \A w \in Detonators : \A r \in detonator[w].of : sandboxReport[r].status # "none"
      /\ \A r \in ReportIds, a \in Attempts : pollMessages[<<r, a>>] > 0 => sandboxReport[r].status # "none"
  <2>1. \A w \in Detonators : detonator[w].of \subseteq ReportIds
      BY <1>1 DEF SandboxShapes, Detonator
  <2> QED
      BY <1>1, <2>1 DEF ReportHeld, Dropped, Asked
<1> QED
    BY <1>1, <1>2, <1>3, <1>4 DEF SandboxTypeOK, SandboxShapes, SandboxCounts

\* For any threads, attempts, rows and deaths the rows, the messages and the threads are well
\* formed; no poll has more messages than one and one for each worker that died.
THEOREM SandboxTypeCorrect == SandboxSpec => []SandboxTypeOK
    BY SandboxTyped, SandboxInitInv, SandboxNextInv, SandboxCountsInit, SandboxCountsNext, PTL DEF SandboxSpec

-----------------------------------------------------------------------------
(* Ingest *)

Lockable == {Nothing} \cup {EventKey(x) : x \in Event} \cup {SourceRow(s) : s \in Sources}
                      \cup {IocRow(x, i) : x \in Event, i \in Indicators}

PollRecord == [at : {"idle", "insert", "bump", "ioc", "finish"}, to : 0..(MaxItems + 1),
               unseen : SUBSET (1..(MaxItems + 1)), left : SUBSET Event,
               row : Event \cup {<<>>}, iocs : SUBSET Indicators,
               wants : Lockable, wrote : SUBSET Event, locks : SUBSET Lockable]

\* The rows a poll has written and those it has still to write.
Has(p) == p.wrote \cup p.left \cup {x \in {p.row} : p.at = "insert"}

\* All of them are of its source, whose row it asks for at last.
OnSource(p, s) ==
    /\ \A x \in p.left : x[2] = s
    /\ p.at \in {"insert", "bump", "ioc"} => p.row \in Event /\ p.row[2] = s
    /\ p.at = "finish" => p.left = {} /\ p.wants = SourceRow(s)

\* With the cursor at "to" and the rows given, every item up to it is there, or was passed
\* unseen, then or before.
Justifies(s, to, rows, unseen) ==
    to # 0 /\ HasCursor(s) =>
        \A i \in Items : i <= to /\ <<s, i>> \notin malformed =>
            \/ \A p \in ProjectsOf(s) : <<p, s, i>> \in rows
            \/ i \in passed[s] \cup unseen

\* What a poll will store is justified by what is committed and what it writes.
Justified(p, s) == Justifies(s, p.to, events \cup Has(p), p.unseen)

IngestRows ==
    /\ kind \in [Sources -> Kinds]
    /\ feed \in [Sources -> 0..MaxItems] /\ events \subseteq Event
    /\ cursor \in [Sources -> 0..(MaxItems + 1)]
    /\ passed \in [Sources -> SUBSET (1..(MaxItems + 1))]
    /\ poll \in [Pollers -> PollRecord]

\* The cursors are justified by what is committed, and so are those of the polls.
IngestInv ==
    /\ IngestRows
    /\ \A s \in Sources : Justifies(s, cursor[s], events, {})
    /\ \A w \in Pollers : poll[w].at # "idle" =>
          \E s \in Sources : OnSource(poll[w], s) /\ Justified(poll[w], s)

LEMMA Lockables ==
    /\ Nothing \in Lockable
    /\ \A x \in Event : EventKey(x) \in Lockable
    /\ \A s \in Sources : SourceRow(s) \in Lockable
    /\ \A x \in Event, i \in Indicators : IocRow(x, i) \in Lockable
BY DEF Lockable

LEMMA IngestInitInv == IngestInit => IngestInv
<1> SUFFICES ASSUME IngestInit PROVE IngestInv
    OBVIOUS
<1> USE IngestBounds
<1>1. NoPoll \in PollRecord /\ NoPoll.at = "idle"
    BY Lockables DEF NoPoll, PollRecord
<1>2. \A s \in Sources : cursor[s] = 0
    BY DEF IngestInit
<1>3. \A w \in Pollers : poll[w] = NoPoll
    BY DEF IngestInit
<1>4. poll \in [Pollers -> PollRecord]
    BY <1>1 DEF IngestInit
<1>5. IngestRows
    BY <1>2, <1>4 DEF IngestInit, IngestRows
<1>6. \A s \in Sources : Justifies(s, cursor[s], events, {})
    BY <1>2 DEF Justifies
<1> QED
    BY <1>1, <1>3, <1>5, <1>6, Zenon DEF IngestInv

\* What a poll goes on with, its rows being the same.
LEMMA GoesOn ==
    ASSUME NEW p \in PollRecord, NEW s \in Sources, \A x \in p.left : x[2] = s, NEW q \in GoOn(p, s)
    PROVE  /\ q \in PollRecord /\ q.at # "idle" /\ q.to = p.to /\ q.unseen = p.unseen /\ OnSource(q, s)
           /\ Has(q) = p.wrote \cup p.left
<1> USE Lockables
<1>1. CASE p.left = {}
  <2>1. q = [p EXCEPT !.at = "finish", !.row = <<>>, !.wants = SourceRow(s)]
      BY <1>1 DEF GoOn
  <2>2. /\ q \in PollRecord /\ q.at = "finish" /\ q.to = p.to /\ q.unseen = p.unseen /\ q.left = {} /\ q.wants = SourceRow(s)
        /\ q.wrote = p.wrote
      BY <1>1, <2>1 DEF PollRecord
  <2> QED
      BY <1>1, <2>2 DEF OnSource, Has
<1>2. CASE p.left # {}
  <2>1. PICK row \in p.left :
            q = [p EXCEPT !.at = "insert", !.left = @ \ {row}, !.row = row, !.wants = EventKey(row)]
      BY <1>2 DEF GoOn
  <2>2. row \in Event
      BY <2>1 DEF PollRecord
  <2>3. /\ q \in PollRecord /\ q.at = "insert" /\ q.to = p.to /\ q.unseen = p.unseen /\ q.left = p.left \ {row} /\ q.row = row
        /\ q.wrote = p.wrote
      BY <2>1, <2>2 DEF PollRecord
  <2> QED
      BY <2>1, <2>2, <2>3 DEF OnSource, Has
<1> QED
    BY <1>1, <1>2

LEMMA NextIocGoesOn ==
    ASSUME NEW p \in PollRecord, NEW s \in Sources, \A x \in p.left : x[2] = s,
           p.row \in Event, p.row[2] = s, NEW q \in NextIoc(p, s)
    PROVE  /\ q \in PollRecord /\ q.at # "idle" /\ q.to = p.to /\ q.unseen = p.unseen /\ OnSource(q, s)
           /\ Has(q) = p.wrote \cup p.left
<1> USE Lockables
<1>1. CASE p.iocs = {}
    BY <1>1, GoesOn DEF NextIoc
<1>2. CASE p.iocs # {}
  <2>1. PICK x \in p.iocs : q = [p EXCEPT !.at = "ioc", !.iocs = @ \ {x}, !.wants = IocRow(p.row, x)]
      BY <1>2 DEF NextIoc
  <2>2. x \in Indicators
      BY <2>1 DEF PollRecord
  <2>3. /\ q \in PollRecord /\ q.at = "ioc" /\ q.to = p.to /\ q.unseen = p.unseen /\ q.left = p.left /\ q.row = p.row
        /\ q.wrote = p.wrote
      BY <2>1, <2>2 DEF PollRecord
  <2> QED
      BY <2>3 DEF OnSource, Has
<1> QED
    BY <1>1, <1>2

\* A step of one poll that changes no table.
LEMMA PollMoves ==
    ASSUME IngestInv, NEW w \in Pollers, NEW q \in PollRecord, poll' = [poll EXCEPT ![w] = q],
           UNCHANGED <<kind, malformed, feed, events, cursor, passed>>,
           q.at # "idle" => \E s \in Sources : OnSource(q, s) /\ Justified(q, s)
    PROVE  IngestInv'
<1>1. /\ poll' \in [Pollers -> PollRecord] /\ poll'[w] = q
      /\ \A v \in Pollers \ {w} : poll'[v] = poll[v]
    BY DEF IngestInv, IngestRows
<1>2. IngestRows'
    BY <1>1 DEF IngestInv, IngestRows
<1>3. \A s, to, rows, unseen : Justifies(s, to, rows, unseen)' <=> Justifies(s, to, rows, unseen)
    BY DEF Justifies, HasCursor, IsOtx, ProjectsOf
<1>4. ASSUME NEW s \in Sources PROVE Justifies(s, cursor[s], events, {})'
    BY <1>3 DEF IngestInv
<1>5. ASSUME NEW v \in Pollers, poll'[v].at # "idle"
      PROVE  \E s \in Sources : (OnSource(poll[v], s) /\ Justified(poll[v], s))'
  <2>1. PICK p : p = poll'[v]
      OBVIOUS
  <2>2. PICK s \in Sources : OnSource(p, s) /\ Justified(p, s)
      BY <1>1, <1>5, <2>1 DEF IngestInv
  <2>3. OnSource(p, s)' /\ Justified(p, s)'
      BY <1>3, <2>2 DEF Justified, OnSource, Has
  <2> QED
      BY <2>1, <2>3 DEF Justified, OnSource, Has
<1> QED
    BY <1>2, <1>4, <1>5 DEF IngestInv

\* A step of a poll through its rows, whose source stays the same.
LEMMA RowsMove ==
    ASSUME IngestInv, NEW w \in Pollers, NEW s \in Sources, NEW q \in PollRecord,
           poll' = [poll EXCEPT ![w] = q], UNCHANGED <<kind, malformed, feed, events, cursor, passed>>,
           OnSource(q, s), q.to = poll[w].to, q.unseen = poll[w].unseen, Justified(poll[w], s),
           events \cup Has(poll[w]) = events \cup Has(q)
    PROVE  IngestInv'
<1>1. Justified(q, s)
    BY DEF Justified
<1> QED
    BY <1>1, PollMoves

\* The source of a poll and what it may rely on.
LEMMA PollSource ==
    ASSUME IngestInv, NEW w \in Pollers, poll[w].at # "idle"
    PROVE  /\ poll[w] \in PollRecord
           /\ \E s \in Sources : OnSource(poll[w], s) /\ Justified(poll[w], s)
BY DEF IngestInv, IngestRows

LEMMA InsertKeeps == ASSUME IngestInv, NEW w \in Pollers, InsertEvent(w) PROVE IngestInv'
<1> DEFINE p == poll[w]
<1>1. p.at = "insert" /\ UNCHANGED <<kind, malformed, feed, events, cursor, passed>>
    BY DEF InsertEvent, Runs
<1>2. PICK s \in Sources : OnSource(p, s) /\ Justified(p, s)
    BY <1>1, PollSource
<1>3. p \in PollRecord
    BY <1>1, PollSource
<1>4. p.row \in Event /\ p.row[2] = s /\ \A x \in p.left : x[2] = s
    BY <1>1, <1>2 DEF OnSource
<1>5. Has(p) = p.wrote \cup p.left \cup {p.row}
    BY <1>1 DEF Has
<1>6. CASE p.row \in events
  <2>1. PICK q \in GoOn(p, s) : poll' = [poll EXCEPT ![w] = q]
      BY <1>4, <1>6 DEF InsertEvent, Continue
  <2>2. q \in PollRecord /\ q.to = p.to /\ q.unseen = p.unseen /\ OnSource(q, s) /\ Has(q) = p.wrote \cup p.left
      BY <1>3, <1>4, GoesOn
  <2>3. events \cup Has(p) = events \cup Has(q)
      BY <1>5, <1>6, <2>2
  <2> QED
      BY <1>1, <1>2, <2>1, <2>2, <2>3, RowsMove
<1>7. CASE p.row \notin events
  <2> DEFINE q == [p EXCEPT !.at = "bump", !.wrote = @ \cup {p.row}, !.locks = @ \cup {p.wants}, !.wants = SourceRow(s)]
  <2>1. poll' = [poll EXCEPT ![w] = q]
      BY <1>4, <1>7 DEF InsertEvent, Continue
  <2>2. /\ q \in PollRecord /\ q.at = "bump" /\ q.to = p.to /\ q.unseen = p.unseen /\ q.left = p.left /\ q.row = p.row
        /\ q.wrote = p.wrote \cup {p.row}
      BY <1>3, <1>4, Lockables DEF PollRecord
  <2> HIDE DEF q
  <2>3. OnSource(q, s) /\ Has(q) = p.wrote \cup {p.row} \cup p.left
      BY <1>4, <2>2 DEF OnSource, Has
  <2>4. events \cup Has(p) = events \cup Has(q)
      BY <1>5, <2>3
  <2> QED
      BY <1>1, <1>2, <2>1, <2>2, <2>3, <2>4, RowsMove
<1> QED
    BY <1>6, <1>7

LEMMA BumpKeeps == ASSUME IngestInv, NEW w \in Pollers, BumpSource(w) \/ UpsertIoc(w) PROVE IngestInv'
<1> DEFINE p == poll[w]
<1>1. p.at \in {"bump", "ioc"} /\ UNCHANGED <<kind, malformed, feed, events, cursor, passed>>
    BY DEF BumpSource, UpsertIoc, Runs
<1>2. PICK s \in Sources : OnSource(p, s) /\ Justified(p, s)
    BY <1>1, PollSource
<1>3. p \in PollRecord
    BY <1>1, PollSource
<1>4. p.row \in Event /\ p.row[2] = s /\ \A x \in p.left : x[2] = s
    BY <1>1, <1>2 DEF OnSource
<1>5. Has(p) = p.wrote \cup p.left
    BY <1>1 DEF Has
<1>6. Mentioned(s, p.row[3]) \subseteq Indicators
  <2>1. p.row[3] \in Items
      BY <1>4 DEF Event
  <2> QED
      BY <2>1, MentionsOfItems DEF Mentioned
<1>7. PICK r \in PollRecord : /\ r.to = p.to /\ r.unseen = p.unseen /\ r.left = p.left /\ r.row = p.row /\ r.wrote = p.wrote
                              /\ \E q \in NextIoc(r, s) : poll' = [poll EXCEPT ![w] = q]
  <2>1. CASE BumpSource(w)
    <3> DEFINE r == [p EXCEPT !.locks = @ \cup {p.wants}, !.iocs = Mentioned(s, p.row[3])]
    <3>1. r \in PollRecord /\ r.to = p.to /\ r.unseen = p.unseen /\ r.left = p.left /\ r.row = p.row /\ r.wrote = p.wrote
        BY <1>3, <1>6 DEF PollRecord
    <3>2. \E q \in NextIoc(r, s) : poll' = [poll EXCEPT ![w] = q]
        BY <1>4, <2>1 DEF BumpSource, Continue
    <3> QED
        BY <3>1, <3>2
  <2>2. CASE UpsertIoc(w)
    <3> DEFINE r == [p EXCEPT !.locks = @ \cup {p.wants}]
    <3>1. r \in PollRecord /\ r.to = p.to /\ r.unseen = p.unseen /\ r.left = p.left /\ r.row = p.row /\ r.wrote = p.wrote
        BY <1>3 DEF PollRecord
    <3>2. \E q \in NextIoc(r, s) : poll' = [poll EXCEPT ![w] = q]
        BY <1>4, <2>2 DEF UpsertIoc, Continue
    <3> QED
        BY <3>1, <3>2
  <2> QED
      BY <2>1, <2>2
<1>8. PICK q \in NextIoc(r, s) : poll' = [poll EXCEPT ![w] = q]
    BY <1>7
<1>9. q \in PollRecord /\ q.to = p.to /\ q.unseen = p.unseen /\ OnSource(q, s) /\ Has(q) = p.wrote \cup p.left
  <2>1. q \in PollRecord /\ q.to = r.to /\ q.unseen = r.unseen /\ OnSource(q, s) /\ Has(q) = r.wrote \cup r.left
      BY <1>4, <1>7, NextIocGoesOn
  <2> QED
      BY <1>7, <2>1
<1>10. events \cup Has(p) = events \cup Has(q)
    BY <1>5, <1>9
<1> QED
    BY <1>1, <1>2, <1>8, <1>9, <1>10, RowsMove

\* The cursor that a poll has read off its feed is justified by the rows of what the feed
\* shows, and by the one it was asked with.
LEMMA ShownJustifies ==
    ASSUME IngestInv, NEW s \in Sources, NEW to \in NextCursors(s, Parsed(s))
    PROVE  /\ to \in 0..(MaxItems + 1) /\ Rows(s) \subseteq Event
           /\ Justifies(s, to, events \cup Rows(s), Unseen(s, to))
           /\ to # 0 => Unseen(s, to) \in SUBSET (1..(MaxItems + 1))
<1> USE IngestBounds
<1> DEFINE rows == Rows(s)
<1>1. /\ feed[s] \in 0..MaxItems /\ cursor[s] \in 0..(MaxItems + 1)
      /\ Justifies(s, cursor[s], events, {})
    BY DEF IngestInv, IngestRows
<1>2. Shown(s) \in SUBSET (1..feed[s]) /\ Parsed(s) \in SUBSET (1..feed[s]) /\ Parsed(s) \subseteq Items
  <2>1. Shown(s) \in SUBSET (1..feed[s])
      BY DEF Shown, NvdShown, TaxiiShown, PageShown
  <2>2. Parsed(s) \subseteq Shown(s)
      BY DEF Parsed
  <2>3. 1..feed[s] \subseteq Items
      BY <1>1 DEF Items
  <2> QED
      BY <2>1, <2>2, <2>3
<1>3. rows \subseteq Event
  <2>1. ProjectsOf(s) = {Legacy} \/ ProjectsOf(s) = BoundProjects(s)
      BY DEF ProjectsOf
  <2>2. BoundProjects(s) \subseteq Tables /\ Legacy \in Tables
    <3>1. BoundProjects(s) \in {BoundProjects(t) : t \in Sources}
        OBVIOUS
    <3>2. Tables = {Legacy} \cup UNION {BoundProjects(t) : t \in Sources}
        BY DEF Tables
    <3> DEFINE all == {BoundProjects(t) : t \in Sources}
    <3> HIDE DEF all
    <3>3. \A x \in BoundProjects(s) : x \in UNION all
        BY <3>1 DEF all
    <3>4. Tables = {Legacy} \cup UNION all
        BY <3>2 DEF all
    <3> QED
        BY <3>3, <3>4
  <2>3. ProjectsOf(s) \subseteq Tables
      BY <2>1, <2>2
  <2>4. \A p \in ProjectsOf(s), i \in Parsed(s) : <<p, s, i>> \in Event
      BY <1>2, <2>3 DEF Event
  <2> QED
      BY <2>4 DEF Rows
<1>4. CASE ~HasCursor(s) \/ Parsed(s) = {}
  <2>1. to = 0
      BY <1>4 DEF NextCursors
  <2> QED
      BY <1>3, <2>1 DEF Justifies
<1>5. CASE HasCursor(s) /\ Parsed(s) # {}
  <2> DEFINE m == Latest(Parsed(s))
  <2>1. m \in Parsed(s) /\ \A j \in Parsed(s) : j <= m
    <3>1. \E i \in Parsed(s) : \A j \in Parsed(s) : j <= i
      <4>1. PICK n, all : n = feed[s] /\ all = Parsed(s)
          OBVIOUS
      <4>2. n \in Nat /\ all \in SUBSET (1..n) /\ all # {}
          BY <1>1, <1>2, <1>5, <4>1
      <4>3. \E i \in all : \A j \in all : j <= i
          BY <4>2, GreatestElement
      <4> QED
          BY <4>1, <4>3, Zenon
    <3> QED
        BY <1>5, <3>1 DEF Latest
  <2>2. \/ kind[s] = "nvd" /\ to = m + 1
        \/ kind[s] = "stix1" /\ to \in {feed[s], feed[s] + 1}
        \/ kind[s] \in {"taxii", "otx"} /\ to = m
      BY <1>5 DEF NextCursors, HasCursor, IsOtx
  <2> HIDE DEF m
  <2>3. m \in 1..feed[s]
      BY <1>2, <2>1
  <2>4. to \in 1..(MaxItems + 1)
      BY <1>1, <2>2, <2>3
  <2>5. Unseen(s, to) \in SUBSET (1..(MaxItems + 1))
    <3>1. Aged(s) \in SUBSET (1..(MaxItems + 1))
      <4>1. \A i \in 1..(feed[s] - Window) : i \in 1..(MaxItems + 1)
          BY <1>1
      <4> QED
          BY <4>1 DEF Aged
    <3> QED
        BY <2>4, <3>1 DEF Unseen
  <2>6. ASSUME NEW i \in Items, i <= to, <<s, i>> \notin malformed
        PROVE  \/ \A p \in ProjectsOf(s) : <<p, s, i>> \in events \cup rows
               \/ i \in passed[s] \cup Unseen(s, to)
    <3>1. CASE i > feed[s]
      <4>1. i = to /\ kind[s] \in {"nvd", "stix1"}
          BY <1>1, <2>2, <2>3, <2>6, <3>1 DEF Items
      <4> QED
          BY <3>1, <4>1 DEF Unseen
    <3>2. CASE i <= feed[s] /\ i \in Shown(s)
      <4>1. i \in Parsed(s)
          BY <1>5, <2>6, <3>2 DEF Parsed, HasCursor, IsOtx
      <4> QED
          BY <4>1 DEF Rows
    <3>3. CASE i <= feed[s] /\ i \notin Shown(s) /\ i \in Aged(s)
        BY <3>3 DEF Unseen
    <3>4. CASE i <= feed[s] /\ i \notin Shown(s) /\ i \notin Aged(s)
      <4>1. i \in 1..feed[s]
          BY <1>1, <3>4 DEF Items
      <4>2. cursor[s] # 0 /\ i <= cursor[s]
          BY <1>1, <1>5, <3>4, <4>1 DEF Shown, NvdShown, TaxiiShown, HasCursor, IsOtx
      <4>3. (\A p \in ProjectsOf(s) : <<p, s, i>> \in events) \/ i \in passed[s]
          BY <1>1, <1>5, <2>6, <4>2 DEF Justifies
      <4> QED
          BY <4>3
    <3> QED
        BY <1>1, <3>1, <3>2, <3>3, <3>4 DEF Items
  <2>7. Justifies(s, to, events \cup rows, Unseen(s, to))
      BY <2>6 DEF Justifies
  <2> QED
      BY <1>3, <2>4, <2>5, <2>7
<1> QED
    BY <1>4, <1>5

\* What a poll starts from.
LEMMA FetchedTyped ==
    ASSUME IngestInv, NEW s \in Sources, NEW to \in NextCursors(s, Parsed(s)), NEW p, p = Fetched(s, to)
    PROVE  /\ p \in PollRecord /\ p.left = Rows(s) /\ p.wrote = {} /\ p.locks = {}
           /\ p.to = to /\ (to # 0 => p.unseen = Unseen(s, to))
<1> USE IngestBounds
<1>1. /\ to \in 0..(MaxItems + 1) /\ Rows(s) \subseteq Event
      /\ to # 0 => Unseen(s, to) \in SUBSET (1..(MaxItems + 1))
    BY ShownJustifies
<1>2. PICK unseen \in SUBSET (1..(MaxItems + 1)) : unseen = IF to = 0 THEN {} ELSE Unseen(s, to)
    BY <1>1
<1>3. PICK left \in SUBSET Event : left = Rows(s)
    BY <1>1
<1>4. p = [NoPoll EXCEPT !.left = left, !.to = to, !.unseen = unseen]
    BY <1>2, <1>3 DEF Fetched
<1>5. /\ p \in PollRecord /\ p.left = left /\ p.wrote = {} /\ p.locks = {}
      /\ p.to = to /\ p.unseen = unseen
    BY <1>1, <1>4, Lockables DEF NoPoll, PollRecord
<1> QED
    BY <1>2, <1>3, <1>5

LEMMA StartPollKeeps ==
    ASSUME IngestInv, NEW w \in Pollers, NEW s \in Sources, StartPoll(w, s) PROVE IngestInv'
<1>1. PICK to \in NextCursors(s, Parsed(s)) :
          \E q \in GoOn(Fetched(s, to), s) : poll' = [poll EXCEPT ![w] = q]
    BY DEF StartPoll
<1>2. UNCHANGED <<kind, malformed, feed, events, cursor, passed>>
    BY DEF StartPoll
<1>3. PICK p : p = Fetched(s, to)
    OBVIOUS
<1>4. /\ p \in PollRecord /\ p.left = Rows(s) /\ p.wrote = {} /\ p.to = to
      /\ (to # 0 => p.unseen = Unseen(s, to))
    BY <1>3, FetchedTyped
<1>5. PICK q \in GoOn(p, s) : poll' = [poll EXCEPT ![w] = q]
    BY <1>1, <1>3
<1>6. /\ q \in PollRecord /\ q.to = p.to /\ q.unseen = p.unseen /\ OnSource(q, s)
      /\ Has(q) = p.wrote \cup p.left
  <2>1. \A x \in p.left : x[2] = s
      BY <1>4 DEF Rows
  <2> QED
      BY <1>4, <2>1, GoesOn
<1>7. Justifies(s, to, events \cup Rows(s), Unseen(s, to))
    BY ShownJustifies
<1>8. Justified(q, s)
  <2>1. q.to = to /\ events \cup Has(q) = events \cup Rows(s) /\ (to # 0 => q.unseen = Unseen(s, to))
      BY <1>4, <1>6
  <2>2. CASE to = 0
      BY <2>1, <2>2 DEF Justified, Justifies
  <2>3. CASE to # 0
      BY <1>7, <2>1, <2>3 DEF Justified
  <2> QED
      BY <2>2, <2>3
<1> QED
    BY <1>2, <1>5, <1>6, <1>8, PollMoves

LEMMA FinishKeeps == ASSUME IngestInv, NEW w \in Pollers, FinishPoll(w) PROVE IngestInv'
<1> USE IngestBounds
<1>1. poll[w].at = "finish"
    BY DEF FinishPoll, Runs
<1>2. PICK s \in Sources : OnSource(poll[w], s) /\ Justified(poll[w], s)
    BY <1>1, PollSource
<1>3. poll[w] \in PollRecord
    BY <1>1, PollSource
<1>4. SourceOf(w) = s
    BY <1>1, <1>2 DEF OnSource, SourceOf, SourceRow
<1>5. Has(poll[w]) = poll[w].wrote
    BY <1>1, <1>2 DEF Has, OnSource
<1>6. /\ events' = events \cup poll[w].wrote /\ poll' = [poll EXCEPT ![w] = NoPoll]
      /\ UNCHANGED <<kind, malformed, feed>> /\ Advance(s, poll[w].to, poll[w].unseen)
    BY <1>4 DEF FinishPoll
<1>7. NoPoll \in PollRecord /\ NoPoll.at = "idle"
    BY Lockables DEF NoPoll, PollRecord
<1>8. IngestRows
    BY DEF IngestInv
<1>9. /\ poll' \in [Pollers -> PollRecord] /\ poll'[w].at = "idle"
      /\ \A v \in Pollers \ {w} : poll'[v] = poll[v]
    BY <1>6, <1>7, <1>8 DEF IngestRows
<1>10. PICK to \in 0..(MaxItems + 1), unseen \in SUBSET (1..(MaxItems + 1)) :
            to = poll[w].to /\ unseen = poll[w].unseen
    BY <1>3 DEF PollRecord
<1>11. poll[w].wrote \subseteq Event
    BY <1>3 DEF PollRecord
<1>12. /\ cursor' \in [Sources -> 0..(MaxItems + 1)]
       /\ passed' \in [Sources -> SUBSET (1..(MaxItems + 1))]
       /\ \A t \in Sources : /\ passed[t] \subseteq passed'[t]
                             /\ \/ cursor'[t] = cursor[t]
                                \/ t = s /\ cursor'[t] = to /\ unseen \subseteq passed'[t]
  <2>1. /\ cursor \in [Sources -> 0..(MaxItems + 1)]
        /\ passed \in [Sources -> SUBSET (1..(MaxItems + 1))]
      BY <1>8 DEF IngestRows
  <2>2. CASE to = 0
    <3>1. cursor' = cursor /\ passed' = passed
        BY <1>6, <1>10, <2>2 DEF Advance
    <3> QED
        BY <2>1, <3>1
  <2>3. CASE to # 0
    <3>1. cursor' = [cursor EXCEPT ![s] = to] /\ passed' = [passed EXCEPT ![s] = @ \cup unseen]
        BY <1>6, <1>10, <2>3 DEF Advance
    <3>2. cursor' \in [Sources -> 0..(MaxItems + 1)] /\ passed' \in [Sources -> SUBSET (1..(MaxItems + 1))]
      <4>1. passed[s] \cup unseen \in SUBSET (1..(MaxItems + 1))
          BY <2>1
      <4> QED
          BY <2>1, <3>1, <4>1
    <3>3. /\ cursor'[s] = to /\ passed'[s] = passed[s] \cup unseen
          /\ \A t \in Sources \ {s} : cursor'[t] = cursor[t] /\ passed'[t] = passed[t]
        BY <2>1, <3>1
    <3>4. ASSUME NEW t \in Sources
          PROVE  /\ passed[t] \subseteq passed'[t]
                 /\ \/ cursor'[t] = cursor[t]
                    \/ t = s /\ cursor'[t] = to /\ unseen \subseteq passed'[t]
      <4>1. CASE t = s
          BY <3>3, <4>1
      <4>2. CASE t # s
        <5>1. passed'[t] = passed[t] /\ cursor'[t] = cursor[t]
            BY <3>3, <4>2
        <5>2. passed[t] \subseteq passed'[t]
            BY <5>1, Zenon
        <5> QED
            BY <5>1, <5>2
      <4> QED
          BY <4>1, <4>2
    <3> QED
        BY <3>2, <3>4
  <2> QED
      BY <2>2, <2>3
<1>13. IngestRows'
  <2>1. events' \subseteq Event
      BY <1>6, <1>8, <1>11 DEF IngestRows
  <2>2. kind' \in [Sources -> Kinds] /\ feed' \in [Sources -> 0..MaxItems]
      BY <1>6, <1>8 DEF IngestRows
  <2> QED
      BY <1>9, <1>12, <2>1, <2>2, Zenon DEF IngestRows
<1>14. ASSUME NEW t \in Sources, NEW at, NEW rows, NEW more, NEW us, NEW vs,
              rows \subseteq more, passed[t] \cup us \subseteq passed'[t] \cup vs, Justifies(t, at, rows, us)
       PROVE  Justifies(t, at, more, vs)'
    BY <1>6, <1>14 DEF Justifies, HasCursor, IsOtx, ProjectsOf
<1>15. ASSUME NEW t \in Sources PROVE Justifies(t, cursor[t], events, {})'
  <2>1. PICK at, more : at = cursor'[t] /\ more = events'
      OBVIOUS
  <2>2. Justifies(t, at, more, {})'
    <3>1. CASE at = cursor[t]
      <4>1. PICK rows : rows = events
          OBVIOUS
      <4>2. Justifies(t, at, rows, {}) /\ rows \subseteq more
          BY <1>6, <2>1, <3>1, <4>1 DEF IngestInv
      <4>3. passed[t] \cup {} \subseteq passed'[t] \cup {}
          BY <1>12
      <4> QED
          BY <1>14, <4>2, <4>3
    <3>2. CASE t = s /\ at = to /\ unseen \subseteq passed'[t]
      <4>1. PICK rows : rows = events \cup Has(poll[w])
          OBVIOUS
      <4>2. Justifies(t, at, rows, unseen) /\ rows \subseteq more
          BY <1>2, <1>5, <1>6, <1>10, <2>1, <3>2, <4>1 DEF Justified
      <4>3. passed[t] \cup unseen \subseteq passed'[t] \cup {}
          BY <1>12, <3>2
      <4> QED
          BY <1>14, <4>2, <4>3
    <3> QED
        BY <1>12, <2>1, <3>1, <3>2
  <2> QED
      BY <2>1, <2>2
<1>16. ASSUME NEW v \in Pollers, poll'[v].at # "idle"
       PROVE  \E t \in Sources : (OnSource(poll[v], t) /\ Justified(poll[v], t))'
  <2>1. v # w /\ poll'[v] = poll[v] /\ poll[v].at # "idle"
      BY <1>9, <1>16
  <2>2. PICK t \in Sources : OnSource(poll[v], t) /\ Justified(poll[v], t)
      BY <2>1, PollSource
  <2>3. PICK p, us, rows, more : /\ p = poll[v] /\ us = p.unseen /\ rows = events \cup Has(p)
                                 /\ more = events' \cup Has(p)
      OBVIOUS
  <2>4. Justifies(t, p.to, rows, us) /\ rows \subseteq more
      BY <1>6, <2>2, <2>3 DEF Justified
  <2>5. passed[t] \cup us \subseteq passed'[t] \cup us
      BY <1>12
  <2>6. Justifies(t, p.to, more, us)'
      BY <1>14, <2>4, <2>5
  <2>7. OnSource(p, t)
      BY <2>2, <2>3
  <2> QED
      BY <2>1, <2>3, <2>6, <2>7 DEF OnSource, Has, Justified
<1> QED
    BY <1>13, <1>15, <1>16 DEF IngestInv

LEMMA PublishKeeps == ASSUME IngestInv, NEW s \in Sources, Publish(s) PROVE IngestInv'
<1> USE IngestBounds
<1>1. /\ feed[s] < MaxItems /\ feed' = [feed EXCEPT ![s] = @ + 1]
      /\ UNCHANGED <<kind, malformed, events, cursor, passed, poll>>
    BY DEF Publish
<1>2. feed' \in [Sources -> 0..MaxItems]
    BY <1>1 DEF IngestInv, IngestRows
<1>3. IngestRows'
    BY <1>1, <1>2 DEF IngestInv, IngestRows
<1> QED
    BY <1>1, <1>3 DEF IngestInv, Justified, Justifies, HasCursor, IsOtx, ProjectsOf, OnSource, Has

LEMMA IngestNextInv == IngestInv /\ [IngestNext]_ingestVars => IngestInv'
<1> SUFFICES ASSUME IngestInv, [IngestNext]_ingestVars PROVE IngestInv'
    OBVIOUS
<1>1. ASSUME UNCHANGED <<kind, malformed, feed, events, cursor, passed, poll>> PROVE IngestInv'
    BY <1>1 DEF IngestInv, IngestRows, Justified, Justifies, HasCursor, IsOtx, ProjectsOf, OnSource, Has
<1>2. ASSUME NEW w \in Pollers, NEW s \in Sources, FetchFails(w, s) PROVE IngestInv'
    BY <1>1, <1>2 DEF FetchFails
<1>3. CASE UNCHANGED ingestVars
    BY <1>1, <1>3 DEF ingestVars
<1>4. ASSUME NEW w \in Pollers, DeadlockAborts(w) \/ CrashPoll(w) PROVE IngestInv'
  <2>1. NoPoll \in PollRecord /\ NoPoll.at = "idle"
      BY IngestBounds, Lockables DEF NoPoll, PollRecord
  <2>2. poll' = [poll EXCEPT ![w] = NoPoll] /\ UNCHANGED <<kind, malformed, feed, events, cursor, passed>>
      BY <1>4 DEF DeadlockAborts, CrashPoll
  <2> QED
      BY <2>1, <2>2, PollMoves
<1> QED
    BY <1>2, <1>3, <1>4, StartPollKeeps, InsertKeeps, BumpKeeps, FinishKeeps, PublishKeeps DEF IngestNext

\* For any sources, projects, feeds and polls that overlap, deadlock or die: the cursor of
\* NVD, TAXII or OTX goes past no well-formed item that is not committed in every project
\* the poll writes to (of OTX the legacy project alone), but those its own arithmetic leaves
\* out (workers/nvd.py, workers/taxii.py, ingest/taxii1_otx.py).
THEOREM NothingSkippedCorrect == IngestSpec => []NothingSkipped
<1>1. IngestInv => NothingSkipped
  <2> SUFFICES ASSUME IngestInv, NEW s \in Sources, NEW i \in Items,
                      HasCursor(s), i <= feed[s], <<s, i>> \notin malformed,
                      i \notin Shown(s) \cup Aged(s), i \notin passed[s]
               PROVE  \A p \in ProjectsOf(s) : <<p, s, i>> \in events
      BY DEF NothingSkipped
  <2>1. /\ feed[s] \in 0..MaxItems /\ cursor[s] \in 0..(MaxItems + 1)
        /\ Justifies(s, cursor[s], events, {})
      BY DEF IngestInv, IngestRows
  <2>2. i \in 1..feed[s]
      BY IngestBounds, <2>1 DEF Items
  <2>3. cursor[s] # 0 /\ i <= cursor[s]
      BY IngestBounds, <2>1, <2>2 DEF Shown, NvdShown, TaxiiShown, HasCursor, IsOtx
  <2> QED
      BY <2>1, <2>3 DEF Justifies
<1> QED
    BY <1>1, IngestInitInv, IngestNextInv, PTL DEF IngestSpec

-----------------------------------------------------------------------------
(* Ingest: locks and counters *)

\* A poll holds what it has written and asks for the row it will insert.
HoldsIts(p) ==
    /\ {EventKey(row) : row \in p.wrote} \subseteq p.locks
    /\ p.at = "insert" => p.wants = EventKey(p.row)

ActivePolls == {w \in Pollers : poll[w].at # "idle"}

\* No two polls hold one row; every empty poll of a source was started, and is over.
IngestCounts ==
    /\ malformed \subseteq Sources \X Items
    /\ passed \in [Sources -> SUBSET (1..(MaxItems + 1))]
    /\ health \in [Sources -> Health]
    /\ polls \in 0..MaxPolls
    /\ \A w \in Pollers : HoldsIts(poll[w]) /\ \A v \in Pollers \ {w} : poll[v].locks \cap poll[w].locks = {}
    /\ IsFiniteSet(ActivePolls)
    /\ \A s \in Sources : health[s].failures <= polls /\ health[s].silent + Cardinality(ActivePolls) <= polls

LEMMA NoPollTyped ==
    /\ NoPoll \in PollRecord /\ NoPoll.at = "idle" /\ NoPoll.wrote = {} /\ NoPoll.locks = {} /\ NoPoll.left = {}
    /\ HoldsIts(NoPoll)
<1>1. NoPoll \in PollRecord
    BY IngestBounds, Lockables DEF NoPoll, PollRecord
<1> QED
    BY <1>1 DEF NoPoll, HoldsIts

LEMMA IngestCountsInit == IngestInit => IngestCounts
<1> SUFFICES ASSUME IngestInit PROVE IngestCounts
    OBVIOUS
<1> USE IngestBounds
<1>1. \A w \in Pollers : poll[w] = NoPoll
    BY DEF IngestInit
<1>2. ActivePolls = {} /\ IsFiniteSet({}) /\ Cardinality({}) = 0
    BY <1>1, NoPollTyped, FS_EmptySet DEF ActivePolls
<1>3. polls = 0 /\ malformed \subseteq Sources \X Items /\ passed = [s \in Sources |-> {}]
    BY DEF IngestInit
<1>4. /\ health \in [Sources -> Health]
      /\ \A s \in Sources : health[s].failures = 0 /\ health[s].silent = 0
  <2>1. [status |-> "none", failures |-> 0, silent |-> 0] \in Health
      BY DEF Health
  <2>2. health = [s \in Sources |-> [status |-> "none", failures |-> 0, silent |-> 0]]
      BY DEF IngestInit
  <2> QED
      BY <2>1, <2>2
<1>5. ASSUME NEW w \in Pollers PROVE HoldsIts(poll[w]) /\ \A v \in Pollers \ {w} : poll[v].locks \cap poll[w].locks = {}
    BY <1>1, NoPollTyped
<1> QED
    BY <1>2, <1>3, <1>4, <1>5 DEF IngestCounts

\* What a poll goes on with holds the same rows.
LEMMA GoesOnHolding ==
    ASSUME NEW p \in PollRecord, NEW s \in Sources, NEW q \in GoOn(p, s),
           {EventKey(row) : row \in p.wrote} \subseteq p.locks
    PROVE  q \in PollRecord /\ q.at # "idle" /\ HoldsIts(q) /\ q.locks = p.locks
<1> USE Lockables
<1>1. CASE p.left = {}
  <2>1. q = [p EXCEPT !.at = "finish", !.row = <<>>, !.wants = SourceRow(s)]
      BY <1>1 DEF GoOn
  <2>2. q \in PollRecord /\ q.at = "finish" /\ q.wrote = p.wrote /\ q.locks = p.locks
      BY <2>1 DEF PollRecord
  <2> QED
      BY <2>2 DEF HoldsIts
<1>2. CASE p.left # {}
  <2>1. PICK row \in p.left :
            q = [p EXCEPT !.at = "insert", !.left = @ \ {row}, !.row = row, !.wants = EventKey(row)]
      BY <1>2 DEF GoOn
  <2>2. row \in Event
      BY <2>1 DEF PollRecord
  <2>3. /\ q \in PollRecord /\ q.at = "insert" /\ q.wrote = p.wrote /\ q.locks = p.locks
        /\ q.row = row /\ q.wants = EventKey(row)
      BY <2>1, <2>2 DEF PollRecord
  <2> QED
      BY <2>3 DEF HoldsIts
<1> QED
    BY <1>1, <1>2

LEMMA NextIocHolding ==
    ASSUME NEW p \in PollRecord, NEW s \in Sources, p.row \in Event, NEW q \in NextIoc(p, s),
           {EventKey(row) : row \in p.wrote} \subseteq p.locks
    PROVE  q \in PollRecord /\ q.at # "idle" /\ HoldsIts(q) /\ q.locks = p.locks
<1> USE Lockables
<1>1. CASE p.iocs = {}
    BY <1>1, GoesOnHolding DEF NextIoc
<1>2. CASE p.iocs # {}
  <2>1. PICK x \in p.iocs : q = [p EXCEPT !.at = "ioc", !.iocs = @ \ {x}, !.wants = IocRow(p.row, x)]
      BY <1>2 DEF NextIoc
  <2>2. x \in Indicators
      BY <2>1 DEF PollRecord
  <2>3. q \in PollRecord /\ q.at = "ioc" /\ q.wrote = p.wrote /\ q.locks = p.locks
      BY <2>1, <2>2 DEF PollRecord
  <2> QED
      BY <2>3 DEF HoldsIts
<1> QED
    BY <1>1, <1>2

\* A row that is free for a poll is held by no other.
LEMMA FreeUnheld ==
    ASSUME IngestCounts, NEW w \in Pollers, NEW r, FreeFor(w, r), NEW v \in Pollers \ {w}
    PROVE  r \notin poll[v].locks
<1>1. SUFFICES ASSUME r \in poll[v].locks PROVE FALSE
    OBVIOUS
<1>2. r \in Locks
    BY <1>1 DEF Locks
<1>3. r \in poll[w].locks
    BY <1>2 DEF FreeFor
<1>4. poll[v].locks \cap poll[w].locks = {}
    BY DEF IngestCounts
<1> QED
    BY <1>1, <1>3, <1>4

\* A step of one poll; it does not hold what another holds.
LEMMA CountsMove ==
    ASSUME IngestInv, IngestCounts, NEW w \in Pollers, NEW q \in PollRecord, poll' = [poll EXCEPT ![w] = q],
           HoldsIts(q), \A v \in Pollers \ {w} : q.locks \cap poll[v].locks = {},
           malformed' = malformed, passed' \in [Sources -> SUBSET (1..(MaxItems + 1))],
           health' \in [Sources -> Health], polls' \in 0..MaxPolls,
           \A s \in Sources : health'[s].failures <= polls',
           \/ /\ poll[w].at # "idle" \/ q.at = "idle"
              /\ polls' = polls /\ \A s \in Sources : health'[s].silent = health[s].silent
           \/ /\ poll[w].at # "idle" /\ polls' = polls /\ q.at = "idle"
              /\ \A s \in Sources : health'[s].silent <= health[s].silent + 1
           \/ /\ polls' = polls + 1
              /\ \A s \in Sources : health'[s].silent = health[s].silent
    PROVE  IngestCounts'
<1> USE IngestBounds
<1>1. /\ poll'[w] = q /\ \A v \in Pollers \ {w} : poll'[v] = poll[v]
    BY DEF IngestInv, IngestRows
<1>2. PICK A, B : A = ActivePolls /\ B = ActivePolls'
    OBVIOUS
<1>3. IsFiniteSet(A) /\ B \in SUBSET (A \cup {w}) /\ (q.at = "idle" => B \subseteq A \ {w}) /\ (poll[w].at # "idle" => w \in A)
    BY <1>1, <1>2 DEF ActivePolls, IngestCounts
<1>4. IsFiniteSet(B) /\ Cardinality(B) \in Nat /\ Cardinality(A) \in Nat /\ Cardinality(B) <= Cardinality(A) + 1
    BY <1>3, AddsAtMostOne
<1>5. poll[w].at # "idle" \/ q.at = "idle" => Cardinality(B) <= Cardinality(A)
  <2> SUFFICES ASSUME poll[w].at # "idle" \/ q.at = "idle" PROVE Cardinality(B) <= Cardinality(A)
      OBVIOUS
  <2>1. B \in SUBSET A
      BY <1>3
  <2> QED
      BY <1>3, <2>1, TakesNone
<1>6. poll[w].at # "idle" /\ q.at = "idle" => Cardinality(B) <= Cardinality(A) - 1
  <2> SUFFICES ASSUME poll[w].at # "idle", q.at = "idle" PROVE Cardinality(B) <= Cardinality(A) - 1
      OBVIOUS
  <2>1. w \in A /\ B \in SUBSET (A \ {w})
      BY <1>3
  <2> QED
      BY <1>3, <2>1, TakesAtLeastOne
<1>7. ASSUME NEW s \in Sources PROVE health'[s].silent + Cardinality(B) <= polls'
  <2>1. health[s].silent + Cardinality(A) <= polls /\ health[s].silent \in Nat /\ health'[s].silent \in Nat /\ polls \in Nat
      BY <1>2 DEF IngestCounts, Health
  <2>2. CASE polls' = polls + 1 /\ health'[s].silent = health[s].silent
      BY <1>4, <2>1, <2>2
  <2>3. CASE (poll[w].at # "idle" \/ q.at = "idle") /\ polls' = polls /\ health'[s].silent = health[s].silent
      BY <1>4, <1>5, <2>1, <2>3
  <2>4. CASE poll[w].at # "idle" /\ polls' = polls /\ q.at = "idle" /\ health'[s].silent <= health[s].silent + 1
      BY <1>4, <1>6, <2>1, <2>4
  <2> QED
      BY <2>2, <2>3, <2>4
<1>8. ASSUME NEW u \in Pollers
      PROVE  HoldsIts(poll'[u]) /\ \A v \in Pollers \ {u} : poll'[v].locks \cap poll'[u].locks = {}
    BY <1>1 DEF IngestCounts
<1>9. \A u \in Pollers : HoldsIts(poll[u])' <=> HoldsIts(poll'[u])
    BY DEF HoldsIts
<1> QED
    BY <1>2, <1>4, <1>7, <1>8, <1>9 DEF IngestCounts

\* A step of a poll that commits nothing.
LEMMA PollHolds ==
    ASSUME IngestInv, IngestCounts, NEW w \in Pollers, NEW q \in PollRecord, poll' = [poll EXCEPT ![w] = q],
           poll[w].at # "idle", HoldsIts(q), \A v \in Pollers \ {w} : q.locks \cap poll[v].locks = {},
           UNCHANGED <<malformed, passed, health, polls>>
    PROVE  IngestCounts'
<1>1. /\ passed' \in [Sources -> SUBSET (1..(MaxItems + 1))] /\ health' \in [Sources -> Health] /\ polls' \in 0..MaxPolls
      /\ \A s \in Sources : health'[s].failures <= polls' /\ health'[s].silent = health[s].silent
    BY DEF IngestCounts
<1> QED
    BY <1>1, CountsMove

LEMMA InsertCounts == ASSUME IngestInv, IngestCounts, NEW w \in Pollers, InsertEvent(w) PROVE IngestCounts'
<1> DEFINE p == poll[w]
<1>1. p.at = "insert" /\ FreeFor(w, p.wants) /\ UNCHANGED <<malformed, passed, health, polls>>
    BY DEF InsertEvent, Runs
<1>2. PICK s \in Sources : OnSource(p, s)
    BY <1>1, PollSource
<1>3. p \in PollRecord /\ p.row \in Event /\ p.row[2] = s
    BY <1>1, <1>2, PollSource DEF OnSource
<1>4. HoldsIts(p) /\ p.wants = EventKey(p.row)
    BY <1>1 DEF IngestCounts, HoldsIts
<1>5. \A v \in Pollers \ {w} : p.locks \cap poll[v].locks = {} /\ p.wants \notin poll[v].locks
    BY <1>1, FreeUnheld DEF IngestCounts
<1>6. CASE p.row \in events
  <2>1. PICK q \in GoOn(p, s) : poll' = [poll EXCEPT ![w] = q]
      BY <1>3, <1>6 DEF InsertEvent, Continue
  <2>2. q \in PollRecord /\ HoldsIts(q) /\ q.locks = p.locks
      BY <1>3, <1>4, GoesOnHolding DEF HoldsIts
  <2> QED
      BY <1>1, <1>5, <2>1, <2>2, PollHolds
<1>7. CASE p.row \notin events
  <2> DEFINE q == [p EXCEPT !.at = "bump", !.wrote = @ \cup {p.row}, !.locks = @ \cup {p.wants}, !.wants = SourceRow(s)]
  <2>1. poll' = [poll EXCEPT ![w] = q]
      BY <1>3, <1>7 DEF InsertEvent, Continue
  <2>2. /\ q \in PollRecord /\ q.at = "bump" /\ q.wrote = p.wrote \cup {p.row} /\ q.locks = p.locks \cup {p.wants}
      BY <1>3, Lockables DEF PollRecord
  <2> HIDE DEF q
  <2>3. HoldsIts(q)
      BY <1>4, <2>2 DEF HoldsIts
  <2>4. \A v \in Pollers \ {w} : q.locks \cap poll[v].locks = {}
      BY <1>5, <2>2
  <2> QED
      BY <1>1, <2>1, <2>2, <2>3, <2>4, PollHolds
<1> QED
    BY <1>6, <1>7

LEMMA BumpCounts == ASSUME IngestInv, IngestCounts, NEW w \in Pollers, BumpSource(w) \/ UpsertIoc(w) PROVE IngestCounts'
<1> DEFINE p == poll[w]
<1>1. p.at \in {"bump", "ioc"} /\ FreeFor(w, p.wants) /\ UNCHANGED <<malformed, passed, health, polls>>
    BY DEF BumpSource, UpsertIoc, Runs
<1>2. PICK s \in Sources : OnSource(p, s)
    BY <1>1, PollSource
<1>3. p \in PollRecord /\ p.row \in Event /\ p.row[2] = s
    BY <1>1, <1>2, PollSource DEF OnSource
<1>4. Mentioned(s, p.row[3]) \subseteq Indicators
  <2>1. p.row[3] \in Items
      BY <1>3 DEF Event
  <2> QED
      BY <2>1, MentionsOfItems DEF Mentioned
<1>5. \A v \in Pollers \ {w} : p.locks \cap poll[v].locks = {} /\ p.wants \notin poll[v].locks
    BY <1>1, FreeUnheld DEF IngestCounts
<1>6. PICK r \in PollRecord : /\ r.row = p.row /\ r.wrote = p.wrote /\ r.locks = p.locks \cup {p.wants}
                              /\ \E q \in NextIoc(r, s) : poll' = [poll EXCEPT ![w] = q]
  <2>1. CASE BumpSource(w)
    <3> DEFINE r == [p EXCEPT !.locks = @ \cup {p.wants}, !.iocs = Mentioned(s, p.row[3])]
    <3>1. r \in PollRecord /\ r.row = p.row /\ r.wrote = p.wrote /\ r.locks = p.locks \cup {p.wants}
        BY <1>3, <1>4 DEF PollRecord
    <3>2. \E q \in NextIoc(r, s) : poll' = [poll EXCEPT ![w] = q]
        BY <1>3, <2>1 DEF BumpSource, Continue
    <3> QED
        BY <3>1, <3>2
  <2>2. CASE UpsertIoc(w)
    <3> DEFINE r == [p EXCEPT !.locks = @ \cup {p.wants}]
    <3>1. r \in PollRecord /\ r.row = p.row /\ r.wrote = p.wrote /\ r.locks = p.locks \cup {p.wants}
        BY <1>3 DEF PollRecord
    <3>2. \E q \in NextIoc(r, s) : poll' = [poll EXCEPT ![w] = q]
        BY <1>3, <2>2 DEF UpsertIoc, Continue
    <3> QED
        BY <3>1, <3>2
  <2> QED
      BY <2>1, <2>2
<1>7. PICK q \in NextIoc(r, s) : poll' = [poll EXCEPT ![w] = q]
    BY <1>6
<1>8. {EventKey(row) : row \in r.wrote} \subseteq r.locks
    BY <1>6 DEF IngestCounts, HoldsIts
<1>9. q \in PollRecord /\ HoldsIts(q) /\ q.locks = r.locks
  <2>1. r.row \in Event
      BY <1>3, <1>6
  <2> QED
      BY <1>8, <2>1, NextIocHolding
<1>10. \A v \in Pollers \ {w} : q.locks \cap poll[v].locks = {}
    BY <1>5, <1>6, <1>9
<1> QED
    BY <1>1, <1>7, <1>9, <1>10, PollHolds

LEMMA StartCounts ==
    ASSUME IngestInv, IngestCounts, NEW w \in Pollers, NEW s \in Sources, StartPoll(w, s)
    PROVE  IngestCounts'
<1> USE IngestBounds
<1>1. /\ polls < MaxPolls /\ polls' = polls + 1 /\ UNCHANGED <<malformed, passed, health>>
      /\ \E to \in NextCursors(s, Parsed(s)) :
            \E q \in GoOn(Fetched(s, to), s) : poll' = [poll EXCEPT ![w] = q]
    BY DEF StartPoll
<1>2. PICK to \in NextCursors(s, Parsed(s)) :
          \E q \in GoOn(Fetched(s, to), s) : poll' = [poll EXCEPT ![w] = q]
    BY <1>1
<1>3. PICK p : p = Fetched(s, to)
    OBVIOUS
<1>4. PICK q \in GoOn(p, s) : poll' = [poll EXCEPT ![w] = q]
    BY <1>2, <1>3
<1>5. q \in PollRecord /\ HoldsIts(q) /\ q.locks = {}
  <2>1. p \in PollRecord /\ p.wrote = {} /\ p.locks = {}
      BY <1>3, FetchedTyped
  <2>2. {EventKey(row) : row \in p.wrote} \subseteq p.locks
      BY <2>1
  <2> QED
      BY <2>1, <2>2, GoesOnHolding
<1>6. /\ passed' \in [Sources -> SUBSET (1..(MaxItems + 1))] /\ health' \in [Sources -> Health]
      /\ polls' \in 0..MaxPolls
      /\ \A t \in Sources : health'[t].failures <= polls' /\ health'[t].silent = health[t].silent
    BY <1>1 DEF IngestCounts, Health
<1> QED
    BY <1>1, <1>4, <1>5, <1>6, CountsMove

LEMMA FailCounts ==
    ASSUME IngestInv, IngestCounts, NEW w \in Pollers, NEW s \in Sources, FetchFails(w, s)
    PROVE  IngestCounts'
<1> USE IngestBounds
<1>1. /\ polls < MaxPolls /\ polls' = polls + 1 /\ UNCHANGED <<malformed, passed, poll>>
      /\ \/ UNCHANGED health
         \/ \E status \in ValidStatuses : health' = [health EXCEPT ![s] = Recorded(@, status)]
    BY DEF FetchFails
<1>2. poll \in [Pollers -> PollRecord]
    BY DEF IngestInv, IngestRows
<1>3. PICK q \in PollRecord : q = poll[w]
    BY <1>2
<1>4. poll' = [poll EXCEPT ![w] = q]
    BY <1>1, <1>2, <1>3
<1>5. HoldsIts(q) /\ \A v \in Pollers \ {w} : q.locks \cap poll[v].locks = {}
    BY <1>3 DEF IngestCounts
<1>6. /\ health \in [Sources -> Health] /\ polls \in Nat /\ polls' \in 0..MaxPolls
      /\ \A t \in Sources : health[t].failures \in Nat /\ health[t].failures <= polls
    BY <1>1 DEF IngestCounts, Health
<1>7. /\ health' \in [Sources -> Health]
      /\ \A t \in Sources : health'[t].failures <= polls' /\ health'[t].silent = health[t].silent
  <2>1. CASE UNCHANGED health
      BY <1>1, <1>6, <2>1
  <2>2. ASSUME NEW status \in ValidStatuses, health' = [health EXCEPT ![s] = Recorded(@, status)]
        PROVE  /\ health' \in [Sources -> Health]
               /\ \A t \in Sources : health'[t].failures <= polls' /\ health'[t].silent = health[t].silent
    <3>1. PICK h \in Health : h = health[s]
        BY <1>6
    <3>2. PICK n \in 0..MaxPolls : n = IF status = "ok" THEN 0 ELSE h.failures + 1
        BY <1>1, <1>6, <3>1
    <3>3. PICK g : g = [h EXCEPT !.status = status, !.failures = n]
        OBVIOUS
    <3>4. g = Recorded(h, status)
        BY <3>2, <3>3 DEF Recorded, Health
    <3>5. g \in Health /\ g.failures = n /\ g.silent = h.silent
        BY <3>3 DEF Health
    <3>6. health' = [health EXCEPT ![s] = g]
        BY <2>2, <3>1, <3>4
    <3>7. n <= polls'
        BY <1>1, <1>6, <3>1, <3>2
    <3> QED
        BY <1>1, <1>6, <3>1, <3>5, <3>6, <3>7
  <2> QED
      BY <1>1, <2>1, <2>2
<1>8. passed' \in [Sources -> SUBSET (1..(MaxItems + 1))]
    BY <1>1 DEF IngestCounts
<1> QED
    BY <1>1, <1>4, <1>5, <1>6, <1>7, <1>8, CountsMove

LEMMA FinishCounts == ASSUME IngestInv, IngestCounts, NEW w \in Pollers, FinishPoll(w) PROVE IngestCounts'
<1> USE IngestBounds
<1>1. poll[w].at = "finish"
    BY DEF FinishPoll, Runs
<1>2. PICK s \in Sources : OnSource(poll[w], s)
    BY <1>1, PollSource
<1>3. poll[w] \in PollRecord /\ SourceOf(w) = s
  <2>1. poll[w] \in PollRecord
      BY <1>1, PollSource
  <2>2. SourceOf(w) = s
      BY <1>1, <1>2 DEF OnSource, SourceOf, SourceRow
  <2> QED
      BY <2>1, <2>2
<1>4. PICK to \in 0..(MaxItems + 1), unseen \in SUBSET (1..(MaxItems + 1)) :
          to = poll[w].to /\ unseen = poll[w].unseen
    BY <1>3 DEF PollRecord
<1>5. /\ poll' = [poll EXCEPT ![w] = NoPoll] /\ UNCHANGED <<malformed, polls>> /\ Advance(s, to, unseen)
      /\ health' = [health EXCEPT ![s] = IF IsOtx(s) THEN Recorded(@, "ok")
                                         ELSE Counted(Recorded(@, "ok"), poll[w].wrote)]
    BY <1>3, <1>4 DEF FinishPoll
<1>6. passed' \in [Sources -> SUBSET (1..(MaxItems + 1))]
  <2>1. passed \in [Sources -> SUBSET (1..(MaxItems + 1))]
      BY DEF IngestCounts
  <2>2. CASE to = 0
      BY <1>5, <2>1, <2>2 DEF Advance
  <2>3. CASE to # 0
    <3>1. passed' = [passed EXCEPT ![s] = @ \cup unseen]
        BY <1>5, <2>3 DEF Advance
    <3>2. passed[s] \cup unseen \in SUBSET (1..(MaxItems + 1))
        BY <2>1, <2>3
    <3> QED
        BY <2>1, <3>1, <3>2
  <2> QED
      BY <2>2, <2>3
<1>7. /\ health \in [Sources -> Health] /\ polls \in 0..MaxPolls
      /\ \A t \in Sources : health[t].failures \in Nat /\ health[t].failures <= polls /\ health[t].silent \in Nat
      /\ health[s].silent + 1 <= polls
  <2>1. PICK A : A = ActivePolls
      OBVIOUS
  <2>2. IsFiniteSet(A) /\ w \in A
      BY <1>1, <2>1 DEF ActivePolls, IngestCounts
  <2>3. Cardinality(A) \in Nat /\ Cardinality(A) # 0
      BY <2>2, FS_CardinalityType, FS_EmptySet
  <2>4. health[s].silent + Cardinality(A) <= polls
      BY <2>1 DEF IngestCounts
  <2>5. /\ health \in [Sources -> Health] /\ polls \in 0..MaxPolls
        /\ \A t \in Sources : health[t].failures \in Nat /\ health[t].failures <= polls /\ health[t].silent \in Nat
      BY DEF IngestCounts, Health
  <2> QED
      BY <2>3, <2>4, <2>5
<1>8. /\ health' \in [Sources -> Health]
      /\ \A t \in Sources : health'[t].failures <= polls' /\ health'[t].silent <= health[t].silent + 1
  <2>1. PICK h \in Health : h = health[s]
      BY <1>7
  <2>2. PICK n \in 0..MaxPolls : /\ n = IF IsOtx(s) THEN h.silent ELSE IF poll[w].wrote = {} THEN h.silent + 1 ELSE 0
                                 /\ n <= h.silent + 1
    <3>1. h.silent \in 0..MaxPolls /\ h.silent + 1 <= MaxPolls
        BY <1>7, <2>1 DEF Health
    <3> QED
        BY <3>1
  <2>3. PICK f \in Health : f = Recorded(h, "ok") /\ f.failures = 0 /\ f.silent = h.silent
    <3>0. PICK ok \in ValidStatuses, none \in 0..MaxPolls : ok = "ok" /\ none = 0
        BY DEF ValidStatuses
    <3>1. PICK f : f = [h EXCEPT !.status = ok, !.failures = none]
        OBVIOUS
    <3>2. f = Recorded(h, "ok")
        BY <3>0, <3>1 DEF Recorded
    <3>3. f \in Health /\ f.failures = 0 /\ f.silent = h.silent
        BY <3>0, <3>1 DEF Health
    <3> QED
        BY <3>2, <3>3
  <2>4. PICK g : g = [f EXCEPT !.silent = n]
      OBVIOUS
  <2>5. g = IF IsOtx(s) THEN Recorded(h, "ok") ELSE Counted(Recorded(h, "ok"), poll[w].wrote)
    <3>1. CASE IsOtx(s)
      <4>1. n = f.silent
          BY <2>2, <2>3, <3>1
      <4>2. g = f
          BY <2>4, <4>1 DEF Health
      <4> QED
          BY <2>3, <3>1, <4>2
    <3>2. CASE ~IsOtx(s)
        BY <2>2, <2>3, <2>4, <3>2 DEF Counted, Health
    <3> QED
        BY <3>1, <3>2
  <2>6. g \in Health /\ g.failures = 0 /\ g.silent = n
      BY <2>3, <2>4 DEF Health
  <2>7. health' = [health EXCEPT ![s] = g]
      BY <1>5, <2>1, <2>5
  <2>8. health' \in [Sources -> Health] /\ health'[s] = g /\ \A t \in Sources \ {s} : health'[t] = health[t]
      BY <1>7, <2>6, <2>7
  <2> QED
      BY <1>5, <1>7, <2>1, <2>2, <2>6, <2>8
<1>9. \A v \in Pollers \ {w} : NoPoll.locks \cap poll[v].locks = {}
    BY NoPollTyped
<1>10. polls' = polls /\ polls' \in 0..MaxPolls
    BY <1>5, <1>7
<1> QED
    BY <1>1, <1>5, <1>6, <1>8, <1>9, <1>10, NoPollTyped, CountsMove

LEMMA IngestCountsNext == IngestInv /\ IngestCounts /\ [IngestNext]_ingestVars => IngestCounts'
<1> SUFFICES ASSUME IngestInv, IngestCounts, [IngestNext]_ingestVars PROVE IngestCounts'
    OBVIOUS
<1>1. ASSUME UNCHANGED <<malformed, passed, health, poll, polls>> PROVE IngestCounts'
    BY <1>1 DEF IngestCounts, ActivePolls, HoldsIts
<1>2. CASE UNCHANGED ingestVars
    BY <1>1, <1>2 DEF ingestVars
<1>3. ASSUME NEW s \in Sources, Publish(s) PROVE IngestCounts'
    BY <1>1, <1>3 DEF Publish
<1>4. ASSUME NEW w \in Pollers, DeadlockAborts(w) \/ CrashPoll(w) PROVE IngestCounts'
  <2>1. /\ poll' = [poll EXCEPT ![w] = NoPoll] /\ UNCHANGED <<malformed, passed, health, polls>>
      BY <1>4 DEF DeadlockAborts, CrashPoll
  <2>2. /\ passed' \in [Sources -> SUBSET (1..(MaxItems + 1))] /\ health' \in [Sources -> Health]
        /\ polls' = polls /\ polls' \in 0..MaxPolls
        /\ \A s \in Sources : health'[s].failures <= polls' /\ health'[s].silent = health[s].silent
      BY <2>1 DEF IngestCounts
  <2>3. \A v \in Pollers \ {w} : NoPoll.locks \cap poll[v].locks = {}
      BY NoPollTyped
  <2> QED
      BY <2>1, <2>2, <2>3, NoPollTyped, CountsMove
<1> QED
    BY <1>2, <1>3, <1>4, StartCounts, FailCounts, InsertCounts, BumpCounts, FinishCounts DEF IngestNext

LEMMA IngestTyped == IngestInv /\ IngestCounts => IngestTypeOK
<1> SUFFICES ASSUME IngestInv, IngestCounts PROVE IngestTypeOK
    OBVIOUS
<1>1. /\ DOMAIN poll = Pollers
      /\ \A w \in Pollers : /\ poll[w].at \in {"idle", "insert", "bump", "ioc", "finish"}
                            /\ poll[w].left \subseteq Event /\ poll[w].wrote \subseteq Event
    BY DEF IngestInv, IngestRows, PollRecord
<1> QED
    BY <1>1 DEF IngestTypeOK, IngestInv, IngestRows, IngestCounts, HoldsIts

\* For any sources and polls: a poll holds the rows it has written, no two polls hold one, and
\* the counters of a source's health stay within the bound of the polls.
THEOREM IngestTypeCorrect == IngestSpec => []IngestTypeOK
    BY IngestTyped, IngestInitInv, IngestNextInv, IngestCountsInit, IngestCountsNext, PTL DEF IngestSpec

-----------------------------------------------------------------------------
(* Monitoring *)

\* The jobs that have passed the gates for a source and not yet recorded the alert.
Passing(s) == {j \in Jobs : s \in check[j].passed}

\* With those, the last hour has no more than the cap and what the other jobs add; and the
\* hours before are over.
SourceBounded(s) ==
    /\ IsFiniteSet(recorded[s]) /\ alerts[s] \subseteq recorded[s]
    /\ \A m \in recorded[s] : m.at \in Nat /\ m.at <= clock
    /\ InHour(recorded[s], clock) + Cardinality(Passing(s)) <= AlertCap + Cardinality(Jobs) - 1
    /\ \A t \in Ticks : t < clock => InHour(recorded[s], t) <= AlertCap + Cardinality(Jobs) - 1

MonitoringInv ==
    /\ clock \in Ticks
    /\ check \in [Jobs -> CheckRun]
    /\ DOMAIN recorded = Watched /\ DOMAIN alerts = Watched
    /\ \A s \in Watched : SourceBounded(s)

-----------------------------------------------------------------------------
LEMMA JobsCounted == IsFiniteSet(Jobs) /\ Cardinality(Jobs) \in Nat \ {0}
<1>1. IsFiniteSet({"silence"}) /\ IsFiniteSet({"drift"}) /\ IsFiniteSet({"parse_error"})
    BY FS_Singleton
<1>2. IsFiniteSet({"silence"} \cup {"drift"})
    BY <1>1, FS_Union
<1>3. IsFiniteSet(({"silence"} \cup {"drift"}) \cup {"parse_error"})
    BY <1>1, <1>2, FS_Union
<1>4. Jobs = ({"silence"} \cup {"drift"}) \cup {"parse_error"}
    BY DEF Jobs
<1>5. IsFiniteSet(Jobs) /\ Jobs # {}
    BY <1>3, <1>4
<1> QED
    BY <1>5, FS_CardinalityType, FS_EmptySet

LEMMA PassingCounted ==
    ASSUME NEW P \in SUBSET Jobs
    PROVE  IsFiniteSet(P) /\ Cardinality(P) \in Nat /\ Cardinality(P) <= Cardinality(Jobs)
BY JobsCounted, FS_Subset, FS_CardinalityType

LEMMA HourOf ==
    ASSUME NEW M, IsFiniteSet(M), NEW t
    PROVE  InHour(M, t) \in Nat
<1>1. {m \in M : t - HourTicks < m.at /\ m.at <= t} \subseteq M
    OBVIOUS
<1> QED
    BY <1>1, FS_Subset, FS_CardinalityType DEF InHour

\* More members, or an hour that has more of them.
LEMMA HourGrows ==
    ASSUME NEW M, IsFiniteSet(M), NEW L \in SUBSET M, NEW t \in Int, NEW u \in Int,
           \A m \in L : m.at \in Int /\ (m.at <= t => m.at <= u), u <= t
    PROVE  InHour(L, t) <= InHour(M, u)
<1> DEFINE here == {m \in L : t - HourTicks < m.at /\ m.at <= t}
           there == {m \in M : u - HourTicks < m.at /\ m.at <= u}
<1>1. here \subseteq there
    BY MonitoringBounds
<1>2. IsFiniteSet(there)
    BY FS_Subset
<1>3. Cardinality(here) <= Cardinality(there)
    BY <1>1, <1>2, FS_Subset
<1> QED
    BY <1>3 DEF InHour

LEMMA OneMore ==
    ASSUME NEW M, IsFiniteSet(M), NEW x, NEW t \in Int
    PROVE  InHour(M \cup {x}, t) <= InHour(M, t) + 1
<1> DEFINE here == {m \in M : t - HourTicks < m.at /\ m.at <= t}
           there == {m \in M \cup {x} : t - HourTicks < m.at /\ m.at <= t}
<1>1. IsFiniteSet(here) /\ there \subseteq here \cup {x}
    BY FS_Subset
<1> HIDE DEF here, there
<1>2. IsFiniteSet(here \cup {x}) /\ Cardinality(here \cup {x}) <= Cardinality(here) + 1 /\ Cardinality(here) \in Nat
  <2>1. Cardinality(here) \in Nat
      BY <1>1, FS_CardinalityType
  <2>2. /\ IsFiniteSet(here \cup {x})
        /\ Cardinality(here \cup {x}) = IF x \in here THEN Cardinality(here) ELSE Cardinality(here) + 1
      BY <1>1, FS_AddElement
  <2> QED
      BY <2>1, <2>2
<1>3. Cardinality(there) <= Cardinality(here \cup {x}) /\ Cardinality(there) \in Nat /\ Cardinality(here \cup {x}) \in Nat
    BY <1>1, <1>2, FS_Subset, FS_CardinalityType
<1>4. Cardinality(there) <= Cardinality(here) + 1
    BY <1>2, <1>3
<1> QED
    BY <1>4 DEF InHour, here, there

LEMMA MonitoringInitInv == MonitoringInit => MonitoringInv
<1> SUFFICES ASSUME MonitoringInit PROVE MonitoringInv
    OBVIOUS
<1>1. clock = 0 /\ clock \in Ticks
    BY MonitoringBounds DEF MonitoringInit, Ticks
<1>2. check = [j \in Jobs |-> RestingCheck(Interval[j])] /\ check \in [Jobs -> CheckRun]
  <2>1. \A j \in Jobs : Interval[j] \in 0..(MaxClock + HourTicks)
      BY MonitoringBounds DEF Interval, Jobs
  <2> QED
      BY <1>1, <2>1 DEF MonitoringInit, RestingCheck, CheckRun
<1>3. \A s \in Watched : recorded[s] = {} /\ alerts[s] = {} /\ Passing(s) = {}
    BY <1>2 DEF MonitoringInit, Passing, RestingCheck
<1>4. ASSUME NEW s \in Watched PROVE SourceBounded(s)
  <2>1. \A t : {m \in {} : t - HourTicks < m.at /\ m.at <= t} = {}
      OBVIOUS
  <2>2. \A t : InHour({}, t) = 0
      BY <2>1, FS_EmptySet DEF InHour
  <2>3. InHour(recorded[s], clock) = 0 /\ Cardinality(Passing(s)) = 0 /\ IsFiniteSet(recorded[s])
      BY <1>3, <2>2, FS_EmptySet
  <2>4. \A t \in Ticks : ~(t < clock)
      BY <1>1 DEF Ticks
  <2>5. 0 + 0 <= AlertCap + Cardinality(Jobs) - 1
      BY JobsCounted, MonitoringBounds
  <2> QED
      BY <1>3, <2>3, <2>4, <2>5 DEF SourceBounded
<1> QED
    BY <1>1, <1>2, <1>4 DEF MonitoringInv, MonitoringInit

\* A step of a job that passes no gate and records nothing.
LEMMA NothingRecorded ==
    ASSUME MonitoringInv, clock' = clock, check' \in [Jobs -> CheckRun], recorded' = recorded,
           DOMAIN alerts' = Watched, \A s \in Watched : alerts'[s] \subseteq recorded[s],
           \A j \in Jobs : check'[j].passed \subseteq check[j].passed
    PROVE  MonitoringInv'
<1>1. ASSUME NEW s \in Watched PROVE SourceBounded(s)'
  <2>1. SourceBounded(s)
      BY DEF MonitoringInv
  <2>2. Passing(s)' \subseteq Passing(s) /\ Passing(s) \in SUBSET Jobs
      BY DEF Passing
  <2>3. Cardinality(Passing(s)') <= Cardinality(Passing(s)) /\ Cardinality(Passing(s)) \in Nat /\ Cardinality(Passing(s)') \in Nat
      BY <2>2, PassingCounted, FS_Subset
  <2>4. InHour(recorded[s], clock) \in Nat
      BY <2>1, HourOf DEF SourceBounded
  <2>5. InHour(recorded[s], clock) + Cardinality(Passing(s)') <= AlertCap + Cardinality(Jobs) - 1
      BY <2>1, <2>3, <2>4, JobsCounted, MonitoringBounds DEF SourceBounded
  <2> QED
      BY <2>1, <2>5 DEF SourceBounded
<1> QED
    BY <1>1 DEF MonitoringInv

LEMMA TickPasses == ASSUME MonitoringInv, TimePasses PROVE MonitoringInv'
<1>1. clock' = clock + 1 /\ clock < MaxClock /\ UNCHANGED <<check, recorded, alerts>>
    BY DEF TimePasses
<1>2. clock \in Nat /\ clock' \in Ticks
    BY <1>1, MonitoringBounds DEF MonitoringInv, Ticks
<1>3. ASSUME NEW s \in Watched PROVE SourceBounded(s)'
  <2>1. SourceBounded(s)
      BY DEF MonitoringInv
  <2>2. Passing(s)' = Passing(s) /\ Cardinality(Passing(s)) \in Nat
    <3>1. Passing(s) \in SUBSET Jobs
        BY DEF Passing
    <3> QED
        BY <1>1, <3>1, PassingCounted DEF Passing
  <2>3. \A m \in recorded[s] : m.at \in Nat /\ m.at <= clock /\ m.at <= clock + 1
      BY <1>2, <2>1 DEF SourceBounded
  <2>4. InHour(recorded[s], clock + 1) <= InHour(recorded[s], clock)
      BY <1>2, <2>1, <2>3, HourGrows DEF SourceBounded
  <2>5. InHour(recorded[s], clock) \in Nat /\ InHour(recorded[s], clock + 1) \in Nat
      BY <2>1, HourOf DEF SourceBounded
  <2>6. InHour(recorded[s], clock + 1) + Cardinality(Passing(s)) <= AlertCap + Cardinality(Jobs) - 1
      BY <2>1, <2>2, <2>4, <2>5, JobsCounted, MonitoringBounds DEF SourceBounded
  <2>7. InHour(recorded[s], clock) <= AlertCap + Cardinality(Jobs) - 1
      BY <2>1, <2>2, <2>5, JobsCounted, MonitoringBounds DEF SourceBounded
  <2>8. \A t \in Ticks : t < clock + 1 => t < clock \/ t = clock
      BY <1>2 DEF Ticks
  <2> QED
      BY <1>1, <2>1, <2>2, <2>3, <2>6, <2>7, <2>8 DEF SourceBounded
<1> QED
    BY <1>1, <1>2, <1>3 DEF MonitoringInv

\* A source that passes was below the cap.
LEMMA GatePassed == ASSUME MonitoringInv, NEW j \in Jobs, NEW s \in Watched, AskGates(j, s) PROVE MonitoringInv'
<1>1. check[j] \in CheckRun /\ \A i \in Jobs : check[i].passed \in SUBSET Watched
    BY DEF MonitoringInv, CheckRun
<1>2. /\ check[j].at = "loop" /\ UNCHANGED <<clock, recorded, alerts>>
      /\ check' = IF InMaintenance(j) \/ Suppressed(s)
                  THEN [check EXCEPT ![j].todo = @ \ {s}]
                  ELSE [check EXCEPT ![j].todo = @ \ {s}, ![j].at = "insert", ![j].passed = {s}]
    BY DEF AskGates
<1>3. CASE InMaintenance(j) \/ Suppressed(s)
  <2> DEFINE h == [check[j] EXCEPT !.todo = @ \ {s}]
  <2>1. check' = [check EXCEPT ![j] = h]
      BY <1>2, <1>3
  <2>2. h \in CheckRun /\ h.passed = check[j].passed
      BY <1>1 DEF CheckRun
  <2> HIDE DEF h
  <2>3. check' \in [Jobs -> CheckRun] /\ \A i \in Jobs : check'[i].passed \subseteq check[i].passed
      BY <2>1, <2>2 DEF MonitoringInv
  <2> QED
      BY <1>2, <2>3, NothingRecorded DEF MonitoringInv, SourceBounded
<1>4. CASE ~(InMaintenance(j) \/ Suppressed(s))
  <2> DEFINE h == [check[j] EXCEPT !.todo = @ \ {s}, !.at = "insert", !.passed = {s}]
  <2>1. check' = [check EXCEPT ![j] = h]
      BY <1>2, <1>4
  <2>2. h \in CheckRun /\ h.passed = {s}
      BY <1>1 DEF CheckRun
  <2> HIDE DEF h
  <2>3. check' \in [Jobs -> CheckRun] /\ check'[j].passed = {s} /\ \A i \in Jobs \ {j} : check'[i] = check[i]
      BY <2>1, <2>2 DEF MonitoringInv
  <2>4. ASSUME NEW r \in Watched PROVE SourceBounded(r)'
    <3>1. SourceBounded(r) /\ InHour(recorded[r], clock) \in Nat
        BY HourOf DEF MonitoringInv, SourceBounded
    <3>2. Passing(r) \in SUBSET Jobs /\ Passing(r)' \in SUBSET Jobs
        BY DEF Passing
    <3>3. InHour(recorded[r], clock) + Cardinality(Passing(r)') <= AlertCap + Cardinality(Jobs) - 1
      <4>1. CASE r = s
        <5>1. ~(InHour(recorded[r], clock) >= AlertCap)
            BY <1>4, <4>1 DEF Suppressed
        <5>2. Cardinality(Passing(r)') \in Nat /\ Cardinality(Passing(r)') <= Cardinality(Jobs)
            BY <3>2, PassingCounted
        <5> QED
            BY <3>1, <5>1, <5>2, JobsCounted, MonitoringBounds
      <4>2. CASE r # s
        <5>1. Passing(r)' \subseteq Passing(r)
            BY <2>3, <4>2 DEF Passing
        <5>2. Cardinality(Passing(r)') <= Cardinality(Passing(r)) /\ Cardinality(Passing(r)) \in Nat /\ Cardinality(Passing(r)') \in Nat
            BY <3>2, <5>1, PassingCounted, FS_Subset
        <5> QED
            BY <3>1, <5>2, JobsCounted, MonitoringBounds DEF SourceBounded
      <4> QED
          BY <4>1, <4>2
    <3> QED
        BY <1>2, <3>1, <3>3 DEF SourceBounded
  <2> QED
      BY <1>2, <2>3, <2>4 DEF MonitoringInv
<1> QED
    BY <1>3, <1>4

\* Who records an alert has passed, and will not be counted as one who may record it.
LEMMA AlertRecorded == ASSUME MonitoringInv, NEW j \in Jobs, NEW s \in Watched, InsertAlert(j, s) PROVE MonitoringInv'
<1>1. check[j] \in CheckRun /\ clock \in Ticks /\ clock \in Nat
    BY MonitoringBounds DEF MonitoringInv, Ticks
<1>2. PICK x : x = [job |-> j, since |-> check[j].since, at |-> clock]
    OBVIOUS
<1>3. x \in Member /\ x.at = clock
    BY <1>1, <1>2 DEF Member, CheckRun
<1> PICK made \in SUBSET (Watched \X Member) : made = check[j].made \cup {<<s, x>>}
  <2>1. <<s, x>> \in Watched \X Member
      BY <1>3
  <2>2. check[j].made \in SUBSET (Watched \X Member)
      BY <1>1 DEF CheckRun
  <2> QED
      BY <2>1, <2>2
<1> DEFINE h == [check[j] EXCEPT !.at = "loop", !.passed = {}, !.made = made]
<1>4. /\ s \in check[j].passed /\ UNCHANGED <<clock, alerts>>
      /\ recorded' = [recorded EXCEPT ![s] = @ \cup {x}] /\ check' = [check EXCEPT ![j] = h]
    BY <1>2 DEF InsertAlert
<1>5. h \in CheckRun /\ h.passed = {}
    BY <1>1, <1>3 DEF CheckRun
<1> HIDE DEF h
<1>6. check' \in [Jobs -> CheckRun] /\ check'[j].passed = {} /\ \A i \in Jobs \ {j} : check'[i] = check[i]
    BY <1>4, <1>5 DEF MonitoringInv
<1>7. DOMAIN recorded' = Watched /\ recorded'[s] = recorded[s] \cup {x} /\ \A r \in Watched \ {s} : recorded'[r] = recorded[r]
    BY <1>4 DEF MonitoringInv
<1>8. ASSUME NEW r \in Watched PROVE SourceBounded(r)'
  <2>1. SourceBounded(r) /\ InHour(recorded[r], clock) \in Nat
      BY HourOf DEF MonitoringInv, SourceBounded
  <2>2. Passing(r) \in SUBSET Jobs /\ Passing(r)' = Passing(r) \ {j} /\ Cardinality(Passing(r)) \in Nat
    <3>1. Passing(r) \in SUBSET Jobs /\ Passing(r)' = Passing(r) \ {j}
        BY <1>6 DEF Passing
    <3> QED
        BY <3>1, PassingCounted
  <2>3. CASE r # s
    <3>1. Cardinality(Passing(r)') <= Cardinality(Passing(r)) /\ Cardinality(Passing(r)') \in Nat
      <4>1. Passing(r)' \subseteq Passing(r)
          BY <2>2
      <4> QED
          BY <2>2, <4>1, PassingCounted, FS_Subset
    <3>2. InHour(recorded[r], clock) + Cardinality(Passing(r)') <= AlertCap + Cardinality(Jobs) - 1
        BY <2>1, <2>2, <3>1, JobsCounted, MonitoringBounds DEF SourceBounded
    <3> QED
        BY <1>4, <1>7, <2>1, <2>3, <3>2 DEF SourceBounded
  <2>4. CASE r = s
    <3>1. j \in Passing(r)
        BY <1>4, <2>4 DEF Passing
    <3>2. Cardinality(Passing(r)') = Cardinality(Passing(r)) - 1
        BY <2>2, <3>1, PassingCounted, FS_RemoveElement
    <3>3. IsFiniteSet(recorded[r]) /\ IsFiniteSet(recorded[r] \cup {x})
        BY <2>1, FS_AddElement DEF SourceBounded
    <3>4. InHour(recorded[r] \cup {x}, clock) <= InHour(recorded[r], clock) + 1 /\ InHour(recorded[r] \cup {x}, clock) \in Nat
      <4>1. InHour(recorded[r] \cup {x}, clock) \in Nat
          BY <3>3, HourOf
      <4>2. InHour(recorded[r] \cup {x}, clock) <= InHour(recorded[r], clock) + 1
        <5>1. PICK now \in Int : now = clock
            BY <1>1
        <5>2. PICK M : M = recorded[r]
            OBVIOUS
        <5>3. InHour(M \cup {x}, now) <= InHour(M, now) + 1
            BY <3>3, <5>2, OneMore
        <5> QED
            BY <5>1, <5>2, <5>3
      <4> QED
          BY <4>1, <4>2
    <3>5. InHour(recorded[r] \cup {x}, clock) + Cardinality(Passing(r)') <= AlertCap + Cardinality(Jobs) - 1
        BY <2>1, <2>2, <3>2, <3>4, JobsCounted, MonitoringBounds DEF SourceBounded
    <3>6. ASSUME NEW t \in Ticks, t < clock PROVE InHour(recorded[r] \cup {x}, t) <= AlertCap + Cardinality(Jobs) - 1
      <4>1. ~(x.at <= t)
          BY <1>1, <1>3, <3>6 DEF Ticks
      <4>2. {m \in recorded[r] \cup {x} : t - HourTicks < m.at /\ m.at <= t} = {m \in recorded[r] : t - HourTicks < m.at /\ m.at <= t}
          BY <4>1
      <4>3. InHour(recorded[r] \cup {x}, t) = InHour(recorded[r], t)
          BY <4>2 DEF InHour
      <4> QED
          BY <2>1, <3>6, <4>3 DEF SourceBounded
    <3>7. \A m \in recorded[r] \cup {x} : m.at \in Nat /\ m.at <= clock
        BY <1>1, <1>3, <2>1 DEF SourceBounded
    <3> QED
        BY <1>4, <1>7, <2>1, <2>4, <3>3, <3>5, <3>6, <3>7 DEF SourceBounded
  <2> QED
      BY <2>3, <2>4
<1> QED
    BY <1>1, <1>4, <1>6, <1>7, <1>8 DEF MonitoringInv

LEMMA RestingTyped ==
    ASSUME NEW due \in 0..(MaxClock + HourTicks)
    PROVE  RestingCheck(due) \in CheckRun /\ RestingCheck(due).passed = {}
BY MonitoringBounds DEF RestingCheck, CheckRun, Ticks

LEMMA MonitoringStep == MonitoringInv /\ MonitoringNext => MonitoringInv'
<1> SUFFICES ASSUME MonitoringInv, MonitoringNext PROVE MonitoringInv'
    OBVIOUS
<1>1. /\ clock \in Ticks /\ clock \in Nat /\ \A i \in Jobs : check[i] \in CheckRun
      /\ check \in [Jobs -> CheckRun] /\ DOMAIN alerts = Watched /\ \A s \in Watched : alerts[s] \subseteq recorded[s]
    BY MonitoringBounds DEF MonitoringInv, Ticks, SourceBounded
<1>2. \A j \in Jobs : Interval[j] \in Nat /\ clock + Interval[j] \in 0..(MaxClock + HourTicks)
    BY <1>1, MonitoringBounds DEF Interval, Ticks
<1>3. ASSUME UNCHANGED <<clock, check, recorded, alerts>> PROVE MonitoringInv'
    BY <1>1, <1>3, NothingRecorded
<1>4. ASSUME NEW j \in Jobs, NEW h \in CheckRun, check' = [check EXCEPT ![j] = h], h.passed = {},
             UNCHANGED <<clock, recorded>>, DOMAIN alerts' = Watched, \A s \in Watched : alerts'[s] \subseteq recorded[s]
      PROVE  MonitoringInv'
  <2>1. check' \in [Jobs -> CheckRun] /\ \A i \in Jobs : check'[i].passed \subseteq check[i].passed
      BY <1>1, <1>4
  <2> QED
      BY <1>4, <2>1, NothingRecorded
<1>5. CASE TimePasses
    BY <1>5, TickPasses
<1>6. CASE CreateWindow \/ DeleteWindow
    BY <1>3, <1>6 DEF CreateWindow, DeleteWindow
<1>7. ASSUME NEW s \in Watched, EventArrives(s) PROVE MonitoringInv'
    BY <1>3, <1>7 DEF EventArrives
<1>8. CASE RestartChecks
  <2>1. check' = [j \in Jobs |-> RestingCheck(clock + Interval[j])] /\ UNCHANGED <<clock, recorded, alerts>>
      BY <1>8 DEF RestartChecks
  <2>2. check' \in [Jobs -> CheckRun] /\ \A i \in Jobs : check'[i].passed \subseteq check[i].passed
      BY <1>2, <2>1, RestingTyped
  <2> QED
      BY <1>1, <2>1, <2>2, NothingRecorded
<1>9. ASSUME NEW j \in Jobs, StartCheck(j) PROVE MonitoringInv'
  <2>1. PICK enabled \in SUBSET Watched :
            check' = [check EXCEPT ![j] =
                [at |-> "loop", due |-> clock + Interval[j], since |-> clock,
                 todo |-> IF j = "silence" THEN enabled \cap Silent ELSE enabled, passed |-> {}, made |-> {}]]
      BY <1>9 DEF StartCheck
  <2>2. PICK todo \in SUBSET Watched : todo = IF j = "silence" THEN enabled \cap Silent ELSE enabled
      OBVIOUS
  <2>3. PICK h : h = [at |-> "loop", due |-> clock + Interval[j], since |-> clock, todo |-> todo, passed |-> {}, made |-> {}]
      OBVIOUS
  <2>4. h \in CheckRun /\ h.passed = {} /\ check' = [check EXCEPT ![j] = h]
      BY <1>1, <1>2, <2>1, <2>2, <2>3 DEF CheckRun
  <2> QED
      BY <1>1, <1>4, <1>9, <2>4 DEF StartCheck
<1>10. ASSUME NEW j \in Jobs, CommitCheck(j) PROVE MonitoringInv'
  <2>1. /\ alerts' = [s \in Watched |-> alerts[s] \cup {m \in recorded[s] : <<s, m>> \in check[j].made}]
        /\ check' = [check EXCEPT ![j] = RestingCheck(check[j].due)] /\ UNCHANGED <<clock, recorded>>
      BY <1>10 DEF CommitCheck
  <2>2. DOMAIN alerts' = Watched /\ \A s \in Watched : alerts'[s] \subseteq recorded[s]
      BY <1>1, <2>1
  <2>3. check[j].due \in 0..(MaxClock + HourTicks)
      BY <1>1 DEF CheckRun
  <2> QED
      BY <1>4, <2>1, <2>2, <2>3, RestingTyped
<1>11. ASSUME NEW j \in Jobs, FailCheck(j) PROVE MonitoringInv'
  <2>1. check' = [check EXCEPT ![j] = RestingCheck(check[j].due)] /\ UNCHANGED <<clock, recorded, alerts>>
      BY <1>11 DEF FailCheck
  <2>2. check[j].due \in 0..(MaxClock + HourTicks)
      BY <1>1 DEF CheckRun
  <2> QED
      BY <1>1, <1>4, <2>1, <2>2, RestingTyped
<1> QED
    BY <1>5, <1>6, <1>7, <1>8, <1>9, <1>10, <1>11, GatePassed, AlertRecorded DEF MonitoringNext

LEMMA MonitoringInvNext == MonitoringInv /\ [MonitoringNext]_monitoringVars => MonitoringInv'
<1>1. MonitoringInv /\ UNCHANGED monitoringVars => MonitoringInv'
  <2> SUFFICES ASSUME MonitoringInv, UNCHANGED monitoringVars PROVE MonitoringInv'
      OBVIOUS
  <2>1. UNCHANGED <<clock, check, recorded, alerts>>
      BY DEF monitoringVars
  <2> QED
      BY <2>1, NothingRecorded DEF MonitoringInv, SourceBounded
<1> QED
    BY <1>1, MonitoringStep

\* For any sources, cap, hour and number of ticks: in no hour does a source raise more alerts
\* than the cap, but for one of each of the two other jobs (_dispatch_event, burst.py).
THEOREM AlertsCorrect == MonitoringSpec => []AlertsBounded
<1>1. MonitoringInv => AlertsBounded
  <2> SUFFICES ASSUME MonitoringInv, NEW s \in Watched, NEW t \in Ticks
               PROVE  InHour(alerts[s], t) <= AlertCap + Cardinality(Jobs) - 1
      BY DEF AlertsBounded
  <2>1. SourceBounded(s) /\ clock \in Nat /\ t \in Nat
      BY MonitoringBounds DEF MonitoringInv, Ticks
  <2>2. /\ IsFiniteSet(recorded[s]) /\ alerts[s] \in SUBSET recorded[s] /\ IsFiniteSet(alerts[s])
        /\ \A m \in recorded[s] : m.at \in Nat /\ m.at <= clock
      BY <2>1, FS_Subset DEF SourceBounded
  <2>3. InHour(recorded[s], clock) <= AlertCap + Cardinality(Jobs) - 1 /\ InHour(recorded[s], clock) \in Nat
    <3>1. Passing(s) \in SUBSET Jobs
        BY DEF Passing
    <3>2. Cardinality(Passing(s)) \in Nat /\ InHour(recorded[s], clock) \in Nat
        BY <2>2, <3>1, PassingCounted, HourOf
    <3> QED
        BY <2>1, <3>2, JobsCounted, MonitoringBounds DEF SourceBounded
  <2>4. InHour(alerts[s], t) \in Nat /\ InHour(recorded[s], t) \in Nat
      BY <2>2, HourOf
  <2>5. CASE t < clock
    <3>1. \A m \in alerts[s] : m.at \in Int /\ (m.at <= t => m.at <= t)
        BY <2>2
    <3>2. InHour(alerts[s], t) <= InHour(recorded[s], t)
        BY <2>1, <2>2, <3>1, HourGrows
    <3> QED
        BY <2>1, <2>4, <2>5, <3>2, JobsCounted, MonitoringBounds DEF SourceBounded
  <2>6. CASE clock <= t
    <3>1. \A m \in alerts[s] : m.at \in Int /\ (m.at <= t => m.at <= clock)
        BY <2>2
    <3>2. InHour(alerts[s], t) <= InHour(recorded[s], clock)
        BY <2>1, <2>2, <2>6, <3>1, HourGrows
    <3> QED
        BY <2>3, <2>4, <3>2, JobsCounted, MonitoringBounds
  <2> QED
      BY <2>1, <2>5, <2>6
<1> QED
    BY <1>1, MonitoringInitInv, MonitoringInvNext, PTL DEF MonitoringSpec

-----------------------------------------------------------------------------
(* Monitoring: what the jobs have on record *)

\* The run h of job j: whom it has passed it does not ask again, whom it has made an alert of it
\* neither, and of the others it has nothing on record; it began before it is due again.
RunHeld(j, h) ==
    /\ h.at = "insert" <=> h.passed # {}
    /\ h.passed \cap h.todo = {}
    /\ h.since <= clock /\ h.since < h.due
    /\ \A made \in h.made : made[1] \notin h.todo /\ made[2] \in recorded[made[1]]
    /\ \A s \in h.todo \cup h.passed : \A m \in recorded[s] : m.job = j => m.since # h.since

\* What is on record was put there by a run that began before the job is due again.
BeforeDue(s) == \A m \in recorded[s] : m.since <= clock /\ m.since < check[m.job].due

MonitoringRuns ==
    /\ lastEvent \in [Watched -> Ticks \cup {-1}]
    /\ windows \subseteq {w \in Ticks \X Ticks : w[1] < w[2]}
    /\ created \in 0..MaxWindows
    /\ recorded \in [Watched -> SUBSET Member] /\ alerts \in [Watched -> SUBSET Member]
    /\ \A j \in Jobs : RunHeld(j, check[j])
    /\ \A s \in Watched : BeforeDue(s)

LEMMA IntervalPositive == \A j \in Jobs : Interval[j] \in Nat \ {0} /\ Interval[j] <= HourTicks
BY MonitoringBounds DEF Interval, Jobs

LEMMA RestingHeld ==
    ASSUME NEW j, NEW due \in Nat, due > 0, clock \in Nat
    PROVE  RunHeld(j, RestingCheck(due))
<1>1. PICK h : h = [at |-> "idle", due |-> due, since |-> 0, todo |-> {}, passed |-> {}, made |-> {}]
    OBVIOUS
<1>2. h.at = "idle" /\ h.due = due /\ h.since = 0 /\ h.todo = {} /\ h.passed = {} /\ h.made = {}
    BY <1>1
<1>3. RunHeld(j, h)
    BY <1>2 DEF RunHeld
<1> QED
    BY <1>1, <1>3 DEF RestingCheck

LEMMA MonitoringRunsInit == MonitoringInit => MonitoringRuns
<1> SUFFICES ASSUME MonitoringInit PROVE MonitoringRuns
    OBVIOUS
<1>1. clock = 0 /\ created = 0 /\ windows = {} /\ \A s \in Watched : recorded[s] = {} /\ alerts[s] = {}
    BY DEF MonitoringInit
<1>2. /\ lastEvent \in [Watched -> Ticks \cup {-1}]
      /\ recorded \in [Watched -> SUBSET Member] /\ alerts \in [Watched -> SUBSET Member]
    BY DEF MonitoringInit
<1>3. ASSUME NEW j \in Jobs PROVE RunHeld(j, check[j])
  <2>1. check[j] = RestingCheck(Interval[j])
      BY DEF MonitoringInit
  <2> QED
      BY <1>1, <2>1, IntervalPositive, RestingHeld
<1>4. \A s \in Watched : BeforeDue(s)
    BY <1>1 DEF BeforeDue
<1> QED
    BY <1>1, <1>2, <1>3, <1>4, MonitoringBounds DEF MonitoringRuns

\* What the invariants say of the times.
LEMMA TimesTyped ==
    ASSUME MonitoringInv, MonitoringRuns
    PROVE  /\ clock \in Nat /\ clock \in Ticks
           /\ \A j \in Jobs : /\ check[j] \in CheckRun /\ check[j].due \in Nat /\ check[j].since \in Nat
                              /\ check[j].due \in 0..(MaxClock + HourTicks) /\ check[j].since <= clock
           /\ \A s \in Watched : \A m \in recorded[s] : m \in Member /\ m.since \in Nat /\ m.job \in Jobs
<1> USE MonitoringBounds
<1>1. clock \in Nat /\ clock \in Ticks
    BY DEF MonitoringInv, Ticks
<1>2. ASSUME NEW j \in Jobs
      PROVE  /\ check[j] \in CheckRun /\ check[j].due \in Nat /\ check[j].since \in Nat
             /\ check[j].due \in 0..(MaxClock + HourTicks) /\ check[j].since <= clock
  <2>1. check[j] \in CheckRun /\ RunHeld(j, check[j])
      BY DEF MonitoringInv, MonitoringRuns
  <2> QED
      BY <2>1 DEF CheckRun, Ticks, RunHeld
<1>3. ASSUME NEW s \in Watched, NEW m \in recorded[s] PROVE m \in Member /\ m.since \in Nat /\ m.job \in Jobs
    BY <1>3 DEF MonitoringRuns, Member, Ticks
<1> QED
    BY <1>1, <1>2, <1>3

\* A step of one job that records nothing.
LEMMA RunMoves ==
    ASSUME MonitoringInv, MonitoringRuns, NEW j \in Jobs, NEW h \in CheckRun, check' = [check EXCEPT ![j] = h],
           RunHeld(j, h), check[j].due <= h.due, UNCHANGED <<clock, lastEvent, windows, created, recorded>>,
           alerts' \in [Watched -> SUBSET Member]
    PROVE  MonitoringRuns'
<1>1. check'[j] = h /\ \A i \in Jobs \ {j} : check'[i] = check[i]
    BY DEF MonitoringInv
<1>2. ASSUME NEW i \in Jobs PROVE RunHeld(i, check[i])'
  <2>1. PICK c : c = check'[i]
      OBVIOUS
  <2>2. RunHeld(i, c)
      BY <1>1, <2>1 DEF MonitoringRuns
  <2> QED
      BY <2>1, <2>2 DEF RunHeld
<1>3. ASSUME NEW s \in Watched PROVE BeforeDue(s)'
  <2> SUFFICES ASSUME NEW m \in recorded[s] PROVE m.since <= clock /\ m.since < check'[m.job].due
      BY DEF BeforeDue
  <2>1. m.since <= clock /\ m.since < check[m.job].due /\ m.since \in Nat /\ m.job \in Jobs
      BY TimesTyped DEF MonitoringRuns, BeforeDue
  <2>2. CASE m.job = j
    <3>1. h.due \in Nat /\ check[j].due \in Nat
        BY TimesTyped, MonitoringBounds DEF CheckRun
    <3> QED
        BY <1>1, <2>1, <2>2, <3>1
  <2>3. CASE m.job # j
      BY <1>1, <2>1, <2>3
  <2> QED
      BY <2>2, <2>3
<1> QED
    BY <1>2, <1>3 DEF MonitoringRuns

\* A step that leaves the jobs and what they record.
LEMMA RunsStay ==
    ASSUME MonitoringInv, MonitoringRuns, UNCHANGED <<check, recorded, alerts>>,
           clock' \in Nat, clock <= clock',
           lastEvent' \in [Watched -> Ticks \cup {-1}],
           windows' \subseteq {w \in Ticks \X Ticks : w[1] < w[2]},
           created' \in 0..MaxWindows
    PROVE  MonitoringRuns'
<1>1. ASSUME NEW i \in Jobs PROVE RunHeld(i, check[i])'
  <2>1. PICK c : c = check[i]
      OBVIOUS
  <2>2. RunHeld(i, c) /\ c.since \in Nat /\ clock \in Nat
      BY <2>1, TimesTyped DEF MonitoringRuns
  <2> QED
      BY <2>1, <2>2 DEF RunHeld
<1>2. ASSUME NEW s \in Watched PROVE BeforeDue(s)'
    BY TimesTyped DEF MonitoringRuns, BeforeDue
<1> QED
    BY <1>1, <1>2 DEF MonitoringRuns

LEMMA GateRuns == ASSUME MonitoringInv, MonitoringRuns, NEW j \in Jobs, NEW s \in Watched, AskGates(j, s) PROVE MonitoringRuns'
<1>1. /\ check[j] \in CheckRun /\ RunHeld(j, check[j]) /\ alerts \in [Watched -> SUBSET Member]
      /\ check[j].due \in Nat /\ \A i \in Jobs : check[i].passed \in SUBSET Watched
    BY TimesTyped DEF MonitoringInv, MonitoringRuns, CheckRun
<1>2. /\ check[j].at = "loop" /\ s \in check[j].todo /\ UNCHANGED <<clock, lastEvent, windows, created, recorded, alerts>>
      /\ check' = IF InMaintenance(j) \/ Suppressed(s)
                  THEN [check EXCEPT ![j].todo = @ \ {s}]
                  ELSE [check EXCEPT ![j].todo = @ \ {s}, ![j].at = "insert", ![j].passed = {s}]
    BY DEF AskGates
<1>3. check[j].passed = {}
    BY <1>1, <1>2 DEF RunHeld
<1>4. CASE InMaintenance(j) \/ Suppressed(s)
  <2> DEFINE h == [check[j] EXCEPT !.todo = @ \ {s}]
  <2>1. check' = [check EXCEPT ![j] = h]
      BY <1>2, <1>4
  <2>2. h \in CheckRun /\ h.due = check[j].due /\ h.passed = {} /\ h.todo \subseteq check[j].todo
      BY <1>1, <1>3 DEF CheckRun
  <2>3. h.at = "loop" /\ h.since = check[j].since /\ h.made = check[j].made
      BY <1>1, <1>2 DEF CheckRun
  <2> HIDE DEF h
  <2>4. RunHeld(j, h)
      BY <1>1, <1>3, <2>2, <2>3 DEF RunHeld
  <2>5. check[j].due <= h.due /\ alerts' \in [Watched -> SUBSET Member]
      BY <1>1, <1>2, <2>2
  <2> QED
      BY <1>2, <2>1, <2>2, <2>4, <2>5, RunMoves
<1>5. CASE ~(InMaintenance(j) \/ Suppressed(s))
  <2> DEFINE h == [check[j] EXCEPT !.todo = @ \ {s}, !.at = "insert", !.passed = {s}]
  <2>1. check' = [check EXCEPT ![j] = h]
      BY <1>2, <1>5
  <2>2. h \in CheckRun /\ h.due = check[j].due /\ h.passed = {s} /\ h.todo = check[j].todo \ {s}
      BY <1>1 DEF CheckRun
  <2>3. h.at = "insert" /\ h.since = check[j].since /\ h.made = check[j].made
      BY <1>1, <1>2 DEF CheckRun
  <2> HIDE DEF h
  <2>4. RunHeld(j, h)
      BY <1>1, <1>2, <2>2, <2>3 DEF RunHeld
  <2>5. check[j].due <= h.due /\ alerts' \in [Watched -> SUBSET Member]
      BY <1>1, <1>2, <2>2
  <2> QED
      BY <1>2, <2>1, <2>2, <2>4, <2>5, RunMoves
<1> QED
    BY <1>4, <1>5

LEMMA InsertRuns == ASSUME MonitoringInv, MonitoringRuns, NEW j \in Jobs, NEW s \in Watched, InsertAlert(j, s) PROVE MonitoringRuns'
<1>1. check[j] \in CheckRun /\ RunHeld(j, check[j]) /\ clock \in Ticks /\ clock \in Nat
    BY TimesTyped DEF MonitoringRuns
<1>2. PICK x : x = [job |-> j, since |-> check[j].since, at |-> clock]
    OBVIOUS
<1>3. x \in Member /\ x.job = j /\ x.since = check[j].since
    BY <1>1, <1>2 DEF Member, CheckRun
<1> PICK made \in SUBSET (Watched \X Member) : made = check[j].made \cup {<<s, x>>}
  <2>1. <<s, x>> \in Watched \X Member
      BY <1>3
  <2>2. check[j].made \in SUBSET (Watched \X Member)
      BY <1>1 DEF CheckRun
  <2> QED
      BY <2>1, <2>2
<1> DEFINE h == [check[j] EXCEPT !.at = "loop", !.passed = {}, !.made = made]
<1>4. /\ s \in check[j].passed /\ UNCHANGED <<clock, lastEvent, windows, created, alerts>>
      /\ recorded' = [recorded EXCEPT ![s] = @ \cup {x}] /\ check' = [check EXCEPT ![j] = h]
    BY <1>2 DEF InsertAlert
<1>5. /\ h.at = "loop" /\ h.passed = {} /\ h.made = made /\ h.todo = check[j].todo
      /\ h.since = check[j].since /\ h.due = check[j].due
    BY <1>1 DEF CheckRun
<1> HIDE DEF h
<1>6. check'[j] = h /\ \A i \in Jobs \ {j} : check'[i] = check[i]
    BY <1>4 DEF MonitoringInv
<1>7. /\ recorded' \in [Watched -> SUBSET Member] /\ recorded'[s] = recorded[s] \cup {x}
      /\ \A r \in Watched \ {s} : recorded'[r] = recorded[r]
    BY <1>3, <1>4 DEF MonitoringRuns
<1>8. s \notin check[j].todo
    BY <1>1, <1>4 DEF RunHeld
<1>9. ASSUME NEW i \in Jobs PROVE RunHeld(i, check[i])'
  <2>1. PICK c \in CheckRun : c = check[i]
      BY TimesTyped
  <2>2. RunHeld(i, c)
      BY <2>1 DEF MonitoringRuns
  <2>3. \A r \in Watched : recorded[r] \subseteq recorded'[r]
      BY <1>7
  <2>4. \A m \in c.made : m[1] \in Watched
      BY DEF CheckRun
  <2>5. c.todo \subseteq Watched /\ c.passed \subseteq Watched
      BY DEF CheckRun
  <2>6. CASE i # j
    <3>1. check'[i] = c
        BY <1>6, <2>1, <2>6
    <3>2. \A m \in c.made : m[1] \notin c.todo /\ m[2] \in recorded'[m[1]]
        BY <2>2, <2>3, <2>4 DEF RunHeld
    <3>3. \A r \in c.todo \cup c.passed : \A m \in recorded'[r] : m.job = i => m.since # c.since
        BY <1>3, <1>7, <2>2, <2>5, <2>6 DEF RunHeld
    <3> QED
        BY <1>4, <2>2, <3>1, <3>2, <3>3 DEF RunHeld
  <2>7. CASE i = j
    <3>1. check'[i] = h
        BY <1>6, <2>7
    <3>2. \A m \in made : m[1] \notin h.todo /\ m[2] \in recorded'[m[1]]
      <4>1. \A m \in c.made : m[1] \notin c.todo /\ m[2] \in recorded'[m[1]]
          BY <2>2, <2>3, <2>4 DEF RunHeld
      <4> QED
          BY <1>5, <1>7, <1>8, <2>1, <2>7, <4>1
    <3>3. \A r \in h.todo \cup h.passed : \A m \in recorded'[r] : m.job = i => m.since # h.since
        BY <1>5, <1>7, <1>8, <2>1, <2>2, <2>5, <2>7 DEF RunHeld
    <3> QED
        BY <1>4, <1>5, <2>1, <2>2, <2>7, <3>1, <3>2, <3>3 DEF RunHeld
  <2> QED
      BY <2>6, <2>7
<1>10. ASSUME NEW r \in Watched PROVE BeforeDue(r)'
  <2> SUFFICES ASSUME NEW m \in recorded'[r] PROVE m.since <= clock /\ m.since < check'[m.job].due
      BY <1>4 DEF BeforeDue
  <2>1. \A i \in Jobs : check'[i].due = check[i].due
      BY <1>5, <1>6
  <2>2. CASE m \in recorded[r]
      BY <2>1, <2>2, TimesTyped DEF MonitoringRuns, BeforeDue
  <2>3. CASE m = x
      BY <1>1, <1>3, <2>1, <2>3 DEF RunHeld
  <2> QED
      BY <1>7, <2>2, <2>3
<1> QED
    BY <1>4, <1>7, <1>9, <1>10 DEF MonitoringRuns

LEMMA MonitoringRunsNext == MonitoringInv /\ MonitoringRuns /\ [MonitoringNext]_monitoringVars => MonitoringRuns'
<1> SUFFICES ASSUME MonitoringInv, MonitoringRuns, [MonitoringNext]_monitoringVars PROVE MonitoringRuns'
    OBVIOUS
<1> USE MonitoringBounds
<1>1. /\ clock \in Nat /\ clock \in Ticks
      /\ \A j \in Jobs : /\ check[j] \in CheckRun /\ check[j].due \in Nat /\ check[j].due \in 0..(MaxClock + HourTicks)
                         /\ check[j].since \in Nat /\ check[j].since < check[j].due
    BY TimesTyped DEF MonitoringRuns, RunHeld
<1>2. /\ lastEvent \in [Watched -> Ticks \cup {-1}] /\ windows \subseteq {w \in Ticks \X Ticks : w[1] < w[2]}
      /\ created \in 0..MaxWindows /\ alerts \in [Watched -> SUBSET Member] /\ recorded \in [Watched -> SUBSET Member]
    BY DEF MonitoringRuns
<1>3. CASE UNCHANGED monitoringVars
    BY <1>1, <1>2, <1>3, RunsStay DEF monitoringVars
<1>4. CASE TimePasses
    BY <1>1, <1>2, <1>4, RunsStay DEF TimePasses
<1>5. CASE CreateWindow
  <2>1. PICK from, to \in Ticks : from < to /\ windows' = windows \cup {<<from, to>>}
      BY <1>5 DEF CreateWindow
  <2>2. windows' \subseteq {w \in Ticks \X Ticks : w[1] < w[2]}
      BY <1>2, <2>1
  <2>3. created' \in 0..MaxWindows
      BY <1>2, <1>5 DEF CreateWindow
  <2> QED
      BY <1>1, <1>2, <1>5, <2>2, <2>3, RunsStay DEF CreateWindow
<1>6. CASE DeleteWindow
  <2>1. windows' \subseteq windows
      BY <1>6 DEF DeleteWindow
  <2>2. windows' \subseteq {w \in Ticks \X Ticks : w[1] < w[2]}
      BY <1>2, <2>1
  <2> QED
      BY <1>1, <1>2, <1>6, <2>2, RunsStay DEF DeleteWindow
<1>7. ASSUME NEW s \in Watched, EventArrives(s) PROVE MonitoringRuns'
  <2>1. lastEvent' \in [Watched -> Ticks \cup {-1}]
      BY <1>1, <1>2, <1>7 DEF EventArrives
  <2> QED
      BY <1>1, <1>2, <1>7, <2>1, RunsStay DEF EventArrives
<1>8. CASE RestartChecks
  <2>1. /\ check' = [j \in Jobs |-> RestingCheck(clock + Interval[j])]
        /\ UNCHANGED <<clock, lastEvent, windows, created, recorded, alerts>>
      BY <1>8 DEF RestartChecks
  <2>2. ASSUME NEW i \in Jobs PROVE RunHeld(i, check[i])' /\ check'[i].due = clock + Interval[i]
    <3>1. PICK due \in Nat : due = clock + Interval[i] /\ due > 0
        BY <1>1, IntervalPositive
    <3>2. PICK c : c = RestingCheck(due)
        OBVIOUS
    <3>3. RunHeld(i, c) /\ check'[i] = c
        BY <1>1, <2>1, <3>1, <3>2, RestingHeld
    <3>4. RunHeld(i, c)'
        BY <2>1, <3>3 DEF RunHeld
    <3>5. c.due = due
        BY <3>2 DEF RestingCheck
    <3> QED
        BY <3>1, <3>3, <3>4, <3>5
  <2>3. ASSUME NEW s \in Watched PROVE BeforeDue(s)'
    <3> SUFFICES ASSUME NEW m \in recorded[s] PROVE m.since <= clock /\ m.since < check'[m.job].due
        BY <2>1 DEF BeforeDue
    <3>1. m.since <= clock /\ m.since \in Nat /\ m.job \in Jobs
        BY TimesTyped DEF MonitoringRuns, BeforeDue
    <3>2. check'[m.job].due = clock + Interval[m.job] /\ Interval[m.job] \in Nat \ {0}
        BY <2>2, <3>1, IntervalPositive
    <3> QED
        BY <1>1, <3>1, <3>2
  <2> QED
      BY <1>2, <2>1, <2>2, <2>3 DEF MonitoringRuns
<1>9. ASSUME NEW j \in Jobs, StartCheck(j) PROVE MonitoringRuns'
  <2>1. PICK enabled \in SUBSET Watched :
            check' = [check EXCEPT ![j] =
                [at |-> "loop", due |-> clock + Interval[j], since |-> clock,
                 todo |-> IF j = "silence" THEN enabled \cap Silent ELSE enabled, passed |-> {}, made |-> {}]]
      BY <1>9 DEF StartCheck
  <2>2. PICK todo \in SUBSET Watched : todo = IF j = "silence" THEN enabled \cap Silent ELSE enabled
      OBVIOUS
  <2>3. PICK due \in 0..(MaxClock + HourTicks) : due = clock + Interval[j] /\ clock < due
      BY <1>1, IntervalPositive DEF Ticks
  <2>4. PICK h : h = [at |-> "loop", due |-> due, since |-> clock, todo |-> todo, passed |-> {}, made |-> {}]
      OBVIOUS
  <2>5. h \in CheckRun /\ check' = [check EXCEPT ![j] = h]
      BY <1>1, <2>1, <2>2, <2>3, <2>4 DEF CheckRun
  <2>6. h.at = "loop" /\ h.due = due /\ h.since = clock /\ h.todo = todo /\ h.passed = {} /\ h.made = {}
      BY <2>4
  <2>7. check[j].due <= clock /\ UNCHANGED <<clock, lastEvent, windows, created, recorded, alerts>>
      BY <1>9 DEF StartCheck
  <2>8. \A s \in Watched : \A m \in recorded[s] : m.job = j => m.since < clock /\ m.since \in Nat
      BY <1>1, <2>7, TimesTyped DEF MonitoringRuns, BeforeDue
  <2>9. \A s \in todo : \A m \in recorded[s] : m.job = j => m.since # clock
      BY <1>1, <2>8
  <2>10. RunHeld(j, h)
      BY <1>1, <2>3, <2>6, <2>9 DEF RunHeld
  <2>11. check[j].due <= h.due
      BY <1>1, <2>3, <2>6, <2>7
  <2> QED
      BY <1>2, <2>5, <2>7, <2>10, <2>11, RunMoves
<1>10. ASSUME NEW j \in Jobs, check' = [check EXCEPT ![j] = RestingCheck(check[j].due)],
              UNCHANGED <<clock, lastEvent, windows, created, recorded>>, alerts' \in [Watched -> SUBSET Member]
       PROVE  MonitoringRuns'
  <2>1. PICK due \in 0..(MaxClock + HourTicks) : due = check[j].due /\ due > 0
      BY <1>1
  <2>2. PICK h : h = RestingCheck(due)
      OBVIOUS
  <2>3. h \in CheckRun /\ RunHeld(j, h) /\ h.due = due
      BY <1>1, <2>1, <2>2, RestingTyped, RestingHeld DEF RestingCheck
  <2>4. check' = [check EXCEPT ![j] = h] /\ check[j].due <= h.due
      BY <1>10, <2>1, <2>2, <2>3
  <2> QED
      BY <1>10, <2>3, <2>4, RunMoves
<1>11. ASSUME NEW j \in Jobs, CommitCheck(j) PROVE MonitoringRuns'
  <2>1. alerts' = [s \in Watched |-> alerts[s] \cup {m \in recorded[s] : <<s, m>> \in check[j].made}]
      BY <1>11 DEF CommitCheck
  <2>2. alerts' \in [Watched -> SUBSET Member]
      BY <1>2, <2>1
  <2> QED
      BY <1>10, <1>11, <2>2 DEF CommitCheck
<1>12. ASSUME NEW j \in Jobs, FailCheck(j) PROVE MonitoringRuns'
    BY <1>2, <1>10, <1>12 DEF FailCheck
<1> QED
    BY <1>3, <1>4, <1>5, <1>6, <1>7, <1>8, <1>9, <1>11, <1>12, GateRuns, InsertRuns DEF MonitoringNext

LEMMA MonitoringTyped == MonitoringInv /\ MonitoringRuns => MonitoringTypeOK
    BY DEF MonitoringInv, MonitoringRuns, MonitoringTypeOK, RunHeld, SourceBounded

\* For any sources and any hour: what a job says it has made is on record, and a transaction
\* records a source once at most.
THEOREM MonitoringTypeCorrect == MonitoringSpec => []MonitoringTypeOK
    BY MonitoringTyped, MonitoringInvNext, MonitoringInitInv, MonitoringRunsInit, MonitoringRunsNext, PTL
       DEF MonitoringSpec

-----------------------------------------------------------------------------
(* TokenBudget: the counters of a day and the balance of each job *)

\* A job that may still run has failed at most once: Dramatiq has one retry.
MayStillRun == \A c \in Calls : pc[c] # "over" => failures[c] <= 1

Inv == TypeOK /\ MayStillRun /\ ReservedWithinCap /\ AnswersPaidFor

-----------------------------------------------------------------------------
(* The two operations on the counters *)

\* What the worker reserves is at least the estimate it will take off later.
LEMMA ReservedCoversEstimate ==
    ASSUME NEW c \in Calls
    PROVE  Reserved(c) \in Nat /\ Reserved(c) >= Estimate[c]
<1>1. Estimate[c] \in Nat
    BY TokensNatural
<1>2. (6 * Estimate[c]) \div 5 \in Nat /\ (6 * Estimate[c]) \div 5 >= Estimate[c]
    BY <1>1
<1> QED
    BY <1>1, <1>2 DEF Reserved

\* A reservation keeps the types and the bound, and adds to its job's side of
\* the balance alone.
LEMMA ReserveKeeps ==
    ASSUME TypeOK, ReservedWithinCap, NEW c \in Calls, NEW n \in Nat, Reserve(c, n)
    PROVE  /\ spent' \in [Days -> Int] /\ paid' \in [Calls -> Int]
           /\ overrun' = overrun /\ heard' = heard
           /\ \A d \in Days : spent'[d] <= Cap + overrun[d]
           /\ paid'[c] = paid[c] + n /\ \A e \in Calls \ {c} : paid'[e] = paid[e]
<1>1. Cap \in Nat
    BY TokensNatural
<1>2. \A d \in Days : spent[d] \in Int /\ overrun[d] \in Nat /\ spent[d] <= Cap + overrun[d]
    BY DEF TypeOK, ReservedWithinCap
<1>3. today \in Days /\ spent \in [Days -> Int] /\ paid \in [Calls -> Int]
    BY DEF TypeOK
<1>4. spent[today] + n <= Cap
    BY DEF Reserve, Allows
<1>5. spent' = [spent EXCEPT ![today] = @ + n] /\ paid' = [paid EXCEPT ![c] = @ + n]
    BY DEF Reserve
<1>6. overrun' = overrun /\ heard' = heard
    BY DEF Reserve
<1>7. ASSUME NEW d \in Days PROVE spent'[d] <= Cap + overrun[d]
    <2>1. CASE d = today
        <3>1. spent'[d] = spent[d] + n
            BY <1>3, <1>5, <2>1
        <3> QED
            BY <1>1, <1>2, <1>4, <2>1, <3>1
    <2>2. CASE d # today
        BY <1>2, <1>3, <1>5, <2>2
    <2> QED
        BY <2>1, <2>2
<1> QED
    BY <1>3, <1>5, <1>6, <1>7

-----------------------------------------------------------------------------
(* The invariant *)

LEMMA InitInv == Init => Inv
    BY TokensNatural, BoundsNatural DEF Init, Inv, MayStillRun, TypeOK, ReservedWithinCap, AnswersPaidFor, Days

\* A step that leaves the counters and the balance alone, and puts no job in its
\* call to the model, keeps both properties.
LEMMA Bystander ==
    ASSUME Inv, TypeOK', UNCHANGED <<spent, history>>,
           \A c \in Calls : pc'[c] = "calling" => pc[c] = "calling"
    PROVE  ReservedWithinCap' /\ AnswersPaidFor'
<1>1. ReservedWithinCap'
    BY DEF Inv, ReservedWithinCap, history
<1>2. \A c \in Calls : paid[c] \in Int /\ heard[c] \in Nat /\ Estimate[c] \in Nat
    BY TokensNatural DEF Inv, TypeOK
<1>3. ASSUME NEW c \in Calls
      PROVE paid[c] >= heard[c] + (IF pc'[c] = "calling" THEN Estimate[c] ELSE 0)
    BY <1>2 DEF Inv, AnswersPaidFor
<1> QED
    BY <1>1, <1>3 DEF AnswersPaidFor, history

LEMMA RetriesBounded ==
    ASSUME TypeOK, MayStillRun, [Next]_vars
    PROVE  MayStillRun'
<1>1. ASSUME NEW c \in Calls, Fail(c) PROVE MayStillRun'
    BY <1>1 DEF Fail, MayStillRun, TypeOK
<1>2. ASSUME NEW c \in Calls,
             \/ AskForSummary(c) \/ RefuseSummary(c) \/ AskUnreserved(c) \/ Begin(c)
             \/ Decline(c) \/ Record(c) \/ Finish(c)
      PROVE MayStillRun'
    <2>1. failures' = failures
        BY <1>2 DEF AskForSummary, RefuseSummary, AskUnreserved, Begin, Decline, Record, Finish
    <2>2. \A e \in Calls : pc'[e] # "over" => pc[e] # "over"
        BY <1>2 DEF AskForSummary, RefuseSummary, AskUnreserved, Begin, Decline, Record, Finish,
                    Step, TypeOK
    <2> QED
        BY <2>1, <2>2 DEF MayStillRun
<1>3. CASE Crash \/ Midnight \/ UNCHANGED vars
    <2>1. failures' = failures /\ \A e \in Calls : pc'[e] # "over" => pc[e] # "over"
        BY <1>3 DEF Crash, Midnight, vars, jobs
    <2> QED
        BY <2>1 DEF MayStillRun
<1> QED
    BY <1>1, <1>2, <1>3 DEF Next

LEMMA NextInv == Inv /\ [Next]_vars => Inv'
<1> SUFFICES ASSUME Inv, [Next]_vars PROVE Inv'
    OBVIOUS
<1> USE DEF Inv
<1>0. \A c \in Calls : paid[c] \in Int /\ heard[c] \in Nat /\ Estimate[c] \in Nat
    BY TokensNatural DEF TypeOK
<1>m. MayStillRun'
    BY RetriesBounded
<1>1. ASSUME NEW c \in Calls, AskForSummary(c) PROVE Inv'
    <2>1. Reserve(c, Flat) /\ Flat \in Nat
        BY <1>1, TokensNatural DEF AskForSummary
    <2>2. /\ spent' \in [Days -> Int] /\ paid' \in [Calls -> Int]
          /\ overrun' = overrun /\ heard' = heard
          /\ \A d \in Days : spent'[d] <= Cap + overrun[d]
          /\ paid'[c] = paid[c] + Flat /\ \A e \in Calls \ {c} : paid'[e] = paid[e]
        BY <2>1, ReserveKeeps
    <2>3. TypeOK'
        BY <1>1, <2>2 DEF TypeOK, AskForSummary, Step
    <2>4. ReservedWithinCap'
        BY <2>2 DEF ReservedWithinCap
    <2>5. \A e \in Calls : pc'[e] = "calling" => pc[e] = "calling"
        BY <1>1 DEF AskForSummary, Step, TypeOK
    <2>6. ASSUME NEW e \in Calls
          PROVE paid'[e] >= heard[e] + (IF pc'[e] = "calling" THEN Estimate[e] ELSE 0)
        BY <1>0, <2>1, <2>2, <2>5 DEF AnswersPaidFor
    <2> QED
        BY <1>m, <2>2, <2>3, <2>4, <2>6 DEF AnswersPaidFor
<1>2. ASSUME NEW c \in Calls, Begin(c) PROVE Inv'
    <2>1. Reserve(c, Reserved(c)) /\ Reserved(c) \in Nat /\ Reserved(c) >= Estimate[c]
        BY <1>2, ReservedCoversEstimate DEF Begin
    <2>2. /\ spent' \in [Days -> Int] /\ paid' \in [Calls -> Int]
          /\ overrun' = overrun /\ heard' = heard
          /\ \A d \in Days : spent'[d] <= Cap + overrun[d]
          /\ paid'[c] = paid[c] + Reserved(c) /\ \A e \in Calls \ {c} : paid'[e] = paid[e]
        BY <2>1, ReserveKeeps
    <2>3. TypeOK'
        BY <1>2, <2>2 DEF TypeOK, Begin, Step
    <2>4. ReservedWithinCap'
        BY <2>2 DEF ReservedWithinCap
    <2>5. pc[c] = "queued" /\ \A e \in Calls \ {c} : pc'[e] = pc[e]
        BY <1>2 DEF Begin, Step, TypeOK
    <2>6. ASSUME NEW e \in Calls
          PROVE paid'[e] >= heard[e] + (IF pc'[e] = "calling" THEN Estimate[e] ELSE 0)
        BY <1>0, <2>1, <2>2, <2>5 DEF AnswersPaidFor
    <2> QED
        BY <1>m, <2>2, <2>3, <2>4, <2>6 DEF AnswersPaidFor
<1>3. ASSUME NEW c \in Calls, Record(c) PROVE Inv'
    <2>1. PICK n \in Answers :
              /\ RecordActual(c, n - Estimate[c])
              /\ overrun' = [overrun EXCEPT ![today] = IF n > Estimate[c] THEN @ + n - Estimate[c] ELSE @]
              /\ heard' = [heard EXCEPT ![c] = @ + n]
        BY <1>3 DEF Record
    <2>2. n \in Nat /\ Cap \in Nat
        BY TokensNatural
    <2>3. /\ spent' = [spent EXCEPT ![today] = @ + (n - Estimate[c])]
          /\ paid' = [paid EXCEPT ![c] = @ + (n - Estimate[c])]
        BY <2>1 DEF RecordActual
    <2>4. TypeOK'
        BY <1>0, <1>3, <2>1, <2>2, <2>3 DEF TypeOK, Record, Step
    <2>5. ASSUME NEW d \in Days PROVE spent'[d] <= Cap + overrun'[d]
        <3>1. spent[d] \in Int /\ overrun[d] \in Nat /\ spent[d] <= Cap + overrun[d]
            BY DEF TypeOK, ReservedWithinCap
        <3>2. CASE d = today
            <4>1. /\ spent'[d] = spent[d] + (n - Estimate[c])
                  /\ overrun'[d] = IF n > Estimate[c] THEN overrun[d] + n - Estimate[c] ELSE overrun[d]
                BY <2>1, <2>3, <3>2 DEF TypeOK
            <4> QED
                BY <1>0, <2>2, <3>1, <4>1
        <3>3. CASE d # today
            BY <2>1, <2>3, <3>1, <3>3 DEF TypeOK
        <3> QED
            BY <3>2, <3>3
    <2>6. pc[c] = "calling" /\ pc'[c] = "recorded" /\ \A e \in Calls \ {c} : pc'[e] = pc[e]
        BY <1>3 DEF Record, Step, TypeOK
    <2>7. ASSUME NEW e \in Calls
          PROVE paid'[e] >= heard'[e] + (IF pc'[e] = "calling" THEN Estimate[e] ELSE 0)
        <3>1. CASE e = c
            <4>1. paid'[c] = paid[c] + (n - Estimate[c]) /\ heard'[c] = heard[c] + n
                BY <2>1, <2>3 DEF TypeOK
            <4>2. paid[c] >= heard[c] + Estimate[c]
                BY <2>6 DEF AnswersPaidFor
            <4> QED
                BY <1>0, <2>2, <2>6, <3>1, <4>1, <4>2
        <3>2. CASE e # c
            <4>1. paid'[e] = paid[e] /\ heard'[e] = heard[e] /\ pc'[e] = pc[e]
                BY <2>1, <2>3, <2>6, <3>2 DEF TypeOK
            <4> QED
                BY <4>1 DEF AnswersPaidFor
        <3> QED
            BY <3>1, <3>2
    <2> QED
        BY <1>m, <2>4, <2>5, <2>7 DEF ReservedWithinCap, AnswersPaidFor
<1>4. ASSUME NEW c \in Calls,
             RefuseSummary(c) \/ AskUnreserved(c) \/ Decline(c) \/ Finish(c)
      PROVE Inv'
    <2>1. TypeOK' /\ UNCHANGED <<spent, history>>
        BY <1>4 DEF TypeOK, RefuseSummary, AskUnreserved, Decline, Finish, Step, history
    <2>2. \A e \in Calls : pc'[e] = "calling" => pc[e] = "calling"
        BY <1>4 DEF TypeOK, RefuseSummary, AskUnreserved, Decline, Finish, Step
    <2> QED
        BY <1>m, <2>1, <2>2, Bystander
<1>5. ASSUME NEW c \in Calls, Fail(c) PROVE Inv'
    <2>1. failures'[c] \in 0..2
        BY <1>5 DEF Fail, TypeOK, MayStillRun
    <2>2. TypeOK' /\ UNCHANGED <<spent, history>>
        BY <1>5, <2>1 DEF TypeOK, Fail, history
    <2>3. \A e \in Calls : pc'[e] = "calling" => pc[e] = "calling"
        BY <1>5 DEF Fail, TypeOK
    <2> QED
        BY <1>m, <2>2, <2>3, Bystander
<1>6. CASE Crash
    <2>1. TypeOK' /\ UNCHANGED <<spent, history>>
        BY <1>6, BoundsNatural DEF TypeOK, Crash, history
    <2>2. \A e \in Calls : pc'[e] = "calling" => pc[e] = "calling"
        BY <1>6 DEF Crash
    <2> QED
        BY <1>m, <2>1, <2>2, Bystander
<1>7. CASE Midnight
    <2>1. TypeOK' /\ UNCHANGED <<spent, history>>
        BY <1>7, BoundsNatural DEF TypeOK, Midnight, Days, jobs, history
    <2>2. \A e \in Calls : pc'[e] = "calling" => pc[e] = "calling"
        BY <1>7 DEF Midnight, jobs
    <2> QED
        BY <1>m, <2>1, <2>2, Bystander
<1>8. CASE UNCHANGED vars
    <2>1. TypeOK' /\ UNCHANGED <<spent, history>>
        BY <1>8 DEF TypeOK, vars, jobs, history
    <2> QED
        BY <1>8, <1>m, <2>1, Bystander DEF vars, jobs
<1> QED
    BY <1>1, <1>2, <1>3, <1>4, <1>5, <1>6, <1>7, <1>8 DEF Next

-----------------------------------------------------------------------------
(* Theorems *)

LEMMA SpecInv == Spec => []Inv
    BY InitInv, NextInv, PTL DEF Spec

\* The variables keep their types; no job fails more often than Dramatiq runs it.
THEOREM TypeCorrect == Spec => []TypeOK
    BY SpecInv, PTL DEF Inv

\* No reservation takes a day's counter over the cap, for any mix of jobs.
THEOREM CapCorrect == Spec => []ReservedWithinCap
    BY SpecInv, PTL DEF Inv

\* No job is ever given back more than it has reserved.
THEOREM PaidCorrect == Spec => []AnswersPaidFor
    BY SpecInv, PTL DEF Inv

\* Both together, as the run checks them.
THEOREM BudgetCorrect == Spec => []BudgetHolds
    BY CapCorrect, PaidCorrect, PTL DEF BudgetHolds

-----------------------------------------------------------------------------
(* The parts side by side *)

BudgetPart == intel = "budget" => Inv
IngestPart == intel = "ingest" => IngestInv /\ IngestCounts
JobsPart == intel = "jobs" => JobsInv
EnrichmentPart == intel = "enrichment" => CapsInv
MonitoringPart == intel = "monitoring" => MonitoringInv /\ MonitoringRuns
SandboxPart == intel = "sandbox" => SandboxInv /\ SandboxCounts

IntelInv == BudgetPart /\ IngestPart /\ JobsPart /\ EnrichmentPart /\ MonitoringPart /\ SandboxPart

LEMMA IntelInitInv == IntelInit => IntelInv
BY InitInv, IngestInitInv, IngestCountsInit, JobsInit, CapsInit, MonitoringInitInv, MonitoringRunsInit,
   SandboxInitInv, SandboxCountsInit
   DEF IntelInit, IntelInv, BudgetPart, IngestPart, JobsPart, EnrichmentPart, MonitoringPart, SandboxPart

\* Each part takes its steps, and rests while another does.
LEMMA IntelNextInv == IntelInv /\ [IntelNext]_intelVars => IntelInv'
<1> SUFFICES ASSUME IntelInv, [IntelNext]_intelVars PROVE IntelInv'
    OBVIOUS
<1>1. intel' = intel
    BY DEF IntelNext, intelVars
<1>2. BudgetPart'
  <2> SUFFICES ASSUME intel = "budget" PROVE Inv'
      BY <1>1 DEF BudgetPart
  <2>1. [Next]_vars
      BY DEF IntelNext, intelVars, sourcesVars
  <2> QED
      BY <2>1, NextInv DEF IntelInv, BudgetPart
<1>3. IngestPart'
  <2> SUFFICES ASSUME intel = "ingest" PROVE IngestInv' /\ IngestCounts'
      BY <1>1 DEF IngestPart
  <2>1. [IngestNext]_ingestVars
      BY DEF IntelNext, intelVars, sourcesVars
  <2> QED
      BY <2>1, IngestNextInv, IngestCountsNext DEF IntelInv, IngestPart
<1>4. JobsPart'
  <2> SUFFICES ASSUME intel = "jobs" PROVE JobsInv'
      BY <1>1 DEF JobsPart
  <2>1. [SourceJobsNext]_sourceJobsVars
      BY DEF IntelNext, intelVars, sourcesVars
  <2> QED
      BY <2>1, JobsInvNext DEF IntelInv, JobsPart
<1>5. EnrichmentPart'
  <2> SUFFICES ASSUME intel = "enrichment" PROVE CapsInv'
      BY <1>1 DEF EnrichmentPart
  <2>1. [EnrichmentNext]_enrichmentVars
      BY DEF IntelNext, intelVars, sourcesVars
  <2> QED
      BY <2>1, CapsInvNext DEF IntelInv, EnrichmentPart
<1>6. MonitoringPart'
  <2> SUFFICES ASSUME intel = "monitoring" PROVE MonitoringInv' /\ MonitoringRuns'
      BY <1>1 DEF MonitoringPart
  <2>1. [MonitoringNext]_monitoringVars
      BY DEF IntelNext, intelVars, followUpVars
  <2> QED
      BY <2>1, MonitoringInvNext, MonitoringRunsNext DEF IntelInv, MonitoringPart
<1>7. SandboxPart'
  <2> SUFFICES ASSUME intel = "sandbox" PROVE SandboxInv' /\ SandboxCounts'
      BY <1>1 DEF SandboxPart
  <2>1. [SandboxNext]_sandboxVars
      BY DEF IntelNext, intelVars, followUpVars
  <2> QED
      BY <2>1, SandboxNextInv, SandboxCountsNext DEF IntelInv, SandboxPart
<1> QED
    BY <1>2, <1>3, <1>4, <1>5, <1>6, <1>7 DEF IntelInv

\* For every value of the constants, the part that runs keeps its state well formed while the
\* others rest.
THEOREM IntelTypeCorrect == IntelSpec => []IntelTypeOK
<1>1. IntelInv => IntelTypeOK
    BY SandboxTyped, MonitoringTyped, IngestTyped
       DEF IntelInv, IntelTypeOK, BudgetPart, IngestPart, JobsPart, EnrichmentPart, MonitoringPart, SandboxPart,
           Inv, JobsInv, CapsInv
<1> QED
    BY <1>1, IntelInitInv, IntelNextInv, PTL DEF IntelSpec
=============================================================================
