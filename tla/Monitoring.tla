----------------------------- MODULE Monitoring -----------------------------
(***************************************************************************)
(* The three jobs that watch the sources (scheduler/monitoring_jobs.py)    *)
(* with their gates: the maintenance windows (services/maintenance.py,     *)
(* routers/admin/maintenance.py) and the sorted set of each source in      *)
(* Redis (services/scoring/burst.py).                                      *)
(*                                                                         *)
(* A job is one transaction over all enabled sources and commits its       *)
(* alerts at the end, while what it records in Redis is there at once.     *)
(* The jobs are threads of one scheduler and overlap; no job overlaps      *)
(* itself.  What the statistics of a source say is any outcome.            *)
(***************************************************************************)
EXTENDS Integers, FiniteSets

CONSTANTS
    Watched,     \* sources
    AlertCap,    \* BURST_CAP_PER_SOURCE
    Sla,         \* the longest silence that is not reported, in ticks
    HourTicks,   \* BURST_WINDOW_SEC, in ticks; two jobs run every tick, one every hour
    MaxClock,    \* bound: ticks
    MaxWindows   \* bound: maintenance windows that are created

ASSUME MonitoringBounds == {AlertCap, Sla, MaxClock, MaxWindows} \subseteq Nat /\ HourTicks \in Nat \ {0}

VARIABLES
    clock,      \* the time
    lastEvent,  \* sources.last_event_at
    windows,    \* maintenance_windows: pairs of the first and the last tick
    created,    \* how many windows were created
    check,      \* each job
    recorded,   \* the members of each sorted set
    alerts      \* history: those of the alerts that were committed

monitoringVars == <<clock, lastEvent, windows, created, check, recorded, alerts>>

Ticks == 0..MaxClock
Jobs == {"silence", "drift", "parse_error"}
Interval == [j \in Jobs |-> IF j = "drift" THEN HourTicks ELSE 1]

\* A member is one of a kind, by its uuid: here, by the job, its transaction and the time.
Member == [job : Jobs, since : Ticks, at : Ticks]

\* due: when the job runs next; since: when its transaction began; todo: the sources that
\* call for an alert; passed: the one that has passed the gates; made: its alerts.
CheckRun == [at : {"idle", "loop", "insert"}, due : 0..(MaxClock + HourTicks), since : Ticks,
             todo : SUBSET Watched, passed : SUBSET Watched, made : SUBSET (Watched \X Member)]
RestingCheck(due) == [at |-> "idle", due |-> due, since |-> 0, todo |-> {}, passed |-> {}, made |-> {}]

\* An alert is made of a source the job has done with, and is on record; before, a transaction
\* has recorded nothing of it.
MonitoringTypeOK ==
    /\ clock \in Ticks
    /\ lastEvent \in [Watched -> Ticks \cup {-1}]
    /\ windows \subseteq {w \in Ticks \X Ticks : w[1] < w[2]}
    /\ created \in 0..MaxWindows
    /\ check \in [Jobs -> CheckRun]
    /\ \A j \in Jobs : /\ check[j].at = "insert" <=> check[j].passed # {}
                       /\ \A made \in check[j].made : made[1] \notin check[j].todo /\ made[2] \in recorded[made[1]]
                       /\ \A s \in check[j].todo \cup check[j].passed :
                              \A m \in recorded[s] : m.job = j => m.since # check[j].since
    /\ recorded \in [Watched -> SUBSET Member] /\ alerts \in [Watched -> SUBSET Member]
    /\ \A s \in Watched : alerts[s] \subseteq recorded[s]

MonitoringInit ==
    /\ clock = 0
    /\ lastEvent = [s \in Watched |-> -1]
    /\ windows = {} /\ created = 0
    /\ check = [j \in Jobs |-> RestingCheck(Interval[j])]
    /\ recorded = [s \in Watched |-> {}]
    /\ alerts = recorded

-----------------------------------------------------------------------------
(* Sources and administrators *)

\* An event of the source is stored (bump_last_event_at).
EventArrives(s) ==
    /\ lastEvent' = [lastEvent EXCEPT ![s] = clock]
    /\ UNCHANGED <<clock, windows, created, check, recorded, alerts>>

\* create_window, for any time; its end comes after its start.
CreateWindow ==
    /\ created < MaxWindows
    /\ created' = created + 1
    /\ \E from, to \in Ticks : from < to /\ windows' = windows \cup {<<from, to>>}
    /\ UNCHANGED <<clock, lastEvent, check, recorded, alerts>>

\* delete_window.
DeleteWindow ==
    /\ \E w \in windows : windows' = windows \ {w}
    /\ UNCHANGED <<clock, lastEvent, created, check, recorded, alerts>>

TimePasses ==
    /\ clock < MaxClock
    /\ clock' = clock + 1
    /\ UNCHANGED <<lastEvent, windows, created, check, recorded, alerts>>

-----------------------------------------------------------------------------
(* The jobs *)

\* silence_check_all_job: the source has had an event, too long ago.
Silent == {s \in Watched : lastEvent[s] # -1 /\ clock - lastEvent[s] > Sla}

\* A job reads the enabled sources: which of them are enabled, drift or fail to parse is any set.
StartCheck(j) ==
    /\ check[j].at = "idle" /\ check[j].due <= clock
    /\ \E enabled \in SUBSET Watched :
          check' = [check EXCEPT ![j] =
              [at |-> "loop", due |-> clock + Interval[j], since |-> clock,
               todo |-> IF j = "silence" THEN enabled \cap Silent ELSE enabled,
               passed |-> {}, made |-> {}]]
    /\ UNCHANGED <<clock, lastEvent, windows, created, recorded, alerts>>

\* is_maintenance_active asks for now(), which is when the transaction began, of the rows
\* that are committed by now.
InMaintenance(j) == \E w \in windows : w[1] <= check[j].since /\ check[j].since <= w[2]

InHour(members, t) == Cardinality({m \in members : t - HourTicks < m.at /\ m.at <= t})

\* (mutant) The gate lets one more through.
SuppressedLater(s) == InHour(recorded[s], clock) > AlertCap

\* is_burst_suppressed_key drops what is older than an hour and counts the rest.
Suppressed(s) == InHour(recorded[s], clock) >= AlertCap

\* _dispatch_event asks the gates about one source.
AskGates(j, s) ==
    /\ check[j].at = "loop" /\ s \in check[j].todo
    /\ check' = IF InMaintenance(j) \/ Suppressed(s)
                THEN [check EXCEPT ![j].todo = @ \ {s}]
                ELSE [check EXCEPT ![j].todo = @ \ {s}, ![j].at = "insert", ![j].passed = {s}]
    /\ UNCHANGED <<clock, lastEvent, windows, created, recorded, alerts>>

\* The event is inserted, and record_dispatch_key records it.
InsertAlert(j, s) ==
    /\ check[j].at = "insert" /\ s \in check[j].passed
    /\ LET member == [job |-> j, since |-> check[j].since, at |-> clock] IN
       /\ recorded' = [recorded EXCEPT ![s] = @ \cup {member}]
       /\ check' = [check EXCEPT ![j].at = "loop", ![j].passed = {}, ![j].made = @ \cup {<<s, member>>}]
    /\ UNCHANGED <<clock, lastEvent, windows, created, alerts>>

CommitCheck(j) ==
    /\ check[j].at = "loop" /\ check[j].todo = {}
    /\ alerts' = [s \in Watched |-> alerts[s] \cup {m \in recorded[s] : <<s, m>> \in check[j].made}]
    /\ check' = [check EXCEPT ![j] = RestingCheck(check[j].due)]
    /\ UNCHANGED <<clock, lastEvent, windows, created, recorded>>

\* An exception, say a configuration that does not validate, takes all alerts of the job
\* back, and leaves what is recorded.
FailCheck(j) ==
    /\ check[j].at # "idle"
    /\ check' = [check EXCEPT ![j] = RestingCheck(check[j].due)]
    /\ UNCHANGED <<clock, lastEvent, windows, created, recorded, alerts>>

\* The scheduler dies and starts again (register_monitoring_jobs).
RestartChecks ==
    /\ \E j \in Jobs : check[j].at # "idle"
    /\ check' = [j \in Jobs |-> RestingCheck(clock + Interval[j])]
    /\ UNCHANGED <<clock, lastEvent, windows, created, recorded, alerts>>

MonitoringNext ==
    \/ TimePasses \/ CreateWindow \/ DeleteWindow \/ RestartChecks
    \/ \E s \in Watched : EventArrives(s)
    \/ \E j \in Jobs : StartCheck(j) \/ CommitCheck(j) \/ FailCheck(j)
    \/ \E j \in Jobs, s \in Watched : AskGates(j, s) \/ InsertAlert(j, s)

MonitoringSpec == MonitoringInit /\ [][MonitoringNext]_monitoringVars

-----------------------------------------------------------------------------
(* Properties *)

\* "cap 5/source/hour" (monitoring_jobs.py): in no hour does a source raise more alerts than
\* the cap, but for one of each of the two other jobs that asked at the same time.
AlertsBounded ==
    \A s \in Watched, t \in Ticks : InHour(alerts[s], t) <= AlertCap + Cardinality(Jobs) - 1
=============================================================================
