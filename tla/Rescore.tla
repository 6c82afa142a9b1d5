------------------------------ MODULE Rescore ------------------------------
(***************************************************************************)
(* The scores of a project's events: project_scoring_rules, which          *)
(* put_scoring_rules of routers/projects.py replaces, and                  *)
(* event_score_overrides, which the actor rescore_project of               *)
(* workers/scoring.py adds to (services/scoring/rescore.py).  An event     *)
(* shows the override with the highest version; rules and rescores count   *)
(* on one counter, the version in the row of the rules.                    *)
(*                                                                         *)
(* The rules are the number of the PUT that wrote them, 0 being the        *)
(* defaults of the code.  A rescore reads the rules, takes a version and   *)
(* writes its overrides in batches, each with a commit of its own.         *)
(***************************************************************************)
EXTENDS Integers, FiniteSets

CONSTANTS
    Batches,   \* the pages of events that a rescore goes through
    Threads,   \* worker threads on the queue scoring
    MaxPuts,   \* bound: rules that are saved
    MaxAsks,   \* bound: rescores that are asked for by hand
    MaxCrashes,  \* bound: exceptions and restarts of the worker
    MaxInAll   \* bound: the three together

ASSUME BoundsNatural == MaxPuts \in Nat /\ MaxAsks \in Nat /\ MaxCrashes \in Nat /\ MaxInAll \in Nat
ASSUME ThreadsFinite == IsFiniteSet(Threads)
ASSUME SomeBatches == Batches \in Nat \ {0}

VARIABLES
    rules,      \* the row: its version, and the rules in it; version 0: no row
    overrides,  \* the rules that the events of a batch were scored by, by batch and version
    queue,      \* messages of rescore_project not yet taken, by how often each has failed
    thread,     \* the rescores under way
    put,        \* put_scoring_rules between its read and its commit: the version read
    flag,       \* whether rescore:project:{id}:active is set
    puts, asks, crashes,
    behind,     \* history: a version was taken or saved that others had gone past
    givenUp     \* history: a message was not sent again after its last attempt

rescoreCounters == <<puts, asks, crashes>>
rescoreVars == <<rules, overrides, queue, thread, put, flag, rescoreCounters, behind, givenUp>>

NoPut == -1
Defaults == 0

Pages == 1..Batches

Retries == 2       \* max_retries of the actor:
Tries == 0..Retries   \* a message that has failed so often is still sent

\* Where a rescore is.
RescoreRun == [at : {"idle", "flagged", "read", "writing", "failed", "done"},
           tries : Tries,             \* how often its message had failed
           page : 1..(Batches + 1),   \* the next batch
           rules : 0..MaxPuts,        \* as they were read
           version : Nat]             \* read, then taken
Override == [page : Pages, version : Nat, rules : 0..MaxPuts]
NoRescore == [at |-> "idle", tries |-> 0, page |-> 1, rules |-> Defaults, version |-> 0]

\* The rows, the messages and the rescores.
RescoreTypeOK ==
    /\ rules \in [version : Nat, content : 0..MaxPuts]
    /\ overrides \subseteq Override
    /\ queue \in [Tries -> Nat]
    /\ thread \in [Threads -> RescoreRun]
    /\ \A t \in Threads : thread[t].at = "idle" => thread[t] = NoRescore
    /\ put \in Nat \cup {NoPut}
    /\ flag \in BOOLEAN
    /\ puts \in 0..MaxPuts /\ asks \in 0..MaxAsks /\ crashes \in 0..MaxCrashes
    /\ behind \in BOOLEAN /\ givenUp \in BOOLEAN

RescoreInit ==
    /\ rules = [version |-> 0, content |-> Defaults]
    /\ overrides = {}
    /\ queue = [n \in Tries |-> 0]
    /\ thread = [t \in Threads |-> NoRescore]
    /\ put = NoPut
    /\ flag = FALSE
    /\ puts = 0 /\ asks = 0 /\ crashes = 0
    /\ behind = FALSE /\ givenUp = FALSE

-----------------------------------------------------------------------------
(* routers/projects.py *)

\* What the run still has room for.
SomeLeft == puts + asks + crashes < MaxInAll

\* rescore_project.send.
Send == queue' = [queue EXCEPT ![0] = @ + 1]

\* put_scoring_rules reads the row, ...
ReadRules ==
    /\ put = NoPut /\ puts < MaxPuts /\ SomeLeft
    /\ put' = rules.version
    /\ puts' = puts + 1
    /\ UNCHANGED <<rules, overrides, queue, thread, flag, asks, crashes, behind, givenUp>>

HoldsRow(t) == thread[t].at = "writing" /\ thread[t].page = 1
RowLocked == \E t \in Threads : HoldsRow(t)

\* The versions that overrides have, or that a rescore is writing.
ClaimedVersions ==
    {thread[t].version : t \in {u \in Threads : thread[u].at = "writing"}} \cup {o.version : o \in overrides}

\* ... adds 1 to its version, commits, and only then sends the message.  A rescore
\* that has taken a version and not yet committed makes it wait.
CommitRules ==
    /\ put # NoPut /\ ~RowLocked
    /\ put = 0 => rules.version = 0
    /\ rules' = [version |-> put + 1, content |-> puts]
    /\ behind' = (behind \/ \E v \in ClaimedVersions : put + 1 < v)
    /\ put' = NoPut
    /\ Send
    /\ UNCHANGED <<overrides, thread, flag, rescoreCounters, givenUp>>

\* A row has been inserted since: IntegrityError.
LosesInsert ==
    /\ put = 0 /\ rules.version # 0
    /\ put' = NoPut
    /\ UNCHANGED <<rules, overrides, queue, thread, flag, rescoreCounters, behind, givenUp>>

\* trigger_rescore.
TriggerRescore ==
    /\ asks < MaxAsks /\ SomeLeft
    /\ asks' = asks + 1
    /\ Send
    /\ UNCHANGED <<rules, overrides, thread, put, flag, puts, crashes, behind, givenUp>>

-----------------------------------------------------------------------------
(* workers/scoring.py, services/scoring/rescore.py *)

\* _async_rescore sets the flag, ...
TakeMessage(t) ==
    /\ thread[t].at = "idle"
    /\ \E n \in Tries :
          /\ queue[n] > 0
          /\ queue' = [queue EXCEPT ![n] = @ - 1]
          /\ thread' = [thread EXCEPT ![t].at = "flagged", ![t].tries = n]
    /\ flag' = TRUE
    /\ UNCHANGED <<rules, overrides, put, rescoreCounters, behind, givenUp>>

\* ... rescore_project_events reads the rules, ...
ReadForRescore(t) ==
    /\ thread[t].at = "flagged"
    /\ thread' = [thread EXCEPT ![t].at = "read", ![t].rules = rules.content, ![t].version = rules.version]
    /\ UNCHANGED <<rules, overrides, queue, put, flag, rescoreCounters, behind, givenUp>>

NextVersion(read) == IF read = 0 THEN 2 ELSE read + 1

\* (mutant) Every run takes the version that it has read.
TakeSame(t) ==
    /\ thread[t].at = "read" /\ ~RowLocked
    /\ thread[t].version = 0 => rules.version = 0
    /\ thread' = [thread EXCEPT ![t].at = "writing", ![t].version = IF @ = 0 THEN 1 ELSE @]
    /\ UNCHANGED <<rules, overrides, queue, put, flag, rescoreCounters, behind, givenUp>>

\* ... and takes the next version, after a default row if there was none.  From the
\* UPDATE to the first commit the row is locked, and others read what it was.
TakeVersion(t) ==
    /\ thread[t].at = "read" /\ ~RowLocked
    /\ thread[t].version = 0 => rules.version = 0
    /\ thread' = [thread EXCEPT ![t].at = "writing", ![t].version = NextVersion(@)]
    /\ behind' = (behind \/ \E v \in ClaimedVersions : NextVersion(thread[t].version) <= v)
    /\ UNCHANGED <<rules, overrides, queue, put, flag, rescoreCounters, givenUp>>

\* INSERT ... ON CONFLICT DO NOTHING.
AddOverride(b, v, content) ==
    overrides' = IF \E o \in overrides : o.page = b /\ o.version = v THEN overrides
                 ELSE overrides \cup {[page |-> b, version |-> v, rules |-> content]}

\* A batch is written and committed, the first one with the new version.
WriteBatch(t) ==
    /\ thread[t].at = "writing"
    /\ AddOverride(thread[t].page, thread[t].version, thread[t].rules)
    /\ rules' = IF thread[t].page = 1 THEN [rules EXCEPT !.version = thread[t].version] ELSE rules
    /\ thread' = [thread EXCEPT ![t].page = @ + 1,
                                ![t].at = IF thread[t].page = Batches THEN "done" ELSE @]
    /\ UNCHANGED <<queue, put, flag, rescoreCounters, behind, givenUp>>

\* (mutant) The flag is left to its TTL.
FinishFlagged(t) ==
    /\ thread[t].at = "done"
    /\ thread' = [thread EXCEPT ![t] = NoRescore]
    /\ UNCHANGED <<rules, overrides, queue, put, flag, rescoreCounters, behind, givenUp>>

\* The finally block deletes the flag, whoever set it.
FinishRescore(t) ==
    /\ thread[t].at = "done"
    /\ thread' = [thread EXCEPT ![t] = NoRescore]
    /\ flag' = FALSE
    /\ UNCHANGED <<rules, overrides, queue, put, rescoreCounters, behind, givenUp>>

LosesDefault(t) == thread[t].at = "read" /\ thread[t].version = 0 /\ rules.version # 0

\* An exception, or the IntegrityError when two insert the default row: what is not
\* committed is rolled back.
FailRescore(t) ==
    /\ thread[t].at \in {"flagged", "read", "writing"}
    /\ \/ LosesDefault(t) /\ UNCHANGED crashes
       \/ crashes < MaxCrashes /\ SomeLeft /\ crashes' = crashes + 1
    /\ thread' = [thread EXCEPT ![t].at = "failed"]
    /\ UNCHANGED <<rules, overrides, queue, put, flag, puts, asks, behind, givenUp>>

\* The finally block deletes the flag; then Dramatiq sends the message again, if it may.
RetryRescore(t) ==
    /\ thread[t].at = "failed"
    /\ \/ /\ thread[t].tries < Retries
          /\ queue' = [queue EXCEPT ![thread[t].tries + 1] = @ + 1]
          /\ UNCHANGED givenUp
       \/ /\ thread[t].tries = Retries
          /\ givenUp' = TRUE
          /\ UNCHANGED queue
    /\ thread' = [thread EXCEPT ![t] = NoRescore]
    /\ flag' = FALSE
    /\ UNCHANGED <<rules, overrides, put, rescoreCounters, behind>>

\* The worker dies: every message under way is delivered again, which is no retry, and
\* the flag stays (its TTL of 1800 seconds is not modelled).
BusyWith(n) == {t \in Threads : thread[t].at # "idle" /\ thread[t].tries = n}
CrashScoring ==
    /\ crashes < MaxCrashes /\ SomeLeft
    /\ crashes' = crashes + 1
    /\ queue' = [n \in Tries |-> queue[n] + Cardinality(BusyWith(n))]
    /\ thread' = [t \in Threads |-> NoRescore]
    /\ UNCHANGED <<rules, overrides, put, flag, puts, asks, behind, givenUp>>

RescoreNext ==
    \/ ReadRules \/ CommitRules \/ LosesInsert \/ TriggerRescore \/ CrashScoring
    \/ \E t \in Threads : \/ TakeMessage(t) \/ ReadForRescore(t) \/ TakeVersion(t)
                          \/ WriteBatch(t) \/ FinishRescore(t) \/ FailRescore(t)
                          \/ RetryRescore(t)

RescoreSpec == RescoreInit /\ [][RescoreNext]_rescoreVars

-----------------------------------------------------------------------------
(* Properties *)

NoneWaits == \A n \in Tries : queue[n] = 0
RescoreQuiet == NoneWaits /\ put = NoPut /\ \A t \in Threads : thread[t].at = "idle"

\* What the events of its batch show: the override with the highest version.
Shown(o) == \A p \in overrides : p.page = o.page => p.version <= o.version

\* When nothing is left to do, the events show the scores of the rules that are in
\* force: after rules saved while a rescore ran, rescores side by side, failed and
\* repeated ones, and though a rescore never replaces an override.  Only when a rescore
\* has been given up, or the version in the row has fallen behind the overrides, may
\* they not: put_scoring_rules and rescore_project_events compute it from what they have
\* read.
ShownIsCurrent ==
    RescoreQuiet /\ puts > 0 /\ rules.content # Defaults =>
        behind \/ givenUp \/ \A b \in Pages : \E o \in overrides : o.page = b /\ o.rules = rules.content /\ Shown(o)

\* Whatever rescores overlap, fail or die, once none is left the status says so, without
\* waiting for the TTL: a message that is delivered again deletes the flag of the run
\* that died (_async_rescore, get_rescore_status).
IdleWhenDone == NoneWaits /\ (\A t \in Threads : thread[t].at = "idle") => ~flag

\* Rescores come to rest: the scores are those of the rules, and the status says so.
ScoresSettle == ShownIsCurrent /\ IdleWhenDone
=============================================================================
