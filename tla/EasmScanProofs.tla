------------------------- MODULE EasmScanProofs -------------------------
(***************************************************************************)
(* Proofs about EasmScan, for any number of scans, projects, threads and   *)
(* containers and any value of the limits.                                 *)
(***************************************************************************)
EXTENDS EasmScan, FiniteSetTheorems, TLAPS

-----------------------------------------------------------------------------
(* The threads that the semaphore counts *)

LEMMA CountedFinite == IsFiniteSet(Counted) /\ Cardinality(Counted) \in Nat
<1>1. IsFiniteSet(Counted)
  BY WorkersFinite, FS_Subset DEF Counted
<1>. QED
  BY <1>1, FS_CardinalityType

LEMMA CountedFiniteNext == IsFiniteSet(Counted') /\ Cardinality(Counted)' \in Nat
<1>1. IsFiniteSet(Counted')
  BY WorkersFinite, FS_Subset DEF Counted
<1>. QED
  BY <1>1, FS_CardinalityType

\* A thread past its INCR is counted, ...
LEMMA Entering ==
    ASSUME TypeOK, NEW w \in Workers, NEW to \in Labels \ {"idle", "acquire"}, Step(w, "acquire", to)
    PROVE  Cardinality(Counted)' = Cardinality(Counted) + 1
<1>1. Counted' = Counted \cup {w} /\ w \notin Counted
  BY DEF Step, Counted, TypeOK
<1>. QED
  BY <1>1, CountedFinite, FS_AddElement

\* ... until it leaves, ...
LEMMA Leaving ==
    ASSUME TypeOK, NEW w \in Workers, NEW from \in Labels \ {"idle", "acquire"}, Step(w, from, "idle")
    PROVE  Cardinality(Counted)' = Cardinality(Counted) - 1
<1>1. Counted' = Counted \ {w} /\ w \in Counted
  BY DEF Step, Counted, TypeOK
<1>. QED
  BY <1>1, CountedFinite, FS_RemoveElement

\* ... and stays counted in between.
LEMMA Staying ==
    ASSUME TypeOK, NEW w \in Workers, NEW from \in Labels, NEW to \in Labels, Step(w, from, to),
           from \in {"idle", "acquire"} <=> to \in {"idle", "acquire"}
    PROVE  Counted' = Counted
BY DEF Step, Counted, TypeOK

\* Only a lost decrement and a dead process make the counter drift.
Sound == Steady \/ NoDocker \/ \E s \in Scans : PassBlind(s) \/ SendFails(s)

LEMMA DriftStep == TypeOK /\ [Sound]_vars => Drifted' = Drifted
<1> SUFFICES ASSUME TypeOK, [Sound]_vars PROVE Drifted' = Drifted
  OBVIOUS
<1>a. SUFFICES \/ slots' = slots /\ Counted' = Counted
               \/ slots' = slots + 1 /\ Cardinality(Counted)' = Cardinality(Counted) + 1
               \/ slots' = slots - 1 /\ Cardinality(Counted)' = Cardinality(Counted) - 1
  <2>1. slots \in Int /\ Cardinality(Counted) \in Int
    BY CountedFinite DEF TypeOK
  <2>. QED
    BY <2>1 DEF Drifted
<1>1. CASE UNCHANGED <<slots, pc>>
  BY <1>1 DEF Counted
<1>2. ASSUME NEW w \in Workers, Acquire(w) PROVE slots' = slots + 1 /\ Cardinality(Counted)' = Cardinality(Counted) + 1
  BY <1>2, Entering DEF Acquire, Labels
<1>3. ASSUME NEW w \in Workers, Refuse(w) \/ Release(w) PROVE slots' = slots - 1 /\ Cardinality(Counted)' = Cardinality(Counted) - 1
  BY <1>3, Leaving DEF Refuse, Release, Labels
<1>4. ASSUME NEW w \in Workers, Take(w) \/ Reject(w) \/ Launch(w) \/ MarkRunning(w) \/ StreamEnds(w) \/ Finish(w)
      PROVE  slots' = slots /\ Counted' = Counted
  BY <1>4, Staying DEF Take, Reject, Launch, MarkRunning, StreamEnds, Finish, Labels
<1>5. ASSUME NEW w \in Workers, GeneratorCloses(w) \/ StopContainer(w) \/ MarkFailed(w) \/ MarkTimedOut(w)
      PROVE  slots' = slots /\ Counted' = Counted
  BY <1>5, Staying DEF GeneratorCloses, StopContainer, MarkFailed, MarkTimedOut, Labels
<1>6. ASSUME NEW w \in Workers, Throw(w) \/ TimeLimit(w) PROVE slots' = slots /\ Counted' = Counted
  BY <1>6, Staying DEF Throw, TimeLimit, Labels
<1>7. ASSUME NEW w \in Workers, LaunchTimesOut(w) \/ StopFails(w) \/ MarkFails(w) PROVE slots' = slots /\ Counted' = Counted
  BY <1>7, Staying DEF LaunchTimesOut, StopFails, MarkFails, Labels
<1>8. CASE Launches \/ Cancels
  BY <1>8, <1>1 DEF Launches, Cancels, PassChecks, Pass, InsertScan, SendMessage, CancelReads, CancelStops,
                    CancelWrites, work
<1>9. CASE Exits \/ Jobs \/ \E s \in Scans : PassBlind(s) \/ SendFails(s)
  BY <1>9, <1>1 DEF Exits, Jobs, ContainerExits, ReapOrphans, CleanHistory, GraceElapses, PassBlind, Pass, SendFails, work
<1>10. CASE UNCHANGED vars
  BY <1>10, <1>1 DEF vars, work
<1>. QED
  BY <1>2, <1>3, <1>4, <1>5, <1>6, <1>7, <1>8, <1>9, <1>10 DEF Sound, Steady, Interrupts, NoPostgres, NoDocker, Run

LEMMA DriftInit == Init => Drifted = 0
<1> SUFFICES ASSUME Init PROVE Drifted = 0
  OBVIOUS
<1>1. Counted = {}
  BY DEF Init, Counted
<1>. QED
  BY <1>1, FS_EmptySet DEF Init, Drifted

-----------------------------------------------------------------------------
(* Type correctness *)

\* A thread that is not idle works on a scan.
AtWork == \A w \in Workers : pc[w] # "idle" => scan[w] \in Scans

\* TypeOK is not inductive: that the counter stays a natural number depends on
\* its covering the threads that will still decrement it.
Typed == TypeOK /\ AtWork /\ Drifted >= 0

LEMMA TypedInit == Init => Typed
<1> SUFFICES ASSUME Init PROVE Typed
  OBVIOUS
<1>1. TypeOK /\ AtWork
  BY DEF Init, TypeOK, AtWork, Statuses, Labels
<1>. QED
  BY <1>1, DriftInit DEF Typed

\* The counter never falls behind the threads it counts.
LEMMA CoverStep == Typed /\ [Next]_vars => slots' \in Nat /\ Drifted' >= 0
<1> SUFFICES ASSUME Typed, [Next]_vars PROVE slots' \in Nat /\ Drifted' >= 0
  OBVIOUS
<1> USE DEF Typed
<1>1. slots' \in Int
  <2>1. slots \in Int
    BY DEF TypeOK
  <2>2. slots' \in {slots, slots + 1, slots - 1}
    BY DEF Next, Steady, Launches, Cancels, Interrupts, Exits, Jobs, NoPostgres, NoRedis, NoDocker, Run, PassChecks, PassBlind, Pass, InsertScan,
           SendMessage, SendFails, CancelReads, CancelStops, CancelWrites, Take, Acquire, Refuse, Reject, Launch,
           MarkRunning, StreamEnds, Finish, Throw, TimeLimit, GeneratorCloses, LaunchTimesOut, StopContainer,
           MarkFailed, MarkTimedOut, StopFails, MarkFails, Release, DecrFails, Crash, ContainerExits, GraceElapses,
           ReapOrphans, CleanHistory, vars
  <2>. QED
    BY <2>1, <2>2
<1>2. Drifted' >= 0
  <2>1. CASE [Sound]_vars
    BY <2>1, DriftStep
  <2>2. CASE Crash
    <3>1. Counted' = {} /\ slots' = slots
      BY <2>2 DEF Crash, Counted
    <3>. QED
      BY <3>1, FS_EmptySet DEF Drifted, TypeOK
  <2>3. ASSUME NEW w \in Workers, DecrFails(w) PROVE Drifted' >= 0
    <3>1. slots' = slots /\ Cardinality(Counted)' = Cardinality(Counted) - 1
      BY <2>3, Leaving DEF DecrFails, Labels
    <3>2. slots \in Int /\ Cardinality(Counted) \in Int
      BY CountedFinite DEF TypeOK
    <3>. QED
      BY <3>1, <3>2 DEF Drifted
  <2>. QED
    BY <2>1, <2>2, <2>3 DEF Next, NoRedis, Sound
<1>. QED
  BY <1>1, <1>2, CountedFiniteNext DEF Drifted

LEMMA TypedStep == Typed /\ [Next]_vars => Typed'
<1> SUFFICES ASSUME Typed, [Next]_vars PROVE Typed'
  OBVIOUS
<1>0. slots' \in Nat /\ Drifted' >= 0
  BY CoverStep
<1> USE DEF Typed, AtWork
<1>1. ASSUME NEW s \in Scans, PassChecks(s) \/ PassBlind(s) \/ InsertScan(s) \/ SendMessage(s) \/ SendFails(s) PROVE Typed'
  BY <1>0, <1>1 DEF PassChecks, PassBlind, Pass, InsertScan, SendMessage, SendFails, TypeOK, Statuses, Active, rows, docker, work
<1>2. ASSUME NEW s \in Scans, CancelReads(s) \/ CancelStops(s) \/ CancelWrites(s) PROVE Typed'
  BY <1>0, <1>2 DEF CancelReads, CancelStops, CancelWrites, Stop, Mark, TypeOK, Statuses, rows, docker, work
<1>3. ASSUME NEW w \in Workers, Take(w) \/ Acquire(w) \/ Refuse(w) \/ Release(w) \/ DecrFails(w) PROVE Typed'
  BY <1>0, <1>3 DEF Take, Acquire, Refuse, Release, DecrFails, Done, Step, TypeOK, Labels, rows, docker, api
<1>4. ASSUME NEW w \in Workers, Reject(w) \/ Finish(w) \/ MarkFailed(w) \/ MarkTimedOut(w) PROVE Typed'
  BY <1>0, <1>4 DEF Reject, Finish, MarkFailed, MarkTimedOut, Mark, Step, TypeOK, Labels, Statuses, docker, api
<1>5. ASSUME NEW w \in Workers, Launch(w) \/ LaunchTimesOut(w) PROVE Typed'
  BY <1>0, <1>5 DEF Launch, LaunchTimesOut, Step, TypeOK, Labels, rows, docker, api
<1>6. ASSUME NEW w \in Workers, MarkRunning(w) PROVE Typed'
  BY <1>0, <1>6 DEF MarkRunning, Mark, Step, TypeOK, Labels, Statuses, Active, docker, api
<1>7. ASSUME NEW w \in Workers, StreamEnds(w) \/ Throw(w) \/ TimeLimit(w) \/ GeneratorCloses(w) PROVE Typed'
  BY <1>0, <1>7 DEF StreamEnds, Throw, TimeLimit, GeneratorCloses, Step, TypeOK, Labels, rows, docker, api
<1>8. ASSUME NEW w \in Workers, StopContainer(w) \/ StopFails(w) \/ MarkFails(w) PROVE Typed'
  BY <1>0, <1>8 DEF StopContainer, StopFails, MarkFails, Stop, Step, TypeOK, Labels, rows, docker, api
<1>9. CASE Crash
  BY <1>0, <1>9 DEF Crash, TypeOK, Labels, rows, docker, api
<1>10. CASE Exits \/ Jobs
  <2>1. ASSUME NEW c \in Containers, ContainerExits(c) PROVE Typed'
    BY <1>0, <2>1 DEF ContainerExits, Stop, TypeOK, rows, docker, api, work
  <2>2. ASSUME NEW s \in Scans, GraceElapses(s) PROVE Typed'
    BY <1>0, <2>2 DEF GraceElapses, TypeOK, docker, api, work
  <2>3. CASE ReapOrphans
    <3>1. status' \in [Scans -> Statuses]
      BY <2>3 DEF ReapOrphans, TypeOK, Statuses
    <3>. QED
      BY <1>0, <2>3, <3>1 DEF ReapOrphans, TypeOK, docker, api, work
  <2>4. CASE CleanHistory
    <3>1. status' \in [Scans -> Statuses]
      BY <2>4 DEF CleanHistory, TypeOK, Statuses
    <3>. QED
      BY <1>0, <2>4, <3>1 DEF CleanHistory, TypeOK, docker, api, work
  <2>. QED
    BY <1>10, <2>1, <2>2, <2>3, <2>4 DEF Exits, Jobs
<1>11. CASE UNCHANGED vars
  BY <1>0, <1>11 DEF vars, rows, docker, api, work, TypeOK
<1>. QED
  BY <1>1, <1>2, <1>3, <1>4, <1>5, <1>6, <1>7, <1>8, <1>9, <1>10, <1>11
     DEF Next, Steady, Launches, Cancels, Interrupts, NoPostgres, NoRedis, NoDocker, Run

\* Whatever fails, every variable keeps its type: in particular the counter of
\* the semaphore, which INCR and DECR move, never goes below zero.
THEOREM TypeCorrect == Spec => []TypeOK
<1>1. Typed => TypeOK
  BY DEF Typed
<1>. QED
  BY <1>1, TypedInit, TypedStep, PTL DEF Spec

-----------------------------------------------------------------------------
(* The cap on concurrent scans *)

LEMMA HoldersCounted == IsFiniteSet(Holders) /\ Holders \subseteq Counted
BY CountedFinite, FS_Subset DEF Holders, Counted

\* Where a thread is answerable for its container: from docker run until docker
\* logs has ended or a handler has stopped it.
Minding == {"launched", "stream", "throwing", "expiring", "dropping", "failing", "timeup"}
Minders == {w \in Workers : pc[w] \in Minding}

\* The containers that ContainersBounded counts, and those of them that have
\* lost their thread to a crash.
Kept == {c \in Containers : alive[c] # None} \ loose
Left == {c \in Kept : \A w \in Minders : mine[w] # c}

\* The slots that crashes lost cover the containers they left, so that with the
\* threads past the semaphore these are never more than Limit.
Covered ==
    /\ IsFiniteSet(Left)
    /\ Cardinality(Left) <= Drifted
    /\ Cardinality(Left) + Cardinality(Holders) <= Limit

LEMMA KeptCovered ==
    ASSUME IsFiniteSet(Left)
    PROVE  IsFiniteSet(Kept) /\ Cardinality(Kept) <= Cardinality(Left) + Cardinality(Holders)
<1> DEFINE Taken == {mine[w] : w \in Minders}
<1>1. IsFiniteSet(Minders) /\ Cardinality(Minders) <= Cardinality(Holders)
  <2>1. Minders \subseteq Holders
    BY DEF Minders, Minding, Holders
  <2>. QED
    BY <2>1, HoldersCounted, FS_Subset
<1>2. IsFiniteSet(Taken) /\ Cardinality(Taken) <= Cardinality(Minders)
  <2> DEFINE own == [w \in Minders |-> mine[w]]
  <2>1. own \in Surjection(Minders, Taken)
    BY DEF Surjection
  <2>. QED
    BY <1>1, <2>1, FS_Surjection
<1>3. Kept \subseteq Left \cup Taken
  BY DEF Kept, Left
<1>4. IsFiniteSet(Left \cup Taken) /\ Cardinality(Left \cup Taken) <= Cardinality(Left) + Cardinality(Taken)
  <2>1. /\ IsFiniteSet(Left \cup Taken)
        /\ Cardinality(Left \cup Taken) = Cardinality(Left) + Cardinality(Taken) - Cardinality(Left \cap Taken)
    BY <1>2, FS_Union
  <2>2. Cardinality(Left \cap Taken) \in Nat
    BY <1>2, FS_Intersection, FS_CardinalityType
  <2>3. Cardinality(Left) \in Nat /\ Cardinality(Taken) \in Nat
    BY <1>2, FS_CardinalityType
  <2>. QED
    BY <2>1, <2>2, <2>3
<1>5. IsFiniteSet(Kept) /\ Cardinality(Kept) <= Cardinality(Left \cup Taken)
  BY <1>3, <1>4, FS_Subset
<1>6. /\ Cardinality(Kept) \in Nat /\ Cardinality(Left \cup Taken) \in Nat /\ Cardinality(Left) \in Nat
      /\ Cardinality(Taken) \in Nat /\ Cardinality(Minders) \in Nat /\ Cardinality(Holders) \in Nat
  BY <1>1, <1>2, <1>4, <1>5, HoldersCounted, FS_CardinalityType
<1> HIDE DEF Taken
<1>. QED
  BY <1>1, <1>2, <1>4, <1>5, <1>6

\* Only a crash takes a container from its thread.
LEMMA LeftShrinks == TypeOK /\ [Steady \/ NoRedis \/ NoDocker]_vars => Left' \subseteq Left
<1> SUFFICES ASSUME TypeOK, [Steady \/ NoRedis \/ NoDocker]_vars PROVE Left' \subseteq Left
  OBVIOUS
<1> USE DEF Left, Kept, Minders, Minding
<1>1. ASSUME NEW w \in Workers, Take(w) \/ Acquire(w) \/ Refuse(w) \/ Release(w) \/ DecrFails(w) PROVE Left' \subseteq Left
  BY <1>1 DEF Take, Acquire, Refuse, Release, DecrFails, Done, Step, TypeOK, docker
<1>2. ASSUME NEW w \in Workers, Reject(w) \/ Finish(w) \/ MarkFailed(w) \/ MarkTimedOut(w) \/ MarkFails(w)
      PROVE  Left' \subseteq Left
  BY <1>2 DEF Reject, Finish, MarkFailed, MarkTimedOut, MarkFails, Step, TypeOK, docker
<1>3. ASSUME NEW w \in Workers, Launch(w) PROVE Left' \subseteq Left
  BY <1>3 DEF Launch, Step, TypeOK
<1>4. ASSUME NEW w \in Workers, LaunchTimesOut(w) PROVE Left' \subseteq Left
  BY <1>4 DEF LaunchTimesOut, Step, TypeOK
<1>5. ASSUME NEW w \in Workers, MarkRunning(w) \/ Throw(w) \/ TimeLimit(w) PROVE Left' \subseteq Left
  BY <1>5 DEF MarkRunning, Throw, TimeLimit, Step, TypeOK, docker
<1>6. ASSUME NEW w \in Workers, StreamEnds(w) \/ GeneratorCloses(w) PROVE Left' \subseteq Left
  BY <1>6 DEF StreamEnds, GeneratorCloses, Step, TypeOK, docker
<1>7. ASSUME NEW w \in Workers, StopContainer(w) \/ StopFails(w) PROVE Left' \subseteq Left
  BY <1>7 DEF StopContainer, StopFails, Stop, Step, TypeOK
<1>8. CASE Launches \/ Cancels
  BY <1>8 DEF Launches, Cancels, PassChecks, Pass, InsertScan, SendMessage, CancelReads, CancelStops,
              CancelWrites, Stop, docker, work
<1>9. CASE Exits \/ Jobs \/ \E s \in Scans : PassBlind(s) \/ SendFails(s)
  BY <1>9 DEF Exits, Jobs, ContainerExits, GraceElapses, ReapOrphans, CleanHistory, PassBlind, Pass, SendFails,
              Stop, docker, work
<1>10. CASE UNCHANGED vars
  BY <1>10 DEF vars, docker, work
<1>. QED
  BY <1>1, <1>2, <1>3, <1>4, <1>5, <1>6, <1>7, <1>8, <1>9, <1>10
     DEF Steady, NoRedis, NoDocker, NoPostgres, Interrupts, Run

\* Only a thread that finds the counter low enough joins the holders.
LEMMA HoldersStep ==
    ASSUME TypeOK, [Next]_vars, ~(\E w \in Workers : Acquire(w) /\ slots + 1 <= Limit)
    PROVE  Holders' \subseteq Holders
<1> USE DEF Holders
<1>1. ASSUME NEW w \in Workers, Run(w), ~Acquire(w) PROVE Holders' \subseteq Holders
  BY <1>1 DEF Run, Take, Refuse, Reject, Launch, MarkRunning, StreamEnds, Finish, GeneratorCloses,
              StopContainer, MarkFailed, MarkTimedOut, Release, Step, TypeOK
<1>2. ASSUME NEW w \in Workers, Acquire(w) PROVE Holders' \subseteq Holders
  <2>1. slots + 1 > Limit
    BY <1>2, LimitsPositive DEF TypeOK
  <2>. QED
    BY <1>2, <2>1 DEF Acquire, Step, TypeOK
<1>3. CASE Interrupts \/ NoPostgres \/ NoDocker
  BY <1>3 DEF Interrupts, NoPostgres, NoDocker, Throw, TimeLimit, LaunchTimesOut, StopFails, MarkFails, Step, TypeOK
<1>4. CASE NoRedis \/ Crash
  BY <1>4 DEF NoRedis, Crash, DecrFails, PassBlind, Pass, SendFails, Step, TypeOK, work
<1>5. CASE Launches \/ Cancels
  BY <1>5 DEF Launches, Cancels, PassChecks, Pass, InsertScan, SendMessage, CancelReads, CancelStops, CancelWrites, work
<1>6. CASE Exits \/ Jobs
  BY <1>6 DEF Exits, Jobs, ContainerExits, GraceElapses, ReapOrphans, CleanHistory, work
<1>7. CASE UNCHANGED vars
  BY <1>7 DEF vars, work
<1>. QED
  BY <1>1, <1>2, <1>3, <1>4, <1>5, <1>6, <1>7 DEF Next, Steady

LEMMA DriftGrows == TypeOK /\ [Steady \/ NoRedis \/ NoDocker]_vars => Drifted' \in Int /\ Drifted' >= Drifted
<1> SUFFICES ASSUME TypeOK, [Steady \/ NoRedis \/ NoDocker]_vars PROVE Drifted' \in Int /\ Drifted' >= Drifted
  OBVIOUS
<1>1. Drifted \in Int
  BY CountedFinite DEF Drifted, TypeOK
<1>2. ASSUME NEW w \in Workers, DecrFails(w) PROVE Drifted' = Drifted + 1
  <2>1. slots' = slots /\ Cardinality(Counted)' = Cardinality(Counted) - 1
    BY <1>2, Leaving DEF DecrFails, Labels
  <2>2. slots \in Int /\ Cardinality(Counted) \in Int
    BY CountedFinite DEF TypeOK
  <2>. QED
    BY <2>1, <2>2 DEF Drifted
<1>3. CASE [Sound]_vars
  BY <1>1, <1>3, DriftStep
<1>. QED
  BY <1>1, <1>2, <1>3 DEF Sound, NoRedis

LEMMA CoveredInit == Init => Covered
<1> SUFFICES ASSUME Init PROVE Covered
  OBVIOUS
<1>1. Holders = {} /\ Left = {}
  BY DEF Init, Holders, Left, Kept
<1>. QED
  BY <1>1, DriftInit, FS_EmptySet, LimitsPositive DEF Covered

LEMMA CoveredStep == Typed /\ Covered /\ [Next]_vars => Covered'
<1> SUFFICES ASSUME Typed, Covered, [Next]_vars PROVE Covered'
  OBVIOUS
<1> USE DEF Typed, Covered
<1>t. Cardinality(Left) \in Nat /\ Cardinality(Holders) \in Nat /\ Drifted \in Int /\ slots \in Nat
  BY HoldersCounted, CountedFinite, FS_CardinalityType DEF Drifted, TypeOK
<1>1. CASE [Steady \/ NoRedis \/ NoDocker]_vars
  <2>1. IsFiniteSet(Left') /\ Cardinality(Left') <= Cardinality(Left) /\ Cardinality(Left') \in Nat
    BY <1>1, LeftShrinks, FS_Subset, FS_CardinalityType
  <2>2. Drifted' \in Int /\ Cardinality(Left') <= Drifted'
    BY <1>1, <1>t, <2>1, DriftGrows
  <2>3. Cardinality(Left') + Cardinality(Holders') <= Limit
    <3>1. CASE Holders' \subseteq Holders
      <4>1. Cardinality(Holders') <= Cardinality(Holders) /\ Cardinality(Holders') \in Nat
        BY <3>1, HoldersCounted, FS_Subset, FS_CardinalityType
      <4>. QED
        BY <1>t, <2>1, <4>1, LimitsPositive
    <3>2. ASSUME NEW w \in Workers, Acquire(w), slots + 1 <= Limit
          PROVE  Cardinality(Left') + Cardinality(Holders') <= Limit
      <4>1. Holders' \subseteq Counted \cup {w} /\ w \notin Counted
        BY <3>2 DEF Acquire, Step, Holders, Counted, TypeOK
      <4>2. Cardinality(Counted \cup {w}) = Cardinality(Counted) + 1 /\ IsFiniteSet(Counted \cup {w})
        BY <4>1, CountedFinite, FS_AddElement
      <4>3. Cardinality(Holders') <= Cardinality(Counted \cup {w}) /\ IsFiniteSet(Holders')
        BY <4>1, <4>2, FS_Subset
      <4>4. Cardinality(Holders') \in Nat
        BY <4>3, FS_CardinalityType
      <4>5. Cardinality(Left) + Cardinality(Counted) <= slots
        BY <1>t, CountedFinite DEF Drifted
      <4>. QED
        BY <1>t, <2>1, <3>2, <4>2, <4>3, <4>4, <4>5, CountedFinite, LimitsPositive
    <3>. QED
      BY <3>1, <3>2, HoldersStep
  <2>. QED
    BY <2>1, <2>2, <2>3
<1>2. CASE Crash
  <2>1. Holders' = {} /\ Counted' = {} /\ slots' = slots /\ Left' \subseteq Kept
    BY <1>2 DEF Crash, Holders, Counted, Left, Kept, docker
  <2>2. IsFiniteSet(Left') /\ Cardinality(Left') <= Cardinality(Left) + Cardinality(Holders) /\ Cardinality(Left') \in Nat
    <3>1. IsFiniteSet(Kept) /\ Cardinality(Kept) <= Cardinality(Left) + Cardinality(Holders)
      BY KeptCovered
    <3>2. IsFiniteSet(Left') /\ Cardinality(Left') <= Cardinality(Kept)
      BY <2>1, <3>1, FS_Subset
    <3>. QED
      BY <1>t, <3>1, <3>2, FS_CardinalityType
  <2>3. Cardinality(Left') <= Drifted'
    <3>1. Drifted' = slots
      BY <1>t, <2>1, FS_EmptySet DEF Drifted
    <3>2. Cardinality(Left) + Cardinality(Counted) <= slots
      BY <1>t, CountedFinite DEF Drifted
    <3>3. Cardinality(Holders) <= Cardinality(Counted)
      BY HoldersCounted, CountedFinite, FS_Subset
    <3>. QED
      BY <1>t, <2>2, <3>1, <3>2, <3>3, CountedFinite
  <2>4. Cardinality(Left') + Cardinality(Holders') <= Limit
    BY <1>t, <2>1, <2>2, FS_EmptySet, LimitsPositive
  <2>. QED
    BY <2>2, <2>3, <2>4
<1>. QED
  BY <1>1, <1>2 DEF Next

\* The cap holds for any number of threads, through crashes, lost decrements and
\* timed-out docker commands: what goes wrong makes the counter too large.
THEOREM SlotsCorrect == Spec => []SlotsBounded
<1>1. Covered => SlotsBounded
  <2>1. Covered => Cardinality(Left) \in Nat
    BY FS_CardinalityType DEF Covered
  <2>2. Cardinality(Holders) \in Nat
    BY HoldersCounted, FS_CardinalityType
  <2>. QED
    BY <2>1, <2>2, LimitsPositive DEF Covered, SlotsBounded
<1>. QED
  BY <1>1, TypedInit, TypedStep, CoveredInit, CoveredStep, PTL DEF Spec

\* The host never runs more than Limit containers but those that a docker command
\* started or kept without an answer: a crash leaves each container its slot.
THEOREM ContainersCorrect == Spec => []ContainersBounded
<1>1. Covered => ContainersBounded
  <2> SUFFICES ASSUME Covered PROVE Cardinality(Kept) <= Limit
    BY DEF ContainersBounded, Kept
  <2>1. IsFiniteSet(Kept) /\ Cardinality(Kept) <= Cardinality(Left) + Cardinality(Holders)
    BY KeptCovered DEF Covered
  <2>2. Cardinality(Left) \in Nat /\ Cardinality(Holders) \in Nat /\ Cardinality(Kept) \in Nat
    BY <2>1, HoldersCounted, FS_CardinalityType DEF Covered
  <2>. QED
    BY <2>1, <2>2, LimitsPositive DEF Covered
<1>. QED
  BY <1>1, TypedInit, TypedStep, CoveredInit, CoveredStep, PTL DEF Spec

\* Of actors and of containers there are never more than Limit on the host.
THEOREM HostCorrect == Spec => []HostBounded
BY SlotsCorrect, ContainersCorrect, PTL DEF HostBounded

\* Only the death of easm-worker and a failed decrement change the drift of the counter:
\* every other step, each way out of the actor included, keeps it.
THEOREM LeaksCorrect == Spec => OnlyLossesLeak
<1>1. ASSUME Typed, [Next]_vars, ~(Crash \/ \E w \in Workers : DecrFails(w)) PROVE Drifted' = Drifted
  <2>1. [Sound]_vars
    BY <1>1 DEF Next, Sound, NoRedis
  <2>. QED
    BY <1>1, <2>1, DriftStep DEF Typed
<1>2. Typed /\ [Next]_vars => [Drifted' # Drifted => Crash \/ \E w \in Workers : DecrFails(w)]_vars
  BY <1>1
<1>. QED
  BY <1>2, TypedInit, TypedStep, PTL DEF Spec, OnlyLossesLeak

\* In a steady system the counter is exact: it counts the threads that hold a
\* slot or are about to be refused one, and comes back to zero with the last.
THEOREM SlotsReturnedCorrect == SteadySpec => []SlotsReturned
<1>1. Init => SlotsReturned
  BY DriftInit DEF SlotsReturned
<1>2. [Steady]_vars => [Next]_vars /\ [Sound]_vars
  BY DEF Next, Sound
<1>3. Typed /\ SlotsReturned /\ [Steady]_vars => SlotsReturned'
  BY <1>2, DriftStep DEF Typed, SlotsReturned
<1>. QED
  BY <1>1, <1>2, <1>3, TypedInit, TypedStep, PTL DEF SteadySpec

-----------------------------------------------------------------------------
(* Containers and their actors *)

\* NoStrayContainer says that some thread is not idle; that its place is one from
\* which the container will be stopped or outwaited is what carries over a step.
Minded ==
    \A c \in Containers : alive[c] # None =>
        \E w \in Workers : pc[w] \in Minding /\ mine[w] = c /\ scan[w] = alive[c]

LEMMA MindedStep == Typed /\ Minded /\ [Steady]_vars => Minded'
<1> SUFFICES ASSUME Typed, Minded, [Steady]_vars PROVE Minded'
  OBVIOUS
<1> USE DEF Typed, Minded, Minding
<1>1. ASSUME NEW w \in Workers, Take(w) \/ Acquire(w) \/ Refuse(w) \/ Release(w) PROVE Minded'
  BY <1>1 DEF Take, Acquire, Refuse, Release, Done, Step, TypeOK, docker
<1>2. ASSUME NEW w \in Workers, Reject(w) \/ Finish(w) \/ MarkFailed(w) \/ MarkTimedOut(w) PROVE Minded'
  BY <1>2 DEF Reject, Finish, MarkFailed, MarkTimedOut, Step, TypeOK, docker
<1>3. ASSUME NEW w \in Workers, Launch(w) PROVE Minded'
  BY <1>3, NoneIsNobody DEF Launch, Unused, Step, TypeOK, docker
<1>4. ASSUME NEW w \in Workers, MarkRunning(w) PROVE Minded'
  BY <1>4 DEF MarkRunning, Step, TypeOK, docker
<1>5. ASSUME NEW w \in Workers, StreamEnds(w) \/ GeneratorCloses(w) PROVE Minded'
  BY <1>5 DEF StreamEnds, GeneratorCloses, Step, TypeOK, docker
<1>6. ASSUME NEW w \in Workers, StopContainer(w) PROVE Minded'
  BY <1>6 DEF StopContainer, Stop, Step, TypeOK, docker
<1>7. ASSUME NEW w \in Workers, Throw(w) \/ TimeLimit(w) \/ MarkFails(w) PROVE Minded'
  BY <1>7 DEF Throw, TimeLimit, MarkFails, Step, TypeOK, docker
<1>8. CASE Launches \/ Cancels
  BY <1>8 DEF Launches, Cancels, PassChecks, Pass, InsertScan, SendMessage, CancelReads, CancelStops,
              CancelWrites, Stop, docker, work
<1>9. CASE Exits \/ Jobs
  BY <1>9 DEF Exits, Jobs, ContainerExits, GraceElapses, ReapOrphans, CleanHistory, Stop, docker, work
<1>10. CASE UNCHANGED vars
  BY <1>10 DEF vars, docker, work
<1>. QED
  BY <1>1, <1>2, <1>3, <1>4, <1>5, <1>6, <1>7, <1>8, <1>9, <1>10 DEF Steady, Interrupts, NoPostgres, Run

\* While Docker does as it is told and easm-worker stays up, a container never
\* outlives the actor that started it.
THEOREM NoStrayCorrect == SteadySpec => []NoStrayContainer
<1>1. Init => Minded
  BY DEF Init, Minded
<1>2. [Steady]_vars => [Next]_vars
  BY DEF Next
<1>3. Minded => NoStrayContainer
  BY DEF Minded, Minding, NoStrayContainer
<1>. QED
  BY <1>1, <1>2, <1>3, TypedInit, TypedStep, MindedStep, PTL DEF SteadySpec


-----------------------------------------------------------------------------
(* One active scan per project *)

\* The scans that are still to be started: their row waits for its message, the
\* message for a thread, or the thread has not yet written "running".
Held(s) == \E w \in Workers : pc[w] # "idle" /\ scan[w] = s
Starting(s) == \E w \in Workers : pc[w] \in {"acquire", "load", "launched"} /\ scan[w] = s
Fresh(s) == launching[s] = "inserted" \/ s \in messages \/ Starting(s)

\* A scan has one message and one thread: no crash brings a message back.
Handled ==
    /\ \A s \in Scans : launching[s] = "inserted" => s \notin messages /\ ~Held(s)
    /\ \A s \in messages : ~Held(s)
    /\ \A v, w \in Workers : pc[v] # "idle" /\ pc[w] # "idle" /\ scan[v] = scan[w] => v = w
    /\ \A s \in Scans : status[s] = "absent" =>
          launching[s] # "inserted" /\ s \notin messages /\ ~Held(s) /\ s \notin cancelling

\* Nobody touches a scan before it runs, so that "running" never revives an
\* ended one.
FreshQueued == \A s \in Scans : Fresh(s) => status[s] = "queued" /\ s \notin cancelling

\* What a launch request checked still holds when it inserts.
CheckedClear ==
    \A s \in Scans : launching[s] = "checked" =>
        /\ status[s] = "absent"
        /\ \A r \in SameProject(s) : status[r] \notin Active /\ (launching[r] = "checked" => r = s)

\* An active scan is the newest of its project.
ActiveNewest == \A s \in Scans : status[s] \in Active \cup {"absent"} => newer[s] = {}

Careful == Handled /\ FreshQueued /\ CheckedClear /\ ActiveNewest /\ OneActivePerProject

LEMMA CarefulIsSteady == [CarefulNext]_vars => [Steady]_vars /\ [Next]_vars
BY DEF CarefulNext, Steady, Next, Launches, Cancels

\* A scan in the hands of one thread: what the thread writes, nobody else expects.
LEMMA Owned ==
    ASSUME Typed, Handled, NEW w \in Workers, pc[w] # "idle"
    PROVE  /\ scan[w] \in Scans /\ launching[scan[w]] # "inserted" /\ scan[w] \notin messages
           /\ status[scan[w]] # "absent"
           /\ \A v \in Workers : pc[v] # "idle" /\ scan[v] = scan[w] => v = w
BY DEF Typed, AtWork, Handled, Held

LEMMA CarefulInit == Init => Careful
BY DEF Init, Careful, Handled, Held, FreshQueued, Fresh, Starting, CheckedClear, ActiveNewest, OneActivePerProject, Active

\* The newest row of a project has no newer one, and History is at least one.
LEMMA Spared ==
    ASSUME ActiveNewest, NEW s \in Scans, status[s] \in Active
    PROVE  ~(Cardinality({r \in newer[s] : Exists(r)}) >= History)
<1>1. {r \in newer[s] : Exists(r)} = {}
  BY DEF ActiveNewest
<1>. QED
  BY <1>1, FS_EmptySet, LimitsPositive

LEMMA CarefulStep == Typed /\ Careful /\ [CarefulNext]_vars => Careful'
<1> SUFFICES ASSUME Typed, Careful, [CarefulNext]_vars PROVE Careful'
  OBVIOUS
<1>n. None \notin Scans /\ TypeOK /\ AtWork
  BY NoneIsNobody DEF Typed
<1>1. ASSUME NEW s \in Scans, Alone(s), PassChecks(s) PROVE Careful'
  <2> USE <1>1, <1>n DEF PassChecks, Pass, rows, work
  <2>1. Handled'
    BY DEF Careful, Handled, Held, TypeOK
  <2>2. FreshQueued'
    BY DEF Careful, FreshQueued, Fresh, Starting, TypeOK
  <2>3. CheckedClear'
    BY DEF Careful, CheckedClear, Alone, SameProject, TypeOK
  <2>4. ActiveNewest' /\ OneActivePerProject'
    BY DEF Careful, ActiveNewest, OneActivePerProject
  <2>. QED
    BY <2>1, <2>2, <2>3, <2>4 DEF Careful
<1>2. ASSUME NEW s \in Scans, InsertScan(s) PROVE Careful'
  <2> USE <1>2, <1>n DEF InsertScan, work
  <2>0. status[s] = "absent"
    BY DEF Careful, CheckedClear
  <2>1. Handled'
    BY <2>0 DEF Careful, Handled, Held, TypeOK
  <2>2. FreshQueued'
    BY <2>0 DEF Careful, FreshQueued, Handled, Held, Fresh, Starting, TypeOK
  <2>3. CheckedClear'
    BY <2>0 DEF Careful, CheckedClear, SameProject, TypeOK
  <2>4. ActiveNewest'
    BY <2>0 DEF Careful, ActiveNewest, CheckedClear, SameProject, Exists, Active, TypeOK
  <2>5. OneActivePerProject'
    BY <2>0 DEF Careful, OneActivePerProject, CheckedClear, SameProject, TypeOK
  <2>. QED
    BY <2>1, <2>2, <2>3, <2>4, <2>5 DEF Careful
<1>3. ASSUME NEW s \in Scans, SendMessage(s) PROVE Careful'
  <2> USE <1>3, <1>n DEF SendMessage, rows, work
  <2>1. Handled'
    BY DEF Careful, Handled, FreshQueued, Fresh, Held, TypeOK
  <2>2. FreshQueued'
    BY DEF Careful, FreshQueued, Fresh, Starting, TypeOK
  <2>3. CheckedClear'
    BY DEF Careful, CheckedClear, SameProject, TypeOK
  <2>4. ActiveNewest' /\ OneActivePerProject'
    BY DEF Careful, ActiveNewest, OneActivePerProject
  <2>. QED
    BY <2>1, <2>2, <2>3, <2>4 DEF Careful
<1>4. ASSUME NEW s \in Scans, \/ status[s] = "running" /\ CancelReads(s)
                              \/ CancelStops(s)
                              \/ CancelWrites(s)
      PROVE  Careful'
  <2> USE <1>4, <1>n DEF CancelReads, CancelStops, CancelWrites, rows, work
  <2>0. /\ UNCHANGED <<launching, messages, pc, scan, newer>>
        /\ \A r \in Scans : status'[r] # status[r] => status'[r] = "cancelled" /\ status[r] # "absent" /\ ~Fresh(r)
        /\ \A r \in Scans : r \in cancelling' => r \in cancelling \/ status[r] = "running"
    BY DEF Mark, Exists, Careful, FreshQueued, TypeOK
  <2> HIDE <1>4
  <2>1. Handled'
    BY <2>0 DEF Careful, Handled, Held
  <2>2. FreshQueued'
    BY <2>0 DEF Careful, FreshQueued, Fresh, Starting
  <2>3. CheckedClear' /\ ActiveNewest' /\ OneActivePerProject'
    BY <2>0 DEF Careful, CheckedClear, ActiveNewest, OneActivePerProject, SameProject, Active
  <2>. QED
    BY <2>1, <2>2, <2>3 DEF Careful
<1>5. ASSUME NEW w \in Workers, Take(w) PROVE Careful'
  <2> USE <1>5, <1>n DEF Take, Step, rows, api
  <2>1. Handled'
    BY DEF Careful, Handled, FreshQueued, Fresh, Held, TypeOK
  <2>2. FreshQueued'
    BY DEF Careful, FreshQueued, Fresh, Starting, TypeOK
  <2>3. CheckedClear' /\ ActiveNewest' /\ OneActivePerProject'
    BY DEF Careful, CheckedClear, ActiveNewest, OneActivePerProject, SameProject
  <2>. QED
    BY <2>1, <2>2, <2>3 DEF Careful
<1>6. ASSUME NEW w \in Workers, NEW from, NEW to, Step(w, from, to), from # "idle",
             to \in {"acquire", "load", "launched"} => from \in {"acquire", "load", "launched"},
             UNCHANGED <<launching, messages, newer, cancelling>>,
             IF to = "idle" THEN Done(w) ELSE UNCHANGED scan,
             \A r \in Scans : status'[r] # status[r] => status[r] # "absent" /\ status'[r] # "absent",
             \A r \in Scans : status'[r] \in Active => status[r] \in Active,
             \A r \in Scans : Fresh(r)' => status'[r] = status[r]
      PROVE  Careful'
  <2> USE <1>6, <1>n DEF Step, Done
  <2>1. Handled'
    BY DEF Careful, Handled, Held, TypeOK
  <2>2. FreshQueued'
    BY DEF Careful, FreshQueued, Fresh, Starting, TypeOK
  <2>3. CheckedClear' /\ ActiveNewest' /\ OneActivePerProject'
    BY DEF Careful, CheckedClear, ActiveNewest, OneActivePerProject, SameProject
  <2>. QED
    BY <2>1, <2>2, <2>3 DEF Careful
<1>7. ASSUME NEW w \in Workers, Acquire(w) \/ Refuse(w) \/ Release(w) \/ Launch(w) \/ StreamEnds(w) PROVE Careful'
  <2>1. CASE Acquire(w)
    BY <2>1, <1>6 DEF Acquire, Step, rows, api
  <2>2. CASE Refuse(w)
    <3>1. Step(w, "refused", "idle") /\ Done(w) /\ UNCHANGED <<status, launching, messages, newer, cancelling>>
      BY <2>2 DEF Refuse, rows, api
    <3>. QED
      BY <3>1, <1>6
  <2>3. CASE Release(w)
    <3>1. Step(w, "release", "idle") /\ Done(w) /\ UNCHANGED <<status, launching, messages, newer, cancelling>>
      BY <2>3 DEF Release, rows, api
    <3>. QED
      BY <3>1, <1>6
  <2>4. CASE Launch(w)
    BY <2>4, <1>6 DEF Launch, Step, rows, api
  <2>5. CASE StreamEnds(w)
    BY <2>5, <1>6 DEF StreamEnds, Step, rows, api
  <2>. QED
    BY <1>7, <2>1, <2>2, <2>3, <2>4, <2>5
<1>8. ASSUME NEW w \in Workers, Throw(w) \/ TimeLimit(w) \/ GeneratorCloses(w) \/ StopContainer(w) PROVE Careful'
  <2>1. CASE Throw(w)
    BY <2>1, <1>6 DEF Throw, Step, rows, api
  <2>2. CASE TimeLimit(w)
    BY <2>2, <1>6 DEF TimeLimit, Step, rows, api
  <2>3. CASE GeneratorCloses(w)
    BY <2>3, <1>6 DEF GeneratorCloses, Step, rows, api
  <2>4. CASE StopContainer(w)
    BY <2>4, <1>6 DEF StopContainer, Step, rows, api
  <2>. QED
    BY <1>8, <2>1, <2>2, <2>3, <2>4
<1>9. ASSUME NEW w \in Workers, NEW from \in {"load", "ended", "failed", "expired", "launched"},
             NEW to \in {"release", "stream"}, Step(w, from, to),
             NEW new, new = "running" => from = "launched", new # "queued", new # "absent",
             Mark(scan[w], new), UNCHANGED <<launching, messages, newer, cancelling, scan>>
      PROVE  Careful'
  <2>1. pc[w] # "idle" /\ pc'[w] = to
    BY <1>9, <1>n DEF Step, TypeOK
  <2>2. /\ scan[w] \in Scans /\ launching[scan[w]] # "inserted" /\ scan[w] \notin messages
        /\ status[scan[w]] # "absent"
        /\ \A v \in Workers : pc[v] # "idle" /\ scan[v] = scan[w] => v = w
    BY <2>1, Owned DEF Careful
  <2>3. ~Fresh(scan[w])'
    BY <1>9, <1>n, <2>1, <2>2 DEF Fresh, Starting, Step, TypeOK
  <2>4. \A r \in Scans : r # scan[w] => status'[r] = status[r]
    BY <1>9, <1>n DEF Mark, TypeOK
  <2>5. new = "running" => status[scan[w]] = "queued"
    BY <1>9, <2>2 DEF Careful, FreshQueued, Fresh, Starting, Step
  <2>6. status'[scan[w]] \in {status[scan[w]], new}
    BY <1>9, <1>n, <2>2 DEF Mark, TypeOK
  <2>7. status'[scan[w]] # "absent" /\ (status'[scan[w]] \in Active => status[scan[w]] \in Active)
    BY <1>9, <2>2, <2>5, <2>6 DEF Active
  <2>. QED
    BY <1>6, <1>9, <2>2, <2>3, <2>4, <2>7
<1>10. ASSUME NEW w \in Workers, Reject(w) \/ Finish(w) \/ MarkFailed(w) \/ MarkTimedOut(w) \/ MarkRunning(w) PROVE Careful'
  <2>1. CASE Reject(w)
    <3>1. Step(w, "load", "release") /\ Mark(scan[w], "failed") /\ UNCHANGED <<launching, messages, newer, cancelling, scan>>
      BY <2>1 DEF Reject, api
    <3>. QED
      BY <3>1, <1>9
  <2>2. CASE Finish(w)
    <3>1. Step(w, "ended", "release") /\ Mark(scan[w], "finished") /\ UNCHANGED <<launching, messages, newer, cancelling, scan>>
      BY <2>2 DEF Finish, api
    <3>. QED
      BY <3>1, <1>9
  <2>3. CASE MarkFailed(w)
    <3>1. Step(w, "failed", "release") /\ Mark(scan[w], "failed") /\ UNCHANGED <<launching, messages, newer, cancelling, scan>>
      BY <2>3 DEF MarkFailed, api
    <3>. QED
      BY <3>1, <1>9
  <2>4. CASE MarkTimedOut(w)
    <3>1. Step(w, "expired", "release") /\ Mark(scan[w], "cancelled") /\ UNCHANGED <<launching, messages, newer, cancelling, scan>>
      BY <2>4 DEF MarkTimedOut, api
    <3>. QED
      BY <3>1, <1>9
  <2>5. CASE MarkRunning(w)
    <3>1. Step(w, "launched", "stream") /\ Mark(scan[w], "running") /\ UNCHANGED <<launching, messages, newer, cancelling, scan>>
      BY <2>5 DEF MarkRunning, api
    <3>. QED
      BY <3>1, <1>9
  <2>. QED
    BY <1>10, <2>1, <2>2, <2>3, <2>4, <2>5
<1> DEFINE Ended(r) == status[r] \notin {"absent", "queued"} /\ status'[r] \notin Active \cup {"absent"}
           Spent == /\ UNCHANGED <<launching, messages, newer, cancelling, pc, scan>>
                    /\ \A r \in Scans : status'[r] = status[r] \/ Ended(r)
<1>11. Spent => Careful'
  <2> SUFFICES ASSUME Spent PROVE Careful'
    OBVIOUS
  <2>1. Handled' /\ FreshQueued'
    BY DEF Careful, Handled, Held, FreshQueued, Fresh, Starting
  <2>2. CheckedClear' /\ ActiveNewest' /\ OneActivePerProject'
    BY DEF Careful, CheckedClear, ActiveNewest, OneActivePerProject, SameProject, Active
  <2>. QED
    BY <2>1, <2>2 DEF Careful
<1>12. Exits \/ Jobs \/ UNCHANGED vars => Spent
  <2>1. ASSUME NEW c \in Containers, ContainerExits(c) PROVE Spent
    BY <2>1 DEF ContainerExits, rows, api, work
  <2>2. ASSUME NEW s \in Scans, GraceElapses(s) PROVE Spent
    BY <2>2 DEF GraceElapses, api, work
  <2>3. ReapOrphans => Spent
    BY DEF ReapOrphans, api, work, Active
  <2>4. ASSUME CleanHistory PROVE Spent
    <3>1. ASSUME NEW r \in Scans, status'[r] # status[r] PROVE Ended(r)
      BY <2>4, <3>1, Spared DEF CleanHistory, Exists, Careful, Active
    <3>. QED
      BY <2>4, <3>1 DEF CleanHistory, api, work
  <2>5. UNCHANGED vars => Spent
    BY DEF vars, rows, api, work
  <2>. QED
    BY <2>1, <2>2, <2>3, <2>4, <2>5 DEF Exits, Jobs
<1>. QED
  BY <1>1, <1>2, <1>3, <1>4, <1>5, <1>7, <1>8, <1>10, <1>11, <1>12 DEF CarefulNext, Run, Interrupts

\* However launch requests, cancel requests, threads, containers and the jobs
\* interleave, a project has at most one scan queued or running, as long as the
\* launch requests of a project do not overlap and nothing fails.
THEOREM OneActiveCorrect == CarefulSpec => []OneActivePerProject
<1>1. Careful => OneActivePerProject
  BY DEF Careful
<1>. QED
  BY <1>1, TypedInit, TypedStep, CarefulInit, CarefulStep, CarefulIsSteady, PTL DEF CarefulSpec

\* Then the nightly cleanup never takes the row of an active scan either: the
\* active scan of a project is always its newest.
THEOREM CleanupCorrect == CarefulSpec => CleanupSparesActive
<1>1. ASSUME Typed, Careful, [CarefulNext]_vars
      PROVE  [\A s \in Scans : status[s] \in Active => status'[s] # "deleted"]_vars
  <2>1. ASSUME NEW s \in Scans, status[s] \in Active, status'[s] = "deleted" PROVE CleanHistory \/ UNCHANGED vars
    BY <1>1, <2>1 DEF Typed, TypeOK, CarefulNext, PassChecks, Pass, InsertScan, SendMessage, CancelReads, CancelStops,
       CancelWrites, Run, Take, Acquire, Refuse, Reject, Launch, MarkRunning, StreamEnds, Finish, GeneratorCloses,
       StopContainer, MarkFailed, MarkTimedOut, Release, Interrupts, Throw, TimeLimit, Exits, ContainerExits, Jobs,
       ReapOrphans, GraceElapses, Mark, rows, Active
  <2>2. ASSUME NEW s \in Scans, status[s] \in Active, CleanHistory PROVE status'[s] # "deleted"
    BY <1>1, <2>2, Spared DEF CleanHistory, Careful, Active
  <2>. QED
    BY <2>1, <2>2 DEF Active
<1>. QED
  BY <1>1, TypedInit, TypedStep, CarefulInit, CarefulStep, CarefulIsSteady, PTL DEF CarefulSpec, CleanupSparesActive
=============================================================================
