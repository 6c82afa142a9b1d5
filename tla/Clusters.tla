------------------------------- MODULE Clusters -------------------------------
(***************************************************************************)
(* The sweep for coordinated posts (services/cib_detector.py), which the   *)
(* schedulers of two deployments start at an interval (scheduler/jobs.py), *)
(* one at a time by a key in Redis.                                        *)
(*                                                                         *)
(* A sweep is one transaction over all projects: it fetches the recent     *)
(* posts of each, newest first, groups those that are alike and inserts a  *)
(* cluster and an event for each group that is large enough.               *)
(***************************************************************************)
EXTENDS Integers, Sequences, FiniteSets, SequencesExt

CONSTANTS
    Posts,
    ObservedAt,   \* [Posts -> time]
    ProjectOf,    \* [Posts -> project]
    Alike,        \* pairs of posts that share a band of their MinHash: need not be transitive
    Sweepers,     \* schedulers
    RecentFor,    \* _WINDOW_MINUTES
    MaxPosts,     \* _MAX_EVENTS
    MinCluster,   \* min_cluster_size
    LockTtl,      \* EX of cib_detection_lock
    LastTime,     \* bound: the clock
    MaxSweepFaults \* bound: projects that raise, sweeps that die

ASSUME ClustersAssumption ==
    /\ ObservedAt \in [Posts -> 0..LastTime] /\ DOMAIN ProjectOf = Posts /\ IsFiniteSet(Posts)
    /\ Alike \subseteq Posts \X Posts
    /\ \A p, q \in Posts : <<p, p>> \in Alike /\ (<<p, q>> \in Alike => <<q, p>> \in Alike)
    /\ {RecentFor, MaxPosts, MinCluster, LockTtl} \subseteq Nat \ {0} /\ {LastTime, MaxSweepFaults} \subseteq Nat

VARIABLES
    time,
    posted,       \* posts that are stored
    sweepLock,    \* when cib_detection_lock expires, 0: no key
    sweep,        \* each scheduler's sweep
    reported,     \* committed clusters, each with its event
    overran,      \* history: some sweep has outlived its key
    sweepFaults

clustersVars == <<time, posted, sweepLock, sweep, reported, overran, sweepFaults>>

Swept == {ProjectOf[p] : p \in Posts}
NoSweep == [at |-> "idle", until |-> 0, left |-> {}, own |-> {}, fetched |-> {}, aborted |-> FALSE]

\* What a sweep is about to commit are groups of stored posts, and nothing once it was aborted.
ClustersTypeOK ==
    /\ time \in 0..LastTime /\ posted \subseteq Posts /\ sweepLock \in 0..(LastTime + LockTtl)
    /\ reported \subseteq SUBSET Posts /\ overran \in BOOLEAN /\ sweepFaults \in 0..MaxSweepFaults
    /\ \A s \in Sweepers :
          /\ sweep[s].at \in {"idle", "select", "projects", "release"}
          /\ sweep[s].left \subseteq Swept /\ sweep[s].aborted \in BOOLEAN
          /\ UNION sweep[s].own \subseteq posted /\ sweep[s].fetched \subseteq posted
          /\ sweep[s].aborted => sweep[s].own = {}
          /\ sweep[s].at # "idle" => sweep[s].until > 0

ClustersInit ==
    /\ time = 0 /\ posted = {} /\ sweepLock = 0 /\ reported = {} /\ overran = FALSE /\ sweepFaults = 0
    /\ sweep = [s \in Sweepers |-> NoSweep]

-----------------------------------------------------------------------------
Recent == {p \in posted : ObservedAt[p] >= time - RecentFor}

\* ORDER BY observed_at DESC, in any order where that is equal.
NewestOf(ps) ==
    {o \in SetToSeqs(ps) : \A i, j \in DOMAIN o : i < j => ObservedAt[o[i]] >= ObservedAt[o[j]]}

\* lsh.query
Candidates(p, ps) == {q \in ps : <<p, q>> \in Alike}

\* (mutant) A post is done with, once it was seen in a group.
GroupAll(found, p, ps) ==
    IF p \in found.visited THEN found
    ELSE [visited |-> found.visited \cup Candidates(p, ps),
          groups |-> found.groups \cup {g \in {Candidates(p, ps)} : Cardinality(g) >= MinCluster}]

\* A turn of the loop of detect_cib_cluster; a group that is too small leaves its posts to others.
Group(found, p, ps) ==
    IF p \in found.visited \/ Cardinality(Candidates(p, ps)) < MinCluster THEN found
    ELSE [visited |-> found.visited \cup Candidates(p, ps), groups |-> found.groups \cup {Candidates(p, ps)}]

DetectClusters(order) ==
    LET found[i \in 0..Len(order)] ==
            IF i = 0 THEN [visited |-> {}, groups |-> {}] ELSE Group(found[i - 1], order[i], ToSet(order))
    IN found[Len(order)].groups

-----------------------------------------------------------------------------
(* run_cib_sweep *)

Goes(s, state) == sweep' = [sweep EXCEPT ![s] = state]

\* (mutant) SET without NX.
StartSweepAnyway(s) ==
    /\ sweep[s].at = "idle"
    /\ sweepLock' = time + LockTtl
    /\ Goes(s, [NoSweep EXCEPT !.at = "select", !.until = time + LockTtl])
    /\ UNCHANGED <<time, posted, reported, overran, sweepFaults>>

StartSweep(s) ==
    /\ sweep[s].at = "idle" /\ sweepLock = 0
    /\ sweepLock' = time + LockTtl
    /\ Goes(s, [NoSweep EXCEPT !.at = "select", !.until = time + LockTtl])
    /\ UNCHANGED <<time, posted, reported, overran, sweepFaults>>

SelectProjects(s) ==
    /\ sweep[s].at = "select"
    /\ Goes(s, [sweep[s] EXCEPT !.at = "projects", !.left = {ProjectOf[p] : p \in Recent}])
    /\ UNCHANGED <<time, posted, sweepLock, reported, overran, sweepFaults>>

\* _fetch_recent_social_events, with a window of its own.
Fetches(project) ==
    {SubSeq(all, 1, IF Len(all) > MaxPosts THEN MaxPosts ELSE Len(all)) : all \in NewestOf({p \in Recent : ProjectOf[p] = project})}

\* run_cib_sweep_for_project; in an aborted transaction it raises.
SweepProject(s, project) ==
    /\ sweep[s].at = "projects" /\ project \in sweep[s].left
    /\ LET rest == [sweep[s] EXCEPT !.left = @ \ {project}]
       IN IF rest.aborted THEN Goes(s, rest)
          ELSE \E order \in Fetches(project) :
                  Goes(s, [rest EXCEPT !.own = @ \cup DetectClusters(order), !.fetched = @ \cup ToSet(order)])
    /\ UNCHANGED <<time, posted, sweepLock, reported, overran, sweepFaults>>

\* An exception of one project is logged, and the clusters that it had inserted before are committed
\* with the rest; one of PostgreSQL has aborted the transaction of all.
ProjectRaises(s, project) ==
    /\ sweep[s].at = "projects" /\ project \in sweep[s].left
    /\ sweepFaults < MaxSweepFaults /\ sweepFaults' = sweepFaults + 1
    /\ \/ ~sweep[s].aborted /\ \E order \in Fetches(project) : \E found \in SUBSET DetectClusters(order) :
             Goes(s, [sweep[s] EXCEPT !.left = @ \ {project}, !.own = @ \cup found])
       \/ Goes(s, [sweep[s] EXCEPT !.left = @ \ {project}, !.aborted = TRUE, !.own = {}])
    /\ UNCHANGED <<time, posted, sweepLock, reported, overran>>

\* The COMMIT of an aborted transaction rolls back.
CommitSweep(s) ==
    /\ sweep[s].at = "projects" /\ sweep[s].left = {}
    /\ reported' = reported \cup sweep[s].own
    /\ Goes(s, [sweep[s] EXCEPT !.at = "release"])
    /\ UNCHANGED <<time, posted, sweepLock, overran, sweepFaults>>

\* The key is deleted, whoever has set it, or that fails.
ReleaseLock(s) ==
    /\ sweep[s].at = "release"
    /\ sweepLock' \in {0, sweepLock}
    /\ Goes(s, NoSweep)
    /\ UNCHANGED <<time, posted, reported, overran, sweepFaults>>

\* The scheduler dies, or the database does not answer and the key is deleted.
SweepDies(s) ==
    /\ sweep[s].at \in {"select", "projects"}
    /\ sweepFaults < MaxSweepFaults /\ sweepFaults' = sweepFaults + 1
    /\ sweepLock' \in {0, sweepLock}
    /\ Goes(s, NoSweep)
    /\ UNCHANGED <<time, posted, reported, overran>>

-----------------------------------------------------------------------------
StorePost(p) ==
    /\ p \notin posted /\ ObservedAt[p] <= time
    /\ posted' = posted \cup {p}
    /\ UNCHANGED <<time, sweepLock, sweep, reported, overran, sweepFaults>>

TimePasses ==
    /\ time < LastTime /\ time' = time + 1
    /\ sweepLock' = IF sweepLock <= time' THEN 0 ELSE sweepLock
    /\ overran' = (overran \/ \E s \in Sweepers : sweep[s].at # "idle" /\ sweep[s].until <= time')
    /\ UNCHANGED <<posted, sweep, reported, sweepFaults>>

ClustersNext ==
    \/ TimePasses \/ \E p \in Posts : StorePost(p)
    \/ \E s \in Sweepers :
          \/ StartSweep(s) \/ SelectProjects(s) \/ CommitSweep(s) \/ ReleaseLock(s) \/ SweepDies(s)
          \/ \E project \in Swept : SweepProject(s, project) \/ ProjectRaises(s, project)

ClustersSpec == ClustersInit /\ [][ClustersNext]_clustersVars

-----------------------------------------------------------------------------
SameProject(p, ps) == {q \in ps : ProjectOf[q] = ProjectOf[p]}

\* Once a sweep whose transaction was not aborted has committed, each post that it fetched and
\* that is like enough others is in a reported cluster, though being alike is not transitive and
\* a cluster takes its posts; every reported cluster is large enough, of one project, and of
\* posts that were recent together; and two schedulers sweep at once only after a sweep that
\* outlived its key.
ClustersReported ==
    /\ \A s \in Sweepers :
          sweep[s].at = "release" /\ ~sweep[s].aborted =>
              \A p \in sweep[s].fetched :
                  Cardinality(Candidates(p, SameProject(p, sweep[s].fetched))) >= MinCluster
                      => p \in UNION reported
    /\ \A c \in reported :
          /\ Cardinality(c) >= MinCluster
          /\ \A p, q \in c : ProjectOf[p] = ProjectOf[q] /\ ObservedAt[p] - ObservedAt[q] <= RecentFor
    /\ overran \/ Cardinality({s \in Sweepers : sweep[s].at # "idle"}) <= 1
=============================================================================
