----------------------------- MODULE Enrichment -----------------------------
(***************************************************************************)
(* The enrichment of one indicator by one reputation provider: the actor   *)
(* enrich_ioc (workers/iocs.py), the provider's enrich (services/          *)
(* enrichment/external/), its cache, its quota counters and its circuit    *)
(* breaker in Redis, and the row of ioc_enrichments.  Several jobs of the  *)
(* indicator run at once; each await is a step.                            *)
(*                                                                         *)
(* Passive DNS, WHOIS and the graph, which come after the commit for       *)
(* domains, are left out.                                                  *)
(***************************************************************************)
EXTENDS Integers, FiniteSets

CONSTANTS
    EnrichJobs,        \* messages of enrich_ioc
    Verdicts,
    NoVerdict,
    MinuteCap,         \* PROVIDER_MINUTE_CAPS of the provider
    DailyCap,          \* daily_request_cap, or the provider's default
    BreakerThreshold,  \* CB_THRESHOLD
    LastMinute,        \* bound: minutes that pass
    MinutesPerDay,
    MaxEnrichCrashes   \* bound: times the worker dies

ASSUME JobsFinite == IsFiniteSet(EnrichJobs)
ASSUME NoVerdictIsNone == NoVerdict \notin Verdicts
ASSUME EnrichmentBounds ==
    /\ MinuteCap \in Nat /\ DailyCap \in Nat /\ BreakerThreshold \in Nat \ {0}
    /\ LastMinute \in Nat /\ MinutesPerDay \in Nat \ {0} /\ MaxEnrichCrashes \in Nat

VARIABLES
    target,         \* the indicator: "active" (or expired), "whitelisted" or "deleted"
    forceFlag,      \* enrich:force_refresh:{ioc_id}
    cached,         \* enrich:result:{provider}:{value}, or NoVerdict
    minute,         \* the UTC minute
    minuteCount,    \* enrich:quota:...:{minute}
    dayCount,       \* enrich:daily:...:{day}
    quotaFails,     \* enrich:cb:fails:...
    breakerOpen,    \* enrich:cb:...
    enriched,       \* the verdict of the row of ioc_enrichments, or NoVerdict
    job,            \* each message, and how far its actor has come
    enrichCrashes,
    called          \* history: the minutes in which the provider was called, job by job

enrichmentVars == <<target, forceFlag, cached, minute, minuteCount, dayCount, quotaFails,
                    breakerOpen, enriched, job, enrichCrashes, called>>

MinutesOf == 0..LastMinute
DayOf(m) == m \div MinutesPerDay
DaysOf == {DayOf(m) : m \in MinutesOf}

Places == {"none", "queued", "flagged", "routed", "closed", "uncached", "counted", "refused",
           "calling", "answered", "kept", "limited", "opening", "opened", "result", "saved", "done"}
JobState == [at : Places, forced : BOOLEAN, minute : MinutesOf, verdict : Verdicts \cup {NoVerdict}]
NoJobYet == [at |-> "none", forced |-> FALSE, minute |-> 0, verdict |-> NoVerdict]

\* The keys, the rows and the jobs.  Neither counter passes its cap, and the minute's is
\* never below what it has still to give back.
EnrichmentTypeOK ==
    /\ target \in {"active", "whitelisted", "deleted"}
    /\ forceFlag \in BOOLEAN /\ breakerOpen \in BOOLEAN
    /\ cached \in Verdicts \cup {NoVerdict} /\ enriched \in Verdicts \cup {NoVerdict}
    /\ minute \in MinutesOf
    /\ minuteCount \in [MinutesOf -> 0..MinuteCap]
    /\ dayCount \in [DaysOf -> 0..DailyCap]
    /\ quotaFails \in Nat
    /\ job \in [EnrichJobs -> JobState]
    /\ enrichCrashes \in 0..MaxEnrichCrashes
    /\ called \in [MinutesOf -> Nat]

EnrichmentInit ==
    /\ target = "active"
    /\ forceFlag = FALSE /\ cached = NoVerdict
    /\ minute = 0
    /\ minuteCount = [m \in MinutesOf |-> 0] /\ dayCount = [d \in DaysOf |-> 0]
    /\ quotaFails = 0 /\ breakerOpen = FALSE
    /\ enriched = NoVerdict
    /\ job = [j \in EnrichJobs |-> NoJobYet]
    /\ enrichCrashes = 0
    /\ called = [m \in MinutesOf |-> 0]

counters == <<minuteCount, dayCount, called>>
breaker == <<quotaFails, breakerOpen>>
answers == <<cached, enriched>>

From(j, at) == job[j].at = at
To(j, at) == job' = [job EXCEPT ![j].at = at]
WithResult(j, at, v) == job' = [job EXCEPT ![j].at = at, ![j].verdict = v]

-----------------------------------------------------------------------------
(* The messages *)

\* Ingest sends one for every sighting; trigger_ioc_enrich too, and it may ask for a refresh.
SendEnrich(j) ==
    /\ From(j, "none") /\ target # "deleted"
    /\ To(j, "queued")
    /\ forceFlag' \in {forceFlag, TRUE}
    /\ UNCHANGED <<target, cached, minute, counters, breaker, enriched, enrichCrashes>>

\* Analysts whitelist, reinstate and delete it (module Indicators).
TargetChanges ==
    /\ target # "deleted"
    /\ target' \in {"active", "whitelisted", "deleted"} \ {target}
    /\ UNCHANGED <<forceFlag, minute, counters, breaker, cached, job, enrichCrashes>>
    /\ enriched' = IF target' = "deleted" THEN NoVerdict ELSE enriched

-----------------------------------------------------------------------------
(* _async_enrich *)

\* The flag is read first, ...
ReadFlag(j) ==
    /\ From(j, "queued")
    /\ job' = [job EXCEPT ![j].at = "flagged", ![j].forced = forceFlag]
    /\ UNCHANGED <<target, forceFlag, minute, counters, breaker, answers, enrichCrashes>>

\* ... then the row, and the providers that are enabled and know its type.
LoadTarget(j) ==
    /\ From(j, "flagged")
    /\ \/ target = "active" /\ To(j, "routed")
       \/ To(j, "done")
    /\ UNCHANGED <<target, forceFlag, minute, counters, breaker, answers, enrichCrashes>>

\* The results of the providers are upserted and committed; a row of an indicator that
\* was deleted cannot be, and all of them are lost.
SaveResult(j) ==
    /\ From(j, "result")
    /\ IF job[j].verdict # NoVerdict /\ target = "deleted"
       THEN To(j, "done") /\ UNCHANGED enriched
       ELSE /\ To(j, "saved")
            /\ enriched' = IF job[j].verdict = NoVerdict THEN enriched ELSE job[j].verdict
    /\ UNCHANGED <<target, forceFlag, minute, counters, breaker, cached, enrichCrashes>>

\* A flag that was set is deleted, also if it has been set again in the meantime.
DeleteFlag(j) ==
    /\ From(j, "saved")
    /\ To(j, "done")
    /\ forceFlag' = (forceFlag /\ ~job[j].forced)
    /\ UNCHANGED <<target, minute, counters, breaker, answers, enrichCrashes>>

-----------------------------------------------------------------------------
(* enrich of the provider *)

CheckBreaker(j) ==
    /\ From(j, "routed")
    /\ To(j, IF breakerOpen THEN "result" ELSE "closed")
    /\ UNCHANGED <<target, forceFlag, minute, counters, breaker, answers, enrichCrashes>>

\* get_cached_result, unless a refresh was asked for.
LookInCache(j) ==
    /\ From(j, "closed")
    /\ IF ~job[j].forced /\ cached # NoVerdict THEN WithResult(j, "result", cached)
       ELSE To(j, "uncached")
    /\ UNCHANGED <<target, forceFlag, minute, counters, breaker, answers, enrichCrashes>>

\* (mutant) The minute's counter is compared with its cap, and not charged.
TakeMinuteUncounted(j) ==
    /\ From(j, "uncached")
    /\ job' = [job EXCEPT ![j].at = IF minuteCount[minute] + 1 > MinuteCap THEN "result" ELSE "counted",
                          ![j].minute = minute]
    /\ UNCHANGED <<target, forceFlag, minute, counters, breaker, answers, enrichCrashes>>

\* check_and_consume_quota: the minute's counter, by QUOTA_LUA, ...
TakeMinute(j) ==
    /\ From(j, "uncached")
    /\ job' = [job EXCEPT ![j].at = IF minuteCount[minute] + 1 > MinuteCap THEN "result" ELSE "counted",
                          ![j].minute = minute]
    /\ minuteCount' = [minuteCount EXCEPT ![minute] = IF @ + 1 > MinuteCap THEN @ ELSE @ + 1]
    /\ UNCHANGED <<target, forceFlag, minute, dayCount, called, breaker, answers, enrichCrashes>>

\* ... the day's; called counts the request under the minute that was charged ...
TakeDay(j) ==
    LET d == DayOf(minute)
    IN  /\ From(j, "counted")
        /\ IF dayCount[d] + 1 > DailyCap
           THEN To(j, "refused") /\ UNCHANGED <<dayCount, called>>
           ELSE /\ To(j, "calling")
                /\ dayCount' = [dayCount EXCEPT ![d] = @ + 1]
                /\ called' = [called EXCEPT ![job[j].minute] = @ + 1]
        /\ UNCHANGED <<target, forceFlag, minute, minuteCount, breaker, answers, enrichCrashes>>

\* ... and if that is full the minute's is given back.
GiveBack(j) ==
    /\ From(j, "refused")
    /\ To(j, "result")
    /\ minuteCount' = [minuteCount EXCEPT ![job[j].minute] = @ - 1]
    /\ UNCHANGED <<target, forceFlag, minute, dayCount, called, breaker, answers, enrichCrashes>>

\* The provider answers, refuses (429), fails, or says 401: Shodan's is stored, not cached.
Answer(j) ==
    /\ From(j, "calling")
    /\ \/ \E v \in Verdicts : WithResult(j, "answered", v) \/ WithResult(j, "result", v)
       \/ To(j, "limited") \/ To(j, "result")
    /\ UNCHANGED <<target, forceFlag, minute, counters, breaker, answers, enrichCrashes>>

\* cache_result: SET NX.
CacheResult(j) ==
    /\ From(j, "answered")
    /\ To(j, "kept")
    /\ cached' = IF cached = NoVerdict THEN job[j].verdict ELSE cached
    /\ UNCHANGED <<target, forceFlag, minute, counters, breaker, enriched, enrichCrashes>>

RecordSuccess(j) ==
    /\ From(j, "kept")
    /\ To(j, "result")
    /\ quotaFails' = 0
    /\ UNCHANGED <<target, forceFlag, minute, counters, breakerOpen, answers, enrichCrashes>>

\* record_quota_failure: INCR and EXPIRE, ...
RecordFailure(j) ==
    /\ From(j, "limited")
    /\ quotaFails' = quotaFails + 1
    /\ To(j, IF quotaFails + 1 >= BreakerThreshold THEN "opening" ELSE "result")
    /\ UNCHANGED <<target, forceFlag, minute, counters, breakerOpen, answers, enrichCrashes>>

\* ... and at the threshold the breaker opens ...
OpenBreaker(j) ==
    /\ From(j, "opening")
    /\ To(j, "opened")
    /\ breakerOpen' = TRUE
    /\ UNCHANGED <<target, forceFlag, minute, counters, quotaFails, answers, enrichCrashes>>

\* ... and the count begins anew.
ResetFailures(j) ==
    /\ From(j, "opened")
    /\ To(j, "result")
    /\ quotaFails' = 0
    /\ UNCHANGED <<target, forceFlag, minute, counters, breakerOpen, answers, enrichCrashes>>

-----------------------------------------------------------------------------
(* Time and crashes *)

NextMinute ==
    /\ minute < LastMinute
    /\ minute' = minute + 1
    /\ UNCHANGED <<target, forceFlag, counters, breaker, answers, job, enrichCrashes>>

\* TTLs: 300 s, 24 h, 300 s and 1 h.
KeyExpires ==
    /\ \/ forceFlag /\ forceFlag' = FALSE /\ UNCHANGED <<cached, breaker>>
       \/ cached # NoVerdict /\ cached' = NoVerdict /\ UNCHANGED <<forceFlag, breaker>>
       \/ quotaFails > 0 /\ quotaFails' = 0 /\ UNCHANGED <<forceFlag, cached, breakerOpen>>
       \/ breakerOpen /\ breakerOpen' = FALSE /\ UNCHANGED <<forceFlag, cached, quotaFails>>
    /\ UNCHANGED <<target, minute, counters, enriched, job, enrichCrashes>>

\* The worker dies and the messages it held are delivered again.
CrashEnrich ==
    /\ enrichCrashes < MaxEnrichCrashes
    /\ enrichCrashes' = enrichCrashes + 1
    /\ job' = [j \in EnrichJobs |-> IF job[j].at \in {"none", "done"} THEN job[j]
                                    ELSE [NoJobYet EXCEPT !.at = "queued"]]
    /\ UNCHANGED <<target, forceFlag, minute, counters, breaker, answers>>

EnrichmentNext ==
    \/ \E j \in EnrichJobs :
          \/ SendEnrich(j) \/ ReadFlag(j) \/ LoadTarget(j) \/ SaveResult(j) \/ DeleteFlag(j)
          \/ CheckBreaker(j) \/ LookInCache(j) \/ TakeMinute(j) \/ TakeDay(j) \/ GiveBack(j)
          \/ Answer(j) \/ CacheResult(j) \/ RecordSuccess(j)
          \/ RecordFailure(j) \/ OpenBreaker(j) \/ ResetFailures(j)
    \/ TargetChanges \/ NextMinute \/ KeyExpires \/ CrashEnrich

EnrichmentSpec == EnrichmentInit /\ [][EnrichmentNext]_enrichmentVars

-----------------------------------------------------------------------------
(* Properties *)

\* Whatever jobs overlap, are refused and give back, run over the end of a minute or are
\* run again after a crash: the provider is not called more often than its cap under any
\* minute that was charged (check_and_consume_quota).
CallsWithinCaps == \A m \in MinutesOf : called[m] <= MinuteCap

\* "force_refresh=True bypasses the cache read (but still writes to cache on a successful
\* provider call)": what a forced job was answered is what the next one finds.
ForcedAnswerCached ==
    [][\A j \in EnrichJobs : job[j].forced /\ CacheResult(j) => cached' = job[j].verdict]_enrichmentVars
=============================================================================
