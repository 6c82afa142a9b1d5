---------------------------- MODULE TokenBudget ----------------------------
(***************************************************************************)
(* The daily token budget of a project: the Redis counters of              *)
(* backend/app/services/llm/token_budget.py, one for each UTC day, and     *)
(* what the AI jobs of workers/ai.py and the handler of routers/ai.py do   *)
(* with them.  They reserve an estimate before they call the model and     *)
(* correct it by what the model answered, under the key of the day on      *)
(* which they do so.  A job that fails gives nothing back, and Dramatiq    *)
(* may run it again, which reserves again.                                 *)
(*                                                                         *)
(* What the jobs do for those who wait for them is in module AiJobs.       *)
(***************************************************************************)
EXTENDS Integers

CONSTANTS
    Calls,      \* jobs that may be asked for
    Kind,       \* "event", "narrative" or "case"
    Estimate,   \* estimate_input_tokens of the job's prompt
    Answers,    \* what the model may answer, in words or, for a case, total_tokens
    Flat,       \* the flat estimate of enqueue_summarise (200 in the code)
    Cap,        \* projects.ai_daily_token_cap
    LastDay,    \* bound: midnights that pass
    MaxCrashes  \* bound: times the AI worker dies

ASSUME KindsKnown == Kind \in [Calls -> {"event", "narrative", "case"}]
ASSUME TokensNatural ==
    Estimate \in [Calls -> Nat] /\ Answers \subseteq Nat /\ Flat \in Nat /\ Cap \in Nat
ASSUME BoundsNatural == LastDay \in Nat /\ MaxCrashes \in Nat

VARIABLES
    today,    \* the UTC day
    spent,    \* ai:budget:project:{id}:day:{day}
    pc,       \* where a job is
    failures, \* runs of a job that ended with an exception
    crashes,
    overrun,  \* history: tokens by which answers recorded on a day exceeded the estimate
    paid,     \* history: what a job has added to the counters of all days
    heard     \* history: tokens of a job's answers that it recorded

jobs == <<pc, failures, crashes>>
history == <<overrun, paid, heard>>
vars == <<today, spent, jobs, history>>

Days == 0..LastDay

TypeOK ==
    /\ today \in Days
    /\ spent \in [Days -> Int]
    /\ pc \in [Calls -> {"new", "queued", "calling", "recorded", "over"}]
    /\ failures \in [Calls -> 0..2]
    /\ crashes \in 0..MaxCrashes
    /\ overrun \in [Days -> Nat]
    /\ paid \in [Calls -> Int]
    /\ heard \in [Calls -> Nat]

Init ==
    /\ today = 0
    /\ spent = [d \in Days |-> 0]
    /\ pc = [c \in Calls |-> "new"]
    /\ failures = [c \in Calls |-> 0]
    /\ crashes = 0
    /\ overrun = [d \in Days |-> 0]
    /\ paid = [c \in Calls |-> 0]
    /\ heard = [c \in Calls |-> 0]

-----------------------------------------------------------------------------
(* services/llm/token_budget.py *)

\* (mutant) What is asked for is not part of the comparison.
AllowsAnything(n) == spent[today] <= Cap

\* The comparison of the Lua script, on today's counter.
Allows(n) == spent[today] + n <= Cap

\* check_and_reserve_budget, which Redis runs as one step.
Reserve(c, n) ==
    /\ Allows(n)
    /\ spent' = [spent EXCEPT ![today] = @ + n]
    /\ paid' = [paid EXCEPT ![c] = @ + n]
    /\ UNCHANGED <<overrun, heard>>

\* record_actual_tokens, also on today's counter.
RecordActual(c, delta) ==
    /\ spent' = [spent EXCEPT ![today] = @ + delta]
    /\ paid' = [paid EXCEPT ![c] = @ + delta]

-----------------------------------------------------------------------------
(* The jobs *)

Step(c, from, to) == pc[c] = from /\ pc' = [pc EXCEPT ![c] = to]

\* int(estimated * 1.2), but the estimate itself for a case.
Reserved(c) == IF Kind[c] = "case" THEN Estimate[c] ELSE (6 * Estimate[c]) \div 5

\* enqueue_summarise reserves the flat estimate, ...
AskForSummary(c) ==
    /\ Kind[c] = "event"
    /\ Step(c, "new", "queued")
    /\ Reserve(c, Flat)
    /\ UNCHANGED <<today, failures, crashes>>

\* ... answers 429 when it does not fit, ...
RefuseSummary(c) ==
    /\ Kind[c] = "event" /\ ~Allows(Flat)
    /\ Step(c, "new", "over")
    /\ UNCHANGED <<today, spent, failures, crashes, history>>

\* ... and goes on without it if Redis fails; the other handlers reserve nothing.
AskUnreserved(c) ==
    /\ Step(c, "new", "queued")
    /\ UNCHANGED <<today, spent, failures, crashes, history>>

\* (mutant) The worker relies on what the handler reserved.
BeginUnreserved(c) ==
    /\ Step(c, "queued", "calling")
    /\ UNCHANGED <<today, spent, failures, crashes, history>>

\* The worker reserves its own estimate, on top of the handler's, ...
Begin(c) ==
    /\ Step(c, "queued", "calling")
    /\ Reserve(c, Reserved(c))
    /\ UNCHANGED <<today, failures, crashes>>

\* ... or gives up, also when what it is to summarise is gone.
Decline(c) ==
    /\ Step(c, "queued", "over")
    /\ UNCHANGED <<today, spent, failures, crashes, history>>

\* The answer is there, or a part of it when the client has left.
Record(c) ==
    /\ Step(c, "calling", "recorded")
    /\ \E n \in Answers :
          /\ RecordActual(c, n - Estimate[c])
          /\ overrun' = [overrun EXCEPT ![today] = IF n > Estimate[c] THEN @ + n - Estimate[c] ELSE @]
          /\ heard' = [heard EXCEPT ![c] = @ + n]
    /\ UNCHANGED <<today, failures, crashes>>

Finish(c) ==
    /\ Step(c, "recorded", "over")
    /\ UNCHANGED <<today, spent, failures, crashes, history>>

\* (mutant) Whatever fails is tried again.
FailRetries(c) ==
    /\ pc[c] \in {"queued", "calling", "recorded"}
    /\ failures' = [failures EXCEPT ![c] = @ + 1]
    /\ pc' = [pc EXCEPT ![c] = "queued"]
    /\ UNCHANGED <<today, spent, crashes, history>>

\* An exception or the time limit: nothing is given back.  Dramatiq retries a
\* streamed job once, and a case never.
Fail(c) ==
    /\ pc[c] \in {"queued", "calling", "recorded"}
    /\ failures' = [failures EXCEPT ![c] = @ + 1]
    /\ pc' = [pc EXCEPT ![c] = IF Kind[c] # "case" /\ failures[c] = 0 THEN "queued" ELSE "over"]
    /\ UNCHANGED <<today, spent, crashes, history>>

\* The worker process dies and its messages are delivered again.
Crash ==
    /\ crashes < MaxCrashes
    /\ crashes' = crashes + 1
    /\ pc' = [c \in Calls |-> IF pc[c] \in {"calling", "recorded"} THEN "queued" ELSE pc[c]]
    /\ UNCHANGED <<today, spent, failures, history>>

Midnight ==
    /\ today < LastDay
    /\ today' = today + 1
    /\ UNCHANGED <<spent, jobs, history>>

Next ==
    \/ \E c \in Calls : \/ AskForSummary(c) \/ RefuseSummary(c) \/ AskUnreserved(c)
                        \/ Begin(c) \/ Decline(c) \/ Record(c) \/ Finish(c) \/ Fail(c)
    \/ Crash \/ Midnight

Spec == Init /\ [][Next]_vars

-----------------------------------------------------------------------------
(* Properties *)

\* Whatever is reserved, refused, given back or repeated, and over midnight, a
\* day's counter is above the cap only by what answers exceeded their estimates:
\* no reservation takes it there (check_and_reserve_budget).
ReservedWithinCap == \A d \in Days : spent[d] <= Cap + overrun[d]

\* What a job has put on the counters, of whatever days, pays for the answers it
\* recorded and, while it calls the model, for the estimate that recording will
\* take off: failures, crashes and reservations made twice only add to that.
AnswersPaidFor ==
    \A c \in Calls : paid[c] >= heard[c] + (IF pc[c] = "calling" THEN Estimate[c] ELSE 0)

\* The cap holds for the project, and nothing is given back that was not paid.
BudgetHolds == ReservedWithinCap /\ AnswersPaidFor
=============================================================================
