------------------------------ MODULE Sandbox ------------------------------
(***************************************************************************)
(* The detonation of one sample: sandbox_reports and the project's row of  *)
(* sandbox_configs (models/sandbox.py, routers/sandbox.py), and the two    *)
(* actors of workers/sandbox.py that submit a sample and poll for its      *)
(* report.  A poll that finds the report unfinished sends the next one.    *)
(*                                                                         *)
(* Neither actor is retried after an exception; the message of a worker    *)
(* that dies is delivered again by the broker.  What the provider answers  *)
(* is any outcome, and delays are not counted.                             *)
(***************************************************************************)
EXTENDS Integers, FiniteSets

CONSTANTS
    Detonators,    \* worker threads on the queue sandbox
    PollAttempts,  \* MAX_POLL_ATTEMPTS
    MaxSightings,  \* bound: events that mention the sample
    MaxReportRows, \* bound: rows of sandbox_reports
    MaxDeaths      \* bound: workers that die

ASSUME SandboxBounds == {PollAttempts, MaxSightings, MaxReportRows, MaxDeaths} \subseteq Nat /\ PollAttempts > 0

VARIABLES
    sample,         \* is the indicator committed
    config,         \* the project's row: none, disabled or enabled
    sightings, deaths,
    submits,        \* messages of submit_sandbox_report
    pollMessages,   \* messages of poll_sandbox_report by report and attempt
    sandboxReport,  \* the rows
    detonator,      \* each thread
    lost,           \* history: reports that an exception or a death left without a poll
    repeated,       \* history: reports of which a poll was delivered twice
    judged          \* history: reports whose result was written

around == <<sample, config, sightings>>
past == <<lost, repeated, judged>>
sandboxVars == <<around, deaths, submits, pollMessages, sandboxReport, detonator, past>>

ReportIds == 1..MaxReportRows
Attempts == 0..(PollAttempts - 1)
Final == {"complete", "timeout", "error", "sample_unavailable"}
NoReport == [status |-> "none", attempts |-> 0]

\* submitted: the row is committed, the first poll not sent; polled: the attempt is
\* committed, the next poll not sent; finished: the message is not acknowledged yet.
Detonator == [at : {"idle", "submitting", "submitted", "polling", "polled", "finished"},
              of : {{}} \cup {{r} : r \in ReportIds}, attempt : Attempts]
Unoccupied == [at |-> "idle", of |-> {}, attempt |-> 0]

\* The rows, the messages and the threads; a report that is polled is there.
SandboxTypeOK ==
    /\ sample \in BOOLEAN /\ config \in {"none", "disabled", "enabled"}
    /\ sightings \in 0..MaxSightings /\ deaths \in 0..MaxDeaths
    /\ submits \in 0..(MaxSightings + MaxDeaths)
    /\ pollMessages \in [ReportIds \X Attempts -> 0..(1 + MaxDeaths)]
    /\ sandboxReport \in [ReportIds -> [status : Final \cup {"none", "pending"}, attempts : 0..PollAttempts]]
    /\ detonator \in [Detonators -> Detonator]
    /\ \A w \in Detonators : \A r \in detonator[w].of : sandboxReport[r].status # "none"
    /\ \A r \in ReportIds, a \in Attempts : pollMessages[<<r, a>>] > 0 => sandboxReport[r].status # "none"
    /\ lost \subseteq ReportIds /\ repeated \subseteq ReportIds /\ judged \subseteq ReportIds

SandboxInit ==
    /\ sample = FALSE /\ config = "none"
    /\ sightings = 0 /\ deaths = 0
    /\ submits = 0
    /\ pollMessages = [m \in ReportIds \X Attempts |-> 0]
    /\ sandboxReport = [r \in ReportIds |-> NoReport]
    /\ detonator = [w \in Detonators |-> Unoccupied]
    /\ lost = {} /\ repeated = {} /\ judged = {}

-----------------------------------------------------------------------------
(* Around the actors *)

\* trigger_sandbox_if_sha256 sends before the transaction of the event commits.
SightSample ==
    /\ sightings < MaxSightings
    /\ sightings' = sightings + 1
    /\ submits' = submits + 1
    /\ UNCHANGED <<sample, config, deaths, pollMessages, sandboxReport, detonator, past>>

CommitSample ==
    /\ sightings > 0 /\ ~sample
    /\ sample' = TRUE
    /\ UNCHANGED <<config, sightings, deaths, submits, pollMessages, sandboxReport, detonator, past>>

\* upsert_sandbox_config; no handler deletes the row.
UpsertConfig(c) ==
    /\ config' = c
    /\ UNCHANGED <<sample, sightings, deaths, submits, pollMessages, sandboxReport, detonator, past>>

Becomes(w, d) == detonator' = [detonator EXCEPT ![w] = d]
Unused == {r \in ReportIds : sandboxReport[r].status = "none"}
NextRow == CHOOSE r \in Unused : \A q \in Unused : r <= q

-----------------------------------------------------------------------------
(* submit_sandbox_report *)

\* It returns at once without the row of the indicator, or if the project has not enabled
\* the sandbox.
TakeSubmit(w) ==
    /\ detonator[w].at = "idle" /\ submits > 0
    /\ submits' = submits - 1
    /\ Becomes(w, [Unoccupied EXCEPT !.at = IF sample /\ config = "enabled" THEN "submitting" ELSE "finished"])
    /\ UNCHANGED <<around, deaths, pollMessages, sandboxReport, past>>

\* There is no sample to be had, the provider refuses it, or it is pending.
Submit(w) ==
    /\ detonator[w].at = "submitting" /\ Unused # {}
    /\ \E s \in {"sample_unavailable", "error", "pending"} :
          /\ sandboxReport' = [sandboxReport EXCEPT ![NextRow].status = s]
          /\ Becomes(w, IF s = "pending" THEN [at |-> "submitted", of |-> {NextRow}, attempt |-> 0]
                        ELSE [Unoccupied EXCEPT !.at = "finished"])
    /\ UNCHANGED <<around, deaths, submits, pollMessages, past>>

Send(r, a) == pollMessages' = [pollMessages EXCEPT ![<<r, a>>] = @ + 1]

FirstPoll(w) ==
    /\ detonator[w].at = "submitted"
    /\ \E r \in detonator[w].of : Send(r, 0)
    /\ Becomes(w, [Unoccupied EXCEPT !.at = "finished"])
    /\ UNCHANGED <<around, deaths, submits, sandboxReport, past>>

-----------------------------------------------------------------------------
(* poll_sandbox_report *)

\* (mutant) A poll returns as well when the sandbox has been disabled.
TakePollEnabled(w, r, a) ==
    /\ detonator[w].at = "idle" /\ pollMessages[<<r, a>>] > 0
    /\ pollMessages' = [pollMessages EXCEPT ![<<r, a>>] = @ - 1]
    /\ Becomes(w, [at |-> IF sandboxReport[r].status \in Final \/ config # "enabled"
                          THEN "finished" ELSE "polling",
                   of |-> {r}, attempt |-> a])
    /\ UNCHANGED <<around, deaths, submits, sandboxReport, past>>

\* It returns at once if the report has come to an end; it does not ask whether the sandbox
\* is enabled.
TakePoll(w, r, a) ==
    /\ detonator[w].at = "idle" /\ pollMessages[<<r, a>>] > 0
    /\ pollMessages' = [pollMessages EXCEPT ![<<r, a>>] = @ - 1]
    /\ Becomes(w, [at |-> IF sandboxReport[r].status \in Final THEN "finished" ELSE "polling",
                   of |-> {r}, attempt |-> a])
    /\ UNCHANGED <<around, deaths, submits, sandboxReport, past>>

\* The provider is not done, or cannot be asked: one attempt more, and the last one ends the
\* report, whatever its status has become since it was loaded.
Unfinished(w) ==
    /\ detonator[w].at = "polling"
    /\ \E r \in detonator[w].of :
          LET n == detonator[w].attempt + 1
              ends == n >= PollAttempts
          IN  /\ sandboxReport' = [sandboxReport EXCEPT ![r].attempts = n,
                                                       ![r].status = IF ends THEN "timeout" ELSE @]
              /\ Becomes(w, [detonator[w] EXCEPT !.at = IF ends THEN "finished" ELSE "polled"])
    /\ UNCHANGED <<around, deaths, submits, pollMessages, past>>

NextPoll(w) ==
    /\ detonator[w].at = "polled"
    /\ \E r \in detonator[w].of : Send(r, detonator[w].attempt + 1)
    /\ Becomes(w, [detonator[w] EXCEPT !.at = "finished"])
    /\ UNCHANGED <<around, deaths, submits, sandboxReport, past>>

\* _write_sandbox_result, and its commit.
WriteResult(w) ==
    /\ detonator[w].at = "polling"
    /\ \E r \in detonator[w].of :
          /\ sandboxReport' = [sandboxReport EXCEPT ![r].status = "complete"]
          /\ judged' = judged \cup {r}
    /\ Becomes(w, [detonator[w] EXCEPT !.at = "finished"])
    /\ UNCHANGED <<around, deaths, submits, pollMessages, lost, repeated>>

\* A network indicator that is known already keeps its row, and the link to the row that was
\* not inserted violates its foreign key: the error is swallowed, the transaction is aborted,
\* and the result is not written.  Any other exception ends the poll or, after the commit of
\* a new row, the submission in the same way.
PollRaises(w) ==
    /\ detonator[w].at \in {"submitted", "polling", "polled"}
    /\ lost' = lost \cup detonator[w].of
    /\ Becomes(w, [detonator[w] EXCEPT !.at = "finished"])
    /\ UNCHANGED <<around, deaths, submits, pollMessages, sandboxReport, repeated, judged>>

-----------------------------------------------------------------------------
Acknowledge(w) ==
    /\ detonator[w].at = "finished"
    /\ Becomes(w, Unoccupied)
    /\ UNCHANGED <<around, deaths, submits, pollMessages, sandboxReport, past>>

\* The worker dies before it has acknowledged the message, which is delivered again; a row
\* that waits for its first poll does not get one.
WorkerDies(w) ==
    /\ deaths < MaxDeaths /\ detonator[w].at # "idle"
    /\ deaths' = deaths + 1
    /\ Becomes(w, Unoccupied)
    /\ IF detonator[w].of = {} \/ detonator[w].at = "submitted"
       THEN /\ submits' = submits + 1
            /\ lost' = lost \cup detonator[w].of
            /\ UNCHANGED <<pollMessages, repeated>>
       ELSE /\ \E r \in detonator[w].of : Send(r, detonator[w].attempt)
            /\ repeated' = repeated \cup detonator[w].of
            /\ UNCHANGED <<submits, lost>>
    /\ UNCHANGED <<around, sandboxReport, judged>>

SandboxNext ==
    \/ SightSample \/ CommitSample
    \/ \E c \in {"disabled", "enabled"} : UpsertConfig(c)
    \/ \E w \in Detonators :
          \/ TakeSubmit(w) \/ Submit(w) \/ FirstPoll(w) \/ Unfinished(w) \/ NextPoll(w)
          \/ WriteResult(w) \/ PollRaises(w) \/ Acknowledge(w) \/ WorkerDies(w)
          \/ \E r \in ReportIds, a \in Attempts : TakePoll(w, r, a)

SandboxSpec == SandboxInit /\ [][SandboxNext]_sandboxVars

-----------------------------------------------------------------------------
(* Properties *)

\* A message or a thread will see to the report.
Followed(r) ==
    \/ \E a \in Attempts : pollMessages[<<r, a>>] > 0
    \/ \E w \in Detonators : r \in detonator[w].of /\ detonator[w].at \in {"submitted", "polling", "polled"}

\* A report that is pending has a poll on its way, unless an exception or the death of a
\* worker took it; and a result that was written stands, unless a poll was delivered twice
\* ("self-rescheduling poll ... writes result on completion", workers/sandbox.py).
ReportsFollowed ==
    /\ \A r \in ReportIds : sandboxReport[r].status = "pending" => Followed(r) \/ r \in lost
    /\ \A r \in judged : sandboxReport[r].status = "complete" \/ r \in repeated
=============================================================================
