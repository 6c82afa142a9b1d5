------------------------------- MODULE AiJobs -------------------------------
(***************************************************************************)
(* The AI jobs an analyst asks for and waits for: the summary of an event  *)
(* and the narrative of a TIBER scenario, which are streamed, and the      *)
(* summary of a case, which is polled (backend/app/workers/ai.py and the   *)
(* handlers of routers/ai.py, routers/tiber.py and routers/cases.py that   *)
(* enqueue them).  A streamed job has in Redis a list of chunks, a "done"  *)
(* and a "cancelled" flag; the generator of server-sent events polls them. *)
(*                                                                         *)
(* One case, and one stream at a time of each job.  The text is left out,  *)
(* and so are the suggestions and tags of the summary's second call to the *)
(* model.  Whether the token budget allows a job is left open here: module *)
(* TokenBudget has the counter.                                            *)
(***************************************************************************)
EXTENDS Integers, Sequences

CONSTANTS
    Jobs,       \* requests an analyst may make
    Kind,       \* "event", "narrative" or "case"
    MaxText,    \* bound: a job has the model's next chunk while its list is shorter
    MaxCrashes  \* bound: times the AI worker dies

ASSUME KindsKnown == Kind \in [Jobs -> {"event", "narrative", "case"}]
ASSUME BoundsNatural == MaxText \in Nat /\ MaxCrashes \in Nat

VARIABLES
    \* Redis
    chunks,        \* ai:job:{id}:chunks
    done,          \* the jobs with ai:job:{id}:done
    cancelled,     \* the jobs with ai:job:{id}:cancelled
    \* Postgres
    saved,         \* the jobs whose summary or narrative was committed
    summary_md,    \* cases.summary_md of the one case: "null" or "text", which may be an excuse
    \* the AI worker
    pc, retries,   \* a job's place and the retries it has had
    crashes,
    \* the stream of a job and its client
    conn, shown,   \* where the generator is, and what it has sent
    \* history
    halted,        \* jobs that ended because they were cancelled
    silent,        \* jobs whose end no key or row tells, or no longer
    late           \* chunks of text a job pushed while its cancelled flag was set

keys == <<chunks, done, cancelled, late>>
rows == <<saved, summary_md>>
work == <<pc, retries, crashes, halted>>
stream == <<conn, shown>>
vars == <<keys, rows, work, stream, silent>>

Streamed == {j \in Jobs : Kind[j] # "case"}
Polled == Jobs \ Streamed
Running == {"parts", "stream", "push", "save", "erring", "closing",
            "raising", "reraising", "call", "excuse"}
Labels == Running \cup {"new", "refused", "cleared", "queued", "over"}

TypeOK ==
    /\ chunks \in [Jobs -> Seq({"text", "error"})]
    /\ done \subseteq Jobs /\ cancelled \subseteq Jobs
    /\ saved \subseteq Jobs /\ summary_md \in {"null", "text"}
    /\ pc \in [Jobs -> Labels]
    /\ retries \in [Jobs -> 0..1]
    /\ crashes \in 0..MaxCrashes
    /\ conn \in [Jobs -> {"none", "reading", "checking", "left", "told"}]
    /\ shown \in [Jobs -> Seq({"text", "error"})]
    /\ halted \subseteq Jobs /\ silent \subseteq Jobs
    /\ late \in [Jobs -> Nat]

Init ==
    /\ chunks = [j \in Jobs |-> <<>>]
    /\ done = {} /\ cancelled = {} /\ saved = {} /\ summary_md = "null"
    /\ pc = [j \in Jobs |-> "new"]
    /\ retries = [j \in Jobs |-> 0]
    /\ crashes = 0
    /\ conn = [j \in Jobs |-> "none"]
    /\ shown = [j \in Jobs |-> <<>>]
    /\ halted = {} /\ silent = {}
    /\ late = [j \in Jobs |-> 0]

Step(j, from, to) == pc[j] = from /\ pc' = [pc EXCEPT ![j] = to]

-----------------------------------------------------------------------------
(* The handlers that enqueue *)

\* 429: the budget is spent and there is no job to wait for.
RefuseSummary(j) ==
    /\ Kind[j] = "event"
    /\ Step(j, "new", "refused")
    /\ UNCHANGED <<keys, rows, retries, crashes, halted, stream, silent>>

\* enqueue_summarise, draft_narrative and summarise_case.
Enqueue(j) ==
    /\ Step(j, "new", "queued")
    /\ UNCHANGED <<keys, rows, retries, crashes, halted, stream, silent>>

\* regenerate_case_summary commits the cleared summary, then sends.
ClearSummary(j) ==
    /\ Kind[j] = "case"
    /\ Step(j, "new", "cleared")
    /\ summary_md' = "null"
    /\ UNCHANGED <<keys, saved, retries, crashes, halted, stream, silent>>

Regenerate(j) ==
    /\ Step(j, "cleared", "queued")
    /\ UNCHANGED <<keys, rows, retries, crashes, halted, stream, silent>>

\* The API or the broker fails in between.
RegenerateFails(j) ==
    /\ Step(j, "cleared", "over")
    /\ silent' = silent \cup {j}
    /\ UNCHANGED <<keys, rows, retries, crashes, halted, stream>>

-----------------------------------------------------------------------------
(* _async_summarise and _async_draft_scenario_narrative *)

\* The event, the scenario or the project is gone, or the budget is spent.
Decline(j) ==
    /\ j \in Streamed
    /\ Step(j, "queued", "erring")
    /\ UNCHANGED <<keys, rows, retries, crashes, halted, stream, silent>>

\* A prompt of an event that would fill the context window goes in parts.
Begin(j) ==
    /\ j \in Streamed
    /\ \/ Step(j, "queued", "stream")
       \/ Kind[j] = "event" /\ Step(j, "queued", "parts")
    /\ UNCHANGED <<keys, rows, retries, crashes, halted, stream, silent>>

\* No look at the cancelled flag here, and nothing pushed.
SummariseParts(j) ==
    /\ Step(j, "parts", "stream")
    /\ UNCHANGED <<keys, rows, retries, crashes, halted, stream, silent>>

\* (mutant) The flag is not looked at between two chunks.
ReceiveUnchecked(j) ==
    /\ Len(chunks[j]) < MaxText
    /\ Step(j, "stream", "push")
    /\ UNCHANGED <<keys, rows, retries, crashes, halted, stream, silent>>

\* The model sends a chunk and the job is not cancelled, ...
Receive(j) ==
    /\ Len(chunks[j]) < MaxText /\ j \notin cancelled
    /\ Step(j, "stream", "push")
    /\ UNCHANGED <<keys, rows, retries, crashes, halted, stream, silent>>

\* ... so the chunk is pushed; ...
Push(j) ==
    /\ Step(j, "push", "stream")
    /\ chunks' = [chunks EXCEPT ![j] = Append(@, "text")]
    /\ late' = [late EXCEPT ![j] = @ + (IF j \in cancelled THEN 1 ELSE 0)]
    /\ UNCHANGED <<done, cancelled, rows, retries, crashes, halted, stream, silent>>

\* ... or it is cancelled and ends.
Halt(j) ==
    /\ Len(chunks[j]) < MaxText /\ j \in cancelled
    /\ Step(j, "stream", "closing")
    /\ halted' = halted \cup {j}
    /\ UNCHANGED <<keys, rows, retries, crashes, stream, silent>>

EndStream(j) ==
    /\ Step(j, "stream", "save")
    /\ UNCHANGED <<keys, rows, retries, crashes, halted, stream, silent>>

\* (mutant) The summary is only flushed.
SaveFlushes(j) ==
    /\ Step(j, "save", "closing")
    /\ UNCHANGED <<keys, rows, retries, crashes, halted, stream, silent>>

\* The row is committed, with what the second call to the model suggested.
Save(j) ==
    /\ Step(j, "save", "closing")
    /\ saved' = saved \cup {j}
    /\ UNCHANGED <<keys, summary_md, retries, crashes, halted, stream, silent>>

PushError(j) ==
    /\ Step(j, "erring", "closing")
    /\ chunks' = [chunks EXCEPT ![j] = Append(@, "error")]
    /\ UNCHANGED <<done, cancelled, late, rows, retries, crashes, halted, stream, silent>>

\* (mutant) The job ends without a word.
CloseSilently(j) ==
    /\ Step(j, "closing", "over")
    /\ UNCHANGED <<keys, rows, retries, crashes, halted, stream, silent>>

Close(j) ==
    /\ Step(j, "closing", "over")
    /\ done' = done \cup {j}
    /\ UNCHANGED <<chunks, cancelled, late, rows, retries, crashes, halted, stream, silent>>

\* The provider, the model, Postgres or Redis raises, at any of the steps above.
Throw(j) ==
    /\ j \in Streamed
    /\ \E from \in {"queued", "parts", "stream", "push", "save", "erring", "closing"} :
          Step(j, from, "raising")
    /\ UNCHANGED <<keys, rows, retries, crashes, halted, stream, silent>>

\* The exception is told to the client ...
PushException(j) ==
    /\ Step(j, "raising", "reraising")
    /\ chunks' = [chunks EXCEPT ![j] = Append(@, "error")]
    /\ UNCHANGED <<done, cancelled, late, rows, retries, crashes, halted, stream, silent>>

\* (mutant) Every exception is a reason to retry.
RequeueAlways(j) ==
    /\ retries' = [retries EXCEPT ![j] = @ + 1]
    /\ pc' = [pc EXCEPT ![j] = "queued"]

\* ... and raised again, for Dramatiq to retry the job once from the start.
Requeue(j) ==
    /\ retries' = [retries EXCEPT ![j] = 1]
    /\ pc' = [pc EXCEPT ![j] = IF retries[j] = 0 THEN "queued" ELSE "over"]

Reraise(j) ==
    /\ pc[j] = "reraising"
    /\ done' = done \cup {j}
    /\ Requeue(j)
    /\ UNCHANGED <<chunks, cancelled, late, rows, crashes, halted, stream, silent>>

\* Telling the client fails too, or it is the time limit, which nobody catches.
ReraiseUntold(j) ==
    /\ pc[j] \in {"raising", "reraising"}
    /\ Requeue(j)
    /\ silent' = silent \cup {j}
    /\ UNCHANGED <<keys, rows, crashes, halted, stream>>

-----------------------------------------------------------------------------
(* _async_summarise_case *)

\* The case is gone, has no events or no provider, or the budget is spent.
CaseShort(j) ==
    /\ Kind[j] = "case"
    /\ Step(j, "queued", "over")
    /\ \/ summary_md' = "text" /\ UNCHANGED silent
       \/ silent' = silent \cup {j} /\ UNCHANGED summary_md
    /\ UNCHANGED <<keys, saved, retries, crashes, halted, stream>>

CaseBegin(j) ==
    /\ Kind[j] = "case"
    /\ Step(j, "queued", "call")
    /\ UNCHANGED <<keys, rows, retries, crashes, halted, stream, silent>>

CaseWrite(j) ==
    /\ Step(j, "call", "over")
    /\ summary_md' = "text"
    /\ UNCHANGED <<keys, saved, retries, crashes, halted, stream, silent>>

CaseThrow(j) ==
    /\ Kind[j] = "case"
    /\ \E from \in {"queued", "call"} : Step(j, from, "excuse")
    /\ UNCHANGED <<keys, rows, retries, crashes, halted, stream, silent>>

\* (mutant) The handler of the exception only logs it.
ExcuseLogs(j) ==
    /\ Step(j, "excuse", "over")
    /\ UNCHANGED <<keys, rows, retries, crashes, halted, stream, silent>>

\* _write_case_summary_error; the exception goes no further: there is no retry.
Excuse(j) ==
    /\ Step(j, "excuse", "over")
    /\ summary_md' = "text"
    /\ UNCHANGED <<keys, saved, retries, crashes, halted, stream, silent>>

ExcuseFails(j) ==
    /\ Step(j, "excuse", "over")
    /\ silent' = silent \cup {j}
    /\ UNCHANGED <<keys, rows, retries, crashes, halted, stream>>

-----------------------------------------------------------------------------
(* _sse_generator *)

\* A client that has the id of the job opens its stream, or opens it again.
Open(j) ==
    /\ j \in Streamed /\ pc[j] \notin {"new", "refused"}
    /\ conn[j] \in {"none", "told"}
    /\ conn' = [conn EXCEPT ![j] = "reading"]
    /\ shown' = [shown EXCEPT ![j] = <<>>]
    /\ UNCHANGED <<keys, rows, work, silent>>

\* (mutant) The last chunk sent is read again.
DrainAgain(j) ==
    /\ conn[j] = "reading"
    /\ conn' = [conn EXCEPT ![j] = "checking"]
    /\ shown' = [shown EXCEPT ![j] =
          @ \o SubSeq(chunks[j], IF Len(@) = 0 THEN 1 ELSE Len(@), Len(chunks[j]))]
    /\ UNCHANGED <<keys, rows, work, silent>>

\* The chunks from position "sent" on are sent, ...
Drain(j) ==
    /\ conn[j] = "reading"
    /\ conn' = [conn EXCEPT ![j] = "checking"]
    /\ shown' = [shown EXCEPT ![j] = @ \o SubSeq(chunks[j], Len(@) + 1, Len(chunks[j]))]
    /\ UNCHANGED <<keys, rows, work, silent>>

\* ... and only then the done flag is read.
CheckDone(j) ==
    /\ conn[j] = "checking" /\ j \in done
    /\ conn' = [conn EXCEPT ![j] = "told"]
    /\ UNCHANGED <<keys, rows, work, shown, silent>>

\* It is not there, or Redis failed, which is taken for that.
Sleep(j) ==
    /\ conn[j] = "checking"
    /\ conn' = [conn EXCEPT ![j] = "reading"]
    /\ UNCHANGED <<keys, rows, work, shown, silent>>

\* Redis fails under LRANGE: the client is told so and the stream ends.
DrainFails(j) ==
    /\ conn[j] = "reading"
    /\ conn' = [conn EXCEPT ![j] = "none"]
    /\ shown' = [shown EXCEPT ![j] = <<>>]
    /\ UNCHANGED <<keys, rows, work, silent>>

Leave(j) ==
    /\ conn[j] \in {"reading", "checking"}
    /\ conn' = [conn EXCEPT ![j] = "left"]
    /\ shown' = [shown EXCEPT ![j] = <<>>]
    /\ UNCHANGED <<keys, rows, work, silent>>

\* The generator finds the client gone and cancels the job, Redis permitting.
NoticeLeft(j) ==
    /\ conn[j] = "left"
    /\ conn' = [conn EXCEPT ![j] = "none"]
    /\ cancelled' = cancelled \cup {j} \/ UNCHANGED cancelled
    /\ UNCHANGED <<chunks, done, late, rows, work, shown, silent>>

-----------------------------------------------------------------------------
(* Time and failures *)

\* CHUNKS_TTL and DONE_TTL, an hour after the last write of a job that is over.
Expire(j) ==
    /\ j \in Streamed /\ pc[j] = "over" /\ j \notin silent
    /\ chunks' = [chunks EXCEPT ![j] = <<>>]
    /\ done' = done \ {j}
    /\ silent' = silent \cup {j}
    /\ UNCHANGED <<cancelled, late, rows, work, stream>>

\* CANCELLED_TTL: five minutes, whether or not the worker has looked.
ForgetCancel(j) ==
    /\ j \in cancelled
    /\ cancelled' = cancelled \ {j}
    /\ late' = [late EXCEPT ![j] = 0]
    /\ UNCHANGED <<chunks, done, rows, work, stream, silent>>

\* The worker process dies; the message it had not acknowledged is delivered again.
Crash ==
    /\ crashes < MaxCrashes
    /\ crashes' = crashes + 1
    /\ pc' = [j \in Jobs |-> IF pc[j] \in Running THEN "queued" ELSE pc[j]]
    /\ UNCHANGED <<keys, rows, retries, halted, stream, silent>>

-----------------------------------------------------------------------------
Ask(j) == RefuseSummary(j) \/ Enqueue(j) \/ ClearSummary(j)

Work(j) ==
    \/ Decline(j) \/ Begin(j) \/ SummariseParts(j) \/ Receive(j) \/ Push(j) \/ Halt(j)
    \/ EndStream(j) \/ Save(j) \/ PushError(j) \/ Close(j)
    \/ Throw(j) \/ PushException(j) \/ Reraise(j) \/ ReraiseUntold(j)

CaseWork(j) ==
    \/ Regenerate(j) \/ RegenerateFails(j) \/ CaseShort(j) \/ CaseBegin(j)
    \/ CaseWrite(j) \/ CaseThrow(j) \/ Excuse(j) \/ ExcuseFails(j)

Generator(j) == Drain(j) \/ CheckDone(j) \/ Sleep(j) \/ DrainFails(j) \/ NoticeLeft(j)

Next ==
    \/ \E j \in Jobs : Ask(j) \/ Work(j) \/ CaseWork(j) \/ Generator(j)
    \/ \E j \in Jobs : Open(j) \/ Leave(j) \/ Expire(j) \/ ForgetCancel(j)
    \/ Crash

\* Dramatiq gives every message to a thread, which goes on to some end; the
\* generator's loop goes round, and Redis does not fail all of its EXISTS.
\* Nobody has to ask, to look or to leave.
Fairness ==
    /\ \A j \in Streamed : WF_vars(Work(j)) /\ WF_vars(Generator(j)) /\ SF_vars(CheckDone(j))
    /\ \A j \in Polled : WF_vars(CaseWork(j))

Spec == Init /\ [][Next]_vars /\ Fairness

-----------------------------------------------------------------------------
(* Properties *)

\* As long as the keys of a job live, its stream has sent the chunks of the list
\* in their order and each one once, over retries, crashes and cancellations
\* (the position "sent" of _sse_generator).
SentInOrder ==
    \A j \in Streamed : j \notin silent =>
        /\ Len(shown[j]) <= Len(chunks[j])
        /\ shown[j] = SubSeq(chunks[j], 1, Len(shown[j]))

\* A job that is done and reports no error has committed its row, unless it was
\* cancelled: the page that asks for the summary after "done" finds it.
DoneMeansSaved ==
    \A j \in done : \/ j \in saved
                    \/ j \in halted
                    \/ \E i \in DOMAIN chunks[j] : chunks[j][i] = "error"

\* What a stream has shown and what it may be taken to mean.
StreamHolds == SentInOrder /\ DoneMeansSaved

\* From the cancelled flag on, as long as it lives, a job pushes at most the
\* chunk it was about to push, also if its worker died or Dramatiq retried it.
CancelStopsSoon == \A j \in Jobs : late[j] <= 1

\* A stream ends, unless the job's end could not be written to Redis or has
\* expired there (the loop of _sse_generator has no limit of its own).
StreamEnds ==
    \A j \in Streamed : (conn[j] \in {"reading", "checking"}) ~>
                        (conn[j] \notin {"reading", "checking"} \/ j \in silent)

\* The summary of a case that a job was sent for is there to be polled in the
\* end, as text or as an excuse, unless the case is gone or no row could be written.
PollResolves ==
    \A j \in Polled : (pc[j] = "queued") ~> (summary_md # "null" \/ j \in silent)

\* Whoever waits for a job is told of its end.
WaitersAreTold == StreamEnds /\ PollResolves
=============================================================================
