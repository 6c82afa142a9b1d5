---------------------------- MODULE AiJobsProofs ----------------------------
(***************************************************************************)
(* What module AiJobs keeps for any number of jobs and streams, chunks,    *)
(* retries and crashes: the stream of a job is a prefix of its list, a job *)
(* that is done without an error has saved its row, and a cancelled job    *)
(* pushes at most one chunk more.                                          *)
(***************************************************************************)
EXTENDS AiJobs, SequenceTheorems, TLAPS

Chunk == {"text", "error"}

Error(s) == \E i \in DOMAIN s : s[i] = "error"

\* Why a job may end: its row is saved, it was cancelled, or the client is told of an error.
Ended(j) == j \in saved \/ j \in halted \/ Error(chunks[j])

\* A job that is about to set its done flag has come to such an end.
EndsKnown ==
    /\ \A j \in Jobs : pc[j] = "closing" => Ended(j)
    /\ \A j \in Jobs : pc[j] = "reraising" => Error(chunks[j])
    /\ \A j \in done : Ended(j)

\* Without the flag nothing is late, and a job that is about to push has pushed nothing late.
PushesOnce ==
    \A j \in Jobs : /\ late[j] <= 1
                    /\ j \notin cancelled => late[j] = 0
                    /\ pc[j] = "push" => late[j] = 0

JobInv == TypeOK /\ SentInOrder /\ EndsKnown /\ PushesOnce

-----------------------------------------------------------------------------
(* Prefixes and errors of sequences *)

LEMMA AppendKeepsPrefix ==
    ASSUME NEW s \in Seq(Chunk), NEW t \in Seq(Chunk), NEW c \in Chunk,
           Len(t) <= Len(s), t = SubSeq(s, 1, Len(t))
    PROVE  /\ Append(s, c) \in Seq(Chunk)
           /\ Len(t) <= Len(Append(s, c)) /\ t = SubSeq(Append(s, c), 1, Len(t))
<1>1. /\ Append(s, c) \in Seq(Chunk) /\ Len(Append(s, c)) = Len(s) + 1
      /\ \A i \in 1..Len(s) : Append(s, c)[i] = s[i]
    BY AppendProperties
<1>2. Len(s) \in Nat /\ Len(t) \in Nat
    OBVIOUS
<1>3. SubSeq(s, 1, Len(t)) = [i \in 1..Len(t) |-> s[i]]
    BY <1>2
<1>4. SubSeq(Append(s, c), 1, Len(t)) = [i \in 1..Len(t) |-> Append(s, c)[i]]
    BY <1>1, <1>2
<1>5. \A i \in 1..Len(t) : Append(s, c)[i] = s[i]
    BY <1>1, <1>2
<1> QED
    BY <1>1, <1>2, <1>3, <1>4, <1>5

\* Reading on from where a prefix ends gives the whole sequence.
LEMMA DrainsAll ==
    ASSUME NEW s \in Seq(Chunk), NEW t \in Seq(Chunk),
           Len(t) <= Len(s), t = SubSeq(s, 1, Len(t))
    PROVE  t \o SubSeq(s, Len(t) + 1, Len(s)) = s
<1> DEFINE n == Len(t)
           rest == SubSeq(s, n + 1, Len(s))
<1>1. Len(s) \in Nat /\ n \in Nat /\ n <= Len(s)
    OBVIOUS
<1>2. /\ rest \in Seq(Chunk) /\ Len(rest) = Len(s) - n
      /\ \A i \in 1..(Len(s) - n) : rest[i] = s[n + i]
    BY <1>1, SubSeqProperties
<1>3. /\ t \o rest \in Seq(Chunk) /\ Len(t \o rest) = n + Len(rest)
      /\ \A i \in 1..(n + Len(rest)) : (t \o rest)[i] = IF i <= n THEN t[i] ELSE rest[i - n]
    BY <1>2, ConcatProperties
<1>4. \A i \in 1..n : t[i] = s[i]
  <2>1. PICK m \in Nat : m = n
      BY <1>1
  <2>2. \A i \in 1..m : SubSeq(s, 1, m)[i] = s[i]
      BY <1>1, <2>1
  <2> QED
      BY <2>1, <2>2
<1> HIDE DEF rest, n
<1>5. \A i \in 1..Len(s) : (t \o rest)[i] = s[i]
  <2> SUFFICES ASSUME NEW i \in 1..Len(s) PROVE (t \o rest)[i] = s[i]
      OBVIOUS
  <2>1. CASE i <= n
      BY <1>1, <1>2, <1>3, <1>4, <2>1
  <2>2. CASE ~(i <= n)
    <3>1. i - n \in 1..(Len(s) - n) /\ n + (i - n) = i
        BY <1>1, <2>2
    <3>2. i \in 1..(n + Len(rest))
        BY <1>1, <1>2
    <3>3. (t \o rest)[i] = rest[i - n]
        BY <1>3, <2>2, <3>2
    <3> QED
        BY <1>2, <3>1, <3>3
  <2> QED
      BY <2>1, <2>2
<1>6. Len(t \o rest) = Len(s)
    BY <1>1, <1>2, <1>3
<1>7. t \o rest = s
    BY <1>3, <1>5, <1>6, SeqEqual
<1> QED
    BY <1>7 DEF rest

\* Reading on from the end of what is not a prefix any more gives some sequence.
LEMMA DrainedIsSeq ==
    ASSUME NEW s \in Seq(Chunk), NEW t \in Seq(Chunk)
    PROVE  t \o SubSeq(s, Len(t) + 1, Len(s)) \in Seq(Chunk)
<1>1. Len(s) \in Nat /\ Len(t) \in Nat
    OBVIOUS
<1>2. SubSeq(s, Len(t) + 1, Len(s)) \in Seq(Chunk)
    BY <1>1, SubSeqProperties
<1> QED
    BY <1>2, ConcatProperties

LEMMA AppendKeepsError ==
    ASSUME NEW s \in Seq(Chunk), NEW c \in Chunk
    PROVE  (Error(s) \/ c = "error") => Error(Append(s, c))
<1>1. /\ Append(s, c) \in Seq(Chunk) /\ Len(Append(s, c)) = Len(s) + 1
      /\ \A i \in 1..Len(s) : Append(s, c)[i] = s[i]
      /\ Append(s, c)[Len(s) + 1] = c
    BY AppendProperties
<1>2. DOMAIN s = 1..Len(s) /\ DOMAIN Append(s, c) = 1..(Len(s) + 1) /\ Len(s) \in Nat
    BY <1>1
<1> QED
    BY <1>1, <1>2 DEF Error
-----------------------------------------------------------------------------
(* Initial states and steps *)

LEMMA JobInit == Init => JobInv
<1> SUFFICES ASSUME Init PROVE JobInv
    OBVIOUS
<1>1. \A j \in Jobs : chunks[j] = <<>> /\ shown[j] = <<>> /\ late[j] = 0 /\ pc[j] = "new"
    BY DEF Init
<1>2. TypeOK
    BY BoundsNatural DEF Init, TypeOK, Labels
<1>3. SentInOrder
  <2> SUFFICES ASSUME NEW j \in Jobs
               PROVE  Len(shown[j]) <= Len(chunks[j]) /\ shown[j] = SubSeq(chunks[j], 1, Len(shown[j]))
      BY DEF SentInOrder, Streamed
  <2>1. Len(<<>>) <= Len(<<>>) /\ <<>> = SubSeq(<<>>, 1, Len(<<>>))
      OBVIOUS
  <2>2. chunks[j] = <<>> /\ shown[j] = <<>>
      BY <1>1
  <2> QED
      BY <2>1, <2>2, Zenon
<1>4. EndsKnown /\ PushesOnce
    BY <1>1 DEF Init, EndsKnown, PushesOnce
<1> QED
    BY <1>2, <1>3, <1>4 DEF JobInv

\* A step that changes nothing but places of jobs, rows of cases and counters.
LEMMA PlacesChange ==
    ASSUME JobInv, UNCHANGED <<chunks, done, cancelled, late, conn, shown>>,
           pc' \in [Jobs -> Labels], retries' \in [Jobs -> 0..1], crashes' \in 0..MaxCrashes,
           summary_md' \in {"null", "text"},
           saved \subseteq saved', saved' \subseteq Jobs, halted \subseteq halted', halted' \subseteq Jobs,
           silent \subseteq silent', silent' \subseteq Jobs,
           \A j \in Jobs : pc'[j] # pc[j] =>
              /\ pc'[j] = "closing" => \/ j \in saved' \/ j \in halted' \/ Error(chunks[j])
              /\ pc'[j] # "reraising"
              /\ pc'[j] = "push" => late[j] = 0
    PROVE  JobInv'
<1>1. TypeOK /\ SentInOrder /\ EndsKnown /\ PushesOnce
    BY DEF JobInv
<1>2. TypeOK'
    BY <1>1 DEF TypeOK
<1>3. SentInOrder'
    BY <1>1 DEF SentInOrder
<1>4. EndsKnown'
  <2>1. \A j \in Jobs : Ended(j) => Ended(j)'
      BY DEF Ended, Error
  <2>2. \A j \in Jobs : pc'[j] = "closing" => Ended(j)'
      BY <1>1, <2>1 DEF EndsKnown, Ended, Error
  <2>3. \A j \in Jobs : pc'[j] = "reraising" => Error(chunks'[j])
      BY <1>1 DEF EndsKnown, Error
  <2>4. \A j \in done' : Ended(j)'
      BY <1>1, <2>1 DEF EndsKnown, TypeOK
  <2> QED
      BY <2>2, <2>3, <2>4 DEF EndsKnown
<1>5. PushesOnce'
    BY <1>1 DEF PushesOnce
<1> QED
    BY <1>2, <1>3, <1>4, <1>5 DEF JobInv

\* A chunk goes to the end of a job's list.
LEMMA ChunkIsPushed ==
    ASSUME JobInv, NEW j \in Jobs, NEW c \in Chunk,
           chunks' = [chunks EXCEPT ![j] = Append(@, c)],
           UNCHANGED <<conn, shown, done, silent, saved, halted>>
    PROVE  /\ chunks' \in [Jobs -> Seq(Chunk)]
           /\ SentInOrder'
           /\ \A i \in Jobs : Ended(i) => Ended(i)'
           /\ \A i \in Jobs : Error(chunks[i]) => Error(chunks'[i])
           /\ c = "error" => Error(chunks'[j])
<1>1. chunks \in [Jobs -> Seq(Chunk)] /\ shown \in [Jobs -> Seq(Chunk)]
    BY DEF JobInv, TypeOK, Chunk
<1>2. /\ chunks'[j] = Append(chunks[j], c) /\ chunks'[j] \in Seq(Chunk)
      /\ \A i \in Jobs \ {j} : chunks'[i] = chunks[i]
      /\ chunks' \in [Jobs -> Seq(Chunk)]
    BY <1>1, AppendProperties
<1>3. /\ Error(chunks[j]) => Error(chunks'[j])
      /\ c = "error" => Error(chunks'[j])
    BY <1>1, <1>2, AppendKeepsError
<1>4. \A i \in Jobs : Error(chunks[i]) => Error(chunks'[i])
    BY <1>2, <1>3
<1>5. \A i \in Jobs : Ended(i) => Ended(i)'
    BY <1>4 DEF Ended
<1>6. SentInOrder'
  <2> SUFFICES ASSUME NEW i \in Streamed, i \notin silent
               PROVE  Len(shown[i]) <= Len(chunks'[i]) /\ shown[i] = SubSeq(chunks'[i], 1, Len(shown[i]))
      BY DEF SentInOrder, Streamed
  <2>1. i \in Jobs /\ Len(shown[i]) <= Len(chunks[i]) /\ shown[i] = SubSeq(chunks[i], 1, Len(shown[i]))
      BY DEF JobInv, SentInOrder, Streamed
  <2>2. CASE i = j
      BY <1>1, <1>2, <2>1, <2>2, AppendKeepsPrefix
  <2>3. CASE i # j
      BY <1>2, <2>1, <2>3
  <2> QED
      BY <2>2, <2>3
<1> QED
    BY <1>2, <1>3, <1>4, <1>5, <1>6

\* A step that moves the generators, or lets keys expire that nothing reads any more.
LEMMA StreamsChange ==
    ASSUME JobInv, UNCHANGED <<chunks, done, late, rows, work, silent>>,
           cancelled' \subseteq Jobs, \A j \in Jobs : j \notin cancelled' => late[j] = 0,
           conn' \in [Jobs -> {"none", "reading", "checking", "left", "told"}],
           shown' \in [Jobs -> Seq(Chunk)],
           \A j \in Streamed : j \notin silent /\ shown'[j] # shown[j] =>
               Len(shown'[j]) <= Len(chunks[j]) /\ shown'[j] = SubSeq(chunks[j], 1, Len(shown'[j]))
    PROVE  JobInv'
<1>1. TypeOK /\ SentInOrder /\ EndsKnown /\ PushesOnce
    BY DEF JobInv
<1>2. TypeOK'
    BY <1>1 DEF TypeOK, rows, work, Chunk
<1>3. SentInOrder'
  <2> SUFFICES ASSUME NEW j \in Streamed, j \notin silent
               PROVE  Len(shown'[j]) <= Len(chunks[j]) /\ shown'[j] = SubSeq(chunks[j], 1, Len(shown'[j]))
      BY DEF SentInOrder, Streamed
  <2>1. CASE shown'[j] # shown[j]
      BY <2>1
  <2>2. CASE shown'[j] = shown[j]
    <3>1. Len(shown[j]) <= Len(chunks[j]) /\ shown[j] = SubSeq(chunks[j], 1, Len(shown[j]))
        BY <1>1 DEF SentInOrder
    <3> QED
        BY <2>2, <3>1, Zenon
  <2> QED
      BY <2>1, <2>2
<1>4. EndsKnown'
    BY <1>1 DEF EndsKnown, Ended, Error, rows, work
<1>5. PushesOnce'
    BY <1>1 DEF PushesOnce, work
<1> QED
    BY <1>2, <1>3, <1>4, <1>5 DEF JobInv

\* What a step that moves job j alone does to its place.
LEMMA StepMoves ==
    ASSUME JobInv, NEW j \in Jobs, NEW from, NEW to \in Labels, Step(j, from, to)
    PROVE  /\ pc[j] = from /\ pc' \in [Jobs -> Labels] /\ pc'[j] = to
           /\ \A i \in Jobs \ {j} : pc'[i] = pc[i]
BY DEF Step, JobInv, TypeOK

\* The steps of a job that say nothing to its stream.
QuietWork(j) ==
    \/ RefuseSummary(j) \/ Enqueue(j) \/ ClearSummary(j)
    \/ Decline(j) \/ Begin(j) \/ SummariseParts(j) \/ Receive(j) \/ Halt(j) \/ EndStream(j)
    \/ Save(j) \/ Throw(j) \/ ReraiseUntold(j) \/ CaseWork(j)

LEMMA QuietWorkKeeps == ASSUME JobInv, NEW j \in Jobs, QuietWork(j) PROVE JobInv'
<1> USE DEF keys, rows, stream, work
<1> DEFINE Moved == /\ pc' \in [Jobs -> Labels]
                    /\ \A i \in Jobs \ {j} : pc'[i] = pc[i]
           Same == UNCHANGED <<chunks, done, cancelled, late, conn, shown>>
           Grown == /\ summary_md' \in {"null", "text"}
                    /\ saved \subseteq saved' /\ saved' \subseteq Jobs
                    /\ halted \subseteq halted' /\ halted' \subseteq Jobs
                    /\ silent \subseteq silent' /\ silent' \subseteq Jobs
                    /\ retries' \in [Jobs -> 0..1] /\ crashes' \in 0..MaxCrashes
           Quiet == Moved /\ Same /\ Grown
           Justified == /\ pc'[j] = "closing" => \/ j \in saved' \/ j \in halted' \/ Error(chunks[j])
                        /\ pc'[j] # "reraising"
                        /\ pc'[j] = "push" => late[j] = 0
<1>1. TypeOK /\ SentInOrder /\ EndsKnown /\ PushesOnce
    BY DEF JobInv
<1>3. CASE \/ RefuseSummary(j) \/ Enqueue(j) \/ Decline(j) \/ Begin(j) \/ SummariseParts(j)
           \/ EndStream(j) \/ Throw(j) \/ Regenerate(j) \/ CaseBegin(j) \/ CaseThrow(j)
  <2>1. \E from \in Labels, to \in {"refused", "queued", "erring", "stream", "parts", "save",
                                    "raising", "call", "excuse"} : Step(j, from, to)
      BY <1>3 DEF RefuseSummary, Enqueue, Decline, Begin, SummariseParts, EndStream, Throw,
                  Regenerate, CaseBegin, CaseThrow, Labels, Running
  <2>2. Moved /\ pc'[j] \in {"refused", "queued", "erring", "stream", "parts", "save",
                             "raising", "call", "excuse"}
      BY <2>1, StepMoves DEF Labels, Running
  <2>3. UNCHANGED <<keys, rows, retries, crashes, halted, stream, silent>>
      BY <1>3 DEF RefuseSummary, Enqueue, Decline, Begin, SummariseParts, EndStream, Throw,
                  Regenerate, CaseBegin, CaseThrow
  <2>4. Quiet
      BY <1>1, <2>2, <2>3 DEF TypeOK
  <2> QED
      BY <2>2, <2>4, PlacesChange
<1>4. CASE Receive(j)
  <2>1. Moved /\ j \notin cancelled /\ pc'[j] = "push"
      BY <1>4, StepMoves DEF Receive, Labels, Running
  <2>2. Quiet
      BY <1>1, <1>4, <2>1 DEF Receive, TypeOK
  <2>3. late[j] = 0
      BY <1>1, <2>1 DEF PushesOnce
  <2> QED
      BY <2>1, <2>2, <2>3, PlacesChange
<1>5. CASE Halt(j) \/ Save(j)
  <2>1. Moved
      BY <1>5, StepMoves DEF Halt, Save, Labels, Running
  <2>2. Quiet /\ (j \in saved' \/ j \in halted')
      BY <1>1, <1>5, <2>1 DEF Halt, Save, TypeOK
  <2>3. pc'[j] = "closing"
      BY <1>5, StepMoves DEF Halt, Save, Labels, Running
  <2> QED
      BY <2>2, <2>3, PlacesChange
<1>6. CASE ReraiseUntold(j)
  <2>1. Moved /\ pc'[j] \in {"queued", "over"}
      BY <1>1, <1>6 DEF ReraiseUntold, Requeue, TypeOK, Labels, Running
  <2>2. retries' \in [Jobs -> 0..1]
      BY <1>1, <1>6 DEF ReraiseUntold, Requeue, TypeOK
  <2>3. Quiet
      BY <1>1, <1>6, <2>1, <2>2 DEF ReraiseUntold, TypeOK
  <2> QED
      BY <2>1, <2>3, PlacesChange
<1>7. CASE ClearSummary(j) \/ RegenerateFails(j) \/ CaseShort(j) \/ CaseWrite(j) \/ Excuse(j) \/ ExcuseFails(j)
  <2>1. \E from \in Labels, to \in {"cleared", "over"} : Step(j, from, to)
      BY <1>7 DEF ClearSummary, RegenerateFails, CaseShort, CaseWrite, Excuse, ExcuseFails, Labels, Running
  <2>2. Moved /\ pc'[j] \in {"cleared", "over"}
      BY <2>1, StepMoves DEF Labels
  <2>3. /\ summary_md' \in {"null", "text"} /\ silent' \in {silent, silent \cup {j}}
        /\ UNCHANGED <<keys, saved, retries, crashes, halted, stream>>
      BY <1>1, <1>7 DEF ClearSummary, RegenerateFails, CaseShort, CaseWrite, Excuse, ExcuseFails, TypeOK
  <2>4. Quiet
      BY <1>1, <2>2, <2>3 DEF TypeOK
  <2> QED
      BY <2>2, <2>4, PlacesChange
<1> QED
    BY <1>3, <1>4, <1>5, <1>6, <1>7 DEF QuietWork, CaseWork

\* A chunk is pushed: text, or what becomes of a refusal or an exception.
LEMMA PushesKeep ==
    ASSUME JobInv, NEW j \in Jobs, Push(j) \/ PushError(j) \/ PushException(j) PROVE JobInv'
<1> USE DEF keys, rows, stream, work
<1>1. TypeOK /\ SentInOrder /\ EndsKnown /\ PushesOnce
    BY DEF JobInv
<1>2. /\ UNCHANGED <<done, cancelled, saved, summary_md, retries, crashes, halted, conn, shown, silent>>
      /\ \/ chunks' = [chunks EXCEPT ![j] = Append(@, "text")]
         \/ chunks' = [chunks EXCEPT ![j] = Append(@, "error")]
    BY DEF Push, PushError, PushException
<1>3. /\ chunks' \in [Jobs -> Seq(Chunk)] /\ SentInOrder'
      /\ \A i \in Jobs : Ended(i) => Ended(i)'
      /\ \A i \in Jobs : Error(chunks[i]) => Error(chunks'[i])
    BY <1>2, ChunkIsPushed DEF Chunk
<1>4. CASE Push(j)
  <2>1. /\ pc[j] = "push" /\ pc' \in [Jobs -> Labels] /\ pc'[j] = "stream"
        /\ \A i \in Jobs \ {j} : pc'[i] = pc[i]
      BY <1>4, StepMoves DEF Push, Labels, Running
  <2>2. late' = [late EXCEPT ![j] = @ + (IF j \in cancelled THEN 1 ELSE 0)]
      BY <1>4 DEF Push
  <2>3. late[j] = 0 /\ late \in [Jobs -> Nat]
      BY <1>1, <2>1 DEF PushesOnce, TypeOK
  <2>4. /\ late'[j] = IF j \in cancelled THEN 1 ELSE 0
        /\ \A i \in Jobs \ {j} : late'[i] = late[i]
        /\ late' \in [Jobs -> Nat]
      BY <2>2, <2>3
  <2>5. TypeOK'
      BY <1>1, <1>2, <1>3, <2>1, <2>4 DEF TypeOK, Chunk
  <2>6. EndsKnown'
      BY <1>1, <1>2, <1>3, <2>1 DEF EndsKnown, TypeOK
  <2>7. PushesOnce'
      BY <1>1, <1>2, <2>1, <2>4 DEF PushesOnce
  <2> QED
      BY <1>3, <2>5, <2>6, <2>7 DEF JobInv
<1>5. CASE PushError(j) \/ PushException(j)
  <2>1. /\ pc' \in [Jobs -> Labels] /\ pc'[j] \in {"closing", "reraising"}
        /\ \A i \in Jobs \ {j} : pc'[i] = pc[i]
      BY <1>5, StepMoves DEF PushError, PushException, Labels, Running
  <2>2. late' = late /\ chunks' = [chunks EXCEPT ![j] = Append(@, "error")]
      BY <1>5 DEF PushError, PushException
  <2>3. Error(chunks'[j])
      BY <1>2, <2>2, ChunkIsPushed DEF Chunk
  <2>4. TypeOK'
      BY <1>1, <1>2, <1>3, <2>1, <2>2 DEF TypeOK, Chunk
  <2>5. EndsKnown'
    <3>1. Ended(j)'
        BY <2>3 DEF Ended
    <3>2. \A i \in Jobs : pc'[i] = "closing" => Ended(i)'
        BY <1>1, <1>3, <2>1, <3>1 DEF EndsKnown
    <3>3. \A i \in Jobs : pc'[i] = "reraising" => Error(chunks'[i])
        BY <1>1, <1>3, <2>1, <2>3 DEF EndsKnown
    <3>4. \A i \in done' : Ended(i)'
        BY <1>1, <1>2, <1>3 DEF EndsKnown, TypeOK
    <3> QED
        BY <3>2, <3>3, <3>4 DEF EndsKnown
  <2>6. PushesOnce'
      BY <1>1, <1>2, <2>1, <2>2 DEF PushesOnce
  <2> QED
      BY <1>3, <2>4, <2>5, <2>6 DEF JobInv
<1> QED
    BY <1>4, <1>5

\* The done flag is set by a job that has come to its end.
LEMMA ClosesKeep ==
    ASSUME JobInv, NEW j \in Jobs, Close(j) \/ Reraise(j) PROVE JobInv'
<1> USE DEF keys, rows, stream, work
<1>1. TypeOK /\ SentInOrder /\ EndsKnown /\ PushesOnce
    BY DEF JobInv
<1>2. /\ done' = done \cup {j}
      /\ UNCHANGED <<chunks, cancelled, late, saved, summary_md, crashes, halted, conn, shown, silent>>
    BY DEF Close, Reraise
<1>3. /\ pc[j] \in {"closing", "reraising"} /\ pc' \in [Jobs -> Labels] /\ pc'[j] \in {"over", "queued"}
      /\ \A i \in Jobs \ {j} : pc'[i] = pc[i]
    BY <1>1 DEF Close, Reraise, Requeue, Step, TypeOK, Labels, Running
<1>4. retries' \in [Jobs -> 0..1]
  <2>1. retries' = retries \/ retries' = [retries EXCEPT ![j] = 1]
      BY DEF Close, Reraise, Requeue
  <2>2. retries \in [Jobs -> 0..1]
      BY <1>1 DEF TypeOK
  <2> QED
      BY <2>1, <2>2
<1>5. \A i \in Jobs : Ended(i)' <=> Ended(i)
    BY <1>2 DEF Ended, Error
<1>6. Ended(j)
    BY <1>1, <1>3 DEF EndsKnown, Ended
<1>7. TypeOK'
    BY <1>1, <1>2, <1>3, <1>4 DEF TypeOK
<1>8. SentInOrder'
    BY <1>1, <1>2 DEF SentInOrder
<1>9. EndsKnown'
    BY <1>1, <1>2, <1>3, <1>5, <1>6 DEF EndsKnown, TypeOK
<1>10. PushesOnce'
    BY <1>1, <1>2, <1>3 DEF PushesOnce
<1> QED
    BY <1>7, <1>8, <1>9, <1>10 DEF JobInv

\* The keys of a job that is over expire: its list and its flags tell nothing any more.
LEMMA ExpireKeeps ==
    ASSUME JobInv, NEW j \in Jobs, Expire(j) PROVE JobInv'
<1> USE DEF keys, rows, stream, work
<1>1. TypeOK /\ SentInOrder /\ EndsKnown /\ PushesOnce
    BY DEF JobInv
<1>2. /\ pc[j] = "over" /\ chunks' = [chunks EXCEPT ![j] = <<>>] /\ done' = done \ {j}
      /\ silent' = silent \cup {j}
      /\ UNCHANGED <<cancelled, late, saved, summary_md, pc, retries, crashes, halted, conn, shown>>
    BY DEF Expire
<1>3. <<>> \in Seq(Chunk)
    BY EmptySeq
<1>4. chunks' \in [Jobs -> Seq(Chunk)] /\ \A i \in Jobs \ {j} : chunks'[i] = chunks[i]
    BY <1>1, <1>2, <1>3 DEF TypeOK, Chunk
<1>5. TypeOK'
    BY <1>1, <1>2, <1>4 DEF TypeOK, Chunk
<1>6. SentInOrder'
    BY <1>1, <1>2, <1>4 DEF SentInOrder, Streamed
<1>7. \A i \in Jobs \ {j} : Ended(i) => Ended(i)'
    BY <1>2, <1>4 DEF Ended
<1>8. EndsKnown'
    BY <1>1, <1>2, <1>4, <1>7 DEF EndsKnown, TypeOK
<1>9. PushesOnce'
    BY <1>1, <1>2 DEF PushesOnce
<1> QED
    BY <1>5, <1>6, <1>8, <1>9 DEF JobInv

LEMMA ForgetCancelKeeps ==
    ASSUME JobInv, NEW j \in Jobs, ForgetCancel(j) PROVE JobInv'
<1> USE DEF keys, rows, stream, work
<1>1. TypeOK /\ SentInOrder /\ EndsKnown /\ PushesOnce
    BY DEF JobInv
<1>2. /\ cancelled' = cancelled \ {j} /\ late' = [late EXCEPT ![j] = 0]
      /\ UNCHANGED <<chunks, done, saved, summary_md, pc, retries, crashes, halted, conn, shown, silent>>
    BY DEF ForgetCancel
<1>3. late' \in [Jobs -> Nat] /\ late'[j] = 0 /\ \A i \in Jobs \ {j} : late'[i] = late[i]
    BY <1>1, <1>2 DEF TypeOK
<1>4. TypeOK'
    BY <1>1, <1>2, <1>3 DEF TypeOK
<1>5. SentInOrder'
    BY <1>1, <1>2 DEF SentInOrder
<1>6. EndsKnown'
    BY <1>1, <1>2 DEF EndsKnown, Ended, Error
<1>7. PushesOnce'
    BY <1>1, <1>2, <1>3 DEF PushesOnce
<1> QED
    BY <1>4, <1>5, <1>6, <1>7 DEF JobInv

\* The generator and the client that opens or leaves its stream.
LEMMA StreamsKeep ==
    ASSUME JobInv, NEW j \in Jobs, Generator(j) \/ Open(j) \/ Leave(j) PROVE JobInv'
<1> USE DEF keys, rows, stream, work
<1> DEFINE Apart == UNCHANGED <<chunks, done, late, rows, work, silent>>
           Places == conn' \in [Jobs -> {"none", "reading", "checking", "left", "told"}]
           Flags == cancelled' \subseteq Jobs /\ \A i \in Jobs : i \notin cancelled' => late[i] = 0
<1>1. TypeOK /\ SentInOrder /\ EndsKnown /\ PushesOnce
    BY DEF JobInv
<1>2. shown \in [Jobs -> Seq(Chunk)] /\ chunks \in [Jobs -> Seq(Chunk)] /\ <<>> \in Seq(Chunk)
    BY <1>1, EmptySeq DEF TypeOK, Chunk
<1>3. Apart /\ Places /\ Flags
    BY <1>1 DEF Generator, Open, Leave, Drain, CheckDone, Sleep, DrainFails, NoticeLeft, TypeOK, PushesOnce
<1>4. CASE CheckDone(j) \/ Sleep(j) \/ NoticeLeft(j)
  <2>1. shown' = shown
      BY <1>4 DEF CheckDone, Sleep, NoticeLeft
  <2> QED
      BY <1>2, <1>3, <2>1, StreamsChange
<1>5. CASE Open(j) \/ Leave(j) \/ DrainFails(j)
  <2>1. shown' = [shown EXCEPT ![j] = <<>>]
      BY <1>5 DEF Open, Leave, DrainFails
  <2>2. shown' \in [Jobs -> Seq(Chunk)] /\ shown'[j] = <<>> /\ \A i \in Jobs \ {j} : shown'[i] = shown[i]
      BY <1>2, <2>1
  <2>3. Len(<<>>) <= Len(chunks[j]) /\ <<>> = SubSeq(chunks[j], 1, Len(<<>>))
    <3>1. Len(chunks[j]) \in Nat /\ Len(<<>>) = 0
        BY <1>2
    <3>2. <<>> = SubSeq(chunks[j], 1, 0)
        BY SubSeqEmpty
    <3> QED
        BY <3>1, <3>2
  <2>4. Len(shown'[j]) <= Len(chunks[j]) /\ shown'[j] = SubSeq(chunks[j], 1, Len(shown'[j]))
      BY <2>2, <2>3, Zenon
  <2>5. \A i \in Streamed : i \notin silent /\ shown'[i] # shown[i] =>
            Len(shown'[i]) <= Len(chunks[i]) /\ shown'[i] = SubSeq(chunks[i], 1, Len(shown'[i]))
      BY <2>2, <2>4, Zenon DEF Streamed
  <2> QED
      BY <1>3, <2>2, <2>5, StreamsChange
<1>6. CASE Drain(j)
  <2> DEFINE rest == SubSeq(chunks[j], Len(shown[j]) + 1, Len(chunks[j]))
  <2>1. shown' = [shown EXCEPT ![j] = shown[j] \o rest]
      BY <1>6 DEF Drain
  <2>2. shown[j] \o rest \in Seq(Chunk)
      BY <1>2, DrainedIsSeq
  <2>3. shown' \in [Jobs -> Seq(Chunk)] /\ shown'[j] = shown[j] \o rest
        /\ \A i \in Jobs \ {j} : shown'[i] = shown[i]
      BY <1>2, <2>1, <2>2
  <2>4. ASSUME j \in Streamed, j \notin silent
        PROVE  Len(shown'[j]) <= Len(chunks[j]) /\ shown'[j] = SubSeq(chunks[j], 1, Len(shown'[j]))
    <3>1. Len(shown[j]) <= Len(chunks[j]) /\ shown[j] = SubSeq(chunks[j], 1, Len(shown[j]))
        BY <1>1, <2>4 DEF SentInOrder
    <3>2. shown'[j] = chunks[j]
        BY <1>2, <2>3, <3>1, DrainsAll
    <3>3. Len(chunks[j]) <= Len(chunks[j]) /\ chunks[j] = SubSeq(chunks[j], 1, Len(chunks[j]))
        BY <1>2, SubSeqFull
    <3> QED
        BY <3>2, <3>3, Zenon
  <2>5. \A i \in Streamed : i \notin silent /\ shown'[i] # shown[i] =>
            Len(shown'[i]) <= Len(chunks[i]) /\ shown'[i] = SubSeq(chunks[i], 1, Len(shown'[i]))
      BY <2>3, <2>4, Zenon DEF Streamed
  <2> QED
      BY <1>3, <2>3, <2>5, StreamsChange
<1> QED
    BY <1>4, <1>5, <1>6 DEF Generator

LEMMA CrashKeeps == ASSUME JobInv, Crash PROVE JobInv'
<1> USE DEF keys, rows, stream, work
<1>1. TypeOK /\ pc' = [j \in Jobs |-> IF pc[j] \in Running THEN "queued" ELSE pc[j]]
    BY DEF JobInv, Crash
<1>2. pc' \in [Jobs -> Labels] /\ \A j \in Jobs : pc'[j] # pc[j] => pc'[j] = "queued"
    BY <1>1 DEF TypeOK, Labels
<1>3. /\ UNCHANGED <<chunks, done, cancelled, late, conn, shown, retries, summary_md, saved, halted, silent>>
      /\ crashes' \in 0..MaxCrashes
    BY <1>1, BoundsNatural DEF Crash, TypeOK
<1> QED
    BY <1>1, <1>2, <1>3, PlacesChange DEF TypeOK

-----------------------------------------------------------------------------
(* Theorems *)

LEMMA JobNext == JobInv /\ [Next]_vars => JobInv'
<1> SUFFICES ASSUME JobInv, [Next]_vars PROVE JobInv'
    OBVIOUS
<1>1. ASSUME NEW j \in Jobs, Ask(j) \/ Work(j) \/ CaseWork(j) PROVE JobInv'
  <2>1. \/ QuietWork(j) \/ Push(j) \/ PushError(j) \/ PushException(j) \/ Close(j) \/ Reraise(j)
      BY <1>1 DEF Ask, Work, QuietWork
  <2> QED
      BY <2>1, QuietWorkKeeps, PushesKeep, ClosesKeep
<1>2. ASSUME NEW j \in Jobs, Generator(j) \/ Open(j) \/ Leave(j) \/ Expire(j) \/ ForgetCancel(j) PROVE JobInv'
    BY <1>2, StreamsKeep, ExpireKeeps, ForgetCancelKeeps
<1>3. CASE Crash
    BY <1>3, CrashKeeps
<1>4. CASE UNCHANGED vars
    BY <1>4 DEF vars, keys, rows, work, stream, JobInv, TypeOK, SentInOrder, EndsKnown, Ended, Error, PushesOnce
<1> QED
    BY <1>1, <1>2, <1>3, <1>4 DEF Next

LEMMA JobInvHolds == Spec => []JobInv
    BY JobInit, JobNext, PTL DEF Spec

\* The keys, the rows, the places of the jobs and the streams keep their types
\* (workers/ai.py, _sse_generator of routers/ai.py).
THEOREM TypeCorrect == Spec => []TypeOK
<1>1. JobInv => TypeOK
    BY DEF JobInv
<1> QED
    BY <1>1, JobInvHolds, PTL

\* Whatever is retried, cancelled, expires or dies, a stream has sent a prefix of its
\* list, and a job that is done without an error has committed its row or was cancelled.
THEOREM StreamCorrect == Spec => []StreamHolds
<1>1. JobInv => StreamHolds
  <2> SUFFICES ASSUME JobInv PROVE StreamHolds
      OBVIOUS
  <2>1. DoneMeansSaved
      BY DEF JobInv, EndsKnown, Ended, Error, DoneMeansSaved
  <2> QED
      BY <2>1 DEF JobInv, StreamHolds
<1> QED
    BY <1>1, JobInvHolds, PTL

\* A job pushes at most one chunk of text while its cancelled flag is set, over crashes,
\* retries and flags that expire and are set again.
THEOREM CancelCorrect == Spec => []CancelStopsSoon
<1>1. JobInv => CancelStopsSoon
    BY DEF JobInv, PushesOnce, CancelStopsSoon
<1> QED
    BY <1>1, JobInvHolds, PTL
=============================================================================
