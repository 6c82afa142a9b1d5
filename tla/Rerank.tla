------------------------------- MODULE Rerank -------------------------------
(***************************************************************************)
(* The scores that a language model gives the events of a project          *)
(* (_async_rescore of workers/ai.py, sent by ai_nightly_rerank_job and by  *)
(* admins) and the digest of the best of them (_async_digest), for a       *)
(* project that has opted in.                                              *)
(*                                                                         *)
(* A rerank is one transaction: a row that it has updated stays locked     *)
(* until its end, a statement that fails aborts all of it, and the COMMIT  *)
(* is then a ROLLBACK that raises nothing.                                 *)
(***************************************************************************)
EXTENDS Integers, Sequences, FiniteSets

CONSTANTS
    Ranked,        \* events of the last 48 hours
    ScoreOf,       \* [Ranked -> score, or NoScore]
    Adjustments,   \* what a model may answer
    Breaker,       \* CB_THRESHOLD
    Rerankers,     \* worker threads on the queue ai
    RerankRetries, \* max_retries of both actors
    MaxSent,       \* bound: messages of each actor that are sent
    MaxAiFaults    \* bound: statements that raise, workers that die, commands that Redis refuses

NoScore == -1

ASSUME RerankAssumption ==
    /\ IsFiniteSet(Ranked) /\ ScoreOf \in [Ranked -> {NoScore} \cup 0..100]
    /\ Adjustments \subseteq Int
    /\ Breaker \in Nat \ {0} /\ {RerankRetries, MaxSent, MaxAiFaults} \subseteq Nat

VARIABLES
    aiScore,       \* events.ai_score
    inProgress,    \* the key in_progress of the project
    aiQueue,       \* messages of both actors
    reranker,      \* each thread
    digests,       \* [1..MaxSent -> how many rows of ai_summaries that message has made]
    stuck,         \* history: the key was left by a rerank that died or could not delete it
    doubled,       \* history: how many workers died between its commit and its end
    aiSent, aiFaults

rerankVars == <<aiScore, inProgress, aiQueue, reranker, digests, stuck, doubled, aiSent, aiFaults>>

Actors == {"rerank", "digest"}
Scores == {NoScore} \cup 0..100
NoScores == [e \in Ranked |-> NoScore]
\* The number of a message tells it from the others of its actor; tries is how often it has failed.
Message(a, number, n) == [actor |-> a, number |-> number, tries |-> n]
NoMessage == Message("none", 0, 0)
\* of: the message; own: the uncommitted updates; given: what the model said of the first event left.
Unemployed == [at |-> "idle", of |-> NoMessage, left |-> <<>>, streak |-> 0, given |-> NoScore, own |-> NoScores,
               aborted |-> FALSE, raised |-> FALSE]
Sent == [actor : Actors, number : 1..MaxSent, tries : 0..RerankRetries]

\* The variables; a row is locked by one rerank, what it has not committed is within the clamp
\* already, and an aborted one holds nothing.
RerankTypeOK ==
    /\ aiScore \in [Ranked -> Scores] /\ inProgress \in BOOLEAN /\ stuck \in BOOLEAN
    /\ aiQueue \subseteq Sent /\ aiSent \in [Actors -> 0..MaxSent]
    /\ reranker \in [Rerankers -> [at : {"idle", "events", "update", "finally", "digest", "written"},
                                   of : Sent \cup {NoMessage}, left : Seq(Ranked), streak : 0..(Breaker - 1),
                                   given : Scores, own : [Ranked -> Scores], aborted : BOOLEAN, raised : BOOLEAN]]
    /\ digests \in [1..MaxSent -> Nat] /\ doubled \in [1..MaxSent -> Nat] /\ aiFaults \in 0..MaxAiFaults
    /\ \A t \in Rerankers :
          /\ reranker[t].at = "update" => reranker[t].left # <<>>
          /\ reranker[t].aborted => reranker[t].own = NoScores
          /\ \A u \in Rerankers \ {t}, e \in Ranked : NoScore \in {reranker[t].own[e], reranker[u].own[e]}

RerankInit ==
    /\ aiScore = NoScores /\ inProgress = FALSE /\ stuck = FALSE
    /\ digests = [i \in 1..MaxSent |-> 0] /\ doubled = digests
    /\ aiQueue = {}
    /\ reranker = [t \in Rerankers |-> Unemployed]
    /\ aiSent = [a \in Actors |-> 0] /\ aiFaults = 0

-----------------------------------------------------------------------------
Works(t, state) == reranker' = [reranker EXCEPT ![t] = state]
Stays == UNCHANGED aiFaults
Fault == aiFaults < MaxAiFaults /\ aiFaults' = aiFaults + 1

\* ai_nightly_rerank_job and ai_digest_all_job, and trigger_ai_rescore.
SendAi(a) ==
    /\ aiSent[a] < MaxSent
    /\ aiSent' = [aiSent EXCEPT ![a] = @ + 1]
    /\ aiQueue' = aiQueue \cup {Message(a, aiSent'[a], 0)}
    /\ UNCHANGED <<aiScore, inProgress, reranker, digests, doubled, stuck, aiFaults>>

Taken(a, m) == m \in aiQueue /\ m.actor = a /\ aiQueue' = aiQueue \ {m}
\* The message of a thread is there again, with its failures, unless those are too many.
Again(t, failed) ==
    LET n == reranker[t].of.tries + failed
    IN  aiQueue' = IF n <= RerankRetries THEN aiQueue \cup {[reranker[t].of EXCEPT !.tries = n]} ELSE aiQueue

\* ORDER BY score DESC NULLS LAST, in any order where that is equal.
Orders ==
    {o \in [1..Cardinality(Ranked) -> Ranked] :
        \A i, j \in DOMAIN o : i < j => o[i] # o[j] /\ ScoreOf[o[i]] >= ScoreOf[o[j]]}

\* The key is set, or that fails and is logged; then the events are fetched.
TakeRerank(t, m) ==
    /\ reranker[t].at = "idle" /\ Taken("rerank", m)
    /\ \/ inProgress' = TRUE /\ Stays
       \/ UNCHANGED inProgress /\ Fault
    /\ \E order \in Orders : Works(t, [Unemployed EXCEPT !.at = "events", !.of = m, !.left = order])
    /\ UNCHANGED <<aiScore, digests, doubled, stuck, aiSent>>

\* (mutant) Only the sum is kept within the scale.
ClampedOnce(score, adjustment) ==
    LET sum == score + adjustment IN IF sum < 0 THEN 0 ELSE IF sum > 100 THEN 100 ELSE sum
\* The adjustment is kept within 15, the sum within the scale.
Clamped(score, adjustment) ==
    LET by == IF adjustment < -15 THEN -15 ELSE IF adjustment > 15 THEN 15 ELSE adjustment
        sum == score + by
    IN IF sum < 0 THEN 0 ELSE IF sum > 100 THEN 100 ELSE sum

AtEvent(t, label) == reranker[t].at = label /\ reranker[t].left # <<>>
First(t) == Head(reranker[t].left)
Passes(t) == [reranker[t] EXCEPT !.at = "events", !.left = Tail(@), !.given = NoScore]

\* An event without a score is passed over.  Of another, the models of the pool are asked in
\* turn until one answers; at the third event in a row of which none does, the rest is left.
AskModels(t) ==
    /\ AtEvent(t, "events")
    /\ IF ScoreOf[First(t)] = NoScore THEN Works(t, Passes(t))
       ELSE \/ \E x \in Adjustments :
                  Works(t, [reranker[t] EXCEPT !.at = "update", !.streak = 0,
                                               !.given = Clamped(ScoreOf[First(t)], x)])
            \/ Works(t, IF reranker[t].streak + 1 >= Breaker THEN [reranker[t] EXCEPT !.left = <<>>]
                        ELSE [Passes(t) EXCEPT !.streak = @ + 1])
    /\ UNCHANGED <<aiScore, inProgress, aiQueue, digests, doubled, stuck, aiSent, aiFaults>>

Locked(t) == \E u \in Rerankers \ {t} : reranker[u].own[First(t)] # NoScore
Deadlock(t) ==
    \E u \in Rerankers \ {t} :
        /\ AtEvent(u, "update") /\ reranker[u].own[First(t)] # NoScore /\ reranker[t].own[First(u)] # NoScore

\* The UPDATE waits for the row; one that fails is logged, and so is all that follows.
UpdateScore(t) ==
    /\ AtEvent(t, "update")
    /\ \/ ~reranker[t].aborted /\ ~Locked(t) /\ Stays
          /\ Works(t, [Passes(t) EXCEPT !.own[First(t)] = reranker[t].given])
       \/ reranker[t].aborted /\ Stays /\ Works(t, Passes(t))
       \/ ~reranker[t].aborted /\ Works(t, [Passes(t) EXCEPT !.aborted = TRUE, !.own = NoScores])
          /\ IF Deadlock(t) THEN Stays ELSE Fault
    /\ UNCHANGED <<aiScore, inProgress, aiQueue, digests, doubled, stuck, aiSent>>

Updated(t) == {e \in Ranked : reranker[t].own[e] # NoScore}

CommitRerank(t) ==
    /\ reranker[t].at = "events" /\ reranker[t].left = <<>>
    /\ aiScore' = [e \in Ranked |-> IF e \in Updated(t) THEN reranker[t].own[e] ELSE aiScore[e]]
    /\ Works(t, [Unemployed EXCEPT !.at = "finally", !.of = reranker[t].of])
    /\ UNCHANGED <<inProgress, aiQueue, digests, doubled, stuck, aiSent, aiFaults>>

\* The database or the provider's settings raise.
RerankRaises(t) ==
    /\ reranker[t].at = "events" /\ Fault
    /\ Works(t, [Unemployed EXCEPT !.at = "finally", !.of = reranker[t].of, !.raised = TRUE])
    /\ UNCHANGED <<aiScore, inProgress, aiQueue, digests, doubled, stuck, aiSent>>

\* (mutant) A rerank that raised leaves the key.
LeavesKey(t) ==
    IF reranker[t].raised THEN UNCHANGED <<inProgress, stuck, aiFaults>>
    ELSE inProgress' = FALSE /\ stuck' = FALSE /\ Stays
\* The finally deletes the key, whoever has set it, or that fails and is logged.
DeletesKey(t) ==
    \/ inProgress' = FALSE /\ stuck' = FALSE /\ Stays
    \/ UNCHANGED inProgress /\ stuck' = (stuck \/ inProgress) /\ Fault

FinishRerank(t) ==
    /\ reranker[t].at = "finally"
    /\ DeletesKey(t)
    /\ IF reranker[t].raised THEN Again(t, 1) ELSE UNCHANGED aiQueue
    /\ Works(t, Unemployed)
    /\ UNCHANGED <<aiScore, digests, doubled, aiSent>>

\* The worker dies; the key stays for 1800 s, and the broker delivers the message again.
RerankDies(t) ==
    /\ reranker[t].at \in {"events", "update", "finally"} /\ Fault
    /\ stuck' = (stuck \/ inProgress)
    /\ Again(t, 0)
    /\ Works(t, Unemployed)
    /\ UNCHANGED <<aiScore, inProgress, digests, doubled, aiSent>>

KeyExpires ==
    /\ inProgress /\ inProgress' = FALSE /\ stuck' = FALSE
    /\ UNCHANGED <<aiScore, aiQueue, reranker, digests, doubled, aiSent, aiFaults>>

-----------------------------------------------------------------------------
(* _async_digest: it reads the best events, asks the model and adds one row. *)

\* Without events there is no digest.
TakeDigest(t, m) ==
    /\ reranker[t].at = "idle" /\ Taken("digest", m)
    /\ \/ Works(t, [Unemployed EXCEPT !.at = "digest", !.of = m])
       \/ UNCHANGED reranker
    /\ UNCHANGED <<aiScore, inProgress, digests, doubled, stuck, aiSent, aiFaults>>

CommitDigest(t) ==
    /\ reranker[t].at = "digest"
    /\ digests' = [digests EXCEPT ![reranker[t].of.number] = @ + 1]
    /\ Works(t, [reranker[t] EXCEPT !.at = "written"])
    /\ UNCHANGED <<aiScore, inProgress, aiQueue, doubled, stuck, aiSent, aiFaults>>

AcknowledgeDigest(t) ==
    /\ reranker[t].at = "written"
    /\ Works(t, Unemployed)
    /\ UNCHANGED <<aiScore, inProgress, aiQueue, digests, doubled, stuck, aiSent, aiFaults>>

\* The model or the database raises, or the worker dies.
DigestFails(t) ==
    /\ reranker[t].at = "digest" /\ Fault
    /\ \E failed \in 0..1 : Again(t, failed)
    /\ Works(t, Unemployed)
    /\ UNCHANGED <<aiScore, inProgress, digests, doubled, stuck, aiSent>>

\* It dies before the message is acknowledged, and the digest is written once more.
DigestRepeats(t) ==
    /\ reranker[t].at = "written" /\ Fault
    /\ Again(t, 0)
    /\ doubled' = [doubled EXCEPT ![reranker[t].of.number] = @ + 1]
    /\ Works(t, Unemployed)
    /\ UNCHANGED <<aiScore, inProgress, digests, stuck, aiSent>>

-----------------------------------------------------------------------------
RerankNext ==
    \/ KeyExpires \/ \E a \in Actors : SendAi(a)
    \/ \E t \in Rerankers :
          \/ \E m \in aiQueue : TakeRerank(t, m) \/ TakeDigest(t, m)
          \/ AskModels(t) \/ UpdateScore(t) \/ CommitRerank(t) \/ RerankRaises(t) \/ FinishRerank(t) \/ RerankDies(t)
          \/ CommitDigest(t) \/ AcknowledgeDigest(t) \/ DigestFails(t) \/ DigestRepeats(t)

RerankSpec == RerankInit /\ [][RerankNext]_rerankVars

-----------------------------------------------------------------------------
(* Properties *)

Reranks(t) == reranker[t].at \in {"events", "update", "finally"}
Digesting(i) == {t \in Rerankers : reranker[t].at = "digest" /\ reranker[t].of.number = i}

\* Whatever the models answer and however reranks overlap, fail and are repeated, no score of
\* theirs is more than 15 from the event's own or off the scale, and an event without a score
\* gets none ("clamps adjustment to +-15, writes events.ai_score only").
WithinFifteen ==
    \A e \in Ranked : aiScore[e] # NoScore =>
        ScoreOf[e] # NoScore /\ aiScore[e] \in 0..100 /\ aiScore[e] - ScoreOf[e] \in -15..15

\* The key says that a rerank is in progress only while one is, or after one that could not
\* take it away.  (While one runs it may be gone: another's finally has deleted it.)
KeyIsTrue == inProgress /\ ~stuck => \E t \in Rerankers : Reranks(t)

\* A digest is written once for each message, unless a worker died before it said so.
DigestsCounted == \A i \in 1..MaxSent : digests[i] + Cardinality(Digesting(i)) <= 1 + doubled[i]

\* What the models say of the events of a project holds together.
RerankHolds == WithinFifteen /\ KeyIsTrue /\ DigestsCounted
=============================================================================
