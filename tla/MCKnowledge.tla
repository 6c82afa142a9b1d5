----------------------------- MODULE MCKnowledge -----------------------------
(***************************************************************************)
(* What a team reads and keeps of its intelligence, for TLC: the           *)
(* indicators, files of them and the backfill from stored events, the feed *)
(* page by page, cases and campaigns, the attack graph, the evaluation of  *)
(* a Sigma rule, the sweep for coordinated posts and the rerank of the     *)
(* events.  They share no state: the run explores each with the others at  *)
(* rest (know), never their product.                                       *)
(***************************************************************************)
EXTENDS Indicators, IocJobs, EventFeed, Casework, AttackGraph, Sigma, Clusters, Rerank, TLC

CONSTANTS n1, n2, n3, p1

\* Two rows, three of which one overflows, three of which one is refused and one blank, and a
\* row of another project.
Raw(value, fault) == [value |-> value, fault |-> fault]
MCFiles ==
    {<<Raw("a", "none"), Raw("b", "none")>>,
     <<Raw("b", "none"), Raw("a", "overflow"), Raw("b", "none")>>,
     <<Raw("a", "invalid"), Raw("b", "none"), Raw("a", "blank")>>,
     <<Raw("a", "foreign")>>}

\* Four events at two times; the rank 4 is rounded to 3 in a cursor.
Fact(source, visibility, kind, observed, score, rank) ==
    [project |-> "P", source |-> source, visibility |-> visibility, kind |-> kind,
     observed |-> observed, score |-> score, rank |-> rank]
MCFacts ==
    <<Fact("s1", "shared", "intel", 1, 4, 2), Fact("s1", "red_only", "intel", 2, 2, 0),
      Fact("s2", "shared", "intel", 2, 4, 2), Fact("s2", "blue_only", "brand", 1, 2, 4)>>
MCKept == (0 :> 0) @@ (2 :> 2) @@ (4 :> 3)
MCHits == ("r1" :> {1, 2, 3}) @@ ("r2" :> {2, 3, 4})
Walk(inProject, roles, from, include, withArchived, text, byScore) ==
    [project |-> inProject, roles |-> roles, sources |-> from, include |-> include,
     archived |-> withArchived, text |-> text, byScore |-> byScore]
MCQueries ==
    {Walk("P", {}, {}, {}, FALSE, FALSE, FALSE), Walk("none", {"red"}, {}, {}, TRUE, FALSE, FALSE),
     Walk("P", {"blue"}, {"s2"}, {"brand"}, FALSE, TRUE, FALSE), Walk("none", {}, {}, {"brand"}, FALSE, FALSE, TRUE)}

MCStixOf == (n1 :> <<<<"actor", "malware">>, <<"x", "actor">>>>) @@ (n2 :> <<<<"malware", "x">>>>) @@ (n3 :> <<>>)
MCHomeOf == (n1 :> "P") @@ (n2 :> "P") @@ (n3 :> "Q")

\* One detection has a keyword and a field, the other a field and one that is never there.
MCItemsOf == ("sel" :> {"k", "t"}) @@ ("flt" :> {"t", "a"})
MCFieldOf == ("k" :> "keyword") @@ ("t" :> "title") @@ ("a" :> "threat_actor")

\* A chain of posts of one project, each like the next, and one of another like the first.
MCObservedAt == ("c1" :> 1) @@ ("c2" :> 0) @@ ("c3" :> 1) @@ ("d1" :> 0)
MCProjectOf == [p \in Posts |-> IF p = "d1" THEN "Q" ELSE "P"]
MCPairs == {<<"c1", "c2">>, <<"c2", "c3">>, <<"c1", "d1">>}
MCAlike == {<<p, p>> : p \in Posts} \cup MCPairs \cup {<<p[2], p[1]>> : p \in MCPairs}

\* Two events of the same score and one without; an adjustment beyond the clamp.
MCScoreOf == ("e1" :> 90) @@ ("e2" :> 90) @@ ("e3" :> NoScore)
MCAdjustments == {-40}

\* What works side by side, in every part: threads, handlers and sweeps.
KnowledgeSymmetry == Permutations(Importers)

VARIABLE know

\* At rest, a component has one initial state; the graph starts with one archived event at most.
KnowledgeInit ==
    /\ know \in {"indicators", "import", "backfill", "feed", "casework", "graph", "sigma", "clusters", "rerank"}
    /\ IndicatorsInit /\ ImportInit /\ BackfillInit /\ CaseworkInit /\ ClustersInit /\ RerankInit
    /\ IF know = "feed" THEN EventFeedInit
       ELSE feed = {} /\ scope = NoScope /\ bound = {} /\ EventFeedInit
    /\ IF know = "graph" THEN AttackGraphInit /\ Cardinality(cold) <= 1 ELSE present = {} /\ tags = {} /\ AttackGraphInit
    /\ IF know = "sigma" THEN SigmaInit
       ELSE rule = [condition |-> CHOOSE c \in Conditions : TRUE, hits |-> {}] /\ verdict = "none"

iocsVars == <<indicatorsVars, importVars, backfillVars>>
readVars == <<feedVars, caseworkVars, attackGraphVars>>
detectVars == <<sigmaVars, clustersVars, rerankVars>>
knowledgeVars == <<know, iocsVars, readVars, detectVars>>

KnowledgeNext ==
    \/ /\ UNCHANGED <<know, readVars, detectVars>>
       /\ \/ know = "indicators" /\ IndicatorsNext /\ UNCHANGED <<importVars, backfillVars>>
          \/ know = "import" /\ ImportNext /\ UNCHANGED <<indicatorsVars, backfillVars>>
          \/ know = "backfill" /\ BackfillNext /\ UNCHANGED <<indicatorsVars, importVars>>
    \/ /\ UNCHANGED <<know, iocsVars, detectVars>>
       /\ \/ know = "feed" /\ EventFeedNext /\ UNCHANGED <<caseworkVars, attackGraphVars>>
          \/ know = "casework" /\ CaseworkNext /\ UNCHANGED <<feedVars, attackGraphVars>>
          \/ know = "graph" /\ AttackGraphNext /\ UNCHANGED <<feedVars, caseworkVars>>
    \/ /\ UNCHANGED <<know, iocsVars, readVars>>
       /\ \/ know = "sigma" /\ TestSigmaRule /\ UNCHANGED <<clustersVars, rerankVars>>
          \/ know = "clusters" /\ ClustersNext /\ UNCHANGED <<sigmaVars, rerankVars>>
          \/ know = "rerank" /\ RerankNext /\ UNCHANGED <<sigmaVars, clustersVars>>

KnowledgeSpec == KnowledgeInit /\ [][KnowledgeNext]_knowledgeVars

\* The state of each is well formed, down to what a request, a job or a sweep between two of
\* its steps relies on; stated part by part in the modules.
KnowledgeTypeOK ==
    /\ know = "indicators" => IndicatorsTypeOK
    /\ know = "import" => ImportTypeOK
    /\ know = "backfill" => BackfillTypeOK
    /\ know = "feed" => EventFeedTypeOK
    /\ know = "casework" => CaseworkTypeOK
    /\ know = "graph" => AttackGraphTypeOK
    /\ know = "clusters" => ClustersTypeOK
    /\ know = "rerank" => RerankTypeOK

\* What rules, the sweep and the models say of the events is what it should be: SigmaFaithful,
\* ClustersReported and RerankHolds.
DetectorsHold == SigmaFaithful /\ ClustersReported /\ RerankHolds
=============================================================================
