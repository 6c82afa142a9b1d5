----------------------------- MODULE AttackGraph -----------------------------
(***************************************************************************)
(* The graph around an event, or of a project, that the routes of          *)
(* routers/graph.py return (services/graph_traversal.py): events, the      *)
(* techniques they are tagged with and the actors, malware and campaigns   *)
(* of their STIX relationships, up to a number of nodes and edges.         *)
(*                                                                         *)
(* Each layer is a statement of its own, so tags and events come and go    *)
(* between two; the rows of one come in any order.                         *)
(***************************************************************************)
EXTENDS Integers, Sequences, FiniteSets

CONSTANTS
    GraphEvents, \* events
    Techniques,  \* ATT&CK techniques
    StixRefs,    \* ids that relationships name
    Displayable, \* those of an actor, malware or campaign
    StixOf,      \* [GraphEvents -> the relationships of its raw_stix]: <<source, target>>
    HomeOf,      \* [GraphEvents -> project]
    Shown,       \* events that the caller's roles show
    NodeCap, EdgeCap,
    MaxGraphChanges \* bound: tags and events that come, go or are archived

ASSUME AttackGraphAssumption ==
    /\ StixOf \in [GraphEvents -> Seq(StixRefs \X StixRefs)] /\ DOMAIN HomeOf = GraphEvents /\ "none" \notin {HomeOf[e] : e \in GraphEvents}
    /\ Displayable \subseteq StixRefs /\ Shown \subseteq GraphEvents
    /\ NodeCap \in Nat \ {0, 1} /\ EdgeCap \in Nat \ {0} /\ MaxGraphChanges \in Nat

VARIABLES
    present,     \* the events that are there
    cold,        \* those of them that the archiver has set aside
    tags,        \* attack_technique_tags
    drawing,     \* the request
    graphChanges

attackGraphVars == <<present, cold, tags, drawing, graphChanges>>

Homes == {HomeOf[e] : e \in GraphEvents}
Labels == {"idle", "techniques", "technique", "objects", "cross", "load", "other", "seeds", "done"}
Nodes == ({"event"} \X GraphEvents) \cup ({"technique"} \X Techniques) \cup ({"stix"} \X Displayable)
Event(e) == <<"event", e>>
Technique(t) == <<"technique", t>>
Stix(ref) == <<"stix", ref>>

\* depth 0 is the graph of a project; project "none" is an admin's who names none.  known and
\* steady, steadyTags are history: what has been there since the request began (of a project: what
\* its events were that were not archived then).
NoDrawing == [at |-> "idle", depth |-> 0, project |-> "none", seed |-> {}, seeds |-> {}, techniques |-> {}, rows |-> {},
              objects |-> <<>>, cross |-> {}, nodes |-> {}, edges |-> {}, truncated |-> FALSE, steady |-> {}, steadyTags |-> {}]

InView(e) == e \in Shown /\ (drawing.project # "none" => HomeOf[e] = drawing.project)

\* What is read at a layer belongs to its seed, and what is left to add is of that layer.
AttackGraphTypeOK ==
    /\ present \subseteq GraphEvents /\ cold \subseteq present /\ tags \subseteq GraphEvents \X Techniques
    /\ drawing.at \in Labels /\ drawing.depth \in 0..3 /\ drawing.project \in Homes \cup {"none"}
    /\ drawing.seed \subseteq GraphEvents /\ Cardinality(drawing.seed) <= 1
    /\ drawing.seeds \subseteq GraphEvents /\ (drawing.seeds # {} => drawing.depth = 0)
    /\ drawing.rows \subseteq Techniques /\ (drawing.rows # {} => drawing.at = "technique")
    /\ drawing.cross \subseteq GraphEvents \X drawing.techniques
    /\ drawing.objects \in Seq(StixRefs \X StixRefs) /\ (drawing.objects # <<>> => drawing.at = "objects")
    /\ drawing.nodes \subseteq Nodes /\ drawing.edges \subseteq Nodes \X Nodes
    /\ drawing.truncated \in BOOLEAN /\ (drawing.truncated => drawing.at = "done")
    /\ drawing.steady \subseteq present /\ drawing.steadyTags \subseteq tags
    /\ graphChanges \in 0..MaxGraphChanges

AttackGraphInit ==
    /\ present \in SUBSET GraphEvents /\ cold \in SUBSET present
    /\ tags \in SUBSET (GraphEvents \X Techniques) /\ (\A tag \in tags : tag[1] \in present)
    /\ drawing = NoDrawing
    /\ graphChanges = 0

tableVars == <<present, cold, tags, graphChanges>>

-----------------------------------------------------------------------------
AtCap(d) == Cardinality(d.nodes) >= NodeCap \/ Cardinality(d.edges) >= EdgeCap

\* (mutant) The caps are looked at before the last row is added.
CappedLate(before, d) == IF AtCap(before) THEN [d EXCEPT !.at = "done", !.truncated = TRUE, !.rows = {}, !.objects = <<>>, !.cross = {}, !.seeds = {}] ELSE d
\* A graph that has reached a cap is returned as it is.
Capped(before, d) ==
    IF AtCap(d) THEN [d EXCEPT !.at = "done", !.truncated = TRUE, !.rows = {}, !.objects = <<>>, !.cross = {}, !.seeds = {}] ELSE d

Draws(d) == drawing' = d /\ UNCHANGED tableVars

\* traverse_graph: a seed that is not there, not shown or of another project is a 404.
DrawEvent(e, depth, project) ==
    /\ drawing.at = "idle"
    /\ e \in present \cap Shown /\ (project # "none" => HomeOf[e] = project)
    /\ Draws([NoDrawing EXCEPT !.at = "techniques", !.depth = depth, !.project = project, !.seed = {e},
                               !.nodes = {Event(e)}, !.steady = present, !.steadyTags = tags])

\* traverse_project: the ids of its events that are not archived, as build_events_query selects them,
\* and then one after the other, archived meanwhile or not.
DrawProject(project) ==
    /\ drawing.at = "idle"
    /\ Draws([NoDrawing EXCEPT !.at = "seeds", !.project = project, !.steady = present \ cold, !.steadyTags = tags,
                               !.seeds = {e \in (present \ cold) \cap Shown : HomeOf[e] = project}])

DrawSeed(e) ==
    /\ drawing.at = "seeds" /\ e \in drawing.seeds
    /\ LET rest == [drawing EXCEPT !.seeds = @ \ {e}] IN
       Draws(IF e \in present
             THEN Capped(rest, [rest EXCEPT !.at = "techniques", !.seed = {e}, !.nodes = @ \cup {Event(e)}])
             ELSE rest)

Seed == CHOOSE e \in drawing.seed : TRUE

\* Layer 1
ReadTechniques ==
    /\ drawing.at = "techniques"
    /\ Draws([drawing EXCEPT !.at = "technique", !.rows = {t \in Techniques : <<Seed, t>> \in tags}])

DrawTechnique(t) ==
    /\ drawing.at = "technique" /\ t \in drawing.rows
    /\ Draws(Capped(drawing, [drawing EXCEPT !.rows = @ \ {t}, !.techniques = @ \cup {t}, !.nodes = @ \cup {Technique(t)},
                                             !.edges = @ \cup {<<Event(Seed), Technique(t)>>}]))

EndTechniques ==
    /\ drawing.at = "technique" /\ drawing.rows = {}
    /\ Draws(IF drawing.depth = 1 THEN [drawing EXCEPT !.at = "done"]
             ELSE [drawing EXCEPT !.at = "objects", !.objects = StixOf[Seed]])

\* Layer 2.  The caps are looked at behind each node, and not behind the edges of a relationship.
Ends(rel) == {rel[1], rel[2]} \cap Displayable
Ties(rel) ==
    (IF Ends(rel) = {rel[1], rel[2]} THEN {<<Stix(rel[1]), Stix(rel[2])>>} ELSE {})
    \cup (IF rel[1] \in Displayable THEN {<<Stix(rel[1]), Event(Seed)>>} ELSE {})
    \cup (IF rel[2] \in Displayable THEN {<<Event(Seed), Stix(rel[2])>>} ELSE {})
WithNode(d, ref) ==
    IF d.truncated \/ ref \notin Displayable THEN d ELSE Capped(d, [d EXCEPT !.nodes = @ \cup {Stix(ref)}])

DrawRelationship ==
    /\ drawing.at = "objects" /\ drawing.objects # <<>>
    /\ LET rel == Head(drawing.objects)
           both == WithNode(WithNode([drawing EXCEPT !.objects = Tail(@)], rel[1]), rel[2])
       IN Draws(IF both.truncated THEN both ELSE [both EXCEPT !.edges = @ \cup Ties(rel)])

EndObjects ==
    /\ drawing.at = "objects" /\ drawing.objects = <<>>
    /\ Draws(CASE drawing.depth = 0 -> Capped(drawing, [drawing EXCEPT !.at = "seeds"])
               [] drawing.depth = 3 /\ drawing.techniques # {} -> [drawing EXCEPT !.at = "cross"]
               [] OTHER -> [drawing EXCEPT !.at = "done"])

EndSeeds == drawing.at = "seeds" /\ drawing.seeds = {} /\ Draws([drawing EXCEPT !.at = "done"])

\* Layer 3: the tags of other events, and those events, of the same project if one is named.
ReadCross ==
    /\ drawing.at = "cross"
    /\ Draws([drawing EXCEPT !.at = "load", !.cross = {tag \in tags : tag[2] \in drawing.techniques /\ tag[1] # Seed}])

\* (mutant) The project is left to the guard of the seed.
LoadAnyProject ==
    /\ drawing.at = "load"
    /\ Draws([drawing EXCEPT !.at = "other", !.cross = {tag \in @ : tag[1] \in present \cap Shown}])
LoadCross ==
    /\ drawing.at = "load"
    /\ Draws([drawing EXCEPT !.at = "other", !.cross = {tag \in @ : tag[1] \in present /\ InView(tag[1])}])

DrawOther(tag) ==
    /\ drawing.at = "other" /\ tag \in drawing.cross
    /\ Draws(Capped(drawing, [drawing EXCEPT !.cross = @ \ {tag}, !.nodes = @ \cup {Event(tag[1])},
                                             !.edges = @ \cup {<<Event(tag[1]), Technique(tag[2])>>}]))

EndOthers == drawing.at = "other" /\ drawing.cross = {} /\ Draws([drawing EXCEPT !.at = "done"])

-----------------------------------------------------------------------------
\* Events are tagged and, by the archiver's policy for their source, deleted with their tags.
ChangesGraph(events, tagged) ==
    /\ graphChanges < MaxGraphChanges /\ graphChanges' = graphChanges + 1
    /\ present' = events /\ cold' = cold \cap events /\ tags' = tagged
    /\ drawing' = [drawing EXCEPT !.steady = @ \cap events, !.steadyTags = @ \cap tagged]

TagEvent(e, t) == e \in present /\ <<e, t>> \notin tags /\ ChangesGraph(present, tags \cup {<<e, t>>})
UntagEvent(tag) == tag \in tags /\ ChangesGraph(present, tags \ {tag})
DeleteEvent(e) == e \in present \ cold /\ ChangesGraph(present \ {e}, {tag \in tags : tag[1] # e})

\* Or moved to cold, where they stay.
MarkArchived(e) ==
    /\ e \in present \ cold /\ cold' = cold \cup {e}
    /\ graphChanges < MaxGraphChanges /\ graphChanges' = graphChanges + 1
    /\ UNCHANGED <<present, tags, drawing>>

AttackGraphNext ==
    \/ \E e \in GraphEvents, depth \in 1..3, project \in Homes \cup {"none"} : DrawEvent(e, depth, project)
    \/ \E project \in Homes : DrawProject(project)
    \/ \E e \in GraphEvents : DrawSeed(e) \/ DeleteEvent(e) \/ MarkArchived(e)
    \/ ReadTechniques \/ EndTechniques \/ DrawRelationship \/ EndObjects \/ EndSeeds \/ ReadCross \/ LoadCross \/ EndOthers
    \/ \E t \in Techniques : DrawTechnique(t) \/ \E e \in GraphEvents : TagEvent(e, t)
    \/ \E tag \in GraphEvents \X Techniques : DrawOther(tag) \/ UntagEvent(tag)

AttackGraphSpec == AttackGraphInit /\ [][AttackGraphNext]_attackGraphVars

-----------------------------------------------------------------------------
(* What the graph should have, of what has been there throughout; of a project, of what was not archived *)

Relations(e) == {StixOf[e][i] : i \in DOMAIN StixOf[e]}
Around(e) == {tag[2] : tag \in {s \in drawing.steadyTags : s[1] = e}}
OfSeed(e, deep) ==
    {Event(e)} \cup {Technique(t) : t \in Around(e)}
    \cup IF deep THEN {Stix(ref) : ref \in UNION {Ends(rel) : rel \in Relations(e)}} ELSE {}
Neighbours(e) == {f \in drawing.steady \ {e} : InView(f) /\ Around(f) \cap Around(e) # {}}
Reference ==
    IF drawing.depth = 0
    THEN UNION {OfSeed(e, TRUE) : e \in {f \in drawing.steady : InView(f)}}
    ELSE OfSeed(Seed, drawing.depth > 1) \cup IF drawing.depth = 3 THEN {Event(f) : f \in Neighbours(Seed)} ELSE {}

\* A graph has no edge without its nodes and no event that the caller is not shown or that is of
\* another project, and keeps to the caps (a relationship may add three edges, and the layer
\* behind it one); unless it says that it is truncated, it has everything in reach that was
\* there all the time, an archived event only around another event and not in a project's graph.
GraphFaithful ==
    /\ \A edge \in drawing.edges : {edge[1], edge[2]} \subseteq drawing.nodes
    /\ \A e \in GraphEvents : Event(e) \in drawing.nodes => InView(e)
    /\ Cardinality(drawing.nodes) <= NodeCap /\ Cardinality(drawing.edges) <= EdgeCap + 3
    /\ drawing.at = "done" /\ ~drawing.truncated => Reference \subseteq drawing.nodes
=============================================================================
