-------------------------------- MODULE Sigma --------------------------------
(***************************************************************************)
(* How a Sigma rule is evaluated against an event, when an admin tests it  *)
(* (services/sigma_engine.py, test_sigma_rule of                           *)
(* routers/admin/sigma_rules.py).  The text of a condition is split at     *)
(* "or", then at "and", then after "not"; it has no parentheses here.      *)
(*                                                                         *)
(* A condition is a sequence of terms, each a number of "not" before the   *)
(* name of a detection, with the words between them.  A detection is a set *)
(* of items.                                                               *)
(***************************************************************************)
EXTENDS Integers, Sequences, FiniteSets, SequencesExt

CONSTANTS
    Detections,   \* names that the rule defines
    ItemsOf,      \* [Detections -> its items]
    FieldOf,      \* [items -> "keyword", the name of a field, or another word]
    MaxTerms,     \* bound: terms of a condition
    MaxNots       \* bound: times that one is negated

SigmaItems == UNION {ItemsOf[d] : d \in Detections}
\* SIGMA_FIELD_MAP, without threat_actor, whose value is None.
FieldMap == {"title", "description", "keywords", "raw_stix_pattern", "source"}

ASSUME SigmaAssumption ==
    /\ ItemsOf \in [Detections -> SUBSET SigmaItems] /\ SigmaItems \subseteq DOMAIN FieldOf
    /\ "unknown" \notin Detections /\ MaxTerms \in Nat \ {0} /\ MaxNots \in Nat

Term == [nots : 0..MaxNots, name : Detections \cup {"unknown"}]
\* group: it says "1 of them" or the like somewhere.
Conditions ==
    UNION {[terms : [1..n -> Term], ops : [1..(n - 1) -> {"and", "or"}], group : BOOLEAN] : n \in 1..MaxTerms}

VARIABLES
    rule,       \* the condition of a rule and the items one of whose values match the event
    verdict     \* what test_sigma_rule says

sigmaVars == <<rule, verdict>>

SigmaInit == rule \in [condition : Conditions, hits : SUBSET SigmaItems] /\ verdict = "none"

-----------------------------------------------------------------------------
\* _evaluate_detection_item and _value_matches: a keyword is looked for everywhere.
ItemHolds(i) == i \in rule.hits /\ FieldOf[i] \in FieldMap \cup {"keyword"}

\* _evaluate_detection: the items are linked by "or".
DetectionHolds(d) == \E i \in ItemsOf[d] : ItemHolds(i)

\* The parts of first..last between the words op, as pairs of ends.
Parts(c, op, first, last) ==
    {p \in (first..last) \X (first..last) :
        /\ p[1] <= p[2]
        /\ p[1] = first \/ c.ops[p[1] - 1] = op
        /\ p[2] = last \/ c.ops[p[2]] = op
        /\ \A i \in p[1]..(p[2] - 1) : c.ops[i] # op}

\* "not" is stripped word by word; a name that the rule does not define is false.
TermHolds(t) == (t.name # "unknown" /\ DetectionHolds(t.name)) = (t.nots % 2 = 0)

\* (mutant) The text is split at "and" first.
AndFirst(c) ==
    \A p \in Parts(c, "and", 1, Len(c.terms)) : \E q \in Parts(c, "or", p[1], p[2]) : TermHolds(c.terms[q[1]])

\* _eval_condition_expr: it does not go into groups, and splits at "or" first.
Splits(c) ==
    \E p \in Parts(c, "or", 1, Len(c.terms)) : \A q \in Parts(c, "and", p[1], p[2]) : TermHolds(c.terms[q[1]])
EvalCondition(c) == ~c.group /\ Splits(c)

TestSigmaRule ==
    /\ verdict = "none"
    /\ verdict' = IF EvalCondition(rule.condition) THEN "match" ELSE "no match"
    /\ UNCHANGED rule

SigmaSpec == SigmaInit /\ [][TestSigmaRule]_sigmaVars

-----------------------------------------------------------------------------
\* A condition read from the left: sum is what the closed parts say, product the open one.
ReadFromLeft(c) ==
    LET Read(state, i, holds) ==
            IF i > 1 /\ c.ops[i - 1] = "and" THEN [state EXCEPT !.product = @ /\ holds]
            ELSE [sum |-> state.sum \/ state.product, product |-> holds]
        state[i \in 0..Len(c.terms)] ==
            IF i = 0 THEN [sum |-> FALSE, product |-> FALSE] ELSE Read(state[i - 1], i, TermHolds(c.terms[i]))
    IN state[Len(c.terms)].sum \/ state[Len(c.terms)].product

\* The splits of the text agree with the precedence of Sigma, "not" before "and" before "or",
\* read from left to right, for conditions without groups; a rule with a group never matches
\* ("Falls back to False + WARNING").
SigmaFaithful ==
    verdict # "none" =>
        ((verdict = "match") <=> (~rule.condition.group /\ ReadFromLeft(rule.condition)))
=============================================================================
