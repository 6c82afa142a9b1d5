------------------------------ MODULE MCAiJobs ------------------------------
(* AiJobs for TLC: a streamed summary, a polled one and a narrative, of which *)
(* each .cfg file takes some.                                                 *)
EXTENDS AiJobs

CONSTANTS e1, c1, n1

MCKind == [j \in Jobs |-> CASE j = c1 -> "case" [] j = n1 -> "narrative" [] OTHER -> "event"]
=============================================================================
