--------------------------- MODULE MCEasmScan ---------------------------
(* EasmScan for TLC: two scans of one project, and a third of another. *)
EXTENDS EasmScan, TLC

CONSTANTS s1, s2, s3, t1, t2, c1, c2, c3

MCProjectOf == [s \in Scans |-> IF s = s3 THEN "q" ELSE "p"]

\* Threads, container ids and the scans of one project are interchangeable.
MCSymmetry == Permutations(Workers) \cup Permutations(Containers) \cup Permutations(Scans \ {s3})
=============================================================================
