------------------------ MODULE MCWebhookDispatch ------------------------
(* WebhookDispatch for TLC: e1 is the oldest event, e2 and e3 were observed *)
(* at the same time, and every webhook's preset matches all of them.        *)
EXTENDS WebhookDispatch, TLC

CONSTANTS w1, w2, e1, e2, e3, t1, t2, t3

MCObservedAt == [e \in Events |-> IF e = e1 THEN 1 ELSE 2]
MCIdRank == [e \in Events |-> IF e = e1 THEN 1 ELSE IF e = e2 THEN 2 ELSE 3]
MCWanted == [w \in Webhooks |-> Events]
MCSymmetry == Permutations(Threads)
=============================================================================
