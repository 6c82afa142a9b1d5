------------------------- MODULE DeliveryPromise -------------------------
(***************************************************************************)
(* What the webhook dispatcher promises, without ticks, Redis or threads:  *)
(* a destination is sent only ingested events in its webhook's scope, an   *)
(* event once sent stays sent, and last_dispatch_at moves only to an event *)
(* the destination was sent, or back to NULL when an admin resets it.      *)
(***************************************************************************)
EXTENDS Integers

CONSTANTS Webhooks, Events, ObservedAt, Wanted, None

VARIABLES ingested, received, cursor
promised == <<ingested, received, cursor>>

Init ==
    /\ ingested = {}
    /\ received = [w \in Webhooks |-> {}]
    /\ cursor = [w \in Webhooks |-> None]

Ingest ==
    /\ \E e \in Events : ingested' = ingested \cup {e}
    /\ UNCHANGED <<received, cursor>>

Send(w) ==
    /\ \E sent \in SUBSET (ingested \cap Wanted[w]) :
          received' = [received EXCEPT ![w] = @ \cup sent]
    /\ UNCHANGED <<ingested, cursor>>

Advance(w) ==
    /\ \E e \in received[w] : cursor' = [cursor EXCEPT ![w] = ObservedAt[e]]
    /\ UNCHANGED <<ingested, received>>

Reset(w) ==
    /\ cursor' = [cursor EXCEPT ![w] = None]
    /\ UNCHANGED <<ingested, received>>

Next == Ingest \/ \E w \in Webhooks : Send(w) \/ Advance(w) \/ Reset(w)

Spec == Init /\ [][Next]_promised
=============================================================================
