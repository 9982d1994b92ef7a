----------------------------- MODULE MCDelivery -----------------------------
(* Delivery for TLC: Pods are interchangeable; so are events, because the   *)
(* order they are created in is chosen by Enqueue.                          *)
EXTENDS Delivery, TLC

Symmetric == Permutations(Pod) \cup Permutations(Event)
=============================================================================
