---------------------------- MODULE MCInventory ----------------------------
(* Inventory for TLC: records and payloads are interchangeable.             *)
EXTENDS Inventory, TLC

Symmetric == Permutations(Item) \cup Permutations(Value)
=============================================================================
