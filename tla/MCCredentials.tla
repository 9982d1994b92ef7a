--------------------------- MODULE MCCredentials ---------------------------
(* Credentials for TLC: devices and Pods are interchangeable.               *)
EXTENDS Credentials, TLC

Symmetric == Permutations(Device) \cup Permutations(Pod)
=============================================================================
