------------------------------ MODULE EventLog ------------------------------
(***************************************************************************)
(* What the delivery of an Agent's events promises, without Pods, queues,  *)
(* transactions or spools: an event the Agent has created stays with the    *)
(* Agent until the Server holds it durably; its records are applied at most *)
(* once; and the only ways to leave without being applied are the Agent's   *)
(* quarantine and the Server's discarding of a blocked Agent's segment.     *)
(***************************************************************************)
CONSTANT Event

VARIABLES
  held,     \* events the Agent still keeps
  stored,   \* events the Server has taken durably
  applied,  \* events whose records are in the inventory
  dropped   \* events the Server discarded, or the Agent set aside

vars == <<held, stored, applied, dropped>>

Init == held = {} /\ stored = {} /\ applied = {} /\ dropped = {}

Known == held \cup stored \cup dropped

Create(e) ==
  /\ e \notin Known
  /\ held' = held \cup {e}
  /\ UNCHANGED <<stored, applied, dropped>>

Store(e) ==
  /\ e \in Known
  /\ stored' = stored \cup {e}
  /\ UNCHANGED <<held, applied, dropped>>

Apply(e) ==
  /\ e \in Known
  /\ e \notin applied
  /\ applied' = applied \cup {e}
  /\ stored' = stored \cup {e}
  /\ UNCHANGED <<held, dropped>>

Release(e) ==
  /\ e \in held \cap stored
  /\ held' = held \ {e}
  /\ UNCHANGED <<stored, applied, dropped>>

SetAside(e) ==
  /\ e \in held
  /\ held' = held \ {e}
  /\ dropped' = dropped \cup {e}
  /\ UNCHANGED <<stored, applied>>

Discard(e) ==
  /\ e \in stored
  /\ dropped' = dropped \cup {e}
  /\ UNCHANGED <<held, stored, applied>>

Next == \E e \in Event :
  Create(e) \/ Store(e) \/ Apply(e) \/ Release(e) \/ SetAside(e) \/ Discard(e)

Spec == Init /\ [][Next]_vars
=============================================================================
