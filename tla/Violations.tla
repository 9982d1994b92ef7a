----------------------------- MODULE Violations -----------------------------
(***************************************************************************)
(* The recorder of content-security-policy violations of one Server process *)
(* (tracking/violations.go): a map of at most MaxViolations distinct blocked *)
(* origins, from which the one seen longest ago makes room.                  *)
(***************************************************************************)
EXTENDS Naturals, FiniteSets
CONSTANTS
  Origin,         \* directive and origin, the key of a report
  MaxViolations,  \* the size of the recorder (100 in the code)
  MaxClock        \* bound: the clock
VARIABLES
  violations,     \* the recorded origins with the time each was last seen, 0: not recorded
  clock,          \* the time; several reports may come at one time
  seen            \* history: when each origin was last reported, since the last Forget

recorderVars == <<violations, clock, seen>>

TypeOK ==
  /\ violations \in [Origin -> 0 .. MaxClock]
  /\ clock \in 1 .. MaxClock
  /\ seen \in [Origin -> 0 .. MaxClock]

Init ==
  /\ violations = [o \in Origin |-> 0]
  /\ clock = 1
  /\ seen = [o \in Origin |-> 0]

Recorded == {o \in Origin : violations[o] # 0}
-----------------------------------------------------------------------------
Tick ==
  /\ clock < MaxClock
  /\ clock' = clock + 1
  /\ UNCHANGED <<violations, seen>>

\* evictOldest: one of those last seen longest ago.
Oldest == {o \in Recorded : \A other \in Recorded : violations[o] <= violations[other]}

\* Record: a known origin is seen again; a new one may push out the oldest.
Record(o) ==
  /\ seen' = [seen EXCEPT ![o] = clock]
  /\ IF violations[o] # 0 \/ Cardinality(Recorded) < MaxViolations
       THEN violations' = [violations EXCEPT ![o] = clock]
       ELSE \E old \in Oldest : violations' = [violations EXCEPT ![old] = 0, ![o] = clock]
  /\ UNCHANGED clock

Forget ==
  /\ violations' = [o \in Origin |-> 0]
  /\ seen' = [o \in Origin |-> 0]
  /\ UNCHANGED clock

Next == Tick \/ Forget \/ \E o \in Origin : Record(o)

Spec == Init /\ [][Next]_recorderVars
-----------------------------------------------------------------------------
\* However the reports come, the console lists the origins blocked most recently,
\* as many as fit: none that is missing was seen after one that is listed (Record,
\* evictOldest).
KeepsMostRecent ==
  /\ Cardinality(Recorded) <= MaxViolations
  /\ \A o \in Origin \ Recorded : seen[o] # 0 =>
       /\ Cardinality(Recorded) = MaxViolations
       /\ \A kept \in Recorded : seen[kept] >= seen[o]
=============================================================================
