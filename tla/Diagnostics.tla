----------------------------- MODULE Diagnostics -----------------------------
(***************************************************************************)
(* The diagnostic log that all Pods write (diagnostics/store.go).  A Pod     *)
(* takes the time of an event, inserts its row, and after every PruneEvery   *)
(* rows of its own clears the log: the rows older than the retention period, *)
(* then those beyond the newest Retained, which it selects first and deletes *)
(* one by one while other Pods insert and clear as well.  The counter of a   *)
(* Pod starts again with its process.                                        *)
(***************************************************************************)
EXTENDS Naturals, FiniteSets
CONSTANTS
  Logger,       \* the Pods
  Retained,     \* retentionCount
  Period,       \* retentionPeriod
  PruneEvery,   \* rows between two clearings of a Pod (100 in the code)
  MaxPruned,    \* rows one clearing takes (1000 in the code)
  MaxEvents     \* bound: events; the time is the number of the last one
VARIABLES
  log,          \* the rows of diagnostic_logs, by the time they occurred
  logger,       \* what each Pod is doing
  written,      \* history: the rows ever inserted
  now           \* the time

logVars == <<log, logger, written, now>>

Event == 1 .. MaxEvents
Quiet(writes) == [step |-> "rest", event |-> 0, writes |-> writes, doomed |-> {}]

TypeOK ==
  /\ log \subseteq Event /\ written \subseteq Event /\ now \in 0 .. MaxEvents
  /\ logger \in [Logger -> [step : {"rest", "insert", "expire", "select", "delete"},
                            event : 0 .. MaxEvents, writes : 0 .. PruneEvery - 1,
                            doomed : SUBSET Event]]

Init ==
  /\ log = {} /\ written = {} /\ now = 0
  /\ logger = [p \in Logger |-> Quiet(0)]
-----------------------------------------------------------------------------
\* Record: the event is cleaned of secrets and stamped with the time, ...
Stamp(p) ==
  /\ logger[p].step = "rest" /\ now < MaxEvents
  /\ now' = now + 1
  /\ logger' = [logger EXCEPT ![p].step = "insert", ![p].event = now + 1]
  /\ UNCHANGED <<log, written>>

\* ... inserted, perhaps after later ones, and counted; or the insert fails.
Insert(p) ==
  LET writes == (logger[p].writes + 1) % PruneEvery
  IN  /\ logger[p].step = "insert"
      /\ \/ /\ log' = log \cup {logger[p].event}
            /\ written' = written \cup {logger[p].event}
            /\ logger' = [logger EXCEPT ![p] =
                 IF writes = 0 THEN [Quiet(0) EXCEPT !.step = "expire"] ELSE Quiet(writes)]
         \/ /\ logger' = [logger EXCEPT ![p] = Quiet(logger[p].writes)]
            /\ UNCHANGED <<log, written>>
      /\ UNCHANGED now

Old(e) == e + Period < now

\* prune: the old rows, ...
Expire(p) ==
  /\ logger[p].step = "expire"
  /\ log' = {e \in log : ~ Old(e)}
  /\ logger' = [logger EXCEPT ![p].step = "select"]
  /\ UNCHANGED <<written, now>>

NewerThan(e, rows) == Cardinality({f \in rows : f > e})

\* Mutant: the oldest rows are taken, as many as were too many at the clearing.
BeyondRetained(rows) ==
  {e \in rows : Cardinality({f \in rows : f < e}) < MaxPruned /\ Cardinality(rows) > Retained}

\* ORDER BY occurred_at DESC LIMIT MaxPruned OFFSET Retained.
Surplus(rows) == {e \in rows : NewerThan(e, rows) \in Retained .. Retained + MaxPruned - 1}

\* ... and the surplus, selected in one statement ...
Select(p) ==
  /\ logger[p].step = "select"
  /\ logger' = [logger EXCEPT ![p].step = "delete", ![p].doomed = Surplus(log)]
  /\ UNCHANGED <<log, written, now>>

\* ... and deleted by its ids, one at a time, whatever has happened since.
Delete(p) ==
  /\ logger[p].step = "delete"
  /\ \/ \E e \in logger[p].doomed :
          /\ log' = log \ {e}
          /\ logger' = [logger EXCEPT ![p].doomed = @ \ {e}]
     \/ /\ logger[p].doomed = {}
        /\ logger' = [logger EXCEPT ![p] = Quiet(0)]
        /\ UNCHANGED log
  /\ UNCHANGED <<written, now>>

Restart(p) ==
  /\ logger[p] # Quiet(0)
  /\ logger' = [logger EXCEPT ![p] = Quiet(0)]
  /\ UNCHANGED <<log, written, now>>

Next == \E p \in Logger :
          Stamp(p) \/ Insert(p) \/ Expire(p) \/ Select(p) \/ Delete(p) \/ Restart(p)

Spec == Init /\ [][Next]_logVars
-----------------------------------------------------------------------------
\* However the clearings of the Pods meet, they take only what is too much: a row
\* that is gone is past the retention period, or Retained newer ones were written
\* (prune).
KeepsNewest ==
  \A e \in written \ log : Old(e) \/ NewerThan(e, written) >= Retained
=============================================================================
