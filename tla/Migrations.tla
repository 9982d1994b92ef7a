----------------------------- MODULE Migrations -----------------------------
(***************************************************************************)
(* Server Pods that start together against one PostgreSQL database          *)
(* (storage/migrate.go).  Each takes a session lock before it touches the    *)
(* schema, creates the table that counts migrations, and applies, each in    *)
(* one transaction, the migrations of its release that are missing.  A Pod   *)
(* can be killed, or run out of its time, between any two statements;         *)
(* PostgreSQL then ends its transaction and its session, and with it the lock. *)
(***************************************************************************)
EXTENDS Naturals, FiniteSets, FiniteSetsExt
CONSTANTS
  Pod,
  Brings,         \* how many migrations the release of each Pod has
  Absent,         \* nobody
  MaxKills        \* bound: how often a Pod is killed or runs out of time
VARIABLES
  tracking,       \* the table schema_migrations exists
  applied,        \* the versions it lists
  effects,        \* history: how often the body of each migration took effect
  session,        \* what each Pod's reserved connection is doing
  advisory,       \* who holds the advisory lock
  serving,        \* the Pods that finished and serve
  failed,         \* history: the Pods whose statement was refused at start
  kills           \* Pods killed or out of time so far

schemaVars == <<tracking, applied, effects, session, advisory, serving, failed, kills>>

Latest == Max({Brings[p] : p \in Pod})
Migration == 1 .. Latest

TypeOK ==
  /\ tracking \in BOOLEAN
  /\ applied \subseteq Migration
  /\ effects \in [Migration -> 0 .. Cardinality(Pod)]
  /\ session \in [Pod -> [step : {"rest", "table", "check", "run", "commit"},
                          at : 0 .. Latest + 1, absent : BOOLEAN]]
  /\ advisory \in Pod \cup {Absent}
  /\ serving \subseteq Pod /\ failed \subseteq Pod
  /\ kills \in 0 .. MaxKills

Off == [step |-> "rest", at |-> 0, absent |-> FALSE]

\* An empty database, or one an older release has migrated.
Init ==
  /\ tracking \in BOOLEAN
  /\ \E n \in 0 .. Latest : applied = 1 .. n /\ (applied # {} => tracking)
  /\ effects = [m \in Migration |-> IF m \in applied THEN 1 ELSE 0]
  /\ session = [p \in Pod |-> Off]
  /\ advisory = Absent
  /\ serving = {} /\ failed = {} /\ kills = 0
-----------------------------------------------------------------------------
Goto(p, step) == session' = [session EXCEPT ![p].step = step]
Unlock(p) == advisory' = IF advisory = p THEN Absent ELSE advisory
\* A statement fails: the Pod unlocks and exits at start.
GiveUp(p) ==
  /\ failed' = failed \cup {p}
  /\ session' = [session EXCEPT ![p] = Off]
  /\ Unlock(p)

\* Mutant: the tracking table is created before the lock is taken.
LockLate(p) ==
  /\ session[p] = Off /\ p \notin serving \cup failed
  /\ session' = [session EXCEPT ![p].step = "table", ![p].absent = ~ tracking]
  /\ UNCHANGED <<tracking, applied, effects, advisory, serving, failed, kills>>

\* pg_advisory_lock on the reserved connection; CREATE TABLE IF NOT EXISTS then
\* looks whether the table is there.
Lock(p) ==
  /\ session[p] = Off /\ p \notin serving \cup failed
  /\ advisory = Absent
  /\ advisory' = p
  /\ session' = [session EXCEPT ![p].step = "table", ![p].absent = ~ tracking]
  /\ UNCHANGED <<tracking, applied, effects, serving, failed, kills>>

\* ... and creates it: two that both found none cannot both create it.
CreateTracking(p) ==
  /\ session[p].step = "table"
  /\ \/ /\ session[p].absent /\ tracking
        /\ GiveUp(p)
        /\ UNCHANGED tracking
     \/ /\ ~ session[p].absent \/ ~ tracking
        /\ tracking' = TRUE
        /\ session' = [session EXCEPT ![p].step = "check", ![p].at = 1]
        /\ UNCHANGED <<advisory, failed>>
  /\ UNCHANGED <<applied, effects, serving, kills>>

\* Mutant: the loop does not end with the last migration.
CheckOn(p) ==
  /\ session[p].step = "check"
  /\ IF session[p].at \in applied THEN session' = [session EXCEPT ![p].at = @ + 1]
                                 ELSE Goto(p, "run")
  /\ UNCHANGED <<tracking, applied, effects, advisory, serving, failed, kills>>

\* migrationApplied, for the next migration of this Pod's release.
Check(p) ==
  /\ session[p].step = "check" /\ session[p].at <= Brings[p]
  /\ IF session[p].at \in applied THEN session' = [session EXCEPT ![p].at = @ + 1]
                                 ELSE Goto(p, "run")
  /\ UNCHANGED <<tracking, applied, effects, advisory, serving, failed, kills>>

\* runMigration executes the statements inside its transaction ...
Run(p) ==
  /\ session[p].step = "run"
  /\ Goto(p, "commit")
  /\ UNCHANGED <<tracking, applied, effects, advisory, serving, failed, kills>>

\* ... and commits them with the version; a version already there is refused by
\* the primary key and takes the statements back.
Commit(p) ==
  LET m == session[p].at
  IN  /\ session[p].step = "commit"
      /\ \/ /\ m \in applied
            /\ GiveUp(p)
            /\ UNCHANGED <<applied, effects>>
         \/ /\ m \notin applied
            /\ applied' = applied \cup {m}
            /\ effects' = [effects EXCEPT ![m] = @ + 1]
            /\ session' = [session EXCEPT ![p].step = "check", ![p].at = m + 1]
            /\ UNCHANGED <<advisory, failed>>
      /\ UNCHANGED <<tracking, serving, kills>>

\* Every migration of the release is there: unlock and serve.
Serve(p) ==
  /\ session[p].step = "check" /\ session[p].at > Brings[p]
  /\ serving' = serving \cup {p}
  /\ session' = [session EXCEPT ![p] = Off]
  /\ Unlock(p)
  /\ UNCHANGED <<tracking, applied, effects, failed, kills>>

\* A Pod is killed, and started again some time later.
Kill(p) ==
  /\ kills < MaxKills /\ (session[p] # Off \/ p \in serving)
  /\ kills' = kills + 1
  /\ session' = [session EXCEPT ![p] = Off]
  /\ serving' = serving \ {p}
  /\ Unlock(p)
  /\ UNCHANGED <<tracking, applied, effects, failed>>

\* openPostgres gives a Pod a minute to wait for the lock and to migrate: it exits
\* without serving, what it has not committed is rolled back, and it is started again.
\* A Pod that waits for another's lock has done nothing yet.
Expire(p) ==
  /\ kills < MaxKills /\ p \notin serving \cup failed
  /\ session[p] # Off \/ advisory # Absent
  /\ kills' = kills + 1
  /\ session' = [session EXCEPT ![p] = Off]
  /\ Unlock(p)
  /\ UNCHANGED <<tracking, applied, effects, serving, failed>>

Next == \E p \in Pod :
          \/ Lock(p) \/ CreateTracking(p) \/ Check(p) \/ Run(p) \/ Commit(p)
          \/ Serve(p) \/ Kill(p) \/ Expire(p)

Spec == Init /\ [][Next]_schemaVars
-----------------------------------------------------------------------------
\* Pods that start together do not make each other's statements fail (applyMigrations
\* takes the lock before anything touches the schema); that a Pod waits longer than
\* its minute for another one is not excluded.
NobodyFails == failed = {}

\* Each migration took effect exactly once, in the order of the versions, and a
\* Pod serves only when all migrations of its release did.
MigratedOnce ==
  /\ \A m \in Migration : effects[m] = IF m \in applied THEN 1 ELSE 0
  /\ \A m \in applied : 1 .. m \subseteq applied
  /\ \A p \in serving : 1 .. Brings[p] \subseteq applied

\* However many Pods start (applyMigrations), the schema is migrated, once.
SchemaSafe == NobodyFails /\ MigratedOnce
=============================================================================
