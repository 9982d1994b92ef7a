------------------------------- MODULE Startup -------------------------------
(***************************************************************************)
(* How one Server Pod comes to its database: the master key and the sealed   *)
(* file bootstrap.enc of its state directory (bootstrap/store.go), the order *)
(* of cmd/invenqor-server/main.go, the choice between PostgreSQL and SQLite  *)
(* (storage/runtime.go), and administrators who save another connection      *)
(* while it serves (httpapi/postgres_settings.go).  The Pod can die between  *)
(* any two steps and is started again; a write of a file can fail before or  *)
(* after the rename that makes it visible.                                   *)
(***************************************************************************)
EXTENDS Naturals
CONSTANTS
  Dsn,          \* connections to PostgreSQL
  Nowhere,      \* no connection configured
  Change,       \* administrators' requests to save a connection
  MaxKeys       \* bound: master keys ever generated (the model numbers them)
VARIABLES
  environment,  \* INVENQOR_POSTGRES_DSN of the deployment
  reachable,    \* the connections that answer
  keyFile,      \* master.key, 0: there is none
  sealed,       \* bootstrap.enc: the key it is sealed with, 0: no file, and what it holds
  server,       \* the Server process
  change,       \* the requests under way
  chosen,       \* history: the connection of the last start that kept it, or acknowledged save
  keys          \* master keys generated so far

startVars == <<environment, reachable, keyFile, sealed, server, change, chosen, keys>>

Connections == Dsn \cup {Nowhere}
\* bootstrap.Values: the connection, and the Keycloak secret an old release kept.
Values == [dsn : Connections, secret : BOOLEAN]
Empty == [dsn |-> Nowhere, secret |-> FALSE]
Off == [step |-> "off", key |-> 0, dsn |-> Nowhere, told |-> Nowhere]
Waiting == [step |-> "rest", dsn |-> Nowhere, read |-> Empty]

TypeOK ==
  /\ environment \in Connections /\ reachable \subseteq Dsn
  /\ keyFile \in 0 .. MaxKeys /\ keys \in 0 .. MaxKeys
  /\ sealed \in [key : 0 .. MaxKeys, values : Values]
  /\ server \in [step : {"off", "keyed", "loaded", "seeded", "postgres", "sqlite"},
                 key : 0 .. MaxKeys, dsn : Connections, told : Connections]
  /\ change \in [Change -> [step : {"rest", "tested", "read"}, dsn : Connections, read : Values]]
  /\ chosen \in Connections

\* An empty state directory, or one of a release that kept the Keycloak secret.
Init ==
  /\ environment \in Connections /\ reachable \in SUBSET Dsn
  /\ \/ keyFile = 0 /\ sealed = [key |-> 0, values |-> Empty]
     \/ keyFile = 1 /\ sealed \in [key : {1}, values : [dsn : Connections, secret : {TRUE}]]
  /\ keys = keyFile
  /\ server = Off
  /\ change = [c \in Change |-> Waiting]
  /\ chosen = sealed.values.dsn

Serving == server.step \in {"postgres", "sqlite"}
Exit == server' = Off /\ change' = [c \in Change |-> Waiting]
-----------------------------------------------------------------------------
\* atomicWrite: the file is the new one, or the write failed, before the rename
\* that makes it visible or after it.
Write(old, new) ==
  [file : {new}, failed : BOOLEAN] \cup {[file |-> old, failed |-> TRUE]}

\* Save: values are sealed with the key of the process, ...
Seal(values) == [key |-> server.key, values |-> values]
\* Load: ... and only that key opens them; no file is no values.
Opens == sealed.key \in {0, server.key}

\* OpenWithKey: the key of the directory, or of the deployment.
OpenWithKey ==
  /\ server = Off /\ keyFile # 0
  /\ server' = [Off EXCEPT !.step = "keyed", !.key = keyFile]
  /\ UNCHANGED <<environment, reachable, keyFile, sealed, change, chosen, keys>>

\* loadOrCreateKey: a new key is stored before anything is sealed with it.
CreateKey ==
  /\ server = Off /\ keyFile = 0 /\ keys < MaxKeys
  /\ keys' = keys + 1
  /\ \E w \in Write(0, keys + 1) :
       /\ keyFile' = w.file
       /\ server' = IF w.failed THEN Off ELSE [Off EXCEPT !.step = "keyed", !.key = keys + 1]
  /\ UNCHANGED <<environment, reachable, sealed, change, chosen>>

\* run: the sealed values are loaded; the environment goes before them.
Load ==
  /\ server.step = "keyed"
  /\ server' = IF ~ Opens THEN Off
               ELSE [server EXCEPT
                 !.step = "loaded",
                 !.dsn = IF environment # Nowhere THEN environment ELSE sealed.values.dsn,
                 !.told = IF environment # Nowhere THEN environment ELSE chosen]
  /\ UNCHANGED <<environment, reachable, keyFile, sealed, change, chosen, keys>>

\* run: the first start keeps the connection it was started with.
Seed ==
  /\ server.step = "loaded"
  /\ IF sealed.key # 0
     THEN server' = [server EXCEPT !.step = "seeded"] /\ UNCHANGED <<sealed, chosen>>
     ELSE \E w \in Write(sealed, Seal([Empty EXCEPT !.dsn = server.dsn])) :
            /\ sealed' = w.file
            /\ chosen' = w.file.values.dsn
            /\ server' = IF w.failed THEN Off ELSE [server EXCEPT !.step = "seeded"]
  /\ UNCHANGED <<environment, reachable, keyFile, change, keys>>

\* A configured PostgreSQL is connected to and migrated, or the start fails, ...
OpenPostgres ==
  /\ server.step = "seeded" /\ server.dsn # Nowhere
  /\ \/ server.dsn \in reachable /\ server' = [server EXCEPT !.step = "postgres"]
     \/ server' = Off
  /\ UNCHANGED <<environment, reachable, keyFile, sealed, change, chosen, keys>>

\* ... and SQLite is only for a Server that was given none.
OpenSQLite ==
  /\ server.step = "seeded" /\ server.dsn = Nowhere
  /\ server' \in {[server EXCEPT !.step = "sqlite"], Off}
  /\ UNCHANGED <<environment, reachable, keyFile, sealed, change, chosen, keys>>

\* The Pod is killed or stopped; it can be started again at once.
Kill ==
  /\ server # Off
  /\ Exit
  /\ UNCHANGED <<environment, reachable, keyFile, sealed, chosen, keys>>

\* The operator deploys with another environment: the Pod is replaced.
Deploy(d) ==
  /\ environment' = d
  /\ Exit
  /\ UNCHANGED <<reachable, keyFile, sealed, chosen, keys>>

NetworkChanges(d) ==
  /\ reachable' = IF d \in reachable THEN reachable \ {d} ELSE reachable \cup {d}
  /\ UNCHANGED <<environment, keyFile, sealed, server, change, chosen, keys>>
-----------------------------------------------------------------------------
\* updatePostgresSettings: the connection must answer, ...
CheckPostgres(c, d) ==
  /\ Serving /\ change[c] = Waiting
  /\ d \in reachable
  /\ change' = [change EXCEPT ![c] = [Waiting EXCEPT !.step = "tested", !.dsn = d]]
  /\ UNCHANGED <<environment, reachable, keyFile, sealed, server, chosen, keys>>

\* ... the sealed values are loaded, ...
LoadValues(c) ==
  /\ change[c].step = "tested"
  /\ Opens
  /\ change' = [change EXCEPT ![c].step = "read", ![c].read = sealed.values]
  /\ UNCHANGED <<environment, reachable, keyFile, sealed, server, chosen, keys>>

\* Mutant: the values are written anew from the request.
SaveRequest(c) ==
  /\ change[c].step = "read"
  /\ sealed' = Seal([Empty EXCEPT !.dsn = change[c].dsn])
  /\ chosen' = change[c].dsn
  /\ change' = [change EXCEPT ![c] = Waiting]
  /\ UNCHANGED <<environment, reachable, keyFile, server, keys>>

\* ... and written back with the new connection, in force after the next start.
\* A failure is answered with 500; the file may be the new one all the same.
SaveValues(c) ==
  /\ change[c].step = "read"
  /\ \E w \in Write(sealed, Seal([change[c].read EXCEPT !.dsn = change[c].dsn])) :
       /\ sealed' = w.file
       /\ chosen' = IF w.failed THEN chosen ELSE change[c].dsn
  /\ change' = [change EXCEPT ![c] = Waiting]
  /\ UNCHANGED <<environment, reachable, keyFile, server, keys>>

Next ==
  \/ OpenWithKey \/ CreateKey \/ Load \/ Seed \/ OpenPostgres \/ OpenSQLite \/ Kill
  \/ \E d \in Connections : Deploy(d)
  \/ \E d \in Dsn : NetworkChanges(d)
  \/ \E c \in Change : LoadValues(c) \/ SaveValues(c) \/ \E d \in Dsn : CheckPostgres(c, d)

Spec == Init /\ [][Next]_startVars
-----------------------------------------------------------------------------
\* Whatever the moment of a crash or of a failed write, the Pod's next start can
\* open what its earlier starts sealed (loadOrCreateKey stores the key first).
SealedOpens == sealed.key \in {0, keyFile}

\* "Falling through to a fresh Pod-local SQLite database makes a broken production
\* Pod look ready" (storage/runtime.go:96): a Server that had been told of a
\* PostgreSQL, by its environment, an earlier start or an administrator, never
\* serves the data of its own file.
NoUnrelatedData == server.step = "sqlite" => server.told = Nowhere

\* Two administrators who save a connection at once do not cost the Pod the
\* Keycloak secret that only its sealed file may still hold (updatePostgresSettings).
LegacySecretKept == [][sealed.values.secret => sealed'.values.secret]_startVars

\* A Pod that died anywhere starts again, on the database it was told of, with what
\* it had (cmd/invenqor-server/main.go, bootstrap/store.go, storage/runtime.go).
StartSafe ==
  /\ [](SealedOpens /\ NoUnrelatedData)
  /\ LegacySecretKept
=============================================================================
