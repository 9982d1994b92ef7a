---------------------------- MODULE LegacyPackages ----------------------------
(***************************************************************************)
(* The Agents of v0.2.15 name a package by a longer identity.  Before it    *)
(* applies an event, the Server lets the record that describes the same     *)
(* package adopt the old source and with it the asset, which persons may    *)
(* have edited (migrateLegacyPackageSources, ingest/service.go).  One old   *)
(* source, the records whose new identities shorten to it, and events of    *)
(* the Agent that run at the same time or out of order.                     *)
(***************************************************************************)
EXTENDS Naturals, FiniteSets

CONSTANTS
  Package,    \* the new identities that shorten to the old one
  Migration,  \* transactions that may be open at once
  MaxCarried  \* bound: the events

VARIABLES
  twins,    \* the packages whose payload agrees with the old source's
  adopted,  \* who names the old source: "old" or the package that adopted it
  fresh,    \* the packages with a source and an asset of their own
  retired,  \* the old asset was removed
  migration,\* Migration -> its records, and what it read
  carried,  \* how many events began
  first     \* history: the packages of the first event that had any

legacyVars == <<twins, adopted, fresh, retired, migration, carried, first>>

Old == "old"
NoMigration == [at |-> "idle", records |-> {}, removes |-> FALSE, target |-> Old]

TypeOK ==
  /\ twins \subseteq Package /\ fresh \subseteq Package /\ first \subseteq Package
  /\ adopted \in Package \cup {Old} /\ retired \in BOOLEAN
  /\ migration \in [Migration -> [at : {"idle", "begun", "matched", "moved"},
       records : SUBSET Package, removes : BOOLEAN, target : Package \cup {Old}]]
  /\ carried \in 0..MaxCarried

Init ==
  /\ twins \in SUBSET Package
  /\ adopted = Old /\ fresh = {} /\ retired = FALSE /\ carried = 0 /\ first = {}
  /\ migration = [m \in Migration |-> NoMigration]

Known(p) == p \in fresh \/ adopted = p

\* Process: an event of an upgraded Agent; the one that replaces the old identity
\* removes it and adds all the new ones.
Begin(m, records, removes) ==
  /\ migration[m].at = "idle" /\ carried < MaxCarried
  /\ records # {} /\ (removes => records = Package)
  /\ carried' = carried + 1
  /\ migration' = [migration EXCEPT ![m] =
       [at |-> "begun", records |-> records, removes |-> removes, target |-> Old]]
  /\ UNCHANGED <<twins, adopted, fresh, retired, first>>

\* migrateLegacyPackageSource: exactly one record has to agree.
Match(records) ==
  IF \E p \in records : records \cap twins = {p}
  THEN CHOOSE p \in records : records \cap twins = {p} ELSE Old

\* migrateLegacyPackageSource: none of the records has a source yet, and there is
\* an old one.
Find(m) ==
  LET records == migration[m].records IN
  /\ migration[m].at = "begun"
  /\ migration' = [migration EXCEPT ![m].at = "matched", ![m].target =
       IF (\A p \in records : ~Known(p)) /\ adopted = Old THEN Match(records) ELSE Old]
  /\ UNCHANGED <<twins, adopted, fresh, retired, carried, first>>

\* migrateLegacyPackageSource: the key of the asset and the name of the source
\* change; a transaction that finds them changed, having waited for another one,
\* fails.
Adopt(m) ==
  /\ migration[m].at = "matched"
  /\ migration[m].target # Old =>
       \A o \in Migration : ~(migration[o].at = "moved" /\ migration[o].target # Old)
  /\ migration' = [migration EXCEPT ![m] =
       IF @.target # Old /\ (adopted # Old \/ @.target \in fresh) THEN NoMigration
       ELSE [@ EXCEPT !.at = "moved"]]
  /\ UNCHANGED <<twins, adopted, fresh, retired, carried, first>>

\* upsertRecord and removeRecord: a record without a source gets one and an asset;
\* the removal finds the old source only if nobody adopted it.  The INSERT of a name
\* that another transaction is giving to the old source waits for it.  Commit.
Commit(m) ==
  LET t == migration[m] IN
  /\ t.at = "moved"
  /\ \A o \in Migration \ {m} : migration[o].at = "moved" => migration[o].target \notin t.records
  /\ adopted' = IF t.target # Old THEN t.target ELSE adopted
  /\ fresh' = fresh \cup {p \in t.records : adopted' # p}
  /\ retired' = (retired \/ (t.removes /\ adopted' = Old))
  /\ first' = IF first = {} THEN t.records ELSE first
  /\ migration' = [migration EXCEPT ![m] = NoMigration]
  /\ UNCHANGED <<twins, carried>>

\* failEvent: rolled back; the event comes again.
GiveUp(m) ==
  /\ migration[m].at # "idle"
  /\ migration' = [migration EXCEPT ![m] = NoMigration]
  /\ UNCHANGED <<twins, adopted, fresh, retired, carried, first>>

Next ==
  \E m \in Migration :
    \/ \E records \in SUBSET Package, removes \in BOOLEAN : Begin(m, records, removes)
    \/ Find(m) \/ Adopt(m) \/ Commit(m) \/ GiveUp(m)
-----------------------------------------------------------------------------
\* The old asset is only ever adopted by a record that describes the same package,
\* and no package gets a second asset (legacyPackageIdentity and the guards of
\* migrateLegacyPackageSource).
AdoptedByTwin == adopted # Old => adopted \in twins \ fresh

\* If the upgrade's whole event comes first and one package is the old one, its
\* asset is kept, whatever else is processed at the same time (the comment in
\* Process on the order of migration and delta).
TwinKeepsAsset ==
  \A p \in Package : (first = Package /\ twins = {p}) => adopted = p /\ ~retired
=============================================================================
