------------------------------- MODULE Catalog -------------------------------
(***************************************************************************)
(* The software products of the hosts (softwarecatalog): every inventory    *)
(* event rebuilds its host's product view from the active evidence in its   *)
(* own transaction, a heartbeat only if the catalogue of the Pod was not    *)
(* applied yet.  software_product_inventory is a projection for the lists.  *)
(*                                                                          *)
(* One product; a host shows it while any evidence of it is active, and     *)
(* what the view says of it is the evidence it was built from.  Events of   *)
(* one Agent may run at the same time, in Pods of two releases.             *)
(***************************************************************************)
EXTENDS Naturals, FiniteSets

CONSTANTS
  Agent,      \* the hosts; the asset of a host's product has the host's name
  Evidence,   \* the sources that show the product on a host
  Work,       \* transactions that may be open at once
  Version,    \* the catalogue versions of the Pods, from 1
  MaxWork,    \* bound: the events
  MaxMerges   \* bound: the merges

VARIABLES
  evidence,    \* Agent -> the active evidence
  product,     \* Agent -> its product source: row, asset and the view's evidence
  projection,  \* the rows of software_product_inventory
  marker,      \* Agent -> catalog_version of software_catalog_reconciliations, or 0
  work,        \* Work -> what it holds and read
  began,       \* how many events began
  merged,      \* history: the hosts whose product was merged
  refused,     \* history: a reconciliation failed on a constraint
  repeated     \* history: a heartbeat rebuilt what its catalogue had built

catalogVars == <<evidence, product, projection, marker, work, began, merged,
                 refused, repeated>>

Someone == CHOOSE g \in Agent : TRUE
NoWork == [at |-> "idle", agent |-> Someone, heartbeat |-> FALSE, version |-> 0,
           change |-> {}, seen |-> {}, asset |-> Someone]

TypeOK ==
  /\ evidence \in [Agent -> SUBSET Evidence]
  /\ product \in [Agent -> [row : {"none", "live", "retired"}, asset : Agent,
                            view : SUBSET Evidence]]
  /\ projection \subseteq [asset : Agent, agent : Agent]
  /\ marker \in [Agent -> {0} \cup Version]
  /\ work \in [Work -> [at : {"idle", "applied", "reserved", "loaded"}, agent : Agent,
       heartbeat : BOOLEAN, version : {0} \cup Version, change : SUBSET Evidence,
       seen : SUBSET Evidence, asset : Agent]]
  /\ began \in 0..MaxWork /\ merged \subseteq Agent
  /\ refused \in BOOLEAN /\ repeated \in BOOLEAN

Init ==
  /\ evidence = [g \in Agent |-> Evidence]
  /\ product = [g \in Agent |-> [row |-> "none", asset |-> g, view |-> {}]]
  /\ projection = {} /\ marker = [g \in Agent |-> 0]
  /\ work = [w \in Work |-> NoWork] /\ began = 0
  /\ merged = {} /\ refused = FALSE /\ repeated = FALSE

\* detectionBuilder: what is said of the product names all the evidence it is seen
\* in.
Detection(seen) == [evidence |-> seen]

\* Detect: the product, if anything shows it.
Detect(seen) == IF seen = {} THEN {} ELSE {Detection(seen)}

Open(g)     == {w \in Work : work[w].at # "idle" /\ work[w].agent = g}
Toggled(S, T) == (S \ T) \cup (T \ S)

\* Process: an inventory event upserts and removes sources, which it holds until it
\* commits; a heartbeat has none.
Apply(w, g, heartbeat, version, change) ==
  /\ work[w].at = "idle" /\ began < MaxWork
  /\ heartbeat <=> change = {}
  /\ \A o \in Open(g) : work[o].change \cap change = {}
  /\ work' = [work EXCEPT ![w] = [NoWork EXCEPT !.at = "applied", !.agent = g,
                !.heartbeat = heartbeat, !.version = version, !.change = change]]
  /\ began' = began + 1
  /\ UNCHANGED <<evidence, product, projection, marker, merged, refused, repeated>>

\* Mutant: the marker is read without being reserved.
ReserveNothing(w) ==
  /\ work[w].at = "applied"
  /\ work' = [work EXCEPT ![w] =
       IF @.heartbeat /\ marker[@.agent] = @.version THEN NoWork
       ELSE [@ EXCEPT !.at = "reserved"]]
  /\ UNCHANGED <<evidence, product, projection, marker, began, merged, refused, repeated>>

\* ReconciliationRequired: the Agent's marker row is written, so that another event
\* of the Agent waits here; then it is read.  A heartbeat with nothing to do ends.
Reserve(w) ==
  /\ work[w].at = "applied"
  /\ \A o \in Open(work[w].agent) : work[o].at \notin {"reserved", "loaded"}
  /\ work' = [work EXCEPT ![w] =
       IF @.heartbeat /\ marker[@.agent] = @.version THEN NoWork
       ELSE [@ EXCEPT !.at = "reserved"]]
  /\ UNCHANGED <<evidence, product, projection, marker, began, merged, refused, repeated>>

\* loadObservations and loadExisting: what is committed, and the event's own changes.
Load(w) ==
  LET g == work[w].agent IN
  /\ work[w].at = "reserved"
  /\ work' = [work EXCEPT ![w].at = "loaded", ![w].asset = product[g].asset,
                ![w].seen = Toggled(evidence[g], work[w].change)]
  /\ UNCHANGED <<evidence, product, projection, marker, began, merged, refused, repeated>>

\* upsertInventoryProjection: the host's row, or a new one, names the asset; the
\* asset is the primary key.
ProjectionTaken(g, a) == \E r \in projection : r.asset = a /\ r.agent # g
Projected(g, a) == {r \in projection : r.agent # g} \cup {[asset |-> a, agent |-> g]}

\* retireDetection: the rows of the asset are deleted from the projection.
RetiredProjection(a) == {r \in projection : r.asset # a}

\* recordReconciliation and the commit.
Commit(w) ==
  LET t == work[w] g == work[w].agent IN
  /\ evidence' = [evidence EXCEPT ![g] = Toggled(@, t.change)]
  /\ marker' = [marker EXCEPT ![g] = t.version]
  /\ repeated' = (repeated \/ (t.heartbeat /\ marker[g] = t.version))
  /\ work' = [work EXCEPT ![w] = NoWork]
  /\ UNCHANGED <<began, merged, refused>>

\* Reconcile: the product is detected; its source and asset are inserted or
\* refreshed (upsertDetection).
Detected(w) ==
  LET t == work[w] g == work[w].agent IN
  /\ t.at = "loaded" /\ ~ProjectionTaken(g, t.asset)
  /\ \E d \in Detect(t.seen) :
       product' = [product EXCEPT ![g].row = "live", ![g].view = d.evidence]
  /\ projection' = Projected(g, t.asset)
  /\ Commit(w)

\* Reconcile: nothing shows the product any more (retireDetection).
Undetected(w) ==
  LET t == work[w] g == work[w].agent IN
  /\ t.at = "loaded" /\ Detect(t.seen) = {}
  /\ product' = [product EXCEPT ![g].view = {},
                   ![g].row = IF @ = "live" THEN "retired" ELSE @]
  /\ projection' = IF product[g].row = "live" THEN RetiredProjection(t.asset)
                   ELSE projection
  /\ Commit(w)

\* failEvent: the projection refused the asset, and everything is rolled back.
Refused(w) ==
  /\ work[w].at = "loaded" /\ Detect(work[w].seen) # {}
  /\ ProjectionTaken(work[w].agent, work[w].asset)
  /\ refused' = TRUE
  /\ work' = [work EXCEPT ![w] = NoWork]
  /\ UNCHANGED <<evidence, product, projection, marker, began, merged, repeated>>

\* failEvent: any other error.
Rollback(w) ==
  /\ work[w].at # "idle"
  /\ work' = [work EXCEPT ![w] = NoWork]
  /\ UNCHANGED <<evidence, product, projection, marker, began, merged, refused, repeated>>

\* mergeAssets: a person declares the products of two hosts to be one asset; the
\* projection is not told.
Merge(g, h) ==
  /\ Cardinality(merged) < 2 * MaxMerges
  /\ g # h /\ product[g].row # "none" /\ product[h].row # "none"
  /\ product' = [a \in Agent |-> IF product[a].asset = h
                  THEN [product[a] EXCEPT !.asset = g] ELSE product[a]]
  /\ merged' = merged \cup {g, h}
  /\ UNCHANGED <<evidence, projection, marker, work, began, refused, repeated>>

Next ==
  \/ \E w \in Work, g \in Agent, heartbeat \in BOOLEAN, version \in Version,
        change \in SUBSET Evidence : Apply(w, g, heartbeat, version, change)
  \/ \E w \in Work : \/ Reserve(w) \/ Load(w) \/ Detected(w) \/ Undetected(w)
                     \/ Refused(w) \/ Rollback(w)
  \/ \E g, h \in Agent : Merge(g, h)
-----------------------------------------------------------------------------
\* Whoever reads the product of a host reads what its active evidence shows: no two
\* events of the host, on any two Pods, leave a removed process running in the view
\* (the comment on Reconcile).
ViewIsCurrent == \A g \in Agent : marker[g] # 0 => product[g].view = evidence[g]

\* A heartbeat rebuilds the view once for each catalogue, however many Pods take
\* heartbeats at that moment (ReconciliationRequired).
BackfillOnce == ~repeated

\* The lists show a product exactly while it is detected, unless a person merged it.
ProjectionAgrees ==
  \A g \in Agent \ merged :
    (\E r \in projection : r.agent = g) <=> product[g].row = "live"

\* Every inventory event recomputes the products
\* (docs/SERVER_INSTALLATION.md:1167 and server/migrations/postgres/006_software_product_inventory.sql:44).
EveryInventoryRecomputes == ~refused

\* The three places that say what a host runs agree: evidence, view and projection
\* (softwarecatalog/reconcile.go).
ProductsSafe == ViewIsCurrent /\ BackfillOnce /\ ProjectionAgrees
=============================================================================
