------------------------------ MODULE MCAssets ------------------------------
(***************************************************************************)
(* What ingestion and persons do to the inventory beyond the sources of one *)
(* Agent (module Inventory).  The parts share no state of these models, so  *)
(* one run checks them next to each other: Init picks the part that moves,  *)
(* and the others stay as they start.                                       *)
(***************************************************************************)
EXTENDS Naturals
CONSTANTS
  Part,
  Asset, Source, Event, Request, Fresh, MaxOrder, MaxActs,
  Value, Default, Unset, Pass, Editor, MaxEdits,
  Reader, Replayer, Ttl, MaxRules, MaxAge,
  Inference, MaxDecided,
  Agent, Evidence, Work, Version, MaxWork, MaxMerges,
  Package, Migration, MaxCarried,
  Enrollment, HostEvent, SystemId, HostAsset
VARIABLES
  part,
  asset, source, event, request, placed, handled, acts,
  row, holder, pass, editor, edits, person,
  table, edited, cached, reader, ruleNow,
  relation, present, inference, ruled, reviews,
  evidence, product, projection, marker, work, began, merged, refused, repeated,
  twins, adopted, fresh, retired, migration, carried, first,
  known, host, origin, enrollment, arrival, enrolledFirst

\* There is an asset for every source besides the one that only a split creates; the
\* marks of the models are no members of the sets; versions and bounds are numbers.
ASSUME AssetsAssumption ==
  /\ Source # {} /\ Fresh \in Asset /\ MaxOrder \in Nat /\ MaxActs \in Nat
  /\ \E f \in [Source -> Asset \ {Fresh}] : \A s, t \in Source : s # t => f[s] # f[t]
ASSUME ClassesAssumption == Default \in Value /\ "free" \notin Pass /\ MaxEdits \in Nat
ASSUME CacheAssumption   == MaxRules \in Nat \ {0} /\ MaxAge \in Nat /\ Ttl \in Nat
ASSUME LinksAssumption   == MaxDecided \in Nat
ASSUME ProductAssumption == Agent # {} /\ 0 \notin Version /\ MaxWork \in Nat
ASSUME LegacyAssumption  == "old" \notin Package /\ MaxCarried \in Nat
ASSUME HostsAssumption ==
  /\ HostAsset # {} /\ "none" \notin HostAsset
  /\ SystemId # {} /\ "enrollment" \notin SystemId

\* Every rule set: a value or nothing for each field.
AnyRules == [{"environment", "criticality"} -> {Unset} \cup Value]

Assets  == INSTANCE Representatives
Classes == INSTANCE Classification WITH Rules <- AnyRules
Cache   == INSTANCE RuleCache
Links   == INSTANCE Relations
Product == INSTANCE Catalog
Legacy  == INSTANCE LegacyPackages
Hosts   == INSTANCE EnrolledHost

ofAssets  == <<asset, source, event, request, placed, handled, acts>>
ofClasses == <<row, holder, pass, editor, edits, person>>
ofCache   == <<table, edited, cached, reader, ruleNow>>
ofLinks   == <<relation, present, inference, ruled, reviews>>
ofProduct == <<evidence, product, projection, marker, work, began, merged, refused,
               repeated>>
ofLegacy  == <<twins, adopted, fresh, retired, migration, carried, first>>
ofHosts   == <<known, host, origin, enrollment, arrival, enrolledFirst>>
vars == <<part, ofAssets, ofClasses, ofCache, ofLinks, ofProduct, ofLegacy, ofHosts>>

Init ==
  /\ part \in Part
  /\ Assets!Init /\ Classes!Init /\ Cache!Init /\ Links!Init
  /\ Product!Init /\ Legacy!Init /\ Hosts!Init
  /\ part # "classes" => row.kind = "component"
  /\ part # "legacy"  => twins = {}
  /\ part # "hosts"   => enrolledFirst

Next ==
  \/ /\ part = "assets" /\ Assets!Next
     /\ UNCHANGED <<part, ofClasses, ofCache, ofLinks, ofProduct, ofLegacy, ofHosts>>
  \/ /\ part = "classes" /\ Classes!Next
     /\ UNCHANGED <<part, ofAssets, ofCache, ofLinks, ofProduct, ofLegacy, ofHosts>>
  \/ /\ part = "cache" /\ Cache!Next
     /\ UNCHANGED <<part, ofAssets, ofClasses, ofLinks, ofProduct, ofLegacy, ofHosts>>
  \/ /\ part = "links" /\ Links!Next
     /\ UNCHANGED <<part, ofAssets, ofClasses, ofCache, ofProduct, ofLegacy, ofHosts>>
  \/ /\ part = "product" /\ Product!Next
     /\ UNCHANGED <<part, ofAssets, ofClasses, ofCache, ofLinks, ofLegacy, ofHosts>>
  \/ /\ part = "legacy" /\ Legacy!Next
     /\ UNCHANGED <<part, ofAssets, ofClasses, ofCache, ofLinks, ofProduct, ofHosts>>
  \/ /\ part = "hosts" /\ Hosts!Next
     /\ UNCHANGED <<part, ofAssets, ofClasses, ofCache, ofLinks, ofProduct, ofLegacy>>

Spec == Init /\ [][Next]_vars
-----------------------------------------------------------------------------
\* The type invariants of all parts (ingest/service.go, assets.go, classify,
\* softwarecatalog).
TypeOK ==
  /\ Assets!TypeOK /\ Classes!TypeOK /\ Cache!TypeOK /\ Links!TypeOK
  /\ Product!TypeOK /\ Legacy!TypeOK /\ Hosts!TypeOK

\* One asset for a host and for a package, whatever identities they come with: an
\* enrollment's asset is the inventory's, an old package is adopted by its twin
\* (ensureEnrollmentAsset, upsertRecord, migrateLegacyPackageSources).
IdentitySafe ==
  /\ Hosts!OneHostAsset /\ Hosts!InventoryNames
  /\ Legacy!AdoptedByTwin /\ Legacy!TwinKeepsAsset

\* Rules: an edit of the rules is seen, and no event takes a person's field back
\* (classify/store.go, classifyRecord).
ClassesSafe ==
  /\ []Cache!EditsSeen
  /\ [][Classes!EventKeepsClaims]_vars

\* The properties of the other parts, as their modules state them (ingest/service.go,
\* classify/relate.go, softwarecatalog/reconcile.go).
RepresentativesSafe == Assets!RepresentativesSafe
RelationsSafe == Links!RelationsSafe
ProductsSafe == Product!ProductsSafe

\* What a person sets a field to stays (docs/SERVER_INSTALLATION.md:1096); the
\* reconciliation of products does not keep it (softwarecatalog/reconcile.go:251).
ManualStays == Classes!ManualStays

\* Every inventory recomputes the products (docs/SERVER_INSTALLATION.md:1167); after a
\* merge of two product assets it fails (softwarecatalog/reconcile.go:328).
EveryInventoryRecomputes == Product!EveryInventoryRecomputes
=============================================================================
