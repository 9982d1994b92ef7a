----------------------------- MODULE EnrolledHost -----------------------------
(***************************************************************************)
(* One host, one asset.  An automatic enrollment gives the host an asset     *)
(* before anything is known of it (AutoEnroll and ensureEnrollmentAsset,     *)
(* agents/service.go); the first system record of its inventory takes that   *)
(* asset over (upsertRecord, ingest/service.go).  Enrollments of the Agent   *)
(* may be repeated at any time, its events may be processed by several Pods. *)
(*                                                                          *)
(* The transactions run at READ COMMITTED: what one reads may be old when it *)
(* writes.  A write waits for the transaction that holds the row and looks   *)
(* at it again; here it is one step with the commit.  Only the row of agents *)
(* is held earlier, by an enrollment.                                        *)
(***************************************************************************)
EXTENDS Naturals, FiniteSets
CONSTANTS
  Enrollment,  \* transactions of AutoEnroll that may be open at once
  HostEvent,   \* transactions of ingestion that may be open at once
  SystemId,    \* identities a system record of this host may have
  HostAsset,   \* the assets there may ever be
  MaxAge       \* bound: the order of the events of this Agent
VARIABLES
  known,       \* the agents row exists
  host,        \* HostAsset -> its row
  origin,      \* the sources of the host: "enrollment" and the system records
  enrollment,  \* Enrollment -> what it read
  arrival,     \* HostEvent -> what it read
  enrolledFirst \* whether the Agent's first contact was an enrollment

hostVars == <<known, host, origin, enrollment, arrival, enrolledFirst>>

Key      == {"enrollment"} \cup SystemId
NoHost   == "none"
NoSource == [asset |-> NoHost, live |-> FALSE, order |-> 0]
Resting  == [step |-> "rest", known |-> FALSE, asset |-> NoHost, new |-> FALSE]
NoRecord == [step |-> "rest", kind |-> "upsert", id |-> CHOOSE i \in SystemId : TRUE,
             order |-> 0, new |-> FALSE, asset |-> NoHost]

TypeOK ==
  /\ known \in BOOLEAN /\ enrolledFirst \in BOOLEAN
  /\ host \in [HostAsset -> [status : {"none", "discovered", "active", "removed"},
                             named : {"none", "enrollment", "record"}]]
  /\ origin \in [Key -> [asset : HostAsset \cup {NoHost}, live : BOOLEAN, order : 0 .. MaxAge]]
  /\ enrollment \in [Enrollment -> [step : {"rest", "known", "find", "write"},
       known : BOOLEAN, asset : HostAsset \cup {NoHost}, new : BOOLEAN]]
  /\ arrival \in [HostEvent -> [step : {"rest", "find", "write"}, kind : {"upsert", "remove"},
       id : SystemId, order : 0 .. MaxAge, new : BOOLEAN, asset : HostAsset \cup {NoHost}]]

\* The Agent is unknown, or it is one of the time before enrollments had assets: it
\* has reported, and it enrolls again.
Init ==
  /\ enrollment = [e \in Enrollment |-> Resting] /\ arrival = [v \in HostEvent |-> NoRecord]
  /\ \/ /\ enrolledFirst = TRUE /\ known = FALSE
        /\ host = [a \in HostAsset |-> [status |-> "none", named |-> "none"]]
        /\ origin = [k \in Key |-> NoSource]
     \/ LET first == CHOOSE a \in HostAsset : TRUE  i == CHOOSE j \in SystemId : TRUE IN
          /\ enrolledFirst = FALSE /\ known = TRUE
          /\ host = [a \in HostAsset |-> IF a = first
               THEN [status |-> "active", named |-> "record"]
               ELSE [status |-> "none", named |-> "none"]]
          /\ origin = [k \in Key |-> IF k = i
               THEN [asset |-> first, live |-> TRUE, order |-> 0] ELSE NoSource]

Unused(a) == host[a].status = "none"
Exists(k) == origin[k].asset # NoHost

\* A new asset is one that no other transaction is about to create.
Unclaimed == {a \in HostAsset : /\ Unused(a)
                               /\ \A e \in Enrollment : enrollment[e].asset # a
                               /\ \A v \in HostEvent : arrival[v].asset # a}
New(a) == Unclaimed # {} /\ a = CHOOSE b \in Unclaimed : TRUE
-----------------------------------------------------------------------------
\* AutoEnroll: is the Agent known?  (A blocked one, and one with another claim, ends.)
Look(e) ==
  /\ enrollment[e].step = "rest"
  /\ enrollment' = [enrollment EXCEPT ![e] = [Resting EXCEPT !.step = "known", !.known = known]]
  /\ UNCHANGED <<known, host, origin, arrival, enrolledFirst>>

\* Its row is inserted or updated, and held from here on; the loser of two first
\* enrollments fails and is repeated by the Agent.
TakeAgent(e) ==
  /\ enrollment[e].step = "known"
  /\ \A f \in Enrollment : enrollment[f].step \notin {"find", "write"}
  /\ enrollment' = [enrollment EXCEPT ![e] =
       IF known /\ ~@.known THEN Resting ELSE [@ EXCEPT !.step = "find"]]
  /\ UNCHANGED <<known, host, origin, arrival, enrolledFirst>>

\* ensureEnrollmentAsset: the asset of an earlier enrollment, or else the one the
\* inventory has made, or else a new one.
Find(e) ==
  /\ enrollment[e].step = "find"
  /\ \E a \in HostAsset, new \in BOOLEAN :
       /\ IF Exists("enrollment") THEN a = origin["enrollment"].asset /\ new = FALSE
          ELSE IF \E i \in SystemId : origin[i].live
          THEN new = TRUE /\ \E i \in SystemId : origin[i].live /\ a = origin[i].asset
          ELSE new = TRUE /\ New(a)
       /\ enrollment' = [enrollment EXCEPT ![e].step = "write", ![e].asset = a, ![e].new = new]
  /\ UNCHANGED <<known, host, origin, arrival, enrolledFirst>>

Discovered == [status |-> "discovered", named |-> "enrollment"]

\* name = CASE WHEN status = 'discovered' THEN the new one ELSE name END
Refreshed(row) ==
  IF row.status = "discovered" THEN [row EXCEPT !.named = "enrollment"] ELSE row

\* The asset is created, joined as it is, or refreshed, and AutoEnroll commits.
Enroll(e) ==
  LET t == enrollment[e] IN
  /\ t.step = "write"
  /\ known' = TRUE
  /\ origin' = [origin EXCEPT !["enrollment"].asset = t.asset, !["enrollment"].live = TRUE]
  /\ host' = [host EXCEPT ![t.asset] =
       IF ~ t.new THEN Refreshed(@) ELSE IF Unused(t.asset) THEN Discovered ELSE @]
  /\ enrollment' = [enrollment EXCEPT ![e] = Resting]
  /\ UNCHANGED <<arrival, enrolledFirst>>

\* The transaction of an enrollment fails before its commit.
EnrollFails(e) ==
  /\ enrollment[e].step # "rest"
  /\ enrollment' = [enrollment EXCEPT ![e] = Resting]
  /\ UNCHANGED <<known, host, origin, arrival, enrolledFirst>>
-----------------------------------------------------------------------------
\* upsertRecord and removeRecord: the source of a system record is read; an older
\* event, and the removal of what is not there, end here.
Read(v, kind, i, order) ==
  /\ known /\ arrival[v].step = "rest" /\ order > origin[i].order
  /\ kind = "remove" => origin[i].live
  /\ arrival' = [arrival EXCEPT ![v] = [NoRecord EXCEPT !.kind = kind, !.id = i,
       !.order = order, !.new = ~Exists(i), !.asset = origin[i].asset,
       !.step = IF Exists(i) THEN "write" ELSE "find"]]
  /\ UNCHANGED <<known, host, origin, enrollment, enrolledFirst>>

\* Mutant: every new system record gets an asset of its own.
FindNothing(v) ==
  /\ arrival[v].step = "find"
  /\ \E a \in HostAsset :
       /\ New(a)
       /\ arrival' = [arrival EXCEPT ![v].step = "write", ![v].asset = a]
  /\ UNCHANGED <<known, host, origin, enrollment, enrolledFirst>>

\* A new system record takes the asset of the enrollment, or else a new one.
FindEnrollment(v) ==
  /\ arrival[v].step = "find"
  /\ \E a \in HostAsset :
       /\ IF origin["enrollment"].live THEN a = origin["enrollment"].asset ELSE New(a)
       /\ arrival' = [arrival EXCEPT ![v].step = "write", ![v].asset = a]
  /\ UNCHANGED <<known, host, origin, enrollment, enrolledFirst>>

\* The asset shows the record and the source is written, unless a later event has been
\* there; a second insertion of the same source violates its key and fails.  An
\* asset that a later enrollment has touched may stay as it is.
Upsert(v) ==
  LET t == arrival[v]  row == [asset |-> t.asset, live |-> TRUE, order |-> t.order] IN
  /\ t.step = "write" /\ t.kind = "upsert"
  /\ \/ /\ t.new /\ ~Exists(t.id)
        /\ origin' = [origin EXCEPT ![t.id] = row]
        /\ host' = [host EXCEPT ![t.asset] = [status |-> "active", named |-> "record"]]
     \/ /\ ~t.new /\ origin[t.id].order < t.order
        /\ origin' = [origin EXCEPT ![t.id].live = TRUE, ![t.id].order = t.order]
        /\ \/ host' = [host EXCEPT ![t.asset] = [status |-> "active", named |-> "record"]]
           \/ Exists("enrollment") /\ UNCHANGED host
     \/ /\ IF t.new THEN Exists(t.id) ELSE origin[t.id].order >= t.order
        /\ UNCHANGED <<origin, host>>
  /\ arrival' = [arrival EXCEPT ![v] = NoRecord]
  /\ UNCHANGED <<known, enrollment, enrolledFirst>>

\* removeRecord: the asset goes with its last source.
Remove(v) ==
  LET t == arrival[v] IN
  /\ t.step = "write" /\ t.kind = "remove"
  /\ IF origin[t.id].live /\ origin[t.id].order < t.order
     THEN /\ origin' = [origin EXCEPT ![t.id].live = FALSE, ![t.id].order = t.order]
          /\ host' = IF \E k \in Key \ {t.id} : origin[k].live /\ origin[k].asset = t.asset
                     THEN host ELSE [host EXCEPT ![t.asset].status = "removed"]
     ELSE UNCHANGED <<origin, host>>
  /\ arrival' = [arrival EXCEPT ![v] = NoRecord]
  /\ UNCHANGED <<known, enrollment, enrolledFirst>>

Next ==
  \/ \E e \in Enrollment : Look(e) \/ TakeAgent(e) \/ Find(e) \/ Enroll(e) \/ EnrollFails(e)
  \/ \E v \in HostEvent :
       \/ \E kind \in {"upsert", "remove"}, i \in SystemId, n \in 1 .. MaxAge : Read(v, kind, i, n)
       \/ FindEnrollment(v) \/ Upsert(v) \/ Remove(v)

Spec == Init /\ [][Next]_hostVars
-----------------------------------------------------------------------------
\* classify.HostAssetForAgent looks among these for the asset that is the host.
HostAssets == {origin[k].asset : k \in {k \in Key : origin[k].live}}

\* A host whose first contact was an enrollment has one asset for ever, however its
\* enrollments and the first events of its inventory meet (ensureEnrollmentAsset,
\* upsertRecord, HostAssetForAgent).
OneHostAsset == enrolledFirst => Cardinality(HostAssets) <= 1

\* What the inventory has named is never named after the address or the host name of
\* an enrollment again, though enrollments repeat (ensureEnrollmentAsset).
InventoryNames ==
  \A i \in SystemId : Exists(i) => host[origin[i].asset].named = "record"
=============================================================================
