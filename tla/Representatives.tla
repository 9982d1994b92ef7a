--------------------------- MODULE Representatives ---------------------------
(***************************************************************************)
(* The assets of the inventory and the sources they stand for: events of    *)
(* the Agents upsert and remove sources (upsertRecord and removeRecord,     *)
(* ingest/service.go) while persons merge, split, delete, restore and edit  *)
(* assets (httpapi/assets.go).                                              *)
(*                                                                          *)
(* PostgreSQL runs every transaction at READ COMMITTED: an UPDATE waits for *)
(* the transaction that holds its row and looks at the row again; a SELECT  *)
(* waits for nobody.  A transaction shows its writes to others in the step  *)
(* that commits it.                                                         *)
(***************************************************************************)
EXTENDS Naturals, FiniteSets

CONSTANTS
  Asset,      \* the assets there may ever be
  Source,     \* the collected records; each has an asset of its own at first
  Event,      \* transactions of ingestion that may be open at once
  Request,    \* requests that may be open at once
  Fresh,      \* one asset that only a split creates
  MaxOrder,   \* bound: the events' order (event time, receipt and id in one)
  MaxActs     \* bound: what persons do

VARIABLES
  asset,    \* Asset -> its row
  source,   \* Source -> its row
  event,    \* Event -> what it read and what it holds
  request,  \* Request -> what it read and what it holds
  placed,   \* history: where creation, the last merge or split put a source
  handled,  \* history: the assets a person merged, split, edited or deleted
  acts      \* how much persons have begun

reprVars == <<asset, source, event, request, placed, handled, acts>>

Some == CHOOSE a \in Asset : TRUE
NoEvent   == [at |-> "idle", kind |-> "upsert", source |-> CHOOSE s \in Source : TRUE,
              asset |-> Some, order |-> 0, others |-> FALSE]
NoRequest == [at |-> "idle", asset |-> Some, into |-> Some, sources |-> {},
              status |-> "active"]

TypeOK ==
  /\ asset \in [Asset -> [status : {"none", "active", "removed", "deleted", "merged"},
                          gone : BOOLEAN, seen : 0..MaxOrder]]
  /\ source \in [Source -> [asset : Asset, live : BOOLEAN, order : 0..MaxOrder]]
  /\ event \in [Event -> [at : {"idle", "read", "held", "counted"},
       kind : {"upsert", "remove"}, source : Source, asset : Asset,
       order : 0..MaxOrder, others : BOOLEAN]]
  /\ request \in [Request -> [at : {"idle", "merge", "patch"},
       asset : Asset, into : Asset, sources : SUBSET Source,
       status : {"none", "active", "removed", "deleted", "merged"}]]
  /\ placed \in [Source -> Asset] /\ handled \subseteq Asset
  /\ acts \in 0..MaxActs

Init ==
  /\ source = CHOOSE f \in [Source -> [asset : Asset \ {Fresh}, live : {TRUE}, order : {0}]] :
                 \A s, t \in Source : s # t => f[s].asset # f[t].asset
  /\ asset = [a \in Asset |-> [status |-> IF a = Fresh THEN "none" ELSE "active",
                               gone |-> FALSE, seen |-> 0]]
  /\ event = [e \in Event |-> NoEvent] /\ request = [r \in Request |-> NoRequest]
  /\ placed = [s \in Source |-> source[s].asset] /\ handled = {} /\ acts = 0

SourcesOf(a) == {s \in Source : source[s].asset = a}
Visible(a)   == asset[a].status # "none" /\ ~asset[a].gone

\* A source row that an open transaction has updated.
Held(s) == \/ \E e \in Event : event[e].at \in {"held", "counted"} /\ event[e].source = s
           \/ \E r \in Request : request[r].at = "merge" /\ s \in request[r].sources

(***************************************************************************)
(* Ingestion.  Events of one Agent may run at the same time: one of them    *)
(* may come from the spool of another Pod.                                  *)
(***************************************************************************)
\* upsertRecord and removeRecord: the source is read, an older event ends here.
ReadSource(e, kind, s, order) ==
  /\ event[e].at = "idle"
  /\ order > source[s].order
  /\ kind = "remove" => source[s].live
  /\ \A f \in Event : event[f].order # order
  /\ event' = [event EXCEPT ![e] = [NoEvent EXCEPT !.at = "read", !.kind = kind,
                 !.source = s, !.asset = source[s].asset, !.order = order]]
  /\ UNCHANGED <<asset, source, request, placed, handled, acts>>

\* Mutant: the row is not held until the transaction ends.
UpdateSourceFreely(e) ==
  LET t == event[e] IN
  /\ t.at = "read"
  /\ event' = [event EXCEPT ![e] =
       IF t.order > source[t.source].order /\ (t.kind = "remove" => source[t.source].live)
       THEN [t EXCEPT !.at = "held"] ELSE NoEvent]
  /\ UNCHANGED <<asset, source, request, placed, handled, acts>>

\* upsertRecord and removeRecord: the UPDATE of the source waits for the row and
\* asks again whether the event is newer; nothing else happens when it is not.
UpdateSource(e) ==
  LET t == event[e] IN
  /\ t.at = "read" /\ ~Held(t.source)
  /\ event' = [event EXCEPT ![e] =
       IF t.order > source[t.source].order /\ (t.kind = "remove" => source[t.source].live)
       THEN [t EXCEPT !.at = "held"] ELSE NoEvent]
  /\ UNCHANGED <<asset, source, request, placed, handled, acts>>

\* upsertRecord: the asset that was read shows the record, unless it has been
\* seen later, and the transaction commits.
Upsert(e) ==
  LET t == event[e] IN
  /\ t.at = "held" /\ t.kind = "upsert"
  /\ source' = [source EXCEPT ![t.source].live = TRUE, ![t.source].order = t.order]
  /\ asset' = [asset EXCEPT ![t.asset] =
       IF @.seen <= t.order THEN [status |-> "active", gone |-> FALSE, seen |-> t.order]
       ELSE @]
  /\ event' = [event EXCEPT ![e] = NoEvent]
  /\ UNCHANGED <<request, placed, handled, acts>>

\* removeRecord: the other sources of the asset are counted as they are committed.
CountSources(e) ==
  LET t == event[e] IN
  /\ t.at = "held" /\ t.kind = "remove"
  /\ event' = [event EXCEPT ![e].at = "counted", ![e].others =
       \E s \in SourcesOf(t.asset) \ {t.source} : source[s].live]
  /\ UNCHANGED <<asset, source, request, placed, handled, acts>>

\* removeRecord: without another source the asset is removed; commit.
Remove(e) ==
  LET t == event[e] IN
  /\ t.at = "counted"
  /\ source' = [source EXCEPT ![t.source].live = FALSE, ![t.source].order = t.order]
  /\ asset' = IF t.others THEN asset
              ELSE [asset EXCEPT ![t.asset].status = "removed", ![t.asset].gone = TRUE]
  /\ event' = [event EXCEPT ![e] = NoEvent]
  /\ UNCHANGED <<request, placed, handled, acts>>

\* failEvent: the transaction is rolled back.
Fail(e) ==
  /\ event[e].at # "idle"
  /\ event' = [event EXCEPT ![e] = NoEvent]
  /\ UNCHANGED <<asset, source, request, placed, handled, acts>>

(***************************************************************************)
(* The requests of persons.                                                 *)
(***************************************************************************)
Act == acts < MaxActs /\ acts' = acts + 1

\* mergeAssets: both exist (merged ones, too) and the sources of the secondary
\* have been moved, in a transaction that is still open.
MergeMove(r, primary, secondary) ==
  /\ Act
  /\ request[r].at = "idle" /\ primary # secondary
  /\ asset[primary].status # "none" /\ asset[secondary].status # "none"
  /\ \A s \in SourcesOf(secondary) : ~Held(s)
  /\ request' = [request EXCEPT ![r] = [NoRequest EXCEPT !.at = "merge",
       !.asset = secondary, !.into = primary, !.sources = SourcesOf(secondary)]]
  /\ UNCHANGED <<asset, source, event, placed, handled>>

\* mergeAssets: the secondary is marked, and all is committed.
MergeCommit(r) ==
  LET t == request[r] IN
  /\ t.at = "merge"
  /\ source' = [s \in Source |-> IF s \in t.sources
                  THEN [source[s] EXCEPT !.asset = t.into] ELSE source[s]]
  /\ asset' = [asset EXCEPT ![t.asset].status = "merged", ![t.asset].gone = TRUE]
  /\ placed' = [s \in Source |-> IF s \in t.sources THEN t.into ELSE placed[s]]
  /\ handled' = handled \cup {t.asset, t.into}
  /\ request' = [request EXCEPT ![r] = NoRequest]
  /\ UNCHANGED <<event, acts>>

\* splitAsset: the sources that still belong to the asset get a new one; the
\* transaction is given up when one of them does not.
Split(original, sources) ==
  /\ Act
  /\ asset[Fresh].status = "none" /\ sources # {} /\ sources \subseteq SourcesOf(original)
  /\ \A s \in sources : ~Held(s)
  /\ asset' = [asset EXCEPT ![Fresh].status = "active"]
  /\ source' = [s \in Source |-> IF s \in sources
                  THEN [source[s] EXCEPT !.asset = Fresh] ELSE source[s]]
  /\ placed' = [s \in Source |-> IF s \in sources THEN Fresh ELSE placed[s]]
  /\ handled' = handled \cup {original, Fresh}
  /\ UNCHANGED <<event, request>>

\* deleteAsset and restoreAsset.
SetAssetDeleted(a, deleted) ==
  /\ Act
  /\ asset[a].status # "none"
  /\ asset' = [asset EXCEPT ![a].gone = deleted,
                            ![a].status = IF deleted THEN "deleted" ELSE "active"]
  /\ handled' = handled \cup {a}
  /\ UNCHANGED <<source, event, request, placed>>

\* updateAsset: the row is read ...
PatchRead(r, a) ==
  /\ Act
  /\ request[r].at = "idle" /\ asset[a].status # "none"
  /\ request' = [request EXCEPT ![r] = [NoRequest EXCEPT !.at = "patch",
                   !.asset = a, !.status = asset[a].status]]
  /\ UNCHANGED <<asset, source, event, placed, handled>>

\* ... and its status is written back; deleted_at stays as it is.
PatchWrite(r) ==
  LET t == request[r] IN
  /\ t.at = "patch"
  /\ asset' = [asset EXCEPT ![t.asset].status = t.status]
  /\ handled' = handled \cup {t.asset}
  /\ request' = [request EXCEPT ![r] = NoRequest]
  /\ UNCHANGED <<source, event, placed, acts>>

Next ==
  \/ \E e \in Event :
       \/ \E kind \in {"upsert", "remove"}, s \in Source, n \in 1..MaxOrder :
            ReadSource(e, kind, s, n)
       \/ UpdateSource(e) \/ Upsert(e) \/ CountSources(e) \/ Remove(e) \/ Fail(e)
  \/ \E r \in Request :
       \/ \E a, b \in Asset : MergeMove(r, a, b)
       \/ MergeCommit(r)
       \/ \E a \in Asset : PatchRead(r, a)
       \/ PatchWrite(r)
  \/ \E a \in Asset :
       \/ \E sources \in SUBSET Source : Split(a, sources)
       \/ \E deleted \in BOOLEAN : SetAssetDeleted(a, deleted)
-----------------------------------------------------------------------------
\* An asset no person has touched is shown exactly while its source is reported,
\* whatever order its upserts and removals are processed in, and by how many Pods
\* at once (the row of the source is held from its UPDATE to the commit).
UntouchedIsVisible ==
  \A s \in Source : source[s].asset \notin handled =>
    (Visible(source[s].asset) <=> source[s].live)

\* A source belongs to the asset a person's last merge or split gave it: an event
\* that read the source before never moves it back (mergeAssets, splitAsset).
StaysPlaced == \A s \in Source : source[s].asset = placed[s]

\* Events and persons agree on which asset is shown and what it stands for
\* (upsertRecord, removeRecord, mergeAssets, splitAsset).
RepresentativesSafe == UntouchedIsVisible /\ StaysPlaced
=============================================================================
