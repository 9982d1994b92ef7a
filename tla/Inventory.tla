----------------------------- MODULE Inventory -----------------------------
(***************************************************************************)
(* What one Agent's events do to the Server's inventory: the Agent's       *)
(* collection cycle, which turns observations into a first snapshot and    *)
(* then into deltas against inventory.json (scheduler.rs, storage.rs), and *)
(* the Server's ordered upserts and removals of asset_sources rows         *)
(* (ingest/service.go).                                                    *)
(*                                                                         *)
(* Module Delivery shows that every event is applied at most once; here an *)
(* event is applied in one step, directly in queue order or, if its Pod    *)
(* had to divert it to the spool, at any later moment.  One step is enough: *)
(* each source row is decided by one guarded UPDATE, independently of the  *)
(* other rows of the event.  Heartbeats carry no records and are left out. *)
(***************************************************************************)
EXTENDS Integers, Sequences, FiniteSets

CONSTANTS
  Item,       \* the collected records (category and source_asset_id)
  Value,      \* their payloads
  Absent,     \* no such record, a value outside Value
  Skew,       \* maximumAgentClockSkew
  Ahead,      \* how far the Agent's clock may be ahead of the Server's
  Faults,     \* which of FaultKinds may happen
  MaxEvents,  \* bound: the number of events
  MaxNow      \* bound: the Server's clock

FaultKinds == {
  "failure",  \* an event's transaction fails and the failure is recorded
  "spool",    \* a Pod diverts an event to the spool
  "crash",    \* the Agent stops between two writes of a cycle
  "cache"     \* the Agent's inventory.json is damaged
}

Keep == "keep"   \* an event says nothing about the item
Gone == "gone"   \* ... says the item was removed

ASSUME InventoryAssumption ==
  /\ {Absent, Keep, Gone} \cap Value = {}
  /\ Skew \in Nat /\ MaxEvents \in Nat /\ MaxNow \in Nat
  /\ Ahead \subseteq Nat
  /\ Faults \subseteq FaultKinds

VARIABLES
  host,      \* what is installed: Item -> a value or Absent
  skew,      \* how far the Agent's clock is ahead
  hashed,    \* Agent: snapshot.sha256 exists
  prev,      \* Agent: inventory.json; nothing if it cannot be read
  cacheLost, \* Agent: inventory.json was damaged since the last cycle
  cycle,     \* Agent: the files this cycle has still to write
  queue,     \* Agent: the events to deliver, by number
  event,     \* the events created so far
  received,  \* agent_events.received_at of each event, 0 if it has no row
  done,      \* the processed events
  spool,     \* the events diverted to the spool, oldest first
  source,    \* Item -> its asset_sources row
  now        \* the database's clock

vars == <<host, skew, hashed, prev, cacheLost, cycle, queue, event, received,
          done, spool, source, now>>
agentVars == <<hashed, prev, cacheLost, cycle>>

Observed == Value \cup {Absent}
Nothing  == [i \in Item |-> Absent]
NoRow    == [state |-> "none", value |-> Absent, collected |-> 0,
             created |-> 0, received |-> 0]

TypeOK ==
  /\ host \in [Item -> Observed]
  /\ skew \in Ahead
  /\ hashed \in BOOLEAN
  /\ prev \in [Item -> Observed]
  /\ cacheLost \in BOOLEAN
  /\ cycle \in [at : {"idle", "hash", "inventory"}, inventory : [Item -> Observed]]
  /\ queue \in Seq(DOMAIN event)
  /\ event \in Seq([full : BOOLEAN, created : Nat,
                    record : [Item -> Value \cup {Keep, Gone}]])
  /\ received \in [DOMAIN event -> 0..MaxNow]
  /\ done \subseteq DOMAIN event
  /\ spool \in Seq(DOMAIN event)
  /\ source \in [Item -> [state : {"none", "active", "deleted"},
                          value : Observed, collected : Nat,
                          created : Nat, received : Nat]]
  /\ now \in 0..MaxNow

(* A row stored before timestamps were clamped: collected_at and            *)
(* last_event_created_at lie further ahead than the Server's clock gets.    *)
Poisoned(v) ==
  LET ahead == MaxNow + Skew + 1 IN
  [state |-> "active", value |-> v, collected |-> ahead, created |-> ahead,
   received |-> 0]

(* Either a new Agent, or one the Server already knows, all of whose rows   *)
(* an older Server version has stored.                                      *)
Init ==
  /\ host \in [Item -> Observed]
  /\ \/ /\ hashed = FALSE
        /\ prev = Nothing
        /\ source = [i \in Item |-> NoRow]
     \/ /\ hashed = TRUE
        /\ prev = host
        /\ source = [i \in Item |-> IF host[i] = Absent THEN NoRow
                                                        ELSE Poisoned(host[i])]
  /\ skew \in Ahead
  /\ cacheLost = FALSE
  /\ cycle = [at |-> "idle", inventory |-> Nothing]
  /\ queue = <<>>
  /\ event = <<>>
  /\ received = <<>>
  /\ done = {}
  /\ spool = <<>>
  /\ now = 0

-----------------------------------------------------------------------------
(***************************************************************************)
(* The Agent.                                                              *)
(***************************************************************************)

(* Something is installed, changed or removed on the host.                 *)
HostChange(i, v) ==
  /\ host[i] # v
  /\ host' = [host EXCEPT ![i] = v]
  /\ UNCHANGED <<skew, agentVars, queue, event, received, done, spool, source, now>>

(* The host's clock is set.                                                *)
SetClock(s) ==
  /\ skew # s
  /\ skew' = s
  /\ UNCHANGED <<host, agentVars, queue, event, received, done, spool, source, now>>

(* Mutant: what a failed collector did not report counts as removed.       *)
DiffTrustingAll(seen, trusted) ==
  [i \in Item |-> IF seen[i] = prev[i]     THEN Keep
                 ELSE IF seen[i] = Absent THEN Gone
                 ELSE seen[i]]

(* StateStore::diff                                                        *)
Diff(seen, trusted) ==
  [i \in Item |-> IF seen[i] = prev[i]     THEN Keep
                 ELSE IF seen[i] # Absent THEN seen[i]
                 ELSE IF trusted          THEN Gone
                 ELSE Keep]

(* Mutant: the new inventory forgets what a failed collector did not report *)
EffectiveForgets(seen, trusted) == seen

(* StateStore::effective_inventory                                         *)
Effective(seen, trusted) ==
  [i \in Item |-> IF trusted \/ seen[i] # Absent THEN seen[i] ELSE prev[i]]

(* Mutant: a snapshot also carries the records that were not seen.         *)
SnapshotOfAll(seen) == seen

(* The records of a snapshot: everything seen, and nothing about the rest.  *)
SnapshotRecords(seen) ==
  [i \in Item |-> IF seen[i] = Absent THEN Keep ELSE seen[i]]

(* collect_once with the collectors of "failed" failing: a changed          *)
(* inventory is enqueued, durably, before either cache file is written.     *)
Collect(failed) ==
  LET trusted == failed = {}
      seen    == [i \in Item |-> IF i \in failed THEN Absent ELSE host[i]]
      changes == Diff(seen, trusted)
  IN
  /\ cycle.at = "idle"
  /\ Len(event) < MaxEvents
  /\ ~hashed \/ \E i \in Item : changes[i] # Keep
  /\ event' = Append(event,
       [full    |-> ~hashed,
        created |-> now + skew,
        record  |-> IF hashed THEN changes ELSE SnapshotRecords(seen)])
  /\ received' = Append(received, 0)
  /\ queue' = Append(queue, Len(event) + 1)
  /\ cycle' = [at |-> "hash", inventory |-> Effective(seen, trusted)]
  /\ cacheLost' = FALSE
  /\ UNCHANGED <<host, skew, hashed, prev, done, spool, source, now>>

SaveHash ==
  /\ cycle.at = "hash"
  /\ hashed' = TRUE
  /\ cycle' = [cycle EXCEPT !.at = "inventory"]
  /\ UNCHANGED <<host, skew, prev, cacheLost, queue, event, received, done, spool,
                 source, now>>

SaveInventory ==
  /\ cycle.at = "inventory"
  /\ prev' = cycle.inventory
  /\ cycle' = [at |-> "idle", inventory |-> Nothing]
  /\ UNCHANGED <<host, skew, hashed, cacheLost, queue, event, received, done, spool,
                 source, now>>

(* The Agent stops before it has written both cache files, and starts again. *)
AgentCrash ==
  /\ "crash" \in Faults
  /\ cycle.at # "idle"
  /\ cycle' = [at |-> "idle", inventory |-> Nothing]
  /\ UNCHANGED <<host, skew, hashed, prev, cacheLost, queue, event, received, done,
                 spool, source, now>>

(* previous_inventory: an inventory.json that cannot be read or parsed is   *)
(* taken as empty; snapshot.sha256 is another file and still there.         *)
CacheDamaged ==
  /\ "cache" \in Faults
  /\ cycle.at = "idle"
  /\ hashed
  /\ ~cacheLost
  /\ prev' = Nothing
  /\ cacheLost' = TRUE
  /\ UNCHANGED <<host, skew, hashed, cycle, queue, event, received, done, spool,
                 source, now>>

-----------------------------------------------------------------------------
(***************************************************************************)
(* The Server.                                                             *)
(***************************************************************************)

(* Mutant: the Agent's clock is believed, however far ahead.               *)
EffectiveUnclamped(created, at) == created

(* effectiveAgentTimestamp                                                 *)
EffectiveTimestamp(created, at) == IF created > at + Skew THEN at ELSE created

(* Mutant: a stored timestamp is believed, however far ahead.              *)
NewerThanTrusting(row, created, at) ==
  \/ row.created < created
  \/ row.created = created /\ row.received < at

(* The guard upsertRecord and removeRecord share: the event is newer than   *)
(* the last one that changed the row, by (created_at, received_at), or the  *)
(* row's timestamps are too far ahead to be believed.  received_at values   *)
(* are distinct here, so the event_id never decides.                        *)
NewerThan(row, created, at) ==
  \/ row.created > at + Skew
  \/ row.received > at + Skew
  \/ row.created < created
  \/ row.created = created /\ row.received < at

(* A row as the record of an event leaves it.  The record was collected in  *)
(* the cycle that created the event, so both have the same time.            *)
Stored(value, created, at) ==
  [state |-> "active", value |-> value, collected |-> created,
   created |-> created, received |-> at]

(* Mutant: an existing row is overwritten without asking which is newer.    *)
UpsertAlways(row, value, created, at) == Stored(value, created, at)

(* upsertRecord: the record must also not have been collected before the    *)
(* one the row holds, unless that one's time cannot be believed.            *)
Upsert(row, value, created, at) ==
  IF \/ row.state = "none"
     \/ /\ NewerThan(row, created, at)
        /\ row.collected <= created \/ row.collected > at + Skew
  THEN Stored(value, created, at)
  ELSE row

(* Mutant: the removal leaves the row's event timestamps alone.            *)
RemoveWithoutTimestamp(row, created, at) ==
  IF row.state = "active" /\ NewerThan(row, created, at)
  THEN [row EXCEPT !.state = "deleted"]
  ELSE row

(* removeRecord: a row that does not exist, or is deleted already, is left  *)
(* as it is; collected_at stays.                                            *)
Remove(row, created, at) ==
  IF row.state = "active" /\ NewerThan(row, created, at)
  THEN [row EXCEPT !.state = "deleted", !.created = created, !.received = at]
  ELSE row

(* The database's clock at the first statement about event e: the row keeps *)
(* the received_at it was inserted with.                                    *)
ReceivedAt(e) == IF received[e] = 0 THEN now + 1 ELSE received[e]

Stamp(e) ==
  /\ ReceivedAt(e) <= MaxNow
  /\ received' = [received EXCEPT ![e] = ReceivedAt(e)]
  /\ now' = IF received[e] = 0 THEN now + 1 ELSE now

(* What an event's record of an item makes of the item's row.               *)
Recorded(row, record, created, at) ==
  IF record = Keep      THEN row
  ELSE IF record = Gone THEN Remove(row, created, at)
  ELSE Upsert(row, record, created, at)

(* Process, for an event that no earlier delivery has completed.           *)
Apply(e) ==
  LET at      == ReceivedAt(e)
      created == EffectiveTimestamp(event[e].created, at)
  IN
  /\ Stamp(e)
  /\ done' = done \cup {e}
  /\ source' = [i \in Item |-> Recorded(source[i], event[e].record[i], created, at)]

(* The oldest queued event is processed and acknowledged.                  *)
Deliver ==
  /\ cycle.at = "idle"
  /\ queue # <<>>
  /\ Apply(Head(queue))
  /\ queue' = Tail(queue)
  /\ UNCHANGED <<host, skew, agentVars, event, spool>>

(* The oldest queued event is spooled and acknowledged with 202.           *)
Divert ==
  /\ "spool" \in Faults
  /\ cycle.at = "idle"
  /\ queue # <<>>
  /\ spool' = Append(spool, Head(queue))
  /\ queue' = Tail(queue)
  /\ UNCHANGED <<host, skew, agentVars, event, received, done, source, now>>

Replay ==
  /\ spool # <<>>
  /\ Apply(Head(spool))
  /\ spool' = Tail(spool)
  /\ UNCHANGED <<host, skew, agentVars, queue, event>>

(* failEvent: the failure leaves a row, whose received_at a retry finds.    *)
Fail(e) ==
  /\ "failure" \in Faults
  /\ \/ cycle.at = "idle" /\ queue # <<>> /\ e = Head(queue)
     \/ spool # <<>> /\ e = Head(spool)
  /\ received[e] = 0
  /\ Stamp(e)
  /\ UNCHANGED <<host, skew, agentVars, queue, event, done, spool, source>>

(* Time passes.                                                            *)
Tick ==
  /\ now < MaxNow
  /\ now' = now + 1
  /\ UNCHANGED <<host, skew, agentVars, queue, event, received, done, spool, source>>

Next ==
  \/ \E i \in Item, v \in Observed : HostChange(i, v)
  \/ \E s \in Ahead : SetClock(s)
  \/ \E failed \in SUBSET Item : Collect(failed)
  \/ SaveHash \/ SaveInventory \/ AgentCrash \/ CacheDamaged
  \/ Deliver \/ Divert \/ Replay
  \/ \E e \in DOMAIN event : Fail(e)
  \/ Tick

Spec == Init /\ [][Next]_vars

-----------------------------------------------------------------------------
(***************************************************************************)
(* Properties.                                                             *)
(***************************************************************************)

(* What the Server shows as present.                                       *)
View == [i \in Item |-> IF source[i].state = "active" THEN source[i].value
                                                      ELSE Absent]

(* Nothing is under way, and the Agent's cache says what the host holds.   *)
Settled ==
  queue = <<>> /\ spool = <<>> /\ cycle.at = "idle" /\ hashed /\ prev = host

(* Once the Agent has nothing left to report, the Server shows exactly what *)
(* is installed: no delta, failed collector or event of the same second     *)
(* leaves a stale or missing record behind (diff, effective_inventory and   *)
(* the Server's ordering together).                                         *)
Convergent == Settled => View = host

(* The effective order of processed events.                                *)
CreatedAt(e) == EffectiveTimestamp(event[e].created, received[e])
Before(d, e) == \/ CreatedAt(d) < CreatedAt(e)
                \/ CreatedAt(d) = CreatedAt(e) /\ received[d] < received[e]

(* The processed events that carry a record of item i.                     *)
Upserts(i)  == {e \in done : event[e].record[i] \in Value}
Removals(i) == {e \in done : event[e].record[i] = Gone}

(* However events overtake each other through the spool, the value the      *)
(* Server shows for a record is the one of the newest processed event that  *)
(* carried it, never that of an older event which arrived late (the guards  *)
(* of upsertRecord).                                                        *)
LatestUpsertWins ==
  \A i \in Item : source[i].state = "active" =>
    \A e \in Upserts(i) :
      (\A d \in Upserts(i) \ {e} : Before(d, e)) =>
        source[i].value = event[e].record[i]

(* A record the Server counts as removed carries the time of the removal,   *)
(* and that removal is newer than every processed event that reported the    *)
(* record (removeRecord's update of last_event_created_at): an older report  *)
(* still to come cannot bring it back.                                       *)
RemovedByNewest ==
  \A i \in Item : source[i].state = "deleted" =>
    \E r \in Removals(i) :
      /\ source[i].created = CreatedAt(r) /\ source[i].received = received[r]
      /\ \A e \in Upserts(i) : Before(e, r)

(* Nothing is stored that an Agent's wrong clock has dated further ahead    *)
(* than the tolerated skew (effectiveAgentTimestamp): later events with the *)
(* right time are never older than all of them.                             *)
NoFutureRows ==
  \A i \in Item :
    source[i].received # 0 => source[i].created <= source[i].received + Skew

(* "An old event that arrives late does not take the newest state back"     *)
(* (docs/SERVER_INSTALLATION.md, event ordering): a record whose newest   *)
(* processed event is a removal is not shown.                               *)
LateEventNeverReverts ==
  \A i \in Item : \A r \in Removals(i) :
    (\A e \in Upserts(i) : Before(e, r)) => source[i].state # "active"
=============================================================================
