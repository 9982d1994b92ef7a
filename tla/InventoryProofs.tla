-------------------------- MODULE InventoryProofs --------------------------
(* The safety of Inventory for any number of records, values, events and    *)
(* ticks, and any tolerated skew.                                            *)
EXTENDS Inventory, SequenceTheorems, TLAPS

(***************************************************************************)
(* Types.                                                                  *)
(***************************************************************************)

Event == [full : BOOLEAN, created : Nat, record : [Item -> Value \cup {Keep, Gone}]]
Row   == [state : {"none", "active", "deleted"}, value : Observed, collected : Nat,
          created : Nat, received : Nat]

(* What the types say of sequences, in a form every leaf can use.            *)
LEMMA Typed ==
  ASSUME TypeOK
  PROVE  /\ Len(event) \in Nat /\ DOMAIN event = 1..Len(event)
         /\ Len(queue) \in Nat /\ Len(spool) \in Nat
         /\ \A e \in DOMAIN event : event[e] \in Event /\ received[e] \in 0..MaxNow
         /\ \A k \in 1..Len(queue) : queue[k] \in DOMAIN event
         /\ \A k \in 1..Len(spool) : spool[k] \in DOMAIN event
         /\ \A i \in Item : source[i] \in Row
         /\ now \in 0..MaxNow /\ skew \in Nat
<1>1. event \in Seq(Event) /\ received \in [DOMAIN event -> 0..MaxNow]
  BY DEF TypeOK, Event
<1>2. Len(event) \in Nat /\ DOMAIN event = 1..Len(event)
      /\ \A e \in DOMAIN event : event[e] \in Event /\ received[e] \in 0..MaxNow
  BY <1>1
<1>. DEFINE D == DOMAIN event
<1>3. queue \in Seq(D) /\ spool \in Seq(D)
  BY DEF TypeOK
<1>. HIDE DEF D
<1>4. /\ Len(queue) \in Nat /\ \A k \in 1..Len(queue) : queue[k] \in D
      /\ Len(spool) \in Nat /\ \A k \in 1..Len(spool) : spool[k] \in D
  BY <1>3
<1>5. /\ \A i \in Item : source[i] \in Row
      /\ now \in 0..MaxNow /\ skew \in Nat
  BY InventoryAssumption DEF TypeOK, Row
<1>. QED BY <1>2, <1>4, <1>5 DEF D

(* A function on 1..n is a sequence of length n.                             *)
LEMMA FunctionIsSequence ==
  ASSUME NEW S, NEW n \in Nat, NEW f \in [1..n -> S]
  PROVE  f \in Seq(S) /\ Len(f) = n
  BY SeqDef

LEMMA RemoveType ==
  ASSUME NEW row \in Row, NEW created \in Nat, NEW at \in Nat
  PROVE  Remove(row, created, at) \in Row
  BY DEF Row, Remove

LEMMA UpsertType ==
  ASSUME NEW row \in Row, NEW v \in Value, NEW created \in Nat, NEW at \in Nat
  PROVE  Upsert(row, v, created, at) \in Row
  BY DEF Row, Upsert, Stored, Observed

(* The row of item i when event e is applied.                               *)
AppliedRow(i, e) ==
  Recorded(source[i], event[e].record[i],
           EffectiveTimestamp(event[e].created, ReceivedAt(e)), ReceivedAt(e))

LEMMA ApplyEffect ==
  ASSUME TypeOK, NEW e \in DOMAIN event, Apply(e)
  PROVE  /\ source' = [i \in Item |-> AppliedRow(i, e)]
         /\ source' \in [Item -> Row]
         /\ ReceivedAt(e) \in 1..MaxNow
         /\ EffectiveTimestamp(event[e].created, ReceivedAt(e)) \in Nat
         /\ received' = [received EXCEPT ![e] = ReceivedAt(e)]
         /\ received' \in [DOMAIN event -> 0..MaxNow]
         /\ now' \in 0..MaxNow
         /\ done' = done \cup {e}
<1>1. ReceivedAt(e) \in 1..MaxNow /\ now' \in 0..MaxNow
  BY Typed, InventoryAssumption DEF Apply, Stamp, ReceivedAt
<1>2. EffectiveTimestamp(event[e].created, ReceivedAt(e)) \in Nat
  BY <1>1, Typed DEF EffectiveTimestamp, Event
<1>3. source' = [i \in Item |-> AppliedRow(i, e)]
  BY DEF Apply, AppliedRow
<1>4. ASSUME NEW i \in Item
      PROVE  AppliedRow(i, e) \in Row
  <2>1. source[i] \in Row /\ event[e].record[i] \in Value \cup {Keep, Gone}
    BY Typed DEF Event
  <2>. DEFINE at == ReceivedAt(e)
              c  == EffectiveTimestamp(event[e].created, at)
  <2>2. at \in Nat /\ c \in Nat
    BY <1>1, <1>2
  <2>. HIDE DEF at, c
  <2>3. Remove(source[i], c, at) \in Row
    BY <2>1, <2>2, RemoveType
  <2>4. event[e].record[i] \in Value => Upsert(source[i], event[e].record[i], c, at) \in Row
    BY <2>1, <2>2, UpsertType
  <2>. QED BY <2>1, <2>3, <2>4 DEF AppliedRow, Recorded, at, c
<1>5. /\ received' = [received EXCEPT ![e] = ReceivedAt(e)]
      /\ received' \in [DOMAIN event -> 0..MaxNow]
  BY <1>1 DEF Apply, Stamp, TypeOK
<1>. QED BY <1>1, <1>2, <1>3, <1>4, <1>5 DEF Apply

LEMMA CollectEffect ==
  ASSUME TypeOK, NEW failed \in SUBSET Item, Collect(failed)
  PROVE  TypeOK'
<1>. DEFINE seen    == [i \in Item |-> IF i \in failed THEN Absent ELSE host[i]]
            trusted == failed = {}
            changes == Diff(seen, trusted)
            record  == IF hashed THEN changes ELSE SnapshotRecords(seen)
            e       == [full |-> ~hashed, created |-> now + skew, record |-> record]
<1>1. seen \in [Item -> Observed]
  BY DEF TypeOK, Observed
<1>. HIDE DEF seen
<1>2. record \in [Item -> Value \cup {Keep, Gone}]
  BY <1>1 DEF Diff, SnapshotRecords, Observed
<1>3. Effective(seen, trusted) \in [Item -> Observed]
  BY <1>1 DEF Effective, TypeOK
<1>. HIDE DEF record
<1>4. e \in Event
  <2>1. now + skew \in Nat
    <3>1. now \in Nat /\ skew \in Nat
      BY Typed
    <3>. QED BY <3>1
  <2>. QED BY <1>2, <2>1 DEF Event
<1>5. event' = Append(event, e)
  BY DEF Collect, record, seen
<1>. HIDE DEF e
<1>6. event' \in Seq(Event) /\ Len(event') = Len(event) + 1 /\ DOMAIN event' = 1..(Len(event) + 1)
  BY <1>4, <1>5 DEF TypeOK, Event
<1>7. received' = Append(received, 0) /\ received' \in [1..(Len(event) + 1) -> 0..MaxNow]
  <2>1. received \in Seq(0..MaxNow) /\ Len(received) = Len(event)
    BY Typed, FunctionIsSequence DEF TypeOK
  <2>2. 0 \in 0..MaxNow /\ received' = Append(received, 0)
    BY InventoryAssumption DEF Collect
  <2>3. received' \in Seq(0..MaxNow) /\ Len(received') = Len(event) + 1
    BY <2>1, <2>2, AppendProperties
  <2>4. received' \in [1..Len(received') -> 0..MaxNow]
    BY <2>3, LenProperties
  <2>. QED BY <2>2, <2>3, <2>4
<1>8. queue' \in Seq(DOMAIN event')
  BY <1>6, Typed DEF Collect, TypeOK
<1>9. spool' \in Seq(DOMAIN event') /\ done' \subseteq DOMAIN event'
  <2>1. DOMAIN event \subseteq DOMAIN event'
    BY <1>6, Typed
  <2>2. spool \in Seq(DOMAIN event') /\ done \subseteq DOMAIN event'
    BY <2>1 DEF TypeOK
  <2>. QED BY <2>2 DEF Collect
<1>10. cycle' \in [at : {"idle", "hash", "inventory"}, inventory : [Item -> Observed]]
  BY <1>3 DEF Collect, seen
<1>. QED BY <1>6, <1>7, <1>8, <1>9, <1>10 DEF Collect, TypeOK, Event

LEMMA TypeStep ==
  ASSUME TypeOK, [Next]_vars
  PROVE  TypeOK'
<1>1. ASSUME NEW i \in Item, NEW v \in Observed, HostChange(i, v) PROVE TypeOK'
  BY <1>1 DEF TypeOK, HostChange, agentVars
<1>2. ASSUME NEW s \in Ahead, SetClock(s) PROVE TypeOK'
  BY <1>2 DEF TypeOK, SetClock, agentVars
<1>3. ASSUME NEW failed \in SUBSET Item, Collect(failed) PROVE TypeOK'
  BY <1>3, CollectEffect
<1>4. CASE SaveHash
  BY <1>4 DEF TypeOK, SaveHash
<1>5. CASE SaveInventory
  BY <1>5 DEF TypeOK, SaveInventory, Nothing, Observed
<1>6. CASE AgentCrash
  BY <1>6 DEF TypeOK, AgentCrash, Nothing, Observed
<1>7. CASE CacheDamaged
  BY <1>7 DEF TypeOK, CacheDamaged, Nothing, Observed
<1>8. CASE Deliver
  <2>1. Head(queue) \in DOMAIN event /\ Tail(queue) \in Seq(DOMAIN event)
    BY <1>8 DEF Deliver, TypeOK
  <2>. QED BY <1>8, <2>1, ApplyEffect DEF Deliver, TypeOK, agentVars, Row
<1>9. CASE Divert
  <2>1. Head(queue) \in DOMAIN event /\ Tail(queue) \in Seq(DOMAIN event)
    BY <1>9 DEF Divert, TypeOK
  <2>2. Append(spool, Head(queue)) \in Seq(DOMAIN event)
    BY <2>1 DEF TypeOK
  <2>. QED BY <1>9, <2>1, <2>2 DEF Divert, TypeOK, agentVars
<1>10. CASE Replay
  <2>1. Head(spool) \in DOMAIN event /\ Tail(spool) \in Seq(DOMAIN event)
    BY <1>10 DEF Replay, TypeOK
  <2>. QED BY <1>10, <2>1, ApplyEffect DEF Replay, TypeOK, agentVars, Row
<1>11. ASSUME NEW e \in DOMAIN event, Fail(e) PROVE TypeOK'
  <2>1. ReceivedAt(e) \in 1..MaxNow /\ now' \in 0..MaxNow
    BY <1>11, Typed, InventoryAssumption DEF Fail, Stamp, ReceivedAt
  <2>. QED BY <1>11, <2>1 DEF Fail, Stamp, TypeOK, agentVars
<1>12. CASE Tick
  BY <1>12, InventoryAssumption DEF TypeOK, Tick, agentVars
<1>13. CASE UNCHANGED vars
  BY <1>13 DEF TypeOK, vars
<1>. QED BY <1>1, <1>2, <1>3, <1>4, <1>5, <1>6, <1>7, <1>8, <1>9, <1>10, <1>11,
            <1>12, <1>13 DEF Next

LEMMA TypeInit ==
  ASSUME Init
  PROVE  TypeOK
<1>1. Nothing \in [Item -> Observed]
  BY DEF Nothing, Observed
<1>2. source \in [Item -> Row]
  BY InventoryAssumption DEF Init, NoRow, Poisoned, Row, Observed
<1>3. /\ event \in Seq(Event) /\ DOMAIN event = {}
      /\ received \in [DOMAIN event -> 0..MaxNow]
  BY DEF Init
<1>4. queue \in Seq(DOMAIN event) /\ spool \in Seq(DOMAIN event)
  BY DEF Init
<1>5. prev \in [Item -> Observed] /\ hashed \in BOOLEAN
  BY <1>1 DEF Init
<1>6. cycle \in [at : {"idle", "hash", "inventory"}, inventory : [Item -> Observed]]
  BY <1>1 DEF Init
<1>7. 0 \in 0..MaxNow
  BY InventoryAssumption
<1>8. /\ host \in [Item -> Observed] /\ skew \in Ahead /\ cacheLost \in BOOLEAN
      /\ done \subseteq DOMAIN event /\ now \in 0..MaxNow
  BY <1>7, Zenon DEF Init
<1>. QED BY <1>2, <1>3, <1>4, <1>5, <1>6, <1>8 DEF TypeOK, Row, Event

-----------------------------------------------------------------------------
(***************************************************************************)
(* No row is dated ahead of its receipt.                                   *)
(***************************************************************************)

(* effectiveAgentTimestamp never answers more than the tolerated skew ahead. *)
LEMMA EffectiveBound ==
  ASSUME NEW created \in Nat, NEW at \in Nat
  PROVE  EffectiveTimestamp(created, at) <= at + Skew
  BY InventoryAssumption DEF EffectiveTimestamp

LEMMA FutureStep ==
  ASSUME TypeOK, NoFutureRows, [Next]_vars
  PROVE  NoFutureRows'
<1>1. ASSUME NEW e \in DOMAIN event, Apply(e)
      PROVE  NoFutureRows'
  <2>. DEFINE at == ReceivedAt(e)
              c  == EffectiveTimestamp(event[e].created, at)
  <2>1. at \in Nat /\ c \in Nat /\ source' = [i \in Item |-> AppliedRow(i, e)]
    BY <1>1, ApplyEffect
  <2>2. c <= at + Skew
    BY <2>1, Typed, EffectiveBound DEF Event
  <2>3. ASSUME NEW i \in Item
        PROVE  \/ source'[i] = source[i]
               \/ source'[i].created = c /\ source'[i].received = at
    <3>1. source[i] \in Row /\ source'[i] = Recorded(source[i], event[e].record[i], c, at)
      BY <2>1, Typed DEF AppliedRow
    <3>. HIDE DEF c, at
    <3>. QED BY <3>1 DEF Recorded, Upsert, Stored, Remove, Row
  <2>. QED BY <2>2, <2>3 DEF NoFutureRows
<1>2. source' = source \/ \E e \in DOMAIN event : Apply(e)
  <2>1. queue # <<>> => Head(queue) \in DOMAIN event
    BY DEF TypeOK
  <2>2. spool # <<>> => Head(spool) \in DOMAIN event
    BY DEF TypeOK
  <2>. QED BY <2>1, <2>2 DEF Next, HostChange, SetClock, Collect, SaveHash,
           SaveInventory, AgentCrash, CacheDamaged, Deliver, Divert, Replay, Fail, Tick, vars
<1>3. ASSUME source' = source
      PROVE  NoFutureRows'
  BY <1>3 DEF NoFutureRows
<1>. QED BY <1>1, <1>2, <1>3

-----------------------------------------------------------------------------
(***************************************************************************)
(* The order of events.  A failure lets an event keep the receipt of its    *)
(* first attempt, and the guards then compare a time that is past: what is   *)
(* proved of the order holds as long as no transaction fails.                *)
(***************************************************************************)

(* Where every event is: the queue holds the newest ones in order, the      *)
(* spool some of the others, each once, and none that is processed.          *)
QueueOK ==
  /\ Len(queue) <= Len(event)
  /\ \A k \in 1..Len(queue) : queue[k] = Len(event) - Len(queue) + k
  /\ \A k \in 1..Len(spool) : /\ spool[k] <= Len(event) - Len(queue)
                              /\ spool[k] \notin done
  /\ \A j, k \in 1..Len(spool) : spool[j] = spool[k] => j = k
  /\ \A e \in done : e <= Len(event) - Len(queue)

(* Without failures only the processed events have a receipt, each its own,  *)
(* and every row's is in the past.                                           *)
ReceiptsOK ==
  /\ \A e \in DOMAIN event : received[e] <= now /\ (received[e] # 0 <=> e \in done)
  /\ \A d, e \in done : received[d] = received[e] => d = e
  /\ \A i \in Item : source[i].received <= now

(* What an older Server dated so far ahead that nothing believes it.         *)
FarAhead == MaxNow + Skew + 1

(* A row without an accepted event: it knows no report of its item.          *)
UntouchedOK(i) ==
  /\ Upserts(i) = {}
  /\ source[i].state # "deleted"
  /\ source[i].state = "active" =>
       source[i].created = FarAhead /\ source[i].collected = FarAhead

(* A shown record is its newest report; it was collected then.               *)
ShownOK(i) ==
  /\ source[i].collected = source[i].created
  /\ \E u \in Upserts(i) :
       /\ source[i].value = event[u].record[i]
       /\ source[i].created = CreatedAt(u) /\ source[i].received = received[u]
       /\ \A e \in Upserts(i) \ {u} : Before(e, u)

(* A removed record carries its removal, newer than every report of it.      *)
RemovedOK(i) ==
  /\ source[i].collected <= source[i].created \/ source[i].collected = FarAhead
  /\ \E r \in Removals(i) :
       /\ source[i].created = CreatedAt(r) /\ source[i].received = received[r]
       /\ \A e \in Upserts(i) : Before(e, r)

RowsOK ==
  \A i \in Item :
    /\ source[i].state = "none" => source[i].received = 0
    /\ source[i].received = 0 => UntouchedOK(i)
    /\ source[i].received # 0 =>
         /\ source[i].state = "active"  => ShownOK(i)
         /\ source[i].state = "deleted" => RemovedOK(i)

OrderInv == TypeOK /\ QueueOK /\ ReceiptsOK /\ NoFutureRows /\ RowsOK

(* What an applied event leaves of the others: its receipt is the newest,    *)
(* and no processed event's time changes.                                    *)
LEMMA ApplyReceipts ==
  ASSUME OrderInv, NEW e \in DOMAIN event \ done, Apply(e), event' = event
  PROVE  /\ ReceivedAt(e) = now + 1 /\ now' = now + 1 /\ now' <= MaxNow
         /\ ReceiptsOK'
         /\ \A d \in done : received'[d] = received[d] /\ received[d] <= now
                           /\ CreatedAt(d)' = CreatedAt(d) /\ CreatedAt(d) \in Nat
         /\ received'[e] = now + 1
         /\ CreatedAt(e)' = EffectiveTimestamp(event[e].created, now + 1)
<1>1. TypeOK /\ ReceiptsOK
  BY DEF OrderInv
<1>2. received[e] = 0 /\ now \in Nat
  BY <1>1, Typed DEF ReceiptsOK
<1>3. ReceivedAt(e) = now + 1 /\ now' = now + 1 /\ now' <= MaxNow
  BY <1>2 DEF Apply, Stamp, ReceivedAt
<1>4. received' = [received EXCEPT ![e] = now + 1] /\ done' = done \cup {e}
  BY <1>3 DEF Apply, Stamp
<1>5. received'[e] = now + 1 /\ \A d \in DOMAIN event : d # e => received'[d] = received[d]
  BY <1>4 DEF TypeOK, OrderInv
<1>6. ASSUME NEW d \in done
      PROVE  /\ received'[d] = received[d] /\ received[d] <= now
             /\ CreatedAt(d)' = CreatedAt(d) /\ CreatedAt(d) \in Nat
  <2>1. d \in DOMAIN event /\ d # e
    BY <1>1 DEF TypeOK
  <2>2. received'[d] = received[d] /\ received[d] <= now
    BY <1>1, <1>5, <2>1 DEF ReceiptsOK
  <2>3. event[d].created \in Nat /\ received[d] \in Nat
    BY <1>1, <2>1, Typed DEF Event
  <2>. QED BY <2>2, <2>3 DEF CreatedAt, EffectiveTimestamp
<1>7. ReceiptsOK'
  <2>1. \A d \in DOMAIN event : received'[d] <= now'
                              /\ (received'[d] # 0 <=> d \in done')
    BY <1>1, <1>2, <1>3, <1>4, <1>5, Typed DEF ReceiptsOK
  <2>2. \A c, d \in done' : received'[c] = received'[d] => c = d
    BY <1>1, <1>2, <1>4, <1>5, <1>6 DEF ReceiptsOK
  <2>3. \A i \in Item : source'[i].received <= now'
    <3>1. ASSUME NEW i \in Item
          PROVE  source'[i].received <= now'
      <4>1. /\ source[i] \in Row /\ source[i].received <= now
            /\ source'[i] = AppliedRow(i, e)
        BY <1>1, Typed, ApplyEffect DEF ReceiptsOK
      <4>2. source'[i].received = source[i].received \/ source'[i].received = now + 1
        BY <1>3, <4>1 DEF AppliedRow, Recorded, Upsert, Stored, Remove, Row
      <4>. QED BY <1>2, <1>3, <4>1, <4>2 DEF Row
    <3>. QED BY <3>1
  <2>. QED BY <2>1, <2>2, <2>3 DEF ReceiptsOK
<1>8. CreatedAt(e)' = EffectiveTimestamp(event[e].created, now + 1)
  BY <1>5 DEF CreatedAt
<1>. QED BY <1>3, <1>5, <1>6, <1>7, <1>8

(* An applied event leaves every row as its newest event left it.            *)
LEMMA ApplyRows ==
  ASSUME OrderInv, NEW e \in DOMAIN event \ done, Apply(e), event' = event
  PROVE  RowsOK'
<1>. DEFINE at == now + 1
            c  == EffectiveTimestamp(event[e].created, at)
<1>1. /\ now \in Nat /\ at <= MaxNow /\ done' = done \cup {e}
      /\ c \in Nat /\ Skew \in Nat /\ MaxNow \in Nat
  BY ApplyReceipts, ApplyEffect, Typed, InventoryAssumption DEF OrderInv
<1>2. /\ \A d \in done : received'[d] = received[d] /\ received[d] \in 0..now
                        /\ CreatedAt(d)' = CreatedAt(d) /\ CreatedAt(d) \in Nat
      /\ received'[e] = at /\ CreatedAt(e)' = c
  <2>1. \A d \in done : received[d] \in Nat
    BY Typed DEF OrderInv, TypeOK
  <2>. QED BY <1>1, <2>1, ApplyReceipts
<1>. HIDE DEF c
<1>3. \A d, f \in done : Before(d, f)' <=> Before(d, f)
  BY <1>2 DEF Before
<1>4. SUFFICES ASSUME NEW i \in Item
      PROVE  /\ source'[i].state = "none" => source'[i].received = 0
             /\ source'[i].received = 0 => UntouchedOK(i)'
             /\ source'[i].received # 0 =>
                  /\ source'[i].state = "active"  => ShownOK(i)'
                  /\ source'[i].state = "deleted" => RemovedOK(i)'
  BY DEF RowsOK
<1>. DEFINE row    == source[i]
            record == event[e].record[i]
<1>5. /\ row \in Row /\ row.received <= now
      /\ row.received # 0 => row.created <= row.received + Skew
  BY Typed DEF OrderInv, ReceiptsOK, NoFutureRows
<1>6. /\ row.state = "none" => row.received = 0
      /\ row.received = 0 => UntouchedOK(i)
      /\ row.received # 0 /\ row.state = "active"  => ShownOK(i)
      /\ row.received # 0 /\ row.state = "deleted" => RemovedOK(i)
  BY DEF OrderInv, RowsOK
<1>7. source'[i] = Recorded(row, record, c, at)
  BY ApplyReceipts, ApplyEffect DEF OrderInv, AppliedRow, c
<1>8. Keep \notin Value /\ Gone \notin Value /\ Keep # Gone
  BY InventoryAssumption DEF Keep, Gone
<1>9. /\ Upserts(i)' = IF record \in Value THEN Upserts(i) \cup {e} ELSE Upserts(i)
      /\ Removals(i)' = IF record = Gone THEN Removals(i) \cup {e} ELSE Removals(i)
      /\ Upserts(i) \subseteq done /\ Removals(i) \subseteq done
  BY <1>1 DEF Upserts, Removals
<1>10. row.received # 0 => (NewerThan(row, c, at) <=> row.created <= c)
  BY <1>1, <1>5 DEF NewerThan, Row
<1>11. row.created = FarAhead => NewerThan(row, c, at)
  BY <1>1 DEF NewerThan, FarAhead
<1>12. FarAhead > at + Skew
  BY <1>1 DEF FarAhead
<1>13. row.created \in Nat /\ row.collected \in Nat /\ \A d \in Upserts(i) : CreatedAt(d) \in Nat
  BY <1>2, <1>5, <1>9 DEF Row
<1>14. CASE source'[i] = row /\ record \notin Value
  <2>1. UntouchedOK(i) => UntouchedOK(i)'
    BY <1>9, <1>14 DEF UntouchedOK, FarAhead
  <2>2. ASSUME ShownOK(i)
        PROVE  ShownOK(i)'
    <3>1. PICK u \in Upserts(i) :
            /\ row.value = event[u].record[i]
            /\ row.created = CreatedAt(u) /\ row.received = received[u]
            /\ \A d \in Upserts(i) \ {u} : Before(d, u)
      BY <2>2 DEF ShownOK
    <3>2. \A d \in Upserts(i) \ {u} : Before(d, u)'
      BY <1>3, <1>9, <3>1
    <3>. QED BY <1>2, <1>9, <1>14, <2>2, <3>1, <3>2 DEF ShownOK
  <2>3. ASSUME RemovedOK(i)
        PROVE  RemovedOK(i)'
    <3>1. PICK r \in Removals(i) :
            /\ row.created = CreatedAt(r) /\ row.received = received[r]
            /\ \A d \in Upserts(i) : Before(d, r)
      BY <2>3 DEF RemovedOK
    <3>2. r \in Removals(i)' /\ \A d \in Upserts(i) : Before(d, r)'
      BY <1>3, <1>9, <3>1
    <3>. QED BY <1>2, <1>9, <1>14, <2>3, <3>1, <3>2 DEF RemovedOK, FarAhead
  <2>. QED BY <1>14, <1>6, <2>1, <2>2, <2>3
<1>15. CASE record = Keep
  BY <1>7, <1>8, <1>14, <1>15 DEF Recorded
<1>16. CASE record = Gone
  <2>1. source'[i] = Remove(row, c, at)
    BY <1>7, <1>8, <1>16 DEF Recorded
  <2>2. CASE ~(row.state = "active" /\ NewerThan(row, c, at))
    BY <1>8, <1>14, <1>16, <2>1, <2>2 DEF Remove
  <2>3. CASE row.state = "active" /\ NewerThan(row, c, at)
    <3>1. /\ source'[i].state = "deleted" /\ source'[i].collected = row.collected
          /\ source'[i].created = c /\ source'[i].received = at
      BY <1>5, <2>1, <2>3 DEF Remove, Row
    <3>2. /\ row.collected <= c \/ row.collected = FarAhead
          /\ \A d \in Upserts(i) : CreatedAt(d) <= c
      <4>1. CASE row.received = 0
        BY <1>6, <2>3, <4>1 DEF UntouchedOK
      <4>2. CASE row.received # 0
        <5>1. ShownOK(i) /\ row.created <= c
          BY <1>10, <1>6, <2>3, <4>2
        <5>2. \A d \in Upserts(i) : CreatedAt(d) <= row.created
          BY <1>13, <5>1 DEF ShownOK, Before
        <5>3. row.collected = row.created
          BY <5>1 DEF ShownOK
        <5>. QED BY <1>1, <1>13, <5>1, <5>2, <5>3
      <4>. QED BY <4>1, <4>2
    <3>3. \A d \in Upserts(i) : Before(d, e)'
      BY <1>1, <1>2, <1>9, <3>2 DEF Before
    <3>4. RemovedOK(i)'
      BY <1>2, <1>8, <1>9, <1>16, <3>1, <3>2, <3>3 DEF RemovedOK
    <3>. QED BY <1>1, <3>1, <3>4
  <2>. QED BY <2>2, <2>3
<1>17. CASE record \in Value
  <2>1. source'[i] = Upsert(row, record, c, at) /\ Upserts(i)' = Upserts(i) \cup {e}
    BY <1>7, <1>8, <1>9, <1>17 DEF Recorded
  <2>2. CASE \/ row.state = "none"
             \/ NewerThan(row, c, at) /\ (row.collected <= c \/ row.collected > at + Skew)
    <3>1. source'[i] = Stored(record, c, at)
      BY <2>1, <2>2 DEF Upsert
    <3>2. \A d \in Upserts(i) : CreatedAt(d) <= c
      <4>1. CASE row.received = 0
        BY <1>6, <4>1 DEF UntouchedOK
      <4>2. CASE row.received # 0
        <5>1. row.created <= c
          BY <1>10, <1>6, <2>2, <4>2
        <5>2. \A d \in Upserts(i) : CreatedAt(d) <= row.created
          <6>1. CASE row.state = "active"
            BY <1>13, <1>6, <4>2, <6>1 DEF ShownOK, Before
          <6>2. CASE row.state = "deleted"
            BY <1>13, <1>6, <4>2, <6>2 DEF RemovedOK, Before
          <6>. QED BY <1>5, <1>6, <4>2, <6>1, <6>2 DEF Row
        <5>. QED BY <1>1, <1>13, <5>1, <5>2
      <4>. QED BY <4>1, <4>2
    <3>3. \A d \in Upserts(i) : Before(d, e)'
      BY <1>1, <1>2, <1>9, <3>2 DEF Before
    <3>4. ShownOK(i)'
      BY <1>2, <2>1, <3>1, <3>3 DEF ShownOK, Stored
    <3>. QED BY <1>1, <3>1, <3>4 DEF Stored
  <2>3. CASE ~ \/ row.state = "none"
               \/ NewerThan(row, c, at) /\ (row.collected <= c \/ row.collected > at + Skew)
    <3>1. source'[i] = row
      BY <2>1, <2>3 DEF Upsert
    <3>2. row.received # 0
      BY <1>5, <1>11, <1>12, <1>6, <2>3 DEF UntouchedOK, Row
    <3>3. row.created > c
      <4>1. row.state \in {"active", "deleted"}
        BY <1>5, <2>3 DEF Row
      <4>2. row.collected <= row.created \/ row.collected = FarAhead
        BY <1>13, <1>6, <3>2, <4>1 DEF ShownOK, RemovedOK
      <4>. QED BY <1>1, <1>5, <1>10, <1>12, <2>3, <3>2, <4>2 DEF Row
    <3>4. ASSUME row.state = "active"
          PROVE  ShownOK(i)'
      <4>1. PICK u \in Upserts(i) :
              /\ row.value = event[u].record[i]
              /\ row.created = CreatedAt(u) /\ row.received = received[u]
              /\ \A d \in Upserts(i) \ {u} : Before(d, u)
        BY <1>6, <3>2, <3>4 DEF ShownOK
      <4>2. Before(e, u)' /\ \A d \in Upserts(i) \ {u} : Before(d, u)'
        BY <1>2, <1>3, <1>9, <3>3, <4>1 DEF Before
      <4>3. ShownOK(i)
        BY <1>6, <3>2, <3>4
      <4>. QED BY <1>2, <1>9, <2>1, <3>1, <4>1, <4>2, <4>3 DEF ShownOK
    <3>5. ASSUME row.state = "deleted"
          PROVE  RemovedOK(i)'
      <4>1. PICK r \in Removals(i) :
              /\ row.created = CreatedAt(r) /\ row.received = received[r]
              /\ \A d \in Upserts(i) : Before(d, r)
        BY <1>6, <3>2, <3>5 DEF RemovedOK
      <4>2. Before(e, r)' /\ \A d \in Upserts(i) : Before(d, r)'
        BY <1>2, <1>3, <1>9, <3>3, <4>1 DEF Before
      <4>3. RemovedOK(i)
        BY <1>6, <3>2, <3>5
      <4>4. r \in Removals(i)'
        BY <1>9, <4>1
      <4>. QED BY <1>2, <1>9, <2>1, <3>1, <4>1, <4>2, <4>3, <4>4 DEF RemovedOK, FarAhead
    <3>. QED BY <3>1, <3>2, <3>4, <3>5, <2>3
  <2>. QED BY <2>2, <2>3
<1>18. record \in Value \cup {Keep, Gone}
  BY Typed DEF OrderInv, Event
<1>. QED BY <1>15, <1>16, <1>17, <1>18

(* Steps that leave the processed events and the rows alone.                 *)
LEMMA QuietRows ==
  ASSUME OrderInv, UNCHANGED <<source, done>>,
         \A e \in done : event'[e] = event[e] /\ received'[e] = received[e]
  PROVE  RowsOK'
<1>1. SUFFICES ASSUME NEW i \in Item
      PROVE  /\ UntouchedOK(i) => UntouchedOK(i)'
             /\ ShownOK(i) => ShownOK(i)'
             /\ RemovedOK(i) => RemovedOK(i)'
  BY Zenon DEF OrderInv, RowsOK
<1>2. /\ Upserts(i)' = Upserts(i) /\ Removals(i)' = Removals(i)
      /\ Upserts(i) \subseteq done /\ Removals(i) \subseteq done
  BY DEF Upserts, Removals
<1>3. /\ \A e \in done : CreatedAt(e)' = CreatedAt(e)
      /\ \A d, e \in done : Before(d, e)' <=> Before(d, e)
  BY DEF CreatedAt, Before
<1>4. UntouchedOK(i) => UntouchedOK(i)'
  BY <1>2 DEF UntouchedOK, FarAhead
<1>5. ASSUME ShownOK(i)
      PROVE  ShownOK(i)'
  <2>1. PICK u \in Upserts(i) :
          /\ source[i].value = event[u].record[i]
          /\ source[i].created = CreatedAt(u) /\ source[i].received = received[u]
          /\ \A e \in Upserts(i) \ {u} : Before(e, u)
    BY <1>5 DEF ShownOK
  <2>2. \A e \in Upserts(i) \ {u} : Before(e, u)'
    BY <1>2, <1>3, <2>1
  <2>. QED BY <1>2, <1>3, <1>5, <2>1, <2>2 DEF ShownOK
<1>6. ASSUME RemovedOK(i)
      PROVE  RemovedOK(i)'
  <2>1. PICK r \in Removals(i) :
          /\ source[i].created = CreatedAt(r) /\ source[i].received = received[r]
          /\ \A e \in Upserts(i) : Before(e, r)
    BY <1>6 DEF RemovedOK
  <2>2. \A e \in Upserts(i) : Before(e, r)'
    BY <1>2, <1>3, <2>1
  <2>. QED BY <1>2, <1>3, <1>6, <2>1, <2>2 DEF RemovedOK, FarAhead
<1>. QED BY <1>4, <1>5, <1>6

(* Where the events are after each step.                                     *)
LEMMA CollectPlaces ==
  ASSUME TypeOK, QueueOK, NEW failed \in SUBSET Item, Collect(failed)
  PROVE  /\ QueueOK'
         /\ Len(event') = Len(event) + 1
         /\ \A e \in 1..Len(event) : event'[e] = event[e] /\ received'[e] = received[e]
         /\ received'[Len(event) + 1] = 0
<1>1. /\ Len(event) \in Nat /\ Len(queue) \in Nat /\ Len(spool) \in Nat
      /\ received \in Seq(0..MaxNow) /\ Len(received) = Len(event)
  BY Typed, FunctionIsSequence DEF TypeOK
<1>2. PICK x : event' = Append(event, x)
  BY DEF Collect
<1>3. Len(event') = Len(event) + 1 /\ \A e \in 1..Len(event) : event'[e] = event[e]
  BY <1>2 DEF TypeOK
<1>4. /\ \A e \in 1..Len(event) : received'[e] = received[e]
      /\ received'[Len(event) + 1] = 0
  BY <1>1 DEF Collect
<1>5. /\ Len(queue') = Len(queue) + 1 /\ queue'[Len(queue) + 1] = Len(event) + 1
      /\ \A k \in 1..Len(queue) : queue'[k] = queue[k]
  BY DEF Collect, TypeOK
<1>6. spool' = spool /\ done' = done
  BY DEF Collect
<1>7. \A k \in 1..Len(queue') : queue'[k] = Len(event') - Len(queue') + k
  <2>1. \A k \in 1..Len(queue') : k \in 1..Len(queue) \/ k = Len(queue) + 1
    BY <1>1, <1>5
  <2>2. \A k \in 1..Len(queue) : queue'[k] = Len(event') - Len(queue') + k
    BY <1>1, <1>3, <1>5 DEF QueueOK
  <2>. QED BY <1>1, <1>3, <1>5, <2>1, <2>2
<1>8. Len(event') - Len(queue') = Len(event) - Len(queue) /\ Len(queue') <= Len(event')
  BY <1>1, <1>3, <1>5 DEF QueueOK
<1>9. QueueOK'
  BY <1>6, <1>7, <1>8 DEF QueueOK
<1>. QED BY <1>3, <1>4, <1>9

(* The head of the queue is the oldest event that left neither the Agent nor *)
(* is elsewhere.                                                             *)
LEMMA HeadOfQueue ==
  ASSUME TypeOK, QueueOK, queue # <<>>
  PROVE  /\ Head(queue) = Len(event) - Len(queue) + 1
         /\ Head(queue) \in DOMAIN event \ done
         /\ Len(Tail(queue)) = Len(queue) - 1
         /\ \A k \in 1..(Len(queue) - 1) : Tail(queue)[k] = Len(event) - (Len(queue) - 1) + k
         /\ \A k \in 1..Len(spool) : spool[k] # Head(queue)
<1>1. /\ Len(event) \in Nat /\ DOMAIN event = 1..Len(event) /\ Len(spool) \in Nat
      /\ \A k \in 1..Len(spool) : spool[k] \in DOMAIN event
      /\ done \subseteq DOMAIN event
  BY Typed DEF TypeOK
<1>2. /\ Len(queue) \in Nat \ {0} /\ Head(queue) = queue[1]
      /\ Len(Tail(queue)) = Len(queue) - 1
      /\ \A k \in 1..(Len(queue) - 1) : Tail(queue)[k] = queue[k + 1]
  <2>. DEFINE D == DOMAIN event
  <2>1. queue \in Seq(D)
    BY DEF TypeOK
  <2>. HIDE DEF D
  <2>. QED BY <2>1, HeadTailProperties
<1>3. Head(queue) = Len(event) - Len(queue) + 1
  BY <1>1, <1>2 DEF QueueOK
<1>4. Head(queue) \in DOMAIN event \ done
  BY <1>1, <1>2, <1>3 DEF QueueOK
<1>5. \A k \in 1..(Len(queue) - 1) : Tail(queue)[k] = Len(event) - (Len(queue) - 1) + k
  BY <1>1, <1>2 DEF QueueOK
<1>6. \A k \in 1..Len(spool) : spool[k] # Head(queue)
  BY <1>1, <1>2, <1>3 DEF QueueOK
<1>. QED BY <1>2, <1>3, <1>4, <1>5, <1>6

LEMMA HeadOfSpool ==
  ASSUME TypeOK, QueueOK, spool # <<>>
  PROVE  /\ Head(spool) = spool[1] /\ 1 \in 1..Len(spool)
         /\ Head(spool) \in DOMAIN event \ done
         /\ Len(Tail(spool)) = Len(spool) - 1
         /\ \A k \in 1..(Len(spool) - 1) : Tail(spool)[k] = spool[k + 1]
<1>. DEFINE D == DOMAIN event
<1>1. spool \in Seq(D)
  BY DEF TypeOK
<1>. HIDE DEF D
<1>2. /\ Len(spool) \in Nat \ {0} /\ Head(spool) = spool[1] /\ Head(spool) \in D
      /\ Len(Tail(spool)) = Len(spool) - 1
      /\ \A k \in 1..(Len(spool) - 1) : Tail(spool)[k] = spool[k + 1]
  BY <1>1, HeadTailProperties
<1>3. 1 \in 1..Len(spool)
  BY <1>2
<1>. QED BY <1>2, <1>3 DEF D, QueueOK

LEMMA PlacesStep ==
  ASSUME TypeOK, QueueOK, Deliver \/ Divert \/ Replay
  PROVE  QueueOK' /\ event' = event
<1>1. /\ Len(event) \in Nat /\ Len(queue) \in Nat /\ Len(spool) \in Nat
      /\ \A k \in 1..Len(queue) : queue[k] \in 1..Len(event)
      /\ \A k \in 1..Len(spool) : spool[k] \in 1..Len(event)
      /\ done \subseteq 1..Len(event)
  BY Typed DEF TypeOK
<1>2. CASE Deliver
  <2>1. /\ queue # <<>> /\ queue' = Tail(queue) /\ spool' = spool /\ event' = event
        /\ done' = done \cup {Head(queue)}
    BY <1>2 DEF Deliver, Apply
  <2>2. Len(queue') = Len(queue) - 1 /\ Len(queue) # 0
    BY <1>1, <2>1, HeadOfQueue, EmptySeq DEF TypeOK
  <2>3. \A k \in 1..Len(queue') : queue'[k] = Len(event') - Len(queue') + k
    BY <2>1, <2>2, HeadOfQueue
  <2>4. /\ \A k \in 1..Len(spool') : /\ spool'[k] <= Len(event') - Len(queue')
                                    /\ spool'[k] \notin done'
        /\ \A e \in done' : e <= Len(event') - Len(queue')
    BY <1>1, <2>1, <2>2, HeadOfQueue DEF QueueOK
  <2>. QED BY <1>1, <2>1, <2>2, <2>3, <2>4 DEF QueueOK
<1>3. CASE Divert
  <2>1. /\ queue # <<>> /\ queue' = Tail(queue) /\ spool' = Append(spool, Head(queue))
        /\ event' = event /\ done' = done
    BY <1>3 DEF Divert
  <2>2. Len(queue') = Len(queue) - 1 /\ Len(queue) # 0
    BY <1>1, <2>1, HeadOfQueue, EmptySeq DEF TypeOK
  <2>3. /\ Len(spool') = Len(spool) + 1 /\ spool'[Len(spool) + 1] = Head(queue)
        /\ \A k \in 1..Len(spool) : spool'[k] = spool[k]
    BY <2>1, HeadOfQueue DEF TypeOK
  <2>4. \A k \in 1..Len(queue') : queue'[k] = Len(event') - Len(queue') + k
    BY <2>1, <2>2, HeadOfQueue
  <2>5. /\ \A k \in 1..Len(spool') : /\ spool'[k] <= Len(event') - Len(queue')
                                    /\ spool'[k] \notin done'
        /\ \A e \in done' : e <= Len(event') - Len(queue')
    BY <1>1, <2>1, <2>2, <2>3, HeadOfQueue DEF QueueOK
  <2>6. \A j, k \in 1..Len(spool') : spool'[j] = spool'[k] => j = k
    BY <1>1, <2>1, <2>3, HeadOfQueue DEF QueueOK
  <2>. QED BY <1>1, <2>1, <2>2, <2>4, <2>5, <2>6 DEF QueueOK
<1>4. CASE Replay
  <2>1. /\ spool # <<>> /\ spool' = Tail(spool) /\ queue' = queue /\ event' = event
        /\ done' = done \cup {Head(spool)}
    BY <1>4 DEF Replay, Apply
  <2>2. /\ Len(spool') = Len(spool) - 1 /\ 1 \in 1..Len(spool) /\ Head(spool) = spool[1]
        /\ \A k \in 1..Len(spool') : spool'[k] = spool[k + 1]
    BY <2>1, HeadOfSpool
  <2>3. \A k \in 1..Len(spool') : k + 1 \in 1..Len(spool) /\ k + 1 # 1
    BY <1>1, <2>2
  <2>4. \A k \in 1..Len(spool') : /\ spool'[k] <= Len(event) - Len(queue)
                                 /\ spool'[k] \notin done'
    BY <2>1, <2>2, <2>3 DEF QueueOK
  <2>5. \A j, k \in 1..Len(spool') : spool'[j] = spool'[k] => j = k
    <3>1. ASSUME NEW j \in 1..Len(spool'), NEW k \in 1..Len(spool'), spool'[j] = spool'[k]
          PROVE  j = k
      <4>1. j + 1 = k + 1
        BY <2>2, <2>3, <3>1 DEF QueueOK
      <4>2. j \in Nat /\ k \in Nat
        BY <1>1, <2>2
      <4>. QED BY <4>1, <4>2
    <3>. QED BY <3>1
  <2>6. \A e \in done' : e <= Len(event) - Len(queue)
    BY <2>1, <2>2 DEF QueueOK
  <2>. QED BY <2>1, <2>4, <2>5, <2>6 DEF QueueOK
<1>. QED BY <1>2, <1>3, <1>4

LEMMA OrderStep ==
  ASSUME "failure" \notin Faults, OrderInv, [Next]_vars
  PROVE  OrderInv'
<1>1. TypeOK' /\ NoFutureRows'
  BY TypeStep, FutureStep DEF OrderInv
<1>2. CASE Deliver \/ Replay
  <2>1. PICK e \in DOMAIN event \ done : Apply(e)
    <3>1. Deliver => queue # <<>> /\ Apply(Head(queue))
      BY DEF Deliver
    <3>2. Replay => spool # <<>> /\ Apply(Head(spool))
      BY DEF Replay
    <3>. QED BY <1>2, <3>1, <3>2, HeadOfQueue, HeadOfSpool DEF OrderInv
  <2>2. QueueOK' /\ event' = event
    BY <1>2, PlacesStep DEF OrderInv
  <2>. QED BY <1>1, <2>1, <2>2, ApplyReceipts, ApplyRows DEF OrderInv
<1>3. ASSUME NEW failed \in SUBSET Item, Collect(failed)
      PROVE  OrderInv'
  <2>. TypeOK /\ QueueOK
    BY DEF OrderInv
  <2>1. UNCHANGED <<source, done, now>> /\ done \subseteq 1..Len(event)
    BY <1>3, Typed DEF Collect, OrderInv, TypeOK
  <2>2. RowsOK'
    BY <1>3, <2>1, CollectPlaces, QuietRows
  <2>3. /\ Len(event) \in Nat /\ DOMAIN event = 1..Len(event)
        /\ DOMAIN event' = 1..(Len(event) + 1) /\ now \in Nat
    <3>1. Len(event) \in Nat /\ DOMAIN event = 1..Len(event) /\ now \in Nat
      BY Typed DEF OrderInv
    <3>2. event' \in Seq(Event')
      BY <1>1 DEF TypeOK, Event
    <3>3. DOMAIN event' = 1..Len(event')
      BY <3>2, LenProperties
    <3>. QED BY <1>3, <3>1, <3>3, CollectPlaces
  <2>4. ReceiptsOK'
    <3>. DEFINE new == Len(event) + 1
    <3>1. /\ ReceiptsOK /\ done' = done /\ now' = now /\ source' = source
          /\ received'[new] = 0 /\ new \notin done
          /\ \A e \in 1..Len(event) : received'[e] = received[e]
      BY <1>3, <2>1, <2>3, CollectPlaces DEF OrderInv
    <3>2. \A e \in 1..new : e \in 1..Len(event) \/ e = new
      BY <2>3
    <3>. HIDE DEF new
    <3>3. \A e \in 1..Len(event) :
            received'[e] <= now' /\ (received'[e] # 0 <=> e \in done')
      BY <2>3, <3>1 DEF ReceiptsOK
    <3>4. received'[new] <= now' /\ (received'[new] # 0 <=> new \in done')
      BY <2>3, <3>1
    <3>5. \A d, e \in done' : received'[d] = received'[e] => d = e
      BY <2>1, <3>1 DEF ReceiptsOK
    <3>6. \A i \in Item : source'[i].received <= now'
      BY <3>1 DEF ReceiptsOK
    <3>7. DOMAIN event' = 1..new
      BY <2>3 DEF new
    <3>. QED BY <3>2, <3>3, <3>4, <3>5, <3>6, <3>7 DEF ReceiptsOK
  <2>. QED BY <1>1, <1>3, <2>2, <2>4, CollectPlaces DEF OrderInv
<1>4. CASE UNCHANGED <<event, received, done, source>> /\ now' \in {now, now + 1}
           /\ (UNCHANGED <<queue, spool>> \/ Divert)
  <2>1. RowsOK'
    BY <1>4, QuietRows
  <2>2. QueueOK'
    BY <1>4, PlacesStep DEF OrderInv, QueueOK
  <2>3. ReceiptsOK'
    <3>1. /\ now \in Nat /\ \A e \in DOMAIN event : received[e] \in Nat
          /\ \A i \in Item : source[i].received \in Nat
      BY Typed DEF OrderInv, Row
    <3>. QED BY <1>4, <3>1 DEF ReceiptsOK, OrderInv
  <2>. QED BY <1>1, <2>1, <2>2, <2>3 DEF OrderInv
<1>5. \/ Deliver \/ Replay
      \/ \E failed \in SUBSET Item : Collect(failed)
      \/ /\ UNCHANGED <<event, received, done, source>> /\ now' \in {now, now + 1}
         /\ UNCHANGED <<queue, spool>> \/ Divert
  BY DEF Next, HostChange, SetClock, SaveHash, SaveInventory, AgentCrash, CacheDamaged,
         Divert, Fail, Tick, vars, agentVars
<1>. QED BY <1>2, <1>3, <1>4, <1>5

LEMMA OrderInit ==
  ASSUME Init
  PROVE  OrderInv
<1>1. QueueOK /\ ReceiptsOK
  BY DEF Init, QueueOK, ReceiptsOK, NoRow, Poisoned
<1>2. NoFutureRows
  BY DEF Init, NoFutureRows, NoRow, Poisoned
<1>3. \A i \in Item : Upserts(i) = {}
  BY DEF Init, Upserts
<1>4. ASSUME NEW i \in Item
      PROVE  /\ source[i].state # "deleted" /\ source[i].received = 0
             /\ source[i].state = "active" =>
                  source[i].created = FarAhead /\ source[i].collected = FarAhead
  <2>1. source[i] = NoRow \/ \E v \in Observed : source[i] = Poisoned(v)
    BY DEF Init
  <2>2. CASE source[i] = NoRow
    BY <2>2 DEF NoRow
  <2>3. ASSUME NEW v \in Observed, source[i] = Poisoned(v)
        PROVE  /\ source[i].state = "active" /\ source[i].received = 0
               /\ source[i].created = FarAhead /\ source[i].collected = FarAhead
    BY <2>3 DEF Poisoned, FarAhead
  <2>. QED BY <2>1, <2>2, <2>3
<1>5. RowsOK
  BY <1>3, <1>4 DEF RowsOK, UntouchedOK
<1>. QED BY <1>1, <1>2, <1>5, TypeInit DEF OrderInv

-----------------------------------------------------------------------------
(***************************************************************************)
(* Convergence, while the Agent's clock stays at one tolerated distance from *)
(* the Server's and every event is processed in turn: then each event is      *)
(* newer than what its rows hold, and the rows are what the Agent has told.   *)
(***************************************************************************)

(* The events the Agent has still to deliver, and those about item i.         *)
Processed  == Len(event) - Len(queue)
Waiting    == {e \in DOMAIN event : e > Processed}
Pending(i) == {e \in Waiting : event[e].record[i] # Keep}

(* What the Agent's events so far add up to, and what one record says.        *)
Reported     == IF cycle.at = "idle" THEN prev ELSE cycle.inventory
Says(record) == IF record = Gone THEN Absent ELSE record

(* Events are dated in their order, never further ahead of their receipt     *)
(* than the tolerated skew; of the waiting ones only the first may have been  *)
(* received, by an attempt that failed.                                      *)
ClockOK ==
  /\ \A e \in DOMAIN event :
       /\ event[e].created <= now + skew /\ received[e] <= now
       /\ received[e] # 0 => event[e].created <= received[e] + Skew
  /\ \A d, e \in DOMAIN event : d <= e => event[d].created <= event[e].created
  /\ \A e \in Waiting : received[e] # 0 => e = Processed + 1

(* A time that gives way to every event still to come.                       *)
Outdated(t) ==
  \/ t = FarAhead
  \/ t <= now + skew /\ \A e \in Waiting : t <= event[e].created

TimesOK ==
  \A i \in Item :
    /\ Outdated(source[i].created) /\ Outdated(source[i].collected)
    /\ source[i].received <= now
    /\ \A e \in Waiting : received[e] # 0 => source[i].received < received[e]

(* The Server shows what the Agent has told of an item, unless an event about *)
(* it waits: the last of these then says it.                                  *)
ToldOK(i) ==
  /\ Pending(i) = {} => View[i] = Reported[i]
  /\ \A e \in Pending(i) :
       (\A d \in Pending(i) : d <= e) => Reported[i] = Says(event[e].record[i])

(* Nothing is diverted, and until the first cycle ends nothing is told.       *)
AgentOK ==
  /\ spool = <<>>
  /\ hashed \/ (IF cycle.at = "idle" THEN prev = Nothing ELSE cycle.at = "hash")

SyncInv ==
  TypeOK /\ QueueOK /\ ClockOK /\ TimesOK /\ AgentOK /\ \A i \in Item : ToldOK(i)

(* What an event records of an item is the change of what the Agent believes. *)
LEMMA CollectSays ==
  ASSUME TypeOK, hashed \/ prev = Nothing, NEW failed \in SUBSET Item, Collect(failed)
  PROVE  /\ Len(event') = Len(event) + 1
         /\ event'[Len(event) + 1].created = now + skew
         /\ \A i \in Item :
              LET record == event'[Len(event) + 1].record[i] IN
              Reported'[i] = IF record = Keep THEN prev[i] ELSE Says(record)
<1>. DEFINE seen    == [i \in Item |-> IF i \in failed THEN Absent ELSE host[i]]
            trusted == failed = {}
            record  == IF hashed THEN Diff(seen, trusted) ELSE SnapshotRecords(seen)
            new     == [full |-> ~hashed, created |-> now + skew, record |-> record]
<1>1. seen \in [Item -> Observed] /\ prev \in [Item -> Observed]
  BY DEF TypeOK, Observed
<1>2. /\ event' = Append(event, new)
      /\ cycle' = [at |-> "hash", inventory |-> Effective(seen, trusted)]
  BY DEF Collect
<1>. HIDE DEF seen
<1>3. Reported' = Effective(seen, trusted)
  BY <1>2 DEF Reported
<1>4. Keep \notin Value /\ Gone \notin Value /\ Gone # Keep
  BY InventoryAssumption DEF Keep, Gone
<1>5. ASSUME NEW i \in Item
      PROVE  Effective(seen, trusted)[i] =
               IF record[i] = Keep THEN prev[i] ELSE Says(record[i])
  <2>1. seen[i] \in Value \cup {Absent} /\ prev[i] \in Value \cup {Absent}
    BY <1>1 DEF Observed
  <2>2. Effective(seen, trusted)[i] = IF trusted \/ seen[i] # Absent THEN seen[i] ELSE prev[i]
    BY DEF Effective
  <2>3. CASE hashed
    <3>1. record[i] = IF seen[i] = prev[i]     THEN Keep
                      ELSE IF seen[i] # Absent THEN seen[i]
                      ELSE IF trusted          THEN Gone
                      ELSE Keep
      BY <2>3 DEF Diff
    <3>. HIDE DEF record, trusted
    <3>. QED BY <1>4, <2>1, <2>2, <3>1 DEF Says
  <2>4. CASE ~hashed
    <3>1. record[i] = IF seen[i] = Absent THEN Keep ELSE seen[i]
      BY <2>4 DEF SnapshotRecords
    <3>2. prev[i] = Absent
      BY <2>4 DEF Nothing
    <3>. HIDE DEF record, trusted
    <3>. QED BY <1>4, <2>1, <2>2, <3>1, <3>2 DEF Says
  <2>. QED BY <2>3, <2>4
<1>. HIDE DEF record
<1>6. Len(event') = Len(event) + 1 /\ event'[Len(event) + 1] = new
  BY <1>2 DEF TypeOK
<1>. QED BY <1>3, <1>5, <1>6

(* An event newer than a row decides what the row shows.                      *)
LEMMA NewerDecides ==
  ASSUME NEW row \in Row, NEW record \in Value \cup {Gone}, NEW c \in Nat, NEW at \in Nat,
         NewerThan(row, c, at), row.collected <= c \/ row.collected > at + Skew
  PROVE  LET new == Recorded(row, record, c, at) IN
         /\ (IF new.state = "active" THEN new.value ELSE Absent) = Says(record)
         /\ \/ new = row
            \/ /\ new.created = c /\ new.received = at
               /\ new.collected \in {c, row.collected}
<1>1. Keep \notin Value /\ Gone \notin Value /\ Keep # Gone
  BY InventoryAssumption DEF Keep, Gone
<1>2. CASE record = Gone
  <2>1. Recorded(row, record, c, at) = Remove(row, c, at)
    BY <1>1, <1>2 DEF Recorded
  <2>. QED BY <1>2, <2>1 DEF Remove, Says, Row
<1>3. CASE record \in Value
  <2>1. Recorded(row, record, c, at) = Stored(record, c, at)
    BY <1>1, <1>3 DEF Recorded, Upsert
  <2>. QED BY <1>1, <1>3, <2>1 DEF Stored, Says
<1>. QED BY <1>2, <1>3

(* The waiting events after each step.                                       *)
LEMMA WaitingAfterDeliver ==
  ASSUME TypeOK, QueueOK, Deliver
  PROVE  /\ Head(queue) = Processed + 1 /\ Head(queue) \in Waiting
         /\ Processed \in Nat /\ Processed' = Processed + 1
         /\ Waiting' = Waiting \ {Head(queue)}
         /\ \A e \in Waiting : e >= Head(queue)
<1>1. /\ Len(event) \in Nat /\ Len(queue) \in Nat /\ DOMAIN event = 1..Len(event)
      /\ Len(queue) <= Len(event)
  BY Typed DEF QueueOK
<1>2. /\ queue # <<>> /\ queue' = Tail(queue) /\ event' = event
  BY DEF Deliver
<1>3. Head(queue) = Processed + 1 /\ Head(queue) \in DOMAIN event /\ Len(Tail(queue)) = Len(queue) - 1
  BY <1>2, HeadOfQueue DEF Processed
<1>4. Processed \in Nat /\ Processed' = Processed + 1
  BY <1>1, <1>2, <1>3 DEF Processed
<1>5. Waiting' = {e \in 1..Len(event) : e > Processed + 1}
  BY <1>1, <1>2, <1>4 DEF Waiting
<1>6. Waiting = {e \in 1..Len(event) : e > Processed}
  BY <1>1 DEF Waiting
<1>. HIDE DEF Processed
<1>. QED BY <1>1, <1>3, <1>4, <1>5, <1>6

LEMMA WaitingAfterCollect ==
  ASSUME TypeOK, QueueOK, NEW failed \in SUBSET Item, Collect(failed)
  PROVE  /\ Processed \in Nat /\ Processed' = Processed
         /\ Waiting' = Waiting \cup {Len(event) + 1} /\ Waiting \subseteq 1..Len(event)
         /\ DOMAIN event = 1..Len(event) /\ DOMAIN event' = 1..(Len(event) + 1)
         /\ Len(event) \in Nat
<1>1. /\ Len(event) \in Nat /\ Len(queue) \in Nat /\ DOMAIN event = 1..Len(event)
      /\ Len(queue) <= Len(event)
  BY Typed DEF QueueOK
<1>2. Len(event') = Len(event) + 1 /\ TypeOK'
  BY CollectPlaces, CollectEffect
<1>3. queue' = Append(queue, Len(event) + 1)
  BY DEF Collect
<1>4. Len(queue') = Len(queue) + 1
  BY <1>3 DEF TypeOK
<1>5. DOMAIN event' = 1..(Len(event) + 1)
  <2>1. event' \in Seq(Event')
    BY <1>2 DEF TypeOK, Event
  <2>. QED BY <1>2, <2>1, LenProperties
<1>6. Processed \in Nat /\ Processed' = Processed /\ Processed <= Len(event)
  BY <1>1, <1>2, <1>4 DEF Processed
<1>. HIDE DEF Processed
<1>7. Waiting = {e \in 1..Len(event) : e > Processed}
  BY <1>1 DEF Waiting
<1>8. Waiting' = {e \in 1..(Len(event) + 1) : e > Processed}
  BY <1>5, <1>6 DEF Waiting
<1>. QED BY <1>1, <1>5, <1>6, <1>7, <1>8

LEMMA SyncDeliver ==
  ASSUME Ahead \subseteq 0..Skew, SyncInv, Deliver
  PROVE  SyncInv'
<1>. DEFINE e  == Head(queue)
            at == ReceivedAt(e)
            c  == event[e].created
<1>1. TypeOK /\ QueueOK /\ ClockOK /\ TimesOK /\ AgentOK /\ TypeOK' /\ QueueOK'
  BY TypeStep, PlacesStep DEF SyncInv, Next
<1>2. /\ Apply(e) /\ UNCHANGED <<skew, hashed, prev, cycle, event, spool>>
  BY DEF Deliver, agentVars
<1>3. /\ e = Processed + 1 /\ e \in Waiting /\ Processed \in Nat
      /\ Processed' = Processed + 1 /\ Waiting' = Waiting \ {e}
      /\ \A f \in Waiting : f >= e
      /\ Waiting \subseteq DOMAIN event
  BY <1>1, WaitingAfterDeliver DEF Waiting
<1>. HIDE DEF e
<1>4. /\ now \in Nat /\ skew \in Nat /\ skew <= Skew /\ Skew \in Nat /\ MaxNow \in Nat
      /\ DOMAIN event \subseteq Nat
      /\ \A f \in DOMAIN event : event[f].created \in Nat /\ received[f] \in Nat
  <2>1. /\ now \in 0..MaxNow /\ skew \in Nat /\ Skew \in Nat /\ MaxNow \in Nat
        /\ DOMAIN event = 1..Len(event) /\ Len(event) \in Nat
    BY <1>1, Typed, InventoryAssumption
  <2>2. skew \in 0..Skew
    BY <1>1 DEF TypeOK
  <2>3. \A f \in DOMAIN event : event[f].created \in Nat /\ received[f] \in 0..MaxNow
    BY <1>1, Typed DEF Event
  <2>. QED BY <2>1, <2>2, <2>3
<1>5. /\ at \in Nat /\ at <= now' /\ now' \in {now, now + 1} /\ at <= MaxNow
      /\ received' = [received EXCEPT ![e] = at] /\ at # 0
      /\ received[e] # 0 => at = received[e]
      /\ received[e] = 0 => at = now + 1
  BY <1>1, <1>2, <1>3, <1>4 DEF Apply, Stamp, ReceivedAt, ClockOK
<1>. HIDE DEF at
<1>6. c \in Nat /\ c <= at + Skew /\ c <= now + skew
  BY <1>1, <1>3, <1>4, <1>5 DEF ClockOK
<1>7. EffectiveTimestamp(c, at) = c
  BY <1>4, <1>5, <1>6 DEF EffectiveTimestamp
<1>8. \A i \in Item : source'[i] = Recorded(source[i], event[e].record[i], c, at)
  BY <1>1, <1>2, <1>3, <1>7, ApplyEffect DEF AppliedRow, at
<1>9. received'[e] = at /\ \A f \in DOMAIN event : f # e => received'[f] = received[f]
  BY <1>1, <1>3, <1>5 DEF TypeOK
<1>10. \A f \in Waiting' : f \in Waiting /\ received'[f] = 0 /\ c <= event[f].created
  <2>. TAKE f \in Waiting'
  <2>1. f \in Waiting /\ f # e /\ f >= e /\ f \in DOMAIN event /\ e \in DOMAIN event
    BY <1>3
  <2>2. received[f] = 0 /\ c <= event[f].created
    BY <1>1, <1>3, <2>1 DEF ClockOK
  <2>. QED BY <1>9, <2>1, <2>2
<1>11. ClockOK'
  <2>1. ASSUME NEW f \in DOMAIN event
        PROVE  /\ event[f].created <= now' + skew /\ received'[f] <= now'
               /\ received'[f] # 0 => event[f].created <= received'[f] + Skew
    <3>1. CASE f = e
      BY <1>4, <1>5, <1>6, <1>9, <3>1
    <3>2. CASE f # e
      BY <1>1, <1>4, <1>5, <1>9, <3>2 DEF ClockOK
    <3>. QED BY <3>1, <3>2
  <2>2. \A d, f \in DOMAIN event : d <= f => event[d].created <= event[f].created
    BY <1>1 DEF ClockOK
  <2>. QED BY <1>2, <1>10, <2>1, <2>2 DEF ClockOK
<1>12. ASSUME NEW i \in Item
       PROVE  /\ Outdated(source[i].created) /\ Outdated(source[i].collected)
              /\ source[i] \in Row /\ source[i].received < at /\ source[i].received <= now
  BY <1>1, <1>3, <1>4, <1>5, Typed DEF TimesOK, Row
<1>13. ASSUME NEW i \in Item
       PROVE  /\ NewerThan(source[i], c, at)
              /\ source[i].collected <= c \/ source[i].collected > at + Skew
  <2>1. ASSUME NEW t \in Nat, Outdated(t)
        PROVE  t <= c \/ t > at + Skew
    BY <1>3, <1>4, <1>5, <2>1 DEF Outdated, FarAhead
  <2>2. source[i].created \in Nat /\ source[i].collected \in Nat
    BY <1>12 DEF Row
  <2>. QED BY <1>6, <1>12, <2>1, <2>2 DEF NewerThan
<1>14. ASSUME NEW t \in Nat, Outdated(t) \/ t = c
       PROVE  t = FarAhead \/ (t <= now' + skew /\ \A f \in Waiting' : t <= event[f].created)
  <2>1. CASE t = c
    BY <1>4, <1>5, <1>6, <1>10, <2>1
  <2>2. CASE Outdated(t)
    BY <1>4, <1>5, <1>10, <2>2 DEF Outdated
  <2>. QED BY <1>14, <2>1, <2>2
<1>15. event[e].record \in [Item -> Value \cup {Keep, Gone}]
  BY <1>1, <1>3, Typed DEF Event
<1>16. ASSUME NEW i \in Item
       PROVE  /\ \A t \in {source'[i].created, source'[i].collected} :
                   t \in Nat /\ (Outdated(t) \/ t = c)
              /\ source'[i].received <= now'
              /\ event[e].record[i] = Keep => source'[i] = source[i]
              /\ event[e].record[i] # Keep =>
                   (IF source'[i].state = "active" THEN source'[i].value ELSE Absent)
                     = Says(event[e].record[i])
  <2>1. CASE event[e].record[i] = Keep
    <3>1. source'[i] = source[i]
      BY <1>8, <2>1 DEF Recorded
    <3>. QED BY <1>4, <1>5, <1>12, <2>1, <3>1 DEF Row
  <2>2. CASE event[e].record[i] # Keep
    <3>1. event[e].record[i] \in Value \cup {Gone}
      BY <1>15, <2>2
    <3>2. /\ (IF source'[i].state = "active" THEN source'[i].value ELSE Absent)
               = Says(event[e].record[i])
          /\ \/ source'[i] = source[i]
             \/ /\ source'[i].created = c /\ source'[i].received = at
                /\ source'[i].collected \in {c, source[i].collected}
      BY <1>5, <1>6, <1>8, <1>12, <1>13, <3>1, NewerDecides
    <3>. QED BY <1>4, <1>5, <1>6, <1>12, <2>2, <3>2 DEF Row
  <2>. QED BY <2>1, <2>2
<1>17. TimesOK'
  <2>. SUFFICES ASSUME NEW i \in Item
       PROVE  /\ Outdated(source[i].created)' /\ Outdated(source[i].collected)'
              /\ source'[i].received <= now'
              /\ \A f \in Waiting' : received'[f] # 0 => source'[i].received < received'[f]
    BY DEF TimesOK
  <2>1. Outdated(source[i].created)' /\ Outdated(source[i].collected)'
    BY <1>2, <1>14, <1>16 DEF Outdated, FarAhead
  <2>. QED BY <1>10, <1>16, <2>1
<1>18. ASSUME NEW i \in Item
       PROVE  ToldOK(i)'
  <2>. DEFINE record == event[e].record[i]
  <2>1. /\ ToldOK(i) /\ Reported' = Reported
        /\ View[i] = IF source[i].state = "active" THEN source[i].value ELSE Absent
        /\ View'[i] = IF source'[i].state = "active" THEN source'[i].value ELSE Absent
    BY <1>2 DEF SyncInv, View, Reported
  <2>2. Pending(i)' = Pending(i) \ {e} /\ (e \in Pending(i) <=> record # Keep)
        /\ \A d \in Pending(i) : d >= e
    BY <1>2, <1>3 DEF Pending
  <2>3. ASSUME Pending(i)' = {}
        PROVE  View'[i] = Reported'[i]
    <3>1. CASE record = Keep
      BY <1>16, <2>1, <2>2, <2>3, <3>1 DEF ToldOK
    <3>2. CASE record # Keep
      <4>1. Pending(i) = {e} /\ e <= e
        BY <1>3, <2>2, <2>3, <3>2
      <4>2. Reported[i] = Says(record)
        BY <2>1, <4>1 DEF ToldOK
      <4>. QED BY <1>16, <2>1, <3>2, <4>2
    <3>. QED BY <3>1, <3>2
  <2>4. ASSUME NEW f \in Pending(i)', \A d \in Pending(i)' : d <= f
        PROVE  Reported'[i] = Says(event'[f].record[i])
    <3>1. f \in Pending(i) /\ \A d \in Pending(i) : d <= f
      BY <2>2, <2>4
    <3>. QED BY <1>2, <2>1, <3>1 DEF ToldOK
  <2>. QED BY <2>3, <2>4 DEF ToldOK
<1>19. AgentOK'
  BY <1>1, <1>2 DEF AgentOK, Nothing
<1>. QED BY <1>1, <1>11, <1>17, <1>18, <1>19 DEF SyncInv

LEMMA SyncCollect ==
  ASSUME SyncInv, NEW failed \in SUBSET Item, Collect(failed)
  PROVE  SyncInv'
<1>. DEFINE n == Len(event) + 1
<1>1. /\ TypeOK /\ QueueOK /\ ClockOK /\ TimesOK /\ AgentOK
      /\ TypeOK' /\ QueueOK'
  BY CollectEffect, CollectPlaces DEF SyncInv
<1>2. /\ UNCHANGED <<skew, hashed, spool, source, now>>
      /\ cycle.at = "idle" /\ cycle'.at = "hash" /\ (hashed \/ prev = Nothing)
  BY <1>1 DEF Collect, AgentOK
<1>3. /\ event'[n].created = now + skew
      /\ \A i \in Item : Reported'[i] = IF event'[n].record[i] = Keep THEN Reported[i]
                                        ELSE Says(event'[n].record[i])
  BY <1>1, <1>2, CollectSays DEF Reported
<1>4. /\ received'[n] = 0
      /\ \A e \in 1..Len(event) : event'[e] = event[e] /\ received'[e] = received[e]
  BY <1>1, CollectPlaces
<1>5. /\ Processed' = Processed
      /\ Waiting' = Waiting \cup {n} /\ Waiting \subseteq 1..Len(event)
      /\ DOMAIN event = 1..Len(event) /\ Len(event) \in Nat
      /\ DOMAIN event' = DOMAIN event \cup {n} /\ n \in Nat
      /\ \A e \in DOMAIN event : e < n
  <2>1. /\ Processed' = Processed
        /\ Waiting' = Waiting \cup {n} /\ Waiting \subseteq 1..Len(event)
        /\ DOMAIN event = 1..Len(event) /\ DOMAIN event' = 1..n /\ Len(event) \in Nat
    BY <1>1, WaitingAfterCollect
  <2>2. n \in Nat /\ 1..n = (1..Len(event)) \cup {n} /\ \A e \in 1..Len(event) : e < n
    BY <2>1
  <2>. QED BY <2>1, <2>2, Zenon
<1>6. now \in Nat /\ skew \in Nat /\ n \notin DOMAIN event
  BY <1>1, <1>5, Typed
<1>. HIDE DEF n
<1>7. ClockOK'
  <2>1. ASSUME NEW e \in DOMAIN event'
        PROVE  /\ event'[e].created <= now + skew /\ received'[e] <= now
               /\ received'[e] # 0 => event'[e].created <= received'[e] + Skew
    <3>1. CASE e = n
      BY <1>3, <1>4, <1>6, <3>1
    <3>2. CASE e \in DOMAIN event
      BY <1>1, <1>4, <1>5, <3>2 DEF ClockOK
    <3>. QED BY <1>5, <3>1, <3>2
  <2>2. ASSUME NEW d \in DOMAIN event', NEW e \in DOMAIN event', d <= e
        PROVE  event'[d].created <= event'[e].created
    <3>1. CASE e = n
      BY <1>3, <2>1, <3>1
    <3>2. CASE e \in DOMAIN event
      <4>1. d \in DOMAIN event
        BY <1>5, <2>2, <3>2
      <4>. QED BY <1>1, <1>4, <1>5, <2>2, <3>2, <4>1 DEF ClockOK
    <3>. QED BY <1>5, <3>1, <3>2
  <2>3. \A e \in Waiting' : received'[e] # 0 => e = Processed' + 1
    BY <1>1, <1>4, <1>5 DEF ClockOK
  <2>. QED BY <1>2, <2>1, <2>2, <2>3 DEF ClockOK
<1>8. TimesOK'
  <2>. SUFFICES ASSUME NEW i \in Item
       PROVE  /\ Outdated(source[i].created)' /\ Outdated(source[i].collected)'
              /\ source'[i].received <= now'
              /\ \A e \in Waiting' : received'[e] # 0 => source'[i].received < received'[e]
    BY DEF TimesOK
  <2>1. Outdated(source[i].created) /\ Outdated(source[i].collected)
    BY <1>1 DEF TimesOK
  <2>2. Outdated(source[i].created)' /\ Outdated(source[i].collected)'
    BY <1>2, <1>3, <1>4, <1>5, <2>1 DEF Outdated, FarAhead
  <2>3. \A e \in Waiting' : received'[e] # 0 => e \in Waiting /\ received'[e] = received[e]
    BY <1>4, <1>5
  <2>. QED BY <1>1, <1>2, <2>2, <2>3 DEF TimesOK
<1>9. AgentOK'
  BY <1>1, <1>2 DEF AgentOK
<1>10. ASSUME NEW i \in Item
       PROVE  ToldOK(i)'
  <2>. DEFINE record == event'[n].record[i]
  <2>1. ToldOK(i) /\ View' = View
    BY <1>2 DEF SyncInv, View
  <2>2. Pending(i)' = IF record = Keep THEN Pending(i) ELSE Pending(i) \cup {n}
    BY <1>4, <1>5 DEF Pending
  <2>3. Pending(i) \subseteq 1..Len(event)
    BY <1>5 DEF Pending
  <2>4. ASSUME Pending(i)' = {}
        PROVE  View'[i] = Reported'[i]
    BY <1>3, <2>1, <2>2, <2>4 DEF ToldOK
  <2>5. ASSUME NEW e \in Pending(i)', \A d \in Pending(i)' : d <= e
        PROVE  Reported'[i] = Says(event'[e].record[i])
    <3>1. CASE record = Keep
      <4>1. e \in Pending(i) /\ \A d \in Pending(i) : d <= e
        BY <2>2, <2>5, <3>1
      <4>. QED BY <1>3, <1>4, <2>1, <2>3, <3>1, <4>1 DEF ToldOK
    <3>2. CASE record # Keep
      <4>1. n <= e /\ (e = n \/ e < n)
        BY <1>5, <2>2, <2>3, <2>5, <3>2
      <4>2. e = n
        <5>1. e \in Nat
          BY <1>5, <2>2, <2>3, <3>2
        <5>. QED BY <1>5, <4>1, <5>1
      <4>. QED BY <1>3, <3>2, <4>2
    <3>. QED BY <3>1, <3>2
  <2>. QED BY <2>4, <2>5 DEF ToldOK
<1>. QED BY <1>1, <1>7, <1>8, <1>9, <1>10 DEF SyncInv

LEMMA SyncFail ==
  ASSUME Ahead \subseteq 0..Skew, SyncInv, NEW e \in DOMAIN event, Fail(e)
  PROVE  SyncInv'
<1>1. TypeOK /\ QueueOK /\ ClockOK /\ TimesOK /\ AgentOK
  BY DEF SyncInv
<1>2. /\ UNCHANGED <<skew, hashed, prev, cycle, queue, event, spool, source, done>>
      /\ received[e] = 0 /\ queue # <<>> /\ e = Head(queue)
  BY <1>1 DEF Fail, AgentOK, agentVars
<1>3. TypeOK'
  BY <1>1, TypeStep DEF Next
<1>4. /\ now \in Nat /\ skew \in Nat /\ skew <= Skew /\ Skew \in Nat
      /\ \A f \in DOMAIN event : event[f].created \in Nat /\ received[f] \in Nat
      /\ \A i \in Item : source[i].received \in Nat
  <2>1. skew \in 0..Skew
    BY <1>1 DEF TypeOK
  <2>2. \A f \in DOMAIN event : event[f].created \in Nat /\ received[f] \in 0..MaxNow
    BY <1>1, Typed DEF Event
  <2>3. \A i \in Item : source[i].received \in Nat
    BY <1>1, Typed DEF Row
  <2>4. now \in 0..MaxNow /\ MaxNow \in Nat /\ Skew \in Nat
    BY <1>1, Typed, InventoryAssumption
  <2>. QED BY <2>1, <2>2, <2>3, <2>4
<1>5. /\ now' = now + 1
      /\ received'[e] = now + 1 /\ \A f \in DOMAIN event : f # e => received'[f] = received[f]
  BY <1>1, <1>2, <1>4 DEF Fail, Stamp, ReceivedAt, TypeOK
<1>6. /\ Processed' = Processed /\ Waiting' = Waiting /\ e = Processed + 1
      /\ Waiting \subseteq DOMAIN event
  BY <1>1, <1>2, HeadOfQueue DEF Processed, Waiting
<1>7. ClockOK'
  <2>1. ASSUME NEW f \in DOMAIN event
        PROVE  /\ event[f].created <= now' + skew /\ received'[f] <= now'
               /\ received'[f] # 0 => event[f].created <= received'[f] + Skew
    <3>1. event[f].created <= now + skew /\ received[f] <= now
          /\ (received[f] # 0 => event[f].created <= received[f] + Skew)
      BY <1>1 DEF ClockOK
    <3>. QED BY <1>4, <1>5, <3>1
  <2>2. \A f \in Waiting' : received'[f] # 0 => f = Processed' + 1
    BY <1>1, <1>5, <1>6 DEF ClockOK
  <2>3. \A d, f \in DOMAIN event : d <= f => event[d].created <= event[f].created
    BY <1>1 DEF ClockOK
  <2>. QED BY <1>2, <2>1, <2>2, <2>3 DEF ClockOK
<1>8. TimesOK'
  <2>. SUFFICES ASSUME NEW i \in Item
       PROVE  /\ Outdated(source[i].created)' /\ Outdated(source[i].collected)'
              /\ source'[i].received <= now'
              /\ \A f \in Waiting' : received'[f] # 0 => source'[i].received < received'[f]
    BY DEF TimesOK
  <2>1. /\ Outdated(source[i].created) /\ Outdated(source[i].collected)
        /\ source[i].received <= now /\ source[i].created \in Nat /\ source[i].collected \in Nat
        /\ \A f \in Waiting : received[f] # 0 => source[i].received < received[f]
    BY <1>1, Typed DEF TimesOK, Row
  <2>2. \A t \in Nat : t <= now + skew => t <= now' + skew'
    BY <1>2, <1>4, <1>5
  <2>3. Outdated(source[i].created)' /\ Outdated(source[i].collected)'
    BY <1>2, <1>6, <2>1, <2>2 DEF Outdated, FarAhead
  <2>. QED BY <1>2, <1>4, <1>5, <1>6, <2>1, <2>3
<1>9. AgentOK' /\ QueueOK' /\ \A i \in Item : ToldOK(i)'
  BY <1>1, <1>2, <1>6
     DEF AgentOK, Nothing, QueueOK, SyncInv, ToldOK, View, Reported, Pending
<1>. QED BY <1>3, <1>7, <1>8, <1>9 DEF SyncInv

(* Time passes: what is in time stays in time.                               *)
LEMMA StillEarlier ==
  ASSUME NEW x \in Nat, NEW y \in Nat, NEW z \in Nat, x <= y
  PROVE  \A t \in Nat : t <= x + z => t <= y + z
  OBVIOUS

LEMMA SyncStep ==
  ASSUME NEW a \in 0..Skew, Ahead = {a}, Faults \subseteq {"failure"}, SyncInv, [Next]_vars
  PROVE  SyncInv'
<1>1. Ahead \subseteq 0..Skew
  OBVIOUS
<1>2. TypeOK' /\ TypeOK /\ QueueOK /\ ClockOK /\ TimesOK /\ AgentOK
  BY TypeStep DEF SyncInv
<1>3. CASE Deliver
  BY <1>1, <1>3, SyncDeliver
<1>4. ASSUME NEW failed \in SUBSET Item, Collect(failed) PROVE SyncInv'
  BY <1>4, SyncCollect
<1>5. ASSUME NEW e \in DOMAIN event, Fail(e) PROVE SyncInv'
  BY <1>1, <1>5, SyncFail
<1>6. CASE /\ UNCHANGED <<skew, queue, event, received, done, spool, source>>
           /\ Reported' = Reported /\ AgentOK' /\ now' \in {now, now + 1}
  <2>1. now \in Nat /\ skew \in Nat /\ now <= now' /\ now' \in Nat /\ skew' = skew
    BY <1>2, <1>6, Typed
  <2>2. Processed' = Processed /\ Waiting' = Waiting /\ QueueOK'
    BY <1>2, <1>6 DEF Processed, Waiting, QueueOK
  <2>3. \A t \in Nat : t <= now + skew => t <= now' + skew'
    BY <2>1, StillEarlier
  <2>4. \A e \in DOMAIN event : event[e].created \in Nat /\ received[e] \in Nat
    BY <1>2, Typed DEF Event
  <2>5. ClockOK'
    <3>1. \A t \in Nat : t <= now => t <= now'
      BY <2>1, <1>6
    <3>. QED BY <1>2, <1>6, <2>2, <2>3, <2>4, <3>1 DEF ClockOK
  <2>6. TimesOK'
    <3>. SUFFICES ASSUME NEW i \in Item
         PROVE  /\ Outdated(source[i].created)' /\ Outdated(source[i].collected)'
                /\ source'[i].received <= now'
                /\ \A f \in Waiting' : received'[f] # 0 => source'[i].received < received'[f]
      BY DEF TimesOK
    <3>1. /\ Outdated(source[i].created) /\ Outdated(source[i].collected)
          /\ source[i].received <= now /\ source[i].received \in Nat
          /\ source[i].created \in Nat /\ source[i].collected \in Nat
          /\ \A f \in Waiting : received[f] # 0 => source[i].received < received[f]
      BY <1>2, Typed DEF TimesOK, Row
    <3>2. Outdated(source[i].created)' /\ Outdated(source[i].collected)'
      BY <1>6, <2>2, <2>3, <3>1 DEF Outdated, FarAhead
    <3>. QED BY <1>6, <2>1, <2>2, <3>1, <3>2
  <2>7. \A i \in Item : ToldOK(i)'
    BY <1>6, <2>2 DEF SyncInv, ToldOK, View, Pending
  <2>. QED BY <1>2, <1>6, <2>2, <2>5, <2>6, <2>7 DEF SyncInv
<1>7. \/ Deliver
      \/ \E failed \in SUBSET Item : Collect(failed)
      \/ \E e \in DOMAIN event : Fail(e)
      \/ /\ UNCHANGED <<skew, queue, event, received, done, spool, source>>
         /\ Reported' = Reported /\ AgentOK' /\ now' \in {now, now + 1}
  <2>1. \A s \in Ahead : ~SetClock(s)
    BY <1>2 DEF SetClock, TypeOK
  <2>2. ~AgentCrash /\ ~CacheDamaged /\ ~Divert /\ ~Replay
    BY <1>2 DEF AgentCrash, CacheDamaged, Divert, Replay, AgentOK
  <2>3. CASE (\E i \in Item, v \in Observed : HostChange(i, v)) \/ Tick \/ UNCHANGED vars
    BY <1>2, <2>3 DEF HostChange, Tick, vars, agentVars, Reported, AgentOK, Nothing
  <2>4. CASE SaveHash
    <3>1. cycle' = [cycle EXCEPT !.at = "inventory"] /\ cycle.at = "hash"
          /\ cycle \in [at : {"idle", "hash", "inventory"}, inventory : [Item -> Observed]]
      BY <1>2, <2>4 DEF SaveHash, TypeOK
    <3>2. cycle'.at = "inventory" /\ cycle'.inventory = cycle.inventory
      BY <3>1
    <3>. QED BY <1>2, <2>4, <3>1, <3>2 DEF SaveHash, Reported, AgentOK
  <2>5. CASE SaveInventory
    BY <1>2, <2>5 DEF SaveInventory, Reported, AgentOK
  <2>. QED BY <2>1, <2>2, <2>3, <2>4, <2>5 DEF Next
<1>. QED BY <1>3, <1>4, <1>5, <1>6, <1>7

LEMMA SyncInit ==
  ASSUME Init
  PROVE  SyncInv
<1>1. TypeOK /\ QueueOK /\ spool = <<>>
  BY OrderInit DEF OrderInv, Init
<1>2. /\ DOMAIN event = {} /\ Waiting = {} /\ Reported = prev /\ cycle.at = "idle"
      /\ now = 0 /\ (hashed \/ prev = Nothing)
  BY DEF Init, Waiting, Reported
<1>3. ClockOK /\ AgentOK
  BY <1>1, <1>2 DEF ClockOK, AgentOK
<1>4. skew \in Nat
  BY <1>1, Typed
<1>5. ASSUME NEW i \in Item
      PROVE  /\ source[i].created \in {0, FarAhead} /\ source[i].collected \in {0, FarAhead}
             /\ source[i].received = 0 /\ View[i] = prev[i]
  <2>1. CASE source[i] = NoRow /\ prev[i] = Absent
    BY <2>1 DEF NoRow, View
  <2>2. CASE source[i] = Poisoned(prev[i])
    BY <2>2 DEF Poisoned, View, FarAhead
  <2>. QED BY <2>1, <2>2 DEF Init, Nothing
<1>6. TimesOK
  BY <1>2, <1>4, <1>5 DEF TimesOK, Outdated
<1>7. \A i \in Item : ToldOK(i)
  BY <1>2, <1>5 DEF ToldOK, Pending
<1>. QED BY <1>1, <1>3, <1>6, <1>7 DEF SyncInv

-----------------------------------------------------------------------------
(***************************************************************************)
(* The theorems.                                                           *)
(***************************************************************************)

(* Every variable keeps its type: queue and spool hold events there are, and  *)
(* every row is a row (upsertRecord, removeRecord, StateStore).               *)
THEOREM TypesKept == Spec => []TypeOK
<1>. QED BY TypeInit, TypeStep, PTL DEF Spec

(* effectiveAgentTimestamp: no row is dated further ahead of its receipt than *)
(* the tolerated skew, whatever the Agent's clock says and whatever fails.    *)
THEOREM NothingFromTheFuture == Spec => []NoFutureRows
<1>1. Init => NoFutureRows
  BY OrderInit DEF OrderInv
<1>2. TypeOK /\ NoFutureRows /\ [Next]_vars => NoFutureRows'
  BY FutureStep
<1>. QED BY <1>1, <1>2, TypesKept, PTL DEF Spec

(* The invariant the order of events rests on.                               *)
THEOREM Ordered ==
  ASSUME "failure" \notin Faults
  PROVE  Spec => []OrderInv
<1>1. Init => OrderInv
  BY OrderInit
<1>2. OrderInv /\ [Next]_vars => OrderInv'
  BY OrderStep
<1>. QED BY <1>1, <1>2, PTL DEF Spec

(* upsertRecord: a shown value is that of the newest processed event that     *)
(* carried the record, however the spool, crashes and clocks reorder events,  *)
(* as long as no transaction fails.                                           *)
THEOREM NewestUpsertShown ==
  ASSUME "failure" \notin Faults
  PROVE  Spec => []LatestUpsertWins
<1>1. ASSUME OrderInv
      PROVE  LatestUpsertWins
  <2>1. SUFFICES ASSUME NEW i \in Item, source[i].state = "active", NEW e \in Upserts(i),
                        \A d \in Upserts(i) \ {e} : Before(d, e)
                 PROVE  source[i].value = event[e].record[i]
    BY DEF LatestUpsertWins
  <2>2. ShownOK(i)
    BY <1>1, <2>1 DEF OrderInv, RowsOK, UntouchedOK
  <2>3. PICK u \in Upserts(i) : /\ source[i].value = event[u].record[i]
                                /\ \A d \in Upserts(i) \ {u} : Before(d, u)
    BY <2>2 DEF ShownOK
  <2>4. u # e => Before(u, e) /\ Before(e, u)
    BY <2>1, <2>3
  <2>5. \A d \in done : received[d] \in Nat /\ CreatedAt(d) \in Nat
    BY <1>1, Typed DEF OrderInv, TypeOK, CreatedAt, EffectiveTimestamp, Event
  <2>6. u \in done /\ e \in done
    BY <2>1 DEF Upserts
  <2>7. ~(Before(u, e) /\ Before(e, u))
    BY <2>5, <2>6 DEF Before
  <2>. QED BY <2>3, <2>4, <2>7
<1>. QED BY <1>1, Ordered, PTL

(* removeRecord: a record counted as removed carries the time of a removal    *)
(* that is newer than every processed report of it, as long as no transaction *)
(* fails.                                                                     *)
THEOREM NewestRemovalKept ==
  ASSUME "failure" \notin Faults
  PROVE  Spec => []RemovedByNewest
<1>1. OrderInv => RemovedByNewest
  BY DEF OrderInv, RowsOK, UntouchedOK, RemovedOK, RemovedByNewest
<1>. QED BY <1>1, Ordered, PTL

(* Agent and Server agree: once nothing is under way, the Server shows what   *)
(* the host holds, however often transactions fail and are retried, for a     *)
(* clock that stays ahead by a tolerated amount and events processed in turn. *)
THEOREM AgentAndServerAgree ==
  ASSUME NEW a \in 0..Skew, Ahead = {a}, Faults \subseteq {"failure"}
  PROVE  Spec => []Convergent
<1>1. Init => SyncInv
  BY SyncInit
<1>2. SyncInv /\ [Next]_vars => SyncInv'
  BY SyncStep
<1>3. ASSUME SyncInv
      PROVE  Convergent
  <2>1. SUFFICES ASSUME Settled
                 PROVE  View = host
    BY DEF Convergent
  <2>2. Len(event) \in Nat /\ DOMAIN event = 1..Len(event) /\ Len(queue) = 0
    BY <1>3, <2>1, Typed DEF SyncInv, Settled
  <2>3. \A i \in Item : Pending(i) = {}
    BY <2>2 DEF Pending, Waiting, Processed
  <2>4. \A i \in Item : View[i] = host[i]
    BY <1>3, <2>1, <2>3 DEF SyncInv, ToldOK, Reported, Settled
  <2>. QED BY <1>3, <2>4 DEF View, SyncInv, TypeOK
<1>. QED BY <1>1, <1>2, <1>3, PTL DEF Spec
=============================================================================
