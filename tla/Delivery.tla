------------------------------ MODULE Delivery ------------------------------
(***************************************************************************)
(* How one Agent's inventory events travel from its durable queue into the *)
(* Server's database: the Agent's serial delivery loop (scheduler.rs,      *)
(* storage.rs), the event handler of every Server Pod (httpapi/agents.go), *)
(* the idempotent event transaction (ingest/service.go), the event spool   *)
(* that all Pods share, and its replay loop (spool.go).                    *)
(*                                                                         *)
(* Events are abstract here: what an event does to the inventory is the    *)
(* subject of module Inventory.  The database is PostgreSQL at READ        *)
(* COMMITTED: a row an open transaction has inserted or claimed makes      *)
(* others wait, and an aborted transaction leaves nothing behind.          *)
(***************************************************************************)
EXTENDS Naturals, Sequences, SequencesExt

CONSTANTS
  Event,       \* the events the Agent may create (their event_id)
  Pod,         \* the Server Pods behind the load balancer
  NoEvent,     \* no event, a value outside Event
  NoPod,       \* no Pod, a value outside Pod
  MaxQueue,    \* agent.max_queue_bytes, in events
  MaxFaults    \* bound: how many faults a behaviour may contain

ASSUME DeliveryAssumption ==
  /\ NoEvent \notin Event
  /\ NoPod \notin Pod
  /\ MaxQueue \in Nat
  /\ MaxFaults \in Nat

(***************************************************************************)
(* Every Pod runs one event handler and one spool replay goroutine; both   *)
(* call ingest.Process, whose steps are the same for the two.              *)
(***************************************************************************)
Http(p)   == <<p, "http">>
Replay(p) == <<p, "replay">>
Worker    == Pod \X {"http", "replay"}
NoWorker  == <<NoPod, "none">>

Phase == {
  "idle",      \* nothing to do (replay: the replay lock is not held)
  "received",  \* http: authenticated and validated, Mode() not read yet
  "next",      \* replay: at the head of its segment list
  "reserve",   \* Process: about to reserve the event's row
  "claim",     \* Process: saw a failed row, about to claim it
  "apply",     \* Process: owns the row, applying the records
  "failing",   \* Process: rolled back, about to record the failure
  "ok",        \* durable: the answer is "accepted"
  "busy",      \* Process returned ErrInProgress
  "error",     \* Process returned another error
  "spooling"   \* http: about to append to the spool
}

VARIABLES
  queue,       \* Agent: queue/*.jsonl in file name order
  emitted,     \* Agent: events ever enqueued
  unreadable,  \* Agent: queued files that no longer parse
  quarantined, \* Agent: files moved to queue-unreadable/
  acked,       \* Agent: events removed after an accepted answer
  awaiting,    \* Agent: the Pod whose answer the send() in flight awaits
  mode,        \* Pod -> storage.Mode, or "down"
  work,        \* Worker -> phase and event
  listing,     \* Pod -> the segments Pending() returned, still to replay
  lease,       \* the Pod holding .replay.lock
  spool,       \* the shared directory's final segments in arrival order
  row,         \* Event -> committed agent_events.processing_status
  holder,      \* Event -> the worker whose open transaction owns the row
  applied,     \* Event -> how often the event's records were committed
  dbUp,        \* whether PostgreSQL answers
  blocked,     \* agents.blocked_at IS NOT NULL
  status,      \* agents.status
  discarded,   \* segments the replay dropped because the Agent is blocked
  faults       \* faults so far

Work == [at : Phase, event : Event \cup {NoEvent}]

agentVars == <<queue, emitted, unreadable, quarantined, acked>>
dbVars    == <<row, holder, applied>>
adminVars == <<blocked, status>>
vars == <<agentVars, awaiting, mode, work, listing, lease, spool, dbVars,
          dbUp, adminVars, discarded, faults>>

TypeOK ==
  /\ queue \in Seq(Event)
  /\ emitted \subseteq Event
  /\ unreadable \subseteq Event
  /\ quarantined \subseteq Event
  /\ acked \subseteq Event
  /\ awaiting \in Pod \cup {NoPod}
  /\ mode \in [Pod -> {"active", "degraded", "down"}]
  /\ work \in [Worker -> Work]
  /\ listing \in [Pod -> Seq(Event)]
  /\ lease \in Pod \cup {NoPod}
  /\ spool \in Seq(Event)
  /\ row \in [Event -> {"none", "failed", "processed"}]
  /\ holder \in [Event -> Worker \cup {NoWorker}]
  /\ applied \in [Event -> Nat]
  /\ dbUp \in BOOLEAN
  /\ blocked \in BOOLEAN
  /\ status \in {"provisioned", "active", "blocked"}
  /\ discarded \subseteq Event
  /\ faults \in 0..MaxFaults

Idle == [at |-> "idle", event |-> NoEvent]

Init ==
  /\ queue = <<>>
  /\ emitted = {}
  /\ unreadable = {}
  /\ quarantined = {}
  /\ acked = {}
  /\ awaiting = NoPod
  /\ mode = [p \in Pod |-> "active"]
  /\ work = [w \in Worker |-> Idle]
  /\ listing = [p \in Pod |-> <<>>]
  /\ lease = NoPod
  /\ spool = <<>>
  /\ row = [e \in Event |-> "none"]
  /\ holder = [e \in Event |-> NoWorker]
  /\ applied = [e \in Event |-> 0]
  /\ dbUp = TRUE
  /\ blocked = FALSE
  /\ status = "provisioned"
  /\ discarded = {}
  /\ faults = 0

(* One more fault, within the bound.                                       *)
Fault == faults < MaxFaults /\ faults' = faults + 1

(* Worker w moves to another phase with the event it already holds.        *)
Goto(w, phase) == work' = [work EXCEPT ![w].at = phase]


-----------------------------------------------------------------------------
(***************************************************************************)
(* The Agent.  Collecting, queueing and delivering are one sequential      *)
(* loop, so nothing is queued while an answer is awaited.                  *)
(***************************************************************************)

(* StateStore::enqueue: a full queue refuses the new event and keeps the   *)
(* old ones; the sequence number puts the new file last.                   *)
Enqueue(e) ==
  /\ awaiting = NoPod
  /\ e \notin emitted
  /\ Len(queue) < MaxQueue
  /\ queue' = Append(queue, e)
  /\ emitted' = emitted \cup {e}
  /\ UNCHANGED <<unreadable, quarantined, acked, awaiting, mode, work, listing,
                 lease, spool, dbVars, dbUp, adminVars, discarded, faults>>

(* A queued file is damaged, or was written by another Agent version.      *)
Damage(e) ==
  /\ Fault
  /\ e \in ToSet(queue) \ unreadable
  /\ unreadable' = unreadable \cup {e}
  /\ UNCHANGED <<queue, emitted, quarantined, acked, awaiting, mode, work,
                 listing, lease, spool, dbVars, dbUp, adminVars, discarded>>

(* deliver(): an event that cannot be read is moved aside, the loop goes on *)
Quarantine ==
  /\ awaiting = NoPod
  /\ queue # <<>>
  /\ Head(queue) \in unreadable
  /\ queue' = Tail(queue)
  /\ quarantined' = quarantined \cup {Head(queue)}
  /\ UNCHANGED <<emitted, unreadable, acked, awaiting, mode, work, listing,
                 lease, spool, dbVars, dbUp, adminVars, discarded, faults>>

(* authenticate: with the database up a blocked Agent is refused; with the  *)
(* database down the Pod falls back on its five-minute cache.               *)
Admitted == dbUp => ~blocked

(* deliver(): the oldest event is sent and the Pod that gets it lets it in. *)
Send(p) ==
  /\ awaiting = NoPod
  /\ queue # <<>>
  /\ Head(queue) \notin unreadable
  /\ mode[p] # "down"
  /\ work[Http(p)] = Idle
  /\ Admitted
  /\ awaiting' = p
  /\ work' = [work EXCEPT ![Http(p)] =
                [at |-> "received", event |-> Head(queue)]]
  /\ UNCHANGED <<agentVars, mode, listing, lease, spool, dbVars, dbUp,
                 adminVars, discarded, faults>>

(* The Agent's request times out, its connection breaks, or the Agent      *)
(* restarts: the event stays queued, the Pod's request context is cancelled *)
GiveUp ==
  /\ Fault
  /\ awaiting # NoPod
  /\ awaiting' = NoPod
  /\ UNCHANGED <<agentVars, mode, work, listing, lease, spool, dbVars, dbUp,
                 adminVars, discarded>>

(* Whether the request behind worker w has been cancelled by its client.   *)
Cancelled(w) == w[2] = "http" /\ awaiting # w[1]

(* A database call of worker w can fail: the database or the context is gone *)
CallFails(w) == ~dbUp \/ Cancelled(w)

-----------------------------------------------------------------------------
(***************************************************************************)
(* ingest.Process, for a handler and for the replay alike.                 *)
(***************************************************************************)

(* INSERT .. ON CONFLICT DO NOTHING, then the status of the row in the way: *)
(* it waits for another transaction's uncommitted insert, but not for a     *)
(* claim on a committed row.                                                *)
Reserve(w) ==
  LET e == work[w].event IN
  /\ work[w].at = "reserve"
  /\ dbUp
  /\ \/ /\ row[e] = "none" /\ holder[e] = NoWorker
        /\ holder' = [holder EXCEPT ![e] = w]
        /\ Goto(w, "apply")
     \/ /\ row[e] = "processed"
        /\ Goto(w, "ok")
        /\ UNCHANGED holder
     \/ /\ row[e] = "failed"
        /\ Goto(w, "claim")
        /\ UNCHANGED holder
  /\ UNCHANGED <<agentVars, awaiting, mode, listing, lease, spool, row, applied,
                 dbUp, adminVars, discarded, faults>>

(* Mutant: the claim does not look at the status the row has by now.       *)
ClaimUnconditional(w) ==
  LET e == work[w].event IN
  /\ work[w].at = "claim"
  /\ dbUp
  /\ holder[e] = NoWorker
  /\ holder' = [holder EXCEPT ![e] = w]
  /\ Goto(w, "apply")
  /\ UNCHANGED <<agentVars, awaiting, mode, listing, lease, spool, row, applied,
                 dbUp, adminVars, discarded, faults>>

(* UPDATE .. WHERE status IN ('pending','failed'): waits for the row lock,  *)
(* then looks again; no row left to claim is ErrInProgress.                 *)
Claim(w) ==
  LET e == work[w].event IN
  /\ work[w].at = "claim"
  /\ dbUp
  /\ holder[e] = NoWorker
  /\ \/ /\ row[e] = "failed"
        /\ holder' = [holder EXCEPT ![e] = w]
        /\ Goto(w, "apply")
     \/ /\ row[e] # "failed"
        /\ Goto(w, "busy")
        /\ UNCHANGED holder
  /\ UNCHANGED <<agentVars, awaiting, mode, listing, lease, spool, row, applied,
                 dbUp, adminVars, discarded, faults>>

(* An error before the row is owned is returned without a failure record.  *)
ReserveFails(w) ==
  /\ work[w].at \in {"reserve", "claim"}
  /\ CallFails(w)
  /\ Goto(w, "error")
  /\ UNCHANGED <<agentVars, awaiting, mode, listing, lease, spool, dbVars,
                 dbUp, adminVars, discarded, faults>>

(* The event's one transaction commits: records, agents row (which always  *)
(* becomes 'active') and the status 'processed', together.                 *)
CommitEvent(w) ==
  LET e == work[w].event IN
  /\ work[w].at = "apply"
  /\ dbUp
  /\ row' = [row EXCEPT ![e] = "processed"]
  /\ applied' = [applied EXCEPT ![e] = @ + 1]
  /\ holder' = [holder EXCEPT ![e] = NoWorker]
  /\ status' = "active"
  /\ UNCHANGED <<agentVars, awaiting, mode, listing, lease, spool, dbUp,
                 blocked, discarded>>

Commit(w) == CommitEvent(w) /\ Goto(w, "ok") /\ UNCHANGED faults

(* The commit took effect but its acknowledgement was lost: Process returns *)
(* an error for an event that is processed.                                 *)
CommitUnknown(w) == CommitEvent(w) /\ Goto(w, "error") /\ Fault

(* Mutant: the failure is recorded before the transaction is rolled back.   *)
ApplyFailsWithoutRollback(w) ==
  /\ work[w].at = "apply"
  /\ \/ Fault
     \/ Cancelled(w) /\ UNCHANGED faults
  /\ Goto(w, "failing")
  /\ UNCHANGED <<agentVars, awaiting, mode, listing, lease, spool, dbVars,
                 dbUp, adminVars, discarded>>

(* A step of the transaction fails and it is rolled back: failEvent then     *)
(* records the failure, except after the commit itself or one of the first   *)
(* statements, whose errors are returned at once.                            *)
ApplyFails(w) ==
  LET e == work[w].event IN
  /\ work[w].at = "apply"
  /\ \/ Fault
     \/ Cancelled(w) /\ UNCHANGED faults
  /\ holder' = [holder EXCEPT ![e] = NoWorker]
  /\ \E phase \in {"failing", "error"} : Goto(w, phase)
  /\ UNCHANGED <<agentVars, awaiting, mode, listing, lease, spool, row, applied,
                 dbUp, adminVars, discarded>>

(* Mutant: the failure upsert has no WHERE processing_status <> 'processed' *)
RecordFailureUnguarded(w) ==
  LET e == work[w].event IN
  /\ work[w].at = "failing"
  /\ \/ /\ dbUp /\ holder[e] = NoWorker
        /\ row' = [row EXCEPT ![e] = "failed"]
     \/ CallFails(w) /\ UNCHANGED row
  /\ Goto(w, "error")
  /\ UNCHANGED <<agentVars, awaiting, mode, listing, lease, spool, holder,
                 applied, dbUp, adminVars, discarded, faults>>

(* failEvent, after the rollback: an upsert of its own, whose error is      *)
(* ignored and which leaves a processed row alone.                          *)
RecordFailure(w) ==
  LET e == work[w].event IN
  /\ work[w].at = "failing"
  /\ \/ /\ dbUp /\ holder[e] = NoWorker
        /\ row' = [row EXCEPT ![e] = IF @ = "processed" THEN @ ELSE "failed"]
     \/ CallFails(w) /\ UNCHANGED row
  /\ Goto(w, "error")
  /\ UNCHANGED <<agentVars, awaiting, mode, listing, lease, spool, holder,
                 applied, dbUp, adminVars, discarded, faults>>

Process(w) ==
  \/ Reserve(w) \/ Claim(w) \/ ReserveFails(w)
  \/ Commit(w) \/ CommitUnknown(w) \/ ApplyFails(w) \/ RecordFailure(w)

-----------------------------------------------------------------------------
(***************************************************************************)
(* The event handler of Pod p (receiveAgentEvent, spoolAgentEvent).        *)
(***************************************************************************)

(* The handler of p answers without accepting; a waiting Agent keeps the    *)
(* event and tries again after its backoff.                                 *)
Refuse(p) ==
  /\ work' = [work EXCEPT ![Http(p)] = Idle]
  /\ awaiting' = IF awaiting = p THEN NoPod ELSE awaiting

ReadMode(p) ==
  /\ work[Http(p)].at = "received"
  /\ Goto(Http(p), IF mode[p] = "degraded" THEN "spooling" ELSE "reserve")
  /\ UNCHANGED <<agentVars, awaiting, mode, listing, lease, spool, dbVars,
                 dbUp, adminVars, discarded, faults>>

(* ErrInProgress: 409, Retry-After 1.                                      *)
RefuseInProgress(p) ==
  /\ work[Http(p)].at = "busy"
  /\ Refuse(p)
  /\ UNCHANGED <<agentVars, mode, listing, lease, spool, dbVars, dbUp,
                 adminVars, discarded, faults>>

(* Any other error: a ping tells whether the database is at fault.  It uses *)
(* the request's context, so a cancelled request also fails it and marks    *)
(* the Pod degraded.                                                        *)
RefuseError(p) ==
  /\ work[Http(p)].at = "error"
  /\ dbUp
  /\ mode' = [mode EXCEPT ![p] = "active"]
  /\ Refuse(p)
  /\ UNCHANGED <<agentVars, listing, lease, spool, dbVars, dbUp, adminVars,
                 discarded, faults>>

DivertToSpool(p) ==
  /\ work[Http(p)].at = "error"
  /\ CallFails(Http(p))
  /\ mode' = [mode EXCEPT ![p] = "degraded"]
  /\ Goto(Http(p), "spooling")
  /\ UNCHANGED <<agentVars, awaiting, listing, lease, spool, dbVars, dbUp,
                 adminVars, discarded, faults>>

(* spool.Append: publishing is atomic and never replaces a segment.        *)
SpoolAppend(p) ==
  LET e == work[Http(p)].event IN
  /\ work[Http(p)].at = "spooling"
  /\ spool' = IF e \in ToSet(spool) THEN spool ELSE Append(spool, e)
  /\ Goto(Http(p), "ok")
  /\ UNCHANGED <<agentVars, awaiting, mode, listing, lease, dbVars, dbUp,
                 adminVars, discarded, faults>>

SpoolAppendFails(p) ==
  /\ Fault
  /\ work[Http(p)].at = "spooling"
  /\ Refuse(p)
  /\ UNCHANGED <<agentVars, mode, listing, lease, spool, dbVars, dbUp,
                 adminVars, discarded>>

(* Mutant: the 202 answer is written before the segment is published.      *)
AnswerBeforeSpool(p) ==
  LET e == work[Http(p)].event IN
  /\ work[Http(p)].at \in {"ok", "spooling"}
  /\ work' = [work EXCEPT ![Http(p)] = Idle]
  /\ \/ /\ awaiting = p
        /\ queue' = RemoveFirst(queue, e)
        /\ acked' = acked \cup {e}
        /\ awaiting' = NoPod
     \/ /\ awaiting # p
        /\ UNCHANGED <<queue, acked, awaiting>>
  /\ UNCHANGED <<emitted, unreadable, quarantined, mode, listing, lease, spool,
                 dbVars, dbUp, adminVars, discarded, faults>>

(* The accepted answer (200 processed or duplicate, 202 spooled) reaches the *)
(* Agent, which removes the queue file, or nobody if it gave up waiting.     *)
Answer(p) ==
  LET e == work[Http(p)].event IN
  /\ work[Http(p)].at = "ok"
  /\ work' = [work EXCEPT ![Http(p)] = Idle]
  /\ \/ /\ awaiting = p
        /\ queue' = RemoveFirst(queue, e)
        /\ acked' = acked \cup {e}
        /\ awaiting' = NoPod
     \/ /\ awaiting # p
        /\ UNCHANGED <<queue, acked, awaiting>>
  /\ UNCHANGED <<emitted, unreadable, quarantined, mode, listing, lease, spool,
                 dbVars, dbUp, adminVars, discarded, faults>>

-----------------------------------------------------------------------------
(***************************************************************************)
(* The replay loop of Pod p (RunSpoolReplay, ReplaySpool).                 *)
(***************************************************************************)

(* Runtime.Ping, by the replay loop of a degraded Pod and by the health     *)
(* endpoints: the mode follows the database.                                *)
Ping(p) ==
  /\ mode[p] # "down"
  /\ mode' = [mode EXCEPT ![p] = IF dbUp THEN "active" ELSE "degraded"]
  /\ UNCHANGED <<agentVars, awaiting, work, listing, lease, spool, dbVars,
                 dbUp, adminVars, discarded, faults>>

(* Mutant: the replay starts without asking for the lock.                  *)
StartReplayUnlocked(p) ==
  /\ mode[p] = "active"
  /\ work[Replay(p)] = Idle
  /\ lease' = p
  /\ listing' = [listing EXCEPT ![p] = spool]
  /\ Goto(Replay(p), "next")
  /\ UNCHANGED <<agentVars, awaiting, mode, spool, dbVars, dbUp, adminVars,
                 discarded, faults>>

(* One tick: the lock, then the segments in arrival order.                 *)
StartReplay(p) ==
  /\ mode[p] = "active"
  /\ work[Replay(p)] = Idle
  /\ lease = NoPod
  /\ lease' = p
  /\ listing' = [listing EXCEPT ![p] = spool]
  /\ Goto(Replay(p), "next")
  /\ UNCHANGED <<agentVars, awaiting, mode, spool, dbVars, dbUp, adminVars,
                 discarded, faults>>

(* The replay ends: its deferred Release gives the lock back.              *)
EndReplay(p) ==
  /\ lease' = NoPod
  /\ listing' = [listing EXCEPT ![p] = <<>>]
  /\ work' = [work EXCEPT ![Replay(p)] = Idle]
  /\ UNCHANGED <<agentVars, awaiting, mode, spool, dbVars, dbUp, adminVars,
                 discarded>>

(* Mutant: a Process error returns without releasing the lock.             *)
StopReplayKeepsLock(p) ==
  \/ /\ work[Replay(p)].at = "next"
     /\ listing[p] = <<>> \/ ~dbUp
     /\ EndReplay(p)
     /\ UNCHANGED faults
  \/ /\ work[Replay(p)].at \in {"busy", "error"}
     /\ work' = [work EXCEPT ![Replay(p)] = Idle]
     /\ listing' = [listing EXCEPT ![p] = <<>>]
     /\ UNCHANGED <<agentVars, awaiting, mode, lease, spool, dbVars, dbUp,
                    adminVars, discarded, faults>>

(* At the end of the list, when the Agent's row cannot be read, or at the   *)
(* first error of Process.                                                  *)
StopReplay(p) ==
  /\ \/ work[Replay(p)].at = "next" /\ (listing[p] = <<>> \/ ~dbUp)
     \/ work[Replay(p)].at \in {"busy", "error"}
  /\ EndReplay(p)
  /\ UNCHANGED faults

(* Another step of the replay fails: the lease's renewal, reading a segment, *)
(* recording a discarded one, or acknowledging a processed one.              *)
ReplayFails(p) ==
  /\ Fault
  /\ work[Replay(p)].at \in {"next", "ok"}
  /\ EndReplay(p)

(* The Agent row says 'blocked': the segment is recorded and dropped.      *)
DiscardSegment(p) ==
  LET e == Head(listing[p]) IN
  /\ work[Replay(p)].at = "next"
  /\ listing[p] # <<>>
  /\ dbUp
  /\ status = "blocked"
  /\ spool' = RemoveFirst(spool, e)
  /\ listing' = [listing EXCEPT ![p] = Tail(@)]
  /\ discarded' = discarded \cup {e}
  /\ UNCHANGED <<agentVars, awaiting, mode, work, lease, dbVars, dbUp,
                 adminVars, faults>>

ReplaySegment(p) ==
  /\ work[Replay(p)].at = "next"
  /\ listing[p] # <<>>
  /\ dbUp
  /\ status # "blocked"
  /\ work' = [work EXCEPT ![Replay(p)] =
                [at |-> "reserve", event |-> Head(listing[p])]]
  /\ UNCHANGED <<agentVars, awaiting, mode, listing, lease, spool, dbVars,
                 dbUp, adminVars, discarded, faults>>

(* Mutant: the segment goes whatever Process returned.                     *)
AcknowledgeAlways(p) ==
  LET e == work[Replay(p)].event IN
  /\ work[Replay(p)].at \in {"ok", "busy", "error"}
  /\ spool' = RemoveFirst(spool, e)
  /\ listing' = [listing EXCEPT ![p] = Tail(@)]
  /\ work' = [work EXCEPT ![Replay(p)] = [at |-> "next", event |-> NoEvent]]
  /\ UNCHANGED <<agentVars, awaiting, mode, lease, dbVars, dbUp, adminVars,
                 discarded, faults>>

(* spool.Acknowledge, only after Process returned without an error.        *)
AcknowledgeSegment(p) ==
  LET e == work[Replay(p)].event IN
  /\ work[Replay(p)].at = "ok"
  /\ spool' = RemoveFirst(spool, e)
  /\ listing' = [listing EXCEPT ![p] = Tail(@)]
  /\ work' = [work EXCEPT ![Replay(p)] = [at |-> "next", event |-> NoEvent]]
  /\ UNCHANGED <<agentVars, awaiting, mode, lease, dbVars, dbUp, adminVars,
                 discarded, faults>>

-----------------------------------------------------------------------------
(***************************************************************************)
(* Outages, Pods and administrators.                                       *)
(***************************************************************************)

(* PostgreSQL becomes unreachable: open transactions are lost.             *)
DatabaseDown ==
  /\ Fault
  /\ dbUp
  /\ dbUp' = FALSE
  /\ holder' = [e \in Event |-> NoWorker]
  /\ work' = [w \in Worker |->
       IF work[w].at = "apply" THEN [work[w] EXCEPT !.at = "failing"]
                               ELSE work[w]]
  /\ UNCHANGED <<agentVars, awaiting, mode, listing, lease, spool, row, applied,
                 adminVars, discarded>>

DatabaseUp ==
  /\ ~dbUp
  /\ dbUp' = TRUE
  /\ UNCHANGED <<agentVars, awaiting, mode, work, listing, lease, spool, dbVars,
                 adminVars, discarded, faults>>

(* A Pod dies: its transactions roll back, the kernel releases its lock.    *)
PodCrash(p) ==
  /\ Fault
  /\ mode[p] # "down"
  /\ mode' = [mode EXCEPT ![p] = "down"]
  /\ work' = [work EXCEPT ![Http(p)] = Idle, ![Replay(p)] = Idle]
  /\ listing' = [listing EXCEPT ![p] = <<>>]
  /\ lease' = IF lease = p THEN NoPod ELSE lease
  /\ holder' = [e \in Event |-> IF holder[e] \in {Http(p), Replay(p)}
                                THEN NoWorker ELSE holder[e]]
  /\ awaiting' = IF awaiting = p THEN NoPod ELSE awaiting
  /\ UNCHANGED <<agentVars, spool, row, applied, dbUp, adminVars, discarded>>

(* storage.Open refuses to start a Pod without its configured PostgreSQL.   *)
PodStart(p) ==
  /\ mode[p] = "down"
  /\ dbUp
  /\ mode' = [mode EXCEPT ![p] = "active"]
  /\ UNCHANGED <<agentVars, awaiting, work, listing, lease, spool, dbVars, dbUp,
                 adminVars, discarded, faults>>

SetBlocked(b) ==
  /\ dbUp
  /\ blocked' = b
  /\ status' = IF b THEN "blocked" ELSE "provisioned"
  /\ UNCHANGED <<agentVars, awaiting, mode, work, listing, lease, spool, dbVars,
                 dbUp, discarded, faults>>

AgentNext ==
  \/ \E e \in Event : Enqueue(e) \/ Damage(e)
  \/ Quarantine
  \/ \E p \in Pod : Send(p)
  \/ GiveUp

HandlerNext(p) ==
  \/ ReadMode(p) \/ RefuseInProgress(p) \/ RefuseError(p) \/ DivertToSpool(p)
  \/ SpoolAppend(p) \/ SpoolAppendFails(p) \/ Answer(p)

ReplayNext(p) ==
  \/ StartReplay(p) \/ StopReplay(p) \/ ReplayFails(p)
  \/ DiscardSegment(p) \/ ReplaySegment(p) \/ AcknowledgeSegment(p)

Next ==
  \/ AgentNext
  \/ \E w \in Worker : Process(w)
  \/ \E p \in Pod : HandlerNext(p) \/ ReplayNext(p) \/ Ping(p)
                    \/ PodCrash(p) \/ PodStart(p)
  \/ DatabaseDown \/ DatabaseUp
  \/ \E b \in BOOLEAN : SetBlocked(b)

Spec == Init /\ [][Next]_vars

(***************************************************************************)
(* Fairness: the Agent's loop, every handler, the replay ticker and the     *)
(* probes keep running; PostgreSQL comes back and a dead Pod is restarted   *)
(* by its StatefulSet.  Faults and administrators owe nothing.              *)
(***************************************************************************)
Fairness ==
  /\ WF_vars(Quarantine)
  /\ WF_vars(\E p \in Pod : Send(p))
  /\ \A w \in Worker :
       /\ WF_vars(Reserve(w) \/ Claim(w) \/ ReserveFails(w))
       /\ WF_vars(Commit(w))
       /\ WF_vars(RecordFailure(w))
  /\ \A p \in Pod :
       /\ WF_vars(ReadMode(p) \/ SpoolAppend(p) \/ Answer(p))
       /\ WF_vars(RefuseInProgress(p) \/ RefuseError(p) \/ DivertToSpool(p))
       /\ WF_vars(StopReplay(p) \/ DiscardSegment(p) \/ ReplaySegment(p)
                  \/ AcknowledgeSegment(p))
       /\ WF_vars(Ping(p))
       /\ WF_vars(PodStart(p))
  /\ WF_vars(\E p \in Pod : StartReplay(p))
  /\ WF_vars(DatabaseUp)

FairSpec == Spec /\ Fairness

-----------------------------------------------------------------------------
(***************************************************************************)
(* Properties.                                                             *)
(***************************************************************************)

Processed == {e \in Event : row[e] = "processed"}
Stored    == Processed \cup ToSet(spool) \cup discarded

(* However many Pods, retries, replays and lost answers an event goes       *)
(* through, the transaction that applies its records commits at most once   *)
(* (ON CONFLICT DO NOTHING, the claim, and failEvent's guard together).      *)
AppliedAtMostOnce == \A e \in Event : applied[e] <= 1

(* An event the Agent has created is in its queue, in its quarantine, or    *)
(* durable on the Server: no answer of any Pod lets the Agent delete a file  *)
(* whose event could still vanish.                                           *)
NoEventLost ==
  emitted \subseteq (ToSet(queue) \cup quarantined \cup Stored)

(* The shared directory is never replayed by two Pods at a time, whatever   *)
(* crashes, errors and restarts end a replay (AcquireReplayLease, Release).  *)
SingleReplayer ==
  \A p, q \in Pod :
    work[Replay(p)] # Idle /\ work[Replay(q)] # Idle => p = q

(* 'processed' is final: the failure another Pod records late, for the same *)
(* event, never takes it back (failEvent's WHERE clause).                    *)
ProcessedIsFinal ==
  [][\A e \in Event : row[e] = "processed" => row'[e] = "processed"]_vars

(* Once faults have run out and unless the Agent stays blocked, every event *)
(* the Agent created ends up processed, discarded or quarantined: no retry,  *)
(* spool segment, claim or replay lock is left behind for good.              *)
EventuallySettled ==
  <>[](~blocked) =>
    \A e \in Event :
      e \in emitted ~> (e \in Processed \cup discarded \cup quarantined)

(* The delivery implements the abstract event log: an event moves from the  *)
(* Agent to the Server and is applied as that specification allows.          *)
Log == INSTANCE EventLog WITH
  held <- ToSet(queue),
  stored <- Stored,
  applied <- {e \in Event : applied[e] > 0},
  dropped <- quarantined \cup discarded

LogSpec == Log!Spec

-----------------------------------------------------------------------------
(***************************************************************************)
(* The inductive invariant behind the safety properties.                   *)
(***************************************************************************)

(* A worker holds an event exactly while it handles one, each kind of       *)
(* worker stays in its own phases, and a replay works on the head of its    *)
(* list.                                                                    *)
WorkOK ==
  /\ \A w \in Worker :
       IF work[w].at \in {"idle", "next"} THEN work[w].event = NoEvent
                                          ELSE work[w].event \in Event
  /\ \A p \in Pod :
       /\ work[Http(p)].at # "next"
       /\ work[Replay(p)].at \notin {"received", "spooling"}
       /\ work[Replay(p)].at \notin {"idle", "next"} =>
            listing[p] # <<>> /\ Head(listing[p]) = work[Replay(p)].event

(* The row lock is held exactly by the worker that applies the event, and   *)
(* nobody applies an event that is already processed.                       *)
RowsOK ==
  \A e \in Event :
    /\ applied[e] = IF row[e] = "processed" THEN 1 ELSE 0
    /\ holder[e] # NoWorker => row[e] # "processed"
    /\ \A w \in Worker :
         holder[e] = w <=> work[w].at = "apply" /\ work[w].event = e

(* An accepted answer is only ever written for a durable event, and a       *)
(* replay only acknowledges a processed one.                                *)
AcceptedOK ==
  /\ \A w \in Worker : work[w].at = "ok" => work[w].event \in Stored
  /\ \A p \in Pod : work[Replay(p)].at = "ok" =>
                      row[work[Replay(p)].event] = "processed"

LeaseOK == \A p \in Pod : work[Replay(p)] # Idle => lease = p

IInv == TypeOK /\ WorkOK /\ RowsOK /\ AcceptedOK /\ LeaseOK /\ NoEventLost
=============================================================================
