--------------------------- MODULE DeliveryProofs ---------------------------
(* The safety of Delivery for any number of events and Pods, any queue       *)
(* bound and any number of faults.                                           *)
EXTENDS Delivery, SequenceLemmas

(***************************************************************************)
(* Workers, and how a step changes what they do.                           *)
(***************************************************************************)

(* Each Pod has two workers of its own, and there are no others.            *)
LEMMA Workers ==
  /\ \A p \in Pod : Http(p) \in Worker /\ Replay(p) \in Worker
  /\ \A p, q \in Pod : Http(p) # Replay(q)
  /\ \A p, q \in Pod : Http(p) = Http(q) => p = q
  /\ \A p, q \in Pod : Replay(p) = Replay(q) => p = q
  /\ \A w \in Worker : \E p \in Pod : w = Http(p) \/ w = Replay(p)
  /\ NoWorker \notin Worker
  BY DeliveryAssumption DEF Worker, Http, Replay, NoWorker

(* Worker w, and no other, changes to phase a with event e.                 *)
Moves(w, a, e) ==
  /\ work' \in [Worker -> Work]
  /\ work'[w].at = a
  /\ work'[w].event = e
  /\ \A v \in Worker : v # w => work'[v] = work[v]

LEMMA GotoMoves ==
  ASSUME work \in [Worker -> Work], NEW w \in Worker, NEW a \in Phase, Goto(w, a)
  PROVE  Moves(w, a, work[w].event)
  BY DEF Goto, Moves, Work

LEMMA AssignMoves ==
  ASSUME work \in [Worker -> Work], NEW w \in Worker,
         NEW a \in Phase, NEW e \in Event \cup {NoEvent},
         work' = [work EXCEPT ![w] = [at |-> a, event |-> e]]
  PROVE  Moves(w, a, e) /\ work'[w] = [at |-> a, event |-> e]
  BY DEF Moves, Work

LEMMA IdleMoves ==
  ASSUME work \in [Worker -> Work], NEW w \in Worker,
         work' = [work EXCEPT ![w] = Idle]
  PROVE  Moves(w, "idle", NoEvent) /\ work'[w] = Idle
<1>1. "idle" \in Phase
  BY DEF Phase
<1>. QED BY <1>1, AssignMoves DEF Idle

(* What every action of the specification does to the workers.              *)
LEMMA ActionMoves ==
  ASSUME TypeOK
  PROVE  /\ \A p \in Pod : Send(p) => Moves(Http(p), "received", Head(queue))
         /\ \A w \in Worker :
              /\ Reserve(w) => \E a \in {"apply", "ok", "claim"} : Moves(w, a, work[w].event)
              /\ Claim(w) => \E a \in {"apply", "busy"} : Moves(w, a, work[w].event)
              /\ ReserveFails(w) => Moves(w, "error", work[w].event)
              /\ Commit(w) => Moves(w, "ok", work[w].event)
              /\ CommitUnknown(w) => Moves(w, "error", work[w].event)
              /\ ApplyFails(w) => \E a \in {"failing", "error"} : Moves(w, a, work[w].event)
              /\ RecordFailure(w) => Moves(w, "error", work[w].event)
         /\ \A p \in Pod :
              /\ ReadMode(p) => \E a \in {"spooling", "reserve"} :
                                  Moves(Http(p), a, work[Http(p)].event)
              /\ RefuseInProgress(p) => Moves(Http(p), "idle", NoEvent)
              /\ RefuseError(p) => Moves(Http(p), "idle", NoEvent)
              /\ DivertToSpool(p) => Moves(Http(p), "spooling", work[Http(p)].event)
              /\ SpoolAppend(p) => Moves(Http(p), "ok", work[Http(p)].event)
              /\ SpoolAppendFails(p) => Moves(Http(p), "idle", NoEvent)
              /\ Answer(p) => Moves(Http(p), "idle", NoEvent)
              /\ StartReplay(p) => Moves(Replay(p), "next", work[Replay(p)].event)
              /\ StopReplay(p) => Moves(Replay(p), "idle", NoEvent)
              /\ ReplayFails(p) => Moves(Replay(p), "idle", NoEvent)
              /\ ReplaySegment(p) => Moves(Replay(p), "reserve", Head(listing[p]))
              /\ AcknowledgeSegment(p) => Moves(Replay(p), "next", NoEvent)
<1>1. work \in [Worker -> Work]
  BY DEF TypeOK
<1>2. {"idle", "received", "next", "reserve", "claim", "apply", "failing", "ok",
       "busy", "error", "spooling"} = Phase
  BY DEF Phase
<1>3. ASSUME NEW p \in Pod, Send(p)
      PROVE  Moves(Http(p), "received", Head(queue))
  <2>1. Head(queue) \in Event
    BY <1>3, HeadTailElements DEF Send, TypeOK
  <2>2. PICK e \in Event : e = Head(queue)
    BY <2>1
  <2>3. work' = [work EXCEPT ![Http(p)] = [at |-> "received", event |-> e]]
    BY <1>3, <2>2 DEF Send
  <2>4. Moves(Http(p), "received", e)
    BY <1>1, <1>2, <2>3, Workers, AssignMoves
  <2>. QED BY <2>2, <2>4
<1>4. ASSUME NEW w \in Worker
      PROVE  /\ Reserve(w) => \E a \in {"apply", "ok", "claim"} : Moves(w, a, work[w].event)
             /\ Claim(w) => \E a \in {"apply", "busy"} : Moves(w, a, work[w].event)
             /\ ReserveFails(w) => Moves(w, "error", work[w].event)
             /\ Commit(w) => Moves(w, "ok", work[w].event)
             /\ CommitUnknown(w) => Moves(w, "error", work[w].event)
             /\ ApplyFails(w) => \E a \in {"failing", "error"} : Moves(w, a, work[w].event)
             /\ RecordFailure(w) => Moves(w, "error", work[w].event)
  <2>1. \A a \in Phase : Goto(w, a) => Moves(w, a, work[w].event)
    BY <1>1, GotoMoves
  <2>. QED BY <1>2, <2>1 DEF Reserve, Claim, ReserveFails, Commit, CommitUnknown,
                         ApplyFails, RecordFailure
<1>5. ASSUME NEW p \in Pod
      PROVE  /\ ReadMode(p) => \E a \in {"spooling", "reserve"} :
                                 Moves(Http(p), a, work[Http(p)].event)
             /\ DivertToSpool(p) => Moves(Http(p), "spooling", work[Http(p)].event)
             /\ SpoolAppend(p) => Moves(Http(p), "ok", work[Http(p)].event)
             /\ StartReplay(p) => Moves(Replay(p), "next", work[Replay(p)].event)
  <2>1. \A a \in Phase : /\ Goto(Http(p), a) => Moves(Http(p), a, work[Http(p)].event)
                         /\ Goto(Replay(p), a) => Moves(Replay(p), a, work[Replay(p)].event)
    BY <1>1, Workers, GotoMoves
  <2>. QED BY <1>2, <2>1 DEF ReadMode, DivertToSpool, SpoolAppend, StartReplay
<1>6. ASSUME NEW p \in Pod
      PROVE  /\ RefuseInProgress(p) => Moves(Http(p), "idle", NoEvent)
             /\ RefuseError(p) => Moves(Http(p), "idle", NoEvent)
             /\ SpoolAppendFails(p) => Moves(Http(p), "idle", NoEvent)
             /\ Answer(p) => Moves(Http(p), "idle", NoEvent)
             /\ StopReplay(p) => Moves(Replay(p), "idle", NoEvent)
             /\ ReplayFails(p) => Moves(Replay(p), "idle", NoEvent)
  BY <1>1, Workers, IdleMoves
     DEF RefuseInProgress, RefuseError, SpoolAppendFails, Answer, StopReplay,
         ReplayFails, EndReplay, Refuse
<1>7. ASSUME NEW p \in Pod, ReplaySegment(p)
      PROVE  Moves(Replay(p), "reserve", Head(listing[p]))
  <2>1. Head(listing[p]) \in Event
    BY <1>7, HeadTailElements DEF ReplaySegment, TypeOK
  <2>2. PICK e \in Event : e = Head(listing[p])
    BY <2>1
  <2>3. work' = [work EXCEPT ![Replay(p)] = [at |-> "reserve", event |-> e]]
    BY <1>7, <2>2 DEF ReplaySegment
  <2>4. Moves(Replay(p), "reserve", e)
    BY <1>1, <1>2, <2>3, Workers, AssignMoves
  <2>. QED BY <2>2, <2>4
<1>8. ASSUME NEW p \in Pod, AcknowledgeSegment(p)
      PROVE  Moves(Replay(p), "next", NoEvent)
  <2>1. work' = [work EXCEPT ![Replay(p)] = [at |-> "next", event |-> NoEvent]]
    BY <1>8 DEF AcknowledgeSegment
  <2>. QED BY <1>1, <1>2, <2>1, Workers, AssignMoves
<1>. QED BY <1>3, <1>4, <1>5, <1>6, <1>7, <1>8

LEMMA CrashMoves ==
  ASSUME TypeOK, NEW p \in Pod, PodCrash(p)
  PROVE  /\ work' \in [Worker -> Work]
         /\ work'[Http(p)] = Idle /\ work'[Replay(p)] = Idle
         /\ \A v \in Worker : v \notin {Http(p), Replay(p)} => work'[v] = work[v]
<1>1. Idle \in Work
  BY DEF Idle, Work, Phase
<1>2. work' = [work EXCEPT ![Http(p)] = Idle, ![Replay(p)] = Idle]
  BY DEF PodCrash
<1>3. work \in [Worker -> Work]
  BY DEF TypeOK
<1>. QED BY <1>1, <1>2, <1>3, Workers

LEMMA OutageMoves ==
  ASSUME TypeOK, DatabaseDown
  PROVE  /\ work' \in [Worker -> Work]
         /\ \A w \in Worker :
              /\ work[w].at # "apply" => work'[w] = work[w]
              /\ work[w].at = "apply" => /\ work'[w].at = "failing"
                                         /\ work'[w].event = work[w].event
  BY DEF TypeOK, Work, DatabaseDown, Phase

(* The actions after which every worker does what it did before.            *)
Still ==
  \/ \E e \in Event : Enqueue(e) \/ Damage(e)
  \/ Quarantine \/ GiveUp \/ DatabaseUp
  \/ \E p \in Pod : DiscardSegment(p) \/ Ping(p) \/ PodStart(p)
  \/ \E b \in BOOLEAN : SetBlocked(b)

LEMMA StillMoves ==
  ASSUME Still
  PROVE  work' = work
  BY DEF Still, Enqueue, Damage, Quarantine, GiveUp, DatabaseUp, DiscardSegment,
         Ping, PodStart, SetBlocked

(***************************************************************************)
(* Every step preserves each conjunct of the invariant.                    *)
(***************************************************************************)

LEMMA FaultType ==
  ASSUME TypeOK, Fault
  PROVE  faults' \in 0..MaxFaults
  BY DeliveryAssumption DEF TypeOK, Fault

LEMMA TypeStep ==
  ASSUME TypeOK, WorkOK, Next
  PROVE  TypeOK'
<1>1. ASSUME NEW e \in Event, Enqueue(e) \/ Damage(e)
      PROVE  TypeOK'
  <2>1. CASE Enqueue(e)
    <3>1. queue' \in Seq(Event)
      BY <2>1, AppendElements DEF TypeOK, Enqueue
    <3>. QED BY <2>1, <3>1 DEF TypeOK, Enqueue, dbVars, adminVars
  <2>2. CASE Damage(e)
    BY <2>2, FaultType DEF TypeOK, Damage, dbVars, adminVars
  <2>. QED BY <1>1, <2>1, <2>2
<1>2. ASSUME Quarantine
      PROVE  TypeOK'
  BY <1>2, HeadTailElements DEF TypeOK, Quarantine, dbVars, adminVars
<1>3. ASSUME NEW p \in Pod, Send(p)
      PROVE  TypeOK'
  BY <1>3, ActionMoves DEF TypeOK, Send, Moves, agentVars, dbVars, adminVars
<1>4. ASSUME GiveUp
      PROVE  TypeOK'
  BY <1>4, FaultType DEF TypeOK, GiveUp, agentVars, dbVars, adminVars
<1>5. ASSUME NEW w \in Worker, Process(w)
      PROVE  TypeOK'
  <2>1. work' \in [Worker -> Work]
    BY <1>5, ActionMoves DEF Process, Moves
  <2>2. CASE Reserve(w) \/ Claim(w)
    BY <1>5, <2>1, <2>2 DEF TypeOK, Reserve, Claim, agentVars, adminVars
  <2>3. CASE ReserveFails(w)
    BY <1>5, <2>1, <2>3 DEF TypeOK, ReserveFails, agentVars, dbVars, adminVars
  <2>4. CASE Commit(w) \/ CommitUnknown(w)
    <3>1. CommitEvent(w)
      BY <2>4 DEF Commit, CommitUnknown
    <3>2. work[w].event \in Event
      BY <3>1 DEF WorkOK, CommitEvent
    <3>3. applied' \in [Event -> Nat]
      BY <3>1, <3>2 DEF TypeOK, CommitEvent
    <3>4. /\ row' \in [Event -> {"none", "failed", "processed"}]
          /\ holder' \in [Event -> Worker \cup {NoWorker}]
      BY <3>1, <3>2 DEF TypeOK, CommitEvent
    <3>5. faults' \in 0..MaxFaults
      BY <2>4, FaultType DEF TypeOK, Commit, CommitUnknown
    <3>. QED BY <2>1, <3>1, <3>3, <3>4, <3>5
         DEF TypeOK, CommitEvent, agentVars
  <2>5. CASE ApplyFails(w)
    BY <1>5, <2>1, <2>5, FaultType DEF TypeOK, ApplyFails, agentVars, adminVars
  <2>6. CASE RecordFailure(w)
    BY <1>5, <2>1, <2>6 DEF TypeOK, RecordFailure, agentVars, adminVars
  <2>. QED BY <1>5, <2>2, <2>3, <2>4, <2>5, <2>6 DEF Process
<1>6. ASSUME NEW p \in Pod, HandlerNext(p)
      PROVE  TypeOK'
  <2>1. work' \in [Worker -> Work]
    BY <1>6, ActionMoves DEF HandlerNext, Moves
  <2>2. CASE ReadMode(p) \/ DivertToSpool(p)
    BY <1>6, <2>1, <2>2
       DEF TypeOK, ReadMode, DivertToSpool, agentVars, dbVars, adminVars
  <2>3. CASE RefuseInProgress(p) \/ RefuseError(p) \/ SpoolAppendFails(p)
    <3>1. awaiting' \in Pod \cup {NoPod}
      BY <2>3 DEF TypeOK, RefuseInProgress, RefuseError, SpoolAppendFails, Refuse
    <3>2. mode' \in [Pod -> {"active", "degraded", "down"}]
      BY <2>3 DEF TypeOK, RefuseInProgress, RefuseError, SpoolAppendFails
    <3>3. faults' \in 0..MaxFaults
      BY <2>3, FaultType
         DEF TypeOK, RefuseInProgress, RefuseError, SpoolAppendFails
    <3>4. UNCHANGED <<agentVars, listing, lease, spool, dbVars, dbUp, adminVars,
                      discarded>>
      BY <2>3 DEF RefuseInProgress, RefuseError, SpoolAppendFails
    <3>. QED BY <2>1, <3>1, <3>2, <3>3, <3>4
         DEF TypeOK, agentVars, dbVars, adminVars
  <2>4. CASE SpoolAppend(p)
    <3>1. work[Http(p)].event \in Event
      BY <2>4, Workers DEF WorkOK, SpoolAppend
    <3>2. spool' \in Seq(Event)
      BY <2>4, <3>1, AppendElements DEF SpoolAppend, TypeOK
    <3>. QED BY <1>6, <2>1, <2>4, <3>2
         DEF TypeOK, SpoolAppend, agentVars, dbVars, adminVars
  <2>5. CASE Answer(p)
    <3>1. work[Http(p)].event \in Event
      BY <2>5, Workers DEF WorkOK, Answer
    <3>2. queue' \in Seq(Event) /\ acked' \subseteq Event
      BY <2>5, <3>1, RemoveFirstElements DEF Answer, TypeOK
    <3>. QED BY <1>6, <2>1, <2>5, <3>2
         DEF TypeOK, Answer, dbVars, adminVars
  <2>. QED BY <1>6, <2>2, <2>3, <2>4, <2>5 DEF HandlerNext
<1>7. ASSUME NEW p \in Pod, ReplayNext(p)
      PROVE  TypeOK'
  <2>2. CASE StartReplay(p)
    BY <1>7, <2>2, ActionMoves
       DEF TypeOK, Moves, StartReplay, agentVars, dbVars, adminVars
  <2>3. CASE StopReplay(p) \/ ReplayFails(p)
    <3>1. work' \in [Worker -> Work]
      BY <2>3, ActionMoves DEF Moves
    <3>2. EndReplay(p)
      BY <2>3 DEF StopReplay, ReplayFails
    <3>3. listing' \in [Pod -> Seq(Event)]
      BY <3>2 DEF TypeOK, EndReplay
    <3>4. faults' \in 0..MaxFaults
      BY <2>3, FaultType DEF TypeOK, StopReplay, ReplayFails
    <3>. QED BY <3>1, <3>2, <3>3, <3>4
         DEF TypeOK, EndReplay, agentVars, dbVars, adminVars
  <2>4. CASE DiscardSegment(p)
    <3>1. /\ Head(listing[p]) \in Event /\ Tail(listing[p]) \in Seq(Event)
          /\ RemoveFirst(spool, Head(listing[p])) \in Seq(Event)
      BY <2>4, HeadTailElements, RemoveFirstElements DEF DiscardSegment, TypeOK
    <3>. QED BY <1>7, <2>4, <3>1
         DEF TypeOK, DiscardSegment, agentVars, dbVars, adminVars
  <2>5. CASE ReplaySegment(p)
    BY <1>7, <2>5, ActionMoves
       DEF TypeOK, Moves, ReplaySegment, agentVars, dbVars, adminVars
  <2>6. CASE AcknowledgeSegment(p)
    <3>1. listing[p] # <<>>
      BY <2>6, Workers DEF WorkOK, AcknowledgeSegment
    <3>2. /\ Tail(listing[p]) \in Seq(Event)
          /\ RemoveFirst(spool, work[Replay(p)].event) \in Seq(Event)
      BY <3>1, HeadTailElements, RemoveFirstElements DEF TypeOK
    <3>. QED BY <1>7, <2>6, <3>2, ActionMoves
         DEF TypeOK, Moves, AcknowledgeSegment, agentVars, dbVars, adminVars
  <2>. QED BY <1>7, <2>2, <2>3, <2>4, <2>5, <2>6 DEF ReplayNext
<1>8. ASSUME NEW p \in Pod, Ping(p) \/ PodStart(p)
      PROVE  TypeOK'
  BY <1>8 DEF TypeOK, Ping, PodStart, agentVars, dbVars, adminVars
<1>9. ASSUME NEW p \in Pod, PodCrash(p)
      PROVE  TypeOK'
  <2>1. work' \in [Worker -> Work] /\ faults' \in 0..MaxFaults
    BY <1>9, CrashMoves, FaultType DEF PodCrash
  <2>2. /\ mode' \in [Pod -> {"active", "degraded", "down"}]
        /\ listing' \in [Pod -> Seq(Event)]
        /\ holder' \in [Event -> Worker \cup {NoWorker}]
    BY <1>9 DEF TypeOK, PodCrash
  <2>3. lease' \in Pod \cup {NoPod} /\ awaiting' \in Pod \cup {NoPod}
    BY <1>9 DEF TypeOK, PodCrash
  <2>. QED BY <1>9, <2>1, <2>2, <2>3 DEF TypeOK, PodCrash, agentVars, adminVars
<1>10. ASSUME DatabaseDown
       PROVE  TypeOK'
  BY <1>10, OutageMoves, FaultType DEF TypeOK, DatabaseDown, agentVars, adminVars
<1>11. ASSUME DatabaseUp \/ \E b \in BOOLEAN : SetBlocked(b)
       PROVE  TypeOK'
  BY <1>11 DEF TypeOK, DatabaseUp, SetBlocked, agentVars, dbVars, adminVars
<1>. QED BY <1>1, <1>2, <1>3, <1>4, <1>5, <1>6, <1>7, <1>8, <1>9, <1>10, <1>11
     DEF Next, AgentNext

(* What a worker does only depends on its own record and listing.           *)
LEMMA WorkStep ==
  ASSUME TypeOK, WorkOK, Next
  PROVE  WorkOK'
<1>1. CASE Still
  <2>1. work' = work
    BY <1>1, StillMoves
  <2>2. \A q \in Pod : listing'[q] = listing[q] \/ work[Replay(q)].at = "next"
    BY <1>1 DEF TypeOK, Still, Enqueue, Damage, Quarantine, GiveUp, DatabaseUp,
       DiscardSegment, Ping, PodStart, SetBlocked
  <2>. QED BY <2>1, <2>2 DEF WorkOK
<1>2. ASSUME NEW p \in Pod, Send(p)
      PROVE  WorkOK'
  <2>1. Moves(Http(p), "received", Head(queue)) /\ Head(queue) \in Event
        /\ listing' = listing
    BY <1>2, ActionMoves, HeadTailElements DEF Send, TypeOK
  <2>. QED BY <2>1, Workers DEF WorkOK, Moves
<1>3. ASSUME NEW w \in Worker, Process(w)
      PROVE  WorkOK'
  <2>1. /\ work[w].at \in {"reserve", "claim", "apply", "failing"}
        /\ listing' = listing
        /\ \E a \in {"apply", "ok", "claim", "busy", "error", "failing"} :
             Moves(w, a, work[w].event)
    BY <1>3, ActionMoves
       DEF Process, Reserve, Claim, ReserveFails, Commit, CommitUnknown,
           CommitEvent, ApplyFails, RecordFailure
  <2>2. PICK a \in {"apply", "ok", "claim", "busy", "error", "failing"} :
          Moves(w, a, work[w].event)
    BY <2>1
  <2>3. CASE \E p \in Pod : w = Http(p)
    BY <2>1, <2>2, <2>3, Workers DEF WorkOK, Moves
  <2>4. CASE \E p \in Pod : w = Replay(p)
    BY <2>1, <2>2, <2>4, Workers DEF WorkOK, Moves
  <2>. QED BY <2>3, <2>4, Workers
<1>4. ASSUME NEW p \in Pod, HandlerNext(p)
      PROVE  WorkOK'
  <2>1. /\ work[Http(p)].at \notin {"idle", "next"}
        /\ listing' = listing
        /\ \/ \E a \in {"spooling", "reserve", "ok"} :
               Moves(Http(p), a, work[Http(p)].event)
           \/ Moves(Http(p), "idle", NoEvent)
    BY <1>4, ActionMoves
       DEF HandlerNext, ReadMode, RefuseInProgress, RefuseError, DivertToSpool,
           SpoolAppend, SpoolAppendFails, Answer
  <2>2. CASE Moves(Http(p), "idle", NoEvent)
    BY <2>1, <2>2, Workers DEF WorkOK, Moves
  <2>3. ASSUME NEW a \in {"spooling", "reserve", "ok"},
               Moves(Http(p), a, work[Http(p)].event)
        PROVE  WorkOK'
    BY <2>1, <2>3, Workers DEF WorkOK, Moves
  <2>. QED BY <2>1, <2>2, <2>3
<1>5. ASSUME NEW p \in Pod, ReplayNext(p), ~DiscardSegment(p)
      PROVE  WorkOK'
  <2>1. \A q \in Pod : q # p => listing'[q] = listing[q]
    BY <1>5 DEF TypeOK, ReplayNext, StartReplay, StopReplay, ReplayFails,
       EndReplay, ReplaySegment, AcknowledgeSegment
  <2>2. CASE \/ StartReplay(p) \/ StopReplay(p) \/ ReplayFails(p)
             \/ AcknowledgeSegment(p)
    <3>1. \E a \in {"idle", "next"} : Moves(Replay(p), a, NoEvent)
      BY <2>2, ActionMoves, Workers DEF StartReplay, Idle
    <3>. QED BY <2>1, <3>1, Workers DEF WorkOK, Moves
  <2>3. CASE ReplaySegment(p)
    <3>1. /\ Moves(Replay(p), "reserve", Head(listing[p]))
          /\ listing' = listing /\ listing[p] # <<>> /\ Head(listing[p]) \in Event
      BY <2>3, ActionMoves, HeadTailElements DEF ReplaySegment, TypeOK
    <3>. QED BY <3>1, Workers DEF WorkOK, Moves
  <2>. QED BY <1>5, <2>2, <2>3 DEF ReplayNext
<1>6. ASSUME NEW p \in Pod, PodCrash(p)
      PROVE  WorkOK'
  <2>1. /\ work' \in [Worker -> Work]
        /\ work'[Http(p)] = Idle /\ work'[Replay(p)] = Idle
        /\ \A v \in Worker : v \notin {Http(p), Replay(p)} => work'[v] = work[v]
    BY <1>6, CrashMoves
  <2>2. \A q \in Pod : q # p => listing'[q] = listing[q]
    BY <1>6 DEF PodCrash, TypeOK
  <2>. QED BY <2>1, <2>2, Workers DEF WorkOK, Idle
<1>7. CASE DatabaseDown
  <2>1. listing' = listing
    BY <1>7 DEF DatabaseDown
  <2>. QED BY <1>7, <2>1, OutageMoves, Workers DEF WorkOK
<1>. QED BY <1>1, <1>2, <1>3, <1>4, <1>5, <1>6, <1>7
     DEF Next, AgentNext, Still

(* Who owns a row, and what the row says, changes only with the phase of    *)
(* the worker concerned.                                                     *)
LEMMA RowsStep ==
  ASSUME TypeOK, WorkOK, RowsOK, Next
  PROVE  RowsOK'
<1>1. ASSUME UNCHANGED dbVars,
             \A w \in Worker : \/ work'[w] = work[w]
                               \/ work[w].at # "apply" /\ work'[w].at # "apply"
      PROVE  RowsOK'
  BY <1>1 DEF RowsOK, dbVars
<1>2. CASE Still
  BY <1>1, <1>2, StillMoves
     DEF Still, Enqueue, Damage, Quarantine, GiveUp, DatabaseUp, DiscardSegment,
         Ping, PodStart, SetBlocked
<1>3. ASSUME NEW p \in Pod, Send(p)
      PROVE  RowsOK'
  BY <1>1, <1>3, ActionMoves, Workers DEF Send, Moves, Idle
<1>4. ASSUME NEW w \in Worker, Process(w)
      PROVE  RowsOK'
  <2>1. work[w].event \in Event
    BY <1>4 DEF WorkOK, Process, Reserve, Claim, ReserveFails, Commit,
                CommitUnknown, CommitEvent, ApplyFails, RecordFailure
  <2>2. PICK e \in Event : e = work[w].event
    BY <2>1
  <2>3. CASE Reserve(w)
    <3>1. CASE /\ row[e] = "none" /\ holder[e] = NoWorker
               /\ holder' = [holder EXCEPT ![e] = w]
               /\ Goto(w, "apply")
      <4>1. Moves(w, "apply", e)
        BY <3>1, <2>2, GotoMoves DEF TypeOK, Phase
      <4>2. work[w].at = "reserve" /\ UNCHANGED <<row, applied>>
        BY <2>3 DEF Reserve
      <4>3. /\ holder'[e] = w /\ row'[e] # "processed" /\ applied'[e] = 0
            /\ \A f \in Event : f # e => holder'[f] = holder[f]
        BY <3>1, <4>2 DEF RowsOK, TypeOK
      <4>4. \A v \in Worker : ~(work[v].at = "apply" /\ work[v].event = e)
        BY <3>1, Workers DEF RowsOK
      <4>. QED BY <4>1, <4>2, <4>3, <4>4, Workers DEF RowsOK, Moves
    <3>2. CASE UNCHANGED holder /\ \E a \in {"ok", "claim"} : Goto(w, a)
      <4>1. PICK a \in {"ok", "claim"} : Goto(w, a)
        BY <3>2
      <4>2. Moves(w, a, e)
        BY <4>1, <2>2, GotoMoves DEF TypeOK, Phase
      <4>. QED BY <1>1, <2>3, <3>2, <4>2 DEF Reserve, Moves, dbVars
    <3>. QED BY <2>2, <2>3, <3>1, <3>2 DEF Reserve
  <2>4. CASE Claim(w)
    <3>1. CASE /\ row[e] = "failed" /\ holder[e] = NoWorker
               /\ holder' = [holder EXCEPT ![e] = w]
               /\ Goto(w, "apply")
      <4>1. Moves(w, "apply", e)
        BY <3>1, <2>2, GotoMoves DEF TypeOK, Phase
      <4>2. work[w].at = "claim" /\ UNCHANGED <<row, applied>>
        BY <2>4 DEF Claim
      <4>3. /\ holder'[e] = w /\ row'[e] # "processed" /\ applied'[e] = 0
            /\ \A f \in Event : f # e => holder'[f] = holder[f]
        BY <3>1, <4>2 DEF RowsOK, TypeOK
      <4>4. \A v \in Worker : ~(work[v].at = "apply" /\ work[v].event = e)
        BY <3>1, Workers DEF RowsOK
      <4>. QED BY <4>1, <4>2, <4>3, <4>4, Workers DEF RowsOK, Moves
    <3>2. CASE UNCHANGED holder /\ Goto(w, "busy")
      <4>1. Moves(w, "busy", e)
        BY <3>2, <2>2, GotoMoves DEF TypeOK, Phase
      <4>. QED BY <1>1, <2>4, <3>2, <4>1 DEF Claim, Moves, dbVars
    <3>. QED BY <2>2, <2>4, <3>1, <3>2 DEF Claim
  <2>5. CASE ReserveFails(w)
    BY <1>1, <2>5, ActionMoves DEF ReserveFails, Moves
  <2>6. CASE Commit(w) \/ CommitUnknown(w)
    <3>1. CommitEvent(w)
      BY <2>6 DEF Commit, CommitUnknown
    <3>2. \E a \in {"ok", "error"} : Moves(w, a, e)
      BY <2>2, <2>6, ActionMoves
    <3>3. holder[e] = w /\ row[e] # "processed" /\ applied[e] = 0
      BY <2>2, <3>1, Workers DEF CommitEvent, RowsOK
    <3>4. /\ row' = [row EXCEPT ![e] = "processed"]
          /\ applied' = [applied EXCEPT ![e] = applied[e] + 1]
          /\ holder' = [holder EXCEPT ![e] = NoWorker]
      BY <2>2, <3>1 DEF CommitEvent
    <3>5. applied'[e] = 1 /\ row'[e] = "processed" /\ holder'[e] = NoWorker
      BY <3>3, <3>4 DEF TypeOK
    <3>6. \A f \in Event : f # e => /\ applied'[f] = applied[f]
                                    /\ row'[f] = row[f]
                                    /\ holder'[f] = holder[f]
      BY <3>4 DEF TypeOK
    <3>7. \A v \in Worker : ~(work'[v].at = "apply" /\ work'[v].event = e)
      BY <2>2, <3>2, <3>3 DEF Moves, RowsOK
    <3>. QED BY <2>2, <3>1, <3>2, <3>5, <3>6, <3>7, Workers
         DEF RowsOK, Moves, CommitEvent
  <2>7. CASE ApplyFails(w)
    <3>1. /\ holder' = [holder EXCEPT ![e] = NoWorker]
          /\ UNCHANGED <<row, applied>> /\ work[w].at = "apply"
      BY <2>2, <2>7 DEF ApplyFails
    <3>2. PICK a \in {"failing", "error"} : Moves(w, a, e)
      BY <2>2, <2>7, ActionMoves
    <3>3. holder[e] = w
      BY <2>2, <3>1 DEF RowsOK
    <3>4. /\ holder'[e] = NoWorker
          /\ \A f \in Event : f # e => holder'[f] = holder[f]
      BY <3>1 DEF TypeOK
    <3>5. \A v \in Worker : work[v].at = "apply" /\ work[v].event = e => v = w
      BY <3>3 DEF RowsOK
    <3>. QED BY <2>2, <3>1, <3>2, <3>3, <3>4, <3>5, Workers DEF RowsOK, Moves
  <2>8. CASE RecordFailure(w)
    <3>1. Moves(w, "error", e) /\ work[w].at = "failing" /\ UNCHANGED <<holder, applied>>
      BY <2>2, <2>8, ActionMoves DEF RecordFailure
    <3>2. \A f \in Event : row'[f] = "processed" <=> row[f] = "processed"
      BY <2>2, <2>8 DEF RecordFailure, TypeOK
    <3>. QED BY <3>1, <3>2 DEF RowsOK, Moves
  <2>. QED BY <1>4, <2>3, <2>4, <2>5, <2>6, <2>7, <2>8 DEF Process
<1>5. ASSUME NEW p \in Pod, HandlerNext(p)
      PROVE  RowsOK'
  <2>1. /\ UNCHANGED dbVars /\ work[Http(p)].at # "apply"
        /\ \E a \in Phase \ {"apply"}, e \in Event \cup {NoEvent} : Moves(Http(p), a, e)
    BY <1>5, ActionMoves, Workers
       DEF HandlerNext, ReadMode, RefuseInProgress, RefuseError, DivertToSpool,
           SpoolAppend, SpoolAppendFails, Answer, Phase, TypeOK, Work
  <2>. QED BY <1>1, <2>1 DEF Moves
<1>6. ASSUME NEW p \in Pod, ReplayNext(p), ~DiscardSegment(p)
      PROVE  RowsOK'
  <2>1. /\ UNCHANGED dbVars /\ work[Replay(p)].at # "apply"
        /\ \E a \in {"next", "reserve", "idle"} :
             work'[Replay(p)].at = a
        /\ \A v \in Worker : v # Replay(p) => work'[v] = work[v]
    BY <1>6, ActionMoves
       DEF ReplayNext, StartReplay, StopReplay, ReplayFails, EndReplay,
           ReplaySegment, AcknowledgeSegment, Moves, Idle
  <2>. QED BY <1>1, <2>1
<1>7. ASSUME NEW p \in Pod, PodCrash(p)
      PROVE  RowsOK'
  <2>1. /\ work'[Http(p)] = Idle /\ work'[Replay(p)] = Idle
        /\ \A v \in Worker : v \notin {Http(p), Replay(p)} => work'[v] = work[v]
    BY <1>7, CrashMoves
  <2>2. /\ UNCHANGED <<row, applied>>
        /\ \A e \in Event : holder'[e] = IF holder[e] \in {Http(p), Replay(p)}
                                         THEN NoWorker ELSE holder[e]
    BY <1>7 DEF PodCrash
  <2>. QED BY <2>1, <2>2, Workers DEF RowsOK, Idle
<1>8. CASE DatabaseDown
  <2>1. UNCHANGED <<row, applied>> /\ \A e \in Event : holder'[e] = NoWorker
    BY <1>8 DEF DatabaseDown
  <2>2. \A w \in Worker : work'[w].at # "apply"
    BY <1>8, OutageMoves
  <2>. QED BY <2>1, <2>2, Workers DEF RowsOK
<1>. QED BY <1>2, <1>3, <1>4, <1>5, <1>6, <1>7, <1>8
     DEF Next, AgentNext, Still

(* What is durable stays durable: a segment leaves the spool only when its  *)
(* event is processed, or recorded as discarded.                             *)
LEMMA StoredGrows ==
  ASSUME TypeOK, WorkOK, RowsOK, AcceptedOK, Next
  PROVE  Processed \subseteq Processed' /\ Stored \subseteq Stored'
<1>1. ASSUME row' = row \/ \A e \in Event : row[e] = "processed" => row'[e] = "processed"
      PROVE  Processed \subseteq Processed'
  BY <1>1 DEF Processed
<1>2. ASSUME UNCHANGED <<spool, discarded>>, Processed \subseteq Processed'
      PROVE  Stored \subseteq Stored'
  BY <1>2 DEF Stored
<1>3. ASSUME NEW w \in Worker, Process(w)
      PROVE  Processed \subseteq Processed' /\ Stored \subseteq Stored'
  <2>1. \A e \in Event : row[e] = "processed" => row'[e] = "processed"
    BY <1>3 DEF TypeOK, Process, Reserve, Claim, ReserveFails, Commit,
                CommitUnknown, CommitEvent, ApplyFails, RecordFailure, dbVars
  <2>2. UNCHANGED <<spool, discarded>>
    BY <1>3 DEF Process, Reserve, Claim, ReserveFails, Commit,
                CommitUnknown, CommitEvent, ApplyFails, RecordFailure
  <2>. QED BY <1>1, <1>2, <2>1, <2>2
<1>4. ASSUME NEW p \in Pod, SpoolAppend(p)
      PROVE  Processed \subseteq Processed' /\ Stored \subseteq Stored'
  <2>1. work[Http(p)].event \in Event
    BY <1>4, Workers DEF WorkOK, SpoolAppend
  <2>2. ToSet(spool) \subseteq ToSet(spool') /\ UNCHANGED <<row, discarded>>
    BY <1>4, <2>1, AppendElements DEF SpoolAppend, TypeOK, dbVars
  <2>. QED BY <2>2 DEF Stored, Processed
<1>5. ASSUME NEW p \in Pod, DiscardSegment(p)
      PROVE  Processed \subseteq Processed' /\ Stored \subseteq Stored'
  <2>. DEFINE e == Head(listing[p])
  <2>1. ToSet(spool) \ {e} \subseteq ToSet(RemoveFirst(spool, e))
    BY RemoveFirstElements DEF TypeOK
  <2>2. /\ spool' = RemoveFirst(spool, e) /\ discarded' = discarded \cup {e}
        /\ row' = row
    BY <1>5 DEF DiscardSegment, dbVars
  <2>. QED BY <2>1, <2>2 DEF Stored, Processed
<1>6. ASSUME NEW p \in Pod, AcknowledgeSegment(p)
      PROVE  Processed \subseteq Processed' /\ Stored \subseteq Stored'
  <2>. DEFINE e == work[Replay(p)].event
  <2>1. ToSet(spool) \ {e} \subseteq ToSet(RemoveFirst(spool, e))
    BY RemoveFirstElements DEF TypeOK
  <2>2. spool' = RemoveFirst(spool, e) /\ UNCHANGED <<row, discarded>>
    BY <1>6 DEF AcknowledgeSegment, dbVars
  <2>3. e \in Processed
    BY <1>6, Workers DEF AcknowledgeSegment, AcceptedOK, WorkOK, Processed
  <2>. QED BY <2>1, <2>2, <2>3 DEF Stored, Processed
<1>7. ASSUME \/ \E e \in Event : Enqueue(e) \/ Damage(e)
             \/ Quarantine \/ GiveUp \/ DatabaseUp \/ DatabaseDown
             \/ \E p \in Pod : \/ Send(p) \/ Ping(p) \/ PodStart(p) \/ PodCrash(p)
                              \/ (HandlerNext(p) /\ ~SpoolAppend(p))
                              \/ StartReplay(p) \/ StopReplay(p) \/ ReplayFails(p)
                              \/ ReplaySegment(p)
             \/ \E b \in BOOLEAN : SetBlocked(b)
      PROVE  Processed \subseteq Processed' /\ Stored \subseteq Stored'
  <2>1. UNCHANGED <<row, spool, discarded>>
    BY <1>7 DEF Enqueue, Damage, Quarantine, GiveUp, DatabaseUp, DatabaseDown,
       Send, Ping, PodStart, PodCrash, HandlerNext, ReadMode, RefuseInProgress,
       RefuseError, DivertToSpool, SpoolAppendFails, Answer, StartReplay,
       StopReplay, ReplayFails, EndReplay, ReplaySegment, SetBlocked, dbVars
  <2>. QED BY <1>1, <1>2, <2>1
<1>. QED BY <1>3, <1>4, <1>5, <1>6, <1>7
     DEF Next, AgentNext, HandlerNext, ReplayNext

(* Nobody says "accepted" before the event is durable.                      *)
LEMMA AcceptedStep ==
  ASSUME TypeOK, WorkOK, RowsOK, AcceptedOK, Next
  PROVE  AcceptedOK'
<1>1. Processed \subseteq Processed' /\ Stored \subseteq Stored'
  BY StoredGrows
<1>2. ASSUME NEW v \in Worker, work'[v].at = "ok" => work'[v] = work[v]
      PROVE  /\ work'[v].at = "ok" => work'[v].event \in Stored'
             /\ \A p \in Pod : v = Replay(p) /\ work'[v].at = "ok" =>
                                row'[work'[v].event] = "processed"
  BY <1>1, <1>2 DEF AcceptedOK, WorkOK, Processed
<1>3. ASSUME \A v \in Worker : work'[v].at = "ok" => work'[v] = work[v]
      PROVE  AcceptedOK'
  BY <1>2, <1>3, Workers DEF AcceptedOK
<1>4. CASE Still \/ DatabaseDown
  BY <1>3, <1>4, StillMoves, OutageMoves
<1>5. ASSUME NEW p \in Pod, PodCrash(p)
      PROVE  AcceptedOK'
  <2>1. Idle.at # "ok"
    BY DEF Idle
  <2>. QED BY <1>3, <1>5, <2>1, CrashMoves
<1>6. ASSUME NEW p \in Pod, Send(p) \/ (ReplayNext(p) /\ ~DiscardSegment(p))
      PROVE  AcceptedOK'
  BY <1>3, <1>6, ActionMoves DEF ReplayNext, Moves
<1>7. ASSUME NEW w \in Worker, Process(w)
      PROVE  AcceptedOK'
  <2>1. /\ \A v \in Worker : v # w => work'[v] = work[v]
        /\ work'[w].event = work[w].event
    BY <1>7, ActionMoves DEF Process, Moves
  <2>2. work[w].event \in Event
    BY <1>7 DEF WorkOK, Process, Reserve, Claim, ReserveFails, Commit,
                CommitUnknown, CommitEvent, ApplyFails, RecordFailure
  <2>3. work'[w].at = "ok" => row'[work[w].event] = "processed"
    <3>1. CASE Reserve(w)
      <4>1. row' = row
        BY <3>1 DEF Reserve
      <4>2. row[work[w].event] = "processed" \/ Goto(w, "apply") \/ Goto(w, "claim")
        BY <3>1 DEF Reserve
      <4>3. Goto(w, "apply") \/ Goto(w, "claim") => work'[w].at # "ok"
        BY GotoMoves DEF Moves, TypeOK, Phase
      <4>. QED BY <4>1, <4>2, <4>3
    <3>2. CASE Commit(w)
      BY <2>2, <3>2 DEF Commit, CommitEvent, TypeOK
    <3>3. CASE Process(w) /\ ~Reserve(w) /\ ~Commit(w)
      BY <3>3, ActionMoves DEF Process, Moves
    <3>. QED BY <1>7, <3>1, <3>2, <3>3
  <2>4. work'[w].at = "ok" => work'[w].event \in Stored'
    BY <2>1, <2>2, <2>3 DEF Stored, Processed
  <2>. QED BY <1>2, <2>1, <2>3, <2>4, Workers DEF AcceptedOK
<1>8. ASSUME NEW p \in Pod, HandlerNext(p)
      PROVE  AcceptedOK'
  <2>1. CASE SpoolAppend(p)
    <3>1. Moves(Http(p), "ok", work[Http(p)].event)
      BY <2>1, ActionMoves
    <3>2. work[Http(p)].event \in Event
      BY <2>1, Workers DEF WorkOK, SpoolAppend
    <3>3. work[Http(p)].event \in ToSet(spool')
      BY <2>1, <3>2, AppendElements DEF SpoolAppend, TypeOK
    <3>. QED BY <1>2, <3>1, <3>3, Workers DEF AcceptedOK, Moves, Stored
  <2>2. CASE HandlerNext(p) /\ ~SpoolAppend(p)
    BY <1>3, <2>2, ActionMoves DEF HandlerNext, Moves
  <2>. QED BY <1>8, <2>1, <2>2
<1>. QED BY <1>4, <1>5, <1>6, <1>7, <1>8 DEF Next, AgentNext, Still

(* The Agent deletes a queue file only once its event is durable.           *)
LEMMA EmittedStep ==
  ASSUME TypeOK, WorkOK, RowsOK, AcceptedOK, NoEventLost, Next
  PROVE  NoEventLost'
<1>1. Stored \subseteq Stored'
  BY StoredGrows
<1>2. ASSUME emitted' = emitted, quarantined \subseteq quarantined',
             ToSet(queue) \subseteq ToSet(queue') \cup quarantined' \cup Stored'
      PROVE  NoEventLost'
  BY <1>1, <1>2 DEF NoEventLost
<1>3. ASSUME NEW e \in Event, Enqueue(e)
      PROVE  NoEventLost'
  <2>1. ToSet(queue') = ToSet(queue) \cup {e} /\ quarantined' = quarantined
        /\ emitted' = emitted \cup {e}
    BY <1>3, AppendElements DEF Enqueue, TypeOK
  <2>. QED BY <1>1, <2>1 DEF NoEventLost
<1>4. CASE Quarantine
  BY <1>2, <1>4, HeadTailElements DEF Quarantine, TypeOK
<1>5. ASSUME NEW p \in Pod, Answer(p)
      PROVE  NoEventLost'
  <2>1. work[Http(p)].event \in Stored
    BY <1>5, Workers DEF AcceptedOK, Answer
  <2>2. PICK e : e = work[Http(p)].event
    OBVIOUS
  <2>3. ToSet(queue) \ {e} \subseteq ToSet(queue')
    BY <1>5, <2>2, RemoveFirstElements DEF Answer, TypeOK
  <2>4. UNCHANGED <<emitted, quarantined>>
    BY <1>5 DEF Answer
  <2>. QED BY <1>1, <1>2, <2>1, <2>2, <2>3, <2>4
<1>6. ASSUME UNCHANGED <<queue, emitted, quarantined>>
      PROVE  NoEventLost'
  BY <1>2, <1>6
<1>7. ASSUME NEW w \in Worker, Process(w)
      PROVE  UNCHANGED <<queue, emitted, quarantined>>
  BY <1>7 DEF Process, Reserve, Claim, ReserveFails, Commit, CommitUnknown,
     CommitEvent, ApplyFails, RecordFailure, agentVars
<1>8. ASSUME NEW p \in Pod, HandlerNext(p) /\ ~Answer(p)
      PROVE  UNCHANGED <<queue, emitted, quarantined>>
  BY <1>8 DEF HandlerNext, ReadMode, RefuseInProgress, RefuseError,
     DivertToSpool, SpoolAppend, SpoolAppendFails, agentVars
<1>9. ASSUME NEW p \in Pod,
             ReplayNext(p) \/ Send(p) \/ Ping(p) \/ PodStart(p) \/ PodCrash(p)
      PROVE  UNCHANGED <<queue, emitted, quarantined>>
  BY <1>9 DEF ReplayNext, StartReplay, StopReplay, ReplayFails, EndReplay,
     DiscardSegment, ReplaySegment, AcknowledgeSegment, Send, Ping, PodStart, PodCrash, agentVars
<1>10. ASSUME \/ \E e \in Event : Damage(e)
              \/ GiveUp \/ DatabaseDown \/ DatabaseUp
              \/ \E b \in BOOLEAN : SetBlocked(b)
       PROVE  UNCHANGED <<queue, emitted, quarantined>>
  BY <1>10 DEF Damage, GiveUp, DatabaseDown, DatabaseUp, SetBlocked, agentVars
<1>. QED BY <1>3, <1>4, <1>5, <1>6, <1>7, <1>8, <1>9, <1>10 DEF Next, AgentNext

(* A replay in progress holds the lock from its first segment to its end.   *)
LEMMA LeaseStep ==
  ASSUME TypeOK, WorkOK, LeaseOK, Next
  PROVE  LeaseOK'
<1>1. ASSUME lease' = lease,
             \A p \in Pod : work'[Replay(p)] = work[Replay(p)] \/ work[Replay(p)].at # "idle"
      PROVE  LeaseOK'
  BY <1>1 DEF LeaseOK, Idle
<1>2. CASE Still
  BY <1>1, <1>2, StillMoves DEF Still, Enqueue, Damage, Quarantine, GiveUp,
     DatabaseUp, DiscardSegment, Ping, PodStart, SetBlocked
<1>3. ASSUME NEW p \in Pod, Send(p) \/ HandlerNext(p)
      PROVE  LeaseOK'
  <2>1. lease' = lease
    BY <1>3 DEF Send, HandlerNext, ReadMode, RefuseInProgress, RefuseError,
       DivertToSpool, SpoolAppend, SpoolAppendFails, Answer
  <2>2. \A v \in Worker : v # Http(p) => work'[v] = work[v]
    BY <1>3, ActionMoves DEF HandlerNext, Moves
  <2>. QED BY <1>1, <2>1, <2>2, Workers
<1>4. ASSUME NEW w \in Worker, Process(w)
      PROVE  LeaseOK'
  <2>1. lease' = lease /\ work[w].at # "idle"
    BY <1>4 DEF Process, Reserve, Claim, ReserveFails, Commit, CommitUnknown,
       CommitEvent, ApplyFails, RecordFailure
  <2>2. \A v \in Worker : v # w => work'[v] = work[v]
    BY <1>4, ActionMoves DEF Process, Moves
  <2>. QED BY <1>1, <2>1, <2>2, Workers
<1>5. ASSUME NEW p \in Pod, ReplayNext(p)
      PROVE  LeaseOK'
  <2>1. CASE StartReplay(p)
    <3>1. lease = NoPod /\ lease' = p
      BY <2>1 DEF StartReplay
    <3>2. \A q \in Pod : work[Replay(q)] = Idle
      BY <3>1, DeliveryAssumption DEF LeaseOK
    <3>3. \A q \in Pod : q # p => work'[Replay(q)] = Idle
      BY <2>1, <3>2, ActionMoves, Workers DEF Moves
    <3>. QED BY <3>1, <3>3 DEF LeaseOK
  <2>2. CASE StopReplay(p) \/ ReplayFails(p)
    <3>1. work[Replay(p)] # Idle /\ work' = [work EXCEPT ![Replay(p)] = Idle]
      BY <2>2 DEF StopReplay, ReplayFails, EndReplay, Idle
    <3>2. \A q \in Pod : q # p => work[Replay(q)] = Idle
      BY <3>1 DEF LeaseOK
    <3>3. \A q \in Pod : work'[Replay(q)] = Idle
      BY <3>1, <3>2, Workers DEF TypeOK
    <3>. QED BY <3>3 DEF LeaseOK
  <2>3. CASE ReplaySegment(p) \/ AcknowledgeSegment(p)
    <3>1. lease' = lease /\ work[Replay(p)].at # "idle"
      BY <2>3 DEF ReplaySegment, AcknowledgeSegment
    <3>2. \A v \in Worker : v # Replay(p) => work'[v] = work[v]
      BY <2>3, ActionMoves DEF Moves
    <3>. QED BY <1>1, <3>1, <3>2, Workers
  <2>. QED BY <1>2, <1>5, <2>1, <2>2, <2>3 DEF ReplayNext, Still
<1>6. ASSUME NEW p \in Pod, PodCrash(p)
      PROVE  LeaseOK'
  <2>1. work'[Replay(p)] = Idle
        /\ \A q \in Pod : q # p => work'[Replay(q)] = work[Replay(q)]
    BY <1>6, CrashMoves, Workers
  <2>2. lease # p => lease' = lease
    BY <1>6 DEF PodCrash
  <2>3. ASSUME NEW q \in Pod, work'[Replay(q)] # Idle
        PROVE  lease' = q
    BY <2>1, <2>2, <2>3 DEF LeaseOK
  <2>. QED BY <2>3 DEF LeaseOK
<1>7. CASE DatabaseDown
  <2>1. \A w \in Worker : work'[w] = work[w] \/ work[w].at # "idle"
    BY <1>7, OutageMoves
  <2>2. lease' = lease
    BY <1>7 DEF DatabaseDown
  <2>. QED BY <1>1, <2>1, <2>2, Workers
<1>. QED BY <1>2, <1>3, <1>4, <1>5, <1>6, <1>7 DEF Next, AgentNext, Still

(***************************************************************************)
(* The invariant, and what follows from it.                                *)
(***************************************************************************)

LEMMA InitInvariant ==
  ASSUME Init
  PROVE  IInv
<1>1. \A w \in Worker : work[w] = Idle
  BY DEF Init
<1>2. ToSet(<<>>) = {}
  BY DEF ToSet
<1>3. TypeOK
  <2>1. Idle \in Work
    BY DEF Idle, Work, Phase
  <2>2. 0 \in 0..MaxFaults
    BY DeliveryAssumption
  <2>3. NoWorker \in Worker \cup {NoWorker}
    OBVIOUS
  <2>4. /\ queue \in Seq(Event) /\ spool \in Seq(Event)
        /\ listing \in [Pod -> Seq(Event)]
    BY DEF Init
  <2>5. /\ work \in [Worker -> Work]
        /\ holder \in [Event -> Worker \cup {NoWorker}]
        /\ applied \in [Event -> Nat]
        /\ faults \in 0..MaxFaults
    BY <2>1, <2>2, <2>3 DEF Init
  <2>. QED BY <2>4, <2>5 DEF Init, TypeOK
<1>4. WorkOK /\ AcceptedOK /\ LeaseOK
  BY <1>1, Workers DEF WorkOK, AcceptedOK, LeaseOK, Idle
<1>5. RowsOK
  BY <1>1, Workers DEF RowsOK, Idle, Init
<1>6. NoEventLost
  BY DEF NoEventLost, Init
<1>. QED BY <1>3, <1>4, <1>5, <1>6 DEF IInv

LEMMA StepInvariant ==
  ASSUME IInv, [Next]_vars
  PROVE  IInv'
<1>1. CASE Next
  BY <1>1, TypeStep, WorkStep, RowsStep, AcceptedStep, EmittedStep, LeaseStep
     DEF IInv
<1>2. CASE UNCHANGED vars
  BY <1>2 DEF IInv, vars, agentVars, dbVars, adminVars, TypeOK, WorkOK, RowsOK,
     AcceptedOK, LeaseOK, NoEventLost, Stored, Processed
<1>. QED BY <1>1, <1>2

(* The inductive invariant: every variable keeps its type, a row's lock is   *)
(* held exactly by the worker applying its event, nothing is accepted before *)
(* it is durable, and a replay in progress holds the replay lock.            *)
THEOREM Inductive == Spec => []IInv
<1>. QED BY InitInvariant, StepInvariant, PTL DEF Spec

(* ingest.Process: for any number of Pods, deliveries and retries of an     *)
(* event, its records are applied at most once.                              *)
THEOREM AtMostOnce == Spec => []AppliedAtMostOnce
<1>1. IInv => AppliedAtMostOnce
  BY DEF IInv, RowsOK, AppliedAtMostOnce
<1>. QED BY <1>1, Inductive, PTL

(* deliver, receiveAgentEvent and ReplaySpool together: an event the Agent  *)
(* created is queued, quarantined or durable on the Server, at every moment. *)
THEOREM NothingLost == Spec => []NoEventLost
<1>1. IInv => NoEventLost
  BY DEF IInv
<1>. QED BY <1>1, Inductive, PTL

(* AcquireReplayLease: the shared spool is never replayed by two Pods.      *)
THEOREM OneReplayer == Spec => []SingleReplayer
<1>1. IInv => SingleReplayer
  BY DEF IInv, LeaseOK, SingleReplayer
<1>. QED BY <1>1, Inductive, PTL

(* failEvent's guard: once an event is processed, no late failure of another *)
(* delivery of it is recorded over that.                                     *)
THEOREM ProcessedStays == Spec => ProcessedIsFinal
<1>1. ASSUME IInv, [Next]_vars
      PROVE  [\A e \in Event : row[e] = "processed" => row'[e] = "processed"]_vars
  <2>1. CASE Next
    <3>1. Processed \subseteq Processed'
      BY <1>1, <2>1, StoredGrows DEF IInv
    <3>. QED BY <3>1 DEF Processed
  <2>. QED BY <1>1, <2>1
<1>. QED BY <1>1, Inductive, PTL DEF Spec, ProcessedIsFinal

(***************************************************************************)
(* The refinement of EventLog.                                             *)
(***************************************************************************)

(* Every event that is anywhere was created by the Agent, its queue has none *)
(* twice, and a replay's list holds segments the Server still answers for.   *)
KnownOK ==
  /\ IsInjective(queue)
  /\ ToSet(queue) \cup quarantined \cup Stored \subseteq emitted
  /\ \A w \in Worker : work[w].event \in Event => work[w].event \in emitted
  /\ \A p \in Pod : ToSet(listing[p]) \subseteq Stored

(* Nothing has been created when the system starts.                          *)
LEMMA KnownInit ==
  ASSUME Init
  PROVE  KnownOK
<1>1. ToSet(<<>>) = {} /\ IsInjective(<<>>)
  BY DEF ToSet, IsInjective
<1>2. Stored = {}
  BY <1>1 DEF Init, Stored, Processed
<1>3. \A w \in Worker : work[w].event = NoEvent
  BY DEF Init, Idle
<1>4. \A p \in Pod : listing[p] = <<>>
  BY DEF Init
<1>. QED BY <1>1, <1>2, <1>3, <1>4, DeliveryAssumption DEF Init, KnownOK

(* The queue, what was set aside and the events emitted change in three      *)
(* actions only.                                                             *)
LEMMA AgentKept ==
  ASSUME Next
  PROVE  \/ UNCHANGED <<queue, quarantined, emitted>>
         \/ \E e \in Event : Enqueue(e)
         \/ Quarantine
         \/ \E p \in Pod : Answer(p)
<1>1. ASSUME NEW w \in Worker, Process(w)
      PROVE  UNCHANGED <<queue, quarantined, emitted>>
  BY <1>1 DEF Process, Reserve, Claim, ReserveFails, Commit, CommitUnknown,
     CommitEvent, ApplyFails, RecordFailure, agentVars
<1>2. ASSUME NEW p \in Pod, HandlerNext(p) /\ ~Answer(p)
      PROVE  UNCHANGED <<queue, quarantined, emitted>>
  BY <1>2 DEF HandlerNext, ReadMode, RefuseInProgress, RefuseError,
     DivertToSpool, SpoolAppend, SpoolAppendFails, agentVars
<1>3. ASSUME NEW p \in Pod,
             ReplayNext(p) \/ Send(p) \/ Ping(p) \/ PodStart(p) \/ PodCrash(p)
      PROVE  UNCHANGED <<queue, quarantined, emitted>>
  BY <1>3 DEF ReplayNext, StartReplay, StopReplay, ReplayFails, EndReplay,
     DiscardSegment, ReplaySegment, AcknowledgeSegment, Send, Ping, PodStart, PodCrash, agentVars
<1>4. ASSUME \/ \E e \in Event : Damage(e)
             \/ GiveUp \/ DatabaseDown \/ DatabaseUp
             \/ \E b \in BOOLEAN : SetBlocked(b)
      PROVE  UNCHANGED <<queue, quarantined, emitted>>
  BY <1>4 DEF Damage, GiveUp, DatabaseDown, DatabaseUp, SetBlocked, agentVars
<1>. QED BY <1>1, <1>2, <1>3, <1>4 DEF Next, AgentNext

(* What the Server holds changes in six.                                     *)
LEMMA ServerKept ==
  ASSUME IInv, Next
  PROVE  \/ UNCHANGED <<spool, row, applied, discarded>>
         \/ \E w \in Worker : Commit(w) \/ CommitUnknown(w) \/ RecordFailure(w)
         \/ \E p \in Pod : SpoolAppend(p) \/ DiscardSegment(p) \/ AcknowledgeSegment(p)
<1>1. ASSUME NEW w \in Worker, Process(w), ~Commit(w), ~CommitUnknown(w), ~RecordFailure(w)
      PROVE  UNCHANGED <<spool, row, applied, discarded>>
  BY <1>1 DEF Process, Reserve, Claim, ReserveFails, ApplyFails, dbVars
<1>2. ASSUME NEW p \in Pod, HandlerNext(p), ~SpoolAppend(p)
      PROVE  UNCHANGED <<spool, row, applied, discarded>>
  BY <1>2 DEF HandlerNext, ReadMode, RefuseInProgress, RefuseError,
     DivertToSpool, SpoolAppendFails, Answer, dbVars
<1>3. ASSUME NEW p \in Pod,
             \/ ReplayNext(p) /\ ~DiscardSegment(p) /\ ~AcknowledgeSegment(p)
             \/ Send(p) \/ Ping(p) \/ PodStart(p) \/ PodCrash(p)
      PROVE  UNCHANGED <<spool, row, applied, discarded>>
  BY <1>3 DEF ReplayNext, StartReplay, StopReplay, ReplayFails, EndReplay,
     ReplaySegment, Send, Ping, PodStart, PodCrash, dbVars
<1>4. ASSUME \/ \E e \in Event : Enqueue(e) \/ Damage(e)
             \/ Quarantine \/ GiveUp \/ DatabaseDown \/ DatabaseUp
             \/ \E b \in BOOLEAN : SetBlocked(b)
      PROVE  UNCHANGED <<spool, row, applied, discarded>>
  BY <1>4 DEF Enqueue, Damage, Quarantine, GiveUp, DatabaseDown, DatabaseUp, SetBlocked, dbVars
<1>. QED BY <1>1, <1>2, <1>3, <1>4 DEF Next, AgentNext

(* A commit applies an event the log knows, for the first time.              *)
LEMMA CommitMaps ==
  ASSUME IInv, KnownOK, NEW w \in Worker, Commit(w) \/ CommitUnknown(w)
  PROVE  /\ Log!Apply(work[w].event) /\ work[w].event \in Event
         /\ Stored' \subseteq emitted
<1>. DEFINE e == work[w].event
<1>1. /\ work[w].at = "apply" /\ row' = [row EXCEPT ![e] = "processed"]
      /\ applied' = [applied EXCEPT ![e] = @ + 1]
      /\ UNCHANGED <<queue, quarantined, emitted, spool, discarded>>
  BY DEF Commit, CommitUnknown, CommitEvent, agentVars
<1>2. e \in Event /\ e \in emitted
  BY <1>1 DEF IInv, WorkOK, KnownOK
<1>3. row[e] # "processed"
  <2>1. holder[e] = w
    BY <1>1, <1>2 DEF IInv, RowsOK
  <2>. QED BY <1>2, <2>1, Workers DEF IInv, RowsOK
<1>4. applied[e] = 0 /\ applied \in [Event -> Nat] /\ DOMAIN row = Event
  BY <1>2, <1>3 DEF IInv, RowsOK, TypeOK
<1>5. Stored' = Stored \cup {e}
  BY <1>1, <1>2, <1>4 DEF Stored, Processed
<1>6. {x \in Event : applied[x] > 0}' = {x \in Event : applied[x] > 0} \cup {e}
  BY <1>1, <1>2, <1>4
<1>7. e \in ToSet(queue) \cup Stored \cup (quarantined \cup discarded)
  BY <1>2 DEF IInv, NoEventLost
<1>8. e \notin {x \in Event : applied[x] > 0}
  BY <1>4
<1>9. Log!Apply(e)
  BY <1>1, <1>5, <1>6, <1>7, <1>8 DEF Log!Apply, Log!Known
<1>10. Stored' \subseteq emitted
  BY <1>2, <1>5 DEF KnownOK
<1>. QED BY <1>2, <1>9, <1>10

(* A failure recorded late changes nothing the log knows.                    *)
LEMMA FailureMaps ==
  ASSUME IInv, KnownOK, NEW w \in Worker, RecordFailure(w)
  PROVE  UNCHANGED Log!vars /\ Stored' = Stored
<1>. DEFINE e == work[w].event
<1>1. /\ row' = [row EXCEPT ![e] = IF @ = "processed" THEN @ ELSE "failed"] \/ row' = row
      /\ UNCHANGED <<queue, quarantined, emitted, spool, discarded, applied>>
  BY DEF RecordFailure, agentVars
<1>2. e \in Event /\ DOMAIN row = Event
  BY DEF RecordFailure, IInv, WorkOK, TypeOK
<1>3. Processed' = Processed
  BY <1>1, <1>2 DEF Processed
<1>4. Stored' = Stored
  BY <1>1, <1>3 DEF Stored
<1>. QED BY <1>1, <1>4 DEF Log!vars

(* A segment in the spool stores its event, if the Server has not got it.    *)
LEMMA AppendMaps ==
  ASSUME IInv, KnownOK, NEW p \in Pod, SpoolAppend(p)
  PROVE  /\ Log!Store(work[Http(p)].event) /\ work[Http(p)].event \in Event
         /\ Stored' \subseteq emitted
<1>. DEFINE e == work[Http(p)].event
<1>1. /\ work[Http(p)].at = "spooling"
      /\ spool' = IF e \in ToSet(spool) THEN spool ELSE Append(spool, e)
      /\ UNCHANGED <<queue, quarantined, emitted, row, discarded, applied>>
  BY DEF SpoolAppend, agentVars, dbVars
<1>2. e \in Event /\ e \in emitted
  BY <1>1, Workers DEF IInv, WorkOK, KnownOK
<1>3. ToSet(spool') = ToSet(spool) \cup {e}
  BY <1>1, <1>2, AppendElements DEF IInv, TypeOK
<1>4. Stored' = Stored \cup {e}
  BY <1>1, <1>3 DEF Stored, Processed
<1>5. e \in ToSet(queue) \cup Stored \cup (quarantined \cup discarded)
  BY <1>2 DEF IInv, NoEventLost
<1>6. Log!Store(e)
  BY <1>1, <1>4, <1>5 DEF Log!Store, Log!Known
<1>. QED BY <1>2, <1>4, <1>6 DEF KnownOK

(* A segment of a blocked Agent is discarded by the Server that holds it.    *)
LEMMA DiscardMaps ==
  ASSUME IInv, KnownOK, NEW p \in Pod, DiscardSegment(p)
  PROVE  /\ Log!Discard(Head(listing[p])) /\ Head(listing[p]) \in Event
         /\ Stored' = Stored
<1>. DEFINE e == Head(listing[p])
<1>1. /\ listing[p] # <<>> /\ listing[p] \in Seq(Event)
      /\ spool' = RemoveFirst(spool, e) /\ discarded' = discarded \cup {e}
      /\ UNCHANGED <<queue, quarantined, emitted, row, applied>>
  BY DEF DiscardSegment, IInv, TypeOK, agentVars, dbVars
<1>2. e \in Event /\ e \in Stored
  BY <1>1, HeadTailElements DEF KnownOK
<1>3. ToSet(spool') \subseteq ToSet(spool) /\ ToSet(spool) \ {e} \subseteq ToSet(spool')
  BY <1>1, RemoveFirstElements DEF IInv, TypeOK
<1>4. Stored' = Stored
  BY <1>1, <1>2, <1>3 DEF Stored, Processed
<1>5. Log!Discard(e)
  BY <1>1, <1>2, <1>4 DEF Log!Discard
<1>. QED BY <1>2, <1>4, <1>5

(* A replayed segment goes when its event is processed.                      *)
LEMMA AcknowledgeMaps ==
  ASSUME IInv, KnownOK, NEW p \in Pod, AcknowledgeSegment(p)
  PROVE  UNCHANGED Log!vars /\ Stored' = Stored
<1>. DEFINE e == work[Replay(p)].event
<1>1. /\ work[Replay(p)].at = "ok" /\ spool' = RemoveFirst(spool, e)
      /\ UNCHANGED <<queue, quarantined, emitted, row, applied, discarded>>
  BY DEF AcknowledgeSegment, agentVars, dbVars
<1>2. e \in Processed
  BY <1>1, Workers DEF IInv, AcceptedOK, WorkOK, Processed
<1>3. ToSet(spool') \subseteq ToSet(spool) /\ ToSet(spool) \ {e} \subseteq ToSet(spool')
  BY <1>1, RemoveFirstElements DEF IInv, TypeOK
<1>4. Stored' = Stored
  BY <1>1, <1>2, <1>3 DEF Stored, Processed
<1>. QED BY <1>1, <1>4 DEF Log!vars

(* Where the Server keeps what it has, so does the log.                      *)
LEMMA ServerMaps ==
  ASSUME UNCHANGED <<spool, row, applied, discarded>>
  PROVE  Stored' = Stored /\ {e \in Event : applied[e] > 0}' = {e \in Event : applied[e] > 0}
BY DEF Stored, Processed

(* The Agent creates an event, sets one aside, or lets go of one that the     *)
(* Server holds.                                                             *)
LEMMA EnqueueMaps ==
  ASSUME IInv, KnownOK, NEW e \in Event, Enqueue(e)
  PROVE  /\ Log!Create(e) /\ IsInjective(queue)' /\ emitted \subseteq emitted'
         /\ (ToSet(queue) \cup quarantined)' \subseteq emitted'
<1>1. /\ e \notin emitted /\ queue' = Append(queue, e) /\ emitted' = emitted \cup {e}
      /\ UNCHANGED <<quarantined, spool, row, applied, discarded>>
  BY DEF Enqueue, dbVars
<1>2. e \notin ToSet(queue) \cup Stored \cup (quarantined \cup discarded)
  BY <1>1 DEF KnownOK, Stored
<1>3. ToSet(queue') = ToSet(queue) \cup {e} /\ IsInjective(queue')
  BY <1>1, <1>2, AppendElements, AppendDistinct DEF IInv, TypeOK, KnownOK
<1>4. Log!Create(e)
  BY <1>1, <1>2, <1>3, ServerMaps DEF Log!Create, Log!Known
<1>. QED BY <1>1, <1>3, <1>4 DEF KnownOK

LEMMA QuarantineMaps ==
  ASSUME IInv, KnownOK, Quarantine
  PROVE  /\ Log!SetAside(Head(queue)) /\ Head(queue) \in Event
         /\ IsInjective(queue)' /\ emitted' = emitted
         /\ (ToSet(queue) \cup quarantined)' \subseteq emitted'
<1>. DEFINE e == Head(queue)
<1>1. /\ queue # <<>> /\ queue \in Seq(Event) /\ IsInjective(queue)
      /\ queue' = Tail(queue) /\ quarantined' = quarantined \cup {e}
      /\ UNCHANGED <<emitted, spool, row, applied, discarded>>
  BY DEF Quarantine, IInv, TypeOK, KnownOK, dbVars
<1>2. e \in Event /\ e \in ToSet(queue)
  BY <1>1, HeadTailElements
<1>3. ToSet(queue') = ToSet(queue) \ {e} /\ IsInjective(queue')
  BY <1>1, TailDistinct
<1>4. Log!SetAside(e)
  BY <1>1, <1>2, <1>3, ServerMaps DEF Log!SetAside
<1>. QED BY <1>1, <1>2, <1>3, <1>4 DEF KnownOK

LEMMA AnswerMaps ==
  ASSUME IInv, KnownOK, NEW p \in Pod, Answer(p)
  PROVE  /\ Log!Release(work[Http(p)].event) \/ UNCHANGED Log!vars
         /\ work[Http(p)].event \in Event /\ IsInjective(queue)' /\ emitted' = emitted
         /\ (ToSet(queue) \cup quarantined)' \subseteq emitted'
<1>. DEFINE e == work[Http(p)].event
<1>1. /\ work[Http(p)].at = "ok" /\ queue \in Seq(Event) /\ IsInjective(queue)
      /\ queue' = RemoveFirst(queue, e) \/ queue' = queue
      /\ UNCHANGED <<quarantined, emitted, spool, row, applied, discarded>>
  BY DEF Answer, IInv, TypeOK, KnownOK, dbVars
<1>2. e \in Event /\ e \in Stored
  BY <1>1, Workers DEF IInv, WorkOK, AcceptedOK
<1>3. CASE queue' = queue
  BY <1>1, <1>2, <1>3, ServerMaps DEF Log!vars, KnownOK
<1>4. CASE queue' = RemoveFirst(queue, e)
  <2>1. ToSet(queue') = ToSet(queue) \ {e} /\ IsInjective(queue')
    BY <1>1, <1>4, RemoveFirstDistinct
  <2>2. CASE e \in ToSet(queue)
    <3>1. Log!Release(e)
      BY <1>1, <1>2, <2>1, <2>2, ServerMaps DEF Log!Release
    <3>. QED BY <1>1, <1>2, <2>1, <3>1 DEF KnownOK
  <2>3. CASE e \notin ToSet(queue)
    <3>1. ToSet(queue') = ToSet(queue)
      BY <2>1, <2>3
    <3>. QED BY <1>1, <1>2, <2>1, <3>1, ServerMaps DEF Log!vars, KnownOK
  <2>. QED BY <2>2, <2>3
<1>. QED BY <1>1, <1>3, <1>4

(* Each of these nine is a step of the log or leaves it alone.              *)
LEMMA StepMaps ==
  ASSUME IInv, KnownOK, [Next]_vars
  PROVE  [Log!Next]_Log!vars
<1>1. CASE UNCHANGED vars
  BY <1>1 DEF vars, agentVars, dbVars, Log!vars, Stored, Processed
<1>2. ASSUME UNCHANGED <<queue, quarantined, emitted>>, UNCHANGED <<spool, row, applied, discarded>>
      PROVE  UNCHANGED Log!vars
  BY <1>2, ServerMaps DEF Log!vars
<1>3. ASSUME NEW e \in Event,
             \/ Log!Create(e) \/ Log!Store(e) \/ Log!Apply(e)
             \/ Log!Release(e) \/ Log!SetAside(e) \/ Log!Discard(e)
      PROVE  Log!Next
  BY <1>3 DEF Log!Next
<1>4. CASE Next
  <2>1. CASE \E e \in Event : Enqueue(e)
    BY <2>1, <1>3, EnqueueMaps
  <2>2. CASE Quarantine
    BY <2>2, <1>3, QuarantineMaps
  <2>3. CASE \E p \in Pod : Answer(p)
    <3>1. PICK p \in Pod : Answer(p)
      BY <2>3
    <3>2. /\ Log!Release(work[Http(p)].event) \/ UNCHANGED Log!vars
          /\ work[Http(p)].event \in Event
      BY <3>1, AnswerMaps
    <3>3. CASE Log!Release(work[Http(p)].event)
      BY <3>2, <3>3, <1>3
    <3>. QED BY <3>2, <3>3
  <2>4. CASE \E w \in Worker : Commit(w) \/ CommitUnknown(w) \/ RecordFailure(w)
    <3>1. ASSUME NEW w \in Worker, Commit(w) \/ CommitUnknown(w)
          PROVE  Log!Next
      <4>1. Log!Apply(work[w].event) /\ work[w].event \in Event
        BY <3>1, CommitMaps
      <4>2. PICK e \in Event : e = work[w].event
        BY <4>1
      <4>3. Log!Apply(e)
        BY <4>1, <4>2 DEF Log!Apply, Log!Known
      <4>. QED BY <4>3, <1>3
    <3>2. ASSUME NEW w \in Worker, RecordFailure(w)
          PROVE  UNCHANGED Log!vars
      BY <3>2, FailureMaps
    <3>. QED BY <2>4, <3>1, <3>2
  <2>5. CASE \E p \in Pod : SpoolAppend(p) \/ DiscardSegment(p) \/ AcknowledgeSegment(p)
    <3>1. ASSUME NEW p \in Pod, SpoolAppend(p)
          PROVE  Log!Next
      <4>1. Log!Store(work[Http(p)].event) /\ work[Http(p)].event \in Event
        BY <3>1, AppendMaps
      <4>2. PICK e \in Event : e = work[Http(p)].event
        BY <4>1
      <4>3. Log!Store(e)
        BY <4>1, <4>2 DEF Log!Store, Log!Known
      <4>. QED BY <4>3, <1>3
    <3>2. ASSUME NEW p \in Pod, DiscardSegment(p)
          PROVE  Log!Next
      <4>1. Log!Discard(Head(listing[p])) /\ Head(listing[p]) \in Event
        BY <3>2, DiscardMaps
      <4>2. PICK e \in Event : e = Head(listing[p])
        BY <4>1
      <4>3. Log!Discard(e)
        BY <4>1, <4>2 DEF Log!Discard
      <4>. QED BY <4>3, <1>3
    <3>3. ASSUME NEW p \in Pod, AcknowledgeSegment(p)
          PROVE  UNCHANGED Log!vars
      BY <3>3, AcknowledgeMaps
    <3>. QED BY <2>5, <3>1, <3>2, <3>3
  <2>. QED BY <1>2, <1>4, <2>1, <2>2, <2>3, <2>4, <2>5, AgentKept, ServerKept
<1>. QED BY <1>1, <1>4

(* An event a worker takes up was queued or listed.                          *)
LEMMA WorkersKnown ==
  ASSUME IInv, KnownOK, Next
  PROVE  \A w \in Worker : work'[w].event \in Event => work'[w].event \in emitted
<1>1. ASSUME NEW v \in Worker, NEW a, NEW e, e \in Event => e \in emitted, Moves(v, a, e)
      PROVE  \A w \in Worker : work'[w].event \in Event => work'[w].event \in emitted
  BY <1>1 DEF Moves, KnownOK
<1>2. CASE Still
  BY <1>2, StillMoves DEF IInv, KnownOK
<1>3. CASE DatabaseDown
  BY <1>3, OutageMoves DEF IInv, KnownOK
<1>4. ASSUME NEW p \in Pod, PodCrash(p)
      PROVE  \A w \in Worker : work'[w].event \in Event => work'[w].event \in emitted
  BY <1>4, CrashMoves, DeliveryAssumption DEF IInv, KnownOK, Idle
<1>5. ASSUME NEW p \in Pod, Send(p)
      PROVE  \A w \in Worker : work'[w].event \in Event => work'[w].event \in emitted
  <2>1. Head(queue) \in ToSet(queue)
    BY <1>5, HeadTailElements DEF Send, IInv, TypeOK
  <2>2. Head(queue) \in emitted
    BY <2>1 DEF KnownOK
  <2>. QED BY <1>1, <1>5, <2>2, ActionMoves, Workers DEF IInv
<1>6. ASSUME NEW p \in Pod, ReplaySegment(p)
      PROVE  \A w \in Worker : work'[w].event \in Event => work'[w].event \in emitted
  <2>1. Head(listing[p]) \in ToSet(listing[p])
    BY <1>6, HeadTailElements DEF ReplaySegment, IInv, TypeOK
  <2>2. Head(listing[p]) \in emitted
    BY <2>1 DEF KnownOK
  <2>. QED BY <1>1, <1>6, <2>2, ActionMoves, Workers DEF IInv
<1>7. ASSUME NEW w \in Worker, Process(w)
      PROVE  \A v \in Worker : work'[v].event \in Event => work'[v].event \in emitted
  <2>1. \E a : Moves(w, a, work[w].event)
    BY <1>7, ActionMoves DEF Process, IInv
  <2>. QED BY <1>1, <2>1 DEF KnownOK
<1>8. ASSUME NEW p \in Pod, HandlerNext(p)
      PROVE  \A w \in Worker : work'[w].event \in Event => work'[w].event \in emitted
  <2>1. \E a : Moves(Http(p), a, work[Http(p)].event) \/ Moves(Http(p), a, NoEvent)
    BY <1>8, ActionMoves DEF HandlerNext, IInv
  <2>. QED BY <1>1, <2>1, Workers, DeliveryAssumption DEF KnownOK
<1>9. ASSUME NEW p \in Pod, ReplayNext(p), ~ReplaySegment(p), ~DiscardSegment(p)
      PROVE  \A w \in Worker : work'[w].event \in Event => work'[w].event \in emitted
  <2>1. \E a : Moves(Replay(p), a, work[Replay(p)].event) \/ Moves(Replay(p), a, NoEvent)
    BY <1>9, ActionMoves DEF ReplayNext, IInv
  <2>. QED BY <1>1, <2>1, Workers, DeliveryAssumption DEF KnownOK
<1>. QED BY <1>2, <1>3, <1>4, <1>5, <1>6, <1>7, <1>8, <1>9
     DEF Next, AgentNext, ReplayNext, Still

(* A list of segments starts as the spool and only gets shorter.             *)
LEMMA ListsStored ==
  ASSUME IInv, KnownOK, Next
  PROVE  \A p \in Pod : ToSet(listing'[p]) \subseteq Stored'
<1>1. Stored \subseteq Stored'
  BY StoredGrows DEF IInv
<1>2. ASSUME NEW p \in Pod,
             NEW s, s = spool \/ s = <<>> \/ (listing[p] # <<>> /\ s = Tail(listing[p])),
             listing' = [listing EXCEPT ![p] = s]
      PROVE  \A q \in Pod : ToSet(listing'[q]) \subseteq Stored'
  <2>1. ToSet(s) \subseteq Stored
    <3>1. CASE s = spool
      BY <3>1 DEF Stored
    <3>2. CASE s = <<>>
      BY <3>2 DEF ToSet
    <3>3. CASE listing[p] # <<>> /\ s = Tail(listing[p])
      BY <3>3, HeadTailElements DEF KnownOK, IInv, TypeOK
    <3>. QED BY <1>2, <3>1, <3>2, <3>3
  <2>. QED BY <1>1, <1>2, <2>1 DEF KnownOK, IInv, TypeOK
<1>3. CASE listing' = listing
  BY <1>1, <1>3 DEF KnownOK
<1>4. ASSUME NEW p \in Pod, StartReplay(p) \/ StopReplay(p) \/ ReplayFails(p) \/ PodCrash(p)
      PROVE  \A q \in Pod : ToSet(listing'[q]) \subseteq Stored'
  <2>1. \E s \in {spool, <<>>} : listing' = [listing EXCEPT ![p] = s]
    BY <1>4 DEF StartReplay, StopReplay, ReplayFails, EndReplay, PodCrash
  <2>. QED BY <1>2, <2>1
<1>5. ASSUME NEW p \in Pod, DiscardSegment(p) \/ AcknowledgeSegment(p)
      PROVE  \A q \in Pod : ToSet(listing'[q]) \subseteq Stored'
  <2>1. listing[p] # <<>>
    BY <1>5, Workers DEF DiscardSegment, AcknowledgeSegment, IInv, WorkOK
  <2>2. listing' = [listing EXCEPT ![p] = Tail(@)]
    BY <1>5 DEF DiscardSegment, AcknowledgeSegment
  <2>3. listing' = [listing EXCEPT ![p] = Tail(listing[p])]
    BY <2>2
  <2>. QED BY <1>2, <2>1, <2>3
<1>6. ASSUME NEW w \in Worker, Process(w)
      PROVE  listing' = listing
  BY <1>6 DEF Process, Reserve, Claim, ReserveFails, Commit, CommitUnknown,
     CommitEvent, ApplyFails, RecordFailure
<1>7. ASSUME NEW p \in Pod, HandlerNext(p) \/ ReplaySegment(p) \/ Send(p) \/ Ping(p) \/ PodStart(p)
      PROVE  listing' = listing
  BY <1>7 DEF HandlerNext, ReadMode, RefuseInProgress, RefuseError, DivertToSpool, SpoolAppend,
     SpoolAppendFails, Answer, ReplaySegment, Send, Ping, PodStart
<1>8. ASSUME \/ \E e \in Event : Enqueue(e) \/ Damage(e)
             \/ Quarantine \/ GiveUp \/ DatabaseDown \/ DatabaseUp
             \/ \E b \in BOOLEAN : SetBlocked(b)
      PROVE  listing' = listing
  BY <1>8 DEF Enqueue, Damage, Quarantine, GiveUp, DatabaseDown, DatabaseUp, SetBlocked
<1>. QED BY <1>3, <1>4, <1>5, <1>6, <1>7, <1>8 DEF Next, AgentNext, ReplayNext

(* No step brings in an event from nowhere.                                  *)
LEMMA KnownStep ==
  ASSUME IInv, KnownOK, [Next]_vars
  PROVE  KnownOK'
<1>1. CASE UNCHANGED vars
  BY <1>1 DEF vars, agentVars, dbVars, KnownOK, Stored, Processed
<1>2. CASE Next
  <2>1. /\ emitted \subseteq emitted' /\ IsInjective(queue)'
        /\ (ToSet(queue) \cup quarantined)' \subseteq emitted'
    <3>1. CASE UNCHANGED <<queue, quarantined, emitted>>
      BY <3>1 DEF KnownOK
    <3>. QED BY <1>2, <3>1, AgentKept, EnqueueMaps, QuarantineMaps, AnswerMaps
  <2>2. Stored' \subseteq emitted
    <3>1. CASE UNCHANGED <<spool, row, applied, discarded>>
      BY <3>1, ServerMaps DEF KnownOK
    <3>2. CASE Stored' = Stored
      BY <3>2 DEF KnownOK
    <3>. QED BY <1>2, <3>1, <3>2, ServerKept, CommitMaps, FailureMaps, AppendMaps, DiscardMaps,
             AcknowledgeMaps
  <2>3. \A w \in Worker : work'[w].event \in Event => work'[w].event \in emitted'
    BY <1>2, <2>1, WorkersKnown
  <2>4. \A p \in Pod : ToSet(listing'[p]) \subseteq Stored'
    BY <1>2, ListsStored
  <2>. QED BY <2>1, <2>2, <2>3, <2>4 DEF KnownOK
<1>. QED BY <1>1, <1>2

(* deliver, receiveAgentEvent, Process and ReplaySpool together are the event *)
(* log: whatever the Agent, the Pods, the database and the faults do, an event *)
(* moves from the Agent to the Server and is applied as EventLog allows.       *)
THEOREM DeliveryImplementsLog == Spec => LogSpec
<1>1. Init => Log!Init
  <2>1. ToSet(<<>>) = {}
    BY DEF ToSet
  <2>. QED BY <2>1 DEF Init, Log!Init, Stored, Processed
<1>2. Init => KnownOK
  BY KnownInit
<1>3. IInv /\ KnownOK /\ [Next]_vars => KnownOK'
  BY KnownStep
<1>4. IInv /\ KnownOK /\ [Next]_vars => [Log!Next]_Log!vars
  BY StepMaps
<1>. QED BY <1>1, <1>2, <1>3, <1>4, Inductive, PTL DEF Spec, LogSpec, Log!Spec
=============================================================================
