----------------------------- MODULE SpoolStaging -----------------------------
(***************************************************************************)
(* How a segment gets into the spool directory that all Pods share, and how  *)
(* the stages of dead writers leave it (spool/spool.go).  Append writes a    *)
(* staging file under a file lock and links it to its name; a Pod that opens *)
(* the directory removes the stages that are old and that nobody has locked. *)
(* A writer may be slow, or stopped for good, at every later step.           *)
(***************************************************************************)
EXTENDS FiniteSets
CONSTANTS
  Appender,   \* calls of Append, all for one event: its retries at several Pods
  Cleaner     \* Pods that open the directory
VARIABLES
  stage,      \* Appender -> its staging file
  appender,   \* Appender -> where its call is
  cleaner,    \* Cleaner -> where its cleanup is
  segment     \* whose file the name of the segment is linked to, if any

stagingVars == <<stage, appender, cleaner, segment>>

Idle == [step |-> "rest", listed |-> {}, file |-> "none"]

TypeOK ==
  /\ stage \in [Appender -> [there : BOOLEAN, old : BOOLEAN, whole : BOOLEAN,
                             lockedBy : {"none"} \cup Appender \cup Cleaner]]
  /\ appender \in [Appender -> {"new", "lock", "write", "close", "link", "remove",
                                "appended", "failed", "dead"}]
  /\ cleaner \in [Cleaner -> [step : {"rest", "clean", "unlock", "remove"},
                              listed : SUBSET Appender, file : {"none"} \cup Appender]]
  /\ segment \in {"none"} \cup Appender

Init ==
  /\ stage = [p \in Appender |->
                [there |-> FALSE, old |-> FALSE, whole |-> FALSE, lockedBy |-> "none"]]
  /\ appender = [p \in Appender |-> "new"]
  /\ cleaner = [c \in Cleaner |-> Idle]
  /\ segment = "none"

To(p, step) == appender' = [appender EXCEPT ![p] = step]
-----------------------------------------------------------------------------
\* Append: the stage is created, ...
Create(p) ==
  /\ appender[p] = "new" /\ To(p, "lock")
  /\ stage' = [stage EXCEPT ![p].there = TRUE]
  /\ UNCHANGED <<cleaner, segment>>

\* ... locked, without waiting, ...
Lock(p) ==
  /\ appender[p] = "lock"
  /\ IF stage[p].lockedBy = "none"
     THEN To(p, "write") /\ stage' = [stage EXCEPT ![p].lockedBy = p]
     ELSE To(p, "failed") /\ stage' = [stage EXCEPT ![p].there = FALSE]
  /\ UNCHANGED <<cleaner, segment>>

\* ... written and synced, ...
Write(p) ==
  /\ appender[p] = "write" /\ To(p, "close")
  /\ stage' = [stage EXCEPT ![p].whole = TRUE, ![p].old = FALSE]
  /\ UNCHANGED <<cleaner, segment>>

\* ... closed, which gives up the lock, ...
Close(p) ==
  /\ appender[p] = "close" /\ To(p, "link")
  /\ stage' = [stage EXCEPT ![p].lockedBy = "none"]
  /\ UNCHANGED <<cleaner, segment>>

\* ... linked to the name of the segment, unless that is taken or the stage is gone, ...
Link(p) ==
  /\ appender[p] = "link"
  /\ IF segment # "none" \/ stage[p].there
     THEN To(p, "remove") /\ segment' = IF segment = "none" THEN p ELSE segment
     ELSE To(p, "failed") /\ UNCHANGED segment
  /\ UNCHANGED <<stage, cleaner>>

\* ... and removed; now the event is accepted.
RemoveStage(p) ==
  /\ appender[p] = "remove" /\ To(p, "appended")
  /\ stage' = [stage EXCEPT ![p].there = FALSE]
  /\ UNCHANGED <<cleaner, segment>>

\* A step of Append fails, and the stage is removed; or the Pod dies and the lock
\* with it, but not the file.
Fail(p) ==
  /\ appender[p] \in {"lock", "write", "close", "link"}
  /\ \/ To(p, "failed") /\ stage' = [stage EXCEPT ![p].there = FALSE, ![p].lockedBy = "none"]
     \/ To(p, "dead") /\ stage' = [stage EXCEPT ![p].lockedBy = IF @ = p THEN "none" ELSE @]
  /\ UNCHANGED <<cleaner, segment>>

\* stagingCleanupGrace has passed since the stage was created or written.  It is
\* longer than what lies between the creation and the lock.
Age(p) ==
  /\ stage[p].there /\ ~ stage[p].old /\ appender[p] # "lock"
  /\ stage' = [stage EXCEPT ![p].old = TRUE]
  /\ UNCHANGED <<appender, cleaner, segment>>
-----------------------------------------------------------------------------
\* cleanupStagingSegments: the directory is listed, ...
List(c) ==
  /\ cleaner[c].step = "rest"
  /\ \E p \in Appender : stage[p].there
  /\ cleaner' = [cleaner EXCEPT ![c].step = "clean",
                                ![c].listed = {p \in Appender : stage[p].there}]
  /\ UNCHANGED <<stage, appender, segment>>

\* Mutant: the lock of the stage is not asked for.
TakeAny(c, p) ==
  /\ cleaner[c].step = "clean" /\ p \in cleaner[c].listed
  /\ LET taken == stage[p].there /\ stage[p].old
     IN  cleaner' = [cleaner EXCEPT ![c].listed = @ \ {p},
           ![c].step = IF taken THEN "remove" ELSE @, ![c].file = IF taken THEN p ELSE @]
  /\ UNCHANGED <<stage, appender, segment>>

\* ... each stage in it that is still there, old and not locked is locked, ...
Take(c, p) ==
  LET taken == stage[p].there /\ stage[p].old /\ stage[p].lockedBy = "none" IN
  /\ cleaner[c].step = "clean" /\ p \in cleaner[c].listed
  /\ cleaner' = [cleaner EXCEPT ![c].listed = @ \ {p},
       ![c].step = IF taken THEN "unlock" ELSE @, ![c].file = IF taken THEN p ELSE @]
  /\ stage' = IF taken THEN [stage EXCEPT ![p].lockedBy = c] ELSE stage
  /\ UNCHANGED <<appender, segment>>

\* ... unlocked and closed again, ...
Unlock(c) ==
  /\ cleaner[c].step = "unlock"
  /\ cleaner' = [cleaner EXCEPT ![c].step = "remove"]
  /\ stage' = [stage EXCEPT ![cleaner[c].file].lockedBy = "none"]
  /\ UNCHANGED <<appender, segment>>

\* ... and removed by its name.
Clean(c) ==
  /\ cleaner[c].step = "remove"
  /\ stage' = [stage EXCEPT ![cleaner[c].file].there = FALSE]
  /\ cleaner' = [cleaner EXCEPT ![c].step = "clean", ![c].file = "none"]
  /\ UNCHANGED <<appender, segment>>

\* The directory is open, or the Pod dies on the way; its locks are released.
Opened(c) ==
  /\ cleaner[c].step # "rest"
  /\ cleaner[c].listed = {} \/ cleaner[c].step # "clean"
  /\ cleaner' = [cleaner EXCEPT ![c] = Idle]
  /\ stage' = [p \in Appender |->
       [stage[p] EXCEPT !.lockedBy = IF @ = c THEN "none" ELSE @]]
  /\ UNCHANGED <<appender, segment>>

Next ==
  \/ \E p \in Appender : \/ Create(p) \/ Lock(p) \/ Write(p) \/ Close(p) \/ Link(p)
                         \/ RemoveStage(p) \/ Fail(p) \/ Age(p)
  \/ \E c \in Cleaner : \/ List(c) \/ Unlock(c) \/ Clean(c) \/ Opened(c)
                        \/ \E p \in Appender : Take(c, p)

Spec == Init /\ [][Next]_stagingVars
-----------------------------------------------------------------------------
\* No cleanup of another Pod takes the stage of a call that is writing it, however
\* slow the call is (tryLockReplayFile, cleanupStagingSegments).
WriterKeepsStage ==
  \A p \in Appender : appender[p] \in {"write", "close"} => stage[p].there

\* An accepted event is in the spool, whole, whichever of its calls was first and
\* whatever the cleanups of other Pods removed meanwhile (Append).
AcceptedIsSpooled ==
  \A p \in Appender : appender[p] = "appended" => segment # "none" /\ stage[segment].whole

\* Append and the clean-up of other Pods (spool/spool.go) keep every accepted event.
StagingSafe == WriterKeepsStage /\ AcceptedIsSpooled
=============================================================================
