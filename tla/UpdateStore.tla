----------------------------- MODULE UpdateStore -----------------------------
(***************************************************************************)
(* The directory of Agent releases that every Server Pod mounts             *)
(* (server/internal/updates/store.go): a release is an artifact `<base>.bin` *)
(* and a manifest `<base>.json`.  Operators publish, change the rollout and  *)
(* retire; each call does several file operations under one lock (a mutex of *)
(* the process and a file lock that the operating system releases when the   *)
(* process dies), and a crash can fall between any two.  Readers take no     *)
(* file lock: what they can see is every state of this model.                *)
(***************************************************************************)
EXTENDS Naturals, FiniteSets
CONSTANTS
  Release,      \* the identities version-os-architecture
  Caller,       \* one operator's call on one Pod
  Rollout,      \* the rollout percentages used, 0 among them
  Absent,       \* no such file, no manifest read
  MaxBuilds     \* bound: builds ever uploaded (the model numbers them)
VARIABLES
  artifact,     \* the build in `<base>.bin`
  manifest,     \* what `<base>.json` says
  call,         \* what each caller is doing
  holder,       \* who holds the store's lock
  builds,       \* builds uploaded so far
  acknowledged, \* history: builds whose publication was answered with 201
  withdrawn,    \* history: builds a retirement took off the list
  torn          \* history: builds whose publication failed after its manifest was linked

storeVars == <<artifact, manifest, call, holder, builds, acknowledged, withdrawn, torn>>

Idle == [op |-> "none", base |-> Absent, build |-> 0, rollout |-> 0, step |-> "none",
         read |-> Absent]
Manifests == [build : 1 .. MaxBuilds, rollout : Rollout]
Calls == [op : {"none", "publish", "rollout", "retire"}, base : Release \cup {Absent},
          build : 0 .. MaxBuilds, rollout : Rollout,
          step : {"none", "asked", "locked", "clean", "linked", "read", "unlisted"},
          read : Manifests \cup {Absent}]

TypeOK ==
  /\ artifact \in [Release -> 0 .. MaxBuilds]
  /\ manifest \in [Release -> Manifests \cup {Absent}]
  /\ call \in [Caller -> Calls]
  /\ holder \in Caller \cup {Absent}
  /\ builds \in 0 .. MaxBuilds
  /\ acknowledged \subseteq 1 .. MaxBuilds
  /\ withdrawn \subseteq 1 .. MaxBuilds
  /\ torn \subseteq 1 .. MaxBuilds

Init ==
  /\ artifact = [r \in Release |-> 0]
  /\ manifest = [r \in Release |-> Absent]
  /\ call = [c \in Caller |-> Idle]
  /\ holder = Absent
  /\ builds = 0
  /\ acknowledged = {} /\ withdrawn = {} /\ torn = {}
-----------------------------------------------------------------------------
At(c, op, step) == call[c].op = op /\ call[c].step = step
Goto(c, step) == call' = [call EXCEPT ![c].step = step]

\* The call answers: the deferred unlocks run and the staged file is removed.
Return(c) ==
  /\ call' = [call EXCEPT ![c] = Idle]
  /\ holder' = IF holder = c THEN Absent ELSE holder

\* Publish before the lock: the upload is copied to a staging file, measured
\* and its two signatures are verified.
Stage(c, r, n) ==
  /\ call[c] = Idle
  /\ builds < MaxBuilds
  /\ builds' = builds + 1
  /\ call' = [call EXCEPT ![c] = [Idle EXCEPT !.op = "publish", !.base = r,
                                   !.build = builds + 1, !.rollout = n, !.step = "asked"]]
  /\ UNCHANGED <<artifact, manifest, holder, acknowledged, withdrawn, torn>>

\* SetRollout or Retire is called for a release the console listed.
Ask(c, r, op, n) ==
  /\ call[c] = Idle
  /\ manifest[r] # Absent
  /\ call' = [call EXCEPT ![c] = [Idle EXCEPT !.op = op, !.base = r, !.rollout = n,
                                   !.step = "asked"]]
  /\ UNCHANGED <<artifact, manifest, holder, builds, acknowledged, withdrawn, torn>>

\* The process mutex and the file lock of the store.
Lock(c) ==
  /\ call[c].step = "asked"
  /\ holder = Absent
  /\ holder' = c
  /\ Goto(c, "locked")
  /\ UNCHANGED <<artifact, manifest, builds, acknowledged, withdrawn, torn>>

\* Publish: a complete release is refused, half of one (a crash between the two
\* files) is removed.
Recover(c) ==
  LET r == call[c].base
  IN  /\ At(c, "publish", "locked")
      /\ \/ /\ artifact[r] # 0 /\ manifest[r] # Absent
            /\ Return(c)
            /\ UNCHANGED <<artifact, manifest>>
         \/ /\ artifact[r] = 0 \/ manifest[r] = Absent
            /\ artifact' = [artifact EXCEPT ![r] = 0]
            /\ manifest' = [manifest EXCEPT ![r] = Absent]
            /\ Goto(c, "clean") /\ UNCHANGED holder
      /\ UNCHANGED <<builds, acknowledged, withdrawn, torn>>

\* Publish: link the staged artifact into place.  When the directory cannot be
\* synchronised the link is taken back.
LinkArtifact(c) ==
  LET r == call[c].base
  IN  /\ At(c, "publish", "clean")
      /\ \/ /\ artifact[r] = 0
            /\ artifact' = [artifact EXCEPT ![r] = call[c].build]
            /\ Goto(c, "linked") /\ UNCHANGED holder
         \/ Return(c) /\ UNCHANGED artifact
      /\ UNCHANGED <<manifest, builds, acknowledged, withdrawn, torn>>

\* Publish: create the manifest, which must not exist.  A failure takes the
\* artifact back; a failure after the link of the manifest (its directory could
\* not be synchronised) leaves the manifest behind.
CreateManifest(c) ==
  LET r == call[c].base
      m == [build |-> call[c].build, rollout |-> call[c].rollout]
  IN  /\ At(c, "publish", "linked")
      /\ \/ /\ manifest[r] = Absent
            /\ manifest' = [manifest EXCEPT ![r] = m]
            /\ acknowledged' = acknowledged \cup {m.build}
            /\ UNCHANGED <<artifact, torn>>
         \/ /\ artifact' = [artifact EXCEPT ![r] = 0]
            /\ UNCHANGED <<manifest, acknowledged, torn>>
         \/ /\ manifest[r] = Absent
            /\ manifest' = [manifest EXCEPT ![r] = m]
            /\ artifact' = [artifact EXCEPT ![r] = 0]
            /\ torn' = torn \cup {m.build}
            /\ UNCHANGED acknowledged
      /\ Return(c)
      /\ UNCHANGED <<builds, withdrawn>>
-----------------------------------------------------------------------------
\* Mutant: the lock is held for the reading only.
ReadUnlocked(c) ==
  LET r == call[c].base
  IN  /\ At(c, "rollout", "locked")
      /\ artifact[r] # 0 /\ manifest[r] # Absent
      /\ call' = [call EXCEPT ![c].step = "read", ![c].read = manifest[r]]
      /\ holder' = Absent
      /\ UNCHANGED <<artifact, manifest, builds, acknowledged, withdrawn, torn>>

\* SetRollout reads the manifest; one whose artifact vanished is removed.
ReadManifest(c) ==
  LET r == call[c].base
  IN  /\ At(c, "rollout", "locked")
      /\ \/ /\ manifest[r] = Absent
            /\ Return(c) /\ UNCHANGED manifest
         \/ /\ manifest[r] # Absent /\ artifact[r] = 0
            /\ manifest' = [manifest EXCEPT ![r] = Absent]
            /\ Return(c)
         \/ /\ manifest[r] # Absent /\ artifact[r] # 0
            /\ call' = [call EXCEPT ![c].step = "read", ![c].read = manifest[r]]
            /\ UNCHANGED <<manifest, holder>>
      /\ UNCHANGED <<artifact, builds, acknowledged, withdrawn, torn>>

\* SetRollout renames the changed manifest over the old one.
ReplaceManifest(c) ==
  LET r == call[c].base
  IN  /\ At(c, "rollout", "read")
      /\ manifest' = [manifest EXCEPT ![r] = [call[c].read EXCEPT !.rollout = call[c].rollout]]
      /\ Return(c)
      /\ UNCHANGED <<artifact, builds, acknowledged, withdrawn, torn>>

\* Retire removes the manifest first: from here no Agent is offered the release.
Unlist(c) ==
  LET r == call[c].base
  IN  /\ At(c, "retire", "locked")
      /\ \/ manifest[r] = Absent /\ Return(c) /\ UNCHANGED <<manifest, withdrawn>>
         \/ /\ manifest[r] # Absent
            /\ manifest' = [manifest EXCEPT ![r] = Absent]
            /\ withdrawn' = withdrawn \cup {manifest[r].build}
            /\ Goto(c, "unlisted") /\ UNCHANGED holder
      /\ UNCHANGED <<artifact, builds, acknowledged, torn>>

\* ... and then the artifact, whose removal may fail without being reported.
RemoveArtifact(c) ==
  LET r == call[c].base
  IN  /\ At(c, "retire", "unlisted")
      /\ \/ artifact' = [artifact EXCEPT ![r] = 0]
         \/ UNCHANGED artifact
      /\ Return(c)
      /\ UNCHANGED <<manifest, builds, acknowledged, withdrawn, torn>>

\* The process dies: the operating system releases its lock, the files stay.
Crash(c) ==
  /\ call[c] # Idle
  /\ Return(c)
  /\ UNCHANGED <<artifact, manifest, builds, acknowledged, withdrawn, torn>>

Next == \E c \in Caller :
          \/ \E r \in Release, n \in Rollout : Stage(c, r, n)
          \/ \E r \in Release, n \in Rollout : Ask(c, r, "rollout", n)
          \/ \E r \in Release : Ask(c, r, "retire", 0)
          \/ Lock(c)
          \/ Recover(c) \/ LinkArtifact(c) \/ CreateManifest(c)
          \/ ReadManifest(c) \/ ReplaceManifest(c)
          \/ Unlist(c) \/ RemoveArtifact(c)
          \/ Crash(c)

Spec == Init /\ [][Next]_storeVars
-----------------------------------------------------------------------------
\* Whatever the moment of a crash, a manifest a reader finds has the artifact it
\* was signed for (Publish links the artifact first, Retire removes the manifest
\* first), except when a directory could not be synchronised half-way.
ManifestHasArtifact ==
  \A r \in Release : manifest[r] # Absent =>
    artifact[r] = manifest[r].build \/ manifest[r].build \in torn

\* A retired release stays retired: a rollout change that read the manifest
\* before the retirement never writes it back (SetRollout).
RetiredStaysRetired ==
  \A r \in Release : manifest[r] # Absent => manifest[r].build \notin withdrawn

\* A publication that was answered with 201 is not replaced by another one: its
\* build is there until it is retired (Publish).
AcknowledgedStays ==
  \A b \in acknowledged : b \in withdrawn \/
    \E r \in Release : artifact[r] = b /\ manifest[r] # Absent /\ manifest[r].build = b

\* The directory of releases (updates/store.go) is fit to be read at every moment, and
\* what operators were told of it is true.
StoreSafe == ManifestHasArtifact /\ RetiredStaysRetired /\ AcknowledgedStays
=============================================================================
