-------------------------- MODULE OperationsProofs --------------------------
(***************************************************************************)
(* The safety of the parts of MCOperations for any number of Pods, calls,     *)
(* releases, requests, migrations and crashes.  Each part moves alone, so     *)
(* each has an inductive invariant of its own.                               *)
(***************************************************************************)
EXTENDS MCOperations, Sequences, FiniteSetTheorems, TLAPS

(* A step of the whole is a step of each part, or leaves the part alone.      *)
LEMMA PartsMove ==
  ASSUME [Next]_vars
  PROVE  /\ [Store!Next]_ofStore
         /\ [Policies!Next]_ofPolicies
         /\ [Recorder!Next]_ofRecorder
         /\ [Schema!Next]_ofSchema
         /\ [Mailer!Next]_ofMailer
         /\ [Settings!Next]_ofSettings
         /\ [PodStart!Next]_ofPodStart
         /\ [Log!Next]_ofLog
         /\ [Staging!Next]_ofStaging
BY Zenon DEF Next, vars

-----------------------------------------------------------------------------
(***************************************************************************)
(* The directory of releases (updates/store.go).                            *)
(***************************************************************************)

Held == {"locked", "clean", "linked", "read", "unlisted"}

(* What a call that holds the lock has found stays so; what a publication has *)
(* staged is in no manifest yet.                                              *)
CallOK(c) ==
  LET r == call[c].base
      b == call[c].build
  IN  /\ call[c].op # "none" => r \in Release
      /\ call[c].step \in Held => holder = c
      /\ call[c].op = "publish" =>
           /\ b \in 1 .. builds /\ b \notin withdrawn
           /\ \A s \in Release : manifest[s] # Absent => manifest[s].build # b
      /\ call[c].step \in {"clean", "linked"} => manifest[r] = Absent /\ call[c].op = "publish"
      /\ call[c].step = "linked" => artifact[r] = b
      /\ call[c].step = "read" => /\ manifest[r] = call[c].read /\ call[c].read # Absent
                                  /\ call[c].op = "rollout"
      /\ call[c].step = "unlisted" => manifest[r] = Absent /\ call[c].op = "retire"

(* No build is published twice.                                              *)
BuildsOK ==
  /\ \A c, d \in Caller :
       call[c].op = "publish" /\ call[d].op = "publish" /\ call[c].build = call[d].build => c = d
  /\ \A r, s \in Release :
       manifest[r] # Absent /\ manifest[s] # Absent /\ manifest[r].build = manifest[s].build
         => r = s
  /\ withdrawn \subseteq 1 .. builds
  /\ \A r \in Release : manifest[r] # Absent => manifest[r].build \in 1 .. builds

StoreInv == Store!TypeOK /\ (\A c \in Caller : CallOK(c)) /\ BuildsOK /\ StoreSafe

StoreSteps == {"none", "asked", "locked", "clean", "linked", "read", "unlisted"}

LEMMA IdleTyped ==
  Store!Idle \in Store!Calls /\ Store!Idle.op = "none" /\ Store!Idle.step = "none"
BY StoreAssumption DEF Store!Idle, Store!Calls

(* What a call is asked to do, and what a publication has staged.             *)
Orders == {"rollout", "retire"}
Asked(idle, kind, r, n) == [idle EXCEPT !.op = kind, !.base = r, !.rollout = n, !.step = "asked"]
Staged(idle, r, b, n) == [idle EXCEPT !.op = "publish", !.base = r, !.build = b,
                                      !.rollout = n, !.step = "asked"]

LEMMA AskedTyped ==
  ASSUME NEW idle \in Store!Calls, NEW kind \in Orders,
         NEW r \in Release, NEW n \in Rollout
  PROVE  /\ Asked(idle, kind, r, n) \in Store!Calls /\ Asked(idle, kind, r, n).op = kind
         /\ Asked(idle, kind, r, n).base = r /\ Asked(idle, kind, r, n).step = "asked"
BY DEF Store!Calls, Asked, Orders

LEMMA StagedTyped ==
  ASSUME NEW idle \in Store!Calls, NEW r \in Release, NEW b \in 0 .. MaxBuilds, NEW n \in Rollout
  PROVE  /\ Staged(idle, r, b, n) \in Store!Calls /\ Staged(idle, r, b, n).op = "publish"
         /\ Staged(idle, r, b, n).base = r /\ Staged(idle, r, b, n).step = "asked"
         /\ Staged(idle, r, b, n).build = b
BY DEF Store!Calls, Staged

(* A call goes on ...                                                        *)
LEMMA Goes ==
  ASSUME Store!TypeOK, NEW c \in Caller, NEW step \in StoreSteps, Store!Goto(c, step)
  PROVE  /\ call' \in [Caller -> Store!Calls]
         /\ \A d \in Caller : d # c => call'[d] = call[d]
         /\ call'[c].op = call[c].op /\ call'[c].base = call[c].base
         /\ call'[c].build = call[c].build /\ call'[c].step = step
BY DEF Store!TypeOK, Store!Goto, Store!Calls, StoreSteps

(* ... or answers.                                                           *)
LEMMA Returns ==
  ASSUME Store!TypeOK, NEW c \in Caller, Store!Return(c)
  PROVE  /\ call' \in [Caller -> Store!Calls] /\ holder' \in Caller \cup {Absent}
         /\ \A d \in Caller : d # c => call'[d] = call[d]
         /\ call'[c].op = "none" /\ call'[c].step = "none"
         /\ \A d \in Caller : d # c /\ holder = d => holder' = d
<1>1. Store!Idle \in Store!Calls /\ Store!Idle.op = "none" /\ Store!Idle.step = "none"
  BY IdleTyped
<1>2. call' = [call EXCEPT ![c] = Store!Idle] /\ call \in [Caller -> Store!Calls]
  BY DEF Store!Return, Store!TypeOK
<1>3. /\ call' \in [Caller -> Store!Calls] /\ call'[c] = Store!Idle
      /\ \A d \in Caller : d # c => call'[d] = call[d]
  BY <1>1, <1>2
<1>4. /\ holder' \in Caller \cup {Absent}
      /\ \A d \in Caller : d # c /\ holder = d => holder' = d
  BY DEF Store!Return, Store!TypeOK
<1>. QED BY <1>1, <1>3, <1>4

(* What the types say of a call.                                             *)
LEMMA CallTyped ==
  ASSUME Store!TypeOK, NEW c \in Caller
  PROVE  /\ call[c].op \in {"none", "publish", "rollout", "retire"}
         /\ call[c].base \in Release \cup {Absent} /\ call[c].build \in 0 .. MaxBuilds
         /\ call[c].rollout \in Rollout /\ call[c].step \in StoreSteps
         /\ call[c].read \in Store!Manifests \cup {Absent}
         /\ call[c] = Store!Idle => call[c].step = "none"
BY DEF Store!TypeOK, Store!Calls, StoreSteps, Store!Idle

(* A call that answers leaves the invariant of the calls to the others.       *)
LEMMA OthersWait ==
  ASSUME StoreInv, NEW c \in Caller, NEW d \in Caller, c # d, call[c].step \in Held
  PROVE  call[d].step \notin Held
BY DEF StoreInv, CallOK

LEMMA StoreInitial ==
  ASSUME Store!Init
  PROVE  StoreInv
<1>1. Store!Idle \in Store!Calls /\ Store!Idle.op = "none" /\ Store!Idle.step = "none"
  BY IdleTyped
<1>2. Store!TypeOK
  BY <1>1, StoreAssumption DEF Store!Init, Store!TypeOK
<1>3. \A c \in Caller : call[c].op = "none" /\ call[c].step = "none"
  BY <1>1 DEF Store!Init
<1>4. \A c \in Caller : CallOK(c)
  BY <1>3 DEF CallOK, Held
<1>5. BuildsOK /\ StoreSafe
  BY <1>3 DEF Store!Init, BuildsOK, StoreSafe, Store!StoreSafe, Store!ManifestHasArtifact,
     Store!RetiredStaysRetired, Store!AcknowledgedStays
<1>. QED BY <1>2, <1>4, <1>5 DEF StoreInv

(* The invariant is that of the files, as long as no build comes to be in a    *)
(* second place; steps that leave the files alone keep it.                     *)
FilesOK == Store!ManifestHasArtifact /\ Store!RetiredStaysRetired /\ Store!AcknowledgedStays

LEMMA FilesAlone ==
  ASSUME FilesOK, UNCHANGED <<artifact, manifest, acknowledged, withdrawn, torn>>
  PROVE  FilesOK'
BY DEF FilesOK, Store!ManifestHasArtifact, Store!RetiredStaysRetired, Store!AcknowledgedStays

(* One call moves, the files and the history stay.                            *)
LEMMA OneCallMoves ==
  ASSUME StoreInv, NEW c \in Caller,
         UNCHANGED <<artifact, manifest, builds, acknowledged, withdrawn, torn>>,
         call' \in [Caller -> Store!Calls], holder' \in Caller \cup {Absent},
         \A d \in Caller : d # c => /\ call'[d] = call[d]
                                    /\ holder = d => holder' = d,
         call'[c].op = "publish" => call[c].op = "publish" /\ call'[c].build = call[c].build,
         CallOK(c)'
  PROVE  StoreInv'
<1>1. Store!TypeOK /\ BuildsOK /\ FilesOK /\ \A d \in Caller : CallOK(d)
  BY DEF StoreInv, StoreSafe, Store!StoreSafe, FilesOK
<1>2. Store!TypeOK'
  BY <1>1 DEF Store!TypeOK
<1>3. ASSUME NEW d \in Caller PROVE CallOK(d)'
  BY <1>1, <1>3 DEF CallOK
<1>4. BuildsOK'
  BY <1>1 DEF BuildsOK
<1>5. FilesOK'
  BY <1>1, FilesAlone
<1>. QED BY <1>2, <1>3, <1>4, <1>5 DEF StoreInv, StoreSafe, Store!StoreSafe, FilesOK

LEMMA StoreStage ==
  ASSUME StoreInv, NEW c \in Caller, NEW r \in Release, NEW n \in Rollout, Store!Stage(c, r, n)
  PROVE  StoreInv'
<1>. DEFINE new == Staged(Store!Idle, r, builds + 1, n)
<1>1. Store!TypeOK /\ BuildsOK /\ FilesOK /\ \A d \in Caller : CallOK(d)
  BY DEF StoreInv, StoreSafe, Store!StoreSafe, FilesOK
<1>2. /\ builds \in Nat /\ builds + 1 \in 1 .. MaxBuilds /\ builds' = builds + 1
      /\ call' = [call EXCEPT ![c] = new]
      /\ UNCHANGED <<artifact, manifest, holder, acknowledged, withdrawn, torn>>
  <2>1. /\ builds \in 0 .. MaxBuilds /\ builds < MaxBuilds /\ builds' = builds + 1
        /\ UNCHANGED <<artifact, manifest, holder, acknowledged, withdrawn, torn>>
    BY <1>1 DEF Store!Stage, Store!TypeOK
  <2>2. call' = [call EXCEPT ![c] = new]
    BY DEF Store!Stage, Staged
  <2>. QED BY <2>1, <2>2, StoreAssumption
<1>3. /\ new \in Store!Calls /\ new.op = "publish" /\ new.base = r /\ new.build = builds + 1
      /\ new.step = "asked"
  <2>1. builds + 1 \in 0 .. MaxBuilds
    BY <1>2, StoreAssumption
  <2>. QED BY <2>1, IdleTyped, StagedTyped
<1>. HIDE DEF new
<1>4. /\ call' \in [Caller -> Store!Calls] /\ call'[c] = new
      /\ \A d \in Caller : d # c => call'[d] = call[d]
  BY <1>1, <1>2, <1>3 DEF Store!TypeOK
<1>5. Store!TypeOK'
  BY <1>1, <1>2, <1>4 DEF Store!TypeOK
<1>6. 1 .. builds \subseteq 1 .. builds' /\ builds' \in 1 .. builds' /\ builds' \notin 1 .. builds
  BY <1>2
<1>7. CallOK(c)'
  BY <1>1, <1>2, <1>3, <1>4, <1>6 DEF CallOK, BuildsOK, Held
<1>8. ASSUME NEW d \in Caller, d # c PROVE CallOK(d)'
  BY <1>1, <1>2, <1>4, <1>6, <1>8 DEF CallOK
<1>9. BuildsOK'
  <2>1. \A d \in Caller : call[d].op = "publish" => call[d].build # builds'
    BY <1>1, <1>6 DEF CallOK
  <2>. QED BY <1>1, <1>2, <1>3, <1>4, <1>6, <2>1 DEF BuildsOK
<1>10. FilesOK'
  BY <1>1, <1>2, FilesAlone
<1>. QED BY <1>5, <1>7, <1>8, <1>9, <1>10 DEF StoreInv, StoreSafe, Store!StoreSafe, FilesOK

LEMMA StoreWait ==
  ASSUME StoreInv, NEW c \in Caller,
         \/ \E r \in Release, n \in Rollout :
              Store!Ask(c, r, "rollout", n) \/ Store!Ask(c, r, "retire", 0)
         \/ Store!Lock(c) \/ Store!Crash(c)
  PROVE  StoreInv'
<1>1. Store!TypeOK /\ \A d \in Caller : CallOK(d)
  BY DEF StoreInv
<1>2. ASSUME NEW r \in Release, NEW n \in Rollout, NEW kind \in Orders,
             Store!Ask(c, r, kind, n)
      PROVE  StoreInv'
  <2>. DEFINE new == Asked(Store!Idle, kind, r, n)
  <2>1. /\ new \in Store!Calls /\ new.op = kind /\ new.base = r /\ new.step = "asked"
    BY IdleTyped, AskedTyped
  <2>2. /\ call' = [call EXCEPT ![c] = new]
        /\ UNCHANGED <<artifact, manifest, holder, builds, acknowledged, withdrawn, torn>>
    BY <1>2 DEF Store!Ask, Asked
  <2>. HIDE DEF new
  <2>3. /\ call' \in [Caller -> Store!Calls] /\ call'[c] = new
        /\ \A d \in Caller : d # c => call'[d] = call[d]
    BY <1>1, <2>1, <2>2 DEF Store!TypeOK
  <2>4. CallOK(c)'
    BY <2>1, <2>3 DEF CallOK, Held, Orders
  <2>. QED BY <1>1, <2>1, <2>2, <2>3, <2>4, OneCallMoves DEF Store!TypeOK, Orders
<1>3. CASE Store!Lock(c)
  <2>1. Store!Goto(c, "locked") /\ holder = Absent /\ holder' = c /\ call[c].step = "asked"
        /\ UNCHANGED <<artifact, manifest, builds, acknowledged, withdrawn, torn>>
    BY <1>3 DEF Store!Lock
  <2>2. /\ call' \in [Caller -> Store!Calls] /\ call'[c].step = "locked"
        /\ call'[c].op = call[c].op /\ call'[c].base = call[c].base
        /\ call'[c].build = call[c].build
        /\ \A d \in Caller : d # c => call'[d] = call[d]
    BY <1>1, <2>1, Goes DEF StoreSteps
  <2>3. CallOK(c)'
    BY <1>1, <2>1, <2>2 DEF CallOK, Held
  <2>4. \A d \in Caller : holder # d
    BY <2>1, StoreAssumption
  <2>. QED BY <2>1, <2>2, <2>3, <2>4, OneCallMoves
<1>4. CASE Store!Crash(c)
  <2>1. /\ Store!Return(c)
        /\ UNCHANGED <<artifact, manifest, builds, acknowledged, withdrawn, torn>>
    BY <1>4 DEF Store!Crash
  <2>2. CallOK(c)'
    BY <1>1, <2>1, Returns DEF CallOK, Held
  <2>. QED BY <1>1, <2>1, <2>2, Returns, OneCallMoves
<1>. QED BY <1>2, <1>3, <1>4, StoreAssumption DEF Orders

(* Who holds the lock changes one release; nothing else may happen to it.     *)
KeepsRelease(r) ==
  /\ manifest'[r] # Absent =>
       artifact'[r] = manifest'[r].build \/ manifest'[r].build \in torn'
  /\ manifest'[r] # Absent => manifest'[r].build \notin withdrawn'
  /\ \/ acknowledged' \subseteq acknowledged
     \/ /\ manifest'[r] # Absent /\ artifact'[r] = manifest'[r].build
        /\ acknowledged' \ acknowledged = {artifact'[r]}
  /\ manifest[r] # Absent /\ artifact[r] = manifest[r].build =>
       \/ manifest'[r] # Absent /\ artifact'[r] = artifact[r] /\ artifact'[r] = manifest'[r].build
       \/ artifact[r] \in withdrawn'

HolderMove(c, r) ==
  /\ call[c].step \in Held /\ r = call[c].base /\ builds' = builds
  /\ call' \in [Caller -> Store!Calls] /\ holder' \in Caller \cup {Absent}
  /\ \A d \in Caller : d # c => call'[d] = call[d]
  /\ call'[c].op = "publish" => call[c].op = "publish" /\ call'[c].build = call[c].build
  /\ CallOK(c)'
  /\ artifact' \in [Release -> 0 .. MaxBuilds]
  /\ manifest' \in [Release -> Store!Manifests \cup {Absent}]
  /\ \A s \in Release : s # r => artifact'[s] = artifact[s] /\ manifest'[s] = manifest[s]
  /\ manifest'[r] # Absent =>
       \/ manifest[r] # Absent /\ manifest'[r].build = manifest[r].build
       \/ call[c].op = "publish" /\ manifest'[r].build = call[c].build /\ call'[c].op = "none"
  /\ withdrawn' = withdrawn \/ /\ manifest[r] # Absent /\ manifest'[r] = Absent
                               /\ withdrawn' = withdrawn \cup {manifest[r].build}
  /\ acknowledged' \subseteq 1 .. MaxBuilds
  /\ torn' \subseteq 1 .. MaxBuilds /\ torn \subseteq torn'

LEMMA HolderMoves ==
  ASSUME StoreInv, NEW c \in Caller, NEW r \in Release, HolderMove(c, r), KeepsRelease(r)
  PROVE  StoreInv'
<1>1. Store!TypeOK /\ BuildsOK /\ FilesOK /\ \A d \in Caller : CallOK(d)
  BY DEF StoreInv, StoreSafe, Store!StoreSafe, FilesOK
<1>2. withdrawn' \subseteq 1 .. builds /\ 1 .. builds \subseteq 1 .. MaxBuilds
  <2>1. withdrawn' \subseteq 1 .. builds
    <3>1. /\ withdrawn \subseteq 1 .. builds
          /\ manifest[r] # Absent => manifest[r].build \in 1 .. builds
      BY <1>1 DEF BuildsOK
    <3>2. \/ withdrawn' = withdrawn
          \/ manifest[r] # Absent /\ withdrawn' = withdrawn \cup {manifest[r].build}
      BY DEF HolderMove
    <3>. QED BY Zenon, <3>1, <3>2
  <2>2. builds \in 0 .. MaxBuilds
    BY <1>1 DEF Store!TypeOK
  <2>. QED BY <2>1, <2>2, StoreAssumption
<1>3. Store!TypeOK'
  BY <1>1, <1>2 DEF Store!TypeOK, HolderMove
<1>4. ASSUME NEW d \in Caller, d # c PROVE CallOK(d)'
  <2>1. call'[d] = call[d] /\ call[d].step \notin Held /\ CallOK(d)
    BY <1>1, <1>4, OthersWait DEF HolderMove
  <2>2. ASSUME call[d].op = "publish"
        PROVE  /\ call[d].build \notin withdrawn'
               /\ \A s \in Release : manifest'[s] # Absent => manifest'[s].build # call[d].build
    BY <1>1, <1>4, <2>1, <2>2 DEF CallOK, BuildsOK, HolderMove
  <2>. QED BY <2>1, <2>2 DEF CallOK, Held, HolderMove
<1>5. BuildsOK'
  <2>1. \A a, d \in Caller :
          call'[a].op = "publish" /\ call'[d].op = "publish" /\ call'[a].build = call'[d].build
            => a = d
    BY <1>1 DEF BuildsOK, HolderMove
  <2>2. ASSUME NEW s \in Release, s # r, manifest'[r] # Absent, manifest'[s] # Absent
        PROVE  manifest'[r].build # manifest'[s].build
    BY <1>1, <2>2 DEF BuildsOK, CallOK, HolderMove
  <2>3. \A s \in Release : manifest'[s] # Absent => manifest'[s].build \in 1 .. builds
    BY <1>1 DEF BuildsOK, CallOK, HolderMove
  <2>4. ASSUME NEW p \in Release, NEW q \in Release, manifest'[p] # Absent,
               manifest'[q] # Absent, manifest'[p].build = manifest'[q].build
        PROVE  p = q
    <3>1. CASE p = r \/ q = r
      BY <2>2, <2>4, <3>1
    <3>2. CASE p # r /\ q # r
      BY <1>1, <2>4, <3>2 DEF BuildsOK, HolderMove
    <3>. QED BY <3>1, <3>2
  <2>5. builds' = builds
    BY DEF HolderMove
  <2>. QED BY <1>2, <2>1, <2>3, <2>4, <2>5 DEF BuildsOK
<1>6. Store!ManifestHasArtifact'
  BY <1>1 DEF FilesOK, Store!ManifestHasArtifact, KeepsRelease, HolderMove
<1>7. Store!RetiredStaysRetired'
  BY <1>1 DEF FilesOK, Store!RetiredStaysRetired, KeepsRelease, BuildsOK, HolderMove
<1>8. Store!AcknowledgedStays'
  <2>1. ASSUME NEW b \in acknowledged', b \notin acknowledged
        PROVE  \E s \in Release : artifact'[s] = b /\ manifest'[s] # Absent /\ manifest'[s].build = b
    BY <2>1 DEF KeepsRelease
  <2>2. ASSUME NEW b \in acknowledged
        PROVE  b \in withdrawn' \/
          \E s \in Release : artifact'[s] = b /\ manifest'[s] # Absent /\ manifest'[s].build = b
    <3>1. CASE b \in withdrawn
      BY <3>1 DEF HolderMove
    <3>2. ASSUME NEW s \in Release, artifact[s] = b, manifest[s] # Absent, manifest[s].build = b
          PROVE  b \in withdrawn' \/
            \E q \in Release : artifact'[q] = b /\ manifest'[q] # Absent /\ manifest'[q].build = b
      <4>1. CASE s = r
        BY <3>2, <4>1 DEF KeepsRelease
      <4>2. CASE s # r
        BY <3>2, <4>2 DEF HolderMove
      <4>. QED BY <4>1, <4>2
    <3>. QED BY <1>1, <2>2, <3>1, <3>2 DEF FilesOK, Store!AcknowledgedStays
  <2>. QED BY <2>1, <2>2 DEF Store!AcknowledgedStays
<1>9. CallOK(c)'
  BY DEF HolderMove
<1>. QED BY <1>3, <1>4, <1>5, <1>6, <1>7, <1>8, <1>9 DEF StoreInv, StoreSafe, Store!StoreSafe

(* A call that only answers.                                                 *)
LEMMA OnlyAnswers ==
  ASSUME StoreInv, NEW c \in Caller, Store!Return(c),
         UNCHANGED <<artifact, manifest, builds, acknowledged, withdrawn, torn>>
  PROVE  StoreInv'
<1>1. CallOK(c)' /\ Store!TypeOK
  BY Returns DEF CallOK, Held, StoreInv
<1>. QED BY <1>1, Returns, OneCallMoves

(* What a holder's call is about.                                            *)
LEMMA HoldersRelease ==
  ASSUME StoreInv, NEW c \in Caller, call[c].op # "none"
  PROVE  /\ call[c].base \in Release
         /\ artifact[call[c].base] \in 0 .. MaxBuilds
         /\ manifest[call[c].base] \in Store!Manifests \cup {Absent}
         /\ manifest[call[c].base] # Absent =>
              /\ manifest[call[c].base].build \in 1 .. MaxBuilds
              /\ manifest[call[c].base].build # 0
              /\ manifest[call[c].base].build \notin withdrawn
              /\ \/ artifact[call[c].base] = manifest[call[c].base].build
                 \/ manifest[call[c].base].build \in torn
         /\ call[c].op = "publish" =>
              /\ call[c].build \in 1 .. MaxBuilds /\ call[c].build # 0
              /\ call[c].build \notin withdrawn
<1>. DEFINE r == call[c].base
<1>1. Store!TypeOK /\ FilesOK /\ CallOK(c)
  BY DEF StoreInv, StoreSafe, Store!StoreSafe, FilesOK
<1>2. r \in Release
  BY <1>1 DEF CallOK
<1>. HIDE DEF r
<1>3. artifact[r] \in 0 .. MaxBuilds /\ manifest[r] \in Store!Manifests \cup {Absent}
  BY <1>1, <1>2 DEF Store!TypeOK
<1>4. manifest[r] # Absent => manifest[r].build \in 1 .. MaxBuilds
  BY <1>3 DEF Store!Manifests
<1>5. manifest[r] # Absent =>
        /\ manifest[r].build \notin withdrawn
        /\ artifact[r] = manifest[r].build \/ manifest[r].build \in torn
  BY <1>1, <1>2 DEF FilesOK, Store!ManifestHasArtifact, Store!RetiredStaysRetired
<1>6. call[c].op = "publish" =>
        call[c].build \in 1 .. MaxBuilds /\ call[c].build \notin withdrawn
  <2>1. builds \in 0 .. MaxBuilds
    BY <1>1 DEF Store!TypeOK
  <2>2. call[c].op = "publish" => call[c].build \in 1 .. builds /\ call[c].build \notin withdrawn
    BY <1>1 DEF CallOK
  <2>. QED BY <2>1, <2>2, StoreAssumption
<1>. QED BY <1>2, <1>3, <1>4, <1>5, <1>6 DEF r

LEMMA StoreRecover ==
  ASSUME StoreInv, NEW c \in Caller, Store!Recover(c)
  PROVE  StoreInv'
<1>. DEFINE r == call[c].base
<1>1. Store!TypeOK /\ CallOK(c)
  BY DEF StoreInv
<1>2. call[c].op = "publish" /\ call[c].step = "locked" /\ call[c].step \in Held
      /\ UNCHANGED <<builds, acknowledged, withdrawn, torn>>
  BY DEF Store!Recover, Store!At, Held
<1>3. /\ r \in Release /\ artifact[r] \in 0 .. MaxBuilds
      /\ manifest[r] # Absent => manifest[r].build # 0
  BY <1>2, HoldersRelease
<1>. HIDE DEF r
<1>4. CASE Store!Return(c) /\ UNCHANGED <<artifact, manifest>>
  BY <1>2, <1>4, OnlyAnswers
<1>5. CASE /\ artifact[r] = 0 \/ manifest[r] = Absent
           /\ artifact' = [artifact EXCEPT ![r] = 0]
           /\ manifest' = [manifest EXCEPT ![r] = Absent]
           /\ Store!Goto(c, "clean") /\ UNCHANGED holder
  <2>1. /\ artifact' \in [Release -> 0 .. MaxBuilds] /\ artifact'[r] = 0
        /\ manifest' \in [Release -> Store!Manifests \cup {Absent}] /\ manifest'[r] = Absent
        /\ \A s \in Release : s # r => artifact'[s] = artifact[s] /\ manifest'[s] = manifest[s]
    BY <1>1, <1>3, <1>5, StoreAssumption DEF Store!TypeOK
  <2>2. /\ call' \in [Caller -> Store!Calls]
        /\ \A d \in Caller : d # c => call'[d] = call[d]
        /\ call'[c].op = call[c].op /\ call'[c].base = call[c].base
        /\ call'[c].build = call[c].build /\ call'[c].step = "clean"
    BY <1>1, <1>5, Goes DEF StoreSteps
  <2>3. CallOK(c)'
    BY <1>1, <1>2, <1>3, <1>5, <2>1, <2>2 DEF CallOK, Held, r
  <2>4. HolderMove(c, r)
    BY <1>1, <1>2, <1>5, <2>1, <2>2, <2>3 DEF HolderMove, Store!TypeOK, r
  <2>5. KeepsRelease(r)
    <3>1. acknowledged' \subseteq acknowledged /\ manifest'[r] = Absent
          /\ ~(manifest[r] # Absent /\ artifact[r] = manifest[r].build)
      BY <1>2, <1>3, <1>5, <2>1
    <3>. QED BY <3>1 DEF KeepsRelease
  <2>. QED BY <1>3, <2>4, <2>5, HolderMoves
<1>. QED BY <1>4, <1>5 DEF Store!Recover, r

LEMMA StoreLink ==
  ASSUME StoreInv, NEW c \in Caller, Store!LinkArtifact(c)
  PROVE  StoreInv'
<1>. DEFINE r == call[c].base
<1>1. Store!TypeOK /\ CallOK(c)
  BY DEF StoreInv
<1>2. call[c].op = "publish" /\ call[c].step = "clean" /\ call[c].step \in Held
      /\ UNCHANGED <<manifest, builds, acknowledged, withdrawn, torn>>
  BY DEF Store!LinkArtifact, Store!At, Held
<1>3. r \in Release /\ manifest[r] = Absent /\ call[c].build \in 1 .. MaxBuilds
  BY <1>1, <1>2, HoldersRelease DEF CallOK
<1>. HIDE DEF r
<1>4. CASE Store!Return(c) /\ UNCHANGED artifact
  BY <1>2, <1>4, OnlyAnswers
<1>5. CASE /\ artifact' = [artifact EXCEPT ![r] = call[c].build]
           /\ Store!Goto(c, "linked") /\ UNCHANGED holder
  <2>1. /\ artifact' \in [Release -> 0 .. MaxBuilds] /\ artifact'[r] = call[c].build
        /\ \A s \in Release : s # r => artifact'[s] = artifact[s]
    BY <1>1, <1>3, <1>5, StoreAssumption DEF Store!TypeOK
  <2>2. /\ call' \in [Caller -> Store!Calls]
        /\ \A d \in Caller : d # c => call'[d] = call[d]
        /\ call'[c].op = call[c].op /\ call'[c].base = call[c].base
        /\ call'[c].build = call[c].build /\ call'[c].step = "linked"
    BY <1>1, <1>5, Goes DEF StoreSteps
  <2>3. CallOK(c)'
    BY <1>1, <1>2, <1>3, <1>5, <2>1, <2>2 DEF CallOK, Held, r
  <2>4. HolderMove(c, r)
    BY <1>1, <1>2, <1>3, <1>5, <2>1, <2>2, <2>3 DEF HolderMove, Store!TypeOK, r
  <2>5. KeepsRelease(r)
    <3>1. acknowledged' \subseteq acknowledged /\ manifest'[r] = Absent /\ manifest[r] = Absent
      BY <1>2, <1>3
    <3>. QED BY <3>1 DEF KeepsRelease
  <2>. QED BY <1>3, <2>4, <2>5, HolderMoves
<1>. QED BY <1>4, <1>5 DEF Store!LinkArtifact, r

LEMMA StoreCreate ==
  ASSUME StoreInv, NEW c \in Caller, Store!CreateManifest(c)
  PROVE  StoreInv'
<1>. DEFINE r == call[c].base
            b == call[c].build
            m == [build |-> b, rollout |-> call[c].rollout]
<1>1. Store!TypeOK /\ CallOK(c)
  BY DEF StoreInv
<1>2. call[c].op = "publish" /\ call[c].step = "linked" /\ call[c].step \in Held
      /\ Store!Return(c) /\ UNCHANGED <<builds, withdrawn>>
  BY DEF Store!CreateManifest, Store!At, Held
<1>3. /\ r \in Release /\ manifest[r] = Absent /\ artifact[r] = b
      /\ b \in 1 .. MaxBuilds /\ b \notin withdrawn
  BY <1>1, <1>2, HoldersRelease DEF CallOK
<1>4. m \in Store!Manifests /\ m.build = b
  BY <1>1, <1>3, CallTyped DEF Store!Manifests
<1>5. m # Absent
  BY <1>4, StoreAssumption DEF Store!Manifests
<1>6. /\ call' \in [Caller -> Store!Calls] /\ holder' \in Caller \cup {Absent}
      /\ \A d \in Caller : d # c => call'[d] = call[d]
      /\ call'[c].op = "none" /\ call'[c].step = "none"
  BY <1>1, <1>2, Returns
<1>7. CallOK(c)'
  BY <1>6 DEF CallOK, Held
<1>8. /\ manifest' = manifest \/ manifest' = [manifest EXCEPT ![r] = m]
      /\ artifact' = artifact \/ artifact' = [artifact EXCEPT ![r] = 0]
      /\ \/ /\ manifest' = [manifest EXCEPT ![r] = m] /\ acknowledged' = acknowledged \cup {b}
            /\ UNCHANGED <<artifact, torn>>
         \/ UNCHANGED <<manifest, acknowledged, torn>>
         \/ /\ manifest' = [manifest EXCEPT ![r] = m] /\ torn' = torn \cup {b}
            /\ UNCHANGED acknowledged
  BY DEF Store!CreateManifest
<1>. HIDE DEF r, b, m
<1>9. /\ artifact' \in [Release -> 0 .. MaxBuilds]
      /\ manifest' \in [Release -> Store!Manifests \cup {Absent}]
      /\ manifest' = manifest \/ manifest'[r] = m
      /\ \A s \in Release : s # r => artifact'[s] = artifact[s] /\ manifest'[s] = manifest[s]
  BY <1>1, <1>3, <1>4, <1>8, StoreAssumption DEF Store!TypeOK
<1>10. /\ acknowledged' \subseteq 1 .. MaxBuilds /\ torn' \subseteq 1 .. MaxBuilds
       /\ torn \subseteq torn'
  BY <1>1, <1>3, <1>8 DEF Store!TypeOK
<1>11. HolderMove(c, r)
  BY <1>2, <1>3, <1>4, <1>6, <1>7, <1>9, <1>10 DEF HolderMove, r, b
<1>12. KeepsRelease(r)
  <2>1. manifest' = [manifest EXCEPT ![r] = m] => manifest'[r] = m
    BY <1>1, <1>3 DEF Store!TypeOK
  <2>2. CASE /\ manifest' = [manifest EXCEPT ![r] = m] /\ acknowledged' = acknowledged \cup {b}
             /\ UNCHANGED <<artifact, torn>>
    <3>1. manifest'[r] = m /\ artifact'[r] = b /\ withdrawn' = withdrawn
      BY <1>2, <1>3, <2>1, <2>2
    <3>2. acknowledged' \subseteq acknowledged \/ acknowledged' \ acknowledged = {b}
      BY <2>2
    <3>. QED BY <1>3, <1>4, <1>5, <3>1, <3>2 DEF KeepsRelease
  <2>3. CASE UNCHANGED <<manifest, acknowledged, torn>>
    <3>1. manifest'[r] = Absent /\ acknowledged' \subseteq acknowledged
      BY <1>3, <2>3
    <3>. QED BY <1>3, <3>1 DEF KeepsRelease
  <2>4. CASE /\ manifest' = [manifest EXCEPT ![r] = m] /\ torn' = torn \cup {b}
             /\ UNCHANGED acknowledged
    <3>1. /\ manifest'[r] = m /\ b \in torn' /\ withdrawn' = withdrawn
          /\ acknowledged' \subseteq acknowledged
      BY <1>2, <2>1, <2>4
    <3>. QED BY <1>3, <1>4, <3>1 DEF KeepsRelease
  <2>. QED BY <1>8, <2>2, <2>3, <2>4
<1>. QED BY <1>3, <1>11, <1>12, HolderMoves

(* What a rollout change has read.                                           *)
Noted(old, m) == [old EXCEPT !.step = "read", !.read = m]

LEMMA NotedTyped ==
  ASSUME NEW old \in Store!Calls, NEW m \in Store!Manifests \cup {Absent}
  PROVE  /\ Noted(old, m) \in Store!Calls /\ Noted(old, m).op = old.op
         /\ Noted(old, m).base = old.base /\ Noted(old, m).step = "read"
         /\ Noted(old, m).build = old.build /\ Noted(old, m).read = m
BY DEF Store!Calls, Noted

LEMMA StoreRead ==
  ASSUME StoreInv, NEW c \in Caller, Store!ReadManifest(c)
  PROVE  StoreInv'
<1>. DEFINE r == call[c].base
<1>1. Store!TypeOK /\ CallOK(c)
  BY DEF StoreInv
<1>2. call[c].op = "rollout" /\ call[c].step = "locked" /\ call[c].step \in Held
      /\ UNCHANGED <<artifact, builds, acknowledged, withdrawn, torn>>
  BY DEF Store!ReadManifest, Store!At, Held
<1>3. /\ r \in Release /\ artifact[r] \in 0 .. MaxBuilds
      /\ manifest[r] \in Store!Manifests \cup {Absent}
      /\ manifest[r] # Absent => manifest[r].build # 0
  BY <1>2, HoldersRelease
<1>. HIDE DEF r
<1>4. CASE Store!Return(c) /\ UNCHANGED manifest
  BY <1>2, <1>4, OnlyAnswers
<1>5. CASE /\ manifest[r] # Absent /\ artifact[r] = 0
           /\ manifest' = [manifest EXCEPT ![r] = Absent] /\ Store!Return(c)
  <2>1. /\ manifest' \in [Release -> Store!Manifests \cup {Absent}] /\ manifest'[r] = Absent
        /\ \A s \in Release : s # r => manifest'[s] = manifest[s]
    BY <1>1, <1>3, <1>5 DEF Store!TypeOK
  <2>2. CallOK(c)' /\ call'[c].op = "none"
    BY <1>1, <1>5, Returns DEF CallOK, Held
  <2>3. HolderMove(c, r)
    BY <1>1, <1>2, <1>5, <2>1, <2>2, Returns DEF HolderMove, Store!TypeOK, r
  <2>4. KeepsRelease(r)
    BY <1>2, <1>3, <1>5, <2>1 DEF KeepsRelease
  <2>. QED BY <1>3, <2>3, <2>4, HolderMoves
<1>6. CASE /\ manifest[r] # Absent
           /\ call' = [call EXCEPT ![c] = Noted(call[c], manifest[r])]
           /\ UNCHANGED <<manifest, holder>>
  <2>1. call[c] \in Store!Calls /\ call \in [Caller -> Store!Calls] /\ holder \in Caller \cup {Absent}
    BY <1>1 DEF Store!TypeOK
  <2>. DEFINE new == Noted(call[c], manifest[r])
  <2>2. /\ new \in Store!Calls /\ new.op = "rollout" /\ new.base = r /\ new.step = "read"
        /\ new.read = manifest[r] /\ new.build = call[c].build
    BY <1>2, <1>3, <2>1, NotedTyped DEF r
  <2>. HIDE DEF new
  <2>3. /\ call' \in [Caller -> Store!Calls] /\ call'[c] = new
        /\ \A d \in Caller : d # c => call'[d] = call[d]
    BY <1>6, <2>1, <2>2 DEF new
  <2>4. CallOK(c)'
    BY <1>1, <1>2, <1>3, <1>6, <2>2, <2>3 DEF CallOK, Held
  <2>. QED BY <1>2, <1>6, <2>1, <2>2, <2>3, <2>4, OneCallMoves
<1>7. [call EXCEPT ![c].step = "read", ![c].read = manifest[r]]
        = [call EXCEPT ![c] = Noted(call[c], manifest[r])]
  <2>1. call[c] \in Store!Calls /\ call \in [Caller -> Store!Calls]
    BY <1>1 DEF Store!TypeOK
  <2>. QED BY <2>1 DEF Noted, Store!Calls
<1>. QED BY <1>4, <1>5, <1>6, <1>7 DEF Store!ReadManifest, r

(* The manifest with another rollout is that of the same build.               *)
LEMMA RolledTyped ==
  ASSUME NEW m \in Store!Manifests, NEW n \in Rollout
  PROVE  [m EXCEPT !.rollout = n] \in Store!Manifests /\ [m EXCEPT !.rollout = n].build = m.build
BY DEF Store!Manifests

LEMMA StoreReplace ==
  ASSUME StoreInv, NEW c \in Caller, Store!ReplaceManifest(c)
  PROVE  StoreInv'
<1>. DEFINE r == call[c].base
            m == [call[c].read EXCEPT !.rollout = call[c].rollout]
<1>1. Store!TypeOK /\ CallOK(c)
  BY DEF StoreInv
<1>2. /\ call[c].op = "rollout" /\ call[c].step = "read" /\ call[c].step \in Held
      /\ Store!Return(c) /\ manifest' = [manifest EXCEPT ![r] = m]
      /\ UNCHANGED <<artifact, builds, acknowledged, withdrawn, torn>>
  BY DEF Store!ReplaceManifest, Store!At, Held
<1>3. r \in Release /\ manifest[r] = call[c].read /\ manifest[r] # Absent
  BY <1>1, <1>2 DEF CallOK
<1>4. /\ manifest[r].build \notin withdrawn
      /\ artifact[r] = manifest[r].build \/ manifest[r].build \in torn
  BY <1>2, <1>3, HoldersRelease
<1>5. m \in Store!Manifests /\ m.build = manifest[r].build
  <2>1. manifest[r] \in Store!Manifests /\ call[c].rollout \in Rollout
    BY <1>1, <1>3, CallTyped
  <2>. QED BY <1>3, <2>1, RolledTyped
<1>. HIDE DEF m, r
<1>6. /\ manifest' \in [Release -> Store!Manifests \cup {Absent}] /\ manifest'[r] = m
      /\ \A s \in Release : s # r => manifest'[s] = manifest[s]
  BY <1>1, <1>2, <1>3, <1>5 DEF Store!TypeOK
<1>7. CallOK(c)' /\ call'[c].op = "none"
  BY <1>1, <1>2, Returns DEF CallOK, Held
<1>8. HolderMove(c, r)
  BY <1>1, <1>2, <1>3, <1>5, <1>6, <1>7, Returns DEF HolderMove, Store!TypeOK, r
<1>9. m # Absent
  BY <1>5, StoreAssumption DEF Store!Manifests
<1>10. KeepsRelease(r)
  BY <1>2, <1>4, <1>5, <1>6, <1>9 DEF KeepsRelease
<1>. QED BY <1>3, <1>8, <1>10, HolderMoves

LEMMA StoreUnlist ==
  ASSUME StoreInv, NEW c \in Caller, Store!Unlist(c)
  PROVE  StoreInv'
<1>. DEFINE r == call[c].base
<1>1. Store!TypeOK /\ CallOK(c)
  BY DEF StoreInv
<1>2. /\ call[c].op = "retire" /\ call[c].step = "locked" /\ call[c].step \in Held
      /\ UNCHANGED <<artifact, builds, acknowledged, torn>>
  BY DEF Store!Unlist, Store!At, Held
<1>3. r \in Release
  BY <1>2, HoldersRelease
<1>. HIDE DEF r
<1>4. CASE Store!Return(c) /\ UNCHANGED <<manifest, withdrawn>>
  BY <1>2, <1>4, OnlyAnswers
<1>5. CASE /\ manifest[r] # Absent
           /\ manifest' = [manifest EXCEPT ![r] = Absent]
           /\ withdrawn' = withdrawn \cup {manifest[r].build}
           /\ Store!Goto(c, "unlisted") /\ UNCHANGED holder
  <2>1. /\ manifest' \in [Release -> Store!Manifests \cup {Absent}] /\ manifest'[r] = Absent
        /\ \A s \in Release : s # r => manifest'[s] = manifest[s]
    BY <1>1, <1>3, <1>5 DEF Store!TypeOK
  <2>2. /\ call' \in [Caller -> Store!Calls]
        /\ \A d \in Caller : d # c => call'[d] = call[d]
        /\ call'[c].op = call[c].op /\ call'[c].base = call[c].base
        /\ call'[c].build = call[c].build /\ call'[c].step = "unlisted"
    BY <1>1, <1>5, Goes DEF StoreSteps
  <2>3. CallOK(c)'
    BY <1>1, <1>2, <1>3, <1>5, <2>1, <2>2 DEF CallOK, Held, r
  <2>4. HolderMove(c, r)
    BY <1>1, <1>2, <1>5, <2>1, <2>2, <2>3 DEF HolderMove, Store!TypeOK, r
  <2>5. KeepsRelease(r)
    BY <1>2, <1>3, <1>5, <2>1 DEF KeepsRelease
  <2>. QED BY <1>3, <2>4, <2>5, HolderMoves
<1>. QED BY <1>4, <1>5 DEF Store!Unlist, r

LEMMA StoreRemove ==
  ASSUME StoreInv, NEW c \in Caller, Store!RemoveArtifact(c)
  PROVE  StoreInv'
<1>. DEFINE r == call[c].base
<1>1. Store!TypeOK /\ CallOK(c)
  BY DEF StoreInv
<1>2. /\ call[c].op = "retire" /\ call[c].step = "unlisted" /\ call[c].step \in Held
      /\ Store!Return(c) /\ UNCHANGED <<manifest, builds, acknowledged, withdrawn, torn>>
  BY DEF Store!RemoveArtifact, Store!At, Held
<1>3. r \in Release /\ manifest[r] = Absent
  BY <1>1, <1>2 DEF CallOK
<1>4. /\ artifact' \in [Release -> 0 .. MaxBuilds]
      /\ \A s \in Release : s # r => artifact'[s] = artifact[s]
  BY <1>1, <1>3, StoreAssumption DEF Store!TypeOK, Store!RemoveArtifact
<1>. HIDE DEF r
<1>5. CallOK(c)' /\ call'[c].op = "none"
  BY <1>1, <1>2, Returns DEF CallOK, Held
<1>6. HolderMove(c, r)
  BY <1>1, <1>2, <1>4, <1>5, Returns DEF HolderMove, Store!TypeOK, r
<1>7. KeepsRelease(r)
  BY <1>2, <1>3 DEF KeepsRelease
<1>. QED BY <1>3, <1>6, <1>7, HolderMoves

LEMMA StoreStep ==
  ASSUME StoreInv, [Store!Next]_ofStore
  PROVE  StoreInv'
<1>1. CASE UNCHANGED ofStore
  BY <1>1 DEF ofStore, StoreInv, Store!TypeOK, CallOK, BuildsOK, StoreSafe, Store!StoreSafe,
     Store!ManifestHasArtifact, Store!RetiredStaysRetired, Store!AcknowledgedStays
<1>2. ASSUME NEW c \in Caller,
             \/ \E r \in Release, n \in Rollout : Store!Stage(c, r, n)
             \/ \E r \in Release, n \in Rollout : Store!Ask(c, r, "rollout", n)
             \/ \E r \in Release : Store!Ask(c, r, "retire", 0)
             \/ Store!Lock(c)
             \/ Store!Recover(c) \/ Store!LinkArtifact(c) \/ Store!CreateManifest(c)
             \/ Store!ReadManifest(c) \/ Store!ReplaceManifest(c)
             \/ Store!Unlist(c) \/ Store!RemoveArtifact(c)
             \/ Store!Crash(c)
      PROVE  StoreInv'
  BY Zenon, <1>2, StoreStage, StoreWait, StoreRecover, StoreLink, StoreCreate, StoreRead,
     StoreReplace, StoreUnlist, StoreRemove, StoreAssumption
<1>. QED BY <1>1, <1>2 DEF Store!Next

(***************************************************************************)
(* updates/store.go: whatever the operators and the crashes, a manifest has  *)
(* its artifact, a retired release stays retired and an acknowledged         *)
(* publication stays until it is retired.                                    *)
(***************************************************************************)
THEOREM ReleasesStay == Spec => []StoreSafe
<1>1. Init => StoreInv
  BY StoreInitial DEF Init
<1>2. StoreInv /\ [Next]_vars => StoreInv'
  BY PartsMove, StoreStep
<1>3. StoreInv => StoreSafe
  BY DEF StoreInv
<1>. QED BY <1>1, <1>2, <1>3, PTL DEF Spec

-----------------------------------------------------------------------------
(***************************************************************************)
(* A Pod's start (cmd/invenqor-server/main.go, bootstrap/store.go).         *)
(***************************************************************************)

(* A process holds the key of its directory; a request lives in a serving      *)
(* process, and what it read still holds the secret; who was told of a          *)
(* PostgreSQL has its connection.                                              *)
KeyHeld == server.step # "off" => server.key = keyFile /\ keyFile # 0

ChangesOK ==
  /\ ~ PodStart!Serving => \A c \in Change : change[c] = PodStart!Waiting
  /\ \A c \in Change :
       /\ change[c].step # "rest" => change[c].dsn \in Dsn
       /\ change[c].step = "read" => change[c].read.secret = sealed.values.secret

ConnectionKept ==
  /\ sealed.key = 0 => ~ sealed.values.secret
  /\ sealed.values.dsn = Nowhere => chosen = Nowhere
  /\ server.step \in {"loaded", "seeded", "sqlite"} /\ server.dsn = Nowhere
       => server.told = Nowhere
  /\ server.step = "sqlite" => server.dsn = Nowhere

StartInv == /\ PodStart!TypeOK /\ PodStart!SealedOpens /\ PodStart!NoUnrelatedData
            /\ KeyHeld /\ ChangesOK /\ ConnectionKept

ServerSteps == {"off", "keyed", "loaded", "seeded", "postgres", "sqlite"}

(* The records of a process and of a request.                                *)
Servers == [step : ServerSteps, key : 0 .. MaxKeys, dsn : PodStart!Connections,
            told : PodStart!Connections]
Requests == [step : {"rest", "tested", "read"}, dsn : PodStart!Connections,
             read : PodStart!Values]

LEMMA OffTyped ==
  /\ PodStart!Off \in Servers /\ PodStart!Off.step = "off"
  /\ PodStart!Waiting \in Requests /\ PodStart!Waiting.step = "rest"
  /\ PodStart!Empty \in PodStart!Values /\ PodStart!Empty.secret = FALSE
  /\ PodStart!Empty.dsn = Nowhere
BY StartAssumption DEF PodStart!Off, PodStart!Waiting, PodStart!Empty, PodStart!Values,
   PodStart!Connections, Servers, Requests, ServerSteps

LEMMA StartInitial ==
  ASSUME PodStart!Init
  PROVE  StartInv
<1>1. sealed \in [key : {0, 1}, values : PodStart!Values] /\ keyFile \in {0, 1}
      /\ sealed.key = keyFile /\ (sealed.key = 0 => ~ sealed.values.secret)
  <2>1. CASE keyFile = 0 /\ sealed = [key |-> 0, values |-> PodStart!Empty]
    BY <2>1, OffTyped
  <2>2. CASE /\ keyFile = 1
             /\ sealed \in [key : {1}, values : [dsn : PodStart!Connections, secret : {TRUE}]]
    <3>1. sealed.values \in [dsn : PodStart!Connections, secret : {TRUE}] /\ sealed.key = 1
      BY <2>2
    <3>2. sealed.values \in PodStart!Values
      BY <3>1 DEF PodStart!Values
    <3>. QED BY <2>2, <3>1, <3>2
  <2>. QED BY <2>1, <2>2 DEF PodStart!Init
<1>2. sealed.values.dsn \in PodStart!Connections
  BY <1>1 DEF PodStart!Values
<1>3. PodStart!TypeOK
  BY <1>1, <1>2, OffTyped, StartAssumption
     DEF PodStart!Init, PodStart!TypeOK, Servers, Requests, ServerSteps
<1>. QED BY <1>1, <1>3, OffTyped DEF PodStart!Init, StartInv, PodStart!SealedOpens,
            PodStart!NoUnrelatedData, KeyHeld, ChangesOK, ConnectionKept

(* A process that stops, or has not come further than "seeded", has no request. *)
LEMMA StartStops ==
  ASSUME StartInv, server' = PodStart!Off, change' = [c \in Change |-> PodStart!Waiting],
         environment' \in PodStart!Connections, reachable' \subseteq Dsn,
         UNCHANGED <<keyFile, sealed, chosen, keys>>
  PROVE  StartInv'
<1>1. PodStart!TypeOK'
  BY OffTyped DEF StartInv, PodStart!TypeOK, Servers, Requests, ServerSteps
<1>. QED BY <1>1, OffTyped DEF StartInv, PodStart!SealedOpens,
            PodStart!NoUnrelatedData, KeyHeld, ChangesOK, ConnectionKept, PodStart!Serving

(* The server goes on, with nothing said of its requests.                    *)
Moves(old, step) == [old EXCEPT !.step = step]
Keyed(old, k) == [old EXCEPT !.step = "keyed", !.key = k]
Loaded(old, d, t) == [old EXCEPT !.step = "loaded", !.dsn = d, !.told = t]

LEMMA MovesTyped ==
  ASSUME NEW old \in Servers, NEW step \in ServerSteps
  PROVE  /\ Moves(old, step) \in Servers /\ Moves(old, step).step = step
         /\ Moves(old, step).key = old.key /\ Moves(old, step).dsn = old.dsn
         /\ Moves(old, step).told = old.told
BY DEF Servers, ServerSteps, Moves

LEMMA KeyedTyped ==
  ASSUME NEW old \in Servers, NEW k \in 0 .. MaxKeys
  PROVE  Keyed(old, k) \in Servers /\ Keyed(old, k).step = "keyed" /\ Keyed(old, k).key = k
BY DEF Servers, ServerSteps, Keyed

LEMMA LoadedTyped ==
  ASSUME NEW old \in Servers, NEW d \in PodStart!Connections, NEW t \in PodStart!Connections
  PROVE  /\ Loaded(old, d, t) \in Servers /\ Loaded(old, d, t).step = "loaded"
         /\ Loaded(old, d, t).dsn = d /\ Loaded(old, d, t).told = t
         /\ Loaded(old, d, t).key = old.key
BY DEF Servers, ServerSteps, Loaded

(* A connection is tested, then the sealed values are read.                   *)
Tested(idle, d) == [idle EXCEPT !.step = "tested", !.dsn = d]
ValuesRead(old, v) == [old EXCEPT !.step = "read", !.read = v]

LEMMA TestedTyped ==
  ASSUME NEW old \in Requests, NEW d \in PodStart!Connections
  PROVE  /\ Tested(old, d) \in Requests /\ Tested(old, d).step = "tested" /\ Tested(old, d).dsn = d
BY DEF Requests, Tested

LEMMA ReadTyped ==
  ASSUME NEW old \in Requests, NEW v \in PodStart!Values
  PROVE  /\ ValuesRead(old, v) \in Requests /\ ValuesRead(old, v).step = "read"
         /\ ValuesRead(old, v).dsn = old.dsn /\ ValuesRead(old, v).read = v
BY DEF Requests, ValuesRead

LEMMA WriteEither ==
  ASSUME NEW old, NEW new, NEW w \in PodStart!Write(old, new)
  PROVE  (w.file = old /\ w.failed = TRUE) \/ (w.file = new /\ w.failed \in BOOLEAN)
<1>1. CASE w \in [file : {new}, failed : BOOLEAN]
  BY <1>1
<1>2. CASE w = [file |-> old, failed |-> TRUE]
  BY <1>2
<1>. QED BY <1>1, <1>2 DEF PodStart!Write

LEMMA StartKeyed ==
  ASSUME StartInv, PodStart!OpenWithKey \/ PodStart!CreateKey
  PROVE  StartInv'
<1>1. PodStart!TypeOK /\ PodStart!Off \in Servers
  BY OffTyped DEF StartInv
<1>2. /\ server = PodStart!Off /\ ~ PodStart!Serving
      /\ UNCHANGED <<environment, reachable, sealed, change, chosen>>
  BY OffTyped DEF PodStart!OpenWithKey, PodStart!CreateKey, PodStart!Serving
<1>3. /\ keyFile' \in 0 .. MaxKeys /\ keys' \in 0 .. MaxKeys
      /\ keyFile # 0 => keyFile' = keyFile
      /\ \/ server' = PodStart!Off
         \/ keyFile' # 0 /\ server' = Keyed(PodStart!Off, keyFile')
  <2>1. CASE PodStart!OpenWithKey
    BY <1>1, <2>1 DEF PodStart!OpenWithKey, Keyed, PodStart!TypeOK
  <2>2. CASE PodStart!CreateKey
    <3>1. PICK w \in PodStart!Write(0, keys + 1) :
            /\ keyFile' = w.file
            /\ server' = IF w.failed THEN PodStart!Off ELSE Keyed(PodStart!Off, keys + 1)
      BY <2>2 DEF PodStart!CreateKey, Keyed
    <3>2. /\ w.file \in {0, keys + 1} /\ w.failed \in BOOLEAN
          /\ ~ w.failed => w.file = keys + 1
      <4>1. (w.file = 0 /\ w.failed = TRUE) \/ (w.file = keys + 1 /\ w.failed \in BOOLEAN)
        BY Zenon, WriteEither
      <4>. QED BY <4>1
    <3>3. /\ keyFile = 0 /\ keys \in 0 .. MaxKeys /\ keys < MaxKeys /\ keys' = keys + 1
      BY <1>1, <2>2 DEF PodStart!CreateKey, PodStart!TypeOK
    <3>4. keys + 1 \in 1 .. MaxKeys
      BY <3>3, StartAssumption
    <3>5. CASE w.failed
      BY <3>1, <3>2, <3>3, <3>4, <3>5, StartAssumption
    <3>6. CASE ~ w.failed
      BY <3>1, <3>2, <3>3, <3>4, <3>6, StartAssumption
    <3>. QED BY <3>5, <3>6
  <2>. QED BY <2>1, <2>2
<1>4. /\ server' \in Servers /\ server'.step \in {"off", "keyed"}
      /\ server'.step # "off" => server'.key = keyFile' /\ keyFile' # 0
  BY <1>1, <1>3, OffTyped, KeyedTyped
<1>5. PodStart!TypeOK'
  BY <1>1, <1>2, <1>3, <1>4 DEF PodStart!TypeOK, Servers, ServerSteps
<1>6. sealed'.key \in {0, keyFile'}
  BY <1>2, <1>3 DEF StartInv, PodStart!SealedOpens
<1>. QED BY <1>2, <1>4, <1>5, <1>6
         DEF StartInv, PodStart!SealedOpens, PodStart!NoUnrelatedData, KeyHeld, ChangesOK,
             ConnectionKept, PodStart!Serving

LEMMA StartLoads ==
  ASSUME StartInv, PodStart!Load
  PROVE  StartInv'
<1>1. PodStart!TypeOK /\ server \in Servers
  BY DEF StartInv, PodStart!TypeOK, Servers, ServerSteps
<1>2. /\ server.step = "keyed" /\ ~ PodStart!Serving
      /\ UNCHANGED <<environment, reachable, keyFile, sealed, change, chosen, keys>>
  BY DEF PodStart!Load, PodStart!Serving
<1>3. CASE server' = PodStart!Off
  <2>1. change' = [c \in Change |-> PodStart!Waiting]
    BY <1>1, <1>2 DEF StartInv, ChangesOK, PodStart!TypeOK
  <2>. QED BY <1>1, <1>2, <1>3, <2>1, StartStops DEF PodStart!TypeOK
<1>4. CASE server' = Loaded(server,
                       IF environment # Nowhere THEN environment ELSE sealed.values.dsn,
                       IF environment # Nowhere THEN environment ELSE chosen)
  <2>. DEFINE d == IF environment # Nowhere THEN environment ELSE sealed.values.dsn
              t == IF environment # Nowhere THEN environment ELSE chosen
  <2>1. d \in PodStart!Connections /\ t \in PodStart!Connections /\ (d = Nowhere => t = Nowhere)
    BY <1>1 DEF PodStart!TypeOK, PodStart!Values, StartInv, ConnectionKept
  <2>. HIDE DEF d, t
  <2>2. /\ server' \in Servers /\ server'.step = "loaded" /\ server'.key = server.key
        /\ server'.dsn = d /\ server'.told = t
    BY <1>1, <1>4, <2>1, LoadedTyped DEF d, t
  <2>3. PodStart!TypeOK'
    BY <1>1, <1>2, <2>2 DEF PodStart!TypeOK, Servers, ServerSteps
  <2>. QED BY <1>2, <2>1, <2>2, <2>3
           DEF StartInv, PodStart!SealedOpens, PodStart!NoUnrelatedData, KeyHeld, ChangesOK,
               ConnectionKept, PodStart!Serving
<1>. QED BY <1>3, <1>4 DEF PodStart!Load, Loaded

(* A failed or successful write leaves the old values or the new ones, sealed *)
(* with the key of the process.                                               *)
LEMMA StartWrites ==
  ASSUME StartInv, NEW v \in PodStart!Values, NEW w \in PodStart!Write(sealed, PodStart!Seal(v)),
         server.step # "off"
  PROVE  /\ w.file \in [key : 0 .. MaxKeys, values : PodStart!Values]
         /\ w.failed \in BOOLEAN
         /\ \/ w.file = sealed /\ w.failed
            \/ w.file.key = server.key /\ w.file.key # 0 /\ w.file.values = v
         /\ ~ w.failed => w.file.values = v
         /\ w.file.key \in {0, keyFile}
<1>1. /\ server.key = keyFile /\ keyFile # 0 /\ keyFile \in 0 .. MaxKeys
      /\ sealed \in [key : 0 .. MaxKeys, values : PodStart!Values] /\ sealed.key \in {0, keyFile}
  BY DEF StartInv, KeyHeld, PodStart!TypeOK, PodStart!SealedOpens
<1>2. CASE w.file = sealed /\ w.failed = TRUE
  BY <1>1, <1>2
<1>3. CASE w.file = PodStart!Seal(v) /\ w.failed \in BOOLEAN
  BY <1>1, <1>3 DEF PodStart!Seal
<1>4. (w.file = sealed /\ w.failed = TRUE) \/ (w.file = PodStart!Seal(v) /\ w.failed \in BOOLEAN)
  BY Zenon, WriteEither
<1>. QED BY <1>2, <1>3, <1>4

LEMMA StartSeeds ==
  ASSUME StartInv, PodStart!Seed
  PROVE  StartInv' /\ (sealed.values.secret => sealed'.values.secret)
<1>1. /\ PodStart!TypeOK /\ server \in Servers
      /\ change = [c \in Change |-> PodStart!Waiting]
  BY DEF StartInv, PodStart!TypeOK, Servers, ServerSteps, ChangesOK, PodStart!Serving,
     PodStart!Seed
<1>2. /\ server.step = "loaded" /\ server.step # "off"
      /\ UNCHANGED <<environment, reachable, keyFile, change, keys>>
  BY DEF PodStart!Seed
<1>3. /\ Moves(server, "seeded") \in Servers /\ Moves(server, "seeded").step = "seeded"
      /\ Moves(server, "seeded").key = server.key /\ Moves(server, "seeded").dsn = server.dsn
      /\ Moves(server, "seeded").told = server.told
  BY <1>1, MovesTyped DEF ServerSteps
<1>4. CASE UNCHANGED <<sealed, chosen>> /\ server' = Moves(server, "seeded")
  <2>1. PodStart!TypeOK'
    BY <1>1, <1>2, <1>3, <1>4 DEF PodStart!TypeOK, Servers, ServerSteps
  <2>. QED BY <1>2, <1>3, <1>4, <2>1
           DEF StartInv, PodStart!SealedOpens, PodStart!NoUnrelatedData, KeyHeld, ChangesOK,
               ConnectionKept, PodStart!Serving
<1>5. ASSUME sealed.key = 0,
             NEW w \in PodStart!Write(sealed, PodStart!Seal([PodStart!Empty EXCEPT !.dsn = server.dsn])),
             sealed' = w.file, chosen' = w.file.values.dsn,
             server' = IF w.failed THEN PodStart!Off ELSE Moves(server, "seeded")
      PROVE  StartInv' /\ ~ sealed.values.secret
  <2>. DEFINE v == [PodStart!Empty EXCEPT !.dsn = server.dsn]
  <2>1. v \in PodStart!Values /\ v.dsn = server.dsn /\ v.secret = FALSE
    BY <1>1 DEF PodStart!Empty, PodStart!Values, Servers
  <2>. HIDE DEF v
  <2>2. /\ sealed' \in [key : 0 .. MaxKeys, values : PodStart!Values]
        /\ w.failed \in BOOLEAN
        /\ \/ sealed' = sealed /\ w.failed
           \/ sealed'.key # 0 /\ sealed'.values = v
        /\ ~ w.failed => sealed'.values = v
        /\ sealed'.key \in {0, keyFile}
    BY <1>2, <1>5, <2>1, StartWrites DEF v
  <2>3. sealed'.values.dsn \in PodStart!Connections
    BY <2>2 DEF PodStart!Values
  <2>4. server' \in Servers
    BY <1>3, <1>5, OffTyped
  <2>5. PodStart!TypeOK'
    BY <1>1, <1>2, <1>5, <2>2, <2>3, <2>4 DEF PodStart!TypeOK, Servers, ServerSteps
  <2>6. ConnectionKept' /\ ~ sealed.values.secret
    BY <1>2, <1>3, <1>5, <2>1, <2>2, OffTyped DEF StartInv, ConnectionKept
  <2>7. KeyHeld' /\ PodStart!SealedOpens' /\ PodStart!NoUnrelatedData'
    BY <1>2, <1>3, <1>5, <2>2, OffTyped
       DEF StartInv, KeyHeld, PodStart!SealedOpens, PodStart!NoUnrelatedData
  <2>8. ChangesOK'
    BY <1>1, <1>2, OffTyped DEF ChangesOK
  <2>. QED BY <2>5, <2>6, <2>7, <2>8 DEF StartInv
<1>. QED BY <1>4, <1>5 DEF PodStart!Seed, Moves

LEMMA StartOpens ==
  ASSUME StartInv, PodStart!OpenPostgres \/ PodStart!OpenSQLite
  PROVE  StartInv'
<1>1. /\ PodStart!TypeOK /\ server \in Servers /\ server.step = "seeded"
      /\ change = [c \in Change |-> PodStart!Waiting]
      /\ UNCHANGED <<environment, reachable, keyFile, sealed, change, chosen, keys>>
  BY DEF StartInv, PodStart!TypeOK, Servers, ServerSteps, ChangesOK, PodStart!Serving,
     PodStart!OpenPostgres, PodStart!OpenSQLite
<1>2. CASE server' = PodStart!Off
  BY <1>1, <1>2, StartStops DEF PodStart!TypeOK
<1>3. ASSUME NEW step \in {"postgres", "sqlite"}, server' = Moves(server, step),
             step = "sqlite" => server.dsn = Nowhere
      PROVE  StartInv'
  <2>1. /\ server' \in Servers /\ server'.step = step /\ server'.key = server.key
        /\ server'.dsn = server.dsn /\ server'.told = server.told
    BY <1>1, <1>3, MovesTyped DEF ServerSteps
  <2>2. PodStart!TypeOK'
    BY <1>1, <2>1 DEF PodStart!TypeOK, Servers, ServerSteps
  <2>. QED BY <1>1, <1>3, <2>1, <2>2, OffTyped
           DEF StartInv, PodStart!SealedOpens, PodStart!NoUnrelatedData, KeyHeld, ChangesOK,
               ConnectionKept, PodStart!Serving
<1>. QED BY <1>2, <1>3 DEF PodStart!OpenPostgres, PodStart!OpenSQLite, Moves

LEMMA StartChecks ==
  ASSUME StartInv, NEW c \in Change,
         PodStart!LoadValues(c) \/ \E d \in Dsn : PodStart!CheckPostgres(c, d)
  PROVE  StartInv'
<1>1. /\ PodStart!TypeOK /\ change \in [Change -> Requests] /\ change[c] \in Requests
      /\ UNCHANGED <<environment, reachable, keyFile, sealed, server, chosen, keys>>
  BY DEF StartInv, PodStart!TypeOK, Requests, PodStart!LoadValues, PodStart!CheckPostgres
<1>2. ASSUME NEW new \in Requests, change' = [change EXCEPT ![c] = new], PodStart!Serving,
             new.dsn \in Dsn,
             new.step = "read" => new.read.secret = sealed.values.secret
      PROVE  StartInv'
  <2>1. PodStart!TypeOK'
    BY <1>1, <1>2 DEF PodStart!TypeOK, Requests
  <2>2. ChangesOK'
    BY <1>1, <1>2 DEF StartInv, ChangesOK, PodStart!Serving
  <2>. QED BY <1>1, <1>2, <2>1, <2>2
           DEF StartInv, PodStart!SealedOpens, PodStart!NoUnrelatedData, KeyHeld, ConnectionKept
<1>3. CASE PodStart!LoadValues(c)
  <2>1. /\ change[c].step = "tested" /\ PodStart!Serving /\ change[c].dsn \in Dsn
        /\ change' = [change EXCEPT ![c] = ValuesRead(change[c], sealed.values)]
    <3>1. change[c].step = "tested"
      BY <1>3 DEF PodStart!LoadValues
    <3>2. change' = [change EXCEPT ![c] = ValuesRead(change[c], sealed.values)]
      BY <1>1, <1>3 DEF PodStart!LoadValues, ValuesRead, Requests
    <3>. QED BY <3>1, <3>2, OffTyped DEF StartInv, ChangesOK
  <2>2. sealed.values \in PodStart!Values
    BY <1>1 DEF PodStart!TypeOK
  <2>. QED BY <1>1, <1>2, <2>1, <2>2, ReadTyped
<1>4. ASSUME NEW d \in Dsn, PodStart!CheckPostgres(c, d)
      PROVE  StartInv'
  <2>1. d \in PodStart!Connections
    BY DEF PodStart!Connections
  <2>2. PodStart!Serving /\ change' = [change EXCEPT ![c] = Tested(PodStart!Waiting, d)]
    BY <1>4 DEF PodStart!CheckPostgres, Tested
  <2>. QED BY <1>2, <2>1, <2>2, OffTyped, TestedTyped
<1>. QED BY <1>3, <1>4

LEMMA StartSaves ==
  ASSUME StartInv, NEW c \in Change, PodStart!SaveValues(c)
  PROVE  StartInv' /\ (sealed.values.secret => sealed'.values.secret)
<1>1. PodStart!TypeOK /\ change \in [Change -> Requests] /\ change[c] \in Requests
  BY DEF StartInv, PodStart!TypeOK, Requests
<1>2. /\ change[c].step = "read" /\ PodStart!Serving /\ server.step # "off"
      /\ change[c].dsn \in Dsn /\ change[c].read.secret = sealed.values.secret
      /\ change' = [change EXCEPT ![c] = PodStart!Waiting]
      /\ UNCHANGED <<environment, reachable, keyFile, server, keys>>
  BY OffTyped DEF PodStart!SaveValues, StartInv, ChangesOK, PodStart!Serving
<1>. DEFINE v == [change[c].read EXCEPT !.dsn = change[c].dsn]
<1>3. v \in PodStart!Values /\ v.dsn = change[c].dsn /\ v.secret = change[c].read.secret
  BY <1>1 DEF PodStart!Values, Requests
<1>4. PICK w \in PodStart!Write(sealed, PodStart!Seal(v)) :
        sealed' = w.file /\ chosen' = IF w.failed THEN chosen ELSE change[c].dsn
  BY DEF PodStart!SaveValues
<1>. HIDE DEF v
<1>5. /\ sealed' \in [key : 0 .. MaxKeys, values : PodStart!Values]
      /\ w.failed \in BOOLEAN
      /\ \/ sealed' = sealed /\ w.failed
         \/ sealed'.key # 0 /\ sealed'.values = v
      /\ ~ w.failed => sealed'.values = v
      /\ sealed'.key \in {0, keyFile}
  BY <1>2, <1>3, <1>4, StartWrites
<1>6. change' \in [Change -> Requests] /\ change'[c] = PodStart!Waiting
      /\ \A d \in Change : d # c => change'[d] = change[d]
  BY <1>1, <1>2, OffTyped
<1>7. chosen' \in PodStart!Connections
  BY <1>1, <1>4, <1>5 DEF Requests, PodStart!TypeOK
<1>8. PodStart!TypeOK'
  BY <1>1, <1>2, <1>5, <1>6, <1>7 DEF PodStart!TypeOK, Requests
<1>9. sealed'.values.secret = sealed.values.secret
  BY <1>2, <1>3, <1>5
<1>. QED BY <1>2, <1>3, <1>4, <1>5, <1>6, <1>8, <1>9, StartAssumption, OffTyped
         DEF StartInv, PodStart!SealedOpens, PodStart!NoUnrelatedData, KeyHeld, ChangesOK,
             ConnectionKept, PodStart!Serving

LEMMA StartStep ==
  ASSUME StartInv, [PodStart!Next]_ofPodStart
  PROVE  StartInv' /\ (sealed.values.secret => sealed'.values.secret)
<1>1. CASE UNCHANGED ofPodStart
  BY <1>1 DEF ofPodStart, StartInv, PodStart!TypeOK, PodStart!SealedOpens,
     PodStart!NoUnrelatedData, KeyHeld, ChangesOK, ConnectionKept, PodStart!Serving
<1>2. CASE PodStart!OpenWithKey \/ PodStart!CreateKey
  BY <1>2, StartKeyed DEF PodStart!OpenWithKey, PodStart!CreateKey
<1>3. CASE PodStart!Load
  BY <1>3, StartLoads DEF PodStart!Load
<1>4. CASE PodStart!Seed
  BY <1>4, StartSeeds
<1>5. CASE PodStart!OpenPostgres \/ PodStart!OpenSQLite
  BY <1>5, StartOpens DEF PodStart!OpenPostgres, PodStart!OpenSQLite
<1>6. CASE PodStart!Kill \/ \E d \in PodStart!Connections : PodStart!Deploy(d)
  <2>1. /\ server' = PodStart!Off /\ change' = [c \in Change |-> PodStart!Waiting]
        /\ environment' \in PodStart!Connections /\ reachable' \subseteq Dsn
        /\ UNCHANGED <<keyFile, sealed, chosen, keys>>
    BY <1>6 DEF PodStart!Kill, PodStart!Deploy, PodStart!Exit, StartInv, PodStart!TypeOK
  <2>. QED BY <2>1, StartStops
<1>7. CASE \E d \in Dsn : PodStart!NetworkChanges(d)
  <2>1. /\ reachable' \subseteq Dsn
        /\ UNCHANGED <<environment, keyFile, sealed, server, change, chosen, keys>>
    BY <1>7 DEF PodStart!NetworkChanges, StartInv, PodStart!TypeOK
  <2>. QED BY <2>1 DEF StartInv, PodStart!TypeOK, PodStart!SealedOpens,
       PodStart!NoUnrelatedData, KeyHeld, ChangesOK, ConnectionKept, PodStart!Serving
<1>8. ASSUME NEW c \in Change,
             PodStart!LoadValues(c) \/ \E d \in Dsn : PodStart!CheckPostgres(c, d)
      PROVE  StartInv' /\ (sealed.values.secret => sealed'.values.secret)
  <2>1. sealed' = sealed
    BY <1>8 DEF PodStart!LoadValues, PodStart!CheckPostgres
  <2>. QED BY <1>8, <2>1, StartChecks
<1>9. ASSUME NEW c \in Change, PodStart!SaveValues(c)
      PROVE  StartInv' /\ (sealed.values.secret => sealed'.values.secret)
  BY <1>9, StartSaves
<1>. QED BY <1>1, <1>2, <1>3, <1>4, <1>5, <1>6, <1>7, <1>8, <1>9 DEF PodStart!Next

(***************************************************************************)
(* cmd/invenqor-server/main.go, bootstrap/store.go: wherever a Pod died, its *)
(* next start opens what was sealed, never serves unrelated data, and two    *)
(* saves at once never drop the sealed secret.                               *)
(***************************************************************************)
THEOREM PodsStart == Spec => StartSafe
<1>1. Init => StartInv
  BY StartInitial DEF Init
<1>2. StartInv /\ [Next]_vars => StartInv' /\ (sealed.values.secret => sealed'.values.secret)
  BY PartsMove, StartStep
<1>3. StartInv => PodStart!SealedOpens /\ PodStart!NoUnrelatedData
  BY DEF StartInv
<1>4. StartInv /\ [Next]_vars => [sealed.values.secret => sealed'.values.secret]_PodStart!startVars
  BY <1>2
<1>. QED BY <1>1, <1>2, <1>3, <1>4, PTL DEF Spec, StartSafe, PodStart!StartSafe, PodStart!LegacySecretKept

-----------------------------------------------------------------------------
(***************************************************************************)
(* The migration of the schema (storage/migrate.go).                        *)
(***************************************************************************)

(* Only the Pod with the lock is at work, and what it found stays so.         *)
SessionOK(p) ==
  /\ session[p].step = "rest" => session[p] = Schema!Off
  /\ session[p].step # "rest" => advisory = p
  /\ session[p].step = "table" => session[p].absent = ~ tracking
  /\ session[p].step \in {"check", "run", "commit"} =>
       session[p].at \in 1 .. Bringing[p] + 1 /\ 1 .. session[p].at - 1 \subseteq applied
  /\ session[p].step \in {"run", "commit"} =>
       session[p].at <= Bringing[p] /\ session[p].at \notin applied

SchemaInv == Schema!TypeOK /\ SchemaSafe /\ \A p \in Pod : SessionOK(p)

Sessions == [step : {"rest", "table", "check", "run", "commit"},
             at : 0 .. Schema!Latest + 1, absent : BOOLEAN]

(* The modules count with the same operator.                                 *)
LEMMA SameCount ==
  ASSUME NEW S
  PROVE  /\ Schema!Cardinality(S) = Cardinality(S)
         /\ Recorder!Cardinality(S) = Cardinality(S)
         /\ Log!Cardinality(S) = Cardinality(S)
BY Zenon DEF Cardinality, Schema!Cardinality, Recorder!Cardinality, Log!Cardinality

(* No Pod brings more than the latest release has.                           *)
LEMMA NewestRelease ==
  /\ Schema!Latest \in Nat \ {0} /\ Cardinality(Pod) \in Nat \ {0}
  /\ \A p \in Pod : Bringing[p] \in Nat /\ Bringing[p] <= Schema!Latest
<1>. DEFINE all == {Bringing[p] : p \in Pod}
<1>1. all \subseteq {2, 3} /\ all # {} /\ \A p \in Pod : Bringing[p] \in all
  BY SchemaAssumption DEF Bringing
<1>. HIDE DEF all
<1>2. \E m \in all : \A n \in all : m >= n
  <2>1. CASE 3 \in all
    BY <1>1, <2>1
  <2>2. CASE 3 \notin all
    <3>1. 2 \in all /\ \A n \in all : n = 2
      BY <1>1, <2>2
    <3>. QED BY <3>1
  <2>. QED BY <2>1, <2>2
<1>3. Schema!Latest \in all /\ \A n \in all : Schema!Latest >= n
  BY <1>2 DEF Schema!Latest, Schema!Max, all
<1>4. Cardinality(Pod) \in Nat /\ Cardinality(Pod) # 0
  BY SchemaAssumption, FS_CardinalityType, FS_EmptySet
<1>5. Schema!Latest \in {2, 3} /\ \A p \in Pod : Bringing[p] \in {2, 3}
  BY <1>1, <1>3
<1>. QED BY <1>1, <1>3, <1>4, <1>5

LEMMA SchemaInitial ==
  ASSUME Schema!Init
  PROVE  SchemaInv
<1>1. Schema!Off \in Sessions /\ Schema!Off.step = "rest"
  BY NewestRelease DEF Schema!Off, Sessions
<1>2. PICK n \in 0 .. Schema!Latest : applied = 1 .. n
  BY DEF Schema!Init
<1>3. applied \subseteq Schema!Migration
  BY <1>2, NewestRelease DEF Schema!Migration
<1>4. effects \in [Schema!Migration -> 0 .. Cardinality(Pod)]
      /\ \A m \in Schema!Migration : effects[m] = IF m \in applied THEN 1 ELSE 0
  BY NewestRelease DEF Schema!Init
<1>5. Schema!TypeOK
  <2>1. /\ session \in [Pod -> Sessions] /\ tracking \in BOOLEAN /\ advisory \in Pod \cup {Absent}
        /\ serving \subseteq Pod /\ failed \subseteq Pod /\ kills \in 0 .. MaxKills
    BY <1>1, SchemaAssumption DEF Schema!Init
  <2>2. Schema!Cardinality(Pod) = Cardinality(Pod)
    BY SameCount
  <2>. QED BY <1>3, <1>4, <2>1, <2>2 DEF Schema!TypeOK, Sessions
<1>6. SchemaSafe
  BY <1>2, <1>4, NewestRelease
     DEF Schema!Init, SchemaSafe, Schema!SchemaSafe, Schema!NobodyFails, Schema!MigratedOnce
<1>. QED BY <1>1, <1>5, <1>6 DEF Schema!Init, SchemaInv, SessionOK

(* A step of one Pod, seen from the others: nothing happens to them, they     *)
(* have no lock.                                                              *)
SchemaMove(p) ==
  /\ session' \in [Pod -> Sessions] /\ \A q \in Pod : q # p => session'[q] = session[q]
  /\ applied \subseteq applied'
  /\ session[p].step # "rest" \/ advisory = Absent

LEMMA SchemaMoves ==
  ASSUME SchemaInv, NEW p \in Pod, SchemaMove(p), SessionOK(p)'
  PROVE  \A q \in Pod : SessionOK(q)'
<1>1. SUFFICES ASSUME NEW q \in Pod, q # p PROVE SessionOK(q)'
  OBVIOUS
<1>2. session'[q] = session[q] /\ SessionOK(q) /\ SessionOK(p)
  BY <1>1 DEF SchemaMove, SchemaInv
<1>3. session[q].step = "rest"
  BY <1>1, <1>2, SchemaAssumption DEF SchemaMove, SessionOK
<1>. QED BY <1>2, <1>3 DEF SessionOK

Opened(old, absent) == [old EXCEPT !.step = "table", !.absent = absent]
At(old, n) == [old EXCEPT !.step = "check", !.at = n]
Step(old, step) == [old EXCEPT !.step = step]

LEMMA OpenedTyped ==
  ASSUME NEW old \in Sessions, NEW absent \in BOOLEAN
  PROVE  /\ Opened(old, absent) \in Sessions /\ Opened(old, absent).step = "table"
         /\ Opened(old, absent).absent = absent
BY DEF Sessions, Opened

LEMMA AtTyped ==
  ASSUME NEW old \in Sessions, NEW n \in 0 .. Schema!Latest + 1
  PROVE  At(old, n) \in Sessions /\ At(old, n).step = "check" /\ At(old, n).at = n
BY DEF Sessions, At

LEMMA StepTyped ==
  ASSUME NEW old \in Sessions, NEW step \in {"check", "run", "commit"}
  PROVE  Step(old, step) \in Sessions /\ Step(old, step).step = step /\ Step(old, step).at = old.at
BY DEF Sessions, Step

LEMMA OffSession ==
  Schema!Off \in Sessions /\ Schema!Off.step = "rest"
BY NewestRelease DEF Schema!Off, Sessions

LEMMA SchemaLocks ==
  ASSUME SchemaInv, NEW p \in Pod, Schema!Lock(p)
  PROVE  SchemaInv'
<1>1. /\ Schema!TypeOK /\ session[p] = Schema!Off /\ advisory = Absent /\ advisory' = p
      /\ session' = [session EXCEPT ![p] = Opened(session[p], ~ tracking)]
      /\ session \in [Pod -> Sessions] /\ tracking \in BOOLEAN
      /\ UNCHANGED <<tracking, applied, effects, serving, failed, kills>>
  BY DEF Schema!Lock, SchemaInv, Schema!TypeOK, Sessions, Opened
<1>2. /\ session' \in [Pod -> Sessions] /\ session'[p].step = "table"
      /\ session'[p].absent = ~ tracking
      /\ \A q \in Pod : q # p => session'[q] = session[q]
  BY <1>1, OffSession, OpenedTyped
<1>3. SessionOK(p)' /\ SchemaMove(p)
  BY <1>1, <1>2 DEF SessionOK, SchemaMove
<1>4. Schema!TypeOK'
  BY <1>1, <1>2 DEF Schema!TypeOK, Sessions
<1>5. SchemaSafe'
  BY <1>1 DEF SchemaInv, SchemaSafe, Schema!SchemaSafe, Schema!NobodyFails, Schema!MigratedOnce
<1>. QED BY <1>3, <1>4, <1>5, SchemaMoves DEF SchemaInv

LEMMA SchemaTracks ==
  ASSUME SchemaInv, NEW p \in Pod, Schema!CreateTracking(p)
  PROVE  SchemaInv'
<1>1. /\ Schema!TypeOK /\ session[p].step = "table" /\ session[p].absent = ~ tracking
      /\ advisory = p /\ session \in [Pod -> Sessions] /\ tracking \in BOOLEAN
      /\ UNCHANGED <<applied, effects, serving, kills>>
  BY DEF Schema!CreateTracking, SchemaInv, SessionOK, Schema!TypeOK, Sessions
<1>2. /\ tracking' = TRUE /\ UNCHANGED <<advisory, failed>>
      /\ session' = [session EXCEPT ![p] = At(session[p], 1)]
  <2>1. ~ (session[p].absent /\ tracking)
    BY <1>1
  <2>. QED BY <1>1, <2>1 DEF Schema!CreateTracking, At, Sessions
<1>3. /\ session' \in [Pod -> Sessions] /\ session'[p].step = "check" /\ session'[p].at = 1
      /\ \A q \in Pod : q # p => session'[q] = session[q]
  <2>1. 1 \in 0 .. Schema!Latest + 1
    BY NewestRelease
  <2>. QED BY <1>1, <1>2, <2>1, AtTyped
<1>4. SessionOK(p)' /\ SchemaMove(p)
  BY <1>1, <1>2, <1>3, NewestRelease DEF SessionOK, SchemaMove
<1>5. Schema!TypeOK'
  BY <1>1, <1>2, <1>3 DEF Schema!TypeOK, Sessions
<1>6. SchemaSafe'
  BY <1>1, <1>2 DEF SchemaInv, SchemaSafe, Schema!SchemaSafe, Schema!NobodyFails,
     Schema!MigratedOnce
<1>. QED BY <1>4, <1>5, <1>6, SchemaMoves DEF SchemaInv

LEMMA SchemaChecks ==
  ASSUME SchemaInv, NEW p \in Pod, Schema!Check(p) \/ Schema!Run(p)
  PROVE  SchemaInv'
<1>1. /\ Schema!TypeOK /\ session \in [Pod -> Sessions] /\ session[p] \in Sessions
      /\ session[p].step \in {"check", "run"} /\ advisory = p
      /\ session[p].at \in 1 .. Bringing[p] + 1 /\ 1 .. session[p].at - 1 \subseteq applied
      /\ UNCHANGED <<tracking, applied, effects, advisory, serving, failed, kills>>
  BY DEF Schema!Check, Schema!Run, SchemaInv, SessionOK, Schema!TypeOK, Sessions
<1>2. ASSUME NEW new \in Sessions, session' = [session EXCEPT ![p] = new],
             new.step \in {"check", "run", "commit"},
             new.at \in 1 .. Bringing[p] + 1, 1 .. new.at - 1 \subseteq applied,
             new.step # "check" => new.at <= Bringing[p] /\ new.at \notin applied
      PROVE  SchemaInv'
  <2>1. /\ session' \in [Pod -> Sessions] /\ session'[p] = new
        /\ \A q \in Pod : q # p => session'[q] = session[q]
    BY <1>1, <1>2
  <2>2. SessionOK(p)'
    BY <1>1, <1>2, <2>1 DEF SessionOK
  <2>3. SchemaMove(p)
    BY <1>1, <2>1 DEF SchemaMove
  <2>4. Schema!TypeOK'
    BY <1>1, <2>1 DEF Schema!TypeOK, Sessions
  <2>5. SchemaSafe'
    BY <1>1 DEF SchemaInv, SchemaSafe, Schema!SchemaSafe, Schema!NobodyFails, Schema!MigratedOnce
  <2>. QED BY <2>2, <2>3, <2>4, <2>5, SchemaMoves DEF SchemaInv
<1>. DEFINE n == session[p].at
<1>3. /\ Bringing[p] \in Nat /\ Bringing[p] <= Schema!Latest /\ Schema!Latest \in Nat
      /\ n \in Nat /\ n + 1 \in 0 .. Schema!Latest + 2 /\ 1 .. n = (1 .. n - 1) \cup {n}
      /\ (n + 1) - 1 = n
  BY <1>1, NewestRelease
<1>4. CASE Schema!Check(p) /\ n \in applied
  <2>1. n <= Bringing[p] /\ session' = [session EXCEPT ![p] = [session[p] EXCEPT !.at = n + 1]]
    BY <1>4 DEF Schema!Check
  <2>2. session[p].step = "check"
    BY <1>4 DEF Schema!Check
  <2>. DEFINE new == [session[p] EXCEPT !.at = n + 1]
  <2>3. n + 1 \in 0 .. Schema!Latest + 1 /\ n + 1 \in 1 .. Bringing[p] + 1
    BY <1>1, <1>3, <2>1
  <2>4. new \in Sessions /\ new.step = "check" /\ new.at = n + 1
    BY <1>1, <2>2, <2>3 DEF Sessions
  <2>5. 1 .. (n + 1) - 1 \subseteq applied
    BY <1>1, <1>3, <1>4
  <2>. HIDE DEF new, n
  <2>. QED BY <1>2, <2>1, <2>3, <2>4, <2>5 DEF new
<1>5. CASE \/ Schema!Check(p) /\ n \notin applied
           \/ Schema!Run(p)
  <2>. DEFINE step == IF session[p].step = "check" THEN "run" ELSE "commit"
              new == Step(session[p], step)
  <2>1. session' = [session EXCEPT ![p] = new] /\ n <= Bringing[p] /\ n \notin applied
    BY <1>5 DEF Schema!Check, Schema!Run, Schema!Goto, Step, SchemaInv, SessionOK
  <2>2. new \in Sessions /\ new.step = step /\ new.at = n
    BY <1>1, StepTyped
  <2>. QED BY <1>1, <1>2, <2>1, <2>2
<1>. QED BY <1>4, <1>5

LEMMA SchemaCommits ==
  ASSUME SchemaInv, NEW p \in Pod, Schema!Commit(p)
  PROVE  SchemaInv'
<1>. DEFINE m == session[p].at
<1>1. /\ Schema!TypeOK /\ session \in [Pod -> Sessions] /\ session[p] \in Sessions
      /\ session[p].step = "commit" /\ advisory = p
      /\ m \in 1 .. Bringing[p] /\ m \notin applied /\ 1 .. m - 1 \subseteq applied
  <2>1. m \in 1 .. Bringing[p] + 1 /\ m <= Bringing[p]
    BY DEF Schema!Commit, SchemaInv, SessionOK
  <2>. QED BY <2>1, NewestRelease
           DEF Schema!Commit, SchemaInv, SessionOK, Schema!TypeOK, Sessions
<1>2. /\ applied' = applied \cup {m} /\ effects' = [effects EXCEPT ![m] = effects[m] + 1]
      /\ session' = [session EXCEPT ![p] = At(session[p], m + 1)]
      /\ UNCHANGED <<tracking, advisory, serving, failed, kills>>
  BY <1>1 DEF Schema!Commit, At, Sessions
<1>3. /\ Bringing[p] \in Nat /\ Bringing[p] <= Schema!Latest /\ Schema!Latest \in Nat
      /\ m \in Schema!Migration /\ m + 1 \in 0 .. Schema!Latest + 1 /\ m + 1 \in 1 .. Bringing[p] + 1
      /\ 1 .. m = (1 .. m - 1) \cup {m} /\ (m + 1) - 1 = m
  BY <1>1, NewestRelease DEF Schema!Migration
<1>4. /\ session' \in [Pod -> Sessions] /\ session'[p].step = "check" /\ session'[p].at = m + 1
      /\ \A q \in Pod : q # p => session'[q] = session[q]
  BY <1>1, <1>2, <1>3, AtTyped
<1>. HIDE DEF m
<1>5. SessionOK(p)' /\ SchemaMove(p)
  BY <1>1, <1>2, <1>3, <1>4 DEF SessionOK, SchemaMove
<1>6. /\ \A i \in Schema!Migration : effects[i] = IF i \in applied THEN 1 ELSE 0
      /\ effects \in [Schema!Migration -> 0 .. Cardinality(Pod)]
      /\ \A i \in applied : 1 .. i \subseteq applied
      /\ \A q \in serving : 1 .. Bringing[q] \subseteq applied
      /\ applied \subseteq Schema!Migration /\ failed = {}
  BY <1>1, SameCount DEF SchemaInv, SchemaSafe, Schema!SchemaSafe, Schema!MigratedOnce,
     Schema!NobodyFails, Schema!TypeOK
<1>7. effects[m] + 1 = 1
  BY <1>1, <1>3, <1>6
<1>8. effects' \in [Schema!Migration -> 0 .. Cardinality(Pod)]
      /\ \A i \in Schema!Migration : effects'[i] = IF i \in applied' THEN 1 ELSE 0
  BY <1>2, <1>3, <1>6, <1>7, NewestRelease
<1>9. Schema!TypeOK'
  <2>1. Schema!Cardinality(Pod) = Cardinality(Pod)
    BY SameCount
  <2>. QED BY <1>1, <1>2, <1>3, <1>4, <1>6, <1>8, <2>1 DEF Schema!TypeOK, Sessions
<1>10. SchemaSafe'
  BY <1>1, <1>2, <1>3, <1>6, <1>8
     DEF SchemaSafe, Schema!SchemaSafe, Schema!MigratedOnce, Schema!NobodyFails
<1>. QED BY <1>5, <1>9, <1>10, SchemaMoves DEF SchemaInv

LEMMA SchemaEnds ==
  ASSUME SchemaInv, NEW p \in Pod, Schema!Serve(p) \/ Schema!Kill(p) \/ Schema!Expire(p)
  PROVE  SchemaInv'
<1>1. /\ Schema!TypeOK /\ session \in [Pod -> Sessions] /\ SessionOK(p)
      /\ session' = [session EXCEPT ![p] = Schema!Off]
      /\ Schema!Unlock(p) /\ kills' \in 0 .. MaxKills
      /\ UNCHANGED <<tracking, applied, effects, failed>>
  <2>1. kills \in 0 .. MaxKills
    BY DEF SchemaInv, Schema!TypeOK
  <2>. QED BY <2>1, SchemaAssumption
           DEF Schema!Serve, Schema!Kill, Schema!Expire, SchemaInv, Schema!TypeOK, Sessions
<1>2. /\ session' \in [Pod -> Sessions] /\ session'[p] = Schema!Off
      /\ \A q \in Pod : q # p => session'[q] = session[q]
  BY <1>1, OffSession
<1>3. \A q \in Pod : SessionOK(q)'
  <2>1. SessionOK(p)'
    BY <1>2, OffSession DEF SessionOK
  <2>2. ASSUME NEW q \in Pod, q # p PROVE SessionOK(q)'
    BY <1>1, <1>2, <2>2 DEF SchemaInv, SessionOK, Schema!Unlock
  <2>. QED BY <2>1, <2>2
<1>4. serving' \subseteq Pod /\ \A q \in serving' : 1 .. Bringing[q] \subseteq applied
  <2>1. serving \subseteq Pod /\ \A q \in serving : 1 .. Bringing[q] \subseteq applied
    BY DEF SchemaInv, Schema!TypeOK, SchemaSafe, Schema!SchemaSafe, Schema!MigratedOnce
  <2>2. CASE Schema!Kill(p)
    BY <2>1, <2>2 DEF Schema!Kill
  <2>4. CASE Schema!Expire(p)
    BY <2>1, <2>4 DEF Schema!Expire
  <2>3. CASE Schema!Serve(p)
    <3>1. session[p].step = "check" /\ session[p].at > Bringing[p] /\ serving' = serving \cup {p}
      BY <2>3 DEF Schema!Serve
    <3>2. session[p].at \in 1 .. Bringing[p] + 1 /\ 1 .. session[p].at - 1 \subseteq applied
      BY <1>1, <3>1 DEF SessionOK
    <3>3. session[p].at - 1 = Bringing[p]
      BY <3>1, <3>2, NewestRelease
    <3>. QED BY <2>1, <3>1, <3>2, <3>3
  <2>. QED BY <2>2, <2>3, <2>4
<1>5. Schema!TypeOK'
  BY <1>1, <1>2, <1>4 DEF Schema!TypeOK, Schema!Unlock, Sessions
<1>6. SchemaSafe'
  BY <1>1, <1>4 DEF SchemaInv, SchemaSafe, Schema!SchemaSafe, Schema!NobodyFails,
     Schema!MigratedOnce
<1>. QED BY <1>3, <1>5, <1>6 DEF SchemaInv

LEMMA SchemaStep ==
  ASSUME SchemaInv, [Schema!Next]_ofSchema
  PROVE  SchemaInv'
<1>1. CASE UNCHANGED ofSchema
  BY <1>1 DEF ofSchema, SchemaInv, Schema!TypeOK, SessionOK, SchemaSafe, Schema!SchemaSafe,
     Schema!NobodyFails, Schema!MigratedOnce
<1>2. CASE Schema!Next
  BY Zenon, <1>2, SchemaLocks, SchemaTracks, SchemaChecks, SchemaCommits, SchemaEnds
     DEF Schema!Next
<1>. QED BY <1>1, <1>2

(***************************************************************************)
(* storage/migrate.go: however many Pods start together and are killed or run *)
(* out of time on the way, no Pod's statement is refused for another's, each  *)
(* migration takes effect once and a Pod serves only a schema that has all of *)
(* its release.                                                              *)
(***************************************************************************)
THEOREM SchemaMigrated == Spec => []SchemaSafe
<1>1. Init => SchemaInv
  BY SchemaInitial DEF Init
<1>2. SchemaInv /\ [Next]_vars => SchemaInv'
  BY PartsMove, SchemaStep
<1>3. SchemaInv => SchemaSafe
  BY DEF SchemaInv
<1>. QED BY <1>1, <1>2, <1>3, PTL DEF Spec

-----------------------------------------------------------------------------
(***************************************************************************)
(* The staging files of the spool (spool/spool.go).                         *)
(***************************************************************************)

(* A stage is young until its writer has the lock, and the writer keeps it.   *)
StageOK(p) ==
  /\ appender[p] = "new" => ~ stage[p].there /\ ~ stage[p].old /\ stage[p].lockedBy = "none"
  /\ appender[p] = "lock" => stage[p].there /\ ~ stage[p].old /\ stage[p].lockedBy = "none"
  /\ appender[p] \in {"write", "close"} => stage[p].there /\ stage[p].lockedBy = p
  /\ stage[p].lockedBy = p => appender[p] \in {"write", "close"}
  /\ appender[p] \in {"close", "link", "remove", "appended"} => stage[p].whole
  /\ appender[p] \in {"remove", "appended"} => segment # "none"

(* A cleanup removes only what no call is still writing.                      *)
CleanerOK(c) ==
  cleaner[c].step \in {"unlock", "remove"} =>
    /\ cleaner[c].file \in Appender
    /\ appender[cleaner[c].file] \in {"link", "remove", "appended", "failed", "dead"}

StagingInv ==
  /\ Staging!TypeOK
  /\ \A p \in Appender : StageOK(p)
  /\ \A c \in Cleaner : CleanerOK(c)
  /\ segment # "none" => stage[segment].whole

Stages == [there : BOOLEAN, old : BOOLEAN, whole : BOOLEAN,
           lockedBy : {"none"} \cup Appender \cup Cleaner]
Cleaners == [step : {"rest", "clean", "unlock", "remove"},
             listed : SUBSET Appender, file : {"none"} \cup Appender]
AppenderSteps == {"new", "lock", "write", "close", "link", "remove", "appended", "failed", "dead"}

LEMMA StagingIsSafe ==
  ASSUME StagingInv
  PROVE  StagingSafe
BY DEF StagingInv, StageOK, StagingSafe, Staging!StagingSafe, Staging!WriterKeepsStage,
   Staging!AcceptedIsSpooled

LEMMA StagingInitial ==
  ASSUME Staging!Init
  PROVE  StagingInv
BY StagingAssumption DEF Staging!Init, Staging!Idle, StagingInv, Staging!TypeOK, StageOK, CleanerOK

(* One call of Append moves; its stage and the segment may change.            *)
AppendMove(p) ==
  /\ stage' \in [Appender -> Stages] /\ appender' \in [Appender -> AppenderSteps]
  /\ \A q \in Appender : q # p => stage'[q] = stage[q] /\ appender'[q] = appender[q]
  /\ stage[p].whole => stage'[p].whole
  /\ appender[p] \in {"link", "remove", "appended", "failed", "dead"}
       => appender'[p] \in {"link", "remove", "appended", "failed", "dead"}
  /\ cleaner' = cleaner
  /\ segment' = segment \/ (segment = "none" /\ segment' = p /\ stage'[p].whole)

LEMMA AppendMoves ==
  ASSUME StagingInv, NEW p \in Appender, AppendMove(p), StageOK(p)'
  PROVE  StagingInv'
<1>1. \A q \in Appender : StageOK(q)'
  BY StagingAssumption DEF StagingInv, AppendMove, StageOK
<1>2. \A c \in Cleaner : CleanerOK(c)'
  BY DEF StagingInv, AppendMove, CleanerOK
<1>3. Staging!TypeOK'
  BY DEF StagingInv, AppendMove, Staging!TypeOK, Stages, AppenderSteps
<1>4. segment' # "none" => stage'[segment'].whole
  BY DEF StagingInv, AppendMove, Staging!TypeOK
<1>. QED BY <1>1, <1>2, <1>3, <1>4 DEF StagingInv

LEMMA StagingAppends ==
  ASSUME StagingInv, NEW p \in Appender,
         \/ Staging!Create(p) \/ Staging!Lock(p) \/ Staging!Write(p) \/ Staging!Close(p)
         \/ Staging!Link(p) \/ Staging!RemoveStage(p) \/ Staging!Fail(p) \/ Staging!Age(p)
  PROVE  StagingInv'
<1>1. /\ stage \in [Appender -> Stages] /\ appender \in [Appender -> AppenderSteps]
      /\ segment \in {"none"} \cup Appender
      /\ stage[p] \in Stages /\ StageOK(p) /\ "none" \notin Appender
  BY StagingAssumption DEF StagingInv, Staging!TypeOK, Stages, AppenderSteps
<1>2. CASE Staging!Create(p)
  <2>1. AppendMove(p) /\ StageOK(p)'
    BY <1>1, <1>2 DEF Staging!Create, Staging!To, AppendMove, StageOK, Stages, AppenderSteps
  <2>. QED BY <2>1, AppendMoves
<1>3. CASE Staging!Lock(p)
  <2>1. AppendMove(p) /\ StageOK(p)'
    BY <1>1, <1>3 DEF Staging!Lock, Staging!To, AppendMove, StageOK, Stages, AppenderSteps
  <2>. QED BY <2>1, AppendMoves
<1>4. CASE Staging!Write(p)
  <2>1. AppendMove(p) /\ StageOK(p)'
    BY <1>1, <1>4 DEF Staging!Write, Staging!To, AppendMove, StageOK, Stages, AppenderSteps
  <2>. QED BY <2>1, AppendMoves
<1>5. CASE Staging!Close(p)
  <2>1. AppendMove(p) /\ StageOK(p)'
    BY <1>1, <1>5 DEF Staging!Close, Staging!To, AppendMove, StageOK, Stages, AppenderSteps
  <2>. QED BY <2>1, AppendMoves
<1>6. CASE Staging!Link(p)
  <2>1. AppendMove(p) /\ StageOK(p)'
    BY <1>1, <1>6 DEF Staging!Link, Staging!To, AppendMove, StageOK, Stages, AppenderSteps
  <2>. QED BY <2>1, AppendMoves
<1>7. CASE Staging!RemoveStage(p)
  <2>1. AppendMove(p) /\ StageOK(p)'
    BY <1>1, <1>7 DEF Staging!RemoveStage, Staging!To, AppendMove, StageOK, Stages, AppenderSteps
  <2>. QED BY <2>1, AppendMoves
<1>8. CASE Staging!Fail(p)
  <2>1. /\ appender' \in [Appender -> AppenderSteps] /\ appender'[p] \in {"failed", "dead"}
        /\ stage' \in [Appender -> Stages] /\ stage'[p].lockedBy # p
        /\ stage'[p].whole = stage[p].whole /\ UNCHANGED <<cleaner, segment>>
        /\ \A q \in Appender : q # p => stage'[q] = stage[q] /\ appender'[q] = appender[q]
    <3>1. CASE /\ Staging!To(p, "failed")
               /\ stage' = [stage EXCEPT ![p].there = FALSE, ![p].lockedBy = "none"]
      BY <1>1, <1>8, <3>1 DEF Staging!Fail, Staging!To, Stages, AppenderSteps
    <3>2. CASE /\ Staging!To(p, "dead")
               /\ stage' = [stage EXCEPT ![p].lockedBy = IF @ = p THEN "none" ELSE @]
      BY <1>1, <1>8, <3>2 DEF Staging!Fail, Staging!To, Stages, AppenderSteps
    <3>. QED BY <1>8, <3>1, <3>2 DEF Staging!Fail
  <2>2. AppendMove(p) /\ StageOK(p)'
    BY <1>1, <2>1 DEF AppendMove, StageOK
  <2>. QED BY <2>2, AppendMoves
<1>9. CASE Staging!Age(p)
  <2>1. AppendMove(p) /\ StageOK(p)'
    BY <1>1, <1>9 DEF Staging!Age, AppendMove, StageOK, Stages, AppenderSteps
  <2>. QED BY <2>1, AppendMoves
<1>. QED BY <1>2, <1>3, <1>4, <1>5, <1>6, <1>7, <1>8, <1>9

(* A cleanup moves: it takes or frees the lock of one stage, and removes it    *)
(* when no call is writing it.                                                *)
CleanMove(c) ==
  /\ stage' \in [Appender -> Stages] /\ cleaner' \in [Cleaner -> Cleaners]
  /\ UNCHANGED <<appender, segment>>
  /\ \A d \in Cleaner : d # c => cleaner'[d] = cleaner[d]
  /\ \A p \in Appender :
       /\ stage'[p].old = stage[p].old /\ stage'[p].whole = stage[p].whole
       /\ appender[p] \in {"new", "lock", "write", "close"} =>
            stage'[p].there = stage[p].there /\ stage'[p].lockedBy = stage[p].lockedBy
       /\ stage'[p].lockedBy = p => stage[p].lockedBy = p

LEMMA CleanMoves ==
  ASSUME StagingInv, NEW c \in Cleaner, CleanMove(c), CleanerOK(c)'
  PROVE  StagingInv'
<1>1. ASSUME NEW p \in Appender PROVE StageOK(p)'
  BY DEF StagingInv, CleanMove, StageOK
<1>2. \A d \in Cleaner : CleanerOK(d)'
  BY DEF StagingInv, CleanMove, CleanerOK
<1>3. Staging!TypeOK'
  BY DEF StagingInv, CleanMove, Staging!TypeOK, Stages, Cleaners
<1>4. segment' # "none" => stage'[segment'].whole
  BY DEF StagingInv, CleanMove, Staging!TypeOK
<1>. QED BY <1>1, <1>2, <1>3, <1>4 DEF StagingInv

LEMMA StagingCleans ==
  ASSUME StagingInv, NEW c \in Cleaner,
         \/ Staging!List(c) \/ Staging!Unlock(c) \/ Staging!Clean(c) \/ Staging!Opened(c)
         \/ \E p \in Appender : Staging!Take(c, p)
  PROVE  StagingInv'
<1>1. /\ stage \in [Appender -> Stages] /\ cleaner \in [Cleaner -> Cleaners]
      /\ cleaner[c] \in Cleaners /\ CleanerOK(c) /\ (\A p \in Appender : StageOK(p))
      /\ \A p \in Appender : p # "none" /\ p # c
  BY StagingAssumption DEF StagingInv, Staging!TypeOK, Stages, Cleaners
<1>2. CASE Staging!List(c)
  <2>1. CleanMove(c) /\ CleanerOK(c)'
    BY <1>1, <1>2 DEF Staging!List, CleanMove, CleanerOK, Stages, Cleaners
  <2>. QED BY <2>1, CleanMoves
<1>3. CASE Staging!Unlock(c)
  <2>. DEFINE f == cleaner[c].file
  <2>1. /\ f \in Appender /\ appender[f] \in {"link", "remove", "appended", "failed", "dead"}
        /\ cleaner[c].step = "unlock"
    BY <1>1, <1>3 DEF Staging!Unlock, CleanerOK
  <2>2. /\ cleaner' \in [Cleaner -> Cleaners] /\ cleaner'[c].file = f
        /\ \A d \in Cleaner : d # c => cleaner'[d] = cleaner[d]
    BY <1>1, <1>3 DEF Staging!Unlock, Cleaners
  <2>3. /\ stage' = [stage EXCEPT ![f].lockedBy = "none"] /\ UNCHANGED <<appender, segment>>
    BY <1>3 DEF Staging!Unlock
  <2>. HIDE DEF f
  <2>4. CleanMove(c)
    BY <1>1, <2>1, <2>2, <2>3 DEF CleanMove, Stages
  <2>5. CleanerOK(c)'
    BY <2>1, <2>2, <2>3 DEF CleanerOK
  <2>. QED BY <2>4, <2>5, CleanMoves
<1>4. CASE Staging!Clean(c)
  <2>1. CleanMove(c) /\ CleanerOK(c)'
    BY <1>1, <1>4 DEF Staging!Clean, CleanMove, CleanerOK, Stages, Cleaners
  <2>. QED BY <2>1, CleanMoves
<1>5. CASE Staging!Opened(c)
  <2>1. /\ cleaner' \in [Cleaner -> Cleaners] /\ cleaner'[c].step = "rest"
        /\ \A d \in Cleaner : d # c => cleaner'[d] = cleaner[d]
        /\ UNCHANGED <<appender, segment>>
    BY <1>1, <1>5 DEF Staging!Opened, Staging!Idle, Cleaners
  <2>2. stage' \in [Appender -> Stages]
    BY <1>1, <1>5 DEF Staging!Opened, Stages
  <2>3. \A p \in Appender :
          /\ stage'[p].there = stage[p].there /\ stage'[p].old = stage[p].old
          /\ stage'[p].whole = stage[p].whole
          /\ stage[p].lockedBy # c => stage'[p].lockedBy = stage[p].lockedBy
          /\ stage[p].lockedBy = c => stage'[p].lockedBy = "none"
    BY <1>1, <1>5 DEF Staging!Opened, Stages
  <2>4. CleanMove(c)
    BY <1>1, <2>1, <2>2, <2>3 DEF CleanMove, StageOK
  <2>5. CleanerOK(c)'
    BY <2>1 DEF CleanerOK
  <2>. QED BY <2>4, <2>5, CleanMoves
<1>6. ASSUME NEW p \in Appender, Staging!Take(c, p) PROVE StagingInv'
  <2>. DEFINE taken == stage[p].there /\ stage[p].old /\ stage[p].lockedBy = "none"
  <2>1. /\ cleaner[c].step = "clean" /\ UNCHANGED <<appender, segment>>
        /\ cleaner' = [cleaner EXCEPT ![c].listed = @ \ {p},
             ![c].step = IF taken THEN "unlock" ELSE @, ![c].file = IF taken THEN p ELSE @]
        /\ stage' = IF taken THEN [stage EXCEPT ![p].lockedBy = c] ELSE stage
    BY <1>6 DEF Staging!Take
  <2>2. CASE taken
    <3>1. /\ cleaner' \in [Cleaner -> Cleaners] /\ cleaner'[c].file = p
          /\ \A d \in Cleaner : d # c => cleaner'[d] = cleaner[d]
      BY <1>1, <2>1, <2>2 DEF Cleaners
    <3>2. appender[p] \in {"link", "remove", "appended", "failed", "dead"}
      <4>1. appender[p] \in AppenderSteps
        BY DEF StagingInv, Staging!TypeOK, AppenderSteps
      <4>. QED BY <1>1, <2>2, <4>1 DEF StageOK, AppenderSteps
    <3>3. stage' = [stage EXCEPT ![p].lockedBy = c]
      BY <2>1, <2>2
    <3>4. CleanMove(c)
      BY <1>1, <2>1, <3>1, <3>2, <3>3 DEF CleanMove, Stages
    <3>5. CleanerOK(c)'
      BY <2>1, <3>1, <3>2 DEF CleanerOK
    <3>. QED BY <3>4, <3>5, CleanMoves
  <2>3. CASE ~ taken
    <3>1. /\ cleaner' \in [Cleaner -> Cleaners] /\ cleaner'[c].step = "clean"
          /\ \A d \in Cleaner : d # c => cleaner'[d] = cleaner[d]
      BY <1>1, <2>1, <2>3 DEF Cleaners
    <3>2. stage' = stage
      BY <2>1, <2>3
    <3>3. CleanMove(c) /\ CleanerOK(c)'
      BY <1>1, <2>1, <3>1, <3>2 DEF CleanMove, CleanerOK
    <3>. QED BY <3>3, CleanMoves
  <2>. QED BY <2>2, <2>3
<1>. QED BY <1>2, <1>3, <1>4, <1>5, <1>6

LEMMA StagingStep ==
  ASSUME StagingInv, [Staging!Next]_ofStaging
  PROVE  StagingInv'
<1>1. CASE UNCHANGED ofStaging
  BY <1>1 DEF ofStaging, StagingInv, Staging!TypeOK, StageOK, CleanerOK
<1>2. CASE Staging!Next
  BY Zenon, <1>2, StagingAppends, StagingCleans DEF Staging!Next
<1>. QED BY <1>1, <1>2

(***************************************************************************)
(* spool/spool.go: an event whose Append was acknowledged is in the spool,   *)
(* whole, whatever the cleanups of the other Pods and however slow a writer. *)
(***************************************************************************)
THEOREM AppendedIsSpooled == Spec => []StagingSafe
<1>1. Init => StagingInv
  BY StagingInitial DEF Init
<1>2. StagingInv /\ [Next]_vars => StagingInv'
  BY PartsMove, StagingStep
<1>. QED BY <1>1, <1>2, StagingIsSafe, PTL DEF Spec

-----------------------------------------------------------------------------
(***************************************************************************)
(* The mail notifications and their settings (mail/service.go).             *)
(***************************************************************************)

(* Until a delivery is over, every message the relay took was one of which the *)
(* Server saw an error, except perhaps that of its last attempt.               *)
DeliveryOK(d) ==
  /\ sender[d].step = "new" => sender[d].attempts = 0 /\ entry[d] = "none"
  /\ lost[d] <= accepted[d] /\ accepted[d] <= sender[d].attempts
  /\ sender[d].step = "send" => /\ accepted[d] = lost[d] /\ sender[d].attempts <= 1
                                /\ entry[d] \in {"none", "queued"}
  /\ sender[d].step = "done" => /\ entry[d] \in {"none", "queued"}
                                /\ sender[d].error => accepted[d] = lost[d]
                                /\ ~ sender[d].error => accepted[d] > 0
  /\ entry[d] = "sent"   => accepted[d] > 0
  /\ entry[d] = "failed" => accepted[d] = lost[d]
  /\ accepted[d] = 2 => lost[d] > 0

MailInv ==
  /\ Mailer!TypeOK
  /\ ~ mixed => Mailer!Valid(config)
  /\ \A s \in Saver : saver[s].step = "save" => Mailer!Valid(saver[s].after)
  /\ \A d \in Delivery : DeliveryOK(d)

Savers == [step : {"rest", "save"}, patch : Mailer!Patches, after : Mailer!Configs]
Senders == [step : {"new", "send", "done", "over"}, attempts : 0 .. 2, error : BOOLEAN]
Entries == {"none", "queued", "sent", "failed"}

LEMMA MailIsSafe ==
  ASSUME MailInv
  PROVE  MailSafe
BY DEF MailInv, DeliveryOK, MailSafe, Mailer!MailSafe, Mailer!LogIsTrue,
   Mailer!TwiceOnlyAfterLoss, Mailer!StoredTogether

LEMMA RestTyped ==
  Mailer!Rest \in Savers /\ Mailer!Rest.step = "rest"
BY DEF Mailer!Rest, Savers, Mailer!Patches, Mailer!Configs

LEMMA MailInitial ==
  ASSUME Mailer!Init
  PROVE  MailInv
<1>1. Mailer!TypeOK
  <2>1. saver \in [Saver -> Savers]
    BY RestTyped DEF Mailer!Init
  <2>2. config \in Mailer!Configs
    BY DEF Mailer!Init, Mailer!Configs
  <2>3. saves \in 0 .. MaxSaves
    BY MailAssumption DEF Mailer!Init
  <2>4. mixed \in BOOLEAN
    BY Zenon DEF Mailer!Init
  <2>. QED BY <2>1, <2>2, <2>3, <2>4 DEF Mailer!Init, Mailer!TypeOK, Savers
<1>2. \A s \in Saver : saver[s].step = "rest"
  BY RestTyped DEF Mailer!Init
<1>3. \A d \in Delivery : DeliveryOK(d)
  BY DEF Mailer!Init, DeliveryOK
<1>. QED BY <1>1, <1>2, <1>3 DEF Mailer!Init, MailInv, Mailer!Valid

(* A saved setting is a validated one.                                        *)
LEMMA PatchedTyped ==
  ASSUME NEW c \in Mailer!Configs, NEW patch \in Mailer!Patches
  PROVE  Mailer!Patched(c, patch) \in Mailer!Configs
<1>1. /\ c.enabled \in BOOLEAN /\ c.host \in BOOLEAN /\ c.password \in Secret \cup {Nothing}
      /\ patch.enabled # Nothing => patch.enabled \in BOOLEAN
      /\ patch.host # Nothing => patch.host \in BOOLEAN
      /\ patch.password \in Secret \cup {Nothing, ""}
  BY DEF Mailer!Configs, Mailer!Patches
<1>. QED BY <1>1 DEF Mailer!Patched, Mailer!Configs

LEMMA MailConfigures ==
  ASSUME MailInv, NEW s \in Saver,
         (\E patch \in Mailer!Patches : Mailer!LoadConfig(s, patch)) \/ Mailer!SaveConfig(s)
  PROVE  MailInv'
<1>1. /\ Mailer!TypeOK /\ config \in Mailer!Configs /\ saver \in [Saver -> Savers]
      /\ saver[s] \in Savers /\ saves \in 0 .. MaxSaves
      /\ UNCHANGED <<entry, sender, accepted, lost>>
  BY DEF MailInv, Mailer!TypeOK, Savers, Mailer!LoadConfig, Mailer!SaveConfig
<1>2. \A d \in Delivery : DeliveryOK(d)'
  BY <1>1 DEF MailInv, DeliveryOK
<1>3. ASSUME NEW patch \in Mailer!Patches, Mailer!LoadConfig(s, patch)
      PROVE  MailInv'
  <2>. DEFINE after == Mailer!Patched(config, patch)
              new == [step |-> "save", patch |-> patch, after |-> after]
  <2>1. /\ Mailer!Valid(after) /\ saver' = [saver EXCEPT ![s] = new] /\ config' = config /\ mixed' = mixed
        /\ saves < MaxSaves /\ saves' = saves + 1
    BY <1>3 DEF Mailer!LoadConfig
  <2>2. after \in Mailer!Configs
    BY <1>1, PatchedTyped
  <2>. HIDE DEF after
  <2>3. new \in Savers /\ new.step = "save" /\ new.after = after
    BY <2>2 DEF Savers
  <2>. HIDE DEF new
  <2>4. /\ saver' \in [Saver -> Savers] /\ saver'[s] = new /\ saves' \in 0 .. MaxSaves
        /\ \A q \in Saver : q # s => saver'[q] = saver[q]
    BY <1>1, <2>1, <2>3, MailAssumption
  <2>5. Mailer!TypeOK'
    BY <1>1, <2>1, <2>4 DEF Mailer!TypeOK, Savers
  <2>6. \A q \in Saver : saver'[q].step = "save" => Mailer!Valid(saver'[q].after)
    BY <2>1, <2>3, <2>4 DEF MailInv
  <2>7. (~ mixed => Mailer!Valid(config))' /\ \A q \in Saver : saver'[q].step = "save" => Mailer!Valid(saver[q].after)'
    BY <2>1, <2>6 DEF MailInv, Mailer!Valid
  <2>. QED BY <1>2, <2>5, <2>7 DEF MailInv
<1>4. CASE Mailer!SaveConfig(s)
  <2>. DEFINE pw == IF saver[s].patch.password = Nothing THEN config.password
                    ELSE saver[s].after.password
  <2>1. /\ saver[s].step = "save" /\ config' = [saver[s].after EXCEPT !.password = pw]
        /\ saver' = [saver EXCEPT ![s] = Mailer!Rest] /\ saves' = saves /\ mixed' = FALSE
    BY <1>4 DEF Mailer!SaveConfig
  <2>2. pw \in Secret \cup {Nothing} /\ saver[s].after \in Mailer!Configs
    BY <1>1 DEF Savers, Mailer!Configs
  <2>. HIDE DEF pw
  <2>3. /\ config' \in Mailer!Configs /\ config'.enabled = saver[s].after.enabled
        /\ config'.host = saver[s].after.host
    BY <2>1, <2>2 DEF Mailer!Configs
  <2>4. /\ saver' \in [Saver -> Savers] /\ saver'[s].step = "rest"
        /\ \A q \in Saver : q # s => saver'[q] = saver[q]
    BY <1>1, <2>1, RestTyped
  <2>5. Mailer!TypeOK'
    BY <1>1, <2>1, <2>3, <2>4 DEF Mailer!TypeOK, Savers
  <2>6. Mailer!Valid(config)'
    BY <2>1, <2>3 DEF MailInv, Mailer!Valid
  <2>7. \A q \in Saver : saver'[q].step = "save" => Mailer!Valid(saver[q].after)'
    BY <2>4 DEF MailInv, Mailer!Valid
  <2>. QED BY <1>2, <2>5, <2>6, <2>7 DEF MailInv
<1>. QED BY <1>3, <1>4

LEMMA MailMixes ==
  ASSUME MailInv, NEW next \in Mailer!Configs, Mailer!ChangeRows(next)
  PROVE  MailInv'
<1>1. /\ Mailer!TypeOK /\ saves \in 0 .. MaxSaves /\ saves < MaxSaves /\ saves' = saves + 1
      /\ config' = next /\ mixed' = TRUE /\ UNCHANGED <<saver, entry, sender, accepted, lost>>
  BY DEF MailInv, Mailer!TypeOK, Mailer!ChangeRows
<1>2. Mailer!TypeOK'
  BY <1>1, MailAssumption DEF Mailer!TypeOK
<1>3. \A d \in Delivery : DeliveryOK(d)'
  BY <1>1 DEF MailInv, DeliveryOK
<1>4. \A s \in Saver : saver'[s].step = "save" => Mailer!Valid(saver[s].after)'
  BY <1>1 DEF MailInv, Mailer!Valid
<1>. QED BY <1>1, <1>2, <1>3, <1>4 DEF MailInv

(* One delivery moves.                                                        *)
LEMMA MailMoves ==
  ASSUME MailInv, NEW d \in Delivery, UNCHANGED <<config, saver, saves, mixed>>,
         entry' \in [Delivery -> Entries], sender' \in [Delivery -> Senders],
         accepted' \in [Delivery -> 0 .. 2], lost' \in [Delivery -> 0 .. 2],
         \A e \in Delivery : e # d => /\ entry'[e] = entry[e] /\ sender'[e] = sender[e]
                                      /\ accepted'[e] = accepted[e] /\ lost'[e] = lost[e],
         DeliveryOK(d)'
  PROVE  MailInv'
<1>1. Mailer!TypeOK'
  BY DEF MailInv, Mailer!TypeOK, Senders, Entries
<1>2. ASSUME NEW e \in Delivery PROVE DeliveryOK(e)'
  BY DEF MailInv, DeliveryOK
<1>. QED BY <1>1, <1>2 DEF MailInv, Mailer!Valid

LEMMA MailTypes ==
  ASSUME MailInv, NEW d \in Delivery
  PROVE  /\ Mailer!TypeOK /\ entry \in [Delivery -> Entries] /\ sender \in [Delivery -> Senders]
         /\ accepted \in [Delivery -> 0 .. 2] /\ lost \in [Delivery -> 0 .. 2]
         /\ sender[d] \in Senders /\ entry[d] \in Entries /\ DeliveryOK(d)
         /\ accepted[d] \in 0 .. 2 /\ lost[d] \in 0 .. 2
BY DEF MailInv, Mailer!TypeOK, Senders, Entries

SentOnce(old) == [old EXCEPT !.step = "send", !.attempts = 1]

LEMMA SentOnceTyped ==
  ASSUME NEW old \in Senders
  PROVE  SentOnce(old) \in Senders /\ SentOnce(old).step = "send" /\ SentOnce(old).attempts = 1
<1>1. ASSUME NEW r \in Senders
      PROVE  [r EXCEPT !.step = "send"] \in Senders /\ [r EXCEPT !.attempts = 1] \in Senders
  BY DEF Senders
<1>2. [[old EXCEPT !.step = "send"] EXCEPT !.attempts = 1] \in Senders
  BY Zenon, <1>1
<1>3. [[old EXCEPT !.step = "send"] EXCEPT !.attempts = 1] = SentOnce(old)
  BY DEF Senders, SentOnce
<1>4. SentOnce(old).step = "send" /\ SentOnce(old).attempts = 1
  BY DEF Senders, SentOnce
<1>. QED BY <1>2, <1>3, <1>4

LEMMA MailBegins ==
  ASSUME MailInv, NEW d \in Delivery, Mailer!Notify(d) \/ Mailer!SendNow(d)
  PROVE  MailInv'
<1>1. /\ entry \in [Delivery -> Entries] /\ sender \in [Delivery -> Senders]
      /\ accepted \in [Delivery -> 0 .. 2] /\ lost \in [Delivery -> 0 .. 2]
      /\ sender[d] \in Senders /\ DeliveryOK(d)
      /\ accepted[d] \in 0 .. 2 /\ lost[d] \in 0 .. 2
  BY MailTypes
<1>2. /\ sender[d].step = "new" /\ Mailer!Record(d)
      /\ UNCHANGED <<config, saver, saves, mixed, accepted, lost>>
  BY DEF Mailer!Notify, Mailer!SendNow
<1>3. /\ entry' \in [Delivery -> Entries] /\ entry'[d] \in {"none", "queued"}
      /\ \A e \in Delivery : e # d => entry'[e] = entry[e]
  BY <1>1, <1>2 DEF Mailer!Record, Entries
<1>4. /\ sender' \in [Delivery -> Senders] /\ sender'[d].step = "send"
      /\ sender'[d].attempts \in {0, 1}
      /\ \A e \in Delivery : e # d => sender'[e] = sender[e]
  <2>1. CASE Mailer!Notify(d)
    <3>1. sender' = [sender EXCEPT ![d].step = "send"] /\ sender[d].attempts = 0
      BY <1>1, <1>2, <2>1 DEF Mailer!Notify, DeliveryOK
    <3>. QED BY <1>1, <3>1 DEF Senders
  <2>2. CASE Mailer!SendNow(d)
    <3>1. sender' = [sender EXCEPT ![d] = SentOnce(sender[d])]
      BY <1>1, <2>2 DEF Mailer!SendNow, SentOnce, Senders
    <3>. QED BY <1>1, <3>1, SentOnceTyped
  <2>. QED BY <2>1, <2>2
<1>5. accepted[d] = 0 /\ lost[d] = 0
  BY <1>1, <1>2 DEF DeliveryOK
<1>6. DeliveryOK(d)'
  BY <1>2, <1>3, <1>4, <1>5 DEF DeliveryOK
<1>. QED BY <1>1, <1>2, <1>3, <1>4, <1>6, MailMoves

LEMMA MailAttempts ==
  ASSUME MailInv, NEW d \in Delivery, Mailer!Attempt(d)
  PROVE  MailInv'
<1>1. /\ entry \in [Delivery -> Entries] /\ sender \in [Delivery -> Senders]
      /\ accepted \in [Delivery -> 0 .. 2] /\ lost \in [Delivery -> 0 .. 2]
      /\ sender[d] \in Senders /\ DeliveryOK(d)
      /\ accepted[d] \in 0 .. 2 /\ lost[d] \in 0 .. 2
  BY MailTypes
<1>2. /\ sender[d].step = "send" /\ UNCHANGED <<config, saver, saves, mixed, entry>>
  BY DEF Mailer!Attempt
<1>3. /\ accepted[d] = lost[d] /\ sender[d].attempts \in {0, 1} /\ accepted[d] <= sender[d].attempts
      /\ entry[d] \in {"none", "queued"}
  BY <1>1, <1>2 DEF DeliveryOK, Senders
<1>4. PICK smtp \in Mailer!Sessions :
        /\ accepted' = IF smtp.taken THEN [accepted EXCEPT ![d] = @ + 1] ELSE accepted
        /\ lost' = IF smtp.taken /\ smtp.error THEN [lost EXCEPT ![d] = @ + 1] ELSE lost
        /\ sender' = [sender EXCEPT
             ![d] = [step |-> IF smtp.error /\ @.attempts = 0 THEN "send" ELSE "done",
                     attempts |-> @.attempts + 1, error |-> smtp.error]]
  BY DEF Mailer!Attempt
<1>5. /\ smtp.taken \in BOOLEAN /\ smtp.error \in BOOLEAN /\ (smtp.taken \/ smtp.error)
  <2>1. \/ smtp = [taken |-> TRUE, error |-> FALSE]
        \/ smtp = [taken |-> FALSE, error |-> TRUE]
        \/ smtp = [taken |-> TRUE, error |-> TRUE]
    BY <1>4 DEF Mailer!Sessions
  <2>2. CASE smtp = [taken |-> TRUE, error |-> FALSE]
    BY <2>2
  <2>3. CASE smtp = [taken |-> FALSE, error |-> TRUE]
    BY <2>3
  <2>4. CASE smtp = [taken |-> TRUE, error |-> TRUE]
    BY <2>4
  <2>. QED BY <2>1, <2>2, <2>3, <2>4
<1>. DEFINE new == [step |-> IF smtp.error /\ sender[d].attempts = 0 THEN "send" ELSE "done",
                    attempts |-> sender[d].attempts + 1, error |-> smtp.error]
<1>6. sender' = [sender EXCEPT ![d] = new]
  BY <1>4
<1>7. /\ new \in Senders /\ new.step \in {"send", "done"} /\ new.error = smtp.error
      /\ new.attempts = sender[d].attempts + 1
      /\ new.step = "send" => smtp.error /\ sender[d].attempts = 0
  BY <1>3, <1>5 DEF Senders
<1>. HIDE DEF new
<1>8. /\ sender' \in [Delivery -> Senders] /\ sender'[d] = new
      /\ \A e \in Delivery : e # d => sender'[e] = sender[e]
  BY <1>1, <1>6, <1>7
<1>9. /\ accepted' \in [Delivery -> 0 .. 2] /\ lost' \in [Delivery -> 0 .. 2]
      /\ \A e \in Delivery : e # d => accepted'[e] = accepted[e] /\ lost'[e] = lost[e]
      /\ accepted'[d] = IF smtp.taken THEN accepted[d] + 1 ELSE accepted[d]
      /\ lost'[d] = IF smtp.taken /\ smtp.error THEN lost[d] + 1 ELSE lost[d]
  BY <1>1, <1>3, <1>4, <1>5
<1>10. DeliveryOK(d)'
  <2>1. lost'[d] <= accepted'[d] /\ accepted'[d] <= new.attempts
    BY <1>1, <1>3, <1>5, <1>7, <1>9
  <2>2. smtp.error => accepted'[d] = lost'[d]
    BY <1>3, <1>5, <1>9
  <2>3. ~ smtp.error => accepted'[d] > 0
    BY <1>1, <1>5, <1>9
  <2>4. accepted'[d] = 2 => lost'[d] > 0
    BY <1>1, <1>3, <1>5, <1>9
  <2>. QED BY <1>2, <1>3, <1>5, <1>7, <1>8, <2>1, <2>2, <2>3, <2>4 DEF DeliveryOK
<1>. QED BY <1>1, <1>2, <1>8, <1>9, <1>10, MailMoves

LEMMA MailCompletes ==
  ASSUME MailInv, NEW d \in Delivery, Mailer!Complete(d)
  PROVE  MailInv'
<1>1. /\ entry \in [Delivery -> Entries] /\ sender \in [Delivery -> Senders]
      /\ accepted \in [Delivery -> 0 .. 2] /\ lost \in [Delivery -> 0 .. 2]
      /\ sender[d] \in Senders /\ DeliveryOK(d) /\ entry[d] \in Entries
      /\ accepted[d] \in 0 .. 2 /\ lost[d] \in 0 .. 2
  BY MailTypes
<1>2. /\ sender[d].step = "done" /\ sender' = [sender EXCEPT ![d].step = "over"]
      /\ UNCHANGED <<config, saver, saves, mixed, accepted, lost>>
  BY DEF Mailer!Complete
<1>3. /\ sender' \in [Delivery -> Senders] /\ sender'[d].step = "over"
      /\ sender'[d].attempts = sender[d].attempts
      /\ \A e \in Delivery : e # d => sender'[e] = sender[e]
  BY <1>1, <1>2 DEF Senders
<1>4. /\ entry' \in [Delivery -> Entries]
      /\ \A e \in Delivery : e # d => entry'[e] = entry[e]
      /\ entry'[d] = "failed" => entry[d] = "failed" \/ sender[d].error
      /\ entry'[d] = "sent" => entry[d] = "sent" \/ ~ sender[d].error
  BY <1>1 DEF Mailer!Complete, Entries, Senders
<1>5. DeliveryOK(d)'
  BY <1>1, <1>2, <1>3, <1>4 DEF DeliveryOK, Senders
<1>. QED BY <1>1, <1>2, <1>3, <1>4, <1>5, MailMoves

LEMMA MailStops ==
  ASSUME MailInv, Mailer!Stop \/ Mailer!Prune
  PROVE  MailInv'
<1>1. /\ Mailer!TypeOK /\ UNCHANGED <<config, saves, mixed, accepted, lost>>
      /\ saver \in [Saver -> Savers] /\ sender \in [Delivery -> Senders]
      /\ entry \in [Delivery -> Entries] /\ accepted \in [Delivery -> 0 .. 2]
      /\ lost \in [Delivery -> 0 .. 2]
  BY DEF MailInv, Mailer!TypeOK, Mailer!Stop, Mailer!Prune, Senders, Savers, Entries
<1>2. CASE Mailer!Stop
  <2>1. /\ saver' \in [Saver -> Savers] /\ entry' = entry
        /\ \A s \in Saver : saver'[s].step = "rest"
    BY <1>2, RestTyped DEF Mailer!Stop
  <2>2. sender' = [d \in Delivery |-> IF sender[d].step = "new" THEN sender[d]
                                      ELSE [sender[d] EXCEPT !.step = "over"]]
    BY <1>2 DEF Mailer!Stop
  <2>3. \A d \in Delivery : /\ sender'[d] \in Senders /\ sender'[d].attempts = sender[d].attempts
                            /\ \/ sender'[d] = sender[d]
                               \/ sender'[d].step = "over"
    BY <1>1, <2>2 DEF Senders
  <2>4. Mailer!TypeOK'
    <3>1. sender' \in [Delivery -> Senders]
      BY <2>2, <2>3
    <3>. QED BY <1>1, <2>1, <3>1 DEF Mailer!TypeOK, Senders, Savers
  <2>5. ASSUME NEW d \in Delivery PROVE DeliveryOK(d)'
    BY <1>1, <2>1, <2>3 DEF MailInv, DeliveryOK
  <2>. QED BY <1>1, <2>1, <2>4, <2>5 DEF MailInv, Mailer!Valid
<1>3. CASE Mailer!Prune
  <2>1. /\ UNCHANGED <<saver, sender>>
        /\ entry' = [d \in Delivery |-> IF sender[d].step = "over" THEN "none" ELSE entry[d]]
    BY <1>3 DEF Mailer!Prune
  <2>2. Mailer!TypeOK'
    BY <1>1, <2>1 DEF Mailer!TypeOK, Entries
  <2>3. ASSUME NEW d \in Delivery PROVE DeliveryOK(d)'
    BY <1>1, <2>1 DEF MailInv, DeliveryOK
  <2>. QED BY <1>1, <2>1, <2>2, <2>3 DEF MailInv, Mailer!Valid
<1>. QED BY <1>2, <1>3

LEMMA MailStep ==
  ASSUME MailInv, [Mailer!Next]_ofMailer
  PROVE  MailInv'
<1>1. CASE UNCHANGED ofMailer
  BY <1>1 DEF ofMailer, MailInv, Mailer!TypeOK, Mailer!Valid, DeliveryOK
<1>2. CASE Mailer!Next
  BY Zenon, <1>2, MailConfigures, MailMixes, MailBegins, MailAttempts, MailCompletes, MailStops
     DEF Mailer!Next
<1>. QED BY <1>1, <1>2

(***************************************************************************)
(* mail/service.go: the delivery log tells the truth, nobody gets a message  *)
(* twice unless an acknowledgement was lost, and what the form saved was     *)
(* validated together until a row of it is changed as a setting of its own.  *)
(***************************************************************************)
THEOREM MailTold == Spec => []MailSafe
<1>1. Init => MailInv
  BY MailInitial DEF Init
<1>2. MailInv /\ [Next]_vars => MailInv'
  BY PartsMove, MailStep
<1>. QED BY <1>1, <1>2, MailIsSafe, PTL DEF Spec

-----------------------------------------------------------------------------
(***************************************************************************)
(* The recorder of policy violations (tracking/violations.go).               *)
(***************************************************************************)

(* What is recorded is the last report of its origin, and no report is of a    *)
(* time to come.                                                              *)
RecorderInv ==
  /\ Recorder!TypeOK /\ Recorder!KeepsMostRecent
  /\ \A o \in Origin : violations[o] \in {0, seen[o]} /\ seen[o] <= clock

LEMMA RecordedFinite ==
  Recorder!Recorded \subseteq Origin /\ IsFiniteSet(Recorder!Recorded)
<1>1. Recorder!Recorded \subseteq Origin
  BY DEF Recorder!Recorded
<1>. QED BY <1>1, RecorderAssumption, FS_Subset

LEMMA RecorderInitial ==
  ASSUME Recorder!Init
  PROVE  RecorderInv
<1>1. Recorder!TypeOK /\ \A o \in Origin : violations[o] = 0 /\ seen[o] = 0 /\ seen[o] <= clock
  BY RecorderAssumption DEF Recorder!Init, Recorder!TypeOK
<1>2. Recorder!Recorded = {}
  BY <1>1 DEF Recorder!Recorded
<1>3. Cardinality(Recorder!Recorded) = 0
  BY <1>2, FS_EmptySet
<1>. QED BY <1>1, <1>3, SameCount, RecorderAssumption DEF RecorderInv, Recorder!KeepsMostRecent

(* A report comes: what it replaces is not newer than what stays.             *)
LEMMA RecorderRecords ==
  ASSUME RecorderInv, NEW o \in Origin, Recorder!Record(o)
  PROVE  RecorderInv'
<1>. DEFINE R == Recorder!Recorded
<1>1. /\ violations \in [Origin -> 0 .. MaxClock] /\ clock \in 1 .. MaxClock
      /\ seen \in [Origin -> 0 .. MaxClock] /\ clock' = clock
      /\ seen' = [seen EXCEPT ![o] = clock] /\ MaxClock \in Nat
      /\ \A q \in Origin : violations[q] \in {0, seen[q]} /\ seen[q] <= clock
  BY RecorderAssumption DEF RecorderInv, Recorder!TypeOK, Recorder!Record
<1>2. /\ seen' \in [Origin -> 0 .. MaxClock] /\ seen'[o] = clock
      /\ \A q \in Origin : q # o => seen'[q] = seen[q]
      /\ \A q \in Origin : seen'[q] <= clock /\ seen[q] <= seen'[q]
  BY <1>1
<1>3. /\ IsFiniteSet(R) /\ R \subseteq Origin /\ Cardinality(R) \in Nat
      /\ Cardinality(R) <= MaxViolations /\ MaxViolations \in Nat
      /\ \A q \in Origin \ R : seen[q] # 0 =>
           /\ Cardinality(R) = MaxViolations
           /\ \A kept \in R : seen[kept] >= seen[q]
  BY RecordedFinite, FS_CardinalityType, SameCount, RecorderAssumption
     DEF RecorderInv, Recorder!KeepsMostRecent
<1>4. \A q \in Origin : q \in R <=> violations[q] # 0
  BY DEF Recorder!Recorded
<1>5. ASSUME NEW after \in SUBSET Origin, IsFiniteSet(after),
             violations' \in [Origin -> 0 .. MaxClock],
             \A q \in Origin : violations'[q] \in {0, seen'[q]},
             \A q \in Origin : q \in after <=> violations'[q] # 0,
             Cardinality(after) <= MaxViolations,
             \A q \in Origin \ after : seen'[q] # 0 =>
               /\ Cardinality(after) = MaxViolations
               /\ \A kept \in after : seen'[kept] >= seen'[q]
      PROVE  RecorderInv'
  <2>1. Recorder!Recorded' = after
    BY <1>5 DEF Recorder!Recorded
  <2>2. Recorder!Cardinality(Recorder!Recorded)' = Cardinality(after)
    BY <2>1, SameCount
  <2>3. Recorder!TypeOK'
    BY <1>1, <1>2, <1>5 DEF Recorder!TypeOK
  <2>4. Recorder!KeepsMostRecent'
    BY <1>5, <2>1, <2>2 DEF Recorder!KeepsMostRecent
  <2>. QED BY <1>1, <1>2, <1>5, <2>3, <2>4 DEF RecorderInv
<1>. HIDE DEF R
<1>6. CASE violations[o] # 0
  <2>1. violations' = [violations EXCEPT ![o] = clock]
    BY <1>6 DEF Recorder!Record
  <2>2. /\ violations' \in [Origin -> 0 .. MaxClock] /\ violations'[o] = clock
        /\ \A q \in Origin : q # o => violations'[q] = violations[q]
    BY <1>1, <2>1
  <2>3. o \in R /\ \A q \in Origin : q \in R <=> violations'[q] # 0
    BY <1>1, <1>4, <1>6, <2>2
  <2>4. \A q \in Origin : violations'[q] \in {0, seen'[q]}
    BY <1>1, <1>2, <2>2
  <2>5. ASSUME NEW q \in Origin \ R, seen'[q] # 0, NEW kept \in R
        PROVE  Cardinality(R) = MaxViolations /\ seen'[kept] >= seen'[q]
    BY <1>1, <1>2, <1>3, <2>3, <2>5
  <2>6. \A q \in Origin \ R : seen'[q] # 0 =>
               /\ Cardinality(R) = MaxViolations
               /\ \A kept \in R : seen'[kept] >= seen'[q]
    BY <2>3, <2>5
  <2>. QED BY <1>3, <1>5, <2>2, <2>3, <2>4, <2>6
<1>7. CASE violations[o] = 0 /\ Cardinality(R) < MaxViolations
  <2>. DEFINE after == R \cup {o}
  <2>1. violations' = [violations EXCEPT ![o] = clock]
    BY <1>7, SameCount DEF Recorder!Record, R
  <2>2. /\ violations' \in [Origin -> 0 .. MaxClock] /\ violations'[o] = clock
        /\ \A q \in Origin : q # o => violations'[q] = violations[q]
    BY <1>1, <2>1
  <2>3. o \notin R /\ IsFiniteSet(after) /\ Cardinality(after) = Cardinality(R) + 1
    BY <1>3, <1>4, <1>7, FS_AddElement
  <2>4. after \subseteq Origin /\ \A q \in Origin : q \in after <=> violations'[q] # 0
    BY <1>1, <1>3, <1>4, <2>2
  <2>5. \A q \in Origin : violations'[q] \in {0, seen'[q]}
    BY <1>1, <1>2, <2>2
  <2>6. \A q \in Origin \ after : seen'[q] = 0
    BY <1>1, <1>2, <1>3, <1>7
  <2>7. Cardinality(after) <= MaxViolations
    BY <1>3, <1>7, <2>3
  <2>. HIDE DEF after
  <2>. QED BY <1>5, <2>2, <2>3, <2>4, <2>5, <2>6, <2>7
<1>8. CASE violations[o] = 0 /\ ~ Cardinality(R) < MaxViolations
  <2>1. PICK old \in Recorder!Oldest : violations' = [violations EXCEPT ![old] = 0, ![o] = clock]
    BY <1>8, SameCount DEF Recorder!Record, R
  <2>2. /\ old \in R /\ old \in Origin /\ old # o /\ violations[old] = seen[old]
        /\ \A other \in R : violations[old] <= violations[other]
    BY <1>1, <1>3, <1>4, <1>8, <2>1 DEF Recorder!Oldest, R
  <2>. DEFINE without == R \ {old}
              after == without \cup {o}
  <2>3. Cardinality(R) = MaxViolations
    BY <1>3, <1>8
  <2>4. IsFiniteSet(without) /\ Cardinality(without) = Cardinality(R) - 1
    BY <1>3, <2>2, FS_RemoveElement
  <2>5. o \notin without /\ o \notin R
    BY <1>4, <1>8
  <2>6. IsFiniteSet(after) /\ Cardinality(after) = Cardinality(without) + 1
    BY <2>4, <2>5, FS_AddElement
  <2>7. /\ violations' \in [Origin -> 0 .. MaxClock] /\ violations'[o] = clock
        /\ violations'[old] = 0
        /\ \A q \in Origin : q # o /\ q # old => violations'[q] = violations[q]
    BY <1>1, <2>1, <2>2
  <2>8. after \subseteq Origin /\ \A q \in Origin : q \in after <=> violations'[q] # 0
    BY <1>1, <1>3, <1>4, <2>2, <2>7
  <2>9. \A q \in Origin : violations'[q] \in {0, seen'[q]}
    BY <1>1, <1>2, <2>7
  <2>10. Cardinality(after) = MaxViolations
    BY <1>3, <2>3, <2>4, <2>6
  <2>11. \A kept \in R : seen[old] <= seen[kept]
    BY <1>1, <1>3, <1>4, <2>2
  <2>12. ASSUME NEW q \in Origin \ after, seen'[q] # 0, NEW kept \in after
         PROVE  seen'[kept] >= seen'[q]
    <3>1. q # o /\ seen'[q] = seen[q] /\ (kept = o \/ kept \in R)
      BY <1>2, <2>12
    <3>2. CASE kept = o
      BY <1>1, <1>2, <3>1, <3>2
    <3>3. CASE kept # o
      <4>1. kept \in R /\ kept \in Origin /\ seen'[kept] = seen[kept]
        BY <1>2, <1>3, <3>1, <3>3
      <4>2. CASE q = old
        BY <1>1, <2>11, <3>1, <4>1, <4>2
      <4>3. CASE q # old
        <5>1. q \in Origin \ R
          BY <2>12, <4>3
        <5>. QED BY <1>3, <2>12, <3>1, <4>1, <5>1
      <4>. QED BY <4>2, <4>3
    <3>. QED BY <3>2, <3>3
  <2>. HIDE DEF after
  <2>13. \A q \in Origin \ after : seen'[q] # 0 =>
               /\ Cardinality(after) = MaxViolations
               /\ \A kept \in after : seen'[kept] >= seen'[q]
    BY <2>10, <2>12
  <2>14. Cardinality(after) <= MaxViolations
    BY <1>3, <2>10
  <2>. QED BY <1>5, <2>6, <2>7, <2>8, <2>9, <2>13, <2>14
<1>. QED BY <1>6, <1>7, <1>8

LEMMA RecorderStep ==
  ASSUME RecorderInv, [Recorder!Next]_ofRecorder
  PROVE  RecorderInv'
<1>1. CASE UNCHANGED ofRecorder
  BY <1>1, SameCount DEF ofRecorder, RecorderInv, Recorder!TypeOK, Recorder!KeepsMostRecent, Recorder!Recorded
<1>2. CASE Recorder!Tick
  <2>1. /\ UNCHANGED <<violations, seen>> /\ clock' = clock + 1 /\ clock' \in 1 .. MaxClock
        /\ Recorder!Recorded' = Recorder!Recorded
    BY <1>2, RecorderAssumption DEF Recorder!Tick, RecorderInv, Recorder!TypeOK, Recorder!Recorded
  <2>2. Recorder!KeepsMostRecent'
    BY <2>1, SameCount DEF RecorderInv, Recorder!KeepsMostRecent
  <2>. QED BY <2>1, <2>2 DEF RecorderInv, Recorder!TypeOK
<1>3. CASE Recorder!Forget
  <2>1. /\ violations' = [o \in Origin |-> 0] /\ seen' = [o \in Origin |-> 0] /\ clock' = clock
        /\ clock \in 1 .. MaxClock
    BY <1>3 DEF Recorder!Forget, RecorderInv, Recorder!TypeOK
  <2>2. Recorder!Recorded' = {}
    BY <2>1 DEF Recorder!Recorded
  <2>3. Recorder!Cardinality(Recorder!Recorded)' = 0
    BY <2>2, SameCount, FS_EmptySet
  <2>4. Recorder!TypeOK'
    BY <2>1, RecorderAssumption DEF Recorder!TypeOK
  <2>5. Recorder!KeepsMostRecent'
    BY <2>1, <2>3, RecorderAssumption DEF Recorder!KeepsMostRecent
  <2>. QED BY <2>1, <2>4, <2>5 DEF RecorderInv
<1>4. CASE Recorder!Next
  BY Zenon, <1>2, <1>3, <1>4, RecorderRecords DEF Recorder!Next
<1>. QED BY <1>1, <1>4

-----------------------------------------------------------------------------
(***************************************************************************)
(* The diagnostic log (diagnostics/store.go).                                *)
(***************************************************************************)
LoggerOK(p) ==
  /\ logger[p].event <= now
  /\ logger[p].step = "insert" => logger[p].event # 0
  /\ \A e \in logger[p].doomed : Log!NewerThan(e, written) >= Retained

(* What a clearing has selected stays surplus, for rows are only added to what *)
(* was ever written.                                                          *)
LogInv ==
  /\ Log!TypeOK /\ Log!KeepsNewest
  /\ log \subseteq written /\ written \subseteq 1 .. now
  /\ \A p \in Logger : LoggerOK(p)

Loggers == [step : {"rest", "insert", "expire", "select", "delete"},
            event : 0 .. MaxEvents, writes : 0 .. PruneEvery - 1,
            doomed : SUBSET Log!Event]

(* The more rows, the more of them are newer.                                 *)
LEMMA MoreAreNewer ==
  ASSUME NEW many \in SUBSET Log!Event, NEW few \in SUBSET many, NEW e
  PROVE  /\ Log!NewerThan(e, few) \in Nat /\ Log!NewerThan(e, many) \in Nat
         /\ Log!NewerThan(e, few) <= Log!NewerThan(e, many)
<1>. DEFINE F == {f \in few : f > e}
            M == {f \in many : f > e}
<1>1. IsFiniteSet(Log!Event)
  BY LogAssumption, FS_Interval DEF Log!Event
<1>2. F \subseteq M /\ M \subseteq Log!Event
  OBVIOUS
<1>3. IsFiniteSet(M) /\ IsFiniteSet(F)
  BY <1>1, <1>2, FS_Subset
<1>4. Cardinality(F) <= Cardinality(M) /\ Cardinality(F) \in Nat /\ Cardinality(M) \in Nat
  BY <1>2, <1>3, FS_Subset, FS_CardinalityType
<1>5. Log!NewerThan(e, few) = Cardinality(F) /\ Log!NewerThan(e, many) = Cardinality(M)
  BY SameCount DEF Log!NewerThan
<1>. QED BY <1>4, <1>5

LEMMA QuietTyped ==
  ASSUME NEW n \in 0 .. PruneEvery - 1
  PROVE  /\ Log!Quiet(n) \in Loggers /\ Log!Quiet(n).event = 0
         /\ Log!Quiet(n).step = "rest" /\ Log!Quiet(n).doomed = {}
BY LogAssumption DEF Log!Quiet, Loggers, Log!Event

LEMMA LogInitial ==
  ASSUME Log!Init
  PROVE  LogInv
<1>1. 0 \in 0 .. PruneEvery - 1 /\ 0 \in 0 .. MaxEvents
  BY LogAssumption
<1>2. Log!TypeOK
  <2>1. logger \in [Logger -> Loggers]
    BY <1>1, QuietTyped DEF Log!Init
  <2>. QED BY <1>1, <2>1 DEF Log!Init, Log!TypeOK, Loggers
<1>3. \A p \in Logger : LoggerOK(p)
  BY <1>1, QuietTyped DEF Log!Init, LoggerOK
<1>. QED BY <1>2, <1>3 DEF Log!Init, LogInv, Log!KeepsNewest

LEMMA LogTypes ==
  ASSUME LogInv, NEW p \in Logger
  PROVE  /\ logger \in [Logger -> Loggers] /\ logger[p] \in Loggers /\ LoggerOK(p)
         /\ log \subseteq written /\ written \subseteq 1 .. now /\ written \in SUBSET Log!Event
         /\ now \in 0 .. MaxEvents
         /\ logger[p].event \in 0 .. MaxEvents /\ logger[p].writes \in 0 .. PruneEvery - 1
         /\ logger[p].doomed \subseteq Log!Event
BY DEF LogInv, Log!TypeOK, Loggers

(* A Pod moves: rows come as time does, and a row that goes was surplus.      *)
LEMMA LogMoves ==
  ASSUME LogInv, NEW p \in Logger,
         logger' \in [Logger -> Loggers], \A q \in Logger : q # p => logger'[q] = logger[q],
         now' \in now .. MaxEvents, written \subseteq written', written' \subseteq 1 .. now',
         log' \subseteq written',
         \A e \in written' \ log' : e \in written \ log \/ Log!Old(e)
                                    \/ Log!NewerThan(e, written) >= Retained,
         LoggerOK(p)'
  PROVE  LogInv'
<1>1. /\ now \in 0 .. MaxEvents /\ MaxEvents \in Nat /\ Retained \in Nat /\ Period \in Nat
  BY LogAssumption DEF LogInv, Log!TypeOK
<1>2. /\ written' \in SUBSET Log!Event /\ written \in SUBSET written' /\ now' \in 0 .. MaxEvents
      /\ log' \subseteq Log!Event /\ now <= now' /\ now' \in Nat
  BY <1>1 DEF Log!Event
<1>3. Log!TypeOK'
  BY <1>2 DEF Log!TypeOK, Loggers
<1>4. ASSUME NEW e, Log!NewerThan(e, written) >= Retained
      PROVE  Log!NewerThan(e, written') >= Retained
  BY <1>1, <1>2, <1>4, MoreAreNewer
<1>5. ASSUME NEW e \in Log!Event, Log!Old(e)
      PROVE  Log!Old(e)'
  BY <1>1, <1>2, <1>5 DEF Log!Old, Log!Event
<1>6. Log!KeepsNewest'
  <2>1. ASSUME NEW e \in written' \ log'
        PROVE  Log!Old(e)' \/ Log!NewerThan(e, written') >= Retained
    <3>1. e \in Log!Event
      BY <1>2
    <3>2. Log!Old(e) \/ Log!NewerThan(e, written) >= Retained
      BY <2>1 DEF LogInv, Log!KeepsNewest
    <3>. QED BY <1>4, <1>5, <3>1, <3>2
  <2>2. \A e : Log!NewerThan(e, written)' = Log!NewerThan(e, written')
    BY DEF Log!NewerThan
  <2>. QED BY <2>1, <2>2 DEF Log!KeepsNewest
<1>7. ASSUME NEW q \in Logger
      PROVE  LoggerOK(q)'
  <2>1. CASE q = p
    BY <2>1
  <2>2. CASE q # p
    <3>1. logger'[q] = logger[q] /\ LoggerOK(q) /\ logger[q].event \in 0 .. MaxEvents
      BY <2>2, LogTypes
    <3>2. \A e \in logger[q].doomed : Log!NewerThan(e, written') >= Retained
      BY <1>4, <3>1 DEF LoggerOK
    <3>3. logger[q].event <= now'
      BY <1>1, <1>2, <3>1 DEF LoggerOK
    <3>4. \A e : Log!NewerThan(e, written)' = Log!NewerThan(e, written')
      BY DEF Log!NewerThan
    <3>. QED BY <3>1, <3>2, <3>3, <3>4 DEF LoggerOK
  <2>. QED BY <2>1, <2>2
<1>. QED BY <1>3, <1>6, <1>7 DEF LogInv

(* A Pod that rests, and one that stands at a step, with its event and its     *)
(* counter as they are.                                                       *)
LEMMA LoggerRests ==
  ASSUME LogInv, NEW p \in Logger, NEW n \in 0 .. PruneEvery - 1,
         logger' = [logger EXCEPT ![p] = Log!Quiet(n)], now' \in Nat
  PROVE  /\ logger' \in [Logger -> Loggers] /\ \A q \in Logger : q # p => logger'[q] = logger[q]
         /\ LoggerOK(p)'
<1>1. logger' \in [Logger -> Loggers] /\ logger'[p] = Log!Quiet(n)
  BY LogTypes, QuietTyped
<1>. QED BY <1>1, LogTypes, QuietTyped DEF LoggerOK

Stamped(old, n) == [[old EXCEPT !.step = "insert"] EXCEPT !.event = n]

LEMMA StampedTyped ==
  ASSUME NEW old \in Loggers, NEW n \in 0 .. MaxEvents
  PROVE  /\ Stamped(old, n) \in Loggers /\ Stamped(old, n).event = n
         /\ Stamped(old, n).doomed = old.doomed
         /\ Stamped(old, n) = [old EXCEPT !.step = "insert", !.event = n]
<1>1. [old EXCEPT !.step = "insert"] \in Loggers
  BY DEF Loggers
<1>2. ASSUME NEW r \in Loggers PROVE [r EXCEPT !.event = n] \in Loggers
  BY DEF Loggers
<1>3. Stamped(old, n) \in Loggers
  BY <1>1, <1>2 DEF Stamped
<1>. QED BY <1>3 DEF Stamped, Loggers

LEMMA LogStamps ==
  ASSUME LogInv, NEW p \in Logger, Log!Stamp(p)
  PROVE  LogInv'
<1>1. /\ logger \in [Logger -> Loggers] /\ logger[p] \in Loggers /\ LoggerOK(p)
      /\ log \subseteq written /\ written \subseteq 1 .. now /\ now \in 0 .. MaxEvents
      /\ logger[p].doomed \subseteq Log!Event
  BY LogTypes
<1>2. /\ now < MaxEvents /\ now' = now + 1 /\ UNCHANGED <<log, written>>
      /\ logger' = [logger EXCEPT ![p].step = "insert", ![p].event = now + 1]
  BY DEF Log!Stamp
<1>3. now + 1 \in 0 .. MaxEvents /\ now + 1 # 0
  BY <1>1, <1>2, LogAssumption
<1>4. logger' = [logger EXCEPT ![p] = Stamped(logger[p], now + 1)]
  BY <1>1, <1>2, <1>3, StampedTyped
<1>5. /\ logger' \in [Logger -> Loggers] /\ \A q \in Logger : q # p => logger'[q] = logger[q]
      /\ logger'[p].event = now + 1 /\ logger'[p].doomed = logger[p].doomed
  BY <1>1, <1>3, <1>4, StampedTyped
<1>6. LoggerOK(p)'
  BY <1>1, <1>2, <1>3, <1>5 DEF LoggerOK, Log!NewerThan
<1>. QED BY <1>1, <1>2, <1>3, <1>5, <1>6, LogMoves

LEMMA LogInserts ==
  ASSUME LogInv, NEW p \in Logger, Log!Insert(p)
  PROVE  LogInv'
<1>1. /\ logger \in [Logger -> Loggers] /\ logger[p] \in Loggers /\ LoggerOK(p)
      /\ log \subseteq written /\ written \subseteq 1 .. now /\ now \in 0 .. MaxEvents
      /\ logger[p].event \in 0 .. MaxEvents /\ logger[p].writes \in 0 .. PruneEvery - 1
  BY LogTypes
<1>2. logger[p].step = "insert" /\ now' = now
  BY DEF Log!Insert
<1>. DEFINE w == (logger[p].writes + 1) % PruneEvery
            e == logger[p].event
<1>3. w \in 0 .. PruneEvery - 1 /\ PruneEvery - 1 \in Nat
  BY <1>1, LogAssumption
<1>4. e \in 1 .. now
  BY <1>1, <1>2 DEF LoggerOK
<1>5. CASE /\ log' = log \cup {e} /\ written' = written \cup {e}
           /\ logger' = [logger EXCEPT ![p] =
                IF w = 0 THEN [Log!Quiet(0) EXCEPT !.step = "expire"] ELSE Log!Quiet(w)]
  <2>1. /\ log' \subseteq written' /\ written' \subseteq 1 .. now' /\ written \subseteq written'
        /\ written' \ log' \subseteq written \ log /\ now' \in now .. MaxEvents
    BY <1>1, <1>2, <1>4, <1>5
  <2>2. /\ logger' \in [Logger -> Loggers] /\ \A q \in Logger : q # p => logger'[q] = logger[q]
        /\ LoggerOK(p)'
    <3>1. CASE w = 0
      <4>1. logger' = [logger EXCEPT ![p] = [Log!Quiet(0) EXCEPT !.step = "expire"]]
        BY <1>5, <3>1
      <4>. DEFINE new == [Log!Quiet(0) EXCEPT !.step = "expire"]
      <4>2. Log!Quiet(0) \in Loggers /\ Log!Quiet(0).event = 0 /\ Log!Quiet(0).doomed = {}
        BY <1>3, QuietTyped
      <4>3. new \in Loggers /\ new.event = 0 /\ new.doomed = {} /\ new.step = "expire"
        BY <4>2 DEF Loggers
      <4>. HIDE DEF new
      <4>4. logger' = [logger EXCEPT ![p] = new]
        BY <4>1 DEF new
      <4>. QED BY <1>1, <1>2, <4>3, <4>4 DEF LoggerOK
    <3>2. CASE w # 0
      <4>1. logger' = [logger EXCEPT ![p] = Log!Quiet(w)]
        BY <1>5, <3>2
      <4>2. now' \in Nat
        BY <1>1, <1>2
      <4>. HIDE DEF w
      <4>. QED BY Zenon, <1>3, <4>1, <4>2, LoggerRests
    <3>. QED BY <3>1, <3>2
  <2>. QED BY <2>1, <2>2, LogMoves
<1>6. CASE /\ logger' = [logger EXCEPT ![p] = Log!Quiet(logger[p].writes)]
           /\ UNCHANGED <<log, written>>
  <2>1. now' \in now .. MaxEvents /\ now' \in Nat
    BY <1>1, <1>2
  <2>2. /\ logger' \in [Logger -> Loggers] /\ \A q \in Logger : q # p => logger'[q] = logger[q]
        /\ LoggerOK(p)'
    BY <1>1, <1>6, <2>1, LoggerRests
  <2>3. written \subseteq 1 .. now'
    BY <1>1, <1>2
  <2>. QED BY <1>1, <1>6, <2>1, <2>2, <2>3, LogMoves
<1>. QED BY <1>5, <1>6 DEF Log!Insert

(* The clearing: the old rows, the surplus, and each of it.                    *)
LEMMA LogClears ==
  ASSUME LogInv, NEW p \in Logger, Log!Expire(p) \/ Log!Select(p) \/ Log!Delete(p) \/ Log!Restart(p)
  PROVE  LogInv'
<1>1. /\ logger \in [Logger -> Loggers] /\ logger[p] \in Loggers /\ LoggerOK(p)
      /\ log \subseteq written /\ written \subseteq 1 .. now /\ now \in 0 .. MaxEvents
      /\ logger[p].doomed \subseteq Log!Event /\ written \in SUBSET Log!Event
  BY LogTypes
<1>2. written' = written /\ now' = now /\ now' \in now .. MaxEvents /\ now' \in Nat
  BY <1>1 DEF Log!Expire, Log!Select, Log!Delete, Log!Restart
<1>3. 0 \in 0 .. PruneEvery - 1
  BY LogAssumption
<1>4. CASE Log!Expire(p)
  <2>1. log' = {e \in log : ~ Log!Old(e)} /\ logger' = [logger EXCEPT ![p].step = "select"]
    BY <1>4 DEF Log!Expire
  <2>2. /\ logger' \in [Logger -> Loggers] /\ \A q \in Logger : q # p => logger'[q] = logger[q]
        /\ logger'[p].event = logger[p].event /\ logger'[p].step = "select"
        /\ logger'[p].doomed = logger[p].doomed
    BY <1>1, <2>1 DEF Loggers
  <2>3. LoggerOK(p)'
    BY <1>1, <1>2, <2>2 DEF LoggerOK, Log!NewerThan
  <2>. QED BY <1>1, <1>2, <2>1, <2>2, <2>3, LogMoves
<1>5. CASE Log!Select(p)
  <2>1. log' = log /\ logger' = [logger EXCEPT ![p].step = "delete", ![p].doomed = Log!Surplus(log)]
    BY <1>5 DEF Log!Select
  <2>2. \A e \in Log!Surplus(log) : e \in Log!Event /\ Log!NewerThan(e, log) >= Retained
    <3>1. ASSUME NEW e \in log
          PROVE  e \in Log!Event /\ Log!NewerThan(e, log) \in Nat
      BY <1>1, MoreAreNewer
    <3>. QED BY <3>1, LogAssumption DEF Log!Surplus
  <2>3. \A e \in Log!Surplus(log) : Log!NewerThan(e, written) >= Retained
    BY <1>1, <2>2, LogAssumption, MoreAreNewer
  <2>. DEFINE gone == Log!Surplus(log)
              new == [[logger[p] EXCEPT !.step = "delete"] EXCEPT !.doomed = gone]
  <2>4. gone \in SUBSET Log!Event
    BY <2>2
  <2>5. new \in Loggers /\ new.event = logger[p].event /\ new.step = "delete" /\ new.doomed = gone
    <3>. HIDE DEF gone
    <3>1. [logger[p] EXCEPT !.step = "delete"] \in Loggers
      BY <1>1 DEF Loggers
    <3>2. ASSUME NEW r \in Loggers PROVE [r EXCEPT !.doomed = gone] \in Loggers
      BY <2>4 DEF Loggers
    <3>3. new \in Loggers
      BY <3>1, <3>2
    <3>. QED BY <1>1, <3>3 DEF Loggers
  <2>6. logger' = [logger EXCEPT ![p] = new]
    <3>. HIDE DEF gone
    <3>1. new = [logger[p] EXCEPT !.step = "delete", !.doomed = gone]
      BY <1>1 DEF Loggers
    <3>2. logger' = [logger EXCEPT ![p].step = "delete", ![p].doomed = gone]
      BY <2>1 DEF gone
    <3>. QED BY <3>1, <3>2
  <2>. HIDE DEF new, gone
  <2>7. /\ logger' \in [Logger -> Loggers] /\ \A q \in Logger : q # p => logger'[q] = logger[q]
        /\ logger'[p] = new
    BY <1>1, <2>5, <2>6
  <2>8. LoggerOK(p)'
    BY <1>1, <1>2, <2>3, <2>5, <2>7 DEF LoggerOK, Log!NewerThan, gone
  <2>. QED BY <1>1, <1>2, <2>1, <2>7, <2>8, LogMoves
<1>6. CASE Log!Delete(p)
  <2>1. ASSUME NEW e \in logger[p].doomed, log' = log \ {e},
               logger' = [logger EXCEPT ![p].doomed = @ \ {e}]
        PROVE  LogInv'
    <3>1. /\ logger' \in [Logger -> Loggers] /\ \A q \in Logger : q # p => logger'[q] = logger[q]
          /\ logger'[p].event = logger[p].event /\ logger'[p].step = logger[p].step
          /\ logger'[p].doomed = logger[p].doomed \ {e}
      BY <1>1, <2>1 DEF Loggers
    <3>2. LoggerOK(p)'
      BY <1>1, <1>2, <3>1 DEF LoggerOK, Log!NewerThan
    <3>3. Log!NewerThan(e, written) >= Retained
      BY <1>1, <2>1 DEF LoggerOK
    <3>. QED BY <1>1, <1>2, <2>1, <3>1, <3>2, <3>3, LogMoves
  <2>2. ASSUME logger' = [logger EXCEPT ![p] = Log!Quiet(0)], log' = log
        PROVE  LogInv'
    BY <1>1, <1>2, <1>3, <2>2, LoggerRests, LogMoves
  <2>. QED BY <1>6, <2>1, <2>2 DEF Log!Delete
<1>7. CASE Log!Restart(p)
  BY <1>1, <1>2, <1>3, <1>7, LoggerRests, LogMoves DEF Log!Restart
<1>. QED BY <1>4, <1>5, <1>6, <1>7

LEMMA LogStep ==
  ASSUME LogInv, [Log!Next]_ofLog
  PROVE  LogInv'
<1>1. CASE UNCHANGED ofLog
  BY <1>1 DEF ofLog, LogInv, Log!TypeOK, Log!KeepsNewest, Log!NewerThan, Log!Old, LoggerOK
<1>2. CASE Log!Next
  BY Zenon, <1>2, LogStamps, LogInserts, LogClears DEF Log!Next
<1>. QED BY <1>1, <1>2

-----------------------------------------------------------------------------
(***************************************************************************)
(* The policy documents (agent_enrollment_settings.go, tracking.go).         *)
(***************************************************************************)
PolicyDocs == Policies!Documents
PolicyWriters ==
  [step : {"rest", "load", "save"}, change : Policies!Changes \cup {Policies!None},
   read : PolicyDocs, tries : 0 .. Attempts, since : 0 .. MaxVersions]

(* A request that has made n attempts was overtaken n times since it was asked. *)
WriterOK(w) ==
  /\ writer[w].step # "rest" => /\ writer[w].change \in Policies!Changes
                                /\ writer[w].since + writer[w].tries <= document.version
                                /\ writer[w].tries < Attempts
  /\ writer[w].step = "save" =>
       /\ writer[w].read.version < MaxVersions
       /\ writer[w].since + writer[w].tries <= writer[w].read.version
       /\ Policies!Accepted(writer[w].change, writer[w].read)
       /\ writer[w].read.version <= document.version
       /\ writer[w].read.version = document.version => writer[w].read = document

PolicyInv ==
  /\ Policies!TypeOK
  /\ Policies!NoChangeLost /\ Policies!PolicyStaysReadable /\ Policies!GivesUpOvertaken
  /\ policy = "tracking" => ~ document.restricted
  /\ \A w \in Writer : WriterOK(w)

(* What a request asks of its document.                                       *)
LEMMA ChangesKnown ==
  ASSUME NEW c \in Policies!Changes, policy \in {"enrollment", "tracking"}
  PROVE  /\ UNION c.list \subseteq Host
         /\ c.kind = "settings" => c.mode \in {"disabled", "open", "token"}
         /\ c.kind # "settings" => c.mode = ""
         /\ policy = "enrollment" => c.kind \in {"settings", "issue", "delete"}
         /\ policy = "tracking" => c.kind \in {"on", "off", "replace", "allow"}
<1>1. CASE c \in Policies!EnrollmentSettings /\ policy = "enrollment"
  BY <1>1 DEF Policies!EnrollmentSettings, Policies!Lists
<1>2. CASE c = Policies!IssueToken /\ policy = "enrollment"
  BY <1>2 DEF Policies!IssueToken, Policies!None
<1>3. CASE c = Policies!DeleteToken /\ policy = "enrollment"
  BY <1>3 DEF Policies!DeleteToken, Policies!None
<1>4. CASE c \in {[Policies!None EXCEPT !.kind = k] : k \in {"on", "off"}} /\ policy = "tracking"
  BY <1>4 DEF Policies!None
<1>5. CASE c \in {[Policies!None EXCEPT !.kind = "replace", !.list = l] : l \in Policies!Lists}
           /\ policy = "tracking"
  <2>1. PICK l \in Policies!Lists : c = [Policies!None EXCEPT !.kind = "replace", !.list = l]
    BY <1>5
  <2>2. c.kind = "replace" /\ c.list = l /\ c.mode = ""
    BY <2>1 DEF Policies!None
  <2>. QED BY <1>5, <2>1, <2>2 DEF Policies!Lists
<1>6. CASE c \in Policies!AllowHost /\ policy = "tracking"
  <2>1. PICK h \in Host : c = [Policies!None EXCEPT !.kind = "allow", !.list = {{h}}]
    BY <1>6 DEF Policies!AllowHost
  <2>2. c.kind = "allow" /\ c.list = {{h}} /\ c.mode = ""
    BY <2>1 DEF Policies!None
  <2>. QED BY <1>6, <2>1, <2>2
<1>. QED BY <1>1, <1>2, <1>3, <1>4, <1>5, <1>6 DEF Policies!Changes, Policies!TrackingSettings

LEMMA DocFields ==
  ASSUME NEW d \in PolicyDocs
  PROVE  /\ d.version \in 0 .. MaxVersions /\ d.enabled \in BOOLEAN /\ d.protected \in BOOLEAN
         /\ d.token \in 0 .. MaxVersions /\ d.restricted \in BOOLEAN /\ d.hosts \in SUBSET Host
BY DEF PolicyDocs, Policies!Documents

LEMMA DocSets ==
  ASSUME NEW d \in PolicyDocs
  PROVE  /\ \A v \in 0 .. MaxVersions : [d EXCEPT !.version = v] \in PolicyDocs
         /\ \A b \in BOOLEAN : /\ [d EXCEPT !.enabled = b] \in PolicyDocs
                               /\ [d EXCEPT !.protected = b] \in PolicyDocs
                               /\ [d EXCEPT !.restricted = b] \in PolicyDocs
         /\ \A v \in 0 .. MaxVersions : [d EXCEPT !.token = v] \in PolicyDocs
         /\ \A h \in SUBSET Host : [d EXCEPT !.hosts = h] \in PolicyDocs
BY DEF PolicyDocs, Policies!Documents

(* What each change makes of a document.                                      *)
LEMMA AppliedSettings ==
  ASSUME NEW c, NEW d \in PolicyDocs, d.version < MaxVersions, c.kind = "settings",
         UNION c.list \subseteq Host
  PROVE  LET e == Policies!Applied(c, d)
         IN  /\ e \in PolicyDocs /\ e.version = d.version + 1 /\ e.token = d.token
             /\ e.protected = (IF c.mode = "disabled" THEN d.protected ELSE c.mode = "token")
<1>. DEFINE v == d.version + 1
            enabled == c.mode # "disabled"
            protected == IF c.mode = "disabled" THEN d.protected ELSE c.mode = "token"
            restricted == IF c.network = "" THEN d.restricted ELSE c.network = "allowlist"
            hosts == IF c.list = {} THEN d.hosts ELSE UNION c.list
            e == [[[[[d EXCEPT !.version = v] EXCEPT !.enabled = enabled]
                    EXCEPT !.protected = protected] EXCEPT !.restricted = restricted]
                    EXCEPT !.hosts = hosts]
<1>1. v \in 0 .. MaxVersions /\ enabled \in BOOLEAN /\ hosts \in SUBSET Host
  BY PolicyAssumption, DocFields
<1>2. protected \in BOOLEAN /\ restricted \in BOOLEAN
  BY DocFields
<1>3. Policies!Applied(c, d) = e
  BY DEF Policies!Applied, PolicyDocs, Policies!Documents
<1>. HIDE DEF v, enabled, protected, restricted, hosts
<1>4. e \in PolicyDocs
  BY <1>1, <1>2, DocSets
<1>5. e.version = v /\ e.token = d.token /\ e.protected = protected
  BY DEF PolicyDocs, Policies!Documents
<1>. QED BY <1>3, <1>4, <1>5 DEF v, protected

LEMMA AppliedIssue ==
  ASSUME NEW c, NEW d \in PolicyDocs, d.version < MaxVersions, c.kind = "issue"
  PROVE  LET e == Policies!Applied(c, d)
         IN  /\ e \in PolicyDocs /\ e.version = d.version + 1 /\ e.token = d.version + 1
             /\ e.restricted = d.restricted /\ e.hosts = d.hosts
<1>. DEFINE v == d.version + 1
            e == [[[[d EXCEPT !.version = v] EXCEPT !.enabled = TRUE]
                    EXCEPT !.protected = TRUE] EXCEPT !.token = v]
<1>1. v \in 0 .. MaxVersions
  BY PolicyAssumption, DocFields
<1>2. Policies!Applied(c, d) = e
  BY DEF Policies!Applied, PolicyDocs, Policies!Documents
<1>. HIDE DEF v
<1>3. e \in PolicyDocs
  BY <1>1, DocSets
<1>4. e.version = v /\ e.token = v /\ e.restricted = d.restricted /\ e.hosts = d.hosts
  BY DEF PolicyDocs, Policies!Documents
<1>. QED BY <1>2, <1>3, <1>4 DEF v

LEMMA AppliedDelete ==
  ASSUME NEW c, NEW d \in PolicyDocs, d.version < MaxVersions, c.kind = "delete"
  PROVE  LET e == Policies!Applied(c, d)
         IN  /\ e \in PolicyDocs /\ e.version = d.version + 1 /\ e.token = 0 /\ ~ e.protected
             /\ e.restricted = d.restricted /\ e.hosts = d.hosts
<1>. DEFINE v == d.version + 1
            e == [[[d EXCEPT !.version = v] EXCEPT !.protected = FALSE] EXCEPT !.token = 0]
<1>1. v \in 0 .. MaxVersions /\ 0 \in 0 .. MaxVersions
  BY PolicyAssumption, DocFields
<1>2. Policies!Applied(c, d) = e
  BY DEF Policies!Applied, PolicyDocs, Policies!Documents
<1>. HIDE DEF v
<1>3. e \in PolicyDocs
  BY <1>1, DocSets
<1>4. e.version = v /\ e.token = 0 /\ ~ e.protected /\ e.restricted = d.restricted /\ e.hosts = d.hosts
  BY DEF PolicyDocs, Policies!Documents
<1>. QED BY <1>2, <1>3, <1>4 DEF v

LEMMA AppliedTracking ==
  ASSUME NEW c, NEW d \in PolicyDocs, d.version < MaxVersions,
         c.kind \in {"on", "off", "replace", "allow"}, UNION c.list \subseteq Host
  PROVE  LET e == Policies!Applied(c, d)
         IN  /\ e \in PolicyDocs /\ e.version = d.version + 1 /\ e.token = d.token
             /\ e.protected = d.protected /\ e.restricted = d.restricted
             /\ e.hosts = IF c.kind = "allow" THEN d.hosts \cup UNION c.list
                          ELSE IF c.kind = "replace" THEN UNION c.list ELSE d.hosts
<1>. DEFINE v == d.version + 1
            new == [d EXCEPT !.version = v]
            all == d.hosts \cup UNION c.list
            on == c.kind = "on"
<1>1. v \in 0 .. MaxVersions /\ all \in SUBSET Host /\ UNION c.list \in SUBSET Host /\ on \in BOOLEAN
  BY PolicyAssumption, DocFields
<1>2. Policies!Applied(c, d) =
        IF c.kind \in {"on", "off"} THEN [new EXCEPT !.enabled = on]
        ELSE IF c.kind = "allow" THEN [new EXCEPT !.hosts = all]
        ELSE [new EXCEPT !.hosts = UNION c.list]
  BY DEF Policies!Applied, PolicyDocs, Policies!Documents
<1>. HIDE DEF v, all, on
<1>3. /\ [new EXCEPT !.enabled = on] \in PolicyDocs /\ [new EXCEPT !.hosts = all] \in PolicyDocs
      /\ [new EXCEPT !.hosts = UNION c.list] \in PolicyDocs
  BY <1>1, DocSets
<1>4. ASSUME NEW e \in {[new EXCEPT !.enabled = on], [new EXCEPT !.hosts = all],
                        [new EXCEPT !.hosts = UNION c.list]}
      PROVE  /\ e.version = v /\ e.token = d.token /\ e.protected = d.protected
             /\ e.restricted = d.restricted
  BY <1>4 DEF PolicyDocs, Policies!Documents
<1>5. /\ [new EXCEPT !.enabled = on].hosts = d.hosts /\ [new EXCEPT !.hosts = all].hosts = all
      /\ [new EXCEPT !.hosts = UNION c.list].hosts = UNION c.list
  BY DEF PolicyDocs, Policies!Documents
<1>6. CASE c.kind \in {"on", "off"}
  BY <1>2, <1>3, <1>4, <1>5, <1>6 DEF v
<1>7. CASE c.kind = "allow"
  BY <1>2, <1>3, <1>4, <1>5, <1>7 DEF v, all
<1>8. CASE c.kind = "replace"
  BY <1>2, <1>3, <1>4, <1>5, <1>8 DEF v
<1>. QED BY <1>6, <1>7, <1>8

LEMMA InitialDoc ==
  /\ Policies!Initial \in PolicyDocs /\ Policies!Initial.version = 0
  /\ Policies!Initial.token = 0 /\ Policies!Initial.hosts = {}
  /\ ~ Policies!Initial.protected /\ ~ Policies!Initial.restricted
BY PolicyAssumption DEF Policies!Initial, PolicyDocs, Policies!Documents

LEMMA RestingWriter ==
  Policies!Resting \in PolicyWriters /\ Policies!Resting.step = "rest"
BY InitialDoc, PolicyAssumption DEF Policies!Resting, PolicyWriters

LEMMA PolicyInitial ==
  ASSUME Policies!Init
  PROVE  PolicyInv
<1>1. /\ document = Policies!Initial /\ writer \in [Writer -> PolicyWriters]
      /\ \A w \in Writer : writer[w].step = "rest"
  BY RestingWriter DEF Policies!Init
<1>2. Policies!TypeOK
  <2>1. document \in PolicyDocs /\ 0 \in 0 .. MaxVersions
    BY <1>1, InitialDoc, PolicyAssumption
  <2>2. /\ policy \in {"enrollment", "tracking"} /\ allowed \subseteq Host /\ issued = 0
        /\ early \in BOOLEAN
    BY DEF Policies!Init
  <2>. QED BY <1>1, <2>1, <2>2 DEF Policies!TypeOK, PolicyDocs, PolicyWriters
<1>. QED BY <1>1, <1>2, InitialDoc
     DEF Policies!Init, PolicyInv, Policies!NoChangeLost, Policies!PolicyStaysReadable,
         Policies!GivesUpOvertaken, WriterOK

LEMMA PolicyTypes ==
  ASSUME PolicyInv, NEW w \in Writer
  PROVE  /\ policy \in {"enrollment", "tracking"} /\ document \in PolicyDocs
         /\ writer \in [Writer -> PolicyWriters] /\ writer[w] \in PolicyWriters
         /\ WriterOK(w) /\ document.version \in 0 .. MaxVersions
BY DocFields DEF PolicyInv, Policies!TypeOK, PolicyDocs, PolicyWriters

(* A request that neither moves nor holds the stored document keeps its claims *)
(* when the document grows.                                                   *)
LEMMA WriterWaits ==
  ASSUME PolicyInv, NEW w \in Writer, writer'[w] = writer[w], policy' = policy,
         document' \in PolicyDocs,
         document' = document \/ document'.version > document.version
  PROVE  WriterOK(w)'
<1>1. /\ WriterOK(w) /\ document.version \in Nat /\ document'.version \in Nat
      /\ writer[w].read.version \in Nat /\ writer[w].since \in Nat /\ writer[w].tries \in Nat
  BY PolicyTypes, DocFields DEF PolicyWriters
<1>2. Policies!Changes' = Policies!Changes
  BY DEF Policies!Changes
<1>3. Policies!Accepted(writer[w].change, writer[w].read)'
        = Policies!Accepted(writer[w].change, writer[w].read)
  BY DEF Policies!Accepted, Policies!Applied
<1>4. document'.version >= document.version
  BY <1>1
<1>5. writer[w].step = "rest" \/ writer[w].since + writer[w].tries <= document'.version
  BY <1>1, <1>4 DEF WriterOK
<1>6. ASSUME writer[w].step = "save"
      PROVE  /\ writer[w].read.version <= document'.version
             /\ writer[w].read.version = document'.version => writer[w].read = document'
  BY <1>1, <1>4, <1>6 DEF WriterOK
<1>7. (writer[w].step # "rest" => /\ writer[w].change \in Policies!Changes
                                /\ writer[w].tries < Attempts) /\
      (writer[w].step = "save" => /\ writer[w].read.version < MaxVersions
       /\ writer[w].since + writer[w].tries <= writer[w].read.version
       /\ Policies!Accepted(writer[w].change, writer[w].read))
  BY <1>1 DEF WriterOK
<1>. QED BY <1>2, <1>3, <1>5, <1>6, <1>7 DEF WriterOK

LEMMA PolicyMoves ==
  ASSUME PolicyInv, NEW w \in Writer, policy' = policy,
         writer' \in [Writer -> PolicyWriters], \A q \in Writer : q # w => writer'[q] = writer[q],
         document' \in PolicyDocs, document' = document \/ document'.version > document.version,
         issued' \in 0 .. MaxVersions, allowed' \subseteq Host, early' = FALSE,
         Policies!NoChangeLost', Policies!PolicyStaysReadable',
         policy = "tracking" => ~ document'.restricted,
         WriterOK(w)'
  PROVE  PolicyInv'
<1>1. Policies!Changes' = Policies!Changes
  BY DEF Policies!Changes
<1>2. Policies!TypeOK'
  BY <1>1, PolicyTypes DEF Policies!TypeOK, PolicyDocs, PolicyWriters
<1>3. \A q \in Writer : WriterOK(q)'
  BY WriterWaits
<1>. QED BY <1>2, <1>3 DEF PolicyInv, Policies!GivesUpOvertaken

PolicyAsked(c, n) == [[[Policies!Resting EXCEPT !.step = "load"] EXCEPT !.change = c] EXCEPT !.since = n]

LEMMA PolicyAsks ==
  ASSUME PolicyInv, NEW w \in Writer, NEW c \in Policies!Changes, Policies!Ask(w, c)
  PROVE  PolicyInv'
<1>1. /\ document \in PolicyDocs /\ writer \in [Writer -> PolicyWriters]
      /\ document.version \in 0 .. MaxVersions
  BY PolicyTypes
<1>2. /\ UNCHANGED <<policy, document, allowed, issued, early>>
      /\ writer' = [writer EXCEPT ![w] = [Policies!Resting EXCEPT
                      !.step = "load", !.change = c, !.since = document.version]]
  BY DEF Policies!Ask
<1>. DEFINE n == document.version
            new == PolicyAsked(c, n)
<1>3. new = [Policies!Resting EXCEPT !.step = "load", !.change = c, !.since = n]
  BY DEF PolicyAsked, Policies!Resting
<1>4. ASSUME NEW r \in PolicyWriters
      PROVE  /\ [r EXCEPT !.step = "load"] \in PolicyWriters
             /\ [r EXCEPT !.change = c] \in PolicyWriters
             /\ [r EXCEPT !.since = n] \in PolicyWriters
  BY <1>1 DEF PolicyWriters
<1>5. new \in PolicyWriters
  <2>. HIDE DEF n
  <2>. QED BY <1>4, RestingWriter DEF PolicyAsked
<1>6. new.step = "load" /\ new.change = c /\ new.since = n /\ new.tries = 0
  BY DEF PolicyAsked, Policies!Resting
<1>. HIDE DEF new
<1>7. /\ writer' \in [Writer -> PolicyWriters] /\ writer'[w] = new
      /\ \A q \in Writer : q # w => writer'[q] = writer[q]
  BY <1>1, <1>2, <1>3, <1>5
<1>8. Policies!Changes' = Policies!Changes
  BY <1>2 DEF Policies!Changes
<1>9. WriterOK(w)'
  <2>1. /\ writer'[w].step = "load" /\ writer'[w].change = c /\ writer'[w].tries = 0
        /\ writer'[w].since = n
    BY <1>6, <1>7
  <2>2. 0 < Attempts /\ n \in Nat /\ document' = document
    BY <1>1, <1>2, PolicyAssumption
  <2>3. writer'[w].since + writer'[w].tries <= document'.version
    BY <2>1, <2>2
  <2>. QED BY <1>8, <2>1, <2>2, <2>3 DEF WriterOK
<1>10. /\ issued \in 0 .. MaxVersions /\ allowed \subseteq Host /\ early = FALSE
       /\ Policies!NoChangeLost' /\ Policies!PolicyStaysReadable'
       /\ policy = "tracking" => ~ document.restricted
  BY <1>2 DEF PolicyInv, Policies!TypeOK, Policies!NoChangeLost, Policies!PolicyStaysReadable,
     Policies!GivesUpOvertaken
<1>. QED BY <1>1, <1>2, <1>7, <1>9, <1>10, PolicyMoves

(* What the first load of the enrollment policy stores.                       *)
First(t) == [Policies!Initial EXCEPT !.version = 1, !.enabled = TRUE, !.protected = (t # 0),
                                     !.token = t]

LEMMA FirstDocument ==
  ASSUME NEW t \in {0, 1}
  PROVE  /\ First(t) \in PolicyDocs /\ First(t).version = 1 /\ First(t).token = t
         /\ First(t).protected = (t # 0) /\ ~ First(t).restricted
<1>. DEFINE e == [[[[Policies!Initial EXCEPT !.version = 1] EXCEPT !.enabled = TRUE]
                     EXCEPT !.protected = (t # 0)] EXCEPT !.token = t]
<1>1. e = First(t)
  BY DEF First, Policies!Initial
<1>2. 1 \in 0 .. MaxVersions /\ t \in 0 .. MaxVersions /\ (t # 0) \in BOOLEAN
  BY PolicyAssumption
<1>3. e \in PolicyDocs
  BY <1>2, InitialDoc, DocSets
<1>4. e.version = 1 /\ e.token = t /\ e.protected = (t # 0) /\ ~ e.restricted
  BY DEF Policies!Initial
<1>. QED BY <1>1, <1>3, <1>4

LEMMA PolicyLoads ==
  ASSUME PolicyInv, NEW w \in Writer, Policies!Load(w)
  PROVE  PolicyInv'
<1>1. /\ document \in PolicyDocs /\ writer \in [Writer -> PolicyWriters]
      /\ document.version \in 0 .. MaxVersions /\ writer[w] \in PolicyWriters /\ WriterOK(w)
      /\ issued \in 0 .. MaxVersions /\ allowed \subseteq Host
      /\ document.token = issued /\ Policies!PolicyStaysReadable
      /\ policy = "tracking" => document.hosts = allowed /\ ~ document.restricted
  BY PolicyTypes DEF PolicyInv, Policies!TypeOK, Policies!NoChangeLost
<1>2. writer[w].step = "load" /\ UNCHANGED <<policy, allowed, early>> /\ early' = FALSE
  BY DEF Policies!Load, PolicyInv, Policies!GivesUpOvertaken
<1>3. PICK d \in Policies!Initialised :
        /\ document' = d
        /\ issued' = IF d # document THEN d.token ELSE issued
        /\ writer' = [writer EXCEPT ![w] =
             IF Policies!Accepted(@.change, d) /\ d.version < MaxVersions
               THEN [@ EXCEPT !.step = "save", !.read = d] ELSE Policies!Resting]
  BY DEF Policies!Load
<1>4. \/ d = document
      \/ /\ policy = "enrollment" /\ document.version = 0 /\ d \in PolicyDocs
         /\ d.version = 1 /\ d.protected = (d.token # 0) /\ ~ d.restricted
  <2>1. CASE policy = "enrollment" /\ document.version = 0
    <3>1. PICK t \in {0, 1} : d = First(t)
      BY <1>3, <2>1 DEF Policies!Initialised, First
    <3>2. /\ d \in PolicyDocs /\ d.version = 1 /\ d.token = t /\ d.protected = (t # 0)
          /\ ~ d.restricted
      BY <3>1, FirstDocument
    <3>. QED BY <2>1, <3>2
  <2>2. CASE ~ (policy = "enrollment" /\ document.version = 0)
    BY <1>3, <2>2 DEF Policies!Initialised
  <2>. QED BY <2>1, <2>2
<1>5. /\ d \in PolicyDocs /\ d.version \in 0 .. MaxVersions /\ d.version >= document.version
      /\ d = document \/ d.version > document.version
      /\ issued' \in 0 .. MaxVersions
  BY <1>1, <1>3, <1>4, DocFields
<1>. DEFINE new == [[writer[w] EXCEPT !.step = "save"] EXCEPT !.read = d]
<1>6. ASSUME NEW r \in PolicyWriters
      PROVE  [r EXCEPT !.step = "save"] \in PolicyWriters /\ [r EXCEPT !.read = d] \in PolicyWriters
  BY <1>5 DEF PolicyWriters
<1>7. /\ new \in PolicyWriters /\ new.step = "save" /\ new.read = d
      /\ new.change = writer[w].change /\ new.tries = writer[w].tries
      /\ new.since = writer[w].since
      /\ new = [writer[w] EXCEPT !.step = "save", !.read = d]
  <2>1. new \in PolicyWriters
    BY <1>1, <1>6
  <2>. QED BY <1>1, <2>1 DEF PolicyWriters
<1>. HIDE DEF new
<1>8. writer' = [writer EXCEPT ![w] =
                   IF Policies!Accepted(writer[w].change, d) /\ d.version < MaxVersions
                     THEN new ELSE Policies!Resting]
  BY <1>1, <1>3, <1>7
<1>9. /\ writer' \in [Writer -> PolicyWriters]
      /\ \A q \in Writer : q # w => writer'[q] = writer[q]
      /\ \/ writer'[w].step = "rest"
         \/ writer'[w] = new /\ Policies!Accepted(writer[w].change, d) /\ d.version < MaxVersions
  BY <1>1, <1>7, <1>8, RestingWriter
<1>10. WriterOK(w)'
  <2>1. Policies!Changes' = Policies!Changes
    BY <1>2 DEF Policies!Changes
  <2>2. CASE writer'[w].step = "rest"
    BY <2>2 DEF WriterOK
  <2>3. CASE writer'[w] = new /\ Policies!Accepted(writer[w].change, d) /\ d.version < MaxVersions
    <3>1. Policies!Accepted(writer[w].change, writer[w].read)' = Policies!Accepted(writer[w].change, d)
      <4>1. writer'[w].change = writer[w].change /\ writer'[w].read = d
        BY Zenon, <1>7, <2>3
      <4>. QED BY <4>1
    <3>2. /\ writer[w].since \in Nat /\ writer[w].tries \in Nat
          /\ writer[w].since + writer[w].tries <= document.version
          /\ writer[w].change \in Policies!Changes /\ writer[w].tries < Attempts
      BY <1>1, <1>2 DEF WriterOK, PolicyWriters
    <3>3. writer[w].since + writer[w].tries <= d.version
      BY <1>1, <1>5, <3>2
    <3>4. /\ writer'[w].change = writer[w].change /\ writer'[w].tries = writer[w].tries
          /\ writer'[w].since = writer[w].since /\ writer'[w].read = d /\ document' = d
      BY Zenon, <1>3, <1>7, <2>3
    <3>5. d.version < MaxVersions /\ d.version <= d.version
      BY <1>5, <2>3
    <3>. QED BY <2>1, <2>3, <3>1, <3>2, <3>3, <3>4, <3>5 DEF WriterOK
  <2>. QED BY <1>9, <2>2, <2>3
<1>11. /\ Policies!NoChangeLost' /\ Policies!PolicyStaysReadable'
       /\ policy = "tracking" => ~ document'.restricted
  BY <1>1, <1>2, <1>3, <1>4 DEF Policies!NoChangeLost, Policies!PolicyStaysReadable
<1>. QED BY <1>1, <1>2, <1>3, <1>5, <1>9, <1>10, <1>11, PolicyMoves

(* What a change that was admitted makes of a readable document.              *)
LEMMA ChangeKeepsReadable ==
  ASSUME policy \in {"enrollment", "tracking"}, NEW c \in Policies!Changes, NEW d \in PolicyDocs,
         d.version < MaxVersions, Policies!Accepted(c, d),
         d.protected => d.token # 0, d.restricted => d.hosts # {},
         policy = "tracking" => ~ d.restricted
  PROVE  LET e == Policies!Applied(c, d)
         IN  /\ e \in PolicyDocs /\ e.version = d.version + 1
             /\ e.protected => e.token # 0
             /\ e.restricted => e.hosts # {}
             /\ policy = "tracking" => ~ e.restricted
             /\ e.token = IF c.kind = "issue" THEN e.version
                          ELSE IF c.kind = "delete" THEN 0 ELSE d.token
             /\ policy = "tracking" =>
                  e.hosts = IF c.kind = "allow" THEN d.hosts \cup UNION c.list
                            ELSE IF c.kind = "replace" THEN UNION c.list ELSE d.hosts
             /\ c.kind = "replace" \/ c.kind = "allow" => UNION c.list \subseteq Host
<1>. DEFINE e == Policies!Applied(c, d)
<1>0. d.version \in Nat /\ d.token \in Nat
  BY DocFields, PolicyAssumption
<1>1. /\ UNION c.list \subseteq Host
      /\ c.kind = "settings" => c.mode \in {"disabled", "open", "token"}
      /\ policy = "enrollment" => c.kind \in {"settings", "issue", "delete"}
      /\ policy = "tracking" => c.kind \in {"on", "off", "replace", "allow"}
  BY Zenon, ChangesKnown
<1>2. CASE c.kind = "settings"
  <2>1. /\ e \in PolicyDocs /\ e.version = d.version + 1 /\ e.token = d.token
        /\ e.protected = (IF c.mode = "disabled" THEN d.protected ELSE c.mode = "token")
    BY <1>1, <1>2, AppliedSettings
  <2>2. (c.mode = "token" => d.token # 0) /\ (e.restricted => e.hosts # {})
    BY <1>2 DEF Policies!Accepted
  <2>. QED BY <1>0, <1>1, <1>2, <2>1, <2>2
<1>3. CASE c.kind = "issue"
  <2>1. /\ e \in PolicyDocs /\ e.version = d.version + 1 /\ e.token = d.version + 1
        /\ e.restricted = d.restricted /\ e.hosts = d.hosts
    BY <1>3, AppliedIssue
  <2>. QED BY <1>0, <1>1, <1>3, <2>1
<1>4. CASE c.kind = "delete"
  <2>1. /\ e \in PolicyDocs /\ e.version = d.version + 1 /\ e.token = 0 /\ ~ e.protected
        /\ e.restricted = d.restricted /\ e.hosts = d.hosts
    BY <1>4, AppliedDelete
  <2>. QED BY <1>1, <1>4, <2>1
<1>5. CASE c.kind \in {"on", "off", "replace", "allow"}
  <2>1. /\ e \in PolicyDocs /\ e.version = d.version + 1 /\ e.token = d.token
        /\ e.protected = d.protected /\ e.restricted = d.restricted
        /\ e.hosts = IF c.kind = "allow" THEN d.hosts \cup UNION c.list
                     ELSE IF c.kind = "replace" THEN UNION c.list ELSE d.hosts
    BY <1>1, <1>5, AppliedTracking
  <2>2. d.restricted => policy = "enrollment"
    OBVIOUS
  <2>. QED BY <1>1, <1>5, <2>1, <2>2
<1>. QED BY <1>1, <1>2, <1>3, <1>4, <1>5

Again(old, n) == [[old EXCEPT !.step = "load"] EXCEPT !.tries = n]

LEMMA AgainTyped ==
  ASSUME NEW old \in PolicyWriters, NEW n \in 0 .. Attempts
  PROVE  /\ Again(old, n) \in PolicyWriters /\ Again(old, n).step = "load"
         /\ Again(old, n).tries = n /\ Again(old, n).change = old.change
         /\ Again(old, n).since = old.since
         /\ Again(old, n) = [old EXCEPT !.step = "load", !.tries = n]
<1>1. ASSUME NEW r \in PolicyWriters
      PROVE  [r EXCEPT !.step = "load"] \in PolicyWriters /\ [r EXCEPT !.tries = n] \in PolicyWriters
  BY DEF PolicyWriters
<1>2. Again(old, n) \in PolicyWriters
  BY <1>1 DEF Again
<1>. QED BY <1>2 DEF Again, PolicyWriters

LEMMA PolicySaves ==
  ASSUME PolicyInv, NEW w \in Writer, Policies!Save(w)
  PROVE  PolicyInv'
<1>. DEFINE c == writer[w].change
            read == writer[w].read
            d == Policies!Applied(c, read)
            tries == writer[w].tries + 1
<1>1. /\ policy \in {"enrollment", "tracking"} /\ document \in PolicyDocs
      /\ writer \in [Writer -> PolicyWriters] /\ document.version \in 0 .. MaxVersions
      /\ writer[w] \in PolicyWriters /\ WriterOK(w)
      /\ issued \in 0 .. MaxVersions /\ allowed \subseteq Host /\ early = FALSE
      /\ document.token = issued /\ Policies!PolicyStaysReadable
      /\ policy = "tracking" => document.hosts = allowed /\ ~ document.restricted
  BY PolicyTypes DEF PolicyInv, Policies!TypeOK, Policies!NoChangeLost, Policies!GivesUpOvertaken
<1>2. writer[w].step = "save" /\ policy' = policy
  BY DEF Policies!Save
<1>3. /\ c \in Policies!Changes /\ read \in PolicyDocs /\ read.version < MaxVersions
      /\ Policies!Accepted(c, read) /\ read.version <= document.version
      /\ read.version = document.version => read = document
      /\ writer[w].since \in 0 .. MaxVersions /\ writer[w].tries \in 0 .. Attempts
      /\ writer[w].since + writer[w].tries <= read.version /\ writer[w].tries < Attempts
  BY <1>1, <1>2 DEF WriterOK, PolicyWriters
<1>4. read.version \in Nat /\ document.version \in Nat /\ Attempts \in Nat
  BY <1>1, <1>3, DocFields, PolicyAssumption
<1>5. CASE /\ document = read /\ document' = d /\ Policies!Acknowledge(c, d)
           /\ writer' = [writer EXCEPT ![w] = Policies!Resting] /\ UNCHANGED early
  <2>1. /\ read.protected => read.token # 0
        /\ read.restricted => read.hosts # {}
        /\ policy = "tracking" => ~ read.restricted
    BY <1>1, <1>5 DEF Policies!PolicyStaysReadable
  <2>. HIDE DEF c, read
  <2>2. /\ d \in PolicyDocs /\ d.version = read.version + 1
        /\ d.protected => d.token # 0
        /\ d.restricted => d.hosts # {}
        /\ policy = "tracking" => ~ d.restricted
        /\ d.token = IF c.kind = "issue" THEN d.version
                     ELSE IF c.kind = "delete" THEN 0 ELSE read.token
        /\ policy = "tracking" =>
             d.hosts = IF c.kind = "allow" THEN read.hosts \cup UNION c.list
                       ELSE IF c.kind = "replace" THEN UNION c.list ELSE read.hosts
        /\ c.kind = "replace" \/ c.kind = "allow" => UNION c.list \subseteq Host
    BY <1>1, <1>3, <2>1, ChangeKeepsReadable
  <2>. HIDE DEF d
  <2>3. /\ document' = d /\ document = read /\ early' = FALSE
        /\ allowed' = IF c.kind = "allow" THEN allowed \cup UNION c.list
                ELSE IF c.kind = "replace" THEN UNION c.list ELSE allowed
        /\ issued' = IF c.kind = "issue" THEN d.token ELSE IF c.kind = "delete" THEN 0 ELSE issued
    BY <1>1, <1>5 DEF Policies!Acknowledge
  <2>4. d.token \in 0 .. MaxVersions /\ 0 \in 0 .. MaxVersions
    BY <2>2, DocFields, PolicyAssumption
  <2>5. issued' = d.token /\ issued' \in 0 .. MaxVersions /\ allowed' \subseteq Host
    BY <1>1, <2>2, <2>3, <2>4
  <2>6. policy = "tracking" => d.hosts = allowed'
    BY <1>1, <2>2, <2>3
  <2>7. Policies!NoChangeLost' /\ Policies!PolicyStaysReadable'
    BY <1>2, <2>2, <2>3, <2>5, <2>6 DEF Policies!NoChangeLost, Policies!PolicyStaysReadable
  <2>8. /\ writer' \in [Writer -> PolicyWriters] /\ writer'[w].step = "rest"
        /\ \A q \in Writer : q # w => writer'[q] = writer[q]
    BY <1>1, <1>5, RestingWriter
  <2>9. WriterOK(w)'
    BY <2>8 DEF WriterOK
  <2>10. document' \in PolicyDocs /\ document'.version > document.version
    BY <1>4, <2>2, <2>3
  <2>. QED BY <1>2, <2>2, <2>3, <2>5, <2>7, <2>8, <2>9, <2>10, PolicyMoves
<1>6. CASE /\ document # read
           /\ writer' = [writer EXCEPT ![w] = IF tries < Attempts
                           THEN [@ EXCEPT !.step = "load", !.tries = tries] ELSE Policies!Resting]
           /\ early' = (early \/ (tries = Attempts /\ document.version < writer[w].since + tries))
           /\ UNCHANGED <<document, allowed, issued>>
  <2>1. writer[w].since + tries <= document.version /\ tries \in 0 .. Attempts
    BY <1>3, <1>4, <1>6
  <2>2. early' = FALSE
    <3>1. ~ (document.version < writer[w].since + tries)
      BY <1>3, <1>4, <2>1
    <3>. HIDE DEF tries
    <3>. QED BY Zenon, <1>1, <1>6, <3>1
  <2>. DEFINE new == Again(writer[w], tries)
  <2>3. /\ new \in PolicyWriters /\ new.step = "load" /\ new.tries = tries
        /\ new.change = c /\ new.since = writer[w].since
        /\ new = [writer[w] EXCEPT !.step = "load", !.tries = tries]
    BY <1>1, <2>1, AgainTyped
  <2>. HIDE DEF new
  <2>4. writer' = [writer EXCEPT ![w] = IF tries < Attempts THEN new ELSE Policies!Resting]
    BY <1>1, <1>6, <2>3
  <2>5. /\ writer' \in [Writer -> PolicyWriters]
        /\ \A q \in Writer : q # w => writer'[q] = writer[q]
        /\ \/ writer'[w].step = "rest"
           \/ writer'[w] = new /\ tries < Attempts
    BY <1>1, <2>3, <2>4, RestingWriter
  <2>6. Policies!Changes' = Policies!Changes
    BY <1>2 DEF Policies!Changes
  <2>7. WriterOK(w)'
    <3>1. CASE writer'[w].step = "rest"
      BY <3>1 DEF WriterOK
    <3>2. CASE writer'[w] = new /\ tries < Attempts
      <4>1. /\ writer'[w].step = "load" /\ writer'[w].tries = tries
            /\ writer'[w].change = c /\ writer'[w].since = writer[w].since
        BY Zenon, <2>3, <3>2
      <4>2. document' = document
        BY <1>6
      <4>. QED BY <1>3, <2>1, <2>6, <3>2, <4>1, <4>2 DEF WriterOK
    <3>. QED BY <2>5, <3>1, <3>2
  <2>8. Policies!NoChangeLost' /\ Policies!PolicyStaysReadable'
    BY <1>1, <1>2, <1>6 DEF Policies!NoChangeLost, Policies!PolicyStaysReadable
  <2>9. /\ document' \in PolicyDocs /\ document' = document
        /\ issued' \in 0 .. MaxVersions /\ allowed' \subseteq Host
        /\ policy = "tracking" => ~ document'.restricted
    BY <1>1, <1>6
  <2>. QED BY <1>2, <2>2, <2>5, <2>7, <2>8, <2>9, PolicyMoves
<1>7. \/ /\ document = read /\ document' = d /\ Policies!Acknowledge(c, d)
         /\ writer' = [writer EXCEPT ![w] = Policies!Resting] /\ UNCHANGED early
      \/ /\ document # read
         /\ writer' = [writer EXCEPT ![w] = IF tries < Attempts
                         THEN [@ EXCEPT !.step = "load", !.tries = tries] ELSE Policies!Resting]
         /\ early' = (early \/ (tries = Attempts /\ document.version < writer[w].since + tries))
         /\ UNCHANGED <<document, allowed, issued>>
  BY Zenon DEF Policies!Save, Policies!StillRead
<1>. QED BY Zenon, <1>5, <1>6, <1>7

LEMMA PolicyStep ==
  ASSUME PolicyInv, [Policies!Next]_ofPolicies
  PROVE  PolicyInv'
<1>1. CASE UNCHANGED ofPolicies
  <2>1. UNCHANGED <<policy, document, writer, allowed, issued, early>>
    BY <1>1 DEF ofPolicies
  <2>2. Policies!Changes' = Policies!Changes
    BY <2>1 DEF Policies!Changes
  <2>3. \A w \in Writer : WriterOK(w)'
    BY <2>1, WriterWaits, PolicyTypes
  <2>. QED BY <2>1, <2>2, <2>3 DEF PolicyInv, Policies!TypeOK, Policies!NoChangeLost,
     Policies!PolicyStaysReadable, Policies!GivesUpOvertaken
<1>2. CASE Policies!Next
  BY Zenon, <1>2, PolicyAsks, PolicyLoads, PolicySaves DEF Policies!Next
<1>. QED BY <1>1, <1>2

-----------------------------------------------------------------------------
(***************************************************************************)
(* The settings and their history (httpapi/settings.go).                     *)
(***************************************************************************)
Reqs ==
  [step : {"rest", "read", "write"}, items : Seq(Settings!Item), read : Settings!Rows,
   overtaken : BOOLEAN,
   wrote : UNION {[D -> Settings!Rows] : D \in SUBSET Setting},
   logged : UNION {[D -> Settings!Past] : D \in SUBSET Setting}, blind : SUBSET Setting]

(* What a row and its history say of each other, ...                           *)
RowOK(k) ==
  /\ stored[k] \in Settings!Rows /\ history[k] \in [1 .. MaxChanges -> Settings!HistoryRow]
  /\ stored[k].version > 0 => stored[k].value \in Content
  /\ \A v \in 1 .. MaxChanges : Settings!IsLogged(k, v) =>
       /\ history[k][v].after \in Content
       /\ k \notin forked => /\ v <= stored[k].version
                             /\ history[k][v].before = history[k][v].over
  /\ k \notin MailSetting => \A v \in 1 .. stored[k].version : Settings!IsLogged(k, v)

(* ... a request holds the lock on what it has written, which comes next       *)
(* unless the form came between, ...                                          *)
WroteOK(r) ==
  /\ DOMAIN request[r].wrote = DOMAIN request[r].logged
  /\ request[r].blind \subseteq MailSetting
  /\ \A k \in DOMAIN request[r].wrote :
       /\ rowLock[k] = r
       /\ request[r].wrote[k].version \in 1 .. MaxChanges
       /\ request[r].wrote[k].value \in Content
       /\ request[r].logged[k].after \in Content
       /\ k \notin forked \cup request[r].blind =>
            /\ request[r].wrote[k].version = stored[k].version + 1
            /\ request[r].logged[k].before = stored[k].value

(* ... and a row that was read and not saved by the form is still the stored   *)
(* one, or the history has its next version.                                  *)
ReadOK(r) ==
  request[r].step = "write" =>
    /\ request[r].items # << >>
    /\ request[r].read.version < MaxChanges
    /\ request[r].read.version > 0 => request[r].read.value \in Content
    /\ request[r].overtaken => request[r].items[1].setting \in MailSetting
    /\ request[r].items[1].setting \notin forked /\ ~ request[r].overtaken =>
         \/ request[r].read = stored[request[r].items[1].setting]
         \/ Settings!IsLogged(request[r].items[1].setting, request[r].read.version + 1)

SettingsInv ==
  /\ request \in [Requester -> Reqs] /\ \A r \in Requester : Len(request[r].items) <= 2
  /\ rowLock \in [Setting -> Requester \cup {Blank}]
  /\ stored \in [Setting -> Settings!Rows]
  /\ history \in [Setting -> [1 .. MaxChanges -> Settings!HistoryRow]]
  /\ forked \subseteq MailSetting
  /\ \A k \in Setting : RowOK(k)
  /\ \A r \in Requester : WroteOK(r) /\ ReadOK(r)

LEMMA SettingsAreSafe ==
  ASSUME SettingsInv
  PROVE  Settings!TypeOK /\ Settings!HistoryExplains
<1>1. Settings!HistoryExplains
  BY DEF SettingsInv, RowOK, Settings!HistoryExplains
<1>2. ASSUME NEW r \in Requester
      PROVE  /\ request[r].step \in {"rest", "read", "write"}
             /\ request[r].items \in Seq(Settings!Item) /\ Len(request[r].items) <= 2
             /\ request[r].read \in Settings!Rows /\ request[r].overtaken \in BOOLEAN
             /\ request[r].blind \subseteq Setting
             /\ DOMAIN request[r].wrote = DOMAIN request[r].logged
             /\ request[r].wrote \in UNION {[D -> Settings!Rows] : D \in SUBSET Setting}
             /\ request[r].logged \in UNION {[D -> Settings!Past] : D \in SUBSET Setting}
  BY DEF SettingsInv, Reqs, WroteOK
<1>3. ASSUME NEW r \in Requester, NEW k \in DOMAIN request[r].wrote
      PROVE  k \in Setting /\ request[r].wrote[k] \in Settings!Rows
             /\ request[r].logged[k] \in Settings!Past
  <2>1. PICK D \in SUBSET Setting : request[r].wrote \in [D -> Settings!Rows]
    BY <1>2
  <2>2. PICK E \in SUBSET Setting : request[r].logged \in [E -> Settings!Past]
    BY <1>2
  <2>. QED BY <1>2, <1>3, <2>1, <2>2
<1>4. forked \subseteq Setting
  BY SettingsAssumption DEF SettingsInv
<1>5. Settings!TypeOK
  BY <1>2, <1>3, <1>4 DEF Settings!TypeOK, SettingsInv
<1>. QED BY <1>1, <1>5

LEMMA NothingStored ==
  /\ Settings!NoRow \in Settings!Rows /\ Settings!NoRow.version = 0
  /\ Settings!Unlogged \in Settings!HistoryRow /\ Settings!Unlogged.after = Blank
BY SettingsAssumption DEF Settings!NoRow, Settings!Rows, Settings!Unlogged, Settings!HistoryRow

LEMMA FreeRequest ==
  /\ Settings!Free \in Reqs /\ Settings!Free.step = "rest" /\ Settings!Free.items = << >>
  /\ DOMAIN Settings!Free.wrote = {} /\ DOMAIN Settings!Free.logged = {}
  /\ Settings!Free.blind = {}
<1>1. /\ Settings!NoWrites \in [{} -> Settings!Rows] /\ Settings!NoWrites \in [{} -> Settings!Past]
      /\ DOMAIN Settings!NoWrites = {} /\ {} \in SUBSET Setting
  BY DEF Settings!NoWrites
<1>2. /\ Settings!NoWrites \in UNION {[D -> Settings!Rows] : D \in SUBSET Setting}
      /\ Settings!NoWrites \in UNION {[D -> Settings!Past] : D \in SUBSET Setting}
  BY <1>1
<1>3. << >> \in Seq(Settings!Item)
  OBVIOUS
<1>. QED BY <1>1, <1>2, <1>3, NothingStored DEF Settings!Free, Reqs

LEMMA SettingsInitial ==
  ASSUME Settings!Init
  PROVE  SettingsInv
<1>1. /\ stored \in [Setting -> Settings!Rows]
      /\ history \in [Setting -> [1 .. MaxChanges -> Settings!HistoryRow]] /\ forked = {}
  BY NothingStored DEF Settings!Init
<1>2. ASSUME NEW k \in Setting PROVE RowOK(k)
  <2>1. /\ stored[k] = Settings!NoRow
        /\ \A v \in 1 .. MaxChanges : history[k][v] = Settings!Unlogged
    BY DEF Settings!Init
  <2>2. \A v \in 1 .. MaxChanges : ~ Settings!IsLogged(k, v)
    BY <2>1 DEF Settings!IsLogged
  <2>. QED BY <1>1, <2>1, <2>2, NothingStored DEF RowOK
<1>3. ASSUME NEW r \in Requester PROVE WroteOK(r) /\ ReadOK(r) /\ Len(request[r].items) <= 2
  <2>1. request[r] = Settings!Free
    BY DEF Settings!Init
  <2>2. ReadOK(r) /\ Len(request[r].items) <= 2
    BY <2>1, FreeRequest DEF ReadOK
  <2>3. WroteOK(r)
    BY <2>1, FreeRequest DEF WroteOK
  <2>. QED BY <2>2, <2>3
<1>4. request \in [Requester -> Reqs] /\ rowLock \in [Setting -> Requester \cup {Blank}]
  BY FreeRequest DEF Settings!Init
<1>. QED BY <1>1, <1>2, <1>3, <1>4 DEF SettingsInv

LEMMA SettingsTypes ==
  ASSUME SettingsInv, NEW r \in Requester
  PROVE  /\ request \in [Requester -> Reqs] /\ request[r] \in Reqs /\ Len(request[r].items) <= 2
         /\ request[r].items \in Seq(Settings!Item) /\ request[r].read \in Settings!Rows
         /\ request[r].overtaken \in BOOLEAN
         /\ request[r].read.version \in 0 .. MaxChanges /\ MaxChanges \in Nat
         /\ WroteOK(r) /\ ReadOK(r) /\ rowLock \in [Setting -> Requester \cup {Blank}]
         /\ \A k \in Setting : RowOK(k) /\ stored[k] \in Settings!Rows
                               /\ stored[k].version \in 0 .. MaxChanges
BY SettingsAssumption DEF SettingsInv, Reqs, Settings!Rows, RowOK

LEMMA WroteTyped ==
  ASSUME SettingsInv, NEW r \in Requester
  PROVE  /\ DOMAIN request[r].wrote \in SUBSET Setting
         /\ DOMAIN request[r].wrote = DOMAIN request[r].logged
         /\ request[r].wrote \in [DOMAIN request[r].wrote -> Settings!Rows]
         /\ request[r].logged \in [DOMAIN request[r].wrote -> Settings!Past]
<1>1. /\ request[r].wrote \in UNION {[D -> Settings!Rows] : D \in SUBSET Setting}
      /\ request[r].logged \in UNION {[D -> Settings!Past] : D \in SUBSET Setting}
      /\ DOMAIN request[r].wrote = DOMAIN request[r].logged
  BY DEF SettingsInv, Reqs, WroteOK
<1>2. PICK D \in SUBSET Setting : request[r].wrote \in [D -> Settings!Rows]
  BY <1>1
<1>3. PICK E \in SUBSET Setting : request[r].logged \in [E -> Settings!Past]
  BY <1>1
<1>. QED BY <1>1, <1>2, <1>3

(* A request moves, and the others keep what they have locked.                *)
LEMMA RequestMoves ==
  ASSUME SettingsInv, NEW r \in Requester, UNCHANGED <<stored, history, forked>>,
         request' \in [Requester -> Reqs], \A q \in Requester : q # r => request'[q] = request[q],
         Len(request'[r].items) <= 2,
         rowLock' \in [Setting -> Requester \cup {Blank}],
         \A q \in Requester, k \in Setting : q # r /\ rowLock[k] = q => rowLock'[k] = q,
         WroteOK(r)', ReadOK(r)'
  PROVE  SettingsInv'
<1>1. ASSUME NEW k \in Setting PROVE RowOK(k)'
  BY DEF SettingsInv, RowOK, Settings!IsLogged
<1>2. ASSUME NEW q \in Requester, q # r
      PROVE  WroteOK(q)' /\ ReadOK(q)' /\ Len(request'[q].items) <= 2
  <2>1. request'[q] = request[q] /\ WroteOK(q) /\ ReadOK(q) /\ Len(request[q].items) <= 2
    BY <1>2 DEF SettingsInv
  <2>2. DOMAIN request[q].wrote \in SUBSET Setting
    BY WroteTyped
  <2>3. WroteOK(q)'
    BY <1>2, <2>1, <2>2 DEF WroteOK
  <2>4. ReadOK(q)'
    BY <2>1 DEF ReadOK, Settings!IsLogged
  <2>. QED BY <2>1, <2>3, <2>4
<1>. QED BY <1>1, <1>2 DEF SettingsInv

LEMMA RequestEnds ==
  ASSUME SettingsInv, NEW r \in Requester, UNCHANGED <<stored, history, forked>>, Settings!Abort(r)
  PROVE  SettingsInv'
<1>1. /\ request' = [request EXCEPT ![r] = Settings!Free]
      /\ rowLock' = [k \in Setting |-> IF rowLock[k] = r THEN Blank ELSE rowLock[k]]
      /\ request \in [Requester -> Reqs] /\ rowLock \in [Setting -> Requester \cup {Blank}]
  BY SettingsTypes DEF Settings!Abort, Settings!Unlock
<1>2. /\ request' \in [Requester -> Reqs] /\ request'[r] = Settings!Free
      /\ \A q \in Requester : q # r => request'[q] = request[q]
  BY <1>1, FreeRequest
<1>3. /\ rowLock' \in [Setting -> Requester \cup {Blank}]
      /\ \A q \in Requester, k \in Setting : q # r /\ rowLock[k] = q => rowLock'[k] = q
  BY <1>1
<1>4. WroteOK(r)' /\ ReadOK(r)' /\ Len(request'[r].items) <= 2
  BY <1>2, FreeRequest DEF WroteOK, ReadOK
<1>. QED BY <1>2, <1>3, <1>4, RequestMoves

(* What one field of a request may become.                                    *)
LEMMA RequestSets ==
  ASSUME NEW req \in Reqs
  PROVE  /\ \A s \in {"rest", "read", "write"} : [req EXCEPT !.step = s] \in Reqs
         /\ \A x \in Seq(Settings!Item) : [req EXCEPT !.items = x] \in Reqs
         /\ \A row \in Settings!Rows : [req EXCEPT !.read = row] \in Reqs
         /\ \A b \in BOOLEAN : [req EXCEPT !.overtaken = b] \in Reqs
BY DEF Reqs

LEMMA SettingsAsks ==
  ASSUME SettingsInv, NEW r \in Requester, NEW items \in Settings!Requests, Settings!Ask(r, items)
  PROVE  SettingsInv'
<1>. DEFINE new == [[Settings!Free EXCEPT !.step = "read"] EXCEPT !.items = items]
<1>1. items \in Seq(Settings!Item) /\ Len(items) <= 2
  <2>1. CASE items \in Settings!Single
    <3>1. PICK i \in Settings!Item : items = <<i>>
      BY <2>1 DEF Settings!Single
    <3>. QED BY <3>1
  <2>2. CASE items \in Settings!Double
    <3>1. PICK i \in Settings!Item, j \in Settings!Item : items = <<i, j>>
      BY <2>2 DEF Settings!Double
    <3>. QED BY <3>1
  <2>. QED BY <2>1, <2>2 DEF Settings!Requests
<1>2. /\ UNCHANGED <<stored, history, rowLock, forked>>
      /\ request' = [request EXCEPT ![r] = [Settings!Free EXCEPT !.step = "read", !.items = items]]
  BY DEF Settings!Ask
<1>3. new \in Reqs
  BY <1>1, FreeRequest, RequestSets
<1>4. /\ new = [Settings!Free EXCEPT !.step = "read", !.items = items]
      /\ new.step = "read" /\ new.items = items /\ new.blind = Settings!Free.blind
      /\ new.wrote = Settings!Free.wrote /\ new.logged = Settings!Free.logged
  BY DEF Settings!Free
<1>. HIDE DEF new
<1>5. /\ request' \in [Requester -> Reqs] /\ request'[r] = new
      /\ \A q \in Requester : q # r => request'[q] = request[q]
  BY <1>2, <1>3, <1>4, SettingsTypes
<1>6. WroteOK(r)' /\ ReadOK(r)' /\ Len(request'[r].items) <= 2
  BY <1>1, <1>4, <1>5, FreeRequest DEF WroteOK, ReadOK
<1>. QED BY <1>2, <1>5, <1>6, RequestMoves, SettingsTypes

LEMMA FirstItem ==
  ASSUME NEW items \in Seq(Settings!Item), items # << >>
  PROVE  /\ Head(items) \in Settings!Item /\ Head(items) = items[1]
         /\ Tail(items) \in Seq(Settings!Item) /\ Len(Tail(items)) = Len(items) - 1
OBVIOUS

LEMMA SettingsReads ==
  ASSUME SettingsInv, NEW r \in Requester, Settings!ReadRow(r)
  PROVE  SettingsInv'
<1>. DEFINE k == Head(request[r].items).setting
            row == stored[k]
            new == [[[request[r] EXCEPT !.step = "write"] EXCEPT !.read = row]
                      EXCEPT !.overtaken = FALSE]
<1>1. /\ request \in [Requester -> Reqs] /\ request[r] \in Reqs /\ Len(request[r].items) <= 2
      /\ request[r].items \in Seq(Settings!Item) /\ MaxChanges \in Nat
      /\ WroteOK(r) /\ rowLock \in [Setting -> Requester \cup {Blank}]
      /\ \A x \in Setting : RowOK(x) /\ stored[x] \in Settings!Rows
                            /\ stored[x].version \in 0 .. MaxChanges
  BY SettingsTypes
<1>2. /\ UNCHANGED <<stored, history, rowLock, forked>>
      /\ request' = [request EXCEPT ![r].step = "write", ![r].read = row, ![r].overtaken = FALSE]
      /\ request[r].items # << >> /\ row.version < MaxChanges
  BY DEF Settings!ReadRow
<1>3. k \in Setting /\ request[r].items[1].setting = k
  BY <1>1, <1>2, FirstItem DEF Settings!Item
<1>4. row \in Settings!Rows /\ (row.version > 0 => row.value \in Content)
  BY <1>1, <1>3 DEF RowOK
<1>. HIDE DEF row, k
<1>5. new \in Reqs
  BY <1>1, <1>4, RequestSets
<1>6. /\ new = [request[r] EXCEPT !.step = "write", !.read = row, !.overtaken = FALSE]
      /\ new.step = "write" /\ new.items = request[r].items /\ new.read = row
      /\ new.overtaken = FALSE /\ new.blind = request[r].blind
      /\ new.wrote = request[r].wrote /\ new.logged = request[r].logged
  BY <1>1 DEF Reqs
<1>. HIDE DEF new
<1>7. request' = [request EXCEPT ![r] = new]
  BY <1>1, <1>2, <1>6
<1>8. /\ request' \in [Requester -> Reqs] /\ request'[r] = new
      /\ \A q \in Requester : q # r => request'[q] = request[q]
  BY <1>1, <1>5, <1>7
<1>9. WroteOK(r)'
  BY <1>1, <1>2, <1>6, <1>8 DEF WroteOK
<1>10. ReadOK(r)'
  <2>1. /\ request'[r].items # << >> /\ request'[r].items[1].setting = k
        /\ request'[r].read = row /\ stored'[k] = row /\ request'[r].overtaken = FALSE
    BY <1>2, <1>3, <1>6, <1>8 DEF row
  <2>. QED BY <1>2, <1>4, <2>1 DEF ReadOK
<1>11. Len(request'[r].items) <= 2
  BY <1>1, <1>6, <1>8
<1>. QED BY <1>1, <1>2, <1>8, <1>9, <1>10, <1>11, RequestMoves

LEMMA SettingsAsksBack ==
  ASSUME SettingsInv, NEW r \in Requester, NEW k \in Setting, NEW v \in 1 .. MaxChanges,
         Settings!AskBack(r, k, v)
  PROVE  SettingsInv'
<1>. DEFINE item == [setting |-> k, content |-> history[k][v].after, mode |-> "immediate"]
            row == stored[k]
            new == [[[Settings!Free EXCEPT !.step = "write"] EXCEPT !.read = row]
                      EXCEPT !.items = <<item>>]
<1>1. /\ request \in [Requester -> Reqs] /\ MaxChanges \in Nat
      /\ rowLock \in [Setting -> Requester \cup {Blank}]
      /\ RowOK(k) /\ row \in Settings!Rows /\ row.version \in 0 .. MaxChanges
  BY SettingsTypes
<1>2. /\ UNCHANGED <<stored, history, rowLock, forked>>
      /\ Settings!IsLogged(k, v) /\ row.version < MaxChanges
      /\ request' = [request EXCEPT ![r] =
           [Settings!Free EXCEPT !.step = "write", !.read = row, !.items = <<item>>]]
  BY DEF Settings!AskBack
<1>3. item \in Settings!Item /\ item.setting = k
  <2>1. history[k][v].after \in Content
    BY <1>1, <1>2 DEF RowOK
  <2>. QED BY <2>1 DEF Settings!Item, Settings!Mode
<1>4. row.version > 0 => row.value \in Content
  BY <1>1 DEF RowOK
<1>. HIDE DEF item, row
<1>5. <<item>> \in Seq(Settings!Item) /\ Len(<<item>>) = 1 /\ <<item>>[1] = item /\ <<item>> # << >>
  BY <1>3
<1>6. new \in Reqs
  BY <1>1, <1>5, FreeRequest, RequestSets
<1>7. /\ new = [Settings!Free EXCEPT !.step = "write", !.read = row, !.items = <<item>>]
      /\ new.step = "write" /\ new.items = <<item>> /\ new.read = row /\ new.overtaken = FALSE
      /\ new.wrote = Settings!Free.wrote /\ new.logged = Settings!Free.logged
      /\ new.blind = Settings!Free.blind
  BY DEF Settings!Free
<1>. HIDE DEF new
<1>8. /\ request' \in [Requester -> Reqs] /\ request'[r] = new
      /\ \A q \in Requester : q # r => request'[q] = request[q]
  BY <1>1, <1>2, <1>6, <1>7
<1>9. WroteOK(r)'
  BY <1>7, <1>8, FreeRequest DEF WroteOK
<1>10. ReadOK(r)'
  <2>1. /\ request'[r].items # << >> /\ request'[r].items[1].setting = k
        /\ request'[r].read = row /\ stored'[k] = row /\ request'[r].overtaken = FALSE
    BY <1>2, <1>3, <1>5, <1>7, <1>8 DEF row
  <2>. QED BY <1>1, <1>2, <1>4, <2>1 DEF ReadOK
<1>11. Len(request'[r].items) <= 2
  BY <1>5, <1>7, <1>8
<1>. QED BY <1>1, <1>2, <1>8, <1>9, <1>10, <1>11, RequestMoves

LEMMA WrittenTyped ==
  ASSUME NEW item \in Settings!Item, NEW read \in Settings!Rows, read.version < MaxChanges,
         read.version > 0 => read.value \in Content
  PROVE  /\ Settings!Written(item, read) \in Settings!Rows
         /\ Settings!Written(item, read).version = read.version + 1
         /\ Settings!Written(item, read).value \in Content
<1>1. /\ read.version \in 0 .. MaxChanges /\ MaxChanges \in Nat /\ item.content \in Content
  BY SettingsAssumption DEF Settings!Rows, Settings!Item
<1>2. read.version + 1 \in 0 .. MaxChanges
  BY <1>1
<1>. QED BY <1>1, <1>2 DEF Settings!Written, Settings!Rows

LEMMA LoggedTyped ==
  ASSUME NEW item \in Settings!Item, NEW read \in Settings!Rows
  PROVE  /\ Settings!Logged(item, read) \in Settings!Past
         /\ Settings!Logged(item, read).before = read.value
         /\ Settings!Logged(item, read).after \in Content
BY DEF Settings!Logged, Settings!Past, Settings!Rows, Settings!Item

(* A request after it has written a row.                                      *)
LEMMA ProgressTyped ==
  ASSUME NEW req \in Reqs, NEW k \in Setting, NEW row \in Settings!Rows, NEW past \in Settings!Past,
         NEW D \in SUBSET Setting, DOMAIN req.wrote = D, DOMAIN req.logged = D,
         req.wrote \in [D -> Settings!Rows], req.logged \in [D -> Settings!Past],
         Tail(req.items) \in Seq(Settings!Item)
  PROVE  LET new == Settings!Progress(req, k, row, past)
         IN  /\ new \in Reqs /\ new.step = "read" /\ new.items = Tail(req.items)
             /\ new.blind \subseteq req.blind \cup {k} /\ req.blind \subseteq new.blind
             /\ req.overtaken => k \in new.blind
             /\ ~ req.overtaken => new.blind = req.blind
             /\ DOMAIN new.wrote = D \cup {k} /\ DOMAIN new.logged = D \cup {k}
             /\ \A x \in D \cup {k} : new.wrote[x] = IF x = k THEN row ELSE req.wrote[x]
             /\ \A x \in D \cup {k} : new.logged[x] = IF x = k THEN past ELSE req.logged[x]
<1>. DEFINE wrote == [x \in D \cup {k} |-> IF x = k THEN row ELSE req.wrote[x]]
            logged == [x \in D \cup {k} |-> IF x = k THEN past ELSE req.logged[x]]
            blind == IF req.overtaken THEN req.blind \cup {k} ELSE req.blind
<1>1. /\ wrote \in [D \cup {k} -> Settings!Rows] /\ logged \in [D \cup {k} -> Settings!Past]
      /\ D \cup {k} \in SUBSET Setting
      /\ \A x \in D \cup {k} : wrote[x] = IF x = k THEN row ELSE req.wrote[x]
      /\ \A x \in D \cup {k} : logged[x] = IF x = k THEN past ELSE req.logged[x]
  OBVIOUS
<1>2. Settings!Progress(req, k, row, past) =
        [step |-> "read", items |-> Tail(req.items), read |-> Settings!NoRow, overtaken |-> FALSE,
         wrote |-> wrote, logged |-> logged, blind |-> blind]
  BY DEF Settings!Progress
<1>3. blind \in SUBSET Setting
  BY DEF Reqs
<1>. HIDE DEF wrote, logged, blind
<1>4. /\ wrote \in UNION {[E -> Settings!Rows] : E \in SUBSET Setting}
      /\ logged \in UNION {[E -> Settings!Past] : E \in SUBSET Setting}
  BY <1>1
<1>5. DOMAIN wrote = D \cup {k} /\ DOMAIN logged = D \cup {k}
  BY <1>1
<1>6. Settings!Progress(req, k, row, past) \in Reqs
  BY <1>2, <1>3, <1>4, NothingStored DEF Reqs
<1>. QED BY <1>1, <1>2, <1>5, <1>6 DEF blind

LEMMA SettingsWrites ==
  ASSUME SettingsInv, NEW r \in Requester, Settings!WriteRow(r)
  PROVE  SettingsInv'
<1>. DEFINE item == Head(request[r].items)
            k == item.setting
            read == request[r].read
            row == Settings!Written(item, read)
            past == Settings!Logged(item, read)
            new == Settings!Progress(request[r], k, row, past)
            D == DOMAIN request[r].wrote
<1>1. /\ request \in [Requester -> Reqs] /\ request[r] \in Reqs /\ Len(request[r].items) <= 2
      /\ request[r].items \in Seq(Settings!Item) /\ read \in Settings!Rows
      /\ read.version \in 0 .. MaxChanges /\ MaxChanges \in Nat /\ request[r].overtaken \in BOOLEAN
      /\ WroteOK(r) /\ ReadOK(r) /\ rowLock \in [Setting -> Requester \cup {Blank}]
  BY SettingsTypes
<1>2. UNCHANGED <<stored, history, forked>> /\ request[r].step = "write" /\ Settings!Locks(r, k)
  BY DEF Settings!WriteRow
<1>3. request[r].items # << >>
  BY <1>1, <1>2 DEF ReadOK
<1>4. /\ item \in Settings!Item /\ item = request[r].items[1] /\ k \in Setting
      /\ Tail(request[r].items) \in Seq(Settings!Item) /\ Len(Tail(request[r].items)) <= 2
  <2>1. /\ item \in Settings!Item /\ item = request[r].items[1]
        /\ Tail(request[r].items) \in Seq(Settings!Item)
        /\ Len(Tail(request[r].items)) = Len(request[r].items) - 1
        /\ Len(request[r].items) \in Nat
    BY <1>1, <1>3, FirstItem
  <2>2. k \in Setting
    BY <2>1 DEF Settings!Item
  <2>. HIDE DEF item
  <2>. QED BY <1>1, <2>1, <2>2
<1>5. CASE Settings!Abort(r)
  BY <1>2, <1>5, RequestEnds
<1>6. CASE /\ ~ Settings!IsLogged(k, row.version)
           /\ rowLock' = [rowLock EXCEPT ![k] = r]
           /\ request' = [request EXCEPT ![r] = new]
  <2>1. /\ read.version < MaxChanges
        /\ read.version > 0 => read.value \in Content
        /\ request[r].overtaken => k \in MailSetting
        /\ k \notin forked /\ ~ request[r].overtaken =>
             read = stored[k] \/ Settings!IsLogged(k, read.version + 1)
    BY <1>1, <1>2, <1>4 DEF ReadOK
  <2>2. /\ row \in Settings!Rows /\ row.version = read.version + 1 /\ row.value \in Content
        /\ past \in Settings!Past /\ past.before = read.value /\ past.after \in Content
    BY <1>1, <1>4, <2>1, WrittenTyped, LoggedTyped
  <2>3. /\ row.version \in 1 .. MaxChanges
        /\ k \notin forked /\ ~ request[r].overtaken =>
             row.version = stored[k].version + 1 /\ past.before = stored[k].value
    <3>1. row.version \in 1 .. MaxChanges
      <4>. HIDE DEF row, read
      <4>. QED BY <1>1, <2>1, <2>2
    <3>2. k \notin forked /\ ~ request[r].overtaken => read = stored[k]
      BY <1>6, <2>1, <2>2
    <3>. QED BY <2>2, <3>1, <3>2
  <2>4. /\ D \in SUBSET Setting /\ DOMAIN request[r].logged = D
        /\ request[r].wrote \in [D -> Settings!Rows] /\ request[r].logged \in [D -> Settings!Past]
    BY WroteTyped
  <2>. HIDE DEF row, past, read, k, item, D
  <2>5. /\ new \in Reqs /\ new.step = "read" /\ new.items = Tail(request[r].items)
        /\ new.blind \subseteq request[r].blind \cup {k} /\ request[r].blind \subseteq new.blind
        /\ request[r].overtaken => k \in new.blind
        /\ ~ request[r].overtaken => new.blind = request[r].blind
        /\ DOMAIN new.wrote = D \cup {k} /\ DOMAIN new.logged = D \cup {k}
        /\ \A x \in D \cup {k} : new.wrote[x] = IF x = k THEN row ELSE request[r].wrote[x]
        /\ \A x \in D \cup {k} : new.logged[x] = IF x = k THEN past ELSE request[r].logged[x]
    <3>1. DOMAIN request[r].wrote = D
      BY DEF D
    <3>. QED BY <1>1, <1>4, <2>2, <2>4, <3>1, ProgressTyped
  <2>. HIDE DEF new
  <2>6. /\ request' \in [Requester -> Reqs] /\ request'[r] = new
        /\ \A q \in Requester : q # r => request'[q] = request[q]
    BY <1>1, <1>6, <2>5
  <2>7. /\ rowLock' \in [Setting -> Requester \cup {Blank}] /\ rowLock'[k] = r
        /\ \A x \in Setting : x # k => rowLock'[x] = rowLock[x]
    BY <1>1, <1>4, <1>6
  <2>8. \A q \in Requester, x \in Setting : q # r /\ rowLock[x] = q => rowLock'[x] = q
    <3>1. \A q \in Requester : q # r => rowLock[k] # q
      BY <1>2, SettingsAssumption DEF Settings!Locks
    <3>. QED BY <2>7, <3>1
  <2>9. WroteOK(r)'
    <3>1. ASSUME NEW x \in D \cup {k}
          PROVE  /\ rowLock'[x] = r /\ new.wrote[x].version \in 1 .. MaxChanges
                 /\ new.wrote[x].value \in Content /\ new.logged[x].after \in Content
                 /\ x \notin forked \cup new.blind =>
                      /\ new.wrote[x].version = stored[x].version + 1
                      /\ new.logged[x].before = stored[x].value
      <4>1. CASE x = k
        <5>1. k \notin new.blind => ~ request[r].overtaken
          BY <2>5
        <5>. QED BY <2>2, <2>3, <2>5, <2>7, <4>1, <5>1
      <4>2. CASE x # k
        <5>1. x \in D /\ x \in Setting
          BY <2>4, <4>2
        <5>2. /\ rowLock[x] = r /\ request[r].wrote[x].version \in 1 .. MaxChanges
              /\ request[r].wrote[x].value \in Content
              /\ request[r].logged[x].after \in Content
              /\ x \notin forked \cup request[r].blind =>
                   /\ request[r].wrote[x].version = stored[x].version + 1
                   /\ request[r].logged[x].before = stored[x].value
          BY <1>1, <5>1 DEF WroteOK, D
        <5>3. x \notin forked \cup new.blind => x \notin forked \cup request[r].blind
          BY <2>5
        <5>. QED BY <2>5, <2>7, <4>2, <5>1, <5>2, <5>3
      <4>. QED BY <4>1, <4>2
    <3>2. DOMAIN request'[r].wrote = D \cup {k} /\ DOMAIN request'[r].logged = D \cup {k}
      BY <2>5, <2>6
    <3>3. new.blind \subseteq MailSetting
      BY <1>1, <2>1, <2>5 DEF WroteOK
    <3>. QED BY <1>2, <2>6, <3>1, <3>2, <3>3 DEF WroteOK
  <2>10. ReadOK(r)' /\ Len(request'[r].items) <= 2
    BY <1>4, <2>5, <2>6 DEF ReadOK
  <2>. QED BY <1>2, <2>6, <2>7, <2>8, <2>9, <2>10, RequestMoves
<1>. QED BY Zenon, <1>5, <1>6 DEF Settings!WriteRow

(* A committed change is the next of its setting, or wrote over the form.      *)
LEMMA SettingsCommits ==
  ASSUME SettingsInv, NEW r \in Requester, Settings!Commit(r)
  PROVE  SettingsInv'
<1>. DEFINE done == DOMAIN request[r].wrote
            wrote == request[r].wrote
            blind == request[r].blind
            new(k) == [before |-> request[r].logged[k].before,
                       after |-> request[r].logged[k].after, over |-> stored[k].value]
<1>1. /\ stored' = [k \in Setting |-> IF k \in done THEN wrote[k] ELSE stored[k]]
      /\ history' = [k \in Setting |-> [v \in 1 .. MaxChanges |->
           IF k \in done /\ v = wrote[k].version THEN new(k) ELSE history[k][v]]]
      /\ forked' = forked \cup blind
      /\ request' = [request EXCEPT ![r] = Settings!Free]
      /\ rowLock' = [k \in Setting |-> IF rowLock[k] = r THEN Blank ELSE rowLock[k]]
  BY DEF Settings!Commit, Settings!Abort, Settings!Unlock
<1>2. /\ request \in [Requester -> Reqs] /\ rowLock \in [Setting -> Requester \cup {Blank}]
      /\ done \in SUBSET Setting /\ wrote \in [done -> Settings!Rows]
      /\ request[r].logged \in [done -> Settings!Past] /\ blind \subseteq MailSetting
      /\ forked \subseteq MailSetting
      /\ stored \in [Setting -> Settings!Rows]
      /\ history \in [Setting -> [1 .. MaxChanges -> Settings!HistoryRow]]
  BY SettingsTypes, WroteTyped DEF SettingsInv, WroteOK
<1>3. \A k \in done :
        /\ rowLock[k] = r /\ wrote[k].version \in 1 .. MaxChanges /\ wrote[k].value \in Content
        /\ request[r].logged[k].after \in Content
        /\ k \notin forked \cup blind =>
             /\ wrote[k].version = stored[k].version + 1
             /\ request[r].logged[k].before = stored[k].value
  BY DEF SettingsInv, WroteOK
<1>4. \A k \in done : /\ new(k) \in Settings!HistoryRow /\ new(k) # Settings!Unlogged
                      /\ new(k).after \in Content
                      /\ k \notin forked \cup blind => new(k).before = new(k).over
  <2>1. ASSUME NEW k \in done PROVE request[r].logged[k] \in Settings!Past /\ stored[k] \in Settings!Rows
    BY <1>2
  <2>. QED BY <1>3, <2>1, NothingStored, SettingsAssumption
       DEF Settings!HistoryRow, Settings!Past, Settings!Rows
<1>. HIDE DEF done, wrote, blind, new
<1>5. ASSUME NEW k \in Setting
      PROVE  /\ k \in done => stored'[k] = wrote[k]
             /\ k \notin done => stored'[k] = stored[k]
             /\ \A v \in 1 .. MaxChanges : history'[k][v] =
                  IF k \in done /\ v = wrote[k].version THEN new(k) ELSE history[k][v]
  BY <1>1
<1>6. ASSUME NEW k \in Setting, NEW v \in 1 .. MaxChanges
      PROVE  /\ Settings!IsLogged(k, v) => Settings!IsLogged(k, v)'
             /\ k \in done /\ v = wrote[k].version => Settings!IsLogged(k, v)'
             /\ ~ (k \in done /\ v = wrote[k].version) => history'[k][v] = history[k][v]
             /\ ~ (k \in done /\ v = wrote[k].version) /\ Settings!IsLogged(k, v)' =>
                  Settings!IsLogged(k, v)
  BY <1>4, <1>5 DEF Settings!IsLogged
<1>7. stored' \in [Setting -> Settings!Rows]
      /\ history' \in [Setting -> [1 .. MaxChanges -> Settings!HistoryRow]]
  <2>1. stored' \in [Setting -> Settings!Rows]
    BY <1>1, <1>2
  <2>2. ASSUME NEW k \in Setting, NEW v \in 1 .. MaxChanges
        PROVE  (IF k \in done /\ v = wrote[k].version THEN new(k) ELSE history[k][v])
                 \in Settings!HistoryRow
    BY <1>2, <1>4
  <2>. QED BY <1>1, <2>1, <2>2
<1>8. ASSUME NEW k \in Setting PROVE RowOK(k)'
  <2>1. /\ RowOK(k) /\ stored[k].version \in 0 .. MaxChanges /\ MaxChanges \in Nat
        /\ stored'[k] \in Settings!Rows /\ history'[k] \in [1 .. MaxChanges -> Settings!HistoryRow]
    BY <1>7, SettingsTypes
  <2>2. stored'[k].version > 0 => stored'[k].value \in Content
    BY <1>3, <1>5, <2>1 DEF RowOK
  <2>3. k \notin forked' => /\ k \notin forked \cup blind
                            /\ stored[k].version <= stored'[k].version
                            /\ k \in done => stored'[k].version = stored[k].version + 1
    BY <1>1, <1>3, <1>5, <2>1
  <2>4. ASSUME NEW v \in 1 .. MaxChanges, Settings!IsLogged(k, v)'
        PROVE  /\ history'[k][v].after \in Content
               /\ k \notin forked' => /\ v <= stored'[k].version
                                      /\ history'[k][v].before = history'[k][v].over
    <3>1. CASE k \in done /\ v = wrote[k].version
      <4>1. history'[k][v] = new(k) /\ stored'[k] = wrote[k]
        BY <1>5, <3>1
      <4>. QED BY <1>4, <2>3, <3>1, <4>1
    <3>2. CASE ~ (k \in done /\ v = wrote[k].version)
      <4>1. history'[k][v] = history[k][v] /\ Settings!IsLogged(k, v)
        BY <1>6, <2>4, <3>2
      <4>2. /\ history[k][v].after \in Content
            /\ k \notin forked => /\ v <= stored[k].version
                                  /\ history[k][v].before = history[k][v].over
        BY <2>1, <4>1 DEF RowOK
      <4>3. stored'[k].version \in Nat
        BY <2>1 DEF Settings!Rows
      <4>. QED BY <2>1, <2>3, <4>1, <4>2, <4>3
    <3>. QED BY <3>1, <3>2
  <2>5. ASSUME k \notin MailSetting, NEW v \in 1 .. stored'[k].version
        PROVE  Settings!IsLogged(k, v)'
    <3>1. k \notin forked' /\ stored'[k].version \in 0 .. MaxChanges
      BY <1>1, <1>2, <2>1, <2>5 DEF Settings!Rows
    <3>2. v \in 1 .. MaxChanges
      BY <2>1, <2>5, <3>1
    <3>3. CASE v <= stored[k].version
      <4>1. v \in 1 .. stored[k].version
        BY <2>1, <2>5, <3>1, <3>3
      <4>. QED BY <1>6, <2>1, <2>5, <3>2, <4>1 DEF RowOK
    <3>4. CASE ~ (v <= stored[k].version)
      <4>1. k \in done
        BY <1>5, <2>1, <2>5, <3>4
      <4>2. v = wrote[k].version
        BY <1>5, <2>1, <2>3, <2>5, <3>1, <3>4, <4>1
      <4>. QED BY <1>6, <3>2, <4>1, <4>2
    <3>. QED BY <3>3, <3>4
  <2>. QED BY <2>1, <2>2, <2>4, <2>5 DEF RowOK
<1>9. /\ request' \in [Requester -> Reqs] /\ request'[r] = Settings!Free
      /\ \A q \in Requester : q # r => request'[q] = request[q]
  BY <1>1, <1>2, FreeRequest
<1>10. /\ rowLock' \in [Setting -> Requester \cup {Blank}]
       /\ \A q \in Requester, k \in Setting : q # r /\ rowLock[k] = q =>
            rowLock'[k] = q /\ stored'[k] = stored[k]
  BY <1>1, <1>2, <1>3
<1>11. ASSUME NEW q \in Requester
       PROVE  WroteOK(q)' /\ ReadOK(q)' /\ Len(request'[q].items) <= 2
  <2>1. CASE q = r
    <3>1. request'[q] = Settings!Free
      BY <1>9, <2>1
    <3>2. ReadOK(q)' /\ Len(request'[q].items) <= 2
      BY <3>1, FreeRequest DEF ReadOK
    <3>3. WroteOK(q)'
      BY <3>1, FreeRequest DEF WroteOK
    <3>. QED BY <3>2, <3>3
  <2>2. CASE q # r
    <3>1. /\ request'[q] = request[q] /\ request[q] \in Reqs /\ WroteOK(q) /\ ReadOK(q)
          /\ Len(request[q].items) <= 2 /\ request[q].items \in Seq(Settings!Item)
          /\ request[q].read.version \in 0 .. MaxChanges /\ MaxChanges \in Nat
      BY <1>9, <2>2, SettingsTypes
    <3>2. DOMAIN request[q].wrote \in SUBSET Setting
      BY WroteTyped
    <3>3. WroteOK(q)'
      <4>1. \A k : k \notin forked' \cup request[q].blind => k \notin forked \cup request[q].blind
        BY <1>1
      <4>. QED BY <1>10, <2>2, <3>1, <3>2, <4>1 DEF WroteOK
    <3>4. ASSUME request[q].step = "write"
          PROVE  ReadOK(q)'
      <4>. DEFINE k == request[q].items[1].setting
                  read == request[q].read
      <4>1. /\ request[q].items # << >> /\ read.version < MaxChanges
            /\ read.version > 0 => read.value \in Content
            /\ request[q].overtaken => k \in MailSetting
            /\ k \notin forked /\ ~ request[q].overtaken =>
                 read = stored[k] \/ Settings!IsLogged(k, read.version + 1)
        BY <3>1, <3>4 DEF ReadOK
      <4>2. k \in Setting /\ read.version + 1 \in 1 .. MaxChanges
        <5>1. k \in Setting
          BY <3>1, <4>1, FirstItem DEF Settings!Item
        <5>. HIDE DEF k, read
        <5>2. read.version \in 0 .. MaxChanges
          BY <3>1 DEF read
        <5>. QED BY <3>1, <4>1, <5>1, <5>2
      <4>3. ASSUME NEW x \in Setting, x = k, NEW n \in 1 .. MaxChanges, n = read.version + 1,
                   x \notin forked', ~ request[q].overtaken
            PROVE  read = stored'[x] \/ Settings!IsLogged(x, n)'
        <5>. HIDE DEF k, read
        <5>1. x \notin forked \cup blind
          BY <1>1, <4>3
        <5>2. CASE Settings!IsLogged(x, n)
          BY <1>6, <5>2
        <5>3. CASE read = stored[x] /\ x \notin done
          BY <1>5, <5>3
        <5>4. CASE read = stored[x] /\ x \in done
          <6>1. wrote[x].version = n
            BY <1>3, <4>3, <5>1, <5>4
          <6>. QED BY <1>6, <5>4, <6>1
        <5>. QED BY <4>1, <4>3, <5>1, <5>2, <5>3, <5>4
      <4>4. PICK x \in Setting, n \in 1 .. MaxChanges : x = k /\ n = read.version + 1
        BY Zenon, <4>2
      <4>5. /\ request'[q].items[1].setting = x /\ request'[q].read = read
            /\ request'[q].read.version + 1 = n
        BY <3>1, <4>4
      <4>6. x \notin forked' /\ ~ request[q].overtaken =>
              read = stored'[x] \/ Settings!IsLogged(x, n)'
        BY Zenon, <4>3, <4>4
      <4>. HIDE DEF k, read
      <4>. QED BY Zenon, <3>1, <4>1, <4>4, <4>5, <4>6 DEF ReadOK, read
    <3>5. ReadOK(q)'
      BY <3>1, <3>4 DEF ReadOK
    <3>. QED BY <3>1, <3>3, <3>5
  <2>. QED BY <2>1, <2>2
<1>12. forked' \subseteq MailSetting
  BY <1>1, <1>2
<1>. QED BY <1>7, <1>8, <1>9, <1>10, <1>11, <1>12 DEF SettingsInv

(* The form for mail goes on from what is stored, and those who read it are    *)
(* overtaken.                                                                 *)
LEMMA SettingsForm ==
  ASSUME SettingsInv, NEW values \in [MailSetting -> Content], Settings!SaveForm(values)
  PROVE  SettingsInv'
<1>. DEFINE late(r) == request[r].step = "write" /\ Head(request[r].items).setting \in MailSetting
<1>1. /\ \A k \in MailSetting : rowLock[k] = Blank /\ stored[k].version < MaxChanges
      /\ stored' = [k \in Setting |->
           IF k \in MailSetting THEN [value |-> values[k], version |-> stored[k].version + 1]
           ELSE stored[k]]
      /\ request' = [r \in Requester |->
           IF late(r) THEN [request[r] EXCEPT !.overtaken = TRUE] ELSE request[r]]
      /\ UNCHANGED <<history, rowLock, forked>>
  BY DEF Settings!SaveForm
<1>. HIDE DEF late
<1>2. /\ request \in [Requester -> Reqs] /\ rowLock \in [Setting -> Requester \cup {Blank}]
      /\ stored \in [Setting -> Settings!Rows] /\ MailSetting \subseteq Setting
      /\ forked \subseteq MailSetting /\ MaxChanges \in Nat
      /\ \A k \in Setting : RowOK(k) /\ stored[k].version \in 0 .. MaxChanges
  BY SettingsAssumption DEF SettingsInv, Settings!Rows
<1>3. ASSUME NEW k \in MailSetting
      PROVE  /\ stored'[k] \in Settings!Rows /\ stored'[k].value \in Content
             /\ stored'[k].version = stored[k].version + 1
  <2>1. stored'[k] = [value |-> values[k], version |-> stored[k].version + 1]
    BY <1>1, <1>2
  <2>2. stored[k].version + 1 \in 0 .. MaxChanges
    BY <1>1, <1>2
  <2>. QED BY <2>1, <2>2 DEF Settings!Rows
<1>4. \A k \in Setting \ MailSetting : stored'[k] = stored[k]
  BY <1>1
<1>5. stored' \in [Setting -> Settings!Rows]
  <2>1. \A k \in Setting : stored'[k] \in Settings!Rows
    BY <1>2, <1>3, <1>4
  <2>. QED BY <1>1, <2>1
<1>6. ASSUME NEW k \in Setting PROVE RowOK(k)'
  <2>1. /\ RowOK(k) /\ history'[k] = history[k] /\ forked' = forked
        /\ \A v : Settings!IsLogged(k, v)' <=> Settings!IsLogged(k, v)
    BY <1>1, <1>2 DEF Settings!IsLogged
  <2>2. CASE k \in MailSetting
    BY <1>2, <1>3, <2>1, <2>2 DEF RowOK
  <2>3. CASE k \notin MailSetting
    BY <1>4, <2>1, <2>3 DEF RowOK
  <2>. QED BY <2>2, <2>3
<1>7. ASSUME NEW r \in Requester
      PROVE  /\ request'[r] \in Reqs /\ request'[r].step = request[r].step
             /\ request'[r].items = request[r].items /\ request'[r].read = request[r].read
             /\ request'[r].wrote = request[r].wrote /\ request'[r].logged = request[r].logged
             /\ request'[r].blind = request[r].blind
             /\ late(r) => request'[r].overtaken
             /\ ~ late(r) => request'[r] = request[r]
  <2>1. request[r] \in Reqs
    BY <1>2
  <2>2. [request[r] EXCEPT !.overtaken = TRUE] \in Reqs
    BY <2>1, RequestSets
  <2>. QED BY <1>1, <2>1, <2>2 DEF Reqs
<1>8. request' \in [Requester -> Reqs]
  BY <1>1, <1>7
<1>9. ASSUME NEW r \in Requester
      PROVE  WroteOK(r)' /\ ReadOK(r)' /\ Len(request'[r].items) <= 2
  <2>1. /\ WroteOK(r) /\ ReadOK(r) /\ Len(request[r].items) <= 2
        /\ request[r].items \in Seq(Settings!Item)
    BY SettingsTypes
  <2>2. DOMAIN request[r].wrote \in SUBSET Setting
    BY WroteTyped
  <2>3. \A k \in DOMAIN request[r].wrote : stored'[k] = stored[k]
    <3>1. \A k \in DOMAIN request[r].wrote : rowLock[k] = r /\ r # Blank
      BY <2>1, SettingsAssumption DEF WroteOK
    <3>. QED BY <1>1, <1>4, <2>2, <3>1
  <2>4. WroteOK(r)'
    <3>1. /\ request'[r].wrote = request[r].wrote /\ request'[r].logged = request[r].logged
          /\ request'[r].blind = request[r].blind
      BY <1>7
    <3>2. ASSUME NEW k \in DOMAIN request[r].wrote
          PROVE  /\ rowLock'[k] = r
                 /\ request[r].wrote[k].version \in 1 .. MaxChanges
                 /\ request[r].wrote[k].value \in Content
                 /\ request[r].logged[k].after \in Content
                 /\ k \notin forked' \cup request[r].blind =>
                      /\ request[r].wrote[k].version = stored'[k].version + 1
                      /\ request[r].logged[k].before = stored'[k].value
      BY <1>1, <2>1, <2>3 DEF WroteOK
    <3>3. DOMAIN request[r].wrote = DOMAIN request[r].logged /\ request[r].blind \subseteq MailSetting
      BY <2>1 DEF WroteOK
    <3>. QED BY <3>1, <3>2, <3>3 DEF WroteOK
  <2>5. ASSUME request[r].step = "write", ~ late(r)
        PROVE  ReadOK(r)'
    <3>1. /\ request[r].items # << >> /\ request[r].items[1].setting \in Setting
          /\ request[r].items[1].setting \notin MailSetting
      BY <2>1, <2>5, FirstItem DEF ReadOK, late, Settings!Item
    <3>2. request'[r] = request[r]
          /\ stored'[request[r].items[1].setting] = stored[request[r].items[1].setting]
      BY <1>4, <1>7, <2>5, <3>1
    <3>3. request'[r].items[1].setting = request[r].items[1].setting
      BY <3>2
    <3>4. \A k, v : Settings!IsLogged(k, v)' <=> Settings!IsLogged(k, v)
      BY <1>1 DEF Settings!IsLogged
    <3>5. /\ request[r].read.version < MaxChanges
          /\ request[r].read.version > 0 => request[r].read.value \in Content
          /\ request[r].overtaken => request[r].items[1].setting \in MailSetting
      BY <2>1, <2>5 DEF ReadOK
    <3>0. ~ request[r].overtaken /\ ~ request'[r].overtaken
      BY Zenon, <3>1, <3>2, <3>5
    <3>6. request[r].items[1].setting \notin forked
      BY <1>2, <3>1
    <3>7. \/ request[r].read = stored[request[r].items[1].setting]
          \/ Settings!IsLogged(request[r].items[1].setting, request[r].read.version + 1)
      BY <2>1, <2>5, <3>6, <3>0 DEF ReadOK
    <3>8. \/ request'[r].read = stored'[request[r].items[1].setting]
          \/ Settings!IsLogged(request[r].items[1].setting, request[r].read.version + 1)'
      BY <3>2, <3>4, <3>7
    <3>. QED BY <3>1, <3>2, <3>3, <3>5, <3>8, <3>0 DEF ReadOK
  <2>6. ASSUME request[r].step = "write", late(r) PROVE ReadOK(r)'
    <3>1. /\ request[r].items # << >> /\ request[r].items[1].setting \in MailSetting
      BY <2>1, <2>6, FirstItem DEF ReadOK, late
    <3>2. /\ request'[r].items = request[r].items /\ request'[r].read = request[r].read
          /\ request'[r].overtaken
      BY <1>7, <2>6
    <3>3. /\ request'[r].read.version < MaxChanges
          /\ request'[r].read.version > 0 => request'[r].read.value \in Content
      BY <2>1, <2>6, <3>2 DEF ReadOK
    <3>. QED BY <3>1, <3>2, <3>3 DEF ReadOK
  <2>7. ReadOK(r)'
    BY <1>7, <2>5, <2>6 DEF ReadOK
  <2>. QED BY <1>7, <2>1, <2>4, <2>7
<1>10. history' \in [Setting -> [1 .. MaxChanges -> Settings!HistoryRow]]
  BY <1>1 DEF SettingsInv
<1>. QED BY <1>1, <1>2, <1>5, <1>6, <1>8, <1>9, <1>10 DEF SettingsInv

LEMMA SettingsStep ==
  ASSUME SettingsInv, [Settings!Next]_ofSettings
  PROVE  SettingsInv'
<1>1. CASE UNCHANGED ofSettings
  <2>1. /\ request' = request /\ stored' = stored /\ history' = history
        /\ rowLock' = rowLock /\ forked' = forked
    BY <1>1 DEF ofSettings
  <2>2. \A k \in Setting : RowOK(k) => RowOK(k)'
    BY <2>1 DEF RowOK, Settings!IsLogged
  <2>3. \A r \in Requester : (WroteOK(r) => WroteOK(r)') /\ (ReadOK(r) => ReadOK(r)')
    BY <2>1 DEF WroteOK, ReadOK, Settings!IsLogged
  <2>. QED BY <2>1, <2>2, <2>3 DEF SettingsInv
<1>2. ASSUME NEW r \in Requester, Settings!Deadlock(r) \/ Settings!Fail(r)
      PROVE  SettingsInv'
  BY <1>2, RequestEnds DEF Settings!Deadlock, Settings!Fail
<1>3. CASE Settings!Next
  BY Zenon, <1>2, <1>3, SettingsAsks, SettingsAsksBack, SettingsReads, SettingsWrites,
     SettingsCommits, SettingsForm DEF Settings!Next
<1>. QED BY <1>1, <1>3

-----------------------------------------------------------------------------
(***************************************************************************)
(* The two bounded records, the documents and the types.                    *)
(***************************************************************************)

(***************************************************************************)
(* diagnostics/store.go, tracking/violations.go: however Pods write and clear *)
(* and reports come, what is gone from the two bounded records is old or was  *)
(* surplus.                                                                  *)
(***************************************************************************)
THEOREM NewestKept == Spec => []LogsSafe
<1>1. Init => LogInv /\ RecorderInv
  BY LogInitial, RecorderInitial DEF Init
<1>2. LogInv /\ RecorderInv /\ [Next]_vars => (LogInv /\ RecorderInv)'
  BY Zenon, PartsMove, LogStep, RecorderStep
<1>3. LogInv /\ RecorderInv => LogsSafe
  BY DEF LogInv, RecorderInv, LogsSafe
<1>. QED BY <1>1, <1>2, <1>3, PTL DEF Spec

(***************************************************************************)
(* agent_enrollment_settings.go, tracking.go, settings.go: no acknowledged    *)
(* change of a policy or of a setting is lost, however many requests change   *)
(* it at a time, what is stored is read again, and the history explains it;   *)
(* of the settings that the form for mail writes too, only one that was       *)
(* written over an unread save of the form may disagree with its history.     *)
(***************************************************************************)
THEOREM NoChangeIsLost == Spec => []DocumentsSafe
<1>1. Init => PolicyInv /\ SettingsInv
  BY PolicyInitial, SettingsInitial DEF Init
<1>2. PolicyInv /\ SettingsInv /\ [Next]_vars => (PolicyInv /\ SettingsInv)'
  BY Zenon, PartsMove, PolicyStep, SettingsStep
<1>3. PolicyInv /\ SettingsInv => DocumentsSafe
  BY SettingsAreSafe DEF PolicyInv, DocumentsSafe
<1>. QED BY <1>1, <1>2, <1>3, PTL DEF Spec

(***************************************************************************)
(* Every part keeps its types.                                              *)
(***************************************************************************)
THEOREM PartsTyped == Spec => []TypeOK
<1>. DEFINE Inv == /\ StoreInv /\ StartInv /\ SchemaInv /\ StagingInv /\ MailInv
                   /\ RecorderInv /\ LogInv /\ PolicyInv /\ SettingsInv
<1>1. Init => Inv
  BY Zenon, StoreInitial, StartInitial, SchemaInitial, StagingInitial, MailInitial,
     RecorderInitial, LogInitial, PolicyInitial, SettingsInitial DEF Init
<1>2. Inv /\ [Next]_vars => Inv'
  BY Zenon, PartsMove, StoreStep, StartStep, SchemaStep, StagingStep, MailStep,
     RecorderStep, LogStep, PolicyStep, SettingsStep
<1>3. Inv => TypeOK
  BY Zenon, SettingsAreSafe DEF TypeOK, StoreInv, StartInv, SchemaInv, StagingInv, MailInv,
     RecorderInv, LogInv, PolicyInv
<1>. QED BY <1>1, <1>2, <1>3, PTL DEF Spec
=============================================================================
