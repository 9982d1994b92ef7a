----------------------------- MODULE AgentUpdate -----------------------------
(***************************************************************************)
(* How one host follows the releases of the update store.  The Server picks *)
(* an offer for the version the Agent says it runs (httpapi/updates.go,      *)
(* updates/store.go Candidates); the unprivileged Agent downloads, verifies  *)
(* and stages it; the privileged helper tests it, swaps the binaries and     *)
(* restarts the service (src/updater.rs).  Either can die between two steps, *)
(* each step of the helper can fail, what starts the helper (packaging) can   *)
(* stop doing so, and operators publish, stop and retire releases meanwhile.  *)
(***************************************************************************)
EXTENDS Integers, FiniteSets, FiniteSetsExt
CONSTANTS
  MaxVersion,   \* bound: versions are 1 .. MaxVersion
  FirstV2,      \* the first version that verifies manifest signatures
  Broken,       \* versions whose binary fails its self-test
  MaxReleases,  \* bound: what operators do in one behaviour
  MaxDeaths,    \* bound: how often the helper is killed
  MaxInstalls   \* the installations counted (the counter stops one above it)

\* Versions and bounds are numbers.
ASSUME HostAssumption ==
  /\ MaxVersion \in Nat /\ FirstV2 \in Nat /\ Broken \subseteq Nat
  /\ MaxReleases \in Nat /\ MaxDeaths \in Nat /\ MaxInstalls \in Nat

VARIABLES
  kind,         \* what the store holds of a version
  open,         \* the rollout of the version reaches this host
  running,      \* the version the Agent process runs, 0 when it cannot start
  installed,    \* the binary at the install path, 0 when there is none
  previous,     \* the binary at `<install path>.previous`
  staged,       \* the artifacts in the staging directory
  pending,      \* the offer in pending.json
  checker,      \* the update check of the Agent
  helper,       \* the privileged helper
  releases,     \* what operators did so far
  installs,     \* history: installations since the operators' last act
  deaths,       \* history: how often the helper was killed
  unfinished,   \* history: no restart of the Agent since a run that failed after its swap
  trigger       \* what starts the helper

hostVars == <<kind, open, running, installed, previous, staged, pending, checker,
              helper, releases, installs, deaths, unfinished, trigger>>

Version == 1 .. MaxVersion
Kind == {"absent", "normal", "rollback", "unsignedRollback"}
NoOffer == [version |-> 0, kind |-> "absent"]
Offers == {NoOffer} \cup [version : Version, kind : Kind \ {"absent"}]
Rest == [step |-> "rest", offer |-> NoOffer]

TypeOK ==
  /\ kind \in [Version -> Kind]
  /\ open \in [Version -> BOOLEAN]
  /\ running \in 0 .. MaxVersion /\ installed \in 0 .. MaxVersion
  /\ previous \in 0 .. MaxVersion
  /\ staged \subseteq Version
  /\ pending \in Offers
  /\ checker \in [step : {"rest", "offered", "verified", "kept", "pruned"}, offer : Offers]
  /\ helper \in [step : {"rest", "read", "tested", "aside", "active", "unmarked"},
                 offer : Offers]
  /\ releases \in 0 .. MaxReleases
  /\ installs \in 0 .. MaxInstalls + 1
  /\ deaths \in 0 .. MaxDeaths /\ unfinished \in BOOLEAN
  /\ trigger \in {"watching", "stopped", "atStart"}

\* A store may still hold releases of the time before manifests were signed.
\* Under systemd a path unit watches the marker; the OpenRC and SysV scripts run
\* the helper when they start the Agent, and at no other time.
Init ==
  /\ kind \in [Version -> {"absent", "normal", "unsignedRollback"}]
  /\ open = [v \in Version |-> kind[v] # "absent"]
  /\ running \in Version \ Broken
  /\ installed = running /\ previous = 0
  /\ staged = {} /\ pending = NoOffer
  /\ checker = Rest /\ helper = Rest
  /\ releases = 0 /\ installs = 0
  /\ deaths = 0 /\ unfinished = FALSE
  /\ trigger \in {"watching", "atStart"}
-----------------------------------------------------------------------------
\* agentUpdateOfferAllowed: an upgrade must be newer; a rollback needs a signed
\* manifest and an Agent that verifies it, and may be any other version.
Allowed(v, current) ==
  \/ kind[v] = "normal" /\ v > current
  \/ kind[v] = "rollback" /\ v # current /\ current >= FirstV2

\* Candidates: the releases whose rollout reaches this host.
Candidates == {v \in Version : kind[v] # "absent" /\ open[v]}

\* selectAgentUpdateOffer: the newest candidate that is allowed, 0 for none.
Offer(current) ==
  LET allowed == {v \in Candidates : Allowed(v, current)}
  IN  IF allowed = {} THEN 0 ELSE Max(allowed)

\* validate_manifest_offer, which the Agent and the helper both apply.
Accepts(offer, current) ==
  /\ offer.kind \in {"normal", "rollback"}
  /\ offer.version > current \/ (offer.kind = "rollback" /\ offer.version # current)

ends == <<deaths, unfinished, trigger>>

\* What operators do starts the count of installations again.
Act ==
  /\ releases < MaxReleases
  /\ releases' = releases + 1
  /\ installs' = 0
  /\ UNCHANGED <<running, installed, previous, staged, pending, checker, helper, ends>>

Publish(v, k) ==
  /\ kind[v] = "absent"
  /\ kind' = [kind EXCEPT ![v] = k]
  /\ open' = [open EXCEPT ![v] = TRUE]
  /\ Act

SetRollout(v) ==
  /\ kind[v] # "absent"
  /\ open' = [open EXCEPT ![v] = ~ @]
  /\ UNCHANGED kind
  /\ Act

Retire(v) ==
  /\ kind[v] # "absent"
  /\ kind' = [kind EXCEPT ![v] = "absent"]
  /\ open' = [open EXCEPT ![v] = FALSE]
  /\ Act
-----------------------------------------------------------------------------
store == <<kind, open, releases>>

\* check_and_stage asks with the version of the running process.
AskOffer ==
  LET v == Offer(running)
  IN  /\ checker = Rest /\ running # 0 /\ v # 0
      /\ Accepts([version |-> v, kind |-> kind[v]], running)
      /\ checker' = [step |-> "offered", offer |-> [version |-> v, kind |-> kind[v]]]
      /\ UNCHANGED <<store, running, installed, previous, staged, pending, helper, installs, ends>>

\* The artifact is downloaded and verified; a retired release answers 404.
Download ==
  /\ checker.step = "offered"
  /\ checker' = IF kind[checker.offer.version] = "absent" THEN Rest
                ELSE [checker EXCEPT !.step = "verified"]
  /\ UNCHANGED <<store, running, installed, previous, staged, pending, helper, installs, ends>>

\* stage: the artifact, ...
KeepArtifact ==
  /\ checker.step = "verified"
  /\ staged' = staged \cup {checker.offer.version}
  /\ checker' = [checker EXCEPT !.step = "kept"]
  /\ UNCHANGED <<store, running, installed, previous, pending, helper, installs, ends>>

\* ... the removal of every other artifact, ...
Prune ==
  /\ checker.step = "kept"
  /\ staged' = staged \cap {checker.offer.version}
  /\ checker' = [checker EXCEPT !.step = "pruned"]
  /\ UNCHANGED <<store, running, installed, previous, pending, helper, installs, ends>>

\* Mutant: a marker that is there already is not replaced.
MarkOnce ==
  /\ checker.step = "pruned"
  /\ pending' = IF pending = NoOffer THEN checker.offer ELSE pending
  /\ checker' = Rest
  /\ UNCHANGED <<store, running, installed, previous, staged, helper, installs, ends>>

\* ... and the marker.
Mark ==
  /\ checker.step = "pruned"
  /\ pending' = checker.offer
  /\ checker' = Rest
  /\ UNCHANGED <<store, running, installed, previous, staged, helper, installs, ends>>
-----------------------------------------------------------------------------
\* The marker is there.  The path unit starts the helper while it watches, the
\* scripts start it before the Agent; a start of theirs that does nothing is one
\* of those that fail.
Started ==
  /\ helper = Rest /\ pending # NoOffer
  /\ trigger = "watching" \/ (trigger = "atStart" /\ running = 0)

\* A run of the helper that fails is followed by another at once while the path
\* unit watches: five in ten seconds, the default limit, and the unit has failed
\* and watches no more.  A step that fails and stops it is the last of the five.
Fails ==
  /\ helper' = Rest
  /\ trigger' \in IF trigger = "watching" THEN {"watching", "stopped"} ELSE {trigger}

\* apply_pending: the helper is the installed binary, and compares with that.
ReadMarker ==
  /\ Started
  /\ installed # 0 /\ Accepts(pending, installed)
  /\ helper' = [step |-> "read", offer |-> pending]
  /\ UNCHANGED <<store, running, installed, previous, staged, pending, checker, installs, ends>>

\* The offer is not accepted, as that of a release installed before is not; or
\* there is no binary to be the helper.
Refuse ==
  /\ Started
  /\ installed = 0 \/ ~ Accepts(pending, installed)
  /\ Fails
  /\ UNCHANGED <<store, running, installed, previous, staged, pending, checker, installs,
                 deaths, unfinished>>

\* The staged artifact is read, verified, copied beside the target and run once; ...
SelfTest ==
  /\ helper.step = "read" /\ helper.offer.version \in staged \ Broken
  /\ helper' = [helper EXCEPT !.step = "tested"]
  /\ UNCHANGED <<store, running, installed, previous, staged, pending, checker, installs, ends>>

\* ... any of that can fail, and the test of a good binary can take too long.
TestFails ==
  /\ helper.step = "read"
  /\ Fails
  /\ UNCHANGED <<store, running, installed, previous, staged, pending, checker, installs,
                 deaths, unfinished>>

\* atomic_install: the old binary is renamed to `.previous`, ...
MoveAside ==
  /\ helper.step = "tested"
  /\ previous' = installed /\ installed' = 0
  /\ helper' = [helper EXCEPT !.step = "aside"]
  /\ UNCHANGED <<store, running, staged, pending, checker, installs, ends>>

\* ... or that fails, when the binary there before is already removed, ...
KeepOld ==
  /\ helper.step = "tested"
  /\ previous' = 0
  /\ Fails
  /\ UNCHANGED <<store, running, installed, staged, pending, checker, installs,
                 deaths, unfinished>>

\* ... and the new one takes its place, ...
Activate ==
  /\ helper.step = "aside"
  /\ installed' = helper.offer.version
  /\ installs' = Min({installs + 1, MaxInstalls + 1})
  /\ helper' = [helper EXCEPT !.step = "active"]
  /\ UNCHANGED <<store, running, previous, staged, pending, checker, ends>>

\* ... or that rename fails and the old one is put back, which can fail too.
PutBack ==
  /\ helper.step = "aside"
  /\ (installed' = previous /\ previous' = 0) \/ UNCHANGED <<installed, previous>>
  /\ Fails
  /\ UNCHANGED <<store, running, staged, pending, checker, installs, deaths, unfinished>>

\* Mutant: the marker is emptied, not removed.
EmptyMarker ==
  /\ helper.step = "active"
  /\ pending' = [pending EXCEPT !.version = 0]
  /\ helper' = [helper EXCEPT !.step = "unmarked"]
  /\ UNCHANGED <<store, running, installed, previous, staged, checker, installs, ends>>

\* The helper removes the marker file, whichever offer it names by now, ...
RemoveMarker ==
  /\ helper.step = "active"
  /\ pending' = NoOffer
  /\ helper' = [helper EXCEPT !.step = "unmarked"]
  /\ UNCHANGED <<store, running, installed, previous, staged, checker, installs, ends>>

\* ... or the directory is not synced or the marker not removed: the new binary
\* stays, and nothing restarts the service.
LeaveMarker ==
  /\ helper.step = "active"
  /\ unfinished' = TRUE
  /\ Fails
  /\ UNCHANGED <<store, running, installed, previous, staged, pending, checker, installs, deaths>>

\* Mutant: the service goes on running the replaced binary.
FinishQuietly ==
  /\ helper.step = "unmarked"
  /\ staged' = staged \ {helper.offer.version}
  /\ helper' = Rest
  /\ UNCHANGED <<store, running, installed, previous, pending, checker, installs, ends>>

\* The artifact is removed and a service that runs is restarted on the new binary.
Finish ==
  /\ helper.step = "unmarked"
  /\ staged' = staged \ {helper.offer.version}
  /\ helper' = Rest
  /\ running' = IF running = 0 THEN 0 ELSE installed
  /\ checker' = Rest
  /\ unfinished' = FALSE
  /\ UNCHANGED <<store, installed, previous, pending, installs, deaths, trigger>>

\* The helper is killed.
HelperDies ==
  /\ helper # Rest /\ deaths < MaxDeaths
  /\ deaths' = deaths + 1
  /\ unfinished' = (unfinished \/ helper.step \in {"active", "unmarked"})
  /\ Fails
  /\ UNCHANGED <<store, running, installed, previous, staged, pending, checker, installs>>

\* The Agent stops, ...
AgentStops ==
  /\ running # 0
  /\ running' = 0 /\ checker' = Rest
  /\ UNCHANGED <<store, installed, previous, staged, pending, helper, installs, ends>>

\* ... its host restarts, with everything on it and the units as they were, ...
Reboot ==
  /\ running' = 0 /\ checker' = Rest /\ helper' = Rest
  /\ trigger' = IF trigger = "stopped" THEN "watching" ELSE trigger
  /\ unfinished' = FALSE
  /\ UNCHANGED <<store, installed, previous, staged, pending, installs, deaths>>

\* ... and the service manager starts the binary at the install path, if any, a
\* script once its helper has ended.
AgentStarts ==
  /\ running = 0 /\ installed # 0
  /\ trigger = "atStart" => helper = Rest
  /\ running' = installed
  /\ unfinished' = FALSE
  /\ UNCHANGED <<store, installed, previous, staged, pending, checker, helper, installs,
                 deaths, trigger>>

Check == AskOffer \/ Download \/ KeepArtifact \/ Prune \/ Mark
Apply == ReadMarker \/ SelfTest \/ MoveAside \/ Activate \/ RemoveMarker \/ Finish
Failure == Refuse \/ TestFails \/ KeepOld \/ PutBack \/ LeaveMarker \/ HelperDies

Next ==
  \/ \E v \in Version : Publish(v, "normal") \/ Publish(v, "rollback")
  \/ \E v \in Version : SetRollout(v) \/ Retire(v)
  \/ Check \/ Apply \/ Failure
  \/ AgentStops \/ Reboot \/ AgentStarts

Spec == Init /\ [][Next]_hostVars

\* systemd starts an Agent that stopped (Restart=always), the checker loops for
\* ever, the path unit starts the helper while it watches and the marker is there,
\* and what a run of the helper can do does not fail every time.  The OpenRC and
\* SysV scripts promise nothing: they start what somebody starts.
FairSpec ==
  /\ Spec
  /\ WF_hostVars(trigger # "atStart" /\ AgentStarts) /\ WF_hostVars(Check)
  /\ WF_hostVars(trigger = "watching" /\ (Apply \/ Failure))
  /\ SF_hostVars(SelfTest) /\ SF_hostVars(MoveAside) /\ SF_hostVars(Activate)
-----------------------------------------------------------------------------
\* Wherever the helper dies, the host has a binary that passed its self-test, at
\* the install path or beside it as `.previous` (atomic_install_with_suffix).
RecoverableBinary == {installed, previous} \cap (Version \ Broken) # {}

\* The binary that the next installation replaces.
Base == IF installed = 0 THEN previous ELSE installed

\* The Agent runs the binary that is installed, or the helper is between the swap
\* and the restart of the service; only a run that ended there leaves it on the old
\* one, until the Agent next starts (updater.rs, the units under packaging).
RunsInstalled ==
  helper.step \notin {"active", "unmarked"} /\ ~ unfinished => running \in {0, Base}

\* Once operators stop, and when no open rollback is below another open release,
\* the host settles: what is in hand and one climb are all it installs.
Calm == \A v, w \in Version : open[v] /\ open[w] /\ kind[v] = "rollback" => w <= v
Settles == Calm => installs <= MaxInstalls

\* Under systemd, once operators stop, and if the Agent and its host do not stop
\* for ever, the host comes to run what the store has for it: nothing is left to be
\* offered, except a binary that cannot run, or the path unit has met its limit
\* and watches no more (run_checker, apply_pending, the units under packaging).
UpdatesArrive ==
  <>[][~ AgentStops /\ ~ Reboot]_hostVars =>
    <>[](Calm /\ trigger = "watching" => Offer(running) \in {0} \cup Broken)

\* In every state of an update (src/updater.rs, updates/store.go) the host can be
\* brought back, runs what it has, and does not install for ever.
HostSafe == RecoverableBinary /\ RunsInstalled /\ Settles
=============================================================================
