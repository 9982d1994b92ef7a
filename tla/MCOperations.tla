---------------------------- MODULE MCOperations ----------------------------
(***************************************************************************)
(* What operators and administrators do to one installation: Agent releases, *)
(* policies, settings, mail, the violation recorder, the diagnostic log, the  *)
(* staging files of the spool, the start of a Pod and the schema that the     *)
(* Pods migrate when they start.  The parts share no state of these models,   *)
(* so one run checks them next to each other: Init picks the part that        *)
(* moves, and the others stay as they start.                                  *)
(***************************************************************************)
EXTENDS Naturals, FiniteSets, TLC
CONSTANTS
  Part, Absent,
  Release, Caller, Rollout, MaxBuilds,
  Writer, Host, Attempts, MaxVersions,
  Origin, MaxViolations, MaxClock,
  Pod, Older, MaxKills,
  Delivery, Saver, Secret, Nothing, MaxSaves,
  Setting, MailSetting, Requester, Content, Blank, MaxChanges,
  Dsn, Nowhere, Change, MaxKeys,
  Logger, Retained, Period, PruneEvery, MaxPruned, MaxEvents,
  Appender, Cleaner

\* What stands for nothing is nothing else, and a bound leaves room for a first step.
ASSUME StoreAssumption ==
  /\ MaxBuilds \in Nat /\ 0 \in Rollout
  /\ Absent \notin Release \cup Caller \cup [build : 1 .. MaxBuilds, rollout : Rollout]
ASSUME StartAssumption == MaxKeys \in Nat \ {0} /\ Nowhere \notin Dsn
ASSUME SchemaAssumption ==
  IsFiniteSet(Pod) /\ Pod # {} /\ Absent \notin Pod /\ MaxKills \in Nat
ASSUME StagingAssumption == Appender \cap Cleaner = {} /\ "none" \notin Appender \cup Cleaner
ASSUME PolicyAssumption == Attempts \in Nat \ {0} /\ MaxVersions \in Nat \ {0}
ASSUME RecorderAssumption ==
  IsFiniteSet(Origin) /\ MaxViolations \in Nat \ {0} /\ MaxClock \in Nat \ {0}
ASSUME MailAssumption == MaxSaves \in Nat
ASSUME SettingsAssumption ==
  MailSetting \subseteq Setting /\ MaxChanges \in Nat /\ Blank \notin Content \cup Requester
ASSUME LogAssumption ==
  Retained \in Nat /\ Period \in Nat /\ PruneEvery \in Nat \ {0} /\ MaxPruned \in Nat
  /\ MaxEvents \in Nat

VARIABLES
  part,
  artifact, manifest, call, holder, builds, acknowledged, withdrawn, torn,
  policy, document, writer, allowed, issued, early,
  violations, clock, seen,
  tracking, applied, effects, session, advisory, serving, failed, kills,
  config, saver, saves, mixed, entry, sender, accepted, lost,
  stored, history, request, rowLock, forked,
  environment, reachable, keyFile, sealed, server, change, chosen, keys,
  log, logger, written, now,
  stage, appender, cleaner, segment

\* The Pods of a rolling upgrade: the older release has one migration less.
Bringing == [p \in Pod |-> IF p \in Older THEN 2 ELSE 3]

Store    == INSTANCE UpdateStore
Policies == INSTANCE Policies
Recorder == INSTANCE Violations
Schema   == INSTANCE Migrations WITH Brings <- Bringing
Mailer   == INSTANCE Mail
Settings == INSTANCE Settings
PodStart == INSTANCE Startup
Log      == INSTANCE Diagnostics
Staging  == INSTANCE SpoolStaging

ofStore    == <<artifact, manifest, call, holder, builds, acknowledged, withdrawn, torn>>
ofPolicies == <<policy, document, writer, allowed, issued, early>>
ofRecorder == <<violations, clock, seen>>
ofSchema   == <<tracking, applied, effects, session, advisory, serving, failed, kills>>
ofMailer   == <<config, saver, saves, mixed, entry, sender, accepted, lost>>
ofSettings == <<stored, history, request, rowLock, forked>>
ofPodStart == <<environment, reachable, keyFile, sealed, server, change, chosen, keys>>
ofLog      == <<log, logger, written, now>>
ofStaging  == <<stage, appender, cleaner, segment>>
vars == <<part, ofStore, ofPolicies, ofRecorder, ofSchema, ofMailer, ofSettings,
          ofPodStart, ofLog, ofStaging>>

Init ==
  /\ part \in Part
  /\ Store!Init /\ Policies!Init /\ Recorder!Init /\ Schema!Init
  /\ Mailer!Init /\ Settings!Init /\ PodStart!Init /\ Log!Init
  /\ Staging!Init
  /\ part # "policies" => policy = "tracking"
  /\ part # "schema"   => applied = {} /\ ~ tracking
  /\ part # "start"    => environment = Nowhere /\ reachable = {} /\ keyFile = 0

Next ==
  \/ /\ part = "store" /\ Store!Next
     /\ UNCHANGED <<part, ofPolicies, ofRecorder, ofSchema, ofMailer,
                    ofSettings, ofPodStart, ofLog, ofStaging>>
  \/ /\ part = "policies" /\ Policies!Next
     /\ UNCHANGED <<part, ofStore, ofRecorder, ofSchema, ofMailer,
                    ofSettings, ofPodStart, ofLog, ofStaging>>
  \/ /\ part = "recorder" /\ Recorder!Next
     /\ UNCHANGED <<part, ofStore, ofPolicies, ofSchema, ofMailer,
                    ofSettings, ofPodStart, ofLog, ofStaging>>
  \/ /\ part = "schema" /\ Schema!Next
     /\ UNCHANGED <<part, ofStore, ofPolicies, ofRecorder, ofMailer,
                    ofSettings, ofPodStart, ofLog, ofStaging>>
  \/ /\ part = "mailer" /\ Mailer!Next
     /\ UNCHANGED <<part, ofStore, ofPolicies, ofRecorder, ofSchema,
                    ofSettings, ofPodStart, ofLog, ofStaging>>
  \/ /\ part = "settings" /\ Settings!Next
     /\ UNCHANGED <<part, ofStore, ofPolicies, ofRecorder, ofSchema,
                    ofMailer, ofPodStart, ofLog, ofStaging>>
  \/ /\ part = "start" /\ PodStart!Next
     /\ UNCHANGED <<part, ofStore, ofPolicies, ofRecorder, ofSchema,
                    ofMailer, ofSettings, ofLog, ofStaging>>
  \/ /\ part = "log" /\ Log!Next
     /\ UNCHANGED <<part, ofStore, ofPolicies, ofRecorder, ofSchema,
                    ofMailer, ofSettings, ofPodStart, ofStaging>>
  \/ /\ part = "staging" /\ Staging!Next
     /\ UNCHANGED <<part, ofStore, ofPolicies, ofRecorder, ofSchema,
                    ofMailer, ofSettings, ofPodStart, ofLog>>

Spec == Init /\ [][Next]_vars

\* Requests and values of settings are interchangeable.
Symmetry == Permutations(Requester) \cup Permutations(Content)
-----------------------------------------------------------------------------
\* The type invariants of all parts (updates/store.go, the policies, tracking,
\* storage/migrate.go, mail, settings, cmd/invenqor-server, diagnostics,
\* spool).
TypeOK ==
  /\ Store!TypeOK /\ Policies!TypeOK /\ Recorder!TypeOK /\ Schema!TypeOK
  /\ Mailer!TypeOK /\ Settings!TypeOK /\ PodStart!TypeOK /\ Log!TypeOK
  /\ Staging!TypeOK

\* The policy documents and the settings: no acknowledged change is lost, what is stored
\* is read again, and the history explains it, but for what the mail form saves beside
\* it (agent_enrollment_settings.go, tracking.go, settings.go and mail.go of httpapi).
DocumentsSafe ==
  /\ Policies!NoChangeLost /\ Policies!PolicyStaysReadable /\ Policies!GivesUpOvertaken
  /\ Settings!HistoryExplains

\* The two bounded records keep what is newest (diagnostics/store.go,
\* tracking/violations.go).
LogsSafe == Log!KeepsNewest /\ Recorder!KeepsMostRecent

\* The properties of the other parts, as their modules state them (updates/store.go,
\* mail/service.go, cmd/invenqor-server/main.go, storage/migrate.go, spool/spool.go).
StoreSafe == Store!StoreSafe
MailSafe == Mailer!MailSafe
StartSafe == PodStart!StartSafe
SchemaSafe == Schema!SchemaSafe
StagingSafe == Staging!StagingSafe
=============================================================================
