# TLA+ verification of invenqor

invenqor collects the hardware and software inventory of hosts. A Rust *Agent* on every host
sends it to a Go *Server*, which runs as one or more Pods behind a load balancer over one
PostgreSQL database (or alone over SQLite) and a shared event spool directory. This directory
holds TLA+ specifications of the parts where processes, faults and time interact, the TLC
configurations that check them on small instances, and proofs for instances of every size.
Line numbers below refer to the repository at the commit these modules were written for.

## 1. Inventory of the system

| Component | Code | State it keeps | Operations | What makes it correct |
|---|---|---|---|---|
| Agent inventory loop | `src/scheduler.rs`, `src/storage.rs` | `queue/*.jsonl`, `inventory.json`, `snapshot.sha256`, last heartbeat, quarantine directory | collect, diff, enqueue, deliver, acknowledge, quarantine | no event lost, order kept, a delta always against what was sent last |
| Agent transport | `src/transport.rs` | bearer token | enroll, send, preflight | an event is only removed for an accepted answer |
| Agent enrollment | `src/scheduler.rs:321`, `src/storage.rs:344-384`, `server/internal/agents`, `httpapi/agents.go` | claim and device token files; `agents`, `agent_credentials` rows; a five-minute authentication cache in every Pod | auto-enroll, provision, rotate, block, authenticate | only the claim's device is enrolled, a lost answer can be repaired, stale credentials stop working in time |
| Agent collectors | `src/collectors/`, `src/windows_inventory.rs`, `src/smbios.rs` | none | read the operating system | a failed read is not a removal (modelled on the side of the loop) |
| Agent updater | `src/updater.rs`, `httpapi/updates.go`, `packaging/systemd`, `openrc`, `sysv` | staged, installed and previous binary, marker, state of the check | offer, download, verify, stage, test, swap, put back | a working binary is always there and is what runs; what is offered arrives while the helper is started |
| Agent service, configuration, diagnosis | `src/config.rs`, `health.rs`, `diagnose.rs`, `logfile.rs`, `windows_*.rs` | configuration, status report | start, report | - |
| Event handler | `httpapi/agents.go` | rate limiter windows | authenticate, validate, process or spool, answer | accepted only when durable; a limit is a limit and its table forgets |
| Event ingestion | `ingest/service.go` | `agent_events`, `asset_sources`, `assets`, `asset_changes`, `agents` | Process, failEvent, upsertRecord, removeRecord, adoption of old identities | at most once; newest state wins; one asset per host and per package |
| Event spool | `spool/spool.go`, `httpapi/spool.go` | `*.json` segments, staging files, `.replay.lock` | Append, Pending, replay, Acknowledge, clean-up | atomic publication, one replayer, no segment dropped early |
| Storage runtime, start-up | `storage/runtime.go`, `bootstrap/store.go`, `cmd/invenqor-server/main.go`, `httpapi/postgres_settings.go` | mode of every Pod; key and sealed file of its state directory | Open, Ping, load, seed, save a connection | mode follows the database; no start on unrelated data |
| Schema migrations | `storage/migrate.go` | `schema_migrations` | migrate under an advisory lock | each migration once, whatever Pods start together |
| First administrator, local logins | `auth/bootstrap.go`, `auth/service.go`, `httpapi/auth.go` | setup token and its hash; users, failures, sessions | set up, log in, lock out, refresh, change or reset a password | one first administrator; a session ends when it must |
| Second factor | `auth/totp.go` | `user_totp` | set up, enable, verify, regenerate, disable | a recovery code once, unless requests overlap on it; only a proven secret |
| Accounts and roles | `httpapi/users.go` | `users`, `user_roles` | create, update, delete, provision | a role for everyone, no resurrection |
| Keycloak login | `auth/oidc.go`, `httpapi/keycloak.go` | login flows, identities, shared client secret | start, callback, provision, migrate the secret | one callback per flow, nobody takes an account over |
| API keys | `apikeys/` | keys with current and grace secret | create, change scopes, rotate, revoke | no change lost, revoked for good |
| Asset management | `httpapi/assets.go`, `classify/`, `httpapi/classification.go` | assets, sources, relations, manual fields, rules | merge, split, edit, review, classify, replay | what a person decided stands |
| Software catalog | `softwarecatalog/` | product assets, relations, projection, marker | reconcile, backfill | the view is what the evidence shows |
| Policies, settings | `httpapi/agent_enrollment_settings.go`, `httpapi/tracking.go`, `tracking/`, `httpapi/settings.go` | two documents; settings with versions and history | load, change, compare and swap, roll back | no acknowledged change lost, but where the mail form and generic changes meet |
| Mail | `mail/`, `httpapi/mail.go` | settings, delivery log | notify, send, complete, prune | the log is true; twice only after a lost acknowledgement |
| Update store | `updates/` | artifacts, manifests, lock file | publish, change the rollout, retire, recover | a manifest only names complete files |
| Diagnostics, violations | `diagnostics/store.go`, `tracking/violations.go` | bounded logs | record, prune, evict | what is kept is the newest |
| Audit, external API, MCP, web console, packaging | `audit/`, `httpapi/external_api.go`, `mcp.go`, `web/`, `packaging/`, `deploy/` | records, none | append, read | - |

How they interact: the Agent calls the Server over HTTP only, one request at a time. Pods share
nothing in memory; they meet in the database (row locks at READ COMMITTED), in the spool
directory (atomic hard links, an advisory lock the kernel frees) and in the update directory.
Inside a Pod, the event handlers, the replay goroutine and the health endpoint share the mode,
the authentication cache and the rule cache. Administrators and events meet in the rows of
`assets`, `asset_sources` and `asset_relations`; administrators among each other in `users`,
`api_keys`, `server_metadata` and the settings. The Agent's updater and its privileged helper meet
in the state directory, in a marker file.

What is hard about it: an event can be at work in several Pods and in the spool at once, because
the Agent retries whatever it has no answer for; every answer, transaction, commit
acknowledgement, Pod or database can be lost at any step; the spool lets events overtake each
other; clocks of hosts are wrong; and Agent and Server each keep a cache of what the other side
knows. Nearly every request of the console reads a row, decides, and writes with a later statement at
READ COMMITTED, where another Pod may have committed in between: what then holds is decided by the
guards of the last statement, request by request. `PROJECT.json` lists these hazards line by line with the properties that cover them.

## 2. Modules

| Module | What it is |
|---|---|
| `EventLog` | abstract specification of the delivery: an event stays with the Agent until the Server holds it, is applied at most once, and leaves unapplied only by quarantine or discarding |
| `Delivery` | Agent queue, handler, event transaction, spool and replay, database and Pods; implements `EventLog` |
| `SequenceLemmas` | facts about sequences (removing an element, appending) and about sets of naturals (the smallest, the largest) the proofs need |
| `DeliveryProofs` | the inductive invariant of `Delivery`, its theorems, and that it implements `EventLog` |
| `Inventory` | what events do to the records: collection cycle, delta, ordering by time, removals |
| `Credentials` | enrollment with a device's claim, token recovery, rotation, blocking, authentication and the Pods' caches |
| `InventoryProofs` | two inductive invariants of `Inventory`, for the order of events and for the agreement of Agent and Server |
| `CredentialsProofs` | the inductive invariant of `Credentials` and its theorems |
| `RequestLimit` | the requests-per-minute windows of the handlers and their sweep |
| `SpoolStaging` | how a segment gets into the spool directory, and how the stages of dead writers leave it |
| `FirstAdmin`, `SecondFactor`, `Logins`, `Accounts`, `ApiKeys`, `FederatedLogin`, `KeycloakSecret` | who may do what |
| `Representatives`, `EnrolledHost`, `LegacyPackages` | assets rows and the sources they stand for |
| `Classification`, `RuleCache`, `Relations`, `Catalog` | what is derived from the inventory, and what persons make of it |
| `UpdateStore`, `AgentUpdate` | the directory of releases, and a host that follows it |
| `Policies`, `Settings`, `Mail` | what administrators store, and what is sent on account of it |
| `Startup`, `Migrations` | how a Pod comes to its database, and the database to its schema |
| `Diagnostics`, `Violations` | bounded records |
| `MCDelivery`, `MCInventory`, `MCCredentials` | the symmetry sets for TLC |
| `MCAccess`, `MCAssets`, `MCOperations` | the component modules side by side, for one run each |
| `AccessProofs`, `AssetsProofs`, `OperationsProofs` | an inductive invariant for each part of these three, and the theorems |
| `MCAgentUpdate`, `AgentUpdateProofs` | the instance of `AgentUpdate`, and the proofs about it for every instance |

**How the parts are put together.** `Delivery`, `Inventory` and `Credentials` are the path of an event
and interact in the code by what they assume of each other: `Inventory` takes from `Delivery` that an
event is applied at most once, `Delivery` takes from `Credentials` that a request is authenticated or
is not. Two modules show what another one takes as one step: `SpoolStaging` for `SpoolAppend` of
`Delivery`, `RuleCache` for the rule set that each pass of `Classification` finds. `AgentUpdate`
takes from `UpdateStore` that a listed release is whole. The other components share no state with
each other that their properties could notice. `MCAccess`, `MCAssets` and `MCOperations` instantiate
them with variables of their own and let `Init` pick the one that moves, so that a state space is
the sum of those of the parts and not their product.

### Delivery

State and code: `queue` is the file-name order of `queue/*.jsonl`; `awaiting` the request the
sequential loop of `deliver()` waits for; `mode` the `storage.Mode` of each Pod; `work` the
program counter of each Pod's handler and replay goroutine, with the event it handles;
`listing` the result of `spool.Pending()`; `lease` the holder of `.replay.lock`; `spool` the
final segments; `row`, `holder` and `applied` the `agent_events` row of each event, the open
transaction that owns it and how often its records were committed; `blocked` and `status` the
two columns of `agents`.

Every SQL statement another process can come between is a step of its own: the insert with the
status read (`Reserve`), the claim (`Claim`), the commit (`Commit`), and the failure record after
the rollback (`RecordFailure`). Statements in between touch only rows the transaction already
owns. `processing` is never visible to others, because a transaction that sets it either commits
`processed` or rolls back; so the row takes three values and the lock is `holder`. A Pod can
serve many requests, but only requests of the same Agent for the same event interact here; one
handler per Pod and two Pods give two concurrent attempts plus a replay, and the rows are in
the database, so attempts on one Pod interact as attempts on two do. `Send` stands for the steps
before `Mode()` is read (authentication, headers, body, rate limit), which change nothing here.

Faults share one budget, `MaxFaults`: a request given up, a damaged queue file, a failing
transaction, a lost commit acknowledgement, a failing spool write or replay step, a database
outage, a Pod crash. The `SQLITE` mode has no outage and no spool and is not modelled; segments
that do not parse or whose Agent was deleted go the way of a blocked Agent's segments. The
quarantine keeps the newest 20 files for inspection; `quarantined` is what was set aside.

### Inventory

One Agent; `host` is what is installed, `prev` and `hashed` the two cache files, `cycle` the
writes of a collection cycle that remain, `event` the events created (full or delta, with
their created_at), `received` the `received_at` their rows have, `source` the `asset_sources` row
of each record with `collected_at` and the two times of its last event, `now` the database clock
and `skew` the distance of the host's clock. `Delivery` shows that an event is applied at most
once, so `Apply` is one step: each record is decided by one guarded UPDATE. `Deliver` is the
direct way, `Divert` and `Replay` the one through the spool; `Fail` leaves the row that fixes
`received_at` before the event succeeds. Times of receipt are distinct, so the event
identifier, the last tie-breaker of the code, never decides. The record of an event has
the event's time as its `collected_at` (both are taken in one cycle). What happens to the `assets`
row of a source is the subject of `Representatives` and the modules after it.

A failed event keeps its first `received_at`; replayed from the spool after more than the
tolerated skew it takes every newer row for one from the future and overwrites it
(`ingest/service.go:775-780, 915-920, 425`). `LatestUpsertWins` therefore does not hold when
failing transactions and the spool come together, and `MCInventorySpool` checks it without
failing transactions.

### Credentials

One `agent_id`; `Device` are the hosts that use it (copies of a disk image have the same one, and
each its own claim). `device` holds each host's token file and the Pod it waits for; `known`,
`claim`, `blockedAt` are the `agents` row and its claim row; `token` the bearer rows of
`agent_credentials` in the order of their commits, a token being its index; `cache` the expiry of
each Pod's cached authentication; `work` the request each Pod handles.

`AutoEnroll` is one transaction at READ COMMITTED, so it takes several steps: the look-up
(`FindAgent`), for a new agent the insert, which waits for another insert of the same `agent_id`
(`CreateAgent`), otherwise the revoking UPDATE, whose snapshot of unrevoked rows (`SeeTokens`) is
older than the moment it gets the rows' locks (`RevokeTokens`), and the commit (`Issue`). From its
first write to its end a transaction holds the agents row, and `OthersWriting` is what everyone
else who writes that row waits for. `RotateBearer` waits between reading and writing in the same
way. A commit whose acknowledgement is lost takes effect without clearing the cache. A device that
gives up leaves its request running, and its answer is lost: that is how a token nobody holds comes
about, and why a 401 makes the device drop its token and enroll again. `authenticate` and the
caching of its result are two steps; between them another request of the Pod may block the Agent.
Each Pod handles one request at a time, and a block at any time: two requests on one Pod meet in
the database exactly as requests on two Pods do, and its cache is only forgetful once more.

The unit of time is much longer than a request (`Tick` waits for the Pods to be idle): the cache
lasts five minutes, grace periods up to a week. `MaxFaults` counts faults and administrators'
changes together; lifting a block is free, so that a block is a decision and never an exhausted
budget. Tokens an administrator hands over by hand and client certificates are not modelled; the
policy that turns enrollment off is in `Policies`, the asset an enrollment creates in `EnrolledHost`.

### Access

`FirstAdmin`: `claim` is the row of `server_metadata` all Pods share, `tokenFile` the file of each Pod,
`admins` the users made. `Ensure` counts the users, writes the file and then stores the hash; the claim
is the DELETE of the row in the transaction that inserts the user. The INSERT of the hash can report
an error, with or without having taken effect, and the Pod then removes the file of its token
(`auth/bootstrap.go:88`): `unanswered` are the tokens that count and are gone, the one case
`ClaimHasToken` excepts. `SecondFactor`: `totp` is the row of
one account, `mfaCall` what each of two requests has verified, the codes it read and the one it took.
The statements of an operation are not tied to each other in `totp.go`, so overlapping requests can
spend one recovery code twice, bring back codes that are spent or older, and enable a secret nobody
has proven. The properties count these overlaps (`overlaps`, `swapped`) and say that a code
serves once and once more for each of them, and that nothing else in any order of requests gives a
use away; "one-time" without them would be false (`openapi.yaml:144`). `Logins`: one account
(`account`), the rows of failures of one address, its sessions, and clients that are between the check
of the password and the writes that follow. `StartReset`, `StartDeactivation` and `ChangeOlder`/`Change`
are the transactions that end sessions: they revoke what is committed when their UPDATE looks.
`Accounts`: rows of `users` with the local and the Keycloak roles of each; every update reads what it
will write back. `ApiKeys`: one key row; each change names in its UPDATE what it has read (`scopes_json`,
`key_hash`). `FederatedLogin`: flows, callbacks that load, exchange, claim, look up, migrate, link,
provision and open a session, each a statement of its own, and an issuer the administrator changes
meanwhile. A person is the issuer that vouches for the common `sub`. `KeycloakSecret`: the setting all
Pods share against the file of each Pod, migrated by insert-if-absent. `RequestLimit`: window start and
count per key, the sweep, and the instants of what was admitted; an instant is a point of time on a clock of `MaxInstant` ticks.

`SomeAdministrator` and `FlagHasGrant` of `Accounts` are stated and do not hold; two administrators at the
same moment violate them (`httpapi/users.go:775`, `:427`).

### Assets

`Representatives`: `asset` rows and `source` rows with the asset they point to and the order number of
the newest event; an event reads its source, updates it under the guard of the order (the row is then
held), and upserts, revives or hides the asset, which it finds by the source; a removal counts the
other active sources. Merge, split, deletion, restoration and PATCH are the administrator's requests.
`EnrolledHost`: repeated enrollments look for the agent, take its row, find or make the host's asset
and refresh it; an event reads the system source, adopts the enrollment's asset when there is one
(`FindEnrollment`), or makes a new one. `LegacyPackages`: the old source, the records whose new identity
shortens to it, and the three guards of `migrateLegacyPackageSource`. `Classification`: two fields of
one asset and, in the same `row`, the list of those a person claimed; an event holds the row from its first UPDATE, a
replay (`ListAssets`, `ReadManual`, `Replay`) and a PATCH do not. An event replaces a claimed environment of
"other" by that of the host (`ingest/service.go:1140`), which `EventKeepsClaims` allows and nothing else.
`RuleCache`: one Pod's cache, its age, and whether what is in it came from a load that was under way when an
edit dropped the cache. Such a result is put back and served, so an edit does not always "take effect
at once" (`classify/store.go:50`): `EditsSeen` says who is served it and that nobody is once it is as
old as the cache time. `Relations`: one row for each (source, type, target)
with its status and origin, and whether the two assets are reported. `Catalog`: evidence, product view, marker
and projection of each Agent; `Reserve` and `Load` are the two statements a reconciliation may be
overtaken between, Pods of two catalogue versions take part, and a person may merge two product assets.

### Operations

`UpdateStore`: every file operation of `Publish`, `SetRollout` and `Retire` is a step, under the
process's mutex and the file lock; `Crash` can come between any two and `Recover` is what the next
holder of the lock does first. `AgentUpdate`: `open`, `kind` are the releases; `staged`, `pending` (the marker),
`installed`, `previous`, `running` the host's files and process; one action for each file operation
of the helper, which can die between any two, one for the failure of each, and one for each step of the Agent's check.
`trigger` is what starts the helper: the systemd path unit as long as it watches, or the OpenRC and SysV
scripts, which run it when they start the Agent and at no other time. A run that fails is followed by another
at once while the path unit watches; five in ten seconds (systemd's default limit, which
`invenqor-agent-update.service` keeps) fail the unit, and only its restart, here that of the host, makes it
watch again. One failing step of the model that stops the unit stands for the five. `Policies`: two documents with
versions; load, change, compare and swap, give up after `Attempts`. `Settings`: rows with a version,
the history with its UNIQUE (key, version), requests that change several rows in one transaction,
deadlocks included, and the form for mail (`SaveForm`), which writes rows of `MailSetting` with the next version
and no history row. A generic change that read such a row before the form saved it overwrites it
unnoticed; `forked` are the settings this has happened to, and what is said of the history leaves
them, and nothing else, out. The other writer's side is in `Mail`: `ChangeRows` is a generic change or rollback of any row but
the password's, which validates nothing, so `StoredTogether` holds from a save of the form to the next one of these (`mixed`). `Mail`: a delivery is recorded, attempted once or twice, completed; the relay
accepts or refuses and its answer may be lost; the process may stop; rows are pruned. `SendNow` is the
test message of the console. `Startup`: the order of `main`, with a death between any two steps, the
key and the sealed file, the environment that may name another database, and two administrators who
save a connection. `Migrations`: session lock, table, one transaction per missing migration, and the minute a Pod has for the wait and the work (`Expire`).
`Diagnostics` and `Violations`: the rows and the clearing. `SpoolStaging`: stage, lock, write, link and
unlink of each `Append`; a cleaner lists, tries the lock, and removes.

## 3. Runs

| Run | Instance | Shows |
|---|---|---|
| `MCDelivery` | 2 events, 2 Pods, 3 faults, symmetric | `IInv`, `AppliedAtMostOnce`, `NoEventLost`, `SingleReplayer`, `ProcessedIsFinal`, and that `Delivery` implements `EventLog` (`LogSpec`) |
| `MCDeliveryLive` | 2 events, 2 Pods, 1 fault | `EventuallySettled`: nothing is stuck after a fault |
| `MCInventory` | 2 records, 2 values, 3 events, time 0..3, failing transactions and collectors | `Convergent`: after in-order delivery the Server shows what is installed |
| `MCInventorySpool` | 1 record, 3 events, spool, wrong clock, crashes, lost cache | `LatestUpsertWins`, `RemovedByNewest`, `NoFutureRows` |
| `MCCredentials` | 2 devices, 2 Pods, 6 tokens, time 1..3, 2 faults | `IInv`, `OnlyOwnerHolds`, `StaleAtMostCacheTime`, and under fairness `EventuallyAuthorized`: the claim's device recovers from any lost answer, commit or token |
| `MCAccess` | eight parts, two concurrent requests each | `SetupSafe` (`OneInitialAdmin`, `ClaimHasToken`), `FactorSafe` (`RecoveryCodeOnce`, `EnabledIsProven`, `OldCodesDead`), `AccountsSafe` (`AddressBound`, `EarlierSessionsEnd`, `AbsoluteEnd` of logins, `EveryAccountHasRole`, `DeletedStaysInactive` of accounts), `KeysSafe` (`ScopesAsIntended`, `RotationSawSecret`, and the action property `RevokedForGood`), `KeycloakSafe` (`OneCallbackPerFlow`, `NoTakeover`, `AdministratorsSecretStays`, `SharedSecretUsed`), `LimitSafe` (`TwiceTheLimit`, `TableForgets`) |
| `MCAssets` | seven parts, two events or Pods each | `RepresentativesSafe` (`UntouchedIsVisible`, `StaysPlaced`), `IdentitySafe` (`OneHostAsset`, `InventoryNames` of enrolled hosts, `AdoptedByTwin`, `TwinKeepsAsset` of old packages), `ClassesSafe` (`EditsSeen` of the rule cache and the action property `EventKeepsClaims`), `RelationsSafe` (`DecisionStands` and the action property `ManualEndsForGood`), `ProductsSafe` (`ViewIsCurrent`, `BackfillOnce`, `ProjectionAgrees`) |
| `MCOperations` | nine parts; symmetric in the requesters and the values of settings | `StoreSafe` (`ManifestHasArtifact`, `RetiredStaysRetired`, `AcknowledgedStays`), `DocumentsSafe` (`NoChangeLost`, `PolicyStaysReadable`, `GivesUpOvertaken` of policies, `HistoryExplains` of settings), `MailSafe` (`LogIsTrue`, `TwiceOnlyAfterLoss`, `StoredTogether`), `StartSafe` (`SealedOpens`, `NoUnrelatedData`, and the action property `LegacySecretKept`), `SchemaSafe` (`NobodyFails`, `MigratedOnce`), `LogsSafe` (`KeepsNewest`, `KeepsMostRecent`), `StagingSafe` (`WriterKeepsStage`, `AcceptedIsSpooled`) |
| `MCAgentUpdate` | 3 versions, the newest broken, 2 operators' acts, 1 death, any number of failures and restarts | `HostSafe` (`RecoverableBinary`, `RunsInstalled`, `Settles`), and under fairness `UpdatesArrive` |
| `MCInventoryLate`, `MCAssetsManual`, `MCAssetsMerged` | | three findings, below |

The properties of the components are conjunctions of named parts; the sentence each part stands for is
the comment above it in its module. `TypeOK` of `Inventory`
and of the component modules, and the first part of `IInv` in `Delivery` and `Credentials`, are the type
invariants.

Why the bounds are enough. Two Pods are needed for every race on a row or on the lock, and a
third repeats what one of the two does after it has crashed or given up. Two events are needed
for an order in the queue or in the spool. Three faults allow, for example, a lost commit
acknowledgement, a request given up and a crash during the replay in one behaviour; the proofs
cover any number of all three. In `Inventory` three events are a report, its successor and the
one that overtakes them; time 0..3 gives each a receipt of its own, with `Skew = 1` a row can be
inside and outside the tolerated distance, and `Ahead = {0, 9}` is a right clock and one far
beyond it. In `Credentials` two devices race for one agent_id and two Pods give every race of two
requests; `CacheTime = 2` lets a cache entry be used and outlive the change it does not know of, and
6 tokens are more than 2 faults can use up, so the bound never stops a device.

In the component modules the races are between two statements of two requests on one row, so two
requests (`Client`, `Change`, `KeyCall`, `Callback`, `Pass`, `Work`, `HostEvent`, `Requester`,
`Saver`) reach each of them. Where a third actor matters there is one: three Pods of two releases in
`Migrations` (two that wait, one that is killed while it holds the lock), a third asset in
`Representatives` for a split, a third origin beyond `MaxViolations = 2`. Numbers are the smallest
that let the case happen: `Threshold = 2` failures, `Limit = 2` requests in a window of 3 instants out
of 8, `Attempts = 2` so that a request can lose once and again, `GraceTime = 1` of a clock 0..1, four
catalogue works, two deaths of Pods, `MaxSecrets = 2` for a set-up and its replacement, and of codes an older and a newer set, each code taken up to `MaxLogins = 2` times by two requests (`MfaCall`),
`MaxRules = 3` versions with `Ttl = 2` and a clock up to `MaxAge = 3`, so that a cache entry is dropped under a load, put back, served and gone,
`MaxChanges = 2` versions of a mail setting and of another one, where a pair of changes in one request gives both the same content at once,
`MaxEvents = 7` rows with `Retained = 2` and `PruneEvery = 2` so that two clearings of two Pods overlap.
Every bound is a constant of its module named `Max...`, or the size of a set of actors.

`CHECK_DEADLOCK FALSE` appears in every run but the two of `Delivery` and that of `AgentUpdate`: a bounded number of events,
tokens, secrets, requests or moments ends there. `Delivery` must never deadlock, and a host can always restart.

**Fairness** (`FairSpec` of `Delivery`). The Agent's loop retries with a capped backoff
(`scheduler.rs:470-485`), each handler and each transaction ends within its timeouts, the replay
ticker of every Pod never stops (`httpapi/spool.go:19-49`), the health endpoint and the replay
loop ping the database, PostgreSQL comes back, and the StatefulSet restarts a dead Pod. `Send` and
`StartReplay` are weakly fair over the set of Pods, not for each Pod: the load balancer need
not choose a given Pod, a Pod may lose the race for the lock every time. Faults,
administrators and new events have no fairness. In `Credentials` a device keeps asking some Pod
(the same loop), each Pod finishes its request (the request's context and the database end it),
and PostgreSQL comes back. `EventuallyAuthorized` is stated for behaviours in which the Agent is
not blocked from some moment on, and for an agent with a claim: one an administrator provisioned
has none, and automatic enrollment refuses it (`agents/service.go:238`).

In `AgentUpdate` systemd starts a stopped Agent (`Restart=always`), `run_checker` never ends, and the path unit
starts the helper while it watches and the marker is there: each is weakly fair, the last two only as far as
`trigger` says. The self-test of a good binary and the two renames (`SelfTest`, `MoveAside`, `Activate`) are
strongly fair: they can fail, but not every time, although the helper is started over in between. Operators,
failures, deaths, stops and restarts have none; `UpdatesArrive` is stated for behaviours in which Agent and
host stop only finitely often, and promises arrival only while the path unit watches: a release that fails fast, or a
marker that an error after the swap left behind, stops it, and what is staged later waits. Under OpenRC and SysV nothing is fair and
nothing is promised: somebody has to start the Agent. The other runs check safety only.

## 4. Findings

| Run | Where | What |
|---|---|---|
| `MCInventoryLate` (`LateEventNeverReverts`) | `ingest/service.go:1016` | the removal of an unknown record leaves nothing, and an older report that arrives later shows the record again (`docs/SERVER_INSTALLATION.md:698-702`) |
| `MCAssetsManual` (`ManualStays`) | `softwarecatalog/reconcile.go:251` | the environment a person set on a software product is overwritten by that of its host at the next inventory (`docs/SERVER_INSTALLATION.md:1095-1097`, `httpapi/assets.go:429-430`) |
| `MCAssetsMerged` (`EveryInventoryRecomputes`) | `softwarecatalog/reconcile.go:328` | after a person merged the product assets of two hosts the projection wants one asset twice, and the inventory events of one host fail (`docs/SERVER_INSTALLATION.md:1167`, `migrations/postgres/006_software_product_inventory.sql:44-45`) |

Other differences between text and code that the models contain but no run states (most are hazards
with a note in `PROJECT.json`): the agent's status set back by an event that commits after a block
(`ingest/service.go:336`), the time a retried event is judged by (`ingest/service.go:775`), a second
rotation that takes up ended grace periods (`agents/service.go:469`), a lost `inventory.json`
(`src/storage.rs:88`), two administrators who demote each other (`httpapi/users.go:775`), recovery codes that serve
overlapping requests (`auth/totp.go:156`), a save of the mail form lost to a generic change of the same setting and mail
on without a relay after one (`httpapi/settings.go:90`), a rule edit overtaken by a load (`classify/store.go:39`),
a claimed environment of "other" (`ingest/service.go:1140`), the token file removed after an unanswered INSERT
(`auth/bootstrap.go:88`), and the path unit that stops watching (`packaging/systemd`).

## 5. Proofs

Every theorem below holds for every value of the constants that satisfies the named assumptions of its
module (`DeliveryAssumption`, `SetupAssumption` and so on); where it needs a hypothesis of its own, the
hypothesis is given. The assumptions say that bounds and durations are numbers, that a mark such as
"none" is no member of the set it stands beside, and that a set that `Init` chooses from is not empty.
Three say more, and the code justifies them: `LoginAssumption` has `Idle <= Maximum`, as the defaults
of `NewService` do (`auth/service.go:31-36`); `KeyAssumption` and `PolicyAssumption` allow at least
one attempt; `AssetsAssumption` has an asset for every source besides `Fresh`, the one only a split makes.

A safety property is hardly ever inductive. Each proof therefore has an invariant that adds what the
property rests on, a lemma that it holds initially, lemmas for the actions or groups of actions,
and one for the conclusion. The modules `MCAccess`, `MCAssets` and `MCOperations` put parts side by side;
`PartsMove` in each of their proof modules shows that a step of the whole is a step of each part or leaves it alone,
so that each part has an invariant of its own.

### Delivery and Credentials

`DeliveryProofs` (assuming only `DeliveryAssumption`):

- `Inductive`: `Spec => []IInv`.
  `AppliedAtMostOnce` needs that a worker applying an event owns its row and that an owned row is
  not processed (`RowsOK`). `NoEventLost` needs that an accepted answer is only written for a
  durable event and that a replay only acknowledges a processed one (`AcceptedOK`), which in turn
  needs that a worker's phase and event agree and that a replay works on the head of its list
  (`WorkOK`). `SingleReplayer` needs that whoever replays holds the lock (`LeaseOK`).
- `AtMostOnce`, `NothingLost`, `OneReplayer` follow from it; `ProcessedStays` is an action
  property proved from the same invariant.
- `DeliveryImplementsLog`: `Spec => LogSpec`. Beside `IInv` it needs that no event comes from
  nowhere (`KnownOK`): what is queued, quarantined, on the Server or in a worker's hands was created by the
  Agent, the queue has no event twice (so that taking the first occurrence off takes the event off), and
  what a replay has listed is still on the Server. Nine actions reach a variable of the log, and each
  has a lemma that says which step it is: `Enqueue` is `Create`, `Quarantine` is `SetAside`, `Answer` is `Release` or
  nothing, `Commit` and `CommitUnknown` are `Apply`, `SpoolAppend` is `Store`, `DiscardSegment` is `Discard`,
  `RecordFailure` and `AcknowledgeSegment` are nothing, for the event of a segment that goes is processed.

The proof of `IInv` has one lemma for what every action does to the workers (`ActionMoves`), and one for
each conjunct of the invariant, with a case for each action that can disturb it.

`CredentialsProofs` (assuming only `CredentialsAssumption`):

- `Inductive`: `Spec => []IInv`. `OnlyOwnerHolds` needs that every request past the look-up, and
  every authentication under way, is the claim's device's, and that at most one transaction has
  written the agents row (`EnrollmentOK`): otherwise a second first enrollment could move the
  claim while the first one's token is on its way. `StaleAtMostCacheTime` needs that what is about
  to be cached has not ended before the present moment, and that nothing is cached for a token
  still to be issued (`CacheOK`).
- `OwnerOnly` and `CacheBound` follow from it.

`CacheKept` is the heart of the second one: a step keeps the bound if whatever it ends ends now or
later and it caches only what has not ended; each action is then an instance of it.

### Inventory

- `TypesKept` and `NothingFromTheFuture` (`NoFutureRows`): whatever fails and whatever the clocks say.
- `Ordered`, `NewestUpsertShown` (`LatestUpsertWins`), `NewestRemovalKept` (`RemovedByNewest`), under the
  hypothesis `"failure" \notin Faults`: the spool, crashes and damaged caches are there, with any clock.
  The hypothesis is what the code needs: a retried event keeps the time of its first attempt
  (`ingest/service.go:775`), so with failures these two are false. `OrderInv` says where every event is (`QueueOK`:
  the queue holds the newest ones in order, the spool others, none twice), that exactly the processed
  events have receipts, all different (`ReceiptsOK`), and that every row is its newest report or its newest
  removal with the time of that event, or a row of an older Server that no report has touched (`RowsOK`).
- `AgentAndServerAgree` (`Convergent`), under the hypotheses of `MCInventory`: transactions may fail and be
  retried, nothing is spooled, the Agent does not crash, and its clock is ahead by one amount that is
  tolerated (`a \in 0..Skew`). `SyncInv` relates what the Server shows of an item to what the Agent believes it has told:
  they agree when no event about the item waits, and otherwise the last one waiting makes them agree
  (`ToldOK`); for that an event still to come must win against every row (`TimesOK`), which rests on events
  being dated and received in their order (`ClockOK`).

### Access (`AccessProofs`)

- `OneAdministrator` (`SetupSafe`): while there is no user, the token whose hash counts is in the file of a Pod
  that is not about to write or remove it, or is one whose INSERT was not answered (`SetupInv`).
- `FactorServesOnce` (`FactorSafe`), for any number of requests that overlap: a code that is in the row, or in the set a
  request is about to write, has been accepted no more often than requests overlapped on it (`FactorInv`).
- `AccountsKept` (`AccountsSafe`): `LoginInv` counts the failures stored together with the attempts that
  can still become failures of the same window (`AddressOK`; the bound on the stored ones alone is not inductive), and says
  that whoever is about to end sessions holds the account and covers every session that is not raced
  (`SessionsOK`). `UsersInv`: what a request has read of an account stays true enough until it writes.
- `KeysKept` (`KeysSafe`): what a change will write is what it makes of the scopes it has read (`KeysInv`).
- `KeycloakKept` (`KeycloakSafe`): a callback past the claim is the only one of its flow (`ClaimsOK`),
  and every row that names an account names it for its own person (`OwnersOK`); `SealedInv` for the secret.
- `LimitsHold` (`LimitSafe`): of twice the limit admissions in a row the last comes a window after the first;
  `LimitsInv` ties start and count of an open window to the admissions it counts.
- `PartsTyped` (`TypeOK`).

### Assets (`AssetsProofs`)

- `SourcesRepresented` (`RepresentativesSafe`): `AssetsInv` says what an event that has read a source
  still knows of it: the source is where it was, or both assets were handled by a person; at most one event holds a
  source; the sources of an open merge are still those of its secondary.
- `ClaimsKept` (`ClassesSafe`, which has an action property): an event holds the row from its first UPDATE, so the manual fields
  it read are those of the row (`ClassesInv`); a cache that misses an edit came from a load an edit overtook, and whoever is served it was served within the cache time (`CacheInv`).
- `RelationsStand` (`RelationsSafe`, with an action property): `LinksInv`.
- `IdentitiesKept` (`IdentitySafe`): `HostsInv` has, for a host whose first contact was an enrollment, that every source
  and every event about to write one has the enrollment's asset; enrollments of one agent exclude each other.
  `LegacyInv` has that only a record that agrees with the old source can be about to adopt it, and one at a time.
- `ProductsAgree` (`ProductsSafe`): what the holder of an Agent's marker has loaded is the evidence it will
  commit, and no two hold one marker (`ProductsInv`).
- `PartsTyped` (`TypeOK`).

### Operations (`OperationsProofs`)

- `ReleasesStay` (`StoreSafe`): what is on disk at each step of the holder of the lock, and after its death
  (`CallOK`), and that no build is published twice (`BuildsOK`).
- `PodsStart` (`StartSafe`, with an action property): a process has the key of its directory, who was told
  of a PostgreSQL has its connection, and what a save has read still has the secret (`StartInv`).
- `SchemaMigrated` (`SchemaSafe`), with Pods that are killed or run out of their minute: only the Pod with the advisory lock is at work and what it found stays so.
- `AppendedIsSpooled` (`StagingSafe`): a stage is young until its writer has the lock, and a cleanup
  removes only what no call is still writing (`StagingInv`).
- `MailTold` (`MailSafe`): until a delivery is over, every message the relay took but the last was one whose
  acknowledgement was lost; the rows are valid unless changed one by one (`MailInv`).
- `NewestKept` (`LogsSafe`): what a clearing has selected stays surplus, for rows are only added
  (`LogInv`); what the recorder holds is the last report of its origin (`RecorderInv`).
- `NoChangeIsLost` (`DocumentsSafe`): a writer that has made n attempts was overtaken n times, and what it has
  read is the document unless the version has moved (`PolicyInv`); the history of a setting ends with its
  row, a request holds the locks of what it has written, and what it read of a row is the row unless a version is in the history that
  will refuse it, or the form has saved it since (`SettingsInv`).
- `PartsTyped` (`TypeOK`).

### Agent update (`AgentUpdateProofs`)

- `TypesKept`, `HostRecovers` (`RecoverableBinary`): `Swapping` says what each step of the helper, and each failure of one, leaves at the
  install path and beside it, and which of the two the Agent runs.
- `HostSettles` (`HostSafe`), for `MaxInstalls >= 5`: with any number of versions, acts and deaths, a host installs at
  most five times after operators have stopped, for there may be three offers on their way (the helper's, the
  marker's and the checker's) and then one climb of two (a format the old Agent cannot read needs a
  release in between). The instance of `MCAgentUpdate` has too few releases to reach that and its
  bound is 2. `Few` is the measure: installations made and those still possible are never more than five.

### What stays with TLC

Liveness (`EventuallySettled`, `EventuallyAuthorized`, `UpdatesArrive`) is beyond the prover, and so is the fairness it
rests on. The three findings are counterexamples of TLC. Every other property of a passing run is a theorem, the
refinement (`LogSpec`) included.

## 6. Not modelled

Components marked `not_modelled` in `PROJECT.json` carry the reason: collectors and the Windows
service wrap the operating system, the audit log is one INSERT in its caller's transaction, the
external API, MCP and the console only read, configuration is read once when a process starts. Those marked `partly` name what is left out. In short:

- inputs, not computed: matching of rules, product names and versions, password and signature
  arithmetic, ID tokens, validation of single values and of event sizes;
- the timers of `Agent::run`, the status report, preflight and client certificates;
- SQLite while serving: one process and one writer, so the races of the models do not occur;
- `asset_changes` and the fields of an asset beyond those named above; lists, searches, dashboards;
- sentences, layouts and the dialogue with the mail relay.

## 7. Plan

Every safety property of a passing run is proved, some under a hypothesis. What is left, the most telling first:

1. `Inventory` with failed transactions and retries: what of `Ordered` survives a retry that is more than ten
   minutes late (`ingest/service.go:775`), in place of the hypothesis that nothing fails.
2. `AgentAndServerAgree` with the spool, up to the pass in which a replay ends.
3. An abstract specification of `Credentials` (who owns a device), implemented step by step as `EventLog` is.
