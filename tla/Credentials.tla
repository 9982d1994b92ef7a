----------------------------- MODULE Credentials -----------------------------
(***************************************************************************)
(* How one Agent identity gets its bearer tokens and how long they work:    *)
(* automatic enrollment with a device-local claim, the device's recovery    *)
(* from a lost or rejected token (scheduler.rs, storage.rs), the           *)
(* administrator's provisioning, rotation and blocking, and the             *)
(* authentication every Pod does, with a cache of its own for database      *)
(* outages (agents/service.go, httpapi/agents.go).                          *)
(*                                                                         *)
(* The agent_id is one and the same everywhere; several devices may use it, *)
(* as copies of a disk image do.  A token is the number of its row in       *)
(* agent_credentials; 0 stands for no token and for a time that is NULL.    *)
(***************************************************************************)
EXTENDS Naturals, Sequences

CONSTANTS
  Device,     \* the hosts that use this agent_id, each with its own claim
  Pod,        \* the Server Pods
  NoDevice,   \* no device, a value outside Device
  NoPod,      \* no Pod, a value outside Pod
  Grace,      \* grace periods an administrator may choose
  CacheTime,  \* how long an authentication is cached (five minutes)
  MaxTokens,  \* bound: the number of tokens issued
  MaxNow,     \* bound: the time
  MaxFaults   \* bound: faults and administrators' changes

ASSUME CredentialsAssumption ==
  /\ NoDevice \notin Device
  /\ NoPod \notin Pod
  /\ Grace \subseteq Nat
  /\ CacheTime \in Nat /\ MaxTokens \in Nat /\ MaxNow \in Nat \ {0}
  /\ MaxFaults \in Nat

Phase == {
  "idle",
  "authenticate",  \* event: about to look the token up
  "fill",          \* event: found it valid, about to cache that
  "enroll",        \* enrollment: about to look the agent up
  "create",        \* ... there was none, about to insert it
  "replace",       \* ... the claim matched, about to revoke the old tokens
  "revoke",        \* ... the revocation waits for the rows it has seen
  "created",       \* ... inserted, not committed
  "revoked",       \* ... revoked, not committed
  "issued",        \* ... committed, about to answer
  "rotate"         \* rotation: waits for the rows it has seen
}

VARIABLES
  device,     \* Device -> its stored token and the Pod it awaits
  known,      \* the agents row exists
  claim,      \* the device whose enrollment_claim is stored
  token,      \* the bearer rows of agent_credentials
  blockedAt,  \* agents.blocked_at
  cache,      \* Pod -> when the cached authentication of a token expires
  work,       \* Pod -> the request it handles
  dbUp,       \* whether PostgreSQL answers
  now,        \* the time
  faults      \* faults and administrators' changes so far

rows == <<known, claim, token, blockedAt>>
vars == <<device, rows, cache, work, dbUp, now, faults>>

Token   == 1..MaxTokens
Request == [at : Phase, device : Device \cup {NoDevice}, token : Token \cup {0},
            seen : SUBSET Token, grace : Grace \cup {0}]
Idle    == [at |-> "idle", device |-> NoDevice, token |-> 0, seen |-> {},
            grace |-> 0]

TypeOK ==
  /\ device \in [Device -> [token : Token \cup {0}, awaiting : Pod \cup {NoPod}]]
  /\ known \in BOOLEAN
  /\ claim \in Device \cup {NoDevice}
  /\ token \in Seq([revoked : Nat, until : Nat]) /\ Len(token) <= MaxTokens
  /\ blockedAt \in Nat
  /\ cache \in [Pod -> [Token -> Nat]]
  /\ work \in [Pod -> Request]
  /\ dbUp \in BOOLEAN
  /\ now \in 1..MaxNow
  /\ faults \in 0..MaxFaults

Uncached == [t \in Token |-> 0]

Init ==
  /\ device = [d \in Device |-> [token |-> 0, awaiting |-> NoPod]]
  /\ known = FALSE
  /\ claim = NoDevice
  /\ token = <<>>
  /\ blockedAt = 0
  /\ cache = [p \in Pod |-> Uncached]
  /\ work = [p \in Pod |-> Idle]
  /\ dbUp = TRUE
  /\ now = 1
  /\ faults = 0

(* One more fault or change, within the bound.                             *)
Fault == faults < MaxFaults /\ faults' = faults + 1

Goto(p, phase) == work' = [work EXCEPT ![p].at = phase]

(* The rows a credential query may see, and those it accepts now.          *)
Unrevoked == {t \in 1..Len(token) : token[t].revoked = 0}
Usable(t) == t \in Unrevoked /\ (token[t].until = 0 \/ token[t].until > now)

(* An enrollment transaction holds the agents row from here to its end:     *)
(* whoever writes that row or the tokens it revoked waits.                  *)
Writing(p)        == work[p].at \in {"created", "revoked"}
OthersWriting(p)  == \E q \in Pod \ {p} : Writing(q)

(* A database call of Pod p can fail: the database or the client is gone.   *)
CallFails(p) == \/ ~dbUp
                \/ work[p].device # NoDevice /\ device[work[p].device].awaiting # p

(* Pod p is done; a device that still waits for it now holds token t.       *)
Reply(p, t) ==
  LET d == work[p].device IN
  /\ work' = [work EXCEPT ![p] = Idle]
  /\ device' = IF d # NoDevice /\ device[d].awaiting = p
               THEN [device EXCEPT ![d] = [token |-> t, awaiting |-> NoPod]]
               ELSE device

-----------------------------------------------------------------------------
(***************************************************************************)
(* The device.                                                             *)
(***************************************************************************)

(* ensure_enrolled, or deliver when there is a token.                      *)
Ask(d, p) ==
  /\ device[d].awaiting = NoPod
  /\ work[p] = Idle
  /\ device' = [device EXCEPT ![d].awaiting = p]
  /\ work' = [work EXCEPT ![p] = [Idle EXCEPT
       !.at = IF device[d].token = 0 THEN "enroll" ELSE "authenticate",
       !.device = d, !.token = device[d].token]]
  /\ UNCHANGED <<rows, cache, dbUp, now, faults>>

(* The request times out or the Agent restarts; the answer will be lost.   *)
GiveUp(d) ==
  /\ Fault
  /\ device[d].awaiting # NoPod
  /\ device' = [device EXCEPT ![d].awaiting = NoPod]
  /\ UNCHANGED <<rows, cache, work, dbUp, now>>

-----------------------------------------------------------------------------
(***************************************************************************)
(* Authentication (Service.authenticate).                                  *)
(***************************************************************************)

(* A token the database does not accept is answered with 401, and the       *)
(* device discards it.                                                      *)
Unauthorized(p) ==
  /\ work[p].at = "authenticate"
  /\ dbUp
  /\ ~Usable(work[p].token)
  /\ Reply(p, 0)
  /\ UNCHANGED <<rows, cache, dbUp, now, faults>>

RefuseBlocked(p) ==
  /\ work[p].at = "authenticate"
  /\ dbUp
  /\ Usable(work[p].token)
  /\ blockedAt # 0
  /\ Reply(p, work[p].token)
  /\ UNCHANGED <<rows, cache, dbUp, now, faults>>

Authenticate(p) ==
  /\ work[p].at = "authenticate"
  /\ dbUp
  /\ Usable(work[p].token)
  /\ blockedAt = 0
  /\ Goto(p, "fill")
  /\ UNCHANGED <<device, rows, cache, dbUp, now, faults>>

(* The result is cached after the query, whatever has happened meanwhile.  *)
FillCache(p) ==
  /\ work[p].at = "fill"
  /\ cache' = [cache EXCEPT ![p][work[p].token] = now + CacheTime]
  /\ Reply(p, work[p].token)
  /\ UNCHANGED <<rows, dbUp, now, faults>>

(* Mutant: an accepted cache entry is kept for another CacheTime.          *)
AcceptCachedRenewing(p) ==
  LET t == work[p].token IN
  /\ work[p].at = "authenticate"
  /\ CallFails(p)
  /\ cache[p][t] > now
  /\ cache' = [cache EXCEPT ![p][t] = now + CacheTime]
  /\ Reply(p, t)
  /\ UNCHANGED <<rows, dbUp, now, faults>>

(* The query fails: a cached authentication that has not expired counts.   *)
AcceptCached(p) ==
  /\ work[p].at = "authenticate"
  /\ CallFails(p)
  /\ cache[p][work[p].token] > now
  /\ Reply(p, work[p].token)
  /\ UNCHANGED <<rows, cache, dbUp, now, faults>>

Unavailable(p) ==
  /\ work[p].at = "authenticate"
  /\ CallFails(p)
  /\ cache[p][work[p].token] <= now
  /\ Reply(p, work[p].token)
  /\ UNCHANGED <<rows, cache, dbUp, now, faults>>

-----------------------------------------------------------------------------
(***************************************************************************)
(* Enrollment (Service.AutoEnroll).                                        *)
(***************************************************************************)

(* Mutant: an Agent that has enrolled is not enrolled again.               *)
FindAgentOnce(p) ==
  /\ work[p].at = "enroll"
  /\ dbUp
  /\ ~known
  /\ Goto(p, "create")
  /\ UNCHANGED <<device, rows, cache, dbUp, now, faults>>

FindAgent(p) ==
  /\ work[p].at = "enroll"
  /\ dbUp
  /\ \/ ~known /\ Goto(p, "create")
     \/ known /\ blockedAt = 0 /\ claim = work[p].device /\ Goto(p, "replace")
  /\ UNCHANGED <<device, rows, cache, dbUp, now, faults>>

(* Blocked (403), or claimed by another device (409).                      *)
RefuseEnrollment(p) ==
  /\ work[p].at = "enroll"
  /\ dbUp
  /\ known
  /\ blockedAt # 0 \/ claim # work[p].device
  /\ Reply(p, 0)
  /\ UNCHANGED <<rows, cache, dbUp, now, faults>>

(* Mutant: agents.agent_id is not unique.                                  *)
CreateAgentAgain(p) ==
  /\ work[p].at = "create"
  /\ dbUp
  /\ Goto(p, "created")
  /\ UNCHANGED <<device, rows, cache, dbUp, now, faults>>

(* The insert waits for another one of the same agent_id.                  *)
CreateAgent(p) ==
  /\ work[p].at = "create"
  /\ dbUp
  /\ ~OthersWriting(p)
  /\ ~known
  /\ Goto(p, "created")
  /\ UNCHANGED <<device, rows, cache, dbUp, now, faults>>

(* The revoking UPDATE looks for the rows that are not revoked ...         *)
SeeTokens(p) ==
  /\ work[p].at = "replace"
  /\ dbUp
  /\ work' = [work EXCEPT ![p].at = "revoke", ![p].seen = Unrevoked]
  /\ UNCHANGED <<device, rows, cache, dbUp, now, faults>>

(* Mutant: the revocation waits for nobody.                                *)
RevokeTokensAtOnce(p) ==
  /\ work[p].at = "revoke"
  /\ dbUp
  /\ work' = [work EXCEPT ![p].at = "revoked", ![p].seen = @ \cap Unrevoked]
  /\ UNCHANGED <<device, rows, cache, dbUp, now, faults>>

(* ... and waits for the transactions that hold them or the agents row; a  *)
(* token such a transaction has issued is not among the rows it has seen.  *)
RevokeTokens(p) ==
  /\ work[p].at = "revoke"
  /\ dbUp
  /\ ~OthersWriting(p)
  /\ work' = [work EXCEPT ![p].at = "revoked", ![p].seen = @ \cap Unrevoked]
  /\ UNCHANGED <<device, rows, cache, dbUp, now, faults>>

Fresh == [revoked |-> 0, until |-> 0]

(* The token rows with those of "seen" revoked.                            *)
WithoutSeen(seen) ==
  [t \in 1..Len(token) |->
     IF t \in seen THEN [token[t] EXCEPT !.revoked = now] ELSE token[t]]

(* The commit: the old tokens are revoked, the new one and, for a new agent, *)
(* its claim are stored.                                                    *)
CommitEnrollment(p) ==
  /\ Writing(p)
  /\ dbUp
  /\ Len(token) < MaxTokens
  /\ token' = Append(WithoutSeen(work[p].seen), Fresh)
  /\ known' = TRUE
  /\ claim' = IF work[p].at = "created" THEN work[p].device ELSE claim
  /\ UNCHANGED <<blockedAt, dbUp, now>>

(* invalidateCache: the Pod forgets the Agent's cached authentications.    *)
Invalidate(p) == cache' = [cache EXCEPT ![p] = Uncached]

Issue(p) ==
  /\ CommitEnrollment(p)
  /\ Invalidate(p)
  /\ work' = [work EXCEPT ![p].at = "issued", ![p].token = Len(token')]
  /\ UNCHANGED <<device, faults>>

(* The new token reaches the device, or reading the agent back fails.       *)
AnswerIssued(p) ==
  /\ work[p].at = "issued"
  /\ \/ Reply(p, work[p].token)
     \/ CallFails(p) /\ Reply(p, 0)
  /\ UNCHANGED <<rows, cache, dbUp, now, faults>>

(* A statement fails, or the insert meets an agent that is there by now:    *)
(* everything is rolled back and answered with 500.                         *)
EnrollmentFails(p) ==
  /\ \/ /\ work[p].at \in {"enroll", "create", "replace", "revoke", "created", "revoked"}
        /\ \/ Fault
           \/ CallFails(p) /\ UNCHANGED faults
     \/ /\ work[p].at = "create" /\ ~OthersWriting(p) /\ known
        /\ UNCHANGED faults
  /\ Reply(p, 0)
  /\ UNCHANGED <<rows, cache, dbUp, now>>

(* The commit took effect and its acknowledgement was lost: the caller sees *)
(* an error and nothing is invalidated.                                     *)
CommitLost(p) ==
  /\ CommitEnrollment(p)
  /\ Reply(p, 0)
  /\ Fault
  /\ UNCHANGED cache

-----------------------------------------------------------------------------
(***************************************************************************)
(* Administrators.                                                         *)
(***************************************************************************)

(* ProvisionBearer: one more token, for an agent that may not exist yet;    *)
(* such an agent has no claim.                                              *)
Provision(p) ==
  /\ Fault
  /\ dbUp
  /\ work[p] = Idle
  /\ ~OthersWriting(p)
  /\ Len(token) < MaxTokens
  /\ token' = Append(token, Fresh)
  /\ known' = TRUE
  /\ UNCHANGED <<device, claim, blockedAt, cache, work, dbUp, now>>

(* RotateBearer: its UPDATE looks for the rows that are not revoked ...    *)
StartRotation(p, g) ==
  /\ Fault
  /\ dbUp
  /\ work[p] = Idle
  /\ Unrevoked # {}
  /\ work' = [work EXCEPT ![p] = [Idle EXCEPT
       !.at = "rotate", !.seen = Unrevoked, !.grace = g]]
  /\ UNCHANGED <<device, rows, cache, dbUp, now>>

(* ... waits for those others hold, ends the old tokens after the grace     *)
(* period, issues a new one and, once the commit is acknowledged, forgets   *)
(* the Pod's cached authentications.                                        *)
Rotate(p) ==
  LET old == work[p].seen \cap Unrevoked IN
  /\ work[p].at = "rotate"
  /\ dbUp
  /\ ~OthersWriting(p)
  /\ old # {}
  /\ Len(token) < MaxTokens
  /\ token' = Append(
       [t \in 1..Len(token) |->
          IF t \in old THEN [token[t] EXCEPT !.until = now + work[p].grace]
                       ELSE token[t]], Fresh)
  /\ \/ Invalidate(p) /\ UNCHANGED faults
     \/ UNCHANGED cache /\ Fault
  /\ work' = [work EXCEPT ![p] = Idle]
  /\ UNCHANGED <<device, known, claim, blockedAt, dbUp, now>>

(* The rotation finds nothing left to rotate, or its database call fails.   *)
RotationFails(p) ==
  /\ work[p].at = "rotate"
  /\ \/ ~dbUp
     \/ ~OthersWriting(p) /\ work[p].seen \cap Unrevoked = {}
  /\ work' = [work EXCEPT ![p] = Idle]
  /\ UNCHANGED <<device, rows, cache, dbUp, now, faults>>

(* SetBlocked: waits for a transaction that holds the agents row.  Lifting  *)
(* a block is free, so that no block is for ever for want of a budget.      *)
(* (A block whose acknowledgement is lost is, to a Pod that still has the   *)
(* Agent cached, a block by another Pod.)                                   *)
SetBlocked(p, b) ==
  /\ dbUp
  /\ known
  /\ ~OthersWriting(p)
  /\ \/ b /\ Fault
     \/ ~b /\ blockedAt # 0 /\ UNCHANGED faults
  /\ blockedAt' = IF b THEN now ELSE 0
  /\ Invalidate(p)
  /\ UNCHANGED <<device, known, claim, token, work, dbUp, now>>

-----------------------------------------------------------------------------
(***************************************************************************)
(* Outages and time.                                                       *)
(***************************************************************************)

DatabaseDown ==
  /\ Fault
  /\ dbUp
  /\ dbUp' = FALSE
  /\ UNCHANGED <<device, rows, cache, work, now>>

(* PostgreSQL is back, after the transactions it lost have failed.         *)
DatabaseUp ==
  /\ ~dbUp
  /\ \A p \in Pod : work[p].at \in {"idle", "authenticate", "fill", "enroll", "issued"}
  /\ dbUp' = TRUE
  /\ UNCHANGED <<device, rows, cache, work, now, faults>>

(* A Pod is replaced: its request is lost and its cache empty.             *)
PodRestart(p) ==
  /\ Fault
  /\ Invalidate(p)
  /\ work' = [work EXCEPT ![p] = Idle]
  /\ device' = [d \in Device |-> IF device[d].awaiting = p
                                 THEN [device[d] EXCEPT !.awaiting = NoPod]
                                 ELSE device[d]]
  /\ UNCHANGED <<rows, dbUp, now>>

(* A request takes much less than one unit of time.                        *)
Tick ==
  /\ now < MaxNow
  /\ \A p \in Pod : work[p] = Idle
  /\ now' = now + 1
  /\ UNCHANGED <<device, rows, cache, work, dbUp, faults>>

Handle(p) ==
  \/ Unauthorized(p) \/ RefuseBlocked(p) \/ Authenticate(p) \/ FillCache(p)
  \/ AcceptCached(p) \/ Unavailable(p)
  \/ FindAgent(p) \/ RefuseEnrollment(p) \/ CreateAgent(p) \/ SeeTokens(p)
  \/ RevokeTokens(p) \/ Issue(p) \/ AnswerIssued(p)
  \/ Rotate(p) \/ RotationFails(p)

Next ==
  \/ \E d \in Device : GiveUp(d) \/ \E p \in Pod : Ask(d, p)
  \/ \E p \in Pod :
       \/ Handle(p) \/ EnrollmentFails(p) \/ CommitLost(p) \/ Provision(p)
       \/ PodRestart(p)
       \/ \E g \in Grace : StartRotation(p, g)
       \/ \E b \in BOOLEAN : SetBlocked(p, b)
  \/ DatabaseDown \/ DatabaseUp \/ Tick

Spec == Init /\ [][Next]_vars

(***************************************************************************)
(* Fairness: the device keeps asking some Pod, every Pod finishes its       *)
(* requests, and PostgreSQL comes back.                                     *)
(***************************************************************************)
Fairness ==
  /\ \A d \in Device : WF_vars(\E p \in Pod : Ask(d, p))
  /\ \A p \in Pod : WF_vars(Handle(p) \/ EnrollmentFails(p))
  /\ WF_vars(DatabaseUp)

FairSpec == Spec /\ Fairness

-----------------------------------------------------------------------------
(***************************************************************************)
(* Properties.                                                             *)
(***************************************************************************)

(* Copies of a device that race for one agent_id, with lost answers and     *)
(* commits: only the device whose claim is stored ever holds a token        *)
(* (AutoEnroll's claim check, and the unique agent_id behind it).           *)
OnlyOwnerHolds == \A d \in Device : device[d].token # 0 => claim = d

(* When token t ended or will end, and when its Agent was blocked.          *)
Ended(t) == {token[t].revoked, token[t].until, blockedAt} \ {0}

(* A Pod's cached authentication outlives the end of its token, or the      *)
(* block of its Agent, by CacheTime at most, although the Pod was never     *)
(* told of either (authenticate, invalidateCache).                          *)
StaleAtMostCacheTime ==
  \A p \in Pod : \A t \in 1..Len(token) : cache[p][t] # 0 =>
    \A ended \in Ended(t) : cache[p][t] <= ended + CacheTime

(* At most one transaction at a time has written the rows of the agent, only *)
(* the claim's device or the first one gets past the look-up, and only the   *)
(* claim's device authenticates.                                            *)
EnrollmentOK ==
  /\ ~known => claim = NoDevice
  /\ \A p, q \in Pod : Writing(p) /\ Writing(q) => p = q
  /\ \A p \in Pod :
       /\ work[p].at \in {"enroll", "create", "created"} => work[p].device # NoDevice
       /\ work[p].at = "created" => ~known
       /\ work[p].at \in {"authenticate", "fill", "replace", "revoke", "revoked", "issued"} =>
            claim = work[p].device /\ claim # NoDevice

(* What a Pod is about to cache has not ended before now, and nothing is     *)
(* cached for longer than CacheTime or for a token that is not issued.      *)
CacheOK ==
  /\ \A p \in Pod : \A t \in Token :
       cache[p][t] # 0 => t <= Len(token) /\ cache[p][t] <= now + CacheTime
  /\ \A p \in Pod : work[p].at = "fill" =>
       /\ work[p].token \in 1..Len(token)
       /\ \A ended \in Ended(work[p].token) : ended >= now

IInv == TypeOK /\ EnrollmentOK /\ OnlyOwnerHolds /\ CacheOK /\ StaleAtMostCacheTime

(* Once faults and changes have run out and unless the Agent stays blocked,  *)
(* the claim's device ends up holding a token that works, whatever answers,  *)
(* commits or tokens it has lost (claim retry, discard on 401).  An agent    *)
(* the administrator has provisioned has no claim.                          *)
EventuallyAuthorized ==
  <>[](blockedAt = 0) =>
    <>[](\/ known /\ claim = NoDevice
         \/ \E d \in Device : claim = d /\ Usable(device[d].token))
=============================================================================
