------------------------------ MODULE MCAccess ------------------------------
(***************************************************************************)
(* The parts of the server that decide who may do what.  They share no      *)
(* state of these models, so one run checks them next to each other: Init   *)
(* picks the part that moves, and the others stay as they start.            *)
(***************************************************************************)
EXTENDS Naturals, FiniteSets
CONSTANTS
  Part,
  SetupPod, MaxMinted, MaxStops,
  MfaCall, CodeIndex, MaxSecrets, MaxLogins,
  Client, Threshold, LockTime, IpThreshold, IpWindow, Idle, Maximum, MaxClock,
  MaxSessions, MaxEndings,
  User, Founder, Change, SuperAdmin, Viewer,
  KeyCall, Scope, Held, Attempts, GraceTime, MaxKeys, MaxKeyNow,
  Flow, Callback, Issuer, Username, Nothing,
  SecretPod, Secrets, Empty,
  Key, Limit, Window, MaxInstant

\* Thresholds and durations are positive numbers, what stands for nothing is nothing
\* else, and the bounds are numbers.
ASSUME SetupAssumption == MaxMinted \in Nat /\ MaxStops \in Nat
ASSUME FactorAssumption == MaxSecrets \in Nat /\ MaxLogins \in Nat
ASSUME LoginAssumption ==
  /\ IsFiniteSet(Client) /\ IpThreshold \in Nat \ {0}
  /\ Threshold \in Nat /\ LockTime \in Nat /\ IpWindow \in Nat
  /\ Idle \in Nat /\ Maximum \in Nat /\ Idle <= Maximum
  /\ MaxClock \in Nat \ {0} /\ MaxSessions \in Nat /\ MaxEndings \in Nat
ASSUME AccountAssumption == User # {}
ASSUME KeyAssumption ==
  /\ Held \subseteq Scope /\ Attempts \in Nat \ {0} /\ GraceTime \in Nat
  /\ MaxKeys \in Nat \ {0} /\ MaxKeyNow \in Nat
ASSUME SsoAssumption == Flow # {} /\ Nothing \notin Issuer \cup Username
ASSUME SecretAssumption == 0 \notin Secrets
ASSUME LimitAssumption ==
  Limit \in Nat \ {0} /\ Window \in Nat \ {0} /\ MaxInstant \in Nat \ {0}

VARIABLES
  part,
  claim, admins, tokenFile, setup, unanswered, minted, stops,
  totp, mfaCall, secrets, codeSets, proven, current, accepted, stale, overlaps, swapped,
  account, failures, session, client, endings, clock,
  user, change,
  apiKey, keyCall, keyNow, intended, basis,
  issuer, flow, callback, identity, legacy, owner, entered,
  shared, enabled, fileSecret, reader, used, saved, everShared,
  window, sweptAt, instant, admitted, called

First  == INSTANCE FirstAdmin
Factor == INSTANCE SecondFactor
Local  == INSTANCE Logins
Users  == INSTANCE Accounts
Keys   == INSTANCE ApiKeys
Sso    == INSTANCE FederatedLogin
Sealed == INSTANCE KeycloakSecret
Limits == INSTANCE RequestLimit

ofFirst  == <<claim, admins, tokenFile, setup, unanswered, minted, stops>>
ofFactor == <<totp, mfaCall, secrets, codeSets, proven, current, accepted, stale, overlaps,
              swapped>>
ofLocal  == <<account, failures, session, client, endings, clock>>
ofUsers  == <<user, change>>
ofKeys   == <<apiKey, keyCall, keyNow, intended, basis>>
ofSso    == <<issuer, flow, callback, identity, legacy, owner, entered>>
ofSealed == <<shared, enabled, fileSecret, reader, used, saved, everShared>>
ofLimits == <<window, sweptAt, instant, admitted, called>>
vars == <<part, ofFirst, ofFactor, ofLocal, ofUsers, ofKeys, ofSso, ofSealed, ofLimits>>

Init ==
  /\ part \in Part
  /\ First!Init /\ Factor!Init /\ Local!Init /\ Users!Init
  /\ Keys!Init /\ Sso!Init /\ Sealed!Init /\ Limits!Init
  /\ part # "keys"   => apiKey.expires = 0
  /\ part # "sso"    => legacy.account = Nothing /\ issuer = CHOOSE i \in Issuer : TRUE
  /\ part # "sealed" => ~enabled /\ \A p \in SecretPod : fileSecret[p] = 0

Next ==
  \/ /\ part = "first" /\ First!Next
     /\ UNCHANGED <<part, ofFactor, ofLocal, ofUsers, ofKeys, ofSso, ofSealed, ofLimits>>
  \/ /\ part = "factor" /\ Factor!Next
     /\ UNCHANGED <<part, ofFirst, ofLocal, ofUsers, ofKeys, ofSso, ofSealed, ofLimits>>
  \/ /\ part = "local" /\ Local!Next
     /\ UNCHANGED <<part, ofFirst, ofFactor, ofUsers, ofKeys, ofSso, ofSealed, ofLimits>>
  \/ /\ part = "users" /\ Users!Next
     /\ UNCHANGED <<part, ofFirst, ofFactor, ofLocal, ofKeys, ofSso, ofSealed, ofLimits>>
  \/ /\ part = "keys" /\ Keys!Next
     /\ UNCHANGED <<part, ofFirst, ofFactor, ofLocal, ofUsers, ofSso, ofSealed, ofLimits>>
  \/ /\ part = "sso" /\ Sso!Next
     /\ UNCHANGED <<part, ofFirst, ofFactor, ofLocal, ofUsers, ofKeys, ofSealed, ofLimits>>
  \/ /\ part = "sealed" /\ Sealed!Next
     /\ UNCHANGED <<part, ofFirst, ofFactor, ofLocal, ofUsers, ofKeys, ofSso, ofLimits>>
  \/ /\ part = "limits" /\ Limits!Next
     /\ UNCHANGED <<part, ofFirst, ofFactor, ofLocal, ofUsers, ofKeys, ofSso, ofSealed>>

Spec == Init /\ [][Next]_vars
-----------------------------------------------------------------------------
\* The type invariants of all parts (bootstrap.go, totp.go, service.go, users.go,
\* oidc.go, apikeys, agents.go).
TypeOK ==
  /\ First!TypeOK /\ Factor!TypeOK /\ Local!TypeOK /\ Users!TypeOK
  /\ Keys!TypeOK /\ Sso!TypeOK /\ Sealed!TypeOK /\ Limits!TypeOK

\* Sessions and accounts: a session ends when a password change, a reset, a
\* deactivation or its absolute end says so, failures are bounded, and a live account
\* has a role, a deleted one stays inactive (auth/service.go, httpapi/users.go).
AccountsSafe ==
  /\ Local!AddressBound /\ Local!EarlierSessionsEnd /\ Local!AbsoluteEnd
  /\ Users!EveryAccountHasRole /\ Users!DeletedStaysInactive

\* Keycloak: one callback of a flow opens a session, only on the account of the person
\* it was made for, and all Pods use the secret they share (auth/oidc.go).
KeycloakSafe ==
  /\ Sso!OneCallbackPerFlow /\ Sso!NoTakeover
  /\ Sealed!AdministratorsSecretStays /\ Sealed!SharedSecretUsed

\* The properties of the other parts, as their modules state them (auth/bootstrap.go,
\* auth/totp.go, apikeys/service.go, agentRateLimiter).
SetupSafe == First!SetupSafe
FactorSafe == Factor!FactorSafe
KeysSafe == Keys!KeysSafe
LimitSafe == Limits!LimitSafe
=============================================================================
