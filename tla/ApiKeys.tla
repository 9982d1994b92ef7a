------------------------------ MODULE ApiKeys ------------------------------
(***************************************************************************)
(* One API key, changed by its owner and by super administrators, through   *)
(* any Pod (apikeys/service.go and the handlers of httpapi/api_keys.go).    *)
(* Every change reads the row and then updates it with a statement that     *)
(* names what it has read; nothing locks the row in between.                *)
(*                                                                         *)
(* Secrets are numbered as they are generated and stand for their hashes.   *)
(***************************************************************************)
EXTENDS Naturals, FiniteSets

CONSTANTS
  KeyCall,    \* requests that may be open at once
  Scope,      \* the scope catalog
  Held,       \* the scopes the owner's permissions let it grant
  Attempts,   \* scopeMutationAttempts
  GraceTime,  \* the grace a rotation may ask for
  MaxKeys,    \* bound: secrets generated
  MaxKeyNow   \* bound: the time

VARIABLES
  apiKey,   \* the api_keys row
  keyCall,  \* request -> what it has read and is about to write
  keyNow,   \* the time
  intended, \* the scopes the acknowledged changes, one after the other, amount to
  basis     \* secret -> the secret its rotation had read

keyVars == <<apiKey, keyCall, keyNow, intended, basis>>

Secret   == 1..MaxKeys
Caller   == {"owner", "super"}
Kinds    == {"idle", "replace", "add", "remove", "rotate"}
Unasked  == [kind |-> "idle", arg |-> {}, seen |-> {}, next |-> {},
             read |-> FALSE, tries |-> 0, hash |-> 0, grace |-> 0]

TypeOK ==
  /\ apiKey \in [scopes : SUBSET Scope, hash : Secret, previous : Secret \cup {0},
                 until : 0..(MaxKeyNow + GraceTime), expires : 0..MaxKeyNow,
                 revoked : BOOLEAN]
  /\ keyCall \in [KeyCall -> [kind : Kinds, arg : SUBSET Scope,
                    seen : SUBSET Scope, next : SUBSET Scope, read : BOOLEAN,
                    tries : 0..Attempts, hash : Secret \cup {0}, grace : 0..GraceTime]]
  /\ keyNow \in 0..MaxKeyNow
  /\ intended \subseteq Scope
  /\ basis \in [Secret -> Secret \cup {0}]

\* Create: at least one scope, each of which the caller may grant, and an expiry
\* in the future, or none (0).
Init ==
  /\ \E scopes \in (SUBSET Held) \ {{}}, expires \in 0..MaxKeyNow :
       apiKey = [scopes |-> scopes, hash |-> 1, previous |-> 0, until |-> 0,
                 expires |-> expires, revoked |-> FALSE]
  /\ keyCall = [c \in KeyCall |-> Unasked]
  /\ keyNow = 0
  /\ intended = apiKey.scopes
  /\ basis = [g \in Secret |-> 0]

MayGrant(by, scopes) == by = "super" \/ scopes \subseteq Held
Unexpired == apiKey.expires = 0 \/ keyNow < apiKey.expires
Finish(c) == keyCall' = [keyCall EXCEPT ![c] = Unasked]

\* updateAPIKey, addAPIKeyScopes and removeAPIKeyScope: the rules about the
\* request's own scopes.
AskScopes(c, kind, by, arg) ==
  /\ keyCall[c].kind = "idle" /\ ~apiKey.revoked
  /\ arg # {} /\ (kind = "remove" => Cardinality(arg) = 1)
  /\ kind # "remove" => MayGrant(by, arg)
  /\ keyCall' = [keyCall EXCEPT ![c] = [Unasked EXCEPT
       !.kind = kind, !.arg = arg]]
  /\ UNCHANGED <<apiKey, keyNow, intended, basis>>

Mutated(kind, scopes, arg) ==
  IF kind = "replace" THEN arg
  ELSE IF kind = "add" THEN scopes \cup arg ELSE scopes \ arg

\* Update and mutateScopes: the scopes are read and the new list computed, which
\* may not be empty; a scope that is not assigned cannot be removed.
ReadScopes(c) ==
  LET call == keyCall[c]
      next == Mutated(call.kind, apiKey.scopes, call.arg) IN
  /\ call.kind \in {"replace", "add", "remove"} /\ ~call.read
  /\ IF apiKey.revoked \/ next = {} \/ (call.kind = "remove" /\ next = apiKey.scopes)
     THEN Finish(c)
     ELSE keyCall' = [keyCall EXCEPT ![c] = [call EXCEPT !.read = TRUE,
            !.seen = apiKey.scopes, !.next = next, !.tries = call.tries + 1]]
  /\ UNCHANGED <<apiKey, keyNow, intended, basis>>

\* Mutant: the loop counts its attempts from one too few.
LastAttemptLate(call) == call.tries > Attempts

\* mutateScopes: for range scopeMutationAttempts.
LastAttempt(call) == call.tries = Attempts

\* update and mutateScopes: UPDATE ... WHERE scopes_json = the list that was read.
\* A mutation is tried again, a replacement is answered with a conflict.
WriteScopes(c) ==
  LET call == keyCall[c]
      won  == ~apiKey.revoked /\ apiKey.scopes = call.seen IN
  /\ call.read /\ call.kind # "rotate"
  /\ IF won
     THEN /\ apiKey' = [apiKey EXCEPT !.scopes = call.next]
          /\ intended' = Mutated(call.kind, intended, call.arg)
     ELSE UNCHANGED <<apiKey, intended>>
  /\ IF won \/ call.kind = "replace" \/ LastAttempt(call)
     THEN Finish(c)
     ELSE keyCall' = [keyCall EXCEPT ![c].read = FALSE]
  /\ UNCHANGED <<keyNow, basis>>

\* Rotate: the key is read; the caller must be able to grant its scopes.
ReadForRotation(c, by, grace) ==
  /\ keyCall[c].kind = "idle"
  /\ ~apiKey.revoked /\ Unexpired /\ MayGrant(by, apiKey.scopes)
  /\ keyCall' = [keyCall EXCEPT ![c] = [Unasked EXCEPT !.kind = "rotate",
       !.read = TRUE, !.hash = apiKey.hash, !.grace = grace]]
  /\ UNCHANGED <<apiKey, keyNow, intended, basis>>

Fresh == apiKey.hash + 1

Rotated(c) ==
  /\ apiKey' = [apiKey EXCEPT !.previous = apiKey.hash,
       !.until = keyNow + keyCall[c].grace, !.hash = Fresh]
  /\ basis' = [basis EXCEPT ![Fresh] = keyCall[c].hash]

\* Mutant: a key that was revoked after the read is rotated.
RotateRevoked(c) ==
  /\ keyCall[c].kind = "rotate" /\ Fresh \in Secret
  /\ IF Unexpired /\ apiKey.hash = keyCall[c].hash
     THEN Rotated(c)
     ELSE UNCHANGED <<apiKey, basis>>
  /\ Finish(c)
  /\ UNCHANGED <<keyNow, intended>>

\* rotate: UPDATE ... WHERE key_hash = the hash that was read; the scopes are not
\* named.  The loser is answered with a conflict.
Rotate(c) ==
  /\ keyCall[c].kind = "rotate" /\ Fresh \in Secret
  /\ IF ~apiKey.revoked /\ Unexpired /\ apiKey.hash = keyCall[c].hash
     THEN Rotated(c)
     ELSE UNCHANGED <<apiKey, basis>>
  /\ Finish(c)
  /\ UNCHANGED <<keyNow, intended>>

\* Revoke: the key and the secret in grace with it.
Revoke ==
  /\ ~apiKey.revoked
  /\ apiKey' = [apiKey EXCEPT !.revoked = TRUE, !.previous = 0, !.until = 0]
  /\ UNCHANGED <<keyCall, keyNow, intended, basis>>

\* revokeManagedUserAccess (httpapi/users.go): the owner is deactivated, which
\* leaves the secret in grace, and no one can authenticate with it.
RevokeWithOwner ==
  /\ ~apiKey.revoked
  /\ apiKey' = [apiKey EXCEPT !.revoked = TRUE]
  /\ UNCHANGED <<keyCall, keyNow, intended, basis>>

KeyTick ==
  /\ keyNow < MaxKeyNow
  /\ keyNow' = keyNow + 1
  /\ UNCHANGED <<apiKey, keyCall, intended, basis>>

\* Authenticate: the secrets the key's row accepts.
Accepted == {g \in Secret :
  /\ ~apiKey.revoked /\ Unexpired
  /\ g = apiKey.hash \/ (g = apiKey.previous /\ keyNow < apiKey.until)}

Next ==
  \/ \E c \in KeyCall :
       \/ \E kind \in {"replace", "add", "remove"}, by \in Caller, arg \in SUBSET Scope :
            AskScopes(c, kind, by, arg)
       \/ ReadScopes(c) \/ WriteScopes(c)
       \/ \E by \in Caller, grace \in 0..GraceTime : ReadForRotation(c, by, grace)
       \/ Rotate(c)
  \/ Revoke \/ RevokeWithOwner \/ KeyTick

Spec == Init /\ [][Next]_keyVars

-----------------------------------------------------------------------------
\* "two Server Pods can otherwise read the same scope list and silently overwrite
\* one another's additions or removals" (apikeys/service.go:298): the list is what the
\* acknowledged changes amount to, taken in the order of their updates, and the
\* removals never add up to a key without scopes.
ScopesAsIntended == apiKey.scopes = intended /\ intended # {}

\* A rotation supersedes the secret its caller had seen: no two that saw the same
\* secret both succeed, the second putting the secret the first one was given
\* into a grace nobody asked for.
RotationSawSecret == apiKey.hash > 1 => basis[apiKey.hash] = apiKey.hash - 1

\* Once revoked a key accepts no secret, and whatever was in flight gives it none.
StaysRevoked == apiKey.revoked =>
  apiKey'.revoked /\ apiKey'.hash = apiKey.hash /\ Accepted' = {}
RevokedForGood == [][StaysRevoked]_keyVars

\* Changes of a key (apikeys/service.go) that meet are all taken or refused, and its
\* revocation is the last of them.
KeysSafe ==
  /\ [](ScopesAsIntended /\ RotationSawSecret)
  /\ RevokedForGood
=============================================================================
