---------------------------- MODULE SecondFactor ----------------------------
(***************************************************************************)
(* One account's second factor (auth/totp.go and the handlers of            *)
(* httpapi/auth.go): the user_totp row with the authenticator's secret, its *)
(* enabled flag and the unused recovery codes.  Every operation first reads *)
(* the row and checks the code it was given, and then writes with a         *)
(* statement of its own; several requests of the account may be in between. *)
(*                                                                         *)
(* Secrets and sets of recovery codes are numbered as they are generated;   *)
(* code n of set g is <<g, n>>.                                             *)
(***************************************************************************)
EXTENDS Naturals, FiniteSets

CONSTANTS
  MfaCall,    \* requests of the account that may be open at once
  CodeIndex,  \* the codes of one set (ten)
  MaxSecrets, \* bound: secrets and code sets generated
  MaxLogins   \* bound: logins with a code

VARIABLES
  totp,       \* the user_totp row, or NoTotp
  mfaCall,    \* request -> what it has read and is about to write
  secrets,    \* secrets generated
  codeSets,   \* code sets generated
  proven,     \* secrets of which Enable has seen a code
  current,    \* the code set the account was shown last
  accepted,   \* recovery code -> how often it was accepted
  stale,      \* codes of an older set accepted after a newer one was stored
  overlaps,   \* recovery code -> requests that took it from a set read too early
  swapped     \* secrets stored between another request's check of a code and its
              \* enabling of the row

mfaVars == <<totp, mfaCall, secrets, codeSets, proven, current, accepted, stale,
             overlaps, swapped>>

Secret   == 1..MaxSecrets
Code     == Secret \X CodeIndex
Codes(g) == {g} \X CodeIndex
NoCode   == <<0, 0>>
NoTotp   == [secret |-> 0, enabled |-> FALSE, codes |-> {}]
Waiting  == [at |-> "idle", codes |-> {}, used |-> NoCode]
Absent   == totp.secret = 0

TypeOK ==
  /\ totp \in [secret : Secret \cup {0}, enabled : BOOLEAN, codes : SUBSET Code]
  /\ mfaCall \in [MfaCall -> [at : {"idle", "setup", "enable", "consume",
                                    "consumeAndDisable", "disable", "regenerate"},
                              codes : SUBSET Code, used : Code \cup {NoCode}]]
  /\ secrets \in 0..MaxSecrets /\ codeSets \in 0..MaxSecrets
  /\ proven \subseteq Secret
  /\ current \in Secret \cup {0}
  /\ accepted \in [Code -> 0..MaxLogins]
  /\ stale \subseteq Code
  /\ overlaps \in [Code -> Nat]
  /\ swapped \subseteq Secret

Init ==
  /\ totp = NoTotp
  /\ mfaCall = [c \in MfaCall |-> Waiting]
  /\ secrets = 0 /\ codeSets = 0 /\ proven = {} /\ current = 0
  /\ accepted = [code \in Code |-> 0] /\ stale = {}
  /\ overlaps = [code \in Code |-> 0] /\ swapped = {}

At(c, stage) == mfaCall[c].at = stage
Await(c, stage) == mfaCall' = [mfaCall EXCEPT ![c] = [Waiting EXCEPT !.at = stage]]
Done(c) == mfaCall' = [mfaCall EXCEPT ![c] = Waiting]

\* A request has taken this code, and has not stored the set without it yet.
Taking(c, code) ==
  mfaCall[c].at \in {"consume", "consumeAndDisable"} /\ mfaCall[c].used = code

\* Setup: refused when the factor is enabled already.
SetupCheck(c) ==
  /\ At(c, "idle") /\ ~totp.enabled
  /\ Await(c, "setup")
  /\ UNCHANGED <<totp, secrets, codeSets, proven, current, accepted, stale, overlaps, swapped>>

\* Setup: the upsert replaces whatever the row holds by then, disabled.
SetupStore(c) ==
  /\ At(c, "setup") /\ secrets < MaxSecrets /\ codeSets < MaxSecrets
  /\ secrets' = secrets + 1 /\ codeSets' = codeSets + 1
  /\ totp' = [secret |-> secrets + 1, enabled |-> FALSE,
              codes |-> Codes(codeSets + 1)]
  /\ current' = codeSets + 1
  /\ swapped' = IF \E d \in MfaCall : At(d, "enable")
                THEN swapped \cup {secrets + 1} ELSE swapped
  /\ Done(c)
  /\ UNCHANGED <<proven, accepted, stale, overlaps>>

\* Enable: an authenticator code of the stored secret, no recovery code.
EnableVerify(c) ==
  /\ At(c, "idle") /\ ~Absent
  /\ proven' = proven \cup {totp.secret}
  /\ Await(c, "enable")
  /\ UNCHANGED <<totp, secrets, codeSets, current, accepted, stale, overlaps, swapped>>

\* Enable: UPDATE ... WHERE enabled = FALSE, which another request may have
\* overtaken: then the answer is that a setup is required.
EnableStore(c) ==
  /\ At(c, "enable")
  /\ totp' = IF Absent THEN totp ELSE [totp EXCEPT !.enabled = TRUE]
  /\ Done(c)
  /\ UNCHANGED <<secrets, codeSets, proven, current, accepted, stale, overlaps, swapped>>

\* Verify with an authenticator code: nothing is stored, so a login is done,
\* and Disable goes on to delete the row.
VerifyAuthenticator(c) ==
  /\ At(c, "idle") /\ totp.enabled
  /\ Await(c, "disable")
  /\ UNCHANGED <<totp, secrets, codeSets, proven, current, accepted, stale, overlaps, swapped>>

\* Verify with a recovery code: it is in the set read, and the rest of that
\* set is what will be stored.
VerifyRecovery(c, code) ==
  /\ At(c, "idle") /\ totp.enabled /\ code \in totp.codes
  /\ accepted[code] < MaxLogins
  /\ accepted' = [accepted EXCEPT ![code] = @ + 1]
  /\ stale' = IF code[1] = current THEN stale ELSE stale \cup {code}
  /\ overlaps' = IF \E d \in MfaCall : Taking(d, code)
                 THEN [overlaps EXCEPT ![code] = @ + 1] ELSE overlaps
  /\ \E stage \in {"consume", "consumeAndDisable"} :
       mfaCall' = [mfaCall EXCEPT ![c] =
         [at |-> stage, codes |-> totp.codes \ {code}, used |-> code]]
  /\ UNCHANGED <<totp, secrets, codeSets, proven, current, swapped>>

\* Mutant: the code is accepted and not consumed.
ConsumeNothing(c) ==
  /\ At(c, "consume") \/ At(c, "consumeAndDisable")
  /\ IF At(c, "consume") THEN Done(c) ELSE Await(c, "disable")
  /\ UNCHANGED <<totp, secrets, codeSets, proven, current, accepted, stale, overlaps, swapped>>

\* Verify: UPDATE ... WHERE enabled = TRUE, with the set computed from the read.  A
\* code that the row no longer holds comes back with it.
Consume(c) ==
  /\ At(c, "consume") \/ At(c, "consumeAndDisable")
  /\ IF totp.enabled
     THEN /\ totp' = [totp EXCEPT !.codes = mfaCall[c].codes]
          /\ overlaps' = [code \in Code |->
               IF code \in mfaCall[c].codes \ totp.codes
               THEN overlaps[code] + 1 ELSE overlaps[code]]
     ELSE UNCHANGED <<totp, overlaps>>
  /\ IF At(c, "consume") THEN Done(c) ELSE Await(c, "disable")
  /\ UNCHANGED <<secrets, codeSets, proven, current, accepted, stale, swapped>>

\* Disable: the DELETE has no condition.
Disable(c) ==
  /\ At(c, "disable")
  /\ totp' = NoTotp
  /\ Done(c)
  /\ UNCHANGED <<secrets, codeSets, proven, current, accepted, stale, overlaps, swapped>>

\* RegenerateRecoveryCodes: only an authenticator code mints new ones.
RegenerateVerify(c) ==
  /\ At(c, "idle") /\ totp.enabled
  /\ Await(c, "regenerate")
  /\ UNCHANGED <<totp, secrets, codeSets, proven, current, accepted, stale, overlaps, swapped>>

\* RegenerateRecoveryCodes: UPDATE ... WHERE enabled = TRUE; without such a row
\* the fresh codes are never shown.
RegenerateStore(c) ==
  /\ At(c, "regenerate") /\ codeSets < MaxSecrets
  /\ IF totp.enabled
     THEN /\ codeSets' = codeSets + 1 /\ current' = codeSets + 1
          /\ totp' = [totp EXCEPT !.codes = Codes(codeSets + 1)]
     ELSE UNCHANGED <<totp, codeSets, current>>
  /\ Done(c)
  /\ UNCHANGED <<secrets, proven, accepted, stale, overlaps, swapped>>

Next == \E c \in MfaCall :
  \/ SetupCheck(c) \/ SetupStore(c)
  \/ EnableVerify(c) \/ EnableStore(c)
  \/ VerifyAuthenticator(c)
  \/ \E code \in Code : VerifyRecovery(c, code)
  \/ Consume(c) \/ Disable(c)
  \/ RegenerateVerify(c) \/ RegenerateStore(c)

Spec == Init /\ [][Next]_mfaVars

-----------------------------------------------------------------------------
\* A recovery code serves once ("one-time recovery code", openapi.yaml:144), and
\* once more for each time two requests overlapped on it: one took it while the
\* other had not stored its set yet, or a set read before it was taken was stored
\* after (the read and the UPDATE are separate statements, totp.go:156-178).  Every
\* other interleaving, with a new set, a new secret or a deletion in between, gives
\* no use away.
RecoveryCodeOnce == \A code \in Code : accepted[code] <= 1 + overlaps[code]

\* The factor is enabled only with a secret whose authenticator has answered
\* ("Enrolment must prove the authenticator itself works", totp.go:124), or with one
\* that a Setup stored while an Enable was between its check and its UPDATE.
EnabledIsProven == totp.enabled => totp.secret \in proven \cup swapped

\* No code of an older set is accepted once new ones were issued ("invalidates
\* the old ones", totp.go:182), unless a request that read the older set wrote the
\* rest of it back over the new one.
OldCodesDead == \A code \in stale : overlaps[code] > 0

\* What the second factor (auth/totp.go) accepts, and what it is enabled with.
FactorSafe == RecoveryCodeOnce /\ EnabledIsProven /\ OldCodesDead
=============================================================================
