----------------------------- MODULE FirstAdmin -----------------------------
(***************************************************************************)
(* The first administrator (auth/bootstrap.go).  While there is no user,    *)
(* every Pod offers a one-time setup: its manager writes a token to a file  *)
(* of the Pod and stores the token's hash in server_metadata, the row all   *)
(* Pods share.  Who holds the token, or starts a Pod with configured        *)
(* credentials, deletes that row in the transaction that inserts the first  *)
(* user: the row is the claim.                                              *)
(*                                                                         *)
(* A token stands for its hash; 0 is no token, no row and no file.          *)
(***************************************************************************)
EXTENDS Naturals

CONSTANTS
  SetupPod,    \* the Server Pods, each with a state directory of its own
  MaxMinted,   \* bound: tokens generated
  MaxStops     \* bound: Pods killed in the middle of a call

VARIABLES
  claim,     \* server_metadata.bootstrap_token_hash
  admins,    \* initial administrators inserted
  tokenFile, \* Pod -> the token in its initial-admin-token file
  setup,     \* Pod -> the call that holds the manager's mutex
  unanswered, \* tokens whose INSERT took effect and reported an error
  minted,    \* tokens generated so far
  stops      \* Pods killed so far

setupVars == <<claim, admins, tokenFile, setup, unanswered, minted, stops>>

SetupToken == 1..MaxMinted
Free       == [at |-> "free", token |-> 0]
Stage      == {"free", "count", "vacant", "written", "lost", "token", "config",
               "claimed", "committed"}

TypeOK ==
  /\ claim \in SetupToken \cup {0}
  /\ admins \in Nat
  /\ tokenFile \in [SetupPod -> SetupToken \cup {0}]
  /\ setup \in [SetupPod -> [at : Stage, token : SetupToken \cup {0}]]
  /\ unanswered \subseteq SetupToken
  /\ minted \in 0..MaxMinted
  /\ stops \in 0..MaxStops

Init ==
  /\ claim = 0 /\ admins = 0 /\ unanswered = {} /\ minted = 0 /\ stops = 0
  /\ tokenFile = [p \in SetupPod |-> 0]
  /\ setup = [p \in SetupPod |-> Free]

At(p, stage)        == setup[p].at = stage
Move(p, stage, tok) == setup' = [setup EXCEPT ![p] = [at |-> stage, token |-> tok]]
Store(p, tok)       == tokenFile' = [tokenFile EXCEPT ![p] = tok]

\* An open transaction that has deleted the row holds its lock: another DELETE
\* or INSERT of the same key waits until it ends.
RowLocked == \E q \in SetupPod : At(q, "claimed")

\* Ensure: the users are counted; with one, setup is over and the file goes.
EnsureCount(p) ==
  /\ At(p, "free")
  /\ IF admins > 0
     THEN Store(p, 0) /\ UNCHANGED setup
     ELSE Move(p, "count", 0) /\ UNCHANGED tokenFile
  /\ UNCHANGED <<claim, admins, unanswered, minted, stops>>

\* Ensure: a stored hash is answered with the status, and changes nothing.
EnsureRead(p) ==
  /\ At(p, "count")
  /\ Move(p, IF claim = 0 THEN "vacant" ELSE "free", 0)
  /\ UNCHANGED <<claim, admins, tokenFile, unanswered, minted, stops>>

\* Ensure: a fresh token is written to the file before its hash is stored.
EnsureWrite(p) ==
  /\ At(p, "vacant") /\ minted < MaxMinted
  /\ minted' = minted + 1
  /\ Store(p, minted + 1)
  /\ Move(p, "written", minted + 1)
  /\ UNCHANGED <<claim, admins, unanswered, stops>>

\* Ensure: INSERT ... ON CONFLICT (key) DO NOTHING.
EnsureInsert(p) ==
  /\ At(p, "written") /\ ~RowLocked
  /\ IF claim = 0
     THEN claim' = setup[p].token /\ Move(p, "free", 0)
     ELSE UNCHANGED claim /\ Move(p, "lost", 0)
  /\ UNCHANGED <<admins, tokenFile, unanswered, minted, stops>>

\* Ensure: the INSERT reports an error.  It may not have been run, while the row
\* was locked or not, or it took effect and only its answer was lost.
EnsureInsertFails(p) ==
  /\ At(p, "written")
  /\ \/ UNCHANGED <<claim, unanswered>>
     \/ /\ ~RowLocked /\ claim = 0
        /\ claim' = setup[p].token
        /\ unanswered' = unanswered \cup {setup[p].token}
  /\ Move(p, "lost", 0)
  /\ UNCHANGED <<admins, tokenFile, minted, stops>>

\* Ensure: the row was another Pod's, or the INSERT failed, so this Pod takes its
\* token to be worth nothing and removes the file.
EnsureDrop(p) ==
  /\ At(p, "lost")
  /\ Store(p, 0) /\ Move(p, "free", 0)
  /\ UNCHANGED <<claim, admins, unanswered, minted, stops>>

\* CreateInitialAdmin: the token an operator read from some Pod's file has the
\* stored hash.  With another token, or no row, the call only answers an error.
CreateInitialAdmin(p) ==
  /\ At(p, "free") /\ claim # 0
  /\ \E q \in SetupPod : tokenFile[q] = claim
  /\ Move(p, "token", claim)
  /\ UNCHANGED <<claim, admins, tokenFile, unanswered, minted, stops>>

\* CreateInitialAdminFromConfig: the credentials a Pod was started with.
CreateInitialAdminFromConfig(p) ==
  /\ At(p, "free")
  /\ IF admins > 0
     THEN Store(p, 0) /\ UNCHANGED setup
     ELSE Move(p, "config", 0) /\ UNCHANGED tokenFile
  /\ UNCHANGED <<claim, admins, unanswered, minted, stops>>

\* createInitialAdmin: the DELETE finds the row, of the token's hash when the
\* caller presented one; without a row setup is complete.
Claim(p) ==
  /\ At(p, "token") \/ At(p, "config")
  /\ ~RowLocked
  /\ IF claim # 0 /\ (At(p, "token") => claim = setup[p].token)
     THEN Move(p, "claimed", 0)
     ELSE Move(p, "free", 0)
  /\ UNCHANGED <<claim, admins, tokenFile, unanswered, minted, stops>>

\* Mutant: createInitialAdmin trusts the claim and does not count the users.
CommitUncounted(p) ==
  /\ At(p, "claimed")
  /\ admins' = admins + 1 /\ claim' = 0 /\ Move(p, "committed", 0)
  /\ UNCHANGED <<tokenFile, unanswered, minted, stops>>

\* createInitialAdmin: the users are counted again inside the transaction. The
\* insert and the deletion commit together; with a user already there the
\* transaction rolls back, which leaves the row.
Commit(p) ==
  /\ At(p, "claimed")
  /\ IF admins = 0
     THEN admins' = admins + 1 /\ claim' = 0 /\ Move(p, "committed", 0)
     ELSE UNCHANGED <<admins, claim>> /\ Move(p, "free", 0)
  /\ UNCHANGED <<tokenFile, unanswered, minted, stops>>

\* createInitialAdmin: the consumed token's file is removed on this Pod only.
RemoveFile(p) ==
  /\ At(p, "committed")
  /\ Store(p, 0) /\ Move(p, "free", 0)
  /\ UNCHANGED <<claim, admins, unanswered, minted, stops>>

\* The Pod is killed: its open transaction rolls back, its file stays.
Stop(p) ==
  /\ ~At(p, "free") /\ stops < MaxStops
  /\ Move(p, "free", 0)
  /\ stops' = stops + 1
  /\ UNCHANGED <<claim, admins, tokenFile, unanswered, minted>>

Next == \E p \in SetupPod :
  \/ EnsureCount(p) \/ EnsureRead(p) \/ EnsureWrite(p) \/ EnsureInsert(p)
  \/ EnsureInsertFails(p) \/ EnsureDrop(p)
  \/ CreateInitialAdmin(p) \/ CreateInitialAdminFromConfig(p)
  \/ Claim(p) \/ Commit(p) \/ RemoveFile(p)
  \/ Stop(p)

Spec == Init /\ [][Next]_setupVars

-----------------------------------------------------------------------------
\* "exactly one transaction can create the initial user" (bootstrap.go:168),
\* whichever Pods, tokens and start-up credentials race: a hash stored late, by
\* an Ensure that counted the users before there was one, opens nothing.
OneInitialAdmin == admins <= 1

\* Until there is a user some Pod's file still holds the token of the stored hash,
\* whatever Pod was killed between the file and the row, unless the answer to the
\* very INSERT that stored it was lost: then the Pod removes the file of a token
\* that counts (bootstrap.go:88), and only configured credentials can still claim.
ClaimHasToken ==
  claim # 0 /\ admins = 0 =>
    claim \in unanswered \/ \E p \in SetupPod : tokenFile[p] = claim

\* The setup (auth/bootstrap.go) makes one administrator, and a race or a kill never
\* takes away the token that can make it.
SetupSafe == OneInitialAdmin /\ ClaimHasToken
=============================================================================
