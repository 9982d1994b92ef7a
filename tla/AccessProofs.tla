---------------------------- MODULE AccessProofs ----------------------------
(***************************************************************************)
(* Proofs about MCAccess: what the parts of the server that decide who may do *)
(* what promise, for any number of Pods, requests, accounts, keys, flows and   *)
(* moments.  Each part has its inductive invariant, a lemma for each of its     *)
(* steps, and one that the invariant gives what the part promises.             *)
(***************************************************************************)
EXTENDS MCAccess, Sequences, FiniteSetTheorems, TLAPS

(* A step of the whole is a step of each part, or leaves the part alone.      *)
LEMMA PartsMove ==
  ASSUME [Next]_vars
  PROVE  /\ [First!Next]_ofFirst
         /\ [Factor!Next]_ofFactor
         /\ [Local!Next]_ofLocal
         /\ [Users!Next]_ofUsers
         /\ [Keys!Next]_ofKeys
         /\ [Sso!Next]_ofSso
         /\ [Sealed!Next]_ofSealed
         /\ [Limits!Next]_ofLimits
BY Zenon DEF Next, vars

-----------------------------------------------------------------------------
(***************************************************************************)
(* The first administrator (auth/bootstrap.go).                             *)
(***************************************************************************)

(* Where a Pod's file may be about to go, or its token is not the claim.       *)
Losing == {"vacant", "written", "lost", "committed"}

(* A Pod that has written a token and is about to store its hash has it in its *)
(* file; while there is no user and the claim's INSERT was answered, the file     *)
(* that holds its token belongs to a Pod that is not about to write or remove   *)
(* it.                                                                       *)
Minting(p) ==
  First!At(p, "written") => setup[p].token = tokenFile[p] /\ setup[p].token # 0
Answerable == claim # 0 /\ admins = 0 =>
  \/ claim \in unanswered
  \/ \E q \in SetupPod : tokenFile[q] = claim /\ setup[q].at \notin Losing
(* The files are removed for a user only.                                     *)
SetupInv ==
  /\ First!TypeOK /\ admins <= 1
  /\ \A p \in SetupPod : /\ Minting(p)
                         /\ First!At(p, "committed") => admins = 1
  /\ Answerable

LEMMA SetupInitial ==
  ASSUME First!Init
  PROVE  SetupInv
BY SetupAssumption DEF First!Init, SetupInv, First!TypeOK, First!Free, First!Stage, Minting, Answerable,
   First!At, Losing, First!SetupToken

(* A Pod goes on to another step.                                            *)
LEMMA SetupMoves ==
  ASSUME First!TypeOK, NEW p \in SetupPod, NEW stage \in First!Stage,
         NEW tok \in First!SetupToken \cup {0}, First!Move(p, stage, tok)
  PROVE  /\ setup' \in [SetupPod -> [at : First!Stage, token : First!SetupToken \cup {0}]]
         /\ setup'[p].at = stage /\ setup'[p].token = tok
         /\ \A q \in SetupPod : q # p => setup'[q] = setup[q]
BY DEF First!TypeOK, First!Move

LEMMA FileStored ==
  ASSUME First!TypeOK, NEW p \in SetupPod, NEW tok \in First!SetupToken \cup {0},
         First!Store(p, tok)
  PROVE  /\ tokenFile' \in [SetupPod -> First!SetupToken \cup {0}] /\ tokenFile'[p] = tok
         /\ \A q \in SetupPod : q # p => tokenFile'[q] = tokenFile[q]
BY DEF First!TypeOK, First!Store

(* Steps of one Pod that leave every file alone and store no hash.            *)
LEMMA SetupWaits ==
  ASSUME SetupInv, NEW p \in SetupPod, NEW stage \in First!Stage \ {"written", "lost", "committed"},
         NEW tok \in First!SetupToken \cup {0}, First!Move(p, stage, tok),
         UNCHANGED <<claim, admins, tokenFile, unanswered, minted>>, stops' \in 0 .. MaxStops,
         stage = "vacant" => claim = 0
  PROVE  SetupInv'
<1>1. /\ setup' \in [SetupPod -> [at : First!Stage, token : First!SetupToken \cup {0}]]
      /\ setup'[p].at = stage /\ setup'[p].token = tok
      /\ \A q \in SetupPod : q # p => setup'[q] = setup[q]
  BY SetupMoves DEF SetupInv
<1>2. First!TypeOK' /\ (admins <= 1)'
  BY <1>1 DEF SetupInv, First!TypeOK
<1>3. \A q \in SetupPod : (Minting(q) /\ (First!At(q, "committed") => admins = 1))'
  BY <1>1 DEF SetupInv, Minting, First!At
<1>4. Answerable'
  BY <1>1 DEF SetupInv, Answerable, Losing
<1>. QED BY <1>2, <1>3, <1>4 DEF SetupInv

(* Once there is a user the files may go.                                    *)
LEMMA SetupRemoves ==
  ASSUME SetupInv, NEW p \in SetupPod, NEW tok \in First!SetupToken \cup {0},
         ~First!At(p, "written"), First!Store(p, 0), admins = 1,
         UNCHANGED <<claim, admins, unanswered, minted, stops>>,
         UNCHANGED setup \/ First!Move(p, "free", 0)
  PROVE  SetupInv'
<1>1. /\ setup' \in [SetupPod -> [at : First!Stage, token : First!SetupToken \cup {0}]]
      /\ setup' = setup \/ setup'[p].at = "free"
      /\ \A q \in SetupPod : q # p => setup'[q] = setup[q]
  BY SetupMoves DEF SetupInv, First!TypeOK, First!Stage
<1>2. /\ tokenFile' \in [SetupPod -> First!SetupToken \cup {0}] /\ tokenFile'[p] = 0
      /\ \A q \in SetupPod : q # p => tokenFile'[q] = tokenFile[q]
  BY FileStored DEF SetupInv
<1>3. First!TypeOK' /\ (admins <= 1)'
  BY <1>1, <1>2 DEF SetupInv, First!TypeOK
<1>4. \A q \in SetupPod : (Minting(q) /\ (First!At(q, "committed") => admins = 1))'
  BY <1>1, <1>2 DEF SetupInv, Minting, First!At
<1>. QED BY <1>3, <1>4 DEF SetupInv, Answerable

LEMMA EnsureWrites ==
  ASSUME SetupInv, NEW p \in SetupPod, First!EnsureWrite(p)
  PROVE  SetupInv'
<1>1. /\ minted \in 0 .. MaxMinted /\ minted < MaxMinted /\ minted' = minted + 1
      /\ First!Store(p, minted + 1) /\ First!Move(p, "written", minted + 1)
      /\ UNCHANGED <<claim, admins, unanswered, stops>> /\ setup[p].at = "vacant"
  BY DEF First!EnsureWrite, SetupInv, First!TypeOK, First!At
<1>2. minted + 1 \in First!SetupToken /\ minted + 1 # 0 /\ minted' \in 0 .. MaxMinted
  BY <1>1, SetupAssumption DEF First!SetupToken
<1>3. /\ setup' \in [SetupPod -> [at : First!Stage, token : First!SetupToken \cup {0}]]
      /\ setup'[p].at = "written" /\ setup'[p].token = minted + 1
      /\ \A q \in SetupPod : q # p => setup'[q] = setup[q]
  <2>1. "written" \in First!Stage /\ First!TypeOK
    BY DEF First!Stage, SetupInv
  <2>. QED BY <1>1, <1>2, <2>1, SetupMoves
<1>4. /\ tokenFile' \in [SetupPod -> First!SetupToken \cup {0}] /\ tokenFile'[p] = minted + 1
      /\ \A q \in SetupPod : q # p => tokenFile'[q] = tokenFile[q]
  BY <1>1, <1>2, FileStored DEF SetupInv
<1>5. First!TypeOK' /\ (admins <= 1)'
  BY <1>1, <1>2, <1>3, <1>4 DEF SetupInv, First!TypeOK
<1>6. \A q \in SetupPod : (Minting(q) /\ (First!At(q, "committed") => admins = 1))'
  BY <1>1, <1>2, <1>3, <1>4 DEF SetupInv, Minting, First!At
<1>7. Answerable'
  BY <1>1, <1>3, <1>4 DEF SetupInv, Answerable, Losing
<1>. QED BY <1>5, <1>6, <1>7 DEF SetupInv

LEMMA EnsureInserts ==
  ASSUME SetupInv, NEW p \in SetupPod, First!EnsureInsert(p)
  PROVE  SetupInv'
<1>1. setup[p].at = "written" /\ setup[p].token = tokenFile[p] /\ setup[p].token # 0
  BY DEF First!EnsureInsert, SetupInv, Minting, First!At
<1>2. /\ First!TypeOK /\ "free" \in First!Stage /\ "lost" \in First!Stage
      /\ setup[p].token \in First!SetupToken
  BY <1>1 DEF SetupInv, First!Stage, First!TypeOK
<1>3. CASE claim = 0
  <2>1. claim' = setup[p].token /\ First!Move(p, "free", 0)
        /\ UNCHANGED <<admins, tokenFile, unanswered, minted, stops>>
    BY <1>3 DEF First!EnsureInsert
  <2>2. /\ setup' \in [SetupPod -> [at : First!Stage, token : First!SetupToken \cup {0}]]
        /\ setup'[p].at = "free" /\ \A q \in SetupPod : q # p => setup'[q] = setup[q]
    BY <1>2, <2>1, SetupMoves
  <2>3. First!TypeOK' /\ (admins <= 1)'
    BY <1>2, <2>1, <2>2 DEF SetupInv, First!TypeOK
  <2>4. \A q \in SetupPod : (Minting(q) /\ (First!At(q, "committed") => admins = 1))'
    BY <2>1, <2>2 DEF SetupInv, Minting, First!At
  <2>5. Answerable'
    BY <1>1, <2>1, <2>2 DEF Answerable, Losing
  <2>. QED BY <2>3, <2>4, <2>5 DEF SetupInv
<1>4. CASE claim # 0
  <2>1. First!Move(p, "lost", 0) /\ UNCHANGED <<claim, admins, tokenFile, unanswered, minted, stops>>
    BY <1>4 DEF First!EnsureInsert
  <2>2. /\ setup' \in [SetupPod -> [at : First!Stage, token : First!SetupToken \cup {0}]]
        /\ setup'[p].at = "lost" /\ \A q \in SetupPod : q # p => setup'[q] = setup[q]
    BY <1>2, <2>1, SetupMoves
  <2>3. First!TypeOK' /\ (admins <= 1)'
    BY <1>2, <2>1, <2>2 DEF SetupInv, First!TypeOK
  <2>4. \A q \in SetupPod : (Minting(q) /\ (First!At(q, "committed") => admins = 1))'
    BY <2>1, <2>2 DEF SetupInv, Minting, First!At
  <2>5. Answerable'
    BY <1>1, <2>1, <2>2 DEF SetupInv, Answerable, Losing
  <2>. QED BY <2>3, <2>4, <2>5 DEF SetupInv
<1>. QED BY <1>3, <1>4

(* A failing INSERT may have stored the hash: then its answer is the lost one.  *)
LEMMA InsertFails ==
  ASSUME SetupInv, NEW p \in SetupPod, First!EnsureInsertFails(p)
  PROVE  SetupInv'
<1>1. /\ setup[p].at = "written" /\ setup[p].token # 0 /\ First!Move(p, "lost", 0)
      /\ UNCHANGED <<admins, tokenFile, minted, stops>>
      /\ \/ claim' = claim /\ unanswered' = unanswered
         \/ claim' = setup[p].token /\ unanswered' = unanswered \cup {setup[p].token}
  BY DEF First!EnsureInsertFails, SetupInv, Minting, First!At
<1>2. /\ First!TypeOK /\ "lost" \in First!Stage /\ setup[p].token \in First!SetupToken
  BY <1>1 DEF SetupInv, First!Stage, First!TypeOK
<1>3. /\ setup' \in [SetupPod -> [at : First!Stage, token : First!SetupToken \cup {0}]]
      /\ setup'[p].at = "lost" /\ \A q \in SetupPod : q # p => setup'[q] = setup[q]
  BY <1>1, <1>2, SetupMoves
<1>4. First!TypeOK' /\ (admins <= 1)'
  BY <1>1, <1>2, <1>3 DEF SetupInv, First!TypeOK
<1>5. \A q \in SetupPod : (Minting(q) /\ (First!At(q, "committed") => admins = 1))'
  BY <1>1, <1>3 DEF SetupInv, Minting, First!At
<1>6. Answerable'
  BY <1>1, <1>3 DEF SetupInv, Answerable, Losing
<1>. QED BY <1>4, <1>5, <1>6 DEF SetupInv

LEMMA EnsureDrops ==
  ASSUME SetupInv, NEW p \in SetupPod, First!EnsureDrop(p)
  PROVE  SetupInv'
<1>1. /\ First!Store(p, 0) /\ First!Move(p, "free", 0)
      /\ UNCHANGED <<claim, admins, unanswered, minted, stops>> /\ setup[p].at = "lost"
  BY DEF First!EnsureDrop, First!At
<1>2. /\ setup' \in [SetupPod -> [at : First!Stage, token : First!SetupToken \cup {0}]]
      /\ setup'[p].at = "free" /\ \A q \in SetupPod : q # p => setup'[q] = setup[q]
  <2>1. First!TypeOK /\ "free" \in First!Stage
    BY DEF SetupInv, First!Stage
  <2>. QED BY <1>1, <2>1, SetupMoves
<1>3. /\ tokenFile' \in [SetupPod -> First!SetupToken \cup {0}] /\ tokenFile'[p] = 0
      /\ \A q \in SetupPod : q # p => tokenFile'[q] = tokenFile[q]
  BY <1>1, FileStored DEF SetupInv
<1>4. First!TypeOK' /\ (admins <= 1)'
  BY <1>1, <1>2, <1>3 DEF SetupInv, First!TypeOK
<1>5. \A q \in SetupPod : (Minting(q) /\ (First!At(q, "committed") => admins = 1))'
  BY <1>1, <1>2, <1>3 DEF SetupInv, Minting, First!At
<1>6. Answerable'
  BY <1>1, <1>2, <1>3 DEF SetupInv, Answerable, Losing
<1>. QED BY <1>4, <1>5, <1>6 DEF SetupInv

LEMMA SetupCommits ==
  ASSUME SetupInv, NEW p \in SetupPod, First!Commit(p), admins = 0
  PROVE  SetupInv'
<1>1. /\ admins' = 1 /\ claim' = 0 /\ First!Move(p, "committed", 0)
      /\ UNCHANGED <<tokenFile, unanswered, minted, stops>>
  BY DEF First!Commit
<1>2. /\ setup' \in [SetupPod -> [at : First!Stage, token : First!SetupToken \cup {0}]]
      /\ setup'[p].at = "committed" /\ \A q \in SetupPod : q # p => setup'[q] = setup[q]
  <2>1. First!TypeOK /\ "committed" \in First!Stage
    BY DEF SetupInv, First!Stage
  <2>. QED BY <1>1, <2>1, SetupMoves
<1>3. First!TypeOK' /\ (admins <= 1)'
  BY <1>1, <1>2 DEF SetupInv, First!TypeOK
<1>4. \A q \in SetupPod : (Minting(q) /\ (First!At(q, "committed") => admins = 1))'
  BY <1>1, <1>2 DEF SetupInv, Minting, First!At
<1>. QED BY <1>1, <1>3, <1>4 DEF SetupInv, Answerable

LEMMA SetupStep ==
  ASSUME SetupInv, [First!Next]_ofFirst
  PROVE  SetupInv'
<1>1. CASE UNCHANGED ofFirst
  BY <1>1 DEF ofFirst, SetupInv, First!TypeOK, Minting, Answerable, First!At
<1>2. ASSUME First!Next PROVE SetupInv'
  <2>1. PICK p \in SetupPod :
          \/ First!EnsureCount(p) \/ First!EnsureRead(p) \/ First!EnsureWrite(p)
          \/ First!EnsureInsert(p) \/ First!EnsureInsertFails(p) \/ First!EnsureDrop(p)
          \/ First!CreateInitialAdmin(p)
          \/ First!CreateInitialAdminFromConfig(p) \/ First!Claim(p) \/ First!Commit(p)
          \/ First!RemoveFile(p) \/ First!Stop(p)
    BY <1>2 DEF First!Next
  <2>2. /\ stops \in 0 .. MaxStops /\ admins \in Nat /\ admins <= 1
        /\ claim \in First!SetupToken \cup {0}
        /\ 0 \in First!SetupToken \cup {0} /\ {"free", "count", "vacant", "token", "config", "claimed"}
             \subseteq First!Stage \ {"written", "lost", "committed"}
    BY DEF SetupInv, First!TypeOK, First!Stage
  <2>3. CASE First!EnsureCount(p) \/ First!CreateInitialAdminFromConfig(p)
    <3>1. CASE admins > 0
      BY <2>2, <2>3, <3>1, SetupRemoves DEF First!EnsureCount, First!At, First!CreateInitialAdminFromConfig
    <3>2. CASE ~(admins > 0)
      <4>1. PICK stage \in {"count", "config"} : First!Move(p, stage, 0)
            /\ UNCHANGED <<claim, admins, tokenFile, unanswered, minted, stops>>
        BY <2>3, <3>2 DEF First!EnsureCount, First!CreateInitialAdminFromConfig
      <4>. QED BY <2>2, <4>1, SetupWaits
    <3>. QED BY <3>1, <3>2
  <2>4. CASE First!EnsureRead(p)
    <3>1. PICK stage \in {"vacant", "free"} : First!Move(p, stage, 0)
            /\ (stage = "vacant" => claim = 0)
            /\ UNCHANGED <<claim, admins, tokenFile, unanswered, minted, stops>>
      BY <2>4 DEF First!EnsureRead
    <3>. QED BY <2>2, <3>1, SetupWaits
  <2>5. CASE First!CreateInitialAdmin(p) \/ First!Claim(p)
    <3>1. PICK stage \in {"token", "claimed", "free"}, tok \in First!SetupToken \cup {0} :
            First!Move(p, stage, tok) /\ UNCHANGED <<claim, admins, tokenFile, unanswered, minted, stops>>
      BY <2>2, <2>5 DEF First!CreateInitialAdmin, First!Claim
    <3>. QED BY <2>2, <3>1, SetupWaits
  <2>6. CASE First!Stop(p)
    <3>1. First!Move(p, "free", 0) /\ UNCHANGED <<claim, admins, tokenFile, unanswered, minted>>
          /\ stops' \in 0 .. MaxStops
      BY <2>2, <2>6, SetupAssumption DEF First!Stop
    <3>. QED BY <2>2, <3>1, SetupWaits
  <2>7. CASE First!Commit(p)
    <3>1. CASE admins = 0
      BY <2>7, <3>1, SetupCommits
    <3>2. CASE admins # 0
      <4>1. First!Move(p, "free", 0) /\ UNCHANGED <<claim, admins, tokenFile, unanswered, minted, stops>>
        BY <2>7, <3>2 DEF First!Commit
      <4>. QED BY <2>2, <4>1, SetupWaits
    <3>. QED BY <3>1, <3>2
  <2>8. CASE First!RemoveFile(p)
    BY <2>2, <2>8, SetupRemoves DEF First!RemoveFile, First!At, SetupInv
  <2>. QED BY <2>1, <2>3, <2>4, <2>5, <2>6, <2>7, <2>8, EnsureWrites, EnsureInserts, InsertFails,
     EnsureDrops
<1>. QED BY <1>1, <1>2

(***************************************************************************)
(* auth/bootstrap.go: whichever Pods, tokens and start-up credentials race,   *)
(* and wherever a Pod is killed, there is one initial administrator, and as    *)
(* long as there is none a stored hash has its token in some Pod's file, unless *)
(* the answer to the INSERT that stored it was lost.                           *)
(***************************************************************************)
THEOREM OneAdministrator == Spec => []SetupSafe
<1>1. Init => SetupInv
  BY SetupInitial DEF Init
<1>2. SetupInv /\ [Next]_vars => SetupInv'
  BY Zenon, PartsMove, SetupStep
<1>3. SetupInv => SetupSafe
  BY DEF SetupInv, SetupSafe, First!SetupSafe, First!OneInitialAdmin, First!ClaimHasToken, Answerable
<1>. QED BY <1>1, <1>2, <1>3, PTL DEF Spec

-----------------------------------------------------------------------------
(***************************************************************************)
(* The second factor (auth/totp.go).                                        *)
(***************************************************************************)

MfaStage == {"idle", "setup", "enable", "consume", "consumeAndDisable", "disable", "regenerate"}
Consuming == {"consume", "consumeAndDisable"}
RowOfFactor == [secret : Factor!Secret \cup {0}, enabled : BOOLEAN, codes : SUBSET Factor!Code]
RequestOfFactor == [at : MfaStage, codes : SUBSET Factor!Code, used : Factor!Code \cup {Factor!NoCode}]

(* A code has served once, and once more for each overlap, and a code the row      *)
(* offers that no request is taking has served one time less; a row that is not    *)
(* enabled offers codes nobody has used.  A code of an older set is in the row      *)
(* only where a request wrote it back.                                           *)
CodeOK(code) ==
  /\ accepted[code] <= 1 + overlaps[code]
  /\ code \in totp.codes =>
       /\ (\A d \in MfaCall : ~Factor!Taking(d, code)) => accepted[code] <= overlaps[code]
       /\ ~totp.enabled => accepted[code] = 0
       /\ code[1] = current \/ overlaps[code] > 0
       /\ code[1] <= codeSets
  /\ code[1] > codeSets => accepted[code] = 0
  /\ code \in stale => overlaps[code] > 0

(* What a request is about to leave is of a set there is, without the code it took;*)
(* the secret of a row that is or is about to be enabled is proven or was      *)
(* swapped in.                                                                *)
ReadOK(d) == \A code \in mfaCall[d].codes : code[1] <= codeSets /\ code # mfaCall[d].used
SecretOK ==
  totp.enabled \/ (~Factor!Absent /\ \E d \in MfaCall : Factor!At(d, "enable")) =>
    totp.secret \in proven \cup swapped

FactorInv ==
  /\ Factor!TypeOK
  /\ \A code \in Factor!Code : CodeOK(code)
  /\ \A d \in MfaCall : ReadOK(d)
  /\ SecretOK

LEMMA FactorTypesInitial ==
  ASSUME Factor!Init
  PROVE  Factor!TypeOK
BY FactorAssumption DEF Factor!Init, Factor!TypeOK, Factor!NoTotp, Factor!Waiting, Factor!Secret, Factor!Code

LEMMA FactorTypes ==
  ASSUME Factor!TypeOK
  PROVE  /\ totp \in RowOfFactor /\ mfaCall \in [MfaCall -> RequestOfFactor]
         /\ secrets \in Nat /\ codeSets \in Nat /\ current \in Nat
         /\ secrets <= MaxSecrets /\ codeSets <= MaxSecrets
         /\ accepted \in [Factor!Code -> 0 .. MaxLogins] /\ overlaps \in [Factor!Code -> Nat]
         /\ totp.enabled \in BOOLEAN /\ totp.codes \in SUBSET Factor!Code
         /\ totp.secret \in Factor!Secret \cup {0}
         /\ \A code \in Factor!Code : accepted[code] \in Nat /\ overlaps[code] \in Nat /\ code[1] \in Nat
         /\ \A d \in MfaCall : mfaCall[d].codes \in SUBSET Factor!Code
BY FactorAssumption DEF Factor!TypeOK, RowOfFactor, RequestOfFactor, MfaStage, Factor!Secret, Factor!Code

(* One request goes on to another step.                                      *)
LEMMA FactorMoves ==
  ASSUME Factor!TypeOK, NEW c \in MfaCall, NEW request \in RequestOfFactor,
         mfaCall' = [mfaCall EXCEPT ![c] = request]
  PROVE  /\ mfaCall' \in [MfaCall -> RequestOfFactor] /\ mfaCall'[c] = request
         /\ \A d \in MfaCall : d # c => mfaCall'[d] = mfaCall[d]
BY FactorTypes

LEMMA FactorAwaits ==
  ASSUME Factor!TypeOK, NEW c \in MfaCall, NEW stage \in MfaStage, Factor!Await(c, stage)
  PROVE  /\ mfaCall' \in [MfaCall -> RequestOfFactor]
         /\ mfaCall'[c].at = stage /\ mfaCall'[c].codes = {}
         /\ \A d \in MfaCall : d # c => mfaCall'[d] = mfaCall[d]
<1>. DEFINE request == [Factor!Waiting EXCEPT !.at = stage]
<1>1. request \in RequestOfFactor /\ request.at = stage /\ request.codes = {}
  BY DEF Factor!Waiting, RequestOfFactor, MfaStage
<1>2. mfaCall' = [mfaCall EXCEPT ![c] = request]
  BY DEF Factor!Await
<1>. HIDE DEF request
<1>. QED BY <1>1, <1>2, FactorMoves

LEMMA FactorDone ==
  ASSUME Factor!TypeOK, NEW c \in MfaCall, Factor!Done(c)
  PROVE  /\ mfaCall' \in [MfaCall -> RequestOfFactor]
         /\ mfaCall'[c].at = "idle" /\ mfaCall'[c].codes = {}
         /\ \A d \in MfaCall : d # c => mfaCall'[d] = mfaCall[d]
<1>1. /\ Factor!Waiting \in RequestOfFactor /\ Factor!Waiting.at = "idle" /\ Factor!Waiting.codes = {}
  BY DEF Factor!Waiting, RequestOfFactor, MfaStage
<1>. QED BY <1>1, FactorMoves DEF Factor!Done

(* The codes of the next set.                                                *)
LEMMA NextSet ==
  ASSUME Factor!TypeOK, codeSets < MaxSecrets
  PROVE  /\ Factor!Codes(codeSets + 1) \in SUBSET Factor!Code
         /\ \A code \in Factor!Codes(codeSets + 1) : code[1] = codeSets + 1
         /\ codeSets + 1 \in 0 .. MaxSecrets /\ codeSets + 1 \in Factor!Secret
BY FactorTypes, FactorAssumption DEF Factor!Codes, Factor!Code, Factor!Secret

(* The row was read, a fresh set was stored in it, or it was deleted: nothing a     *)
(* request took is given away.                                                *)
LEMMA CodesStand ==
  ASSUME FactorInv, Factor!TypeOK', NEW c \in MfaCall,
         mfaCall[c].at \notin Consuming \/ ~totp.enabled, mfaCall'[c].at \notin Consuming,
         mfaCall'[c].codes = {}, \A d \in MfaCall : d # c => mfaCall'[d] = mfaCall[d],
         UNCHANGED <<accepted, stale, overlaps>>,
         \/ /\ UNCHANGED <<codeSets, current>> /\ totp'.codes = totp.codes
            /\ totp'.enabled = totp.enabled \/ totp'.enabled
         \/ UNCHANGED <<codeSets, current>> /\ totp'.codes = {}
         \/ /\ codeSets < MaxSecrets /\ codeSets' = codeSets + 1 /\ current' = codeSets + 1
            /\ totp'.codes = Factor!Codes(codeSets + 1)
  PROVE  /\ \A code \in Factor!Code : CodeOK(code)'
         /\ \A d \in MfaCall : ReadOK(d)'
<1>1. /\ Factor!TypeOK /\ codeSets \in Nat /\ totp.codes \in SUBSET Factor!Code
      /\ \A d \in MfaCall : mfaCall[d].codes \in SUBSET Factor!Code
      /\ \A code \in Factor!Code : accepted[code] \in Nat /\ overlaps[code] \in Nat /\ code[1] \in Nat
  BY FactorTypes DEF FactorInv
<1>2. codeSets' \in Nat /\ codeSets <= codeSets'
  BY <1>1
<1>3. \A d \in MfaCall : ReadOK(d)'
  BY <1>1, <1>2 DEF FactorInv, ReadOK
<1>4. ASSUME NEW code \in Factor!Code PROVE CodeOK(code)'
  <2>1. CodeOK(code) /\ accepted'[code] = accepted[code] /\ overlaps'[code] = overlaps[code]
        /\ accepted[code] \in Nat /\ overlaps[code] \in Nat /\ code[1] \in Nat
    BY <1>1 DEF FactorInv
  <2>2. \A d \in MfaCall : Factor!Taking(d, code) /\ (d # c \/ totp.enabled) => Factor!Taking(d, code)'
    BY DEF Factor!Taking, Consuming
  <2>3. CASE /\ UNCHANGED <<codeSets, current>> /\ totp'.codes = totp.codes
             /\ totp'.enabled = totp.enabled \/ totp'.enabled
    <3>1. /\ codeSets' = codeSets /\ current' = current /\ stale' = stale
          /\ code \in totp'.codes <=> code \in totp.codes
      BY <2>3
    <3>2. code \in totp.codes => accepted[code] <= overlaps[code]
            \/ \E d \in MfaCall : Factor!Taking(d, code)'
      <4>1. CASE \A d \in MfaCall : ~Factor!Taking(d, code)
        BY <2>1, <4>1 DEF CodeOK
      <4>2. CASE ~totp.enabled
        BY <2>1, <4>2 DEF CodeOK
      <4>. QED BY <2>2, <4>1, <4>2
    <3>3. code \in totp.codes /\ ~totp'.enabled => accepted[code] = 0
      BY <2>1, <2>3 DEF CodeOK
    <3>. QED BY <2>1, <3>1, <3>2, <3>3 DEF CodeOK
  <2>4. CASE UNCHANGED <<codeSets, current>> /\ totp'.codes = {}
    BY <2>1, <2>4 DEF CodeOK
  <2>5. CASE /\ codeSets < MaxSecrets /\ codeSets' = codeSets + 1 /\ current' = codeSets + 1
             /\ totp'.codes = Factor!Codes(codeSets + 1)
    <3>1. code \in totp'.codes => code[1] = codeSets + 1
      BY <1>1, <2>5, NextSet
    <3>. QED BY <1>1, <2>1, <2>5, <3>1 DEF CodeOK
  <2>. QED BY <2>3, <2>4, <2>5
<1>. QED BY <1>3, <1>4

(* A request stores a new secret and its codes: another that is about to enable     *)
(* the row will enable it with this secret.                                      *)
LEMMA SetupStores ==
  ASSUME FactorInv, NEW c \in MfaCall, Factor!SetupStore(c)
  PROVE  FactorInv'
<1>. DEFINE row == [secret |-> secrets + 1, enabled |-> FALSE, codes |-> Factor!Codes(codeSets + 1)]
<1>1. /\ secrets < MaxSecrets /\ codeSets < MaxSecrets /\ secrets' = secrets + 1
      /\ codeSets' = codeSets + 1 /\ totp' = row /\ current' = codeSets + 1 /\ Factor!Done(c)
      /\ swapped' = IF \E d \in MfaCall : Factor!At(d, "enable")
                    THEN swapped \cup {secrets + 1} ELSE swapped
      /\ UNCHANGED <<proven, accepted, stale, overlaps>> /\ mfaCall[c].at \notin Consuming
  BY DEF Factor!SetupStore, Factor!At, Consuming
<1>2. Factor!TypeOK
  BY DEF FactorInv
<1>3. secrets + 1 \in Factor!Secret /\ secrets + 1 \in 0 .. MaxSecrets
  BY <1>1, <1>2, FactorTypes, FactorAssumption DEF Factor!Secret
<1>4. /\ row \in RowOfFactor /\ row.enabled = FALSE /\ row.codes = Factor!Codes(codeSets + 1)
      /\ row.secret = secrets + 1
  BY <1>1, <1>2, <1>3, NextSet DEF RowOfFactor
<1>. HIDE DEF row
<1>5. /\ mfaCall' \in [MfaCall -> RequestOfFactor] /\ mfaCall'[c].at = "idle" /\ mfaCall'[c].codes = {}
      /\ \A d \in MfaCall : d # c => mfaCall'[d] = mfaCall[d]
  BY <1>1, <1>2, FactorDone
<1>6. Factor!TypeOK'
  <2>1. swapped' \subseteq Factor!Secret
    BY <1>1, <1>2, <1>3 DEF Factor!TypeOK
  <2>. QED BY <1>1, <1>2, <1>3, <1>4, <1>5, <2>1, NextSet DEF Factor!TypeOK, RowOfFactor, RequestOfFactor, MfaStage
<1>7. (\A code \in Factor!Code : CodeOK(code)') /\ (\A d \in MfaCall : ReadOK(d)')
  BY <1>1, <1>4, <1>5, <1>6, CodesStand DEF Consuming
<1>8. SecretOK'
  BY <1>1, <1>4, <1>5 DEF SecretOK, Factor!At
<1>. QED BY <1>6, <1>7, <1>8 DEF FactorInv

LEMMA EnableStores ==
  ASSUME FactorInv, NEW c \in MfaCall, Factor!EnableStore(c)
  PROVE  FactorInv'
<1>1. /\ totp' = IF Factor!Absent THEN totp ELSE [totp EXCEPT !.enabled = TRUE]
      /\ Factor!Done(c) /\ mfaCall[c].at = "enable" /\ mfaCall[c].at \notin Consuming
      /\ UNCHANGED <<secrets, codeSets, proven, current, accepted, stale, overlaps, swapped>>
  BY DEF Factor!EnableStore, Factor!At, Consuming
<1>2. Factor!TypeOK /\ totp \in RowOfFactor
  BY FactorTypes DEF FactorInv
<1>3. /\ totp' \in RowOfFactor /\ totp'.secret = totp.secret /\ totp'.codes = totp.codes
      /\ totp'.enabled => totp.enabled \/ ~Factor!Absent
      /\ totp'.enabled = totp.enabled \/ totp'.enabled
  BY <1>1, <1>2 DEF RowOfFactor
<1>4. /\ mfaCall' \in [MfaCall -> RequestOfFactor] /\ mfaCall'[c].at = "idle" /\ mfaCall'[c].codes = {}
      /\ \A d \in MfaCall : d # c => mfaCall'[d] = mfaCall[d]
  BY <1>1, <1>2, FactorDone
<1>5. Factor!TypeOK'
  BY <1>1, <1>2, <1>3, <1>4 DEF Factor!TypeOK, RowOfFactor, RequestOfFactor, MfaStage
<1>6. (\A code \in Factor!Code : CodeOK(code)') /\ (\A d \in MfaCall : ReadOK(d)')
  BY <1>1, <1>3, <1>4, <1>5, CodesStand DEF Consuming
<1>7. SecretOK'
  <2>1. SecretOK
    BY DEF FactorInv
  <2>2. CASE totp.enabled \/ ~Factor!Absent
    BY <1>1, <1>3, <2>1, <2>2 DEF SecretOK, Factor!At
  <2>3. CASE ~totp.enabled /\ Factor!Absent
    BY <1>1, <1>3, <2>3 DEF SecretOK, Factor!Absent
  <2>. QED BY <2>2, <2>3
<1>. QED BY <1>5, <1>6, <1>7 DEF FactorInv

(* A request takes a code of the row it reads: one use more, and one overlap more   *)
(* where another request is taking it.                                          *)
LEMMA RecoveryVerified ==
  ASSUME FactorInv, NEW c \in MfaCall, NEW code \in Factor!Code, Factor!VerifyRecovery(c, code)
  PROVE  FactorInv'
<1>1. /\ mfaCall[c].at = "idle" /\ totp.enabled /\ code \in totp.codes /\ accepted[code] < MaxLogins
      /\ accepted' = [accepted EXCEPT ![code] = accepted[code] + 1]
      /\ stale' = IF code[1] = current THEN stale ELSE stale \cup {code}
      /\ overlaps' = IF \E d \in MfaCall : Factor!Taking(d, code)
                     THEN [overlaps EXCEPT ![code] = overlaps[code] + 1] ELSE overlaps
      /\ UNCHANGED <<totp, secrets, codeSets, proven, current, swapped>>
  BY DEF Factor!VerifyRecovery, Factor!At
<1>2. PICK stage \in Consuming : mfaCall' = [mfaCall EXCEPT ![c] =
        [at |-> stage, codes |-> totp.codes \ {code}, used |-> code]]
  BY DEF Factor!VerifyRecovery, Consuming
<1>3. /\ Factor!TypeOK /\ codeSets \in Nat /\ totp.codes \in SUBSET Factor!Code
      /\ accepted \in [Factor!Code -> 0 .. MaxLogins] /\ overlaps \in [Factor!Code -> Nat]
      /\ \A other \in Factor!Code : accepted[other] \in Nat /\ overlaps[other] \in Nat /\ other[1] \in Nat
  BY FactorTypes DEF FactorInv
<1>4. /\ mfaCall' \in [MfaCall -> RequestOfFactor]
      /\ mfaCall'[c] = [at |-> stage, codes |-> totp.codes \ {code}, used |-> code]
      /\ \A d \in MfaCall : d # c => mfaCall'[d] = mfaCall[d]
  <2>1. [at |-> stage, codes |-> totp.codes \ {code}, used |-> code] \in RequestOfFactor
    BY <1>3 DEF RequestOfFactor, MfaStage, Consuming
  <2>. QED BY <1>2, <1>3, <2>1, FactorMoves
<1>5. /\ accepted' \in [Factor!Code -> 0 .. MaxLogins] /\ accepted'[code] = accepted[code] + 1
      /\ \A other \in Factor!Code : other # code => accepted'[other] = accepted[other]
  BY <1>1, <1>3, FactorAssumption
<1>6. /\ overlaps' \in [Factor!Code -> Nat]
      /\ overlaps'[code] = IF \E d \in MfaCall : Factor!Taking(d, code)
                           THEN overlaps[code] + 1 ELSE overlaps[code]
      /\ \A other \in Factor!Code : other # code => overlaps'[other] = overlaps[other]
  BY <1>1, <1>3
<1>7. Factor!TypeOK'
  <2>1. stale' \subseteq Factor!Code
    BY <1>1, <1>3 DEF Factor!TypeOK
  <2>. QED BY <1>1, <1>3, <1>4, <1>5, <1>6, <2>1 DEF Factor!TypeOK, RequestOfFactor, MfaStage
<1>8. ASSUME NEW other \in Factor!Code PROVE CodeOK(other)'
  <2>1. CodeOK(other) /\ CodeOK(code)
    BY DEF FactorInv
  <2>2. CASE other = code
    <3>1. Factor!Taking(c, code)'
      BY <1>4 DEF Factor!Taking, Consuming
    <3>2. accepted[code] + 1 <= 1 + overlaps'[code] /\ overlaps[code] <= overlaps'[code]
          /\ (code[1] = current \/ overlaps[code] > 0) /\ code[1] <= codeSets
      BY <1>1, <1>3, <1>6, <2>1 DEF CodeOK
    <3>3. overlaps'[code] \in Nat
      BY <1>6
    <3>4. code \in stale' => overlaps'[code] > 0
      BY <1>1, <1>3, <2>1, <3>2, <3>3 DEF CodeOK
    <3>. QED BY <1>1, <1>3, <1>5, <2>1, <2>2, <3>1, <3>2, <3>3, <3>4 DEF CodeOK
  <2>3. CASE other # code
    <3>1. other \in stale' => other \in stale
      BY <1>1, <2>3
    <3>2. \A d \in MfaCall : Factor!Taking(d, other) => Factor!Taking(d, other)'
      BY <1>1, <1>4 DEF Factor!Taking
    <3>. QED BY <1>1, <1>5, <1>6, <2>1, <2>3, <3>1, <3>2 DEF CodeOK
  <2>. QED BY <2>2, <2>3
<1>9. \A d \in MfaCall : ReadOK(d)'
  BY <1>1, <1>3, <1>4 DEF FactorInv, CodeOK, ReadOK
<1>10. SecretOK'
  BY <1>1, <1>4 DEF FactorInv, SecretOK
<1>. QED BY <1>7, <1>8, <1>9, <1>10 DEF FactorInv

(* A request stores what was left of the set it read: what the row no longer holds  *)
(* comes back, an overlap more.                                                *)
LEMMA CodesConsumed ==
  ASSUME FactorInv, NEW c \in MfaCall, Factor!Consume(c)
  PROVE  FactorInv'
<1>1. /\ mfaCall[c].at \in Consuming
      /\ IF Factor!At(c, "consume") THEN Factor!Done(c) ELSE Factor!Await(c, "disable")
      /\ UNCHANGED <<secrets, codeSets, proven, current, accepted, stale, swapped>>
  BY DEF Factor!Consume, Factor!At, Consuming
<1>2. /\ Factor!TypeOK /\ totp \in RowOfFactor /\ codeSets \in Nat /\ totp.codes \in SUBSET Factor!Code
      /\ overlaps \in [Factor!Code -> Nat] /\ mfaCall[c].codes \in SUBSET Factor!Code
      /\ \A code \in Factor!Code : accepted[code] \in Nat /\ overlaps[code] \in Nat /\ code[1] \in Nat
  BY FactorTypes DEF FactorInv
<1>3. /\ mfaCall' \in [MfaCall -> RequestOfFactor]
      /\ mfaCall'[c].at \in {"idle", "disable"} /\ mfaCall'[c].codes = {}
      /\ \A d \in MfaCall : d # c => mfaCall'[d] = mfaCall[d]
  BY <1>1, <1>2, FactorDone, FactorAwaits DEF MfaStage
<1>4. CASE ~totp.enabled
  <2>1. UNCHANGED <<totp, overlaps>>
    BY <1>4 DEF Factor!Consume
  <2>2. Factor!TypeOK'
    BY <1>1, <1>2, <1>3, <2>1 DEF Factor!TypeOK, RequestOfFactor, MfaStage
  <2>3. (\A code \in Factor!Code : CodeOK(code)') /\ (\A d \in MfaCall : ReadOK(d)')
    BY <1>1, <1>3, <1>4, <2>1, <2>2, CodesStand DEF Consuming
  <2>4. SecretOK'
    BY <1>1, <1>3, <2>1 DEF FactorInv, SecretOK, Factor!At, Factor!Absent
  <2>. QED BY <2>2, <2>3, <2>4 DEF FactorInv
<1>5. CASE totp.enabled
  <2>1. /\ totp' = [totp EXCEPT !.codes = mfaCall[c].codes]
        /\ overlaps' = [code \in Factor!Code |->
             IF code \in mfaCall[c].codes \ totp.codes THEN overlaps[code] + 1 ELSE overlaps[code]]
    BY <1>5 DEF Factor!Consume
  <2>2. /\ totp' \in RowOfFactor /\ totp'.secret = totp.secret /\ totp'.enabled = TRUE
        /\ totp'.codes = mfaCall[c].codes
    BY <1>2, <1>5, <2>1 DEF RowOfFactor
  <2>3. /\ overlaps' \in [Factor!Code -> Nat]
        /\ \A code \in Factor!Code : overlaps'[code] =
             IF code \in mfaCall[c].codes \ totp.codes THEN overlaps[code] + 1 ELSE overlaps[code]
    BY <1>2, <2>1
  <2>4. Factor!TypeOK'
    BY <1>1, <1>2, <1>3, <2>2, <2>3 DEF Factor!TypeOK, RowOfFactor, RequestOfFactor, MfaStage
  <2>5. ASSUME NEW code \in Factor!Code PROVE CodeOK(code)'
    <3>1. CodeOK(code) /\ ReadOK(c) /\ accepted'[code] = accepted[code] /\ accepted[code] \in Nat
          /\ overlaps[code] \in Nat /\ code[1] \in Nat
      BY <1>1, <1>2 DEF FactorInv
    <3>2. CASE code \in mfaCall[c].codes \ totp.codes
      BY <1>1, <1>2, <2>2, <2>3, <3>1, <3>2 DEF CodeOK, ReadOK
    <3>3. CASE code \in mfaCall[c].codes /\ code \in totp.codes
      <4>1. overlaps'[code] = overlaps[code]
        BY <2>3, <3>3
      <4>2. mfaCall[c].used # code
        BY <1>1, <3>3 DEF FactorInv, ReadOK
      <4>3. \A d \in MfaCall : Factor!Taking(d, code) => Factor!Taking(d, code)'
        BY <1>3, <4>2 DEF Factor!Taking
      <4>. QED BY <1>1, <2>2, <3>1, <3>3, <4>1, <4>3 DEF CodeOK
    <3>4. CASE code \notin mfaCall[c].codes
      <4>1. overlaps'[code] = overlaps[code]
        BY <2>3, <3>4
      <4>. QED BY <1>1, <2>2, <3>1, <3>4, <4>1 DEF CodeOK
    <3>. QED BY <3>2, <3>3, <3>4
  <2>6. \A d \in MfaCall : ReadOK(d)'
    BY <1>1, <1>3 DEF FactorInv, ReadOK
  <2>7. SecretOK'
    BY <1>1, <1>5, <2>2 DEF FactorInv, SecretOK
  <2>. QED BY <2>4, <2>5, <2>6, <2>7 DEF FactorInv
<1>. QED BY <1>4, <1>5

LEMMA RowDeleted ==
  ASSUME FactorInv, NEW c \in MfaCall, Factor!Disable(c)
  PROVE  FactorInv'
<1>1. /\ totp' = Factor!NoTotp /\ Factor!Done(c) /\ mfaCall[c].at \notin Consuming
      /\ UNCHANGED <<secrets, codeSets, proven, current, accepted, stale, overlaps, swapped>>
  BY DEF Factor!Disable, Factor!At, Consuming
<1>2. Factor!TypeOK
  BY DEF FactorInv
<1>3. /\ mfaCall' \in [MfaCall -> RequestOfFactor] /\ mfaCall'[c].at = "idle" /\ mfaCall'[c].codes = {}
      /\ \A d \in MfaCall : d # c => mfaCall'[d] = mfaCall[d]
  BY <1>1, <1>2, FactorDone
<1>4. totp' \in RowOfFactor /\ totp'.codes = {} /\ totp'.enabled = FALSE /\ totp'.secret = 0
  BY <1>1 DEF RowOfFactor, Factor!NoTotp
<1>5. Factor!TypeOK'
  BY <1>1, <1>2, <1>3, <1>4 DEF Factor!TypeOK, RowOfFactor, RequestOfFactor, MfaStage
<1>6. (\A code \in Factor!Code : CodeOK(code)') /\ (\A d \in MfaCall : ReadOK(d)')
  BY <1>1, <1>3, <1>4, <1>5, CodesStand DEF Consuming
<1>7. SecretOK'
  BY <1>4 DEF SecretOK, Factor!Absent
<1>. QED BY <1>5, <1>6, <1>7 DEF FactorInv

LEMMA CodesRegenerated ==
  ASSUME FactorInv, NEW c \in MfaCall, Factor!RegenerateStore(c)
  PROVE  FactorInv'
<1>1. /\ mfaCall[c].at = "regenerate" /\ mfaCall[c].at \notin Consuming
      /\ codeSets < MaxSecrets /\ Factor!Done(c)
      /\ UNCHANGED <<secrets, proven, accepted, stale, overlaps, swapped>>
  BY DEF Factor!RegenerateStore, Factor!At, Consuming
<1>2. Factor!TypeOK /\ totp \in RowOfFactor
  BY FactorTypes DEF FactorInv
<1>3. /\ mfaCall' \in [MfaCall -> RequestOfFactor] /\ mfaCall'[c].at = "idle" /\ mfaCall'[c].codes = {}
      /\ \A d \in MfaCall : d # c => mfaCall'[d] = mfaCall[d]
  BY <1>1, <1>2, FactorDone
<1>4. /\ totp' \in RowOfFactor /\ totp'.secret = totp.secret /\ totp'.enabled = totp.enabled
      /\ \/ UNCHANGED <<codeSets, current>> /\ totp'.codes = totp.codes
         \/ /\ codeSets' = codeSets + 1 /\ current' = codeSets + 1
            /\ totp'.codes = Factor!Codes(codeSets + 1)
  <2>1. CASE totp.enabled
    <3>1. /\ codeSets' = codeSets + 1 /\ current' = codeSets + 1
          /\ totp' = [totp EXCEPT !.codes = Factor!Codes(codeSets + 1)]
      BY <2>1 DEF Factor!RegenerateStore
    <3>. QED BY <1>1, <1>2, <3>1, NextSet DEF RowOfFactor
  <2>2. CASE ~totp.enabled
    BY <1>2, <2>2 DEF Factor!RegenerateStore
  <2>. QED BY <2>1, <2>2
<1>5. Factor!TypeOK'
  BY <1>1, <1>2, <1>3, <1>4, NextSet DEF Factor!TypeOK, RowOfFactor, RequestOfFactor, MfaStage
<1>6. (\A code \in Factor!Code : CodeOK(code)') /\ (\A d \in MfaCall : ReadOK(d)')
  BY <1>1, <1>3, <1>4, <1>5, CodesStand DEF Consuming
<1>7. SecretOK'
  BY <1>1, <1>3, <1>4 DEF FactorInv, SecretOK, Factor!At, Factor!Absent
<1>. QED BY <1>5, <1>6, <1>7 DEF FactorInv

(* A request has read the row, and perhaps seen a code of its secret.            *)
LEMMA RowRead ==
  ASSUME FactorInv, NEW c \in MfaCall,
         \/ Factor!SetupCheck(c) \/ Factor!EnableVerify(c)
         \/ Factor!VerifyAuthenticator(c) \/ Factor!RegenerateVerify(c)
  PROVE  FactorInv'
<1>1. PICK stage \in {"setup", "enable", "disable", "regenerate"} :
        /\ mfaCall[c].at = "idle" /\ Factor!Await(c, stage)
        /\ IF stage = "enable" THEN ~Factor!Absent /\ proven' = proven \cup {totp.secret}
                               ELSE proven' = proven
        /\ UNCHANGED <<totp, secrets, codeSets, current, accepted, stale, overlaps, swapped>>
  BY DEF Factor!SetupCheck, Factor!EnableVerify, Factor!VerifyAuthenticator,
     Factor!RegenerateVerify, Factor!At
<1>2. Factor!TypeOK /\ totp.secret \in Factor!Secret \cup {0} /\ mfaCall[c].at \notin Consuming
  BY <1>1, FactorTypes DEF FactorInv, Consuming
<1>3. /\ mfaCall' \in [MfaCall -> RequestOfFactor] /\ mfaCall'[c].at = stage /\ mfaCall'[c].codes = {}
      /\ \A d \in MfaCall : d # c => mfaCall'[d] = mfaCall[d]
  BY <1>1, <1>2, FactorAwaits DEF MfaStage
<1>4. proven' \subseteq Factor!Secret /\ proven \subseteq proven'
      /\ (stage = "enable" => totp.secret \in proven')
  BY <1>1, <1>2 DEF Factor!TypeOK, Factor!Absent
<1>5. Factor!TypeOK'
  BY <1>1, <1>2, <1>3, <1>4 DEF Factor!TypeOK, RequestOfFactor, MfaStage
<1>6. (\A code \in Factor!Code : CodeOK(code)') /\ (\A d \in MfaCall : ReadOK(d)')
  BY <1>1, <1>2, <1>3, <1>5, CodesStand DEF Consuming
<1>7. SecretOK'
  <2>1. CASE stage = "enable"
    BY <1>1, <1>4, <2>1 DEF SecretOK
  <2>2. CASE stage # "enable"
    BY <1>1, <1>3, <1>4, <2>2 DEF FactorInv, SecretOK, Factor!At, Factor!Absent
  <2>. QED BY <2>1, <2>2
<1>. QED BY <1>5, <1>6, <1>7 DEF FactorInv

LEMMA FactorInitial ==
  ASSUME Factor!Init
  PROVE  FactorInv
<1>1. Factor!TypeOK
  BY FactorTypesInitial
<1>2. /\ totp.codes = {} /\ ~totp.enabled /\ totp.secret = 0 /\ stale = {} /\ codeSets = 0
      /\ \A d \in MfaCall : mfaCall[d].codes = {} /\ mfaCall[d].at = "idle"
      /\ \A code \in Factor!Code : accepted[code] = 0 /\ overlaps[code] = 0
  BY DEF Factor!Init, Factor!NoTotp, Factor!Waiting
<1>. QED BY <1>1, <1>2 DEF FactorInv, CodeOK, ReadOK, SecretOK, Factor!Absent

LEMMA FactorStep ==
  ASSUME FactorInv, [Factor!Next]_ofFactor
  PROVE  FactorInv'
<1>1. CASE UNCHANGED ofFactor
  <2>1. Factor!TypeOK' /\ SecretOK'
    BY <1>1 DEF ofFactor, FactorInv, Factor!TypeOK, SecretOK, Factor!Absent, Factor!At
  <2>2. (\A code \in Factor!Code : CodeOK(code)') /\ (\A d \in MfaCall : ReadOK(d)')
    BY <1>1 DEF ofFactor, FactorInv, CodeOK, ReadOK, Factor!Taking
  <2>. QED BY <2>1, <2>2 DEF FactorInv
<1>2. CASE Factor!Next
  BY <1>2, SetupStores, EnableStores, RecoveryVerified, CodesConsumed, RowDeleted,
     CodesRegenerated, RowRead DEF Factor!Next
<1>. QED BY <1>1, <1>2

(***************************************************************************)
(* auth/totp.go, however many requests of the account overlap: a recovery code    *)
(* serves once, and once more for each overlap on it; a set that was replaced is   *)
(* dead unless a request wrote it back; and the factor is enabled only with a      *)
(* secret whose authenticator has answered, or that was stored in between.         *)
(***************************************************************************)
THEOREM FactorServesOnce == Spec => []FactorSafe
<1>1. Init => FactorInv
  BY FactorInitial DEF Init
<1>2. FactorInv /\ [Next]_vars => FactorInv'
  BY Zenon, PartsMove, FactorStep
<1>3. FactorInv => FactorSafe
  BY FactorTypes DEF FactorInv, CodeOK, SecretOK, FactorSafe, Factor!FactorSafe,
     Factor!RecoveryCodeOnce, Factor!EnabledIsProven, Factor!OldCodesDead, Factor!TypeOK
<1>. QED BY <1>1, <1>2, <1>3, PTL DEF Spec

-----------------------------------------------------------------------------
(***************************************************************************)
(* Local logins and their sessions (auth/service.go).                       *)
(***************************************************************************)

AccountRows == [failed : Nat, lockedUntil : Local!Time, active : BOOLEAN]
SessionRows == [idle : Local!Time, absolute : Local!Time, revoked : BOOLEAN,
                seen : Nat, raced : BOOLEAN, kept : BOOLEAN]
Clients == [at : Local!Step, read : Local!Clock \cup {0}, failed : Nat, seen : Nat,
            session : Local!Session \cup {0}, revoke : SUBSET Local!Session]
Ends  == {"changing", "resetting", "deactivating"}
Fails == {"fail", "failUnknown"}

(* The failures stored and the attempts that may still become failures, within  *)
(* the window of the time t: an attempt that has passed the address check reads  *)
(* the account at some later time.                                             *)
Stored(t)  == {n \in DOMAIN failures : failures[n] <= t /\ t <= failures[n] + IpWindow}
Pending(t) == {c \in Client :
  \/ client[c].at \in Fails /\ client[c].read <= t /\ t <= client[c].read + IpWindow
  \/ client[c].at = "checked" /\ clock <= t}

AddressOK ==
  /\ \A n \in DOMAIN failures : failures[n] <= clock
  /\ \A c \in Client : client[c].at \in Fails => client[c].read \in Local!Clock /\ client[c].read <= clock
  /\ \A t \in Local!Clock :
       Cardinality(Stored(t)) + Cardinality(Pending(t)) < IpThreshold + Cardinality(Client)

(* A transaction that ends sessions holds the account's lock, and every session  *)
(* that is not raced is revoked, about to be, or the caller's own.               *)
Covers(c) == \A s \in DOMAIN session :
  session[s].revoked \/ s \in client[c].revoke \/ s = client[c].session \/ session[s].raced

SessionOK(row) ==
  /\ row.idle <= row.absolute /\ row.seen <= endings
  /\ row.seen < endings /\ ~row.revoked => row.kept \/ row.raced

SessionsOK ==
  /\ \A s \in DOMAIN session : SessionOK(session[s])
  /\ \A c \in Client :
       /\ client[c].seen <= endings
       /\ client[c].at \in {"refresh", "acting"} => client[c].session \in DOMAIN session
       /\ client[c].at \in Ends =>
            /\ endings < MaxEndings /\ Covers(c)
            /\ \A d \in Client : client[d].at \in Ends => d = c

LoginInv == Local!TypeOK /\ AddressOK /\ SessionsOK

LEMMA LoginTypes ==
  Local!TypeOK <=>
    /\ account \in AccountRows /\ failures \in Seq(Local!Clock)
    /\ session \in Seq(SessionRows) /\ Len(session) <= MaxSessions
    /\ client \in [Client -> Clients] /\ endings \in 0 .. MaxEndings /\ clock \in Local!Clock
BY DEF Local!TypeOK, AccountRows, SessionRows, Clients

LEMMA LocalCount ==
  ASSUME NEW S
  PROVE  Local!Cardinality(S) = Cardinality(S)
BY Zenon DEF Cardinality, Local!Cardinality

LEMMA ReadyTyped ==
  /\ Local!Ready \in Clients /\ Local!Ready.at = "idle" /\ Local!Ready.seen = 0
  /\ Local!Ready.session = 0 /\ 0 \in Local!Clock \cup {0}
BY DEF Local!Ready, Clients, Local!Step

(* What a request becomes.                                                    *)
StepTo(b, step) == [b EXCEPT !.at = step]
Tried(b, step, t, n, seen) == [b EXCEPT !.at = step, !.read = t, !.failed = n, !.seen = seen]
TriedUnknown(b, t) == [b EXCEPT !.at = "failUnknown", !.read = t]
Resumed(b, t, s) == [b EXCEPT !.at = "refresh", !.read = t, !.session = s]
Revoking(b, step, old) == [b EXCEPT !.at = step, !.revoke = old]

LEMMA StepTyped ==
  ASSUME NEW b \in Clients, NEW step \in Local!Step
  PROVE  /\ StepTo(b, step) \in Clients /\ StepTo(b, step).at = step
         /\ StepTo(b, step).seen = b.seen /\ StepTo(b, step).session = b.session
         /\ StepTo(b, step).read = b.read
BY DEF Clients, StepTo

LEMMA TriedTyped ==
  ASSUME NEW b \in Clients, NEW step \in Local!Step, NEW t \in Local!Clock, NEW n \in Nat,
         NEW seen \in Nat
  PROVE  /\ Tried(b, step, t, n, seen) \in Clients /\ Tried(b, step, t, n, seen).at = step
         /\ Tried(b, step, t, n, seen).read = t /\ Tried(b, step, t, n, seen).seen = seen
BY DEF Clients, Tried

LEMMA UnknownTyped ==
  ASSUME NEW b \in Clients, NEW t \in Local!Clock
  PROVE  /\ TriedUnknown(b, t) \in Clients /\ TriedUnknown(b, t).at = "failUnknown"
         /\ TriedUnknown(b, t).read = t /\ TriedUnknown(b, t).seen = b.seen
BY DEF Clients, TriedUnknown, Local!Step

LEMMA ResumedTyped ==
  ASSUME NEW b \in Clients, NEW t \in Local!Clock, NEW s \in Local!Session
  PROVE  /\ Resumed(b, t, s) \in Clients /\ Resumed(b, t, s).at = "refresh"
         /\ Resumed(b, t, s).session = s /\ Resumed(b, t, s).seen = b.seen
BY DEF Clients, Resumed, Local!Step

LEMMA RevokingTyped ==
  ASSUME NEW b \in Clients, NEW step \in Local!Step, NEW old \in SUBSET Local!Session
  PROVE  /\ Revoking(b, step, old) \in Clients /\ Revoking(b, step, old).at = step
         /\ Revoking(b, step, old).seen = b.seen /\ Revoking(b, step, old).session = b.session
         /\ Revoking(b, step, old).revoke = old
BY DEF Clients, Revoking

(* The counted sets are finite.                                               *)
LEMMA CountedFinite ==
  ASSUME failures \in Seq(Local!Clock), NEW t
  PROVE  /\ IsFiniteSet(Stored(t)) /\ Cardinality(Stored(t)) \in Nat
         /\ IsFiniteSet(Pending(t)) /\ Cardinality(Pending(t)) \in Nat
         /\ Cardinality(Pending(t)) <= Cardinality(Client)
<1>1. Stored(t) \subseteq 1 .. Len(failures) /\ Len(failures) \in Nat
  BY DEF Stored
<1>2. IsFiniteSet(Stored(t))
  <2>1. IsFiniteSet(1 .. Len(failures))
    BY <1>1, FS_Interval
  <2>. QED BY <1>1, <2>1, FS_Subset
<1>3. IsFiniteSet(Client) /\ Pending(t) \subseteq Client
  BY LoginAssumption DEF Pending
<1>4. IsFiniteSet(Pending(t)) /\ Cardinality(Pending(t)) <= Cardinality(Client)
  BY <1>3, FS_Subset
<1>. QED BY <1>2, <1>4, FS_CardinalityType

LEMMA LoginInitial ==
  ASSUME Local!Init
  PROVE  LoginInv
<1>1. /\ account = [failed |-> 0, lockedUntil |-> 0, active |-> TRUE] /\ failures = <<>>
      /\ session = <<>> /\ client = [c \in Client |-> Local!Ready] /\ endings = 0 /\ clock = 1
  BY DEF Local!Init
<1>2. Local!TypeOK
  <2>1. account \in AccountRows
    BY <1>1, LoginAssumption DEF AccountRows, Local!Time
  <2>2. clock \in Local!Clock /\ endings \in 0 .. MaxEndings /\ Len(session) <= MaxSessions
    BY <1>1, LoginAssumption DEF Local!Clock
  <2>3. client \in [Client -> Clients]
    BY <1>1, ReadyTyped
  <2>4. failures \in Seq(Local!Clock) /\ session \in Seq(SessionRows)
    BY <1>1
  <2>. QED BY <2>1, <2>2, <2>3, <2>4, LoginTypes
<1>3. AddressOK
  <2>1. ASSUME NEW t \in Local!Clock
        PROVE  Cardinality(Stored(t)) + Cardinality(Pending(t)) < IpThreshold + Cardinality(Client)
    <3>1. Stored(t) = {} /\ Pending(t) = {}
      BY <1>1, ReadyTyped DEF Stored, Pending, Fails
    <3>2. Cardinality(Stored(t)) = 0 /\ Cardinality(Pending(t)) = 0 /\ Cardinality(Client) \in Nat
      BY <3>1, FS_EmptySet, FS_CardinalityType, LoginAssumption
    <3>. QED BY <3>2, LoginAssumption
  <2>. QED BY <1>1, <2>1, ReadyTyped DEF AddressOK, Fails
<1>4. SessionsOK
  BY <1>1, ReadyTyped DEF SessionsOK, Ends
<1>. QED BY <1>2, <1>3, <1>4 DEF LoginInv

(* One request moves.                                                         *)
LEMMA ClientMoves ==
  ASSUME Local!TypeOK, NEW c \in Client, NEW new \in Clients,
         client' = [client EXCEPT ![c] = new]
  PROVE  /\ client' \in [Client -> Clients] /\ client'[c] = new
         /\ \A d \in Client : d # c => client'[d] = client[d]
BY LoginTypes

(* It becomes no failure that was not one before.                             *)
LEMMA AddressKept ==
  ASSUME LoginInv, NEW c \in Client, NEW new \in Clients,
         client' = [client EXCEPT ![c] = new], UNCHANGED <<failures, clock>>,
         \/ new.at \notin Fails \cup {"checked"}
         \/ new.at \in Fails /\ client[c].at = "checked" /\ new.read = clock
  PROVE  AddressOK'
<1>1. /\ failures \in Seq(Local!Clock) /\ clock \in Local!Clock
      /\ client \in [Client -> Clients]
  BY LoginTypes DEF LoginInv
<1>2. /\ client'[c] = new /\ \A d \in Client : d # c => client'[d] = client[d]
  BY ClientMoves DEF LoginInv
<1>3. ASSUME NEW t \in Local!Clock
      PROVE  Cardinality(Stored(t)') + Cardinality(Pending(t)') < IpThreshold + Cardinality(Client)
  <2>1. Stored(t)' = Stored(t)
    BY DEF Stored
  <2>2. Pending(t)' \subseteq Pending(t)
    BY <1>1, <1>2, LoginAssumption DEF Pending, Fails, Local!Clock
  <2>3. /\ Cardinality(Pending(t)') \in Nat /\ Cardinality(Pending(t)') <= Cardinality(Pending(t))
    BY <1>1, <2>2, CountedFinite, FS_Subset, FS_CardinalityType
  <2>4. /\ Cardinality(Stored(t)) \in Nat /\ Cardinality(Pending(t)) \in Nat
        /\ Cardinality(Client) \in Nat
    BY <1>1, CountedFinite, FS_CardinalityType, LoginAssumption
  <2>. QED BY <2>1, <2>3, <2>4, LoginAssumption DEF LoginInv, AddressOK
<1>4. \A d \in Client : client'[d].at \in Fails =>
        client'[d].read \in Local!Clock /\ client'[d].read <= clock
  BY <1>1, <1>2 DEF LoginInv, AddressOK, Local!Clock
<1>. QED BY <1>3, <1>4 DEF LoginInv, AddressOK, Local!Clock

(* An attempt passes the address check.                                       *)
LEMMA AddressChecked ==
  ASSUME LoginInv, NEW c \in Client, Local!CheckAddress(c)
  PROVE  AddressOK'
<1>1. /\ failures \in Seq(Local!Clock) /\ clock \in Local!Clock
      /\ client \in [Client -> Clients] /\ UNCHANGED <<failures, clock>>
      /\ client' = [client EXCEPT ![c] = StepTo(client[c], "checked")]
  BY LoginTypes DEF LoginInv, Local!CheckAddress, Local!Go, StepTo
<1>2. StepTo(client[c], "checked") \in Clients /\ StepTo(client[c], "checked").at = "checked"
  BY <1>1, StepTyped DEF Local!Step
<1>3. /\ client'[c].at = "checked" /\ \A d \in Client : d # c => client'[d] = client[d]
  BY <1>1, <1>2, ClientMoves DEF LoginInv
<1>4. Cardinality(Stored(clock)) < IpThreshold
  <2>1. ~(Local!FailuresWithin(clock) >= IpThreshold)
    BY DEF Local!CheckAddress, Local!IpRateLimited
  <2>2. Local!FailuresWithin(clock) = Cardinality(Stored(clock))
    BY LocalCount DEF Local!FailuresWithin, Stored
  <2>. QED BY <1>1, <2>1, <2>2, CountedFinite, LoginAssumption
<1>5. ASSUME NEW t \in Local!Clock
      PROVE  Cardinality(Stored(t)') + Cardinality(Pending(t)') < IpThreshold + Cardinality(Client)
  <2>1. Stored(t)' = Stored(t)
    BY <1>1 DEF Stored
  <2>2. /\ Cardinality(Stored(t)) \in Nat /\ Cardinality(Pending(t)) \in Nat
        /\ Cardinality(Client) \in Nat /\ Cardinality(Stored(clock)) \in Nat
    BY <1>1, CountedFinite, FS_CardinalityType, LoginAssumption
  <2>3. /\ Pending(t)' \subseteq Client /\ Cardinality(Pending(t)') \in Nat
        /\ Cardinality(Pending(t)') <= Cardinality(Client)
    <3>1. Pending(t)' \subseteq Client
      BY DEF Pending
    <3>. QED BY <3>1, FS_Subset, FS_CardinalityType, LoginAssumption
  <2>4. CASE clock <= t
    <3>1. ASSUME NEW n \in Stored(t) PROVE n \in Stored(clock)
      <4>1. failures[n] \in Local!Clock /\ n \in DOMAIN failures /\ failures[n] <= clock
        BY <1>1 DEF Stored, LoginInv, AddressOK
      <4>. QED BY <1>1, <2>4, <3>1, <4>1, LoginAssumption DEF Stored, Local!Clock
    <3>2. Cardinality(Stored(t)) <= Cardinality(Stored(clock))
      BY <1>1, <3>1, CountedFinite, FS_Subset
    <3>. QED BY <1>4, <2>1, <2>2, <2>3, <3>2, LoginAssumption
  <2>5. CASE ~(clock <= t)
    <3>1. Pending(t)' \subseteq Pending(t)
      BY <1>1, <1>3, <2>5 DEF Pending, Fails
    <3>2. Cardinality(Pending(t)') <= Cardinality(Pending(t))
      BY <1>1, <3>1, CountedFinite, FS_Subset
    <3>. QED BY <2>1, <2>2, <2>3, <3>2, LoginAssumption DEF LoginInv, AddressOK
  <2>. QED BY <2>4, <2>5
<1>. QED BY <1>1, <1>3, <1>5 DEF LoginInv, AddressOK, Fails

(* A failure is stored.                                                       *)
LEMMA AddressStores ==
  ASSUME LoginInv, NEW c \in Client, client[c].at \in Fails,
         failures' = Append(failures, client[c].read),
         client' = [client EXCEPT ![c] = Local!Ready], UNCHANGED clock
  PROVE  AddressOK' /\ failures' \in Seq(Local!Clock)
<1>. DEFINE r == client[c].read
            k == Len(failures) + 1
<1>1. /\ failures \in Seq(Local!Clock) /\ clock \in Local!Clock
      /\ client \in [Client -> Clients] /\ r \in Local!Clock /\ r <= clock
  BY LoginTypes DEF LoginInv, AddressOK
<1>2. /\ client'[c] = Local!Ready /\ \A d \in Client : d # c => client'[d] = client[d]
  BY ReadyTyped, ClientMoves DEF LoginInv
<1>3. /\ failures' \in Seq(Local!Clock) /\ DOMAIN failures' = DOMAIN failures \cup {k}
      /\ failures'[k] = r /\ k \notin DOMAIN failures
      /\ \A n \in DOMAIN failures : failures'[n] = failures[n]
  BY <1>1
<1>. HIDE DEF k
<1>4. ASSUME NEW t \in Local!Clock
      PROVE  Cardinality(Stored(t)') + Cardinality(Pending(t)') < IpThreshold + Cardinality(Client)
  <2>1. /\ IsFiniteSet(Stored(t)) /\ IsFiniteSet(Pending(t))
        /\ Cardinality(Stored(t)) \in Nat /\ Cardinality(Pending(t)) \in Nat
        /\ Cardinality(Client) \in Nat
    BY <1>1, CountedFinite, FS_CardinalityType, LoginAssumption
  <2>2. Pending(t)' \subseteq Pending(t) \ {c}
    BY <1>2, ReadyTyped DEF Pending, Fails
  <2>3. CASE r <= t /\ t <= r + IpWindow
    <3>1. Stored(t)' = Stored(t) \cup {k} /\ k \notin Stored(t)
      BY <1>3, <2>3 DEF Stored
    <3>2. Cardinality(Stored(t)') = Cardinality(Stored(t)) + 1
      BY <2>1, <3>1, FS_AddElement
    <3>3. c \in Pending(t)
      BY <2>3 DEF Pending
    <3>4. /\ Cardinality(Pending(t) \ {c}) = Cardinality(Pending(t)) - 1
          /\ IsFiniteSet(Pending(t) \ {c})
      BY <2>1, <3>3, FS_RemoveElement
    <3>5. /\ Cardinality(Pending(t)') <= Cardinality(Pending(t) \ {c})
          /\ Cardinality(Pending(t)') \in Nat
      BY <2>2, <3>4, FS_Subset, FS_CardinalityType
    <3>6. Cardinality(Stored(t)) + Cardinality(Pending(t)) < IpThreshold + Cardinality(Client)
      BY DEF LoginInv, AddressOK
    <3>. QED BY <2>1, <3>2, <3>4, <3>5, <3>6, LoginAssumption
  <2>4. CASE ~(r <= t /\ t <= r + IpWindow)
    <3>1. Stored(t)' = Stored(t)
      BY <1>3, <2>4 DEF Stored
    <3>2. /\ Cardinality(Pending(t)') <= Cardinality(Pending(t))
          /\ Cardinality(Pending(t)') \in Nat
      BY <2>1, <2>2, FS_Subset, FS_CardinalityType
    <3>3. Cardinality(Stored(t)) + Cardinality(Pending(t)) < IpThreshold + Cardinality(Client)
      BY DEF LoginInv, AddressOK
    <3>. QED BY <2>1, <3>1, <3>2, <3>3, LoginAssumption
  <2>. QED BY <2>3, <2>4
<1>5. \A n \in DOMAIN failures' : failures'[n] <= clock'
  BY <1>1, <1>3 DEF LoginInv, AddressOK
<1>6. \A d \in Client : client'[d].at \in Fails =>
        client'[d].read \in Local!Clock /\ client'[d].read <= clock
  BY <1>2, ReadyTyped DEF LoginInv, AddressOK, Fails
<1>. QED BY <1>3, <1>4, <1>5, <1>6 DEF AddressOK, Local!Clock

(* Time passes.                                                               *)
LEMMA AddressTicks ==
  ASSUME LoginInv, Local!Tick
  PROVE  AddressOK' /\ clock' \in Local!Clock
<1>1. /\ failures \in Seq(Local!Clock) /\ clock \in Local!Clock /\ clock' = clock + 1
      /\ clock < MaxClock /\ UNCHANGED <<failures, client>> /\ client \in [Client -> Clients]
  BY LoginTypes DEF LoginInv, Local!Tick
<1>2. clock' \in Local!Clock /\ clock \in Nat
  BY <1>1, LoginAssumption DEF Local!Clock
<1>3. ASSUME NEW t \in Local!Clock
      PROVE  Cardinality(Stored(t)') + Cardinality(Pending(t)') < IpThreshold + Cardinality(Client)
  <2>1. Stored(t)' = Stored(t) /\ Pending(t)' \subseteq Pending(t)
    BY <1>1, <1>2 DEF Stored, Pending, Fails, Local!Clock
  <2>2. /\ Cardinality(Pending(t)') \in Nat /\ Cardinality(Pending(t)') <= Cardinality(Pending(t))
    BY <1>1, <2>1, CountedFinite, FS_Subset, FS_CardinalityType
  <2>3. /\ Cardinality(Stored(t)) \in Nat /\ Cardinality(Pending(t)) \in Nat
        /\ Cardinality(Client) \in Nat
    BY <1>1, CountedFinite, FS_CardinalityType, LoginAssumption
  <2>. QED BY <2>1, <2>2, <2>3, LoginAssumption DEF LoginInv, AddressOK
<1>4. \A n \in DOMAIN failures : failures[n] \in Nat
  <2>1. Local!Clock \subseteq Nat /\ \A n \in DOMAIN failures : failures[n] \in Local!Clock
    BY <1>1, LoginAssumption DEF Local!Clock
  <2>. QED BY <2>1
<1>5. \A d \in Client : client[d].at \in Fails =>
        client[d].read \in Local!Clock /\ client[d].read <= clock'
  BY <1>1, <1>2 DEF LoginInv, AddressOK, Local!Clock
<1>. QED BY <1>1, <1>2, <1>3, <1>4, <1>5 DEF LoginInv, AddressOK

(***************************************************************************)
(* The sessions.                                                            *)
(***************************************************************************)

(* A request moves and no session does.  A transaction begins to end sessions    *)
(* only with the lock, and covers every session it does not keep.                *)
LEMMA SessionsKept ==
  ASSUME LoginInv, NEW c \in Client, NEW new \in Clients,
         client' = [client EXCEPT ![c] = new], UNCHANGED <<session, endings>>,
         new.seen <= endings,
         new.at \in {"refresh", "acting"} => new.session \in DOMAIN session,
         new.at \in Ends =>
           /\ endings < MaxEndings /\ \A d \in Client : client[d].at \notin Ends
           /\ \A s \in DOMAIN session :
                session[s].revoked \/ s \in new.revoke \/ s = new.session
  PROVE  SessionsOK'
<1>1. /\ client'[c] = new /\ \A d \in Client : d # c => client'[d] = client[d]
  BY ClientMoves DEF LoginInv
<1>2. \A s \in DOMAIN session : SessionOK(session[s])'
  BY DEF LoginInv, SessionsOK, SessionOK
<1>3. ASSUME NEW d \in Client
      PROVE  (/\ client[d].seen <= endings
              /\ client[d].at \in {"refresh", "acting"} => client[d].session \in DOMAIN session
              /\ client[d].at \in Ends =>
                   /\ endings < MaxEndings /\ Covers(d)
                   /\ \A e \in Client : client[e].at \in Ends => e = d)'
  <2>1. CASE d = c
    BY <1>1, <2>1 DEF Covers
  <2>2. CASE d # c
    BY <1>1, <2>2 DEF LoginInv, SessionsOK, Covers
  <2>. QED BY <2>1, <2>2
<1>. QED BY <1>2, <1>3 DEF SessionsOK

(* A session of a request changes: its idle end moves, or it is revoked.        *)
LEMMA SessionChanges ==
  ASSUME LoginInv, NEW c \in Client, NEW new \in Clients, NEW s \in DOMAIN session,
         NEW row \in SessionRows,
         client' = [client EXCEPT ![c] = new], session' = [session EXCEPT ![s] = row],
         UNCHANGED endings, new.seen <= endings, new.at \notin Ends, client[c].at \notin Ends,
         new.at \in {"refresh", "acting"} => new.session \in DOMAIN session,
         row.idle <= row.absolute, row.seen = session[s].seen, row.raced = session[s].raced,
         row.kept = session[s].kept, session[s].revoked => row.revoked
  PROVE  /\ SessionsOK' /\ session' \in Seq(SessionRows) /\ Len(session') = Len(session)
<1>1. session \in Seq(SessionRows)
  BY LoginTypes DEF LoginInv
<1>2. /\ client'[c] = new /\ \A d \in Client : d # c => client'[d] = client[d]
  BY ClientMoves DEF LoginInv
<1>3. /\ session' \in Seq(SessionRows) /\ DOMAIN session' = DOMAIN session
      /\ Len(session') = Len(session)
      /\ session'[s] = row /\ \A r \in DOMAIN session : r # s => session'[r] = session[r]
  BY <1>1
<1>4. \A r \in DOMAIN session' : SessionOK(session[r])'
  <2>1. SessionOK(session[s])'
    BY <1>3 DEF LoginInv, SessionsOK, SessionOK
  <2>2. ASSUME NEW r \in DOMAIN session, r # s PROVE SessionOK(session[r])'
    BY <1>3, <2>2 DEF LoginInv, SessionsOK, SessionOK
  <2>. QED BY <1>3, <2>1, <2>2
<1>5. ASSUME NEW d \in Client
      PROVE  (/\ client[d].seen <= endings
              /\ client[d].at \in {"refresh", "acting"} => client[d].session \in DOMAIN session
              /\ client[d].at \in Ends =>
                   /\ endings < MaxEndings /\ Covers(d)
                   /\ \A e \in Client : client[e].at \in Ends => e = d)'
  <2>1. CASE d = c
    BY <1>2, <1>3, <2>1
  <2>2. CASE d # c
    <3>1. client'[d] = client[d] /\ \A e \in Client : client'[e].at \in Ends => client[e].at \in Ends
      BY <1>2, <2>2
    <3>2. Covers(d) => Covers(d)'
      BY <1>3, <3>1 DEF Covers
    <3>. QED BY <1>3, <3>1, <3>2 DEF LoginInv, SessionsOK
  <2>. QED BY <2>1, <2>2
<1>. QED BY <1>3, <1>4, <1>5 DEF SessionsOK

(* createSession: a session that comes while another request ends them is raced. *)
LEMMA SessionOpened ==
  ASSUME LoginInv, NEW c \in Client, Local!CreateSession(c)
  PROVE  LoginInv'
<1>. DEFINE t == client[c].read
            row == [idle |-> t + Idle, absolute |-> t + Maximum,
                    revoked |-> FALSE, seen |-> client[c].seen, kept |-> FALSE,
                    raced |-> client[c].seen # endings \/ Local!AccountLocked]
            k == Len(session) + 1
<1>1. /\ session \in Seq(SessionRows) /\ client \in [Client -> Clients] /\ endings \in 0 .. MaxEndings
      /\ Len(session) < MaxSessions /\ client[c].at = "open" /\ session' = Append(session, row)
      /\ client' = [client EXCEPT ![c] = Local!Ready]
      /\ UNCHANGED <<account, failures, endings, clock>>
  BY LoginTypes DEF LoginInv, Local!CreateSession, Local!Done, Local!At
<1>2. t \in 0 .. MaxClock /\ client[c].seen \in Nat /\ client[c].seen <= endings
  BY <1>1, LoginAssumption DEF Clients, Local!Clock, LoginInv, SessionsOK
<1>3. /\ row.idle <= row.absolute /\ row.seen = client[c].seen
      /\ row.idle \in Local!Time /\ row.absolute \in Local!Time
      /\ row.idle = t + Idle /\ row.absolute = t + Maximum
  BY <1>2, LoginAssumption DEF Local!Time
<1>4. row.raced \in BOOLEAN /\ row.revoked = FALSE /\ row.kept = FALSE
      /\ (client[c].seen # endings => row.raced)
      /\ ((\E d \in Client : client[d].at \in Ends) => row.raced)
  BY DEF Local!AccountLocked, Local!Ending, Ends
<1>5. row \in SessionRows
  <2>. DEFINE raced == client[c].seen # endings \/ Local!AccountLocked
              idle == t + Idle
              absolute == t + Maximum
  <2>1. raced \in BOOLEAN /\ idle \in Local!Time /\ absolute \in Local!Time
    BY <1>3
  <2>2. row = [idle |-> idle, absolute |-> absolute, revoked |-> FALSE, seen |-> client[c].seen,
               kept |-> FALSE, raced |-> raced]
    OBVIOUS
  <2>. HIDE DEF raced, idle, absolute, row
  <2>. QED BY <1>2, <2>1, <2>2 DEF SessionRows
<1>. HIDE DEF row
<1>6. /\ session' \in Seq(SessionRows) /\ DOMAIN session' = DOMAIN session \cup {k}
      /\ Len(session') = k /\ k <= MaxSessions
      /\ session'[k] = row /\ k \notin DOMAIN session
      /\ \A s \in DOMAIN session : session'[s] = session[s]
  BY <1>1, <1>5, LoginAssumption
<1>. HIDE DEF k
<1>7. /\ client' \in [Client -> Clients] /\ client'[c] = Local!Ready
      /\ \A d \in Client : d # c => client'[d] = client[d]
  BY <1>1, ReadyTyped, ClientMoves DEF LoginInv
<1>8. Local!TypeOK'
  BY <1>1, <1>6, <1>7, LoginTypes DEF LoginInv, Local!TypeOK, SessionRows, Clients
<1>9. AddressOK'
  BY <1>1, ReadyTyped, AddressKept DEF Fails
<1>10. ASSUME NEW s \in DOMAIN session' PROVE SessionOK(session[s])'
  <2>1. CASE s = k
    BY <1>1, <1>2, <1>3, <1>4, <1>6, <2>1 DEF SessionOK
  <2>2. CASE s # k
    BY <1>1, <1>6, <2>2 DEF LoginInv, SessionsOK, SessionOK
  <2>. QED BY <2>1, <2>2
<1>11. ASSUME NEW d \in Client
      PROVE  (/\ client[d].seen <= endings
              /\ client[d].at \in {"refresh", "acting"} => client[d].session \in DOMAIN session
              /\ client[d].at \in Ends =>
                   /\ endings < MaxEndings /\ Covers(d)
                   /\ \A e \in Client : client[e].at \in Ends => e = d)'
  <2>1. CASE d = c
    BY <1>1, <1>7, <2>1, ReadyTyped DEF Ends
  <2>2. CASE d # c
    <3>1. client'[d] = client[d] /\ \A e \in Client : client'[e].at \in Ends => client[e].at \in Ends
      BY <1>7, <2>2, ReadyTyped DEF Ends
    <3>2. client[d].at \in Ends => Covers(d)'
      BY <1>4, <1>6, <3>1 DEF Covers, LoginInv, SessionsOK
    <3>. QED BY <1>1, <1>6, <3>1, <3>2 DEF LoginInv, SessionsOK
  <2>. QED BY <2>1, <2>2
<1>. QED BY <1>8, <1>9, <1>10, <1>11 DEF LoginInv, SessionsOK

(* A transaction that ends sessions commits.                                   *)
LEMMA EndingCommits ==
  ASSUME LoginInv, NEW c \in Client, Local!CommitEnding(c)
  PROVE  LoginInv'
<1>. DEFINE old == client[c].revoke
            own == client[c].session
            new(s) == [session[s] EXCEPT !.revoked = session[s].revoked \/ s \in old,
                                         !.kept = session[s].kept \/ s = own]
<1>1. /\ session \in Seq(SessionRows) /\ client \in [Client -> Clients] /\ endings \in 0 .. MaxEndings
      /\ account \in AccountRows /\ Len(session) <= MaxSessions
      /\ client[c].at \in Ends /\ endings' = endings + 1
      /\ client' = [client EXCEPT ![c] = Local!Ready]
      /\ UNCHANGED <<failures, clock>>
  BY LoginTypes DEF LoginInv, Local!CommitEnding, Local!Done, Local!Ending, Ends
<1>2. session' = [s \in DOMAIN session |-> new(s)]
  BY DEF Local!CommitEnding
<1>3. ASSUME NEW s \in DOMAIN session
      PROVE  /\ new(s) \in SessionRows
             /\ new(s).idle = session[s].idle /\ new(s).absolute = session[s].absolute
             /\ new(s).seen = session[s].seen /\ new(s).raced = session[s].raced
             /\ new(s).revoked = (session[s].revoked \/ s \in old)
             /\ new(s).kept = (session[s].kept \/ s = own)
  <2>. DEFINE rev == session[s].revoked \/ s \in old
              kept == session[s].kept \/ s = own
  <2>1. session[s] \in SessionRows /\ rev \in BOOLEAN /\ kept \in BOOLEAN
    BY <1>1
  <2>. HIDE DEF rev, kept
  <2>2. /\ [session[s] EXCEPT !.revoked = rev, !.kept = kept] \in SessionRows
        /\ [session[s] EXCEPT !.revoked = rev, !.kept = kept].idle = session[s].idle
        /\ [session[s] EXCEPT !.revoked = rev, !.kept = kept].absolute = session[s].absolute
        /\ [session[s] EXCEPT !.revoked = rev, !.kept = kept].seen = session[s].seen
        /\ [session[s] EXCEPT !.revoked = rev, !.kept = kept].raced = session[s].raced
        /\ [session[s] EXCEPT !.revoked = rev, !.kept = kept].revoked = rev
        /\ [session[s] EXCEPT !.revoked = rev, !.kept = kept].kept = kept
    BY <2>1 DEF SessionRows
  <2>. QED BY Zenon, <2>2 DEF rev, kept
<1>. HIDE DEF new, old, own
<1>4. /\ session' \in Seq(SessionRows) /\ Len(session') = Len(session)
      /\ DOMAIN session' = DOMAIN session /\ \A s \in DOMAIN session : session'[s] = new(s)
  BY <1>1, <1>2, <1>3
<1>5. /\ client' \in [Client -> Clients] /\ client'[c] = Local!Ready
      /\ \A d \in Client : d # c => client'[d] = client[d]
  BY <1>1, ReadyTyped, ClientMoves DEF LoginInv
<1>6. /\ endings < MaxEndings /\ Covers(c) /\ \A d \in Client : client[d].at \in Ends => d = c
  BY <1>1 DEF LoginInv, SessionsOK
<1>7. endings' \in 0 .. MaxEndings /\ endings \in Nat
  BY <1>1, <1>6, LoginAssumption
<1>8. account' \in AccountRows
  <2>1. account' \in {account, [failed |-> 0, lockedUntil |-> 0,
                                active |-> account.active /\ client[c].at = "resetting"]}
    BY DEF Local!CommitEnding, Local!At
  <2>2. (account.active /\ client[c].at = "resetting") \in BOOLEAN
    OBVIOUS
  <2>3. 0 \in Local!Time
    BY LoginAssumption DEF Local!Time
  <2>4. [failed |-> 0, lockedUntil |-> 0,
         active |-> account.active /\ client[c].at = "resetting"] \in AccountRows
    BY Zenon, <2>2, <2>3 DEF AccountRows
  <2>. QED BY <1>1, <2>1, <2>4
<1>9. Local!TypeOK'
  BY <1>1, <1>4, <1>5, <1>7, <1>8 DEF LoginInv, Local!TypeOK, SessionRows, Clients, AccountRows
<1>10. AddressOK'
  BY <1>1, ReadyTyped, AddressKept DEF Fails
<1>11. ASSUME NEW s \in DOMAIN session' PROVE SessionOK(session[s])'
  <2>1. SessionOK(session[s]) /\ session'[s] = new(s) /\ session[s].seen \in Nat
    <3>1. s \in DOMAIN session /\ session'[s] = new(s)
      BY <1>4
    <3>2. session[s] \in SessionRows
      BY <1>1, <3>1
    <3>3. session[s].seen \in Nat
      BY <3>2 DEF SessionRows
    <3>. QED BY <3>1, <3>3 DEF LoginInv, SessionsOK
  <2>2. session[s].revoked \/ s \in old \/ s = own \/ session[s].raced
    BY <1>4, <1>6 DEF Covers, old, own
  <2>3. /\ new(s).idle = session[s].idle /\ new(s).absolute = session[s].absolute
        /\ new(s).seen = session[s].seen /\ new(s).raced = session[s].raced
        /\ new(s).revoked = (session[s].revoked \/ s \in old)
        /\ new(s).kept = (session[s].kept \/ s = own)
    BY <1>3, <1>4
  <2>4. new(s).idle <= new(s).absolute /\ new(s).seen <= endings'
    BY <1>1, <1>7, <2>1, <2>3 DEF SessionOK
  <2>5. ~new(s).revoked => new(s).kept \/ new(s).raced
    BY <2>2, <2>3
  <2>. QED BY <2>1, <2>4, <2>5 DEF SessionOK
<1>12. ASSUME NEW d \in Client
       PROVE  (/\ client[d].seen <= endings
               /\ client[d].at \in {"refresh", "acting"} => client[d].session \in DOMAIN session
               /\ client[d].at \notin Ends)'
  <2>1. CASE d = c
    BY <1>5, <1>7, <2>1, ReadyTyped DEF Ends
  <2>2. CASE d # c
    <3>1. client'[d] = client[d] /\ client[d].at \notin Ends /\ client[d].seen <= endings
          /\ client[d].seen \in Nat
      BY <1>1, <1>5, <1>6, <2>2 DEF LoginInv, SessionsOK, Clients
    <3>2. client[d].at \in {"refresh", "acting"} => client[d].session \in DOMAIN session
      BY DEF LoginInv, SessionsOK
    <3>. QED BY <1>1, <1>4, <1>7, <3>1, <3>2
  <2>. QED BY <2>1, <2>2
<1>. QED BY <1>9, <1>10, <1>11, <1>12 DEF LoginInv, SessionsOK

(* A request moves, and only its own state and the account's row.              *)
LEMMA OneRequestMoves ==
  ASSUME LoginInv, NEW c \in Client, NEW new \in Clients,
         client' = [client EXCEPT ![c] = new], UNCHANGED <<failures, session, endings, clock>>,
         account' \in AccountRows,
         \/ new.at \notin Fails \cup {"checked"}
         \/ new.at \in Fails /\ client[c].at = "checked" /\ new.read = clock,
         new.seen <= endings,
         new.at \in {"refresh", "acting"} => new.session \in DOMAIN session,
         new.at \in Ends =>
           /\ endings < MaxEndings /\ \A d \in Client : client[d].at \notin Ends
           /\ \A s \in DOMAIN session :
                session[s].revoked \/ s \in new.revoke \/ s = new.session
  PROVE  LoginInv'
<1>1. client' \in [Client -> Clients]
  BY ClientMoves DEF LoginInv
<1>2. Local!TypeOK'
  BY <1>1 DEF LoginInv, Local!TypeOK, Clients, AccountRows
<1>3. AddressOK' /\ SessionsOK'
  BY AddressKept, SessionsKept
<1>. QED BY <1>2, <1>3 DEF LoginInv

(* The account's row alone is written.                                         *)
LEMMA AccountWritten ==
  ASSUME LoginInv, account' \in AccountRows, UNCHANGED <<failures, session, client, endings, clock>>
  PROVE  LoginInv'
BY DEF LoginInv, Local!TypeOK, AccountRows, AddressOK, SessionsOK, SessionOK, Stored, Pending, Covers

(* What the actions write to the account.                                      *)
Cleared(row) == [row EXCEPT !.failed = 0, !.lockedUntil = 0]
Failed(row, n, until) == [row EXCEPT !.failed = n, !.lockedUntil = until]

LEMMA AccountRowsTyped ==
  ASSUME NEW row \in AccountRows
  PROVE  /\ Cleared(row) \in AccountRows
         /\ [row EXCEPT !.active = TRUE] \in AccountRows
         /\ \A n \in Nat, until \in Local!Time : Failed(row, n, until) \in AccountRows
<1>1. 0 \in Local!Time
  BY LoginAssumption DEF Local!Time
<1>2. Cleared(row) \in AccountRows /\ [row EXCEPT !.active = TRUE] \in AccountRows
  BY <1>1 DEF Cleared, AccountRows
<1>3. ASSUME NEW n \in Nat, NEW until \in Local!Time PROVE Failed(row, n, until) \in AccountRows
  BY DEF Failed, AccountRows
<1>. QED BY <1>2, <1>3

LEMMA LoginAttempts ==
  ASSUME LoginInv, NEW c \in Client,
         \/ Local!CheckAddress(c) \/ Local!Authenticate(c) \/ Local!AuthenticateUnknown(c)
         \/ Local!ClearFailures(c)
  PROVE  LoginInv'
<1>0. /\ account \in AccountRows /\ client \in [Client -> Clients] /\ endings \in 0 .. MaxEndings
      /\ clock \in Local!Clock /\ endings \in Nat /\ account.failed \in Nat
      /\ client[c].seen <= endings /\ 0 <= endings /\ endings <= endings
  BY LoginTypes, LoginAssumption DEF LoginInv, AccountRows, SessionsOK
<1>1. CASE Local!CheckAddress(c)
  <2>1. /\ client' = [client EXCEPT ![c] = StepTo(client[c], "checked")]
        /\ UNCHANGED <<account, failures, session, endings, clock>>
    BY <1>1, <1>0 DEF Local!CheckAddress, Local!Go, StepTo
  <2>2. /\ StepTo(client[c], "checked") \in Clients /\ StepTo(client[c], "checked").at = "checked"
        /\ StepTo(client[c], "checked").seen = client[c].seen
    BY <1>0, StepTyped DEF Local!Step
  <2>3. client' \in [Client -> Clients]
    BY <2>1, <2>2, ClientMoves DEF LoginInv
  <2>4. Local!TypeOK'
    BY <2>1, <2>3 DEF LoginInv, Local!TypeOK, Clients
  <2>5. SessionsOK'
    BY <1>0, <2>1, <2>2, SessionsKept DEF Ends
  <2>. QED BY <1>1, <2>4, <2>5, AddressChecked DEF LoginInv
<1>2. CASE Local!Authenticate(c)
  <2>1. UNCHANGED <<account, failures, session, endings, clock>> /\ client[c].at = "checked"
    BY <1>2 DEF Local!Authenticate, Local!At
  <2>2. CASE account.active /\ clock >= account.lockedUntil
    <3>1. PICK step \in {"fail", "reset"} :
            client' = [client EXCEPT ![c] =
              Tried(Local!Ready, step, clock, account.failed, endings)]
      BY <1>2, <2>2 DEF Local!Authenticate, Tried
    <3>. DEFINE new == Tried(Local!Ready, step, clock, account.failed, endings)
    <3>2. /\ new \in Clients /\ new.at = step /\ new.read = clock /\ new.seen = endings
      <4>1. step \in Local!Step /\ Local!Ready \in Clients
        BY ReadyTyped DEF Local!Step
      <4>. QED BY <1>0, <4>1, TriedTyped
    <3>. HIDE DEF new
    <3>3. client' = [client EXCEPT ![c] = new]
      BY <3>1 DEF new
    <3>. QED BY <1>0, <2>1, <3>2, <3>3, OneRequestMoves DEF Fails, Ends
  <2>3. CASE ~(account.active /\ clock >= account.lockedUntil)
    <3>1. client' = [client EXCEPT ![c] = Local!Ready]
      BY <1>2, <2>3 DEF Local!Authenticate, Local!Done
    <3>. QED BY <1>0, <2>1, <3>1, ReadyTyped, OneRequestMoves DEF Fails, Ends
  <2>. QED BY <2>2, <2>3
<1>3. CASE Local!AuthenticateUnknown(c)
  <2>. DEFINE new == TriedUnknown(Local!Ready, clock)
  <2>1. /\ UNCHANGED <<account, failures, session, endings, clock>> /\ client[c].at = "checked"
        /\ client' = [client EXCEPT ![c] = new]
    BY <1>3 DEF Local!AuthenticateUnknown, Local!At, TriedUnknown
  <2>2. new \in Clients /\ new.at = "failUnknown" /\ new.read = clock /\ new.seen = 0
    BY <1>0, UnknownTyped, ReadyTyped
  <2>. HIDE DEF new
  <2>. QED BY <1>0, <2>1, <2>2, OneRequestMoves DEF Fails, Ends
<1>4. CASE Local!ClearFailures(c)
  <2>1. /\ client' = [client EXCEPT ![c] = StepTo(client[c], "open")] /\ account' = Cleared(account)
        /\ UNCHANGED <<failures, session, endings, clock>>
    BY <1>0, <1>4 DEF Local!ClearFailures, Local!Go, StepTo, Cleared
  <2>2. /\ StepTo(client[c], "open") \in Clients /\ StepTo(client[c], "open").at = "open"
        /\ StepTo(client[c], "open").seen = client[c].seen
    BY <1>0, StepTyped DEF Local!Step
  <2>. QED BY <1>0, <2>1, <2>2, AccountRowsTyped, OneRequestMoves DEF Fails, Ends
<1>. QED BY <1>1, <1>2, <1>3, <1>4

LEMMA LoginFails ==
  ASSUME LoginInv, NEW c \in Client, Local!RecordFailure(c) \/ Local!RecordUnknown(c)
  PROVE  LoginInv'
<1>1. /\ account \in AccountRows /\ client \in [Client -> Clients] /\ endings \in 0 .. MaxEndings
      /\ endings \in Nat /\ 0 <= endings
  BY LoginTypes, LoginAssumption DEF LoginInv
<1>2. /\ client[c].at \in Fails /\ failures' = Append(failures, client[c].read)
      /\ client' = [client EXCEPT ![c] = Local!Ready] /\ UNCHANGED <<session, endings, clock>>
  BY DEF Local!RecordFailure, Local!RecordUnknown, Local!Done, Local!At, Fails
<1>3. account' \in AccountRows
  <2>1. CASE Local!RecordFailure(c)
    <3>. DEFINE n == client[c].failed + 1
                until == IF n >= Threshold THEN client[c].read + LockTime ELSE 0
    <3>1. n \in Nat /\ until \in Local!Time
      BY <1>1, <1>2, LoginAssumption DEF LoginInv, AddressOK, Clients, Local!Time, Local!Clock
    <3>2. account' = Failed(account, n, until)
      BY <1>1, <2>1 DEF Local!RecordFailure, Failed
    <3>. HIDE DEF n, until
    <3>. QED BY <1>1, <3>1, <3>2, AccountRowsTyped
  <2>2. CASE Local!RecordUnknown(c)
    BY <1>1, <2>2 DEF Local!RecordUnknown
  <2>. QED BY <2>1, <2>2
<1>4. AddressOK' /\ failures' \in Seq(Local!Clock)
  BY <1>2, AddressStores
<1>5. SessionsOK'
  BY <1>1, <1>2, ReadyTyped, SessionsKept DEF Ends
<1>6. client' \in [Client -> Clients]
  BY <1>2, ReadyTyped, ClientMoves DEF LoginInv
<1>7. Local!TypeOK'
  BY <1>2, <1>3, <1>4, <1>6 DEF LoginInv, Local!TypeOK, Clients, AccountRows
<1>. QED BY <1>4, <1>5, <1>7 DEF LoginInv

LEMMA LoginResumes ==
  ASSUME LoginInv, NEW c \in Client,
         (\E s \in Local!Session : Local!Principal(c, s)) \/ Local!VerifyCurrent(c)
  PROVE  LoginInv'
<1>0. /\ account \in AccountRows /\ client \in [Client -> Clients] /\ endings \in 0 .. MaxEndings
      /\ clock \in Local!Clock /\ endings \in Nat /\ client[c].seen <= endings /\ 0 <= endings
  BY LoginTypes, LoginAssumption DEF LoginInv, SessionsOK
<1>1. ASSUME NEW s \in Local!Session, Local!Principal(c, s) PROVE LoginInv'
  <2>. DEFINE new == Resumed(Local!Ready, clock, s)
  <2>1. /\ UNCHANGED <<account, failures, session, endings, clock>> /\ s \in DOMAIN session
        /\ client' = [client EXCEPT ![c] = new]
    BY <1>1 DEF Local!Principal, Resumed
  <2>2. new \in Clients /\ new.at = "refresh" /\ new.session = s /\ new.seen = 0
    BY <1>0, ResumedTyped, ReadyTyped
  <2>. HIDE DEF new
  <2>. QED BY <1>0, <2>1, <2>2, OneRequestMoves DEF Fails, Ends
<1>2. CASE Local!VerifyCurrent(c)
  <2>1. /\ client' = [client EXCEPT ![c] = StepTo(client[c], "change")]
        /\ UNCHANGED <<account, failures, session, endings, clock>>
    BY <1>0, <1>2 DEF Local!VerifyCurrent, Local!Go, StepTo
  <2>2. /\ StepTo(client[c], "change") \in Clients /\ StepTo(client[c], "change").at = "change"
        /\ StepTo(client[c], "change").seen = client[c].seen
    BY <1>0, StepTyped DEF Local!Step
  <2>. QED BY <1>0, <2>1, <2>2, OneRequestMoves DEF Fails, Ends
<1>. QED BY <1>1, <1>2

LEMMA LoginEnds ==
  ASSUME LoginInv, NEW c \in Client,
         Local!ChangePassword(c) \/ Local!StartReset(c) \/ Local!StartDeactivation(c)
  PROVE  LoginInv'
<1>0. /\ account \in AccountRows /\ client \in [Client -> Clients] /\ endings \in 0 .. MaxEndings
      /\ endings \in Nat /\ client[c].seen <= endings /\ 0 <= endings
      /\ session \in Seq(SessionRows) /\ Len(session) <= MaxSessions
  BY LoginTypes, LoginAssumption DEF LoginInv, SessionsOK
<1>1. Local!Unrevoked \in SUBSET Local!Session
  BY <1>0, LoginAssumption DEF Local!Unrevoked, Local!Session
<1>2. /\ endings < MaxEndings /\ \A d \in Client : client[d].at \notin Ends
      /\ UNCHANGED <<account, failures, session, endings, clock>>
  BY DEF Local!ChangePassword, Local!StartReset, Local!StartDeactivation, Local!AccountLocked,
     Local!Ending, Ends
<1>3. PICK b \in {client[c], Local!Ready}, step \in Ends :
        client' = [client EXCEPT ![c] = Revoking(b, step, Local!Unrevoked \ {b.session})]
  <2>1. CASE Local!ChangePassword(c)
    <3>1. client' = [client EXCEPT ![c] =
            Revoking(client[c], "changing", Local!Unrevoked \ {client[c].session})]
      BY <1>0, <2>1 DEF Local!ChangePassword, Revoking
    <3>. QED BY <3>1 DEF Ends
  <2>2. CASE Local!StartReset(c) \/ Local!StartDeactivation(c)
    <3>1. Local!Unrevoked \ {Local!Ready.session} = Local!Unrevoked
      BY <1>1, ReadyTyped DEF Local!Session
    <3>2. PICK step \in {"resetting", "deactivating"} :
            client' = [client EXCEPT ![c] = Revoking(Local!Ready, step, Local!Unrevoked)]
      BY <2>2 DEF Local!StartReset, Local!StartDeactivation, Revoking
    <3>. QED BY <3>1, <3>2 DEF Ends
  <2>. QED BY <2>1, <2>2
<1>. DEFINE new == Revoking(b, step, Local!Unrevoked \ {b.session})
<1>4. b \in Clients /\ b.seen <= endings
  BY <1>0, <1>3, ReadyTyped
<1>5. /\ new \in Clients /\ new.at = step /\ new.seen = b.seen /\ new.session = b.session
      /\ new.revoke = Local!Unrevoked \ {b.session}
  BY <1>1, <1>3, <1>4, RevokingTyped DEF Local!Step, Ends
<1>. HIDE DEF new
<1>6. client' = [client EXCEPT ![c] = new]
  BY <1>3 DEF new
<1>7. \A s \in DOMAIN session : session[s].revoked \/ s \in new.revoke \/ s = new.session
  BY <1>5 DEF Local!Unrevoked
<1>. QED BY <1>0, <1>2, <1>3, <1>4, <1>5, <1>6, <1>7, OneRequestMoves DEF Fails, Ends

LEMMA SessionTouched ==
  ASSUME LoginInv, NEW c \in Client, Local!Refresh(c) \/ Local!Logout(c)
  PROVE  LoginInv'
<1>. DEFINE s == client[c].session
            old == session[s]
<1>1. /\ session \in Seq(SessionRows) /\ client \in [Client -> Clients] /\ endings \in 0 .. MaxEndings
      /\ endings \in Nat /\ client[c].seen <= endings /\ 0 <= endings /\ client[c] \in Clients
  BY LoginTypes, LoginAssumption DEF LoginInv, SessionsOK
<1>2. client[c].at \in {"refresh", "acting"} /\ s \in DOMAIN session /\ old \in SessionRows
  <2>1. client[c].at \in {"refresh", "acting"}
    BY DEF Local!Refresh, Local!Logout, Local!At
  <2>. QED BY <1>1, <2>1 DEF LoginInv, SessionsOK
<1>3. SessionOK(old) /\ UNCHANGED <<account, failures, endings, clock>>
  BY <1>2 DEF LoginInv, SessionsOK, Local!Refresh, Local!Logout
<1>4. \E row \in SessionRows, new \in Clients :
        /\ client' = [client EXCEPT ![c] = new] /\ session' = [session EXCEPT ![s] = row]
        /\ new.seen <= endings /\ new.at \in {"idle", "acting"}
        /\ new.at = "acting" => new.session = s
        /\ row.idle <= row.absolute /\ row.seen = old.seen /\ row.raced = old.raced
        /\ row.kept = old.kept /\ (old.revoked => row.revoked)
  <2>1. CASE Local!Refresh(c)
    <3>. DEFINE idle == client[c].read + Idle
                end == IF idle > old.absolute THEN old.absolute ELSE idle
                row == [old EXCEPT !.idle = end]
                new == StepTo(client[c], "acting")
    <3>1. end \in Local!Time /\ end <= old.absolute
      <4>1. client[c].read \in 0 .. MaxClock /\ old.absolute \in Local!Time
        BY <1>1, <1>2, LoginAssumption DEF Clients, SessionRows, Local!Clock
      <4>2. idle \in Local!Time
        BY <4>1, LoginAssumption DEF Local!Time
      <4>. QED BY <4>1, <4>2, LoginAssumption DEF Local!Time
    <3>2. client' = [client EXCEPT ![c] = new] /\ session' = [session EXCEPT ![s] = row]
      BY <1>1, <1>2, <2>1 DEF Local!Refresh, Local!Go, StepTo
    <3>. HIDE DEF end
    <3>3. /\ row \in SessionRows /\ row.idle = end /\ row.absolute = old.absolute
          /\ row.seen = old.seen /\ row.raced = old.raced /\ row.kept = old.kept
          /\ row.revoked = old.revoked
      BY <1>2, <3>1 DEF SessionRows
    <3>4. new \in Clients /\ new.at = "acting" /\ new.seen = client[c].seen /\ new.session = s
      BY <1>1, StepTyped DEF Local!Step
    <3>. HIDE DEF row, new
    <3>. QED BY <1>1, <3>1, <3>2, <3>3, <3>4
  <2>2. CASE Local!Logout(c)
    <3>. DEFINE row == [old EXCEPT !.revoked = TRUE]
    <3>1. client' = [client EXCEPT ![c] = Local!Ready] /\ session' = [session EXCEPT ![s] = row]
      BY <1>1, <1>2, <2>2 DEF Local!Logout, Local!Done
    <3>2. /\ row \in SessionRows /\ row.idle = old.idle /\ row.absolute = old.absolute
          /\ row.seen = old.seen /\ row.raced = old.raced /\ row.kept = old.kept /\ row.revoked
      BY <1>2 DEF SessionRows
    <3>. HIDE DEF row
    <3>. QED BY <1>1, <1>3, <3>1, <3>2, ReadyTyped DEF SessionOK
  <2>. QED BY <2>1, <2>2
<1>5. PICK row \in SessionRows, new \in Clients :
        /\ client' = [client EXCEPT ![c] = new] /\ session' = [session EXCEPT ![s] = row]
        /\ new.seen <= endings /\ new.at \in {"idle", "acting"}
        /\ new.at = "acting" => new.session = s
        /\ row.idle <= row.absolute /\ row.seen = old.seen /\ row.raced = old.raced
        /\ row.kept = old.kept /\ (old.revoked => row.revoked)
  BY <1>4
<1>6. SessionsOK' /\ session' \in Seq(SessionRows) /\ Len(session') = Len(session)
  BY <1>2, <1>3, <1>5, SessionChanges DEF Ends
<1>7. AddressOK'
  BY <1>3, <1>5, AddressKept DEF Fails
<1>8. client' \in [Client -> Clients]
  BY <1>5, ClientMoves DEF LoginInv
<1>9. Local!TypeOK'
  BY <1>3, <1>6, <1>8 DEF LoginInv, Local!TypeOK, Clients, SessionRows
<1>. QED BY <1>6, <1>7, <1>9 DEF LoginInv

LEMMA LoginStep ==
  ASSUME LoginInv, [Local!Next]_ofLocal
  PROVE  LoginInv'
<1>0. account \in AccountRows
  BY LoginTypes DEF LoginInv
<1>1. CASE UNCHANGED ofLocal
  BY <1>0, <1>1, AccountWritten DEF ofLocal
<1>2. CASE Local!Activate \/ Local!Unlock
  <2>1. /\ account' \in {[account EXCEPT !.active = TRUE], Cleared(account)}
        /\ UNCHANGED <<failures, session, client, endings, clock>>
    BY <1>2 DEF Local!Activate, Local!Unlock, Cleared
  <2>. QED BY <1>0, <2>1, AccountRowsTyped, AccountWritten
<1>3. CASE Local!Tick
  <2>1. UNCHANGED <<account, failures, session, client, endings>>
    BY <1>3 DEF Local!Tick
  <2>2. SessionsOK'
    BY <2>1 DEF LoginInv, SessionsOK, SessionOK, Covers
  <2>3. AddressOK' /\ clock' \in Local!Clock
    BY <1>3, AddressTicks
  <2>4. Local!TypeOK'
    BY <2>1, <2>3 DEF LoginInv, Local!TypeOK
  <2>. QED BY <2>2, <2>3, <2>4 DEF LoginInv
<1>. QED BY <1>1, <1>2, <1>3, LoginAttempts, LoginFails, SessionOpened, LoginResumes, LoginEnds,
     SessionTouched, EndingCommits DEF Local!Next

LEMMA LoginIsSafe ==
  ASSUME LoginInv
  PROVE  Local!AddressBound /\ Local!EarlierSessionsEnd /\ Local!AbsoluteEnd
<1>1. ASSUME NEW t \in Local!Clock
      PROVE  Local!FailuresWithin(t) < IpThreshold + Local!Cardinality(Client)
  <2>1. failures \in Seq(Local!Clock)
    BY LoginTypes DEF LoginInv
  <2>2. Local!FailuresWithin(t) = Cardinality(Stored(t)) /\ Local!Cardinality(Client) = Cardinality(Client)
    BY LocalCount DEF Local!FailuresWithin, Stored
  <2>3. /\ Cardinality(Stored(t)) \in Nat /\ Cardinality(Pending(t)) \in Nat
        /\ Cardinality(Client) \in Nat
    BY <2>1, CountedFinite, FS_CardinalityType, LoginAssumption
  <2>. QED BY <2>2, <2>3, LoginAssumption DEF LoginInv, AddressOK
<1>2. Local!EarlierSessionsEnd /\ Local!AbsoluteEnd
  BY DEF LoginInv, SessionsOK, SessionOK, Local!EarlierSessionsEnd, Local!AbsoluteEnd
<1>. QED BY <1>1, <1>2 DEF Local!AddressBound

-----------------------------------------------------------------------------
(***************************************************************************)
(* The users table (httpapi/users.go, auth/oidc.go).                        *)
(***************************************************************************)

Rows == [state : {"absent", "live", "deleted"}, active : BOOLEAN, super : BOOLEAN,
         local : SUBSET Users!Role, keycloak : SUBSET Users!Role]
Changes == [at : {"idle", "update", "delete", "login", "synced"}, user : User,
            active : BOOLEAN, super : BOOLEAN, roles : SUBSET Users!Role, replace : BOOLEAN]

(* What a request that is about to write has read of the account stays so: a    *)
(* row never goes, and roles from Keycloak are only replaced by others.         *)
PendingOK(w) ==
  /\ w.at # "idle" => user[w.user].state # "absent"
  /\ w.at = "update" /\ w.replace => w.roles # {} \/ user[w.user].keycloak # {}
  /\ w.at \in {"login", "synced"} => w.roles # {}

UsersInv ==
  /\ Users!TypeOK
  /\ \A c \in Change : PendingOK(change[c])
  /\ Users!EveryAccountHasRole /\ Users!DeletedStaysInactive

LEMMA UsersTypes ==
  ASSUME UsersInv
  PROVE  user \in [User -> Rows] /\ change \in [Change -> Changes]
BY DEF UsersInv, Users!TypeOK, Rows, Changes

LEMMA NobodyTyped ==
  Users!Nobody \in Changes /\ Users!Nobody.at = "idle"
BY AccountAssumption DEF Users!Nobody, Changes

(* The rows and the requests that actions write.                               *)
Founded == [Users!Absent EXCEPT !.state = "live", !.active = TRUE, !.super = TRUE,
                                !.local = {SuperAdmin}]
Created(roles, super) == [Users!Absent EXCEPT !.state = "live", !.active = TRUE,
                     !.super = super, !.local = roles]
Provisioned(roles, super) == [Users!Absent EXCEPT !.state = "live", !.active = TRUE,
                     !.super = super, !.keycloak = roles]
Deleting(u) == [Users!Nobody EXCEPT !.at = "delete", !.user = u]
LoggingIn(u, roles) == [Users!Nobody EXCEPT !.at = "login", !.user = u, !.roles = roles]

LEMMA RowsTyped ==
  /\ Users!Absent \in Rows /\ Users!Absent.state = "absent"
  /\ Founded \in Rows /\ Founded.state = "live" /\ Founded.local # {}
  /\ \A roles \in SUBSET Users!Role, super \in BOOLEAN :
       /\ Created(roles, super) \in Rows /\ Created(roles, super).state = "live"
       /\ Created(roles, super).local = roles
       /\ Provisioned(roles, super) \in Rows /\ Provisioned(roles, super).state = "live"
       /\ Provisioned(roles, super).keycloak = roles
<1>1. Users!Absent \in Rows /\ Users!Absent.state = "absent"
  BY DEF Users!Absent, Rows
<1>2. Founded \in Rows /\ Founded.state = "live" /\ Founded.local # {}
  BY DEF Founded, Users!Absent, Rows, Users!Role
<1>3. ASSUME NEW roles \in SUBSET Users!Role, NEW super \in BOOLEAN
      PROVE  /\ Created(roles, super) \in Rows /\ Created(roles, super).state = "live"
             /\ Created(roles, super).local = roles
  BY DEF Created, Users!Absent, Rows
<1>4. ASSUME NEW roles \in SUBSET Users!Role, NEW super \in BOOLEAN
      PROVE  /\ Provisioned(roles, super) \in Rows /\ Provisioned(roles, super).state = "live"
             /\ Provisioned(roles, super).keycloak = roles
  BY DEF Provisioned, Users!Absent, Rows
<1>. QED BY <1>1, <1>2, <1>3, <1>4

LEMMA ChangesTyped ==
  ASSUME NEW u \in User, NEW roles \in SUBSET Users!Role
  PROVE  /\ Deleting(u) \in Changes /\ Deleting(u).at = "delete" /\ Deleting(u).user = u
         /\ LoggingIn(u, roles) \in Changes /\ LoggingIn(u, roles).at = "login"
         /\ LoggingIn(u, roles).user = u /\ LoggingIn(u, roles).roles = roles
<1>1. Deleting(u) \in Changes /\ Deleting(u).at = "delete" /\ Deleting(u).user = u
  BY NobodyTyped DEF Deleting, Changes
<1>2. /\ LoggingIn(u, roles) \in Changes /\ LoggingIn(u, roles).at = "login"
      /\ LoggingIn(u, roles).user = u /\ LoggingIn(u, roles).roles = roles
  BY NobodyTyped DEF LoggingIn, Changes
<1>. QED BY <1>1, <1>2

LEMMA UsersInitial ==
  ASSUME Users!Init
  PROVE  UsersInv
<1>1. user = [u \in User |-> IF u \in Founder THEN Founded ELSE Users!Absent]
      /\ change = [c \in Change |-> Users!Nobody]
  BY DEF Users!Init, Founded
<1>2. Users!TypeOK
  <2>1. user \in [User -> Rows] /\ change \in [Change -> Changes]
    BY <1>1, RowsTyped, NobodyTyped
  <2>. QED BY <2>1 DEF Users!TypeOK, Rows, Changes
<1>3. \A c \in Change : PendingOK(change[c])
  BY <1>1, NobodyTyped DEF PendingOK
<1>4. Users!EveryAccountHasRole /\ Users!DeletedStaysInactive
  BY <1>1, RowsTyped DEF Users!EveryAccountHasRole, Users!DeletedStaysInactive, Users!Live
<1>. QED BY <1>2, <1>3, <1>4 DEF UsersInv

(* A request reads the account, goes on or answers.                            *)
LEMMA RequestMoves ==
  ASSUME UsersInv, NEW c \in Change, NEW w \in Changes,
         change' = [change EXCEPT ![c] = w], UNCHANGED user, PendingOK(w)
  PROVE  UsersInv'
<1>1. /\ change' \in [Change -> Changes] /\ change'[c] = w
      /\ \A d \in Change : d # c => change'[d] = change[d]
  BY UsersTypes
<1>2. Users!TypeOK'
  BY <1>1 DEF UsersInv, Users!TypeOK, Changes
<1>3. (\A d \in Change : PendingOK(change[d]))'
  BY <1>1 DEF UsersInv, PendingOK
<1>4. (Users!EveryAccountHasRole /\ Users!DeletedStaysInactive)'
  BY DEF UsersInv, Users!EveryAccountHasRole, Users!DeletedStaysInactive, Users!Live
<1>. QED BY <1>2, <1>3, <1>4 DEF UsersInv

(* One row is written.                                                        *)
LEMMA RowWritten ==
  ASSUME UsersInv, NEW u \in User, NEW row \in Rows, user' = [user EXCEPT ![u] = row],
         \/ UNCHANGED change
         \/ \E c \in Change : change' = [change EXCEPT ![c] = Users!Nobody],
         row.state # "absent",
         user[u].state # "absent" /\ user[u].keycloak # {} => row.keycloak # {},
         row.state = "live" => row.local \cup row.keycloak # {},
         row.state = "deleted" => ~row.active
  PROVE  UsersInv'
<1>1. user \in [User -> Rows] /\ change \in [Change -> Changes]
  BY UsersTypes
<1>2. /\ user' \in [User -> Rows] /\ user'[u] = row
      /\ \A v \in User : v # u => user'[v] = user[v]
  BY <1>1
<1>3. /\ change' \in [Change -> Changes]
      /\ \A c \in Change : change'[c] = change[c] \/ change'[c] = Users!Nobody
  BY <1>1, NobodyTyped
<1>4. Users!TypeOK'
  BY <1>2, <1>3 DEF Users!TypeOK, Rows, Changes
<1>5. ASSUME NEW c \in Change PROVE PendingOK(change[c])'
  <2>1. CASE change'[c] = Users!Nobody
    BY <2>1, NobodyTyped DEF PendingOK
  <2>2. CASE change'[c] = change[c]
    <3>1. PendingOK(change[c]) /\ change[c].user \in User
      BY <1>1 DEF UsersInv, Changes
    <3>. QED BY <1>2, <2>2, <3>1 DEF PendingOK
  <2>. QED BY <1>3, <2>1, <2>2
<1>6. (Users!EveryAccountHasRole /\ Users!DeletedStaysInactive)'
  BY <1>2 DEF UsersInv, Users!EveryAccountHasRole, Users!DeletedStaysInactive, Users!Live
<1>. QED BY <1>4, <1>5, <1>6 DEF UsersInv

LEMMA UpdateCommits ==
  ASSUME UsersInv, NEW c \in Change, Users!CommitUpdate(c)
  PROVE  UsersInv'
<1>. DEFINE w == change[c]
            old == user[w.user]
            active == IF old.state = "live" THEN w.active ELSE old.active
            super == IF old.state = "live" THEN w.super ELSE old.super
            local == IF w.replace THEN w.roles ELSE old.local
            new == [old EXCEPT !.active = active, !.super = super, !.local = local]
<1>1. /\ user \in [User -> Rows] /\ w \in Changes /\ w.user \in User /\ old \in Rows
      /\ w.at = "update" /\ PendingOK(w)
  BY UsersTypes DEF Users!CommitUpdate, Users!At, Changes, UsersInv
<1>2. /\ user' = [user EXCEPT ![w.user] = new]
      /\ change' = [change EXCEPT ![c] = Users!Nobody]
  BY <1>1 DEF Users!CommitUpdate, Users!Live, Users!Done
<1>3. /\ active \in BOOLEAN /\ super \in BOOLEAN /\ local \in SUBSET Users!Role
  BY <1>1 DEF Rows, Changes
<1>4. /\ new \in Rows /\ new.state = old.state /\ new.active = active /\ new.local = local
      /\ new.keycloak = old.keycloak
  <2>. HIDE DEF active, super, local, old
  <2>. QED BY <1>1, <1>3 DEF Rows
<1>. HIDE DEF new
<1>5. new.state # "absent"
  BY <1>1, <1>4 DEF PendingOK
<1>6. new.state = "live" => new.local \cup new.keycloak # {}
  <2>1. old.state = "live" => old.local \cup old.keycloak # {}
    BY <1>1 DEF UsersInv, Users!EveryAccountHasRole, Users!Live
  <2>2. w.replace => w.roles # {} \/ old.keycloak # {}
    BY <1>1 DEF PendingOK
  <2>. QED BY <1>4, <2>1, <2>2
<1>7. new.state = "deleted" => ~new.active
  BY <1>1, <1>4 DEF UsersInv, Users!DeletedStaysInactive
<1>. HIDE DEF old
<1>. QED BY <1>1, <1>2, <1>4, <1>5, <1>6, <1>7, RowWritten DEF old

LEMMA DeletionCommits ==
  ASSUME UsersInv, NEW c \in Change, Users!CommitDelete(c)
  PROVE  UsersInv'
<1>. DEFINE u == change[c].user
            new == [user[u] EXCEPT !.state = "deleted", !.active = FALSE]
<1>1. user \in [User -> Rows] /\ u \in User
  BY UsersTypes DEF Changes
<1>2. /\ user' = [user EXCEPT ![u] = new]
      /\ change' = [change EXCEPT ![c] = Users!Nobody]
  BY <1>1 DEF Users!CommitDelete, Users!Done
<1>3. /\ new \in Rows /\ new.state = "deleted" /\ ~new.active /\ new.keycloak = user[u].keycloak
  BY <1>1 DEF Rows
<1>. HIDE DEF new, u
<1>. QED BY <1>1, <1>2, <1>3, RowWritten

LEMMA LoginCommits ==
  ASSUME UsersInv, NEW c \in Change, Users!CommitLogin(c)
  PROVE  UsersInv'
<1>. DEFINE w == change[c]
            new == [user[w.user] EXCEPT !.super = w.super, !.keycloak = w.roles]
<1>1. /\ user \in [User -> Rows] /\ w \in Changes /\ w.user \in User
      /\ w.at = "synced" /\ PendingOK(w)
  BY UsersTypes DEF Users!CommitLogin, Users!At, Changes, UsersInv
<1>2. /\ user' = [user EXCEPT ![w.user] = new]
      /\ change' = [change EXCEPT ![c] = Users!Nobody]
  BY <1>1 DEF Users!CommitLogin, Users!Done
<1>3. /\ new \in Rows /\ new.state = user[w.user].state /\ new.active = user[w.user].active
      /\ new.keycloak = w.roles
  <2>1. user[w.user] \in Rows
    BY <1>1
  <2>2. w.super \in BOOLEAN /\ w.roles \in SUBSET Users!Role
    BY <1>1 DEF Changes
  <2>. HIDE DEF w
  <2>. QED BY <2>1, <2>2 DEF Rows
<1>. HIDE DEF new
<1>4. new.keycloak # {} /\ new.state # "absent" /\ new.local \cup new.keycloak # {}
  BY <1>1, <1>3 DEF PendingOK
<1>5. new.state = "deleted" => ~new.active
  BY <1>1, <1>3 DEF UsersInv, Users!DeletedStaysInactive
<1>. QED BY <1>1, <1>2, <1>3, <1>4, <1>5, RowWritten

LEMMA UpdateAsked ==
  ASSUME UsersInv, NEW c \in Change, NEW actor \in User, NEW u \in User,
         NEW active \in BOOLEAN, NEW replace \in BOOLEAN, NEW roles \in SUBSET Users!Role,
         Users!UpdateUser(c, actor, u, active, replace, roles)
  PROVE  UsersInv'
<1>. DEFINE super == IF replace THEN SuperAdmin \in roles \cup user[u].keycloak
                                ELSE user[u].super
            w == [at |-> "update", user |-> u, active |-> active, super |-> super,
                  roles |-> roles, replace |-> replace]
<1>1. /\ change' = [change EXCEPT ![c] = w] /\ UNCHANGED user
      /\ user[u].state = "live"
      /\ replace => roles # {} \/ user[u].keycloak # {}
  BY DEF Users!UpdateUser, Users!Live, Users!UpdateRoles
<1>2. super \in BOOLEAN
  <2>1. CASE replace
    BY <2>1
  <2>2. CASE ~replace
    BY <2>2, UsersTypes DEF Rows
  <2>. QED BY <2>1, <2>2
<1>. HIDE DEF super
<1>3. w \in Changes /\ PendingOK(w)
  <2>1. w \in Changes
    BY <1>2 DEF Changes
  <2>2. w.at = "update" /\ w.user = u /\ w.roles = roles /\ w.replace = replace
    OBVIOUS
  <2>. HIDE DEF w
  <2>. QED BY <1>1, <2>1, <2>2 DEF PendingOK
<1>. HIDE DEF w
<1>. QED BY <1>1, <1>3, RequestMoves

LEMMA RolesReplaced ==
  ASSUME UsersInv, NEW c \in Change, Users!ReplaceKeycloakRoles(c)
  PROVE  UsersInv'
<1>. DEFINE w == change[c]
            super == SuperAdmin \in w.roles \cup user[w.user].local
            new == [w EXCEPT !.at = "synced", !.super = super]
<1>1. /\ change \in [Change -> Changes] /\ w \in Changes /\ w.at = "login" /\ PendingOK(w)
  BY UsersTypes DEF Users!ReplaceKeycloakRoles, Users!At, UsersInv
<1>2. change' = [change EXCEPT ![c] = new] /\ UNCHANGED user
  BY <1>1 DEF Users!ReplaceKeycloakRoles
<1>3. new \in Changes /\ new.at = "synced" /\ new.user = w.user /\ new.roles = w.roles
  <2>1. super \in BOOLEAN
    OBVIOUS
  <2>. HIDE DEF super, w
  <2>. QED BY <1>1, <2>1 DEF Changes
<1>. HIDE DEF new
<1>4. PendingOK(new)
  BY <1>1, <1>3 DEF PendingOK
<1>. QED BY <1>2, <1>3, <1>4, RequestMoves

LEMMA UsersStep ==
  ASSUME UsersInv, [Users!Next]_ofUsers
  PROVE  UsersInv'
<1>0. user \in [User -> Rows] /\ change \in [Change -> Changes]
  BY UsersTypes
<1>1. CASE UNCHANGED ofUsers
  BY <1>1 DEF ofUsers, UsersInv, Users!TypeOK, PendingOK, Users!EveryAccountHasRole,
     Users!DeletedStaysInactive, Users!Live
<1>2. ASSUME NEW u \in User, NEW roles \in SUBSET Users!Role, Users!CreateUser(u, roles)
      PROVE  UsersInv'
  <2>. DEFINE super == SuperAdmin \in roles
              row == Created(roles, super)
  <2>1. user' = [user EXCEPT ![u] = row] /\ UNCHANGED change /\ roles # {}
        /\ user[u].state = "absent"
    BY <1>2 DEF Users!CreateUser, Created
  <2>2. super \in BOOLEAN
    OBVIOUS
  <2>. HIDE DEF super
  <2>3. row \in Rows /\ row.state = "live" /\ row.local = roles
    BY <2>2, RowsTyped
  <2>. HIDE DEF row
  <2>4. row.local \cup row.keycloak # {}
    BY <2>1, <2>3
  <2>. QED BY <2>1, <2>3, <2>4, RowWritten
<1>3. ASSUME NEW u \in User, NEW roles \in SUBSET Users!Role, Users!ProvisionUser(u, roles)
      PROVE  UsersInv'
  <2>. DEFINE super == SuperAdmin \in roles
              row == Provisioned(roles, super)
  <2>1. user' = [user EXCEPT ![u] = row] /\ UNCHANGED change /\ roles # {}
        /\ user[u].state = "absent"
    BY <1>3 DEF Users!ProvisionUser, Provisioned
  <2>2. super \in BOOLEAN
    OBVIOUS
  <2>. HIDE DEF super
  <2>3. row \in Rows /\ row.state = "live" /\ row.keycloak = roles
    BY <2>2, RowsTyped
  <2>. HIDE DEF row
  <2>4. row.local \cup row.keycloak # {}
    BY <2>1, <2>3
  <2>. QED BY <2>1, <2>3, <2>4, RowWritten
<1>4. ASSUME NEW c \in Change, NEW actor \in User, NEW u \in User, Users!DeleteUser(c, actor, u)
      PROVE  UsersInv'
  <2>1. change' = [change EXCEPT ![c] = Deleting(u)] /\ UNCHANGED user /\ user[u].state = "live"
    BY <1>4 DEF Users!DeleteUser, Deleting, Users!Live
  <2>2. Deleting(u) \in Changes /\ Deleting(u).at = "delete" /\ Deleting(u).user = u
    BY ChangesTyped
  <2>3. PendingOK(Deleting(u))
    BY <2>1, <2>2 DEF PendingOK
  <2>. QED BY <2>1, <2>2, <2>3, RequestMoves
<1>5. ASSUME NEW c \in Change, NEW u \in User, NEW roles \in SUBSET Users!Role,
             Users!LoginWithKeycloak(c, u, roles)
      PROVE  UsersInv'
  <2>1. change' = [change EXCEPT ![c] = LoggingIn(u, roles)] /\ UNCHANGED user
        /\ user[u].state = "live" /\ roles # {}
    BY <1>5 DEF Users!LoginWithKeycloak, LoggingIn, Users!Live
  <2>2. /\ LoggingIn(u, roles) \in Changes /\ LoggingIn(u, roles).at = "login"
        /\ LoggingIn(u, roles).user = u /\ LoggingIn(u, roles).roles = roles
    BY ChangesTyped
  <2>3. PendingOK(LoggingIn(u, roles))
    BY <2>1, <2>2 DEF PendingOK
  <2>. QED BY <2>1, <2>2, <2>3, RequestMoves
<1>. QED BY <1>1, <1>2, <1>3, <1>4, <1>5, UpdateAsked, UpdateCommits, DeletionCommits, RolesReplaced,
     LoginCommits DEF Users!Next

-----------------------------------------------------------------------------
(***************************************************************************)
(* API keys (apikeys/service.go).                                           *)
(***************************************************************************)

KeyRows == [scopes : SUBSET Scope, hash : Keys!Secret, previous : Keys!Secret \cup {0},
            until : 0 .. (MaxKeyNow + GraceTime), expires : 0 .. MaxKeyNow, revoked : BOOLEAN]
KeyCalls == [kind : Keys!Kinds, arg : SUBSET Scope, seen : SUBSET Scope, next : SUBSET Scope,
             read : BOOLEAN, tries : 0 .. Attempts, hash : Keys!Secret \cup {0},
             grace : 0 .. GraceTime]
Mutations == {"replace", "add", "remove"}

(* What a change is about to write is what it makes of the scopes it has read;   *)
(* one that is going to read has an attempt left.                               *)
KeyCallOK(call) ==
  /\ call.kind = "idle" => ~call.read
  /\ call.kind \in Mutations /\ call.read =>
       call.next = Keys!Mutated(call.kind, call.seen, call.arg) /\ call.next # {}
  /\ call.kind \in Mutations /\ ~call.read => call.tries < Attempts

KeysInv ==
  /\ Keys!TypeOK
  /\ Keys!ScopesAsIntended /\ Keys!RotationSawSecret
  /\ \A c \in KeyCall : KeyCallOK(keyCall[c])

LEMMA KeysTypes ==
  Keys!TypeOK <=>
    /\ apiKey \in KeyRows /\ keyCall \in [KeyCall -> KeyCalls] /\ keyNow \in 0 .. MaxKeyNow
    /\ intended \subseteq Scope /\ basis \in [Keys!Secret -> Keys!Secret \cup {0}]
BY DEF Keys!TypeOK, KeyRows, KeyCalls

LEMMA UnaskedTyped ==
  Keys!Unasked \in KeyCalls /\ Keys!Unasked.kind = "idle" /\ ~Keys!Unasked.read /\ Keys!Unasked.tries = 0
BY KeyAssumption DEF Keys!Unasked, KeyCalls, Keys!Kinds

LEMMA MutatedTyped ==
  ASSUME NEW kind, NEW scopes \in SUBSET Scope, NEW arg \in SUBSET Scope
  PROVE  Keys!Mutated(kind, scopes, arg) \in SUBSET Scope
BY DEF Keys!Mutated

(* What a request becomes.                                                    *)
Requested(b, kind, arg) == [b EXCEPT !.kind = kind, !.arg = arg]
HasRead(b, seen, next, tries) ==
  [b EXCEPT !.read = TRUE, !.seen = seen, !.next = next, !.tries = tries]
Retrying(b) == [b EXCEPT !.read = FALSE]
Rotating(b, hash, grace) == [b EXCEPT !.kind = "rotate", !.read = TRUE, !.hash = hash, !.grace = grace]

LEMMA RequestedTyped ==
  ASSUME NEW b \in KeyCalls, NEW kind \in Mutations, NEW arg \in SUBSET Scope
  PROVE  /\ Requested(b, kind, arg) \in KeyCalls /\ Requested(b, kind, arg).kind = kind
         /\ Requested(b, kind, arg).read = b.read /\ Requested(b, kind, arg).tries = b.tries
BY DEF Requested, KeyCalls, Keys!Kinds, Mutations

LEMMA HasReadTyped ==
  ASSUME NEW b \in KeyCalls, NEW seen \in SUBSET Scope, NEW next \in SUBSET Scope,
         NEW tries \in 0 .. Attempts
  PROVE  /\ HasRead(b, seen, next, tries) \in KeyCalls /\ HasRead(b, seen, next, tries).kind = b.kind
         /\ HasRead(b, seen, next, tries).read /\ HasRead(b, seen, next, tries).seen = seen
         /\ HasRead(b, seen, next, tries).next = next /\ HasRead(b, seen, next, tries).arg = b.arg
BY DEF HasRead, KeyCalls

LEMMA RetryingTyped ==
  ASSUME NEW b \in KeyCalls
  PROVE  /\ Retrying(b) \in KeyCalls /\ Retrying(b).kind = b.kind /\ ~Retrying(b).read
         /\ Retrying(b).tries = b.tries
BY DEF Retrying, KeyCalls

LEMMA RotatingTyped ==
  ASSUME NEW b \in KeyCalls, NEW hash \in Keys!Secret, NEW grace \in 0 .. GraceTime
  PROVE  Rotating(b, hash, grace) \in KeyCalls /\ Rotating(b, hash, grace).kind = "rotate"
BY DEF Rotating, KeyCalls, Keys!Kinds

LEMMA KeysInitial ==
  ASSUME Keys!Init
  PROVE  KeysInv
<1>1. PICK scopes \in (SUBSET Held) \ {{}}, expires \in 0 .. MaxKeyNow :
       apiKey = [scopes |-> scopes, hash |-> 1, previous |-> 0, until |-> 0,
                 expires |-> expires, revoked |-> FALSE]
  BY DEF Keys!Init
<1>2. /\ keyCall = [c \in KeyCall |-> Keys!Unasked] /\ keyNow = 0 /\ intended = apiKey.scopes
      /\ basis = [g \in Keys!Secret |-> 0]
  BY DEF Keys!Init
<1>3. /\ apiKey \in KeyRows /\ apiKey.scopes = scopes /\ apiKey.hash = 1
  <2>1. /\ 1 \in Keys!Secret /\ 0 \in Keys!Secret \cup {0} /\ scopes \in SUBSET Scope
        /\ 0 \in 0 .. (MaxKeyNow + GraceTime)
    BY KeyAssumption DEF Keys!Secret
  <2>. QED BY <1>1, <2>1 DEF KeyRows
<1>4. Keys!TypeOK
  <2>1. apiKey.scopes \in SUBSET Scope
    BY <1>3 DEF KeyRows
  <2>2. keyNow \in 0 .. MaxKeyNow
    BY <1>2, KeyAssumption
  <2>3. keyCall \in [KeyCall -> KeyCalls] /\ basis \in [Keys!Secret -> Keys!Secret \cup {0}]
    BY <1>2, UnaskedTyped
  <2>4. intended \subseteq Scope
    BY <1>2, <2>1
  <2>. QED BY Zenon, <1>3, <2>2, <2>3, <2>4, KeysTypes
<1>5. Keys!ScopesAsIntended /\ Keys!RotationSawSecret
  BY <1>2, <1>3 DEF Keys!ScopesAsIntended, Keys!RotationSawSecret
<1>6. \A c \in KeyCall : KeyCallOK(keyCall[c])
  BY <1>2, UnaskedTyped DEF KeyCallOK, Mutations
<1>. QED BY <1>4, <1>5, <1>6 DEF KeysInv

(* A request moves, and the key stays.                                         *)
LEMMA KeyCallMoves ==
  ASSUME KeysInv, NEW c \in KeyCall, NEW new \in KeyCalls,
         keyCall' = [keyCall EXCEPT ![c] = new], UNCHANGED <<apiKey, keyNow, intended, basis>>,
         KeyCallOK(new)
  PROVE  KeysInv'
<1>1. /\ keyCall' \in [KeyCall -> KeyCalls] /\ keyCall'[c] = new
      /\ \A d \in KeyCall : d # c => keyCall'[d] = keyCall[d]
  BY KeysTypes DEF KeysInv
<1>2. Keys!TypeOK'
  BY <1>1 DEF KeysInv, Keys!TypeOK, KeyCalls
<1>3. (\A d \in KeyCall : KeyCallOK(keyCall[d]))'
  BY <1>1 DEF KeysInv, KeyCallOK
<1>4. (Keys!ScopesAsIntended /\ Keys!RotationSawSecret)'
  BY DEF KeysInv, Keys!ScopesAsIntended, Keys!RotationSawSecret
<1>. QED BY <1>2, <1>3, <1>4 DEF KeysInv

(* The key's row changes, and the request, if any, is over or reads again.      *)
LEMMA KeyChanges ==
  ASSUME KeysInv, apiKey' \in KeyRows, UNCHANGED keyNow,
         intended' = apiKey'.scopes, intended' # {},
         basis' \in [Keys!Secret -> Keys!Secret \cup {0}],
         apiKey'.hash > 1 => basis'[apiKey'.hash] = apiKey'.hash - 1,
         \/ UNCHANGED keyCall
         \/ \E c \in KeyCall : keyCall' = [keyCall EXCEPT ![c] = Keys!Unasked]
  PROVE  KeysInv'
<1>1. /\ keyCall' \in [KeyCall -> KeyCalls]
      /\ \A d \in KeyCall : keyCall'[d] = keyCall[d] \/ keyCall'[d] = Keys!Unasked
  BY KeysTypes, UnaskedTyped DEF KeysInv
<1>2. Keys!TypeOK'
  <2>1. keyNow' \in 0 .. MaxKeyNow /\ intended' \subseteq Scope
    BY DEF KeysInv, Keys!TypeOK, KeyRows
  <2>. QED BY <1>1, <2>1 DEF Keys!TypeOK, KeyCalls, KeyRows
<1>3. (\A d \in KeyCall : KeyCallOK(keyCall[d]))'
  BY <1>1, UnaskedTyped DEF KeysInv, KeyCallOK, Mutations
<1>4. (Keys!ScopesAsIntended /\ Keys!RotationSawSecret)'
  BY DEF Keys!ScopesAsIntended, Keys!RotationSawSecret
<1>. QED BY <1>2, <1>3, <1>4 DEF KeysInv

LEMMA ScopesRead ==
  ASSUME KeysInv, NEW c \in KeyCall, Keys!ReadScopes(c)
  PROVE  KeysInv'
<1>. DEFINE b == keyCall[c]
            next == Keys!Mutated(b.kind, apiKey.scopes, b.arg)
            new == HasRead(b, apiKey.scopes, next, b.tries + 1)
<1>1. /\ apiKey \in KeyRows /\ b \in KeyCalls /\ b.kind \in Mutations /\ ~b.read
      /\ keyCall \in [KeyCall -> KeyCalls]
      /\ UNCHANGED <<apiKey, keyNow, intended, basis>> /\ KeyCallOK(b)
  BY KeysTypes DEF KeysInv, Keys!ReadScopes, Mutations
<1>2. CASE apiKey.revoked \/ next = {} \/ (b.kind = "remove" /\ next = apiKey.scopes)
  <2>1. keyCall' = [keyCall EXCEPT ![c] = Keys!Unasked]
    BY <1>2 DEF Keys!ReadScopes, Keys!Finish
  <2>. QED BY <1>1, <2>1, UnaskedTyped, KeyCallMoves DEF KeyCallOK, Mutations
<1>3. CASE ~(apiKey.revoked \/ next = {} \/ (b.kind = "remove" /\ next = apiKey.scopes))
  <2>1. keyCall' = [keyCall EXCEPT ![c] = new]
    BY <1>3 DEF Keys!ReadScopes, HasRead
  <2>2. /\ apiKey.scopes \in SUBSET Scope /\ next \in SUBSET Scope
        /\ b.tries + 1 \in 0 .. Attempts
    <3>1. b.tries \in 0 .. Attempts /\ b.tries < Attempts /\ b.arg \in SUBSET Scope
          /\ apiKey.scopes \in SUBSET Scope
      BY <1>1 DEF KeyCallOK, KeyCalls, KeyRows
    <3>. QED BY <3>1, MutatedTyped, KeyAssumption
  <2>. HIDE DEF next
  <2>3. /\ new \in KeyCalls /\ new.kind = b.kind /\ new.read /\ new.seen = apiKey.scopes
        /\ new.next = next /\ new.arg = b.arg
    BY <1>1, <2>2, HasReadTyped
  <2>. HIDE DEF new
  <2>4. KeyCallOK(new)
    BY <1>1, <1>3, <2>3 DEF KeyCallOK, Mutations, next
  <2>. QED BY <1>1, <2>1, <2>3, <2>4, KeyCallMoves
<1>. QED BY <1>2, <1>3

LEMMA ScopesWritten ==
  ASSUME KeysInv, NEW c \in KeyCall, Keys!WriteScopes(c)
  PROVE  KeysInv' /\ (apiKey.revoked => UNCHANGED apiKey)
<1>. DEFINE b == keyCall[c]
            won == ~apiKey.revoked /\ apiKey.scopes = b.seen
<1>1. /\ apiKey \in KeyRows /\ b \in KeyCalls /\ b.read /\ b.kind \in Mutations
      /\ keyCall \in [KeyCall -> KeyCalls] /\ KeyCallOK(b)
      /\ UNCHANGED <<keyNow, basis>> /\ intended = apiKey.scopes /\ intended # {}
      /\ basis \in [Keys!Secret -> Keys!Secret \cup {0}]
      /\ apiKey.hash > 1 => basis[apiKey.hash] = apiKey.hash - 1
  <2>1. b \in KeyCalls /\ b.read /\ b.kind # "rotate" /\ KeyCallOK(b)
    BY KeysTypes DEF KeysInv, Keys!WriteScopes
  <2>2. b.kind \in Mutations
    BY <2>1 DEF KeyCallOK, KeyCalls, Keys!Kinds, Mutations
  <2>. QED BY <2>1, <2>2, KeysTypes DEF KeysInv, Keys!WriteScopes, Keys!ScopesAsIntended,
          Keys!RotationSawSecret
<1>2. CASE won
  <2>1. /\ apiKey' = [apiKey EXCEPT !.scopes = b.next]
        /\ intended' = Keys!Mutated(b.kind, intended, b.arg)
        /\ keyCall' = [keyCall EXCEPT ![c] = Keys!Unasked]
    BY <1>2 DEF Keys!WriteScopes, Keys!Finish
  <2>2. b.next = intended' /\ b.next # {} /\ b.next \in SUBSET Scope
    BY <1>1, <1>2, <2>1 DEF KeyCallOK, KeyCalls
  <2>3. apiKey' \in KeyRows /\ apiKey'.scopes = b.next /\ apiKey'.hash = apiKey.hash
    BY <1>1, <2>1, <2>2 DEF KeyRows
  <2>. HIDE DEF b
  <2>. QED BY <1>1, <1>2, <2>1, <2>2, <2>3, KeyChanges
<1>3. CASE ~won
  <2>1. UNCHANGED <<apiKey, intended>>
    BY <1>3 DEF Keys!WriteScopes
  <2>2. CASE b.kind = "replace" \/ Keys!LastAttempt(b)
    <3>1. keyCall' = [keyCall EXCEPT ![c] = Keys!Unasked]
      BY <2>2 DEF Keys!WriteScopes, Keys!Finish
    <3>. QED BY <1>1, <2>1, <3>1, KeyChanges
  <2>3. CASE ~(b.kind = "replace" \/ Keys!LastAttempt(b))
    <3>. DEFINE new == Retrying(b)
    <3>1. keyCall' = [keyCall EXCEPT ![c] = new]
      BY <1>1, <1>3, <2>3 DEF Keys!WriteScopes, Retrying
    <3>2. new \in KeyCalls /\ new.kind = b.kind /\ ~new.read /\ new.tries = b.tries
      BY <1>1, RetryingTyped
    <3>3. b.tries \in 0 .. Attempts /\ b.tries # Attempts
      BY <1>1, <2>3 DEF KeyCalls, Keys!LastAttempt
    <3>. HIDE DEF new
    <3>4. KeyCallOK(new)
      BY <1>1, <3>2, <3>3, KeyAssumption DEF KeyCallOK, Mutations
    <3>. QED BY <1>1, <2>1, <3>1, <3>2, <3>4, KeyCallMoves
  <2>. QED BY <2>1, <2>2, <2>3
<1>. QED BY <1>2, <1>3

LEMMA KeyRotates ==
  ASSUME KeysInv, NEW c \in KeyCall, Keys!Rotate(c)
  PROVE  KeysInv' /\ (apiKey.revoked => UNCHANGED apiKey)
<1>. DEFINE b == keyCall[c]
            h == apiKey.hash
            until == keyNow + b.grace
<1>1. /\ apiKey \in KeyRows /\ b \in KeyCalls /\ keyCall \in [KeyCall -> KeyCalls]
      /\ UNCHANGED <<keyNow, intended>> /\ intended = apiKey.scopes /\ intended # {}
      /\ basis \in [Keys!Secret -> Keys!Secret \cup {0}] /\ keyNow \in 0 .. MaxKeyNow
      /\ h > 1 => basis[h] = h - 1
      /\ keyCall' = [keyCall EXCEPT ![c] = Keys!Unasked] /\ h + 1 \in Keys!Secret
  BY KeysTypes DEF KeysInv, Keys!Rotate, Keys!Finish, Keys!Fresh, Keys!ScopesAsIntended,
     Keys!RotationSawSecret
<1>2. CASE ~apiKey.revoked /\ Keys!Unexpired /\ h = b.hash
  <2>1. /\ apiKey' = [apiKey EXCEPT !.previous = h, !.until = until, !.hash = h + 1]
        /\ basis' = [basis EXCEPT ![h + 1] = b.hash]
    BY <1>2 DEF Keys!Rotate, Keys!Rotated, Keys!Fresh
  <2>2. until \in 0 .. (MaxKeyNow + GraceTime) /\ h \in Keys!Secret /\ h \in Nat
    BY <1>1, KeyAssumption DEF KeyCalls, KeyRows, Keys!Secret
  <2>. HIDE DEF until
  <2>3. apiKey' \in KeyRows /\ apiKey'.scopes = apiKey.scopes /\ apiKey'.hash = h + 1
    <3>. HIDE DEF h
    <3>. QED BY <1>1, <2>1, <2>2 DEF KeyRows
  <2>4. basis' \in [Keys!Secret -> Keys!Secret \cup {0}] /\ basis'[h + 1] = h
    BY <1>1, <1>2, <2>1, <2>2
  <2>5. apiKey'.hash > 1 => basis'[apiKey'.hash] = apiKey'.hash - 1
    BY <2>2, <2>3, <2>4
  <2>. HIDE DEF b, h
  <2>. QED BY <1>1, <1>2, <2>3, <2>4, <2>5, KeyChanges
<1>3. CASE ~(~apiKey.revoked /\ Keys!Unexpired /\ h = b.hash)
  <2>1. UNCHANGED <<apiKey, basis>>
    BY <1>3 DEF Keys!Rotate
  <2>. QED BY <1>1, <2>1, KeyChanges
<1>. QED BY <1>2, <1>3

(* Every step keeps the invariant, and leaves a revoked key alone.              *)
LEMMA KeysStep ==
  ASSUME KeysInv, [Keys!Next]_ofKeys
  PROVE  KeysInv' /\ (apiKey.revoked => UNCHANGED apiKey)
<1>0. /\ apiKey \in KeyRows /\ keyCall \in [KeyCall -> KeyCalls] /\ keyNow \in 0 .. MaxKeyNow
      /\ intended = apiKey.scopes /\ intended # {} /\ apiKey.hash \in Keys!Secret
      /\ basis \in [Keys!Secret -> Keys!Secret \cup {0}]
      /\ (apiKey.hash > 1 => basis[apiKey.hash] = apiKey.hash - 1)
  BY KeysTypes DEF KeysInv, Keys!ScopesAsIntended, Keys!RotationSawSecret, KeyRows
<1>1. CASE UNCHANGED ofKeys
  BY <1>0, <1>1, KeyChanges DEF ofKeys
<1>2. ASSUME NEW c \in KeyCall, NEW kind \in Mutations, NEW by \in Keys!Caller,
             NEW arg \in SUBSET Scope, Keys!AskScopes(c, kind, by, arg)
      PROVE  KeysInv' /\ UNCHANGED apiKey
  <2>. DEFINE new == Requested(Keys!Unasked, kind, arg)
  <2>1. /\ keyCall' = [keyCall EXCEPT ![c] = new] /\ UNCHANGED <<apiKey, keyNow, intended, basis>>
    BY <1>2 DEF Keys!AskScopes, Requested
  <2>2. new \in KeyCalls /\ new.kind = kind /\ ~new.read /\ new.tries = 0
    BY UnaskedTyped, RequestedTyped
  <2>. HIDE DEF new
  <2>3. KeyCallOK(new)
    BY <2>2, KeyAssumption DEF KeyCallOK, Mutations
  <2>. QED BY <2>1, <2>2, <2>3, KeyCallMoves
<1>3. ASSUME NEW c \in KeyCall, Keys!ReadScopes(c) PROVE KeysInv' /\ UNCHANGED apiKey
  BY <1>3, ScopesRead DEF Keys!ReadScopes
<1>4. ASSUME NEW c \in KeyCall, NEW by \in Keys!Caller, NEW grace \in 0 .. GraceTime,
             Keys!ReadForRotation(c, by, grace)
      PROVE  KeysInv' /\ UNCHANGED apiKey
  <2>. DEFINE new == Rotating(Keys!Unasked, apiKey.hash, grace)
  <2>1. /\ keyCall' = [keyCall EXCEPT ![c] = new] /\ UNCHANGED <<apiKey, keyNow, intended, basis>>
    BY <1>4 DEF Keys!ReadForRotation, Rotating
  <2>2. new \in KeyCalls /\ new.kind = "rotate"
    BY <1>0, UnaskedTyped, RotatingTyped
  <2>. HIDE DEF new
  <2>3. KeyCallOK(new)
    BY <2>2 DEF KeyCallOK, Mutations
  <2>. QED BY <2>1, <2>2, <2>3, KeyCallMoves
<1>5. CASE Keys!Revoke \/ Keys!RevokeWithOwner
  <2>1. /\ apiKey' \in {[apiKey EXCEPT !.revoked = TRUE, !.previous = 0, !.until = 0],
                        [apiKey EXCEPT !.revoked = TRUE]}
        /\ UNCHANGED <<keyCall, keyNow, intended, basis>> /\ ~apiKey.revoked
    BY <1>5 DEF Keys!Revoke, Keys!RevokeWithOwner
  <2>2. /\ 0 \in 0 .. (MaxKeyNow + GraceTime)
    BY KeyAssumption
  <2>3. apiKey' \in KeyRows /\ apiKey'.scopes = apiKey.scopes /\ apiKey'.hash = apiKey.hash
    BY <1>0, <2>1, <2>2 DEF KeyRows
  <2>. QED BY <1>0, <2>1, <2>3, KeyChanges
<1>6. CASE Keys!KeyTick
  <2>1. /\ UNCHANGED <<apiKey, keyCall, intended, basis>> /\ keyNow' \in 0 .. MaxKeyNow
    BY <1>0, <1>6, KeyAssumption DEF Keys!KeyTick
  <2>. QED BY <2>1 DEF KeysInv, Keys!TypeOK, Keys!ScopesAsIntended, Keys!RotationSawSecret, KeyCallOK
<1>. QED BY <1>1, <1>2, <1>3, <1>4, <1>5, <1>6, ScopesWritten, KeyRotates DEF Keys!Next, Mutations

(***************************************************************************)
(* apikeys/service.go: of changes of a key that meet none is lost, a rotation   *)
(* supersedes the secret its caller saw, and a revoked key accepts nothing      *)
(* again, for any number of requests, scopes, secrets and attempts.             *)
(***************************************************************************)
THEOREM KeysKept == Spec => KeysSafe
<1>1. Init => KeysInv
  BY KeysInitial DEF Init
<1>2. KeysInv /\ [Next]_vars => KeysInv'
  BY Zenon, PartsMove, KeysStep
<1>3. KeysInv => Keys!ScopesAsIntended /\ Keys!RotationSawSecret
  BY DEF KeysInv
<1>4. KeysInv /\ [Next]_vars => [Keys!StaysRevoked]_Keys!keyVars
  <2>1. ASSUME KeysInv, [Next]_vars, apiKey.revoked
        PROVE  apiKey'.revoked /\ apiKey'.hash = apiKey.hash /\ Keys!Accepted' = {}
    <3>1. UNCHANGED apiKey
      BY Zenon, <2>1, PartsMove, KeysStep
    <3>. QED BY <2>1, <3>1 DEF Keys!Accepted
  <2>. QED BY <2>1 DEF Keys!StaysRevoked
<1>. QED BY <1>1, <1>2, <1>3, <1>4, PTL DEF Spec, KeysSafe, Keys!KeysSafe, Keys!RevokedForGood

-----------------------------------------------------------------------------
(***************************************************************************)
(* Logins through Keycloak (auth/oidc.go).                                  *)
(***************************************************************************)

Callbacks == [at : Sso!Stages, flow : Flow, issuer : Issuer \cup {Nothing},
              account : Username \cup {Nothing}]
Flows == [state : {"none", "open", "consumed", "gone"}, expired : BOOLEAN,
          issuer : Issuer \cup {Nothing}]
PastClaim == {"claimed", "migrate", "relook", "create", "open"}
Spent(f)  == flow[f].state \in {"consumed", "gone"}

(* A callback past the claim is the only one of its flow, which is spent, and   *)
(* no session was opened for it yet.                                           *)
ClaimsOK ==
  /\ \A c \in Callback : callback[c].at \in PastClaim =>
       /\ Spent(callback[c].flow)
       /\ \A d \in Callback : d # c /\ callback[d].at \in PastClaim =>
            callback[d].flow # callback[c].flow
       /\ \A e \in entered : e[1] # callback[c].flow
  /\ \A e \in entered : Spent(e[1])

(* An identity is linked to an account of its own person, the legacy row names  *)
(* no other, and a callback opens a session for the account's person.           *)
OwnersOK ==
  /\ \A c \in Callback :
       /\ callback[c].at \in PastClaim \cup {"exchanged"} => callback[c].issuer \in Issuer
       /\ callback[c].at = "open" => /\ callback[c].account \in Username
                                     /\ owner[callback[c].account] = callback[c].issuer
  /\ \A i \in Issuer : identity[i] # Nothing => owner[identity[i]] = i
  /\ legacy.account # Nothing /\ legacy.iss # Nothing => owner[legacy.account] = legacy.iss
  /\ \A e \in entered : owner[e[3]] = e[2]

SsoInv == Sso!TypeOK /\ ClaimsOK /\ OwnersOK

LEMMA SsoTypes ==
  ASSUME Sso!TypeOK
  PROVE  /\ issuer \in Issuer /\ flow \in [Flow -> Flows] /\ callback \in [Callback -> Callbacks]
         /\ identity \in [Issuer -> Username \cup {Nothing}]
         /\ legacy.account \in Username \cup {Nothing} /\ legacy.iss \in Issuer \cup {Nothing}
         /\ owner \in [Username -> Issuer \cup {Nothing}]
         /\ entered \subseteq Flow \X Issuer \X Username
BY DEF Sso!TypeOK, Callbacks, Flows

LEMMA BlankTyped ==
  /\ Sso!Blank \in Callbacks /\ Sso!Blank.at = "idle" /\ Sso!Blank.issuer = Nothing
BY SsoAssumption DEF Sso!Blank, Callbacks, Sso!Stages

(* What a callback becomes.                                                   *)
GoneOn(b, stage) == [b EXCEPT !.at = stage]
Found(b, name, stage) == [b EXCEPT !.account = name, !.at = stage]
Refusing(f) == [Sso!Blank EXCEPT !.at = "refuse", !.flow = f]
Exchanging(f) == [Sso!Blank EXCEPT !.at = "exchanged", !.flow = f, !.issuer = issuer]

LEMMA CallbacksTyped ==
  ASSUME issuer \in Issuer
  PROVE
  /\ \A b \in Callbacks, stage \in Sso!Stages :
       /\ GoneOn(b, stage) \in Callbacks /\ GoneOn(b, stage).at = stage
       /\ GoneOn(b, stage).flow = b.flow /\ GoneOn(b, stage).issuer = b.issuer
       /\ GoneOn(b, stage).account = b.account
  /\ \A b \in Callbacks, name \in Username \cup {Nothing}, stage \in Sso!Stages :
       /\ Found(b, name, stage) \in Callbacks /\ Found(b, name, stage).at = stage
       /\ Found(b, name, stage).flow = b.flow /\ Found(b, name, stage).issuer = b.issuer
       /\ Found(b, name, stage).account = name
  /\ \A f \in Flow : /\ Refusing(f) \in Callbacks /\ Refusing(f).at = "refuse"
                     /\ Exchanging(f) \in Callbacks /\ Exchanging(f).at = "exchanged"
                     /\ Exchanging(f).issuer \in Issuer
<1>1. ASSUME NEW b \in Callbacks, NEW stage \in Sso!Stages
      PROVE  /\ GoneOn(b, stage) \in Callbacks /\ GoneOn(b, stage).at = stage
             /\ GoneOn(b, stage).flow = b.flow /\ GoneOn(b, stage).issuer = b.issuer
             /\ GoneOn(b, stage).account = b.account
  BY DEF GoneOn, Callbacks
<1>2. ASSUME NEW b \in Callbacks, NEW stage \in Sso!Stages, NEW name \in Username \cup {Nothing}
      PROVE  /\ Found(b, name, stage) \in Callbacks /\ Found(b, name, stage).at = stage
             /\ Found(b, name, stage).flow = b.flow /\ Found(b, name, stage).issuer = b.issuer
             /\ Found(b, name, stage).account = name
  BY DEF Found, Callbacks
<1>3. ASSUME NEW f \in Flow
      PROVE  /\ Refusing(f) \in Callbacks /\ Refusing(f).at = "refuse"
             /\ Exchanging(f) \in Callbacks /\ Exchanging(f).at = "exchanged"
             /\ Exchanging(f).issuer \in Issuer
  <2>1. Refusing(f) \in Callbacks /\ Refusing(f).at = "refuse"
    BY BlankTyped DEF Refusing, Callbacks, Sso!Stages
  <2>2. /\ Exchanging(f) \in Callbacks /\ Exchanging(f).at = "exchanged"
        /\ Exchanging(f).issuer \in Issuer
    BY BlankTyped DEF Exchanging, Callbacks, Sso!Stages
  <2>. QED BY <2>1, <2>2
<1>. QED BY <1>1, <1>2, <1>3

LEMMA SsoInitial ==
  ASSUME Sso!Init
  PROVE  SsoInv
<1>1. PICK person \in Issuer, name \in Username, iss \in BOOLEAN, row \in BOOLEAN :
       /\ legacy = IF row THEN [account |-> name, iss |-> IF iss THEN person ELSE Nothing]
                          ELSE [account |-> Nothing, iss |-> Nothing]
       /\ owner = [u \in Username |-> IF row /\ u = name THEN person ELSE Nothing]
  BY DEF Sso!Init
<1>2. /\ issuer \in Issuer /\ entered = {}
      /\ flow = [f \in Flow |-> [state |-> "none", expired |-> FALSE, issuer |-> Nothing]]
      /\ callback = [c \in Callback |-> Sso!Blank] /\ identity = [i \in Issuer |-> Nothing]
  BY DEF Sso!Init
<1>3. legacy \in [account : Username \cup {Nothing}, iss : Issuer \cup {Nothing}]
  BY <1>1
<1>4. owner \in [Username -> Issuer \cup {Nothing}]
  BY <1>1
<1>5. Sso!TypeOK
  <2>1. callback \in [Callback -> Callbacks]
    BY <1>2, BlankTyped
  <2>. QED BY <1>2, <1>3, <1>4, <2>1 DEF Sso!TypeOK, Callbacks
<1>6. ClaimsOK
  BY <1>2, BlankTyped DEF ClaimsOK, PastClaim
<1>7. legacy.account # Nothing /\ legacy.iss # Nothing => owner[legacy.account] = legacy.iss
  BY <1>1
<1>8. OwnersOK
  BY <1>2, <1>7, BlankTyped DEF OwnersOK, PastClaim
<1>. QED BY <1>5, <1>6, <1>8 DEF SsoInv

(* One callback moves and nothing else does.                                  *)
LEMMA CallbackMoves ==
  ASSUME SsoInv, NEW c \in Callback, NEW new \in Callbacks,
         callback' = [callback EXCEPT ![c] = new],
         UNCHANGED <<issuer, flow, identity, legacy, owner, entered>>,
         new.at \in PastClaim => callback[c].at \in PastClaim /\ new.flow = callback[c].flow,
         new.at \in PastClaim \cup {"exchanged"} => new.issuer \in Issuer,
         new.at = "open" => new.account \in Username /\ owner[new.account] = new.issuer
  PROVE  SsoInv'
<1>1. /\ callback' \in [Callback -> Callbacks] /\ callback'[c] = new
      /\ \A d \in Callback : d # c => callback'[d] = callback[d]
  BY SsoTypes DEF SsoInv
<1>2. Sso!TypeOK'
  BY <1>1 DEF SsoInv, Sso!TypeOK, Callbacks
<1>3. ClaimsOK'
  BY <1>1 DEF SsoInv, ClaimsOK, Spent
<1>4. OwnersOK'
  BY <1>1 DEF SsoInv, OwnersOK
<1>. QED BY <1>2, <1>3, <1>4 DEF SsoInv

(* A callback answers.                                                        *)
LEMMA CallbackAnswers ==
  ASSUME SsoInv, NEW c \in Callback, Sso!Answer(c),
         UNCHANGED <<issuer, flow, identity, legacy, owner, entered>>
  PROVE  SsoInv'
BY BlankTyped, CallbackMoves DEF Sso!Answer, PastClaim

(* Flows move on, and no callback does.                                       *)
LEMMA FlowsMove ==
  ASSUME SsoInv, flow' \in [Flow -> Flows], \A f \in Flow : Spent(f) => Spent(f)',
         issuer' \in Issuer, UNCHANGED <<callback, identity, legacy, owner, entered>>
  PROVE  SsoInv'
<1>1. callback \in [Callback -> Callbacks] /\ entered \subseteq Flow \X Issuer \X Username
  BY SsoTypes DEF SsoInv
<1>2. /\ \A c \in Callback : callback[c].flow \in Flow
      /\ \A e \in entered : e[1] \in Flow
  BY <1>1 DEF Callbacks
<1>3. Sso!TypeOK'
  BY DEF SsoInv, Sso!TypeOK, Flows
<1>4. ClaimsOK'
  BY <1>2 DEF SsoInv, ClaimsOK
<1>5. OwnersOK'
  BY DEF SsoInv, OwnersOK
<1>. QED BY <1>3, <1>4, <1>5 DEF SsoInv

LEMMA FlowStarts ==
  ASSUME SsoInv, NEW f \in Flow, Sso!Start(f)
  PROVE  SsoInv'
<1>1. /\ flow \in [Flow -> Flows] /\ issuer \in Issuer /\ flow[f].state = "none"
      /\ UNCHANGED <<issuer, callback, identity, legacy, owner, entered>>
  BY SsoTypes DEF SsoInv, Sso!Start
<1>. DEFINE new == [state |-> "open", expired |-> FALSE, issuer |-> issuer]
            gone(g) == [flow[g] EXCEPT !.state = "gone"]
<1>2. /\ flow' = [g \in Flow |-> IF g = f THEN new
             ELSE IF flow[g].state = "consumed" \/ (flow[g].state = "open" /\ flow[g].expired)
                  THEN gone(g) ELSE flow[g]]
  BY DEF Sso!Start
<1>3. new \in Flows /\ \A g \in Flow : gone(g) \in Flows /\ gone(g).state = "gone"
  <2>1. new \in Flows
    BY <1>1 DEF Flows
  <2>2. ASSUME NEW g \in Flow PROVE gone(g) \in Flows /\ gone(g).state = "gone"
    BY <1>1 DEF Flows
  <2>. QED BY <2>1, <2>2
<1>. HIDE DEF new, gone
<1>4. flow' \in [Flow -> Flows]
  BY <1>1, <1>2, <1>3
<1>5. \A g \in Flow : Spent(g) => Spent(g)'
  BY <1>1, <1>2, <1>3 DEF Spent
<1>. QED BY <1>1, <1>4, <1>5, FlowsMove

LEMMA FlowExpires ==
  ASSUME SsoInv, NEW f \in Flow, Sso!Expire(f)
  PROVE  SsoInv'
<1>1. /\ flow \in [Flow -> Flows] /\ issuer \in Issuer
      /\ UNCHANGED <<issuer, callback, identity, legacy, owner, entered>>
      /\ flow' = [flow EXCEPT ![f].expired = TRUE]
  BY SsoTypes DEF SsoInv, Sso!Expire
<1>2. flow' \in [Flow -> Flows] /\ \A g \in Flow : flow'[g].state = flow[g].state
  BY <1>1 DEF Flows
<1>. QED BY <1>1, <1>2, FlowsMove DEF Spent

LEMMA RefusalConsumes ==
  ASSUME SsoInv, NEW c \in Callback, Sso!ConsumeRefused(c)
  PROVE  SsoInv'
<1>. DEFINE f == callback[c].flow
            st == IF flow[f].state = "open" THEN "consumed" ELSE flow[f].state
<1>1. /\ flow \in [Flow -> Flows] /\ callback \in [Callback -> Callbacks]
      /\ f \in Flow /\ issuer \in Issuer /\ entered \subseteq Flow \X Issuer \X Username
      /\ UNCHANGED <<issuer, identity, legacy, owner, entered>>
      /\ flow' = [flow EXCEPT ![f].state = st]
      /\ callback' = [callback EXCEPT ![c] = Sso!Blank]
  BY SsoTypes DEF SsoInv, Sso!ConsumeRefused, Sso!Answer, Callbacks
<1>2. /\ flow' \in [Flow -> Flows] /\ \A g \in Flow : Spent(g) => Spent(g)'
  BY <1>1 DEF Flows, Spent
<1>3. /\ callback' \in [Callback -> Callbacks] /\ callback'[c].at = "idle"
      /\ \A d \in Callback : d # c => callback'[d] = callback[d]
  BY <1>1, BlankTyped
<1>4. /\ \A d \in Callback : callback[d].flow \in Flow
      /\ \A e \in entered : e[1] \in Flow
  BY <1>1 DEF Callbacks
<1>. HIDE DEF f
<1>5. Sso!TypeOK'
  BY <1>1, <1>2, <1>3 DEF SsoInv, Sso!TypeOK, Flows, Callbacks
<1>6. ClaimsOK'
  BY <1>1, <1>2, <1>3, <1>4 DEF SsoInv, ClaimsOK, PastClaim
<1>7. OwnersOK'
  BY <1>1, <1>3 DEF SsoInv, OwnersOK, PastClaim
<1>. QED BY <1>5, <1>6, <1>7 DEF SsoInv

LEMMA CallbackClaims ==
  ASSUME SsoInv, NEW c \in Callback, Sso!ClaimFlow(c), flow[callback[c].flow].state = "open"
  PROVE  SsoInv'
<1>. DEFINE f == callback[c].flow
            new == GoneOn(callback[c], "claimed")
<1>1. /\ flow \in [Flow -> Flows] /\ callback \in [Callback -> Callbacks]
      /\ f \in Flow /\ issuer \in Issuer /\ entered \subseteq Flow \X Issuer \X Username
      /\ UNCHANGED <<issuer, identity, legacy, owner, entered>>
      /\ callback[c].at = "exchanged"
      /\ flow' = [flow EXCEPT ![f].state = "consumed"]
      /\ callback' = [callback EXCEPT ![c] = new]
  BY SsoTypes DEF SsoInv, Sso!ClaimFlow, Sso!Go, Sso!At, Callbacks, GoneOn
<1>2. /\ flow' \in [Flow -> Flows] /\ \A g \in Flow : Spent(g) => Spent(g)'
      /\ flow'[f].state = "consumed" /\ ~Spent(f)
  BY <1>1 DEF Flows, Spent
<1>3. new \in Callbacks /\ new.at = "claimed" /\ new.flow = f /\ new.issuer = callback[c].issuer
  BY <1>1, CallbacksTyped DEF Sso!Stages
<1>. HIDE DEF new
<1>4. /\ callback' \in [Callback -> Callbacks] /\ callback'[c] = new
      /\ \A d \in Callback : d # c => callback'[d] = callback[d]
  BY <1>1, <1>3
<1>5. /\ \A d \in Callback : callback[d].flow \in Flow
      /\ \A e \in entered : e[1] \in Flow
  BY <1>1 DEF Callbacks
<1>6. /\ \A d \in Callback : callback[d].at \in PastClaim => callback[d].flow # f
      /\ \A e \in entered : e[1] # f
  BY <1>2 DEF SsoInv, ClaimsOK
<1>. HIDE DEF f
<1>7. Sso!TypeOK'
  BY <1>1, <1>2, <1>4 DEF SsoInv, Sso!TypeOK, Flows, Callbacks
<1>8. ClaimsOK'
  <2>1. ASSUME NEW d \in Callback, (callback[d].at \in PastClaim)'
        PROVE  /\ Spent(callback[d].flow)'
               /\ \A g \in Callback : g # d /\ callback'[g].at \in PastClaim =>
                    callback'[g].flow # callback'[d].flow
               /\ \A e \in entered' : e[1] # callback'[d].flow
    <3>1. CASE d = c
      <4>1. callback'[d].flow = f
        BY <1>3, <1>4, <3>1
      <4>. QED BY <1>1, <1>2, <1>4, <1>6, <3>1, <4>1 DEF Spent
    <3>2. CASE d # c
      <4>1. callback'[d] = callback[d] /\ callback[d].at \in PastClaim
        BY <1>4, <2>1, <3>2
      <4>2. Spent(callback[d].flow)'
        BY <1>2, <1>5, <4>1 DEF SsoInv, ClaimsOK, Spent
      <4>. QED BY <1>1, <1>3, <1>4, <1>6, <4>1, <4>2 DEF SsoInv, ClaimsOK
    <3>. QED BY <3>1, <3>2
  <2>2. \A e \in entered' : Spent(e[1])'
    BY <1>1, <1>2, <1>5 DEF SsoInv, ClaimsOK
  <2>. QED BY <2>1, <2>2 DEF ClaimsOK
<1>9. OwnersOK'
  BY <1>1, <1>3, <1>4 DEF SsoInv, OwnersOK
<1>. QED BY <1>7, <1>8, <1>9 DEF SsoInv

LEMMA CallbackLooks ==
  ASSUME SsoInv, NEW c \in Callback, Sso!LookUp(c)
  PROVE  SsoInv'
<1>1. /\ callback \in [Callback -> Callbacks] /\ identity \in [Issuer -> Username \cup {Nothing}]
      /\ issuer \in Issuer /\ callback[c].at \in {"claimed", "relook"}
      /\ UNCHANGED <<issuer, flow, identity, legacy, owner, entered>>
  BY SsoTypes DEF SsoInv, Sso!LookUp, Sso!At
<1>2. callback[c].issuer \in Issuer
  BY <1>1 DEF SsoInv, OwnersOK, PastClaim
<1>. DEFINE found == identity[callback[c].issuer]
<1>3. PICK stage \in {"open", "migrate", "create"} :
        /\ callback' = [callback EXCEPT ![c].account = found, ![c].at = stage]
        /\ stage = "open" => found # Nothing
  BY DEF Sso!LookUp
<1>4. callback' = [callback EXCEPT ![c] = Found(callback[c], found, stage)]
  BY <1>1, <1>3 DEF Found
<1>5. /\ Found(callback[c], found, stage) \in Callbacks
      /\ Found(callback[c], found, stage).at = stage
      /\ Found(callback[c], found, stage).flow = callback[c].flow
      /\ Found(callback[c], found, stage).issuer = callback[c].issuer
      /\ Found(callback[c], found, stage).account = found
  BY <1>1, <1>2, CallbacksTyped DEF Sso!Stages
<1>6. stage = "open" => found \in Username /\ owner[found] = callback[c].issuer
  BY <1>1, <1>2, <1>3 DEF SsoInv, OwnersOK
<1>. QED BY <1>1, <1>2, <1>4, <1>5, <1>6, CallbackMoves DEF PastClaim

(* A callback goes on and links an identity to an account of its person.       *)
LEMMA CallbackLinks ==
  ASSUME SsoInv, NEW c \in Callback, NEW new \in Callbacks, NEW i \in Issuer,
         NEW name \in Username,
         callback[c].at \in PastClaim, i = callback[c].issuer,
         callback' = [callback EXCEPT ![c] = new],
         identity' = [identity EXCEPT ![i] = name],
         owner' = owner \/ (owner' = [owner EXCEPT ![name] = i] /\ owner[name] = Nothing),
         owner'[name] = i,
         legacy' = legacy \/ legacy' = [account |-> Nothing, iss |-> Nothing],
         UNCHANGED <<issuer, flow, entered>>,
         new.at \in PastClaim, new.flow = callback[c].flow, new.issuer = i,
         new.at = "open" => new.account = name
  PROVE  SsoInv'
<1>1. /\ callback \in [Callback -> Callbacks] /\ identity \in [Issuer -> Username \cup {Nothing}]
      /\ owner \in [Username -> Issuer \cup {Nothing}]
      /\ entered \subseteq Flow \X Issuer \X Username
      /\ legacy \in [account : Username \cup {Nothing}, iss : Issuer \cup {Nothing}]
  BY SsoTypes DEF SsoInv, Sso!TypeOK
<1>2. /\ callback' \in [Callback -> Callbacks] /\ callback'[c] = new
      /\ \A d \in Callback : d # c => callback'[d] = callback[d]
  BY <1>1
<1>3. /\ identity' \in [Issuer -> Username \cup {Nothing}] /\ identity'[i] = name
      /\ \A j \in Issuer : j # i => identity'[j] = identity[j]
  BY <1>1
<1>4. /\ owner' \in [Username -> Issuer \cup {Nothing}]
      /\ \A u \in Username : owner[u] # Nothing => owner'[u] = owner[u]
  BY <1>1
<1>5. legacy' \in [account : Username \cup {Nothing}, iss : Issuer \cup {Nothing}]
  BY <1>1
<1>6. Sso!TypeOK'
  BY <1>2, <1>3, <1>4, <1>5 DEF SsoInv, Sso!TypeOK, Callbacks
<1>7. ClaimsOK'
  BY <1>2 DEF SsoInv, ClaimsOK, Spent
<1>8. ASSUME NEW d \in Callback
      PROVE  /\ callback'[d].at \in PastClaim \cup {"exchanged"} => callback'[d].issuer \in Issuer
             /\ callback'[d].at = "open" => /\ callback'[d].account \in Username
                                            /\ owner'[callback'[d].account] = callback'[d].issuer
  <2>1. CASE d = c
    BY <1>2, <2>1
  <2>2. CASE d # c
    BY <1>2, <1>4, <2>2, SsoAssumption DEF SsoInv, OwnersOK, PastClaim
  <2>. QED BY <2>1, <2>2
<1>9. \A j \in Issuer : identity'[j] # Nothing => owner'[identity'[j]] = j
  BY <1>1, <1>3, <1>4, SsoAssumption DEF SsoInv, OwnersOK
<1>10. legacy'.account # Nothing /\ legacy'.iss # Nothing => owner'[legacy'.account] = legacy'.iss
  BY <1>1, <1>4, <1>5 DEF SsoInv, OwnersOK
<1>11. \A e \in entered' : owner'[e[3]] = e[2]
  BY <1>1, <1>4, SsoAssumption DEF SsoInv, OwnersOK
<1>. QED BY <1>6, <1>7, <1>8, <1>9, <1>10, <1>11 DEF SsoInv, OwnersOK

LEMMA CallbackMigrates ==
  ASSUME SsoInv, NEW c \in Callback, Sso!MigrateLegacy(c)
  PROVE  SsoInv'
<1>. DEFINE i == callback[c].issuer
<1>1. /\ callback \in [Callback -> Callbacks] /\ issuer \in Issuer
      /\ legacy.account \in Username \cup {Nothing} /\ callback[c].at = "migrate"
      /\ UNCHANGED <<issuer, flow, owner, entered>>
  BY SsoTypes DEF SsoInv, Sso!MigrateLegacy, Sso!At
<1>2. i \in Issuer
  BY <1>1 DEF SsoInv, OwnersOK, PastClaim
<1>3. \A stage \in Sso!Stages : Sso!Go(c, stage) =>
        callback' = [callback EXCEPT ![c] = GoneOn(callback[c], stage)]
  BY <1>1 DEF Sso!Go, GoneOn
<1>4. \A stage \in Sso!Stages :
        /\ GoneOn(callback[c], stage) \in Callbacks /\ GoneOn(callback[c], stage).at = stage
        /\ GoneOn(callback[c], stage).flow = callback[c].flow
        /\ GoneOn(callback[c], stage).issuer = callback[c].issuer
  BY <1>1, CallbacksTyped
<1>5. CASE legacy.account = Nothing \/ legacy.iss # i
  <2>1. Sso!Go(c, "create") /\ UNCHANGED <<identity, legacy>> /\ "create" \in Sso!Stages
    BY <1>5 DEF Sso!MigrateLegacy, Sso!Stages
  <2>. QED BY <1>1, <1>2, <1>3, <1>4, <2>1, CallbackMoves DEF PastClaim
<1>6. CASE ~(legacy.account = Nothing \/ legacy.iss # i) /\ identity[i] # Nothing
  BY <1>1, <1>6, CallbackAnswers DEF Sso!MigrateLegacy
<1>7. CASE ~(legacy.account = Nothing \/ legacy.iss # i) /\ identity[i] = Nothing
  <2>1. /\ identity' = [identity EXCEPT ![i] = legacy.account]
        /\ legacy' = [account |-> Nothing, iss |-> Nothing]
        /\ Sso!Go(c, "relook") /\ "relook" \in Sso!Stages
    BY <1>7 DEF Sso!MigrateLegacy, Sso!Stages
  <2>2. legacy.account \in Username /\ owner[legacy.account] = i
    <3>1. legacy.account # Nothing /\ legacy.iss = i /\ i # Nothing
      BY <1>2, <1>7, SsoAssumption
    <3>2. legacy.account # Nothing /\ legacy.iss # Nothing => owner[legacy.account] = legacy.iss
      BY DEF SsoInv, OwnersOK
    <3>. QED BY <1>1, <3>1, <3>2
  <2>. QED BY <1>1, <1>2, <1>3, <1>4, <2>1, <2>2, CallbackLinks DEF PastClaim
<1>. QED BY <1>5, <1>6, <1>7

LEMMA CallbackProvisions ==
  ASSUME SsoInv, NEW c \in Callback, NEW name \in Username, Sso!ProvisionUser(c, name)
  PROVE  SsoInv'
<1>. DEFINE i == callback[c].issuer
<1>1. /\ callback \in [Callback -> Callbacks] /\ issuer \in Issuer
      /\ owner \in [Username -> Issuer \cup {Nothing}] /\ callback[c].at = "create"
      /\ UNCHANGED <<issuer, flow, legacy, entered>>
  BY SsoTypes DEF SsoInv, Sso!ProvisionUser, Sso!At
<1>2. i \in Issuer
  BY <1>1 DEF SsoInv, OwnersOK, PastClaim
<1>3. CASE owner[name] = Nothing /\ identity[i] = Nothing
  <2>. DEFINE new == Found(callback[c], name, "open")
  <2>1. /\ owner' = [owner EXCEPT ![name] = i] /\ identity' = [identity EXCEPT ![i] = name]
        /\ callback' = [callback EXCEPT ![c] = new]
    BY <1>1, <1>3 DEF Sso!ProvisionUser, Found
  <2>2. new \in Callbacks /\ new.at = "open" /\ new.flow = callback[c].flow
        /\ new.issuer = i /\ new.account = name
    BY <1>1, CallbacksTyped DEF Sso!Stages
  <2>3. owner'[name] = i
    BY <1>1, <2>1
  <2>. HIDE DEF new
  <2>. QED BY <1>1, <1>2, <1>3, <2>1, <2>2, <2>3, CallbackLinks DEF PastClaim
<1>4. CASE ~(owner[name] = Nothing /\ identity[i] = Nothing)
  BY <1>1, <1>4, CallbackAnswers DEF Sso!ProvisionUser
<1>. QED BY <1>3, <1>4

LEMMA SessionOpens ==
  ASSUME SsoInv, NEW c \in Callback, Sso!OpenSession(c)
  PROVE  SsoInv'
<1>. DEFINE new == <<callback[c].flow, callback[c].issuer, callback[c].account>>
<1>1. /\ callback \in [Callback -> Callbacks] /\ entered \subseteq Flow \X Issuer \X Username
      /\ callback[c].at = "open" /\ callback' = [callback EXCEPT ![c] = Sso!Blank]
      /\ entered' = entered \cup {new} /\ UNCHANGED <<issuer, flow, identity, legacy, owner>>
  BY SsoTypes DEF SsoInv, Sso!OpenSession, Sso!At, Sso!Answer
<1>2. /\ callback[c].issuer \in Issuer /\ callback[c].account \in Username
      /\ callback[c].flow \in Flow /\ owner[callback[c].account] = callback[c].issuer
  BY <1>1 DEF SsoInv, OwnersOK, PastClaim, Callbacks
<1>3. /\ new \in Flow \X Issuer \X Username
      /\ new[1] = callback[c].flow /\ owner[new[3]] = new[2]
  BY <1>2
<1>. HIDE DEF new
<1>4. /\ callback' \in [Callback -> Callbacks] /\ callback'[c].at = "idle"
      /\ \A d \in Callback : d # c => callback'[d] = callback[d]
  BY <1>1, BlankTyped
<1>5. Sso!TypeOK'
  BY <1>1, <1>3, <1>4 DEF SsoInv, Sso!TypeOK, Callbacks
<1>6. ClaimsOK'
  BY <1>1, <1>3, <1>4 DEF SsoInv, ClaimsOK, PastClaim, Spent
<1>7. OwnersOK'
  BY <1>1, <1>3, <1>4 DEF SsoInv, OwnersOK, PastClaim
<1>. QED BY <1>5, <1>6, <1>7 DEF SsoInv

LEMMA SsoStep ==
  ASSUME SsoInv, [Sso!Next]_ofSso
  PROVE  SsoInv'
<1>0. /\ callback \in [Callback -> Callbacks] /\ flow \in [Flow -> Flows] /\ issuer \in Issuer
  BY SsoTypes DEF SsoInv
<1>1. CASE UNCHANGED ofSso
  BY <1>1 DEF ofSso, SsoInv, Sso!TypeOK, ClaimsOK, OwnersOK, Spent
<1>2. ASSUME NEW i \in Issuer, Sso!SaveIssuer(i) PROVE SsoInv'
  BY <1>0, <1>2, FlowsMove DEF Sso!SaveIssuer, Spent
<1>3. ASSUME NEW c \in Callback, NEW f \in Flow, Sso!Refused(c, f) PROVE SsoInv'
  <2>1. /\ callback' = [callback EXCEPT ![c] = Refusing(f)]
        /\ UNCHANGED <<issuer, flow, identity, legacy, owner, entered>>
    BY <1>3 DEF Sso!Refused, Refusing
  <2>. QED BY <1>0, <2>1, CallbacksTyped, CallbackMoves DEF PastClaim
<1>4. ASSUME NEW c \in Callback, NEW f \in Flow, Sso!Exchange(c, f) PROVE SsoInv'
  <2>1. /\ callback' = [callback EXCEPT ![c] = Exchanging(f)]
        /\ UNCHANGED <<issuer, flow, identity, legacy, owner, entered>>
    BY <1>4 DEF Sso!Exchange, Exchanging
  <2>. QED BY <1>0, <2>1, CallbacksTyped, CallbackMoves DEF PastClaim
<1>5. ASSUME NEW c \in Callback, Sso!ClaimFlow(c) PROVE SsoInv'
  <2>1. CASE flow[callback[c].flow].state = "open"
    BY <1>5, <2>1, CallbackClaims
  <2>2. CASE flow[callback[c].flow].state # "open"
    BY <1>5, <2>2, CallbackAnswers DEF Sso!ClaimFlow
  <2>. QED BY <2>1, <2>2
<1>. QED BY <1>1, <1>2, <1>3, <1>4, <1>5, FlowStarts, FlowExpires, RefusalConsumes, CallbackLooks,
     CallbackMigrates, CallbackProvisions, SessionOpens DEF Sso!Next

LEMMA SsoIsSafe ==
  ASSUME SsoInv
  PROVE  Sso!OneCallbackPerFlow /\ Sso!NoTakeover
BY DEF SsoInv, ClaimsOK, OwnersOK, PastClaim, Sso!OneCallbackPerFlow, Sso!NoTakeover

-----------------------------------------------------------------------------
(***************************************************************************)
(* The client secret of Keycloak (auth/oidc.go).                            *)
(***************************************************************************)

SecretSteps == {"idle", "read", "migrate", "reread", "save"}
Saves == [enable : BOOLEAN, secret : Sealed!Optional]
Readers == [at : SecretSteps, save : Saves, saving : BOOLEAN, found : Sealed!Optional]

(* The setting has a value that is recorded, the administrator's if one was    *)
(* ever stored; what a Pod is about to migrate is a secret.                    *)
SealedInv ==
  /\ Sealed!TypeOK
  /\ shared # 0 => shared \in everShared
  /\ saved # 0 => shared = saved
  /\ \A p \in SecretPod : /\ Sealed!At(p, "migrate") => reader[p].found # 0
                          /\ used[p] \in everShared \cup {0}

(* A reader that is set up or goes on.                                        *)
Begun(save) == [Sealed!Quiet EXCEPT !.at = "read", !.saving = TRUE, !.save = save]
Further(r, step) == [r EXCEPT !.at = step]
Finding(r, secret) == [r EXCEPT !.at = "migrate", !.found = secret]

LEMMA ReadersTyped ==
  /\ Sealed!Quiet \in Readers /\ Sealed!Quiet.at = "idle"
  /\ \A save \in Saves : /\ Begun(save) \in Readers
                                             /\ Begun(save).at = "read"
  /\ \A r \in Readers, step \in SecretSteps : /\ Further(r, step) \in Readers
                                              /\ Further(r, step).at = step
  /\ \A r \in Readers, secret \in Sealed!Optional :
       /\ Finding(r, secret) \in Readers /\ Finding(r, secret).found = secret
<1>1. Sealed!Quiet \in Readers /\ Sealed!Quiet.at = "idle"
  BY DEF Sealed!Quiet, Sealed!NoSave, Readers, Saves, SecretSteps, Sealed!Optional
<1>2. ASSUME NEW save \in Saves
      PROVE  Begun(save) \in Readers /\ Begun(save).at = "read"
  BY DEF Begun, Sealed!Quiet, Readers, SecretSteps, Sealed!Optional
<1>3. ASSUME NEW r \in Readers, NEW step \in SecretSteps
      PROVE  Further(r, step) \in Readers /\ Further(r, step).at = step
  BY DEF Further, Readers
<1>4. ASSUME NEW r \in Readers, NEW secret \in Sealed!Optional
      PROVE  Finding(r, secret) \in Readers /\ Finding(r, secret).found = secret
  BY DEF Finding, Readers, SecretSteps
<1>. QED BY <1>1, <1>2, <1>3, <1>4

LEMMA SealedInitial ==
  ASSUME Sealed!Init
  PROVE  SealedInv
BY ReadersTyped, SecretAssumption DEF Sealed!Init, SealedInv, Sealed!TypeOK, Sealed!Optional, Sealed!At,
   Readers, Saves, SecretSteps

(* One Pod's reader moves; what the Pods have shared only grows.               *)
LEMMA SealedMoves ==
  ASSUME SealedInv, NEW p \in SecretPod, NEW new \in Readers,
         reader' = [reader EXCEPT ![p] = new], UNCHANGED fileSecret,
         new.at = "migrate" => new.found # 0,
         NEW secret \in everShared' \cup {0},
         used' = [used EXCEPT ![p] = secret] \/ UNCHANGED used,
         everShared \subseteq everShared', everShared' \subseteq Secrets,
         shared' \in Sealed!Optional, saved' \in Sealed!Optional, enabled' \in BOOLEAN,
         shared' # 0 => shared' \in everShared',
         saved' # 0 => shared' = saved'
  PROVE  SealedInv'
<1>1. /\ reader' \in [SecretPod -> Readers] /\ reader'[p] = new
      /\ \A q \in SecretPod : q # p => reader'[q] = reader[q]
  BY DEF SealedInv, Sealed!TypeOK, Readers, SecretSteps, Saves
<1>2. /\ used' \in [SecretPod -> Sealed!Optional]
      /\ \A q \in SecretPod : used'[q] \in everShared' \cup {0}
  <2>1. secret \in Sealed!Optional
    BY DEF Sealed!Optional
  <2>2. used \in [SecretPod -> Sealed!Optional] /\ \A q \in SecretPod : used[q] \in everShared \cup {0}
    BY DEF SealedInv, Sealed!TypeOK
  <2>. QED BY <2>1, <2>2
<1>3. Sealed!TypeOK'
  BY <1>1, <1>2 DEF SealedInv, Sealed!TypeOK, Readers, SecretSteps, Saves
<1>4. \A q \in SecretPod : (Sealed!At(q, "migrate") => reader[q].found # 0)'
  BY <1>1 DEF SealedInv, Sealed!At
<1>. QED BY <1>2, <1>3, <1>4 DEF SealedInv

(* clientSecret returns a secret that is shared, or none.                      *)
LEMMA SealedReturns ==
  ASSUME SealedInv, NEW p \in SecretPod, Sealed!Return(p, shared),
         UNCHANGED <<shared, enabled, fileSecret, saved, everShared>>
  PROVE  SealedInv'
<1>1. /\ reader \in [SecretPod -> Readers] /\ shared \in everShared \cup {0}
      /\ everShared \subseteq Secrets /\ shared \in Sealed!Optional /\ saved \in Sealed!Optional
      /\ enabled \in BOOLEAN /\ (saved # 0 => shared = saved)
  BY DEF SealedInv, Sealed!TypeOK, Readers, SecretSteps, Saves
<1>2. PICK new \in {Sealed!Quiet, Further(reader[p], "save")} :
        reader' = [reader EXCEPT ![p] = new]
  BY <1>1 DEF Sealed!Return, Further
<1>3. new \in Readers /\ new.at # "migrate"
  BY <1>1, <1>2, ReadersTyped DEF SecretSteps
<1>4. used' = [used EXCEPT ![p] = shared]
  BY DEF Sealed!Return
<1>. QED BY <1>1, <1>2, <1>3, <1>4, SealedMoves

LEMMA SealedStep ==
  ASSUME SealedInv, [Sealed!Next]_ofSealed
  PROVE  SealedInv'
<1>0. /\ reader \in [SecretPod -> Readers] /\ shared \in Sealed!Optional
      /\ everShared \subseteq Secrets /\ saved \in Sealed!Optional
      /\ fileSecret \in [SecretPod -> Sealed!Optional]
      /\ enabled \in BOOLEAN /\ (saved # 0 => shared = saved)
      /\ (shared # 0 => shared \in everShared)
  BY DEF SealedInv, Sealed!TypeOK, Readers, SecretSteps, Saves
<1>1. CASE UNCHANGED ofSealed
  BY <1>1 DEF ofSealed, SealedInv, Sealed!TypeOK, Sealed!At
<1>2. ASSUME NEW p \in SecretPod, Sealed!ClientSecret(p) PROVE SealedInv'
  <2>1. /\ reader' = [reader EXCEPT ![p] = Further(Sealed!Quiet, "read")]
        /\ UNCHANGED <<shared, enabled, fileSecret, used, saved, everShared>>
    BY <1>2 DEF Sealed!ClientSecret, Further
  <2>2. Further(Sealed!Quiet, "read") \in Readers /\ Further(Sealed!Quiet, "read").at = "read"
    BY ReadersTyped DEF SecretSteps
  <2>. QED BY <1>0, <2>1, <2>2, SealedMoves
<1>3. ASSUME NEW p \in SecretPod, NEW enable \in BOOLEAN, NEW secret \in Sealed!Optional,
             Sealed!SaveSettings(p, enable, secret)
      PROVE  SealedInv'
  <2>. DEFINE save == [enable |-> enable, secret |-> secret]
  <2>1. /\ reader' = [reader EXCEPT ![p] = Begun(save)]
        /\ UNCHANGED <<shared, enabled, fileSecret, used, saved, everShared>>
    BY <1>3 DEF Sealed!SaveSettings, Begun
  <2>2. Begun(save) \in Readers /\ Begun(save).at = "read"
    BY ReadersTyped DEF Saves
  <2>. QED BY <1>0, <2>1, <2>2, SealedMoves
<1>4. ASSUME NEW p \in SecretPod, Sealed!ReadShared(p) PROVE SealedInv'
  <2>1. CASE shared # 0 \/ fileSecret[p] = 0
    BY <1>4, <2>1, SealedReturns DEF Sealed!ReadShared
  <2>2. CASE ~(shared # 0 \/ fileSecret[p] = 0)
    <3>1. /\ reader' = [reader EXCEPT ![p] = Finding(reader[p], fileSecret[p])]
          /\ UNCHANGED <<shared, enabled, fileSecret, used, saved, everShared>>
      BY <1>0, <1>4, <2>2 DEF Sealed!ReadShared, Finding
    <3>2. /\ Finding(reader[p], fileSecret[p]) \in Readers
          /\ Finding(reader[p], fileSecret[p]).found # 0
      BY <1>0, <2>2, ReadersTyped
    <3>. QED BY <1>0, <3>1, <3>2, SealedMoves
  <2>. QED BY <2>1, <2>2
<1>5. ASSUME NEW p \in SecretPod, Sealed!Migrate(p) PROVE SealedInv'
  <2>1. /\ reader' = [reader EXCEPT ![p] = Further(reader[p], "reread")]
        /\ UNCHANGED <<enabled, fileSecret, used, saved>>
    BY <1>0, <1>5 DEF Sealed!Migrate, Further
  <2>2. Further(reader[p], "reread") \in Readers /\ Further(reader[p], "reread").at = "reread"
    BY <1>0, ReadersTyped DEF SecretSteps
  <2>3. reader[p].found \in Sealed!Optional /\ reader[p].found # 0
    BY <1>0, <1>5 DEF Sealed!Migrate, SealedInv, Readers, Sealed!At
  <2>4. /\ shared' = IF shared = 0 THEN reader[p].found ELSE shared
        /\ everShared' = everShared \cup {shared'}
    BY <1>5 DEF Sealed!Migrate
  <2>5. /\ shared' \in Secrets /\ everShared' \subseteq Secrets /\ shared' \in everShared'
        /\ everShared \subseteq everShared' /\ (saved # 0 => shared' = saved)
    BY <1>0, <2>3, <2>4 DEF Sealed!Optional
  <2>. QED BY <1>0, <2>1, <2>2, <2>5, SealedMoves DEF Sealed!Optional
<1>6. ASSUME NEW p \in SecretPod, Sealed!ReadWinner(p) PROVE SealedInv'
  BY <1>6, SealedReturns DEF Sealed!ReadWinner
<1>7. ASSUME NEW p \in SecretPod, Sealed!CommitSettings(p) PROVE SealedInv'
  <2>1. /\ reader' = [reader EXCEPT ![p] = Sealed!Quiet] /\ UNCHANGED <<fileSecret, used>>
        /\ enabled' = reader[p].save.enable
    BY <1>7 DEF Sealed!CommitSettings
  <2>2. /\ reader[p].save.secret \in Sealed!Optional /\ reader[p].save.enable \in BOOLEAN
    BY <1>0 DEF Readers, Saves
  <2>3. CASE reader[p].save.secret = 0
    <3>1. UNCHANGED <<shared, saved, everShared>>
      BY <1>7, <2>3 DEF Sealed!CommitSettings
    <3>. QED BY <1>0, <2>1, <2>2, <3>1, ReadersTyped, SealedMoves
  <2>4. CASE reader[p].save.secret # 0
    <3>1. /\ shared' = reader[p].save.secret /\ saved' = shared'
          /\ everShared' = everShared \cup {shared'}
      BY <1>7, <2>4 DEF Sealed!CommitSettings
    <3>2. shared' \in Secrets /\ everShared' \subseteq Secrets
      BY <1>0, <2>2, <2>4, <3>1 DEF Sealed!Optional
    <3>. QED BY <1>0, <2>1, <2>2, <3>1, <3>2, ReadersTyped, SealedMoves DEF Sealed!Optional
  <2>. QED BY <2>3, <2>4
<1>. QED BY <1>1, <1>2, <1>3, <1>4, <1>5, <1>6, <1>7 DEF Sealed!Next

LEMMA SealedIsSafe ==
  ASSUME SealedInv
  PROVE  Sealed!AdministratorsSecretStays /\ Sealed!SharedSecretUsed
BY DEF SealedInv, Sealed!AdministratorsSecretStays, Sealed!SharedSecretUsed

-----------------------------------------------------------------------------
(***************************************************************************)
(* The limit on requests (agentRateLimiter, httpapi/agents.go).             *)
(***************************************************************************)

Entries == [start : 0 .. MaxInstant, count : 0 .. Limit]

(* The admissions come in order, and of twice the limit in a row the last comes   *)
(* a window after the first.                                                    *)
LogOK(s, t) ==
  /\ \A n \in DOMAIN s : s[n] <= t
  /\ \A n, m \in DOMAIN s : n <= m => s[n] <= s[m]
  /\ \A n, m \in DOMAIN s : m = n + 2 * Limit - 1 => s[n] + Window <= s[m]

(* An open window began with the admission that it counts first.  Whatever was    *)
(* admitted the limit before it, or before the next one when none is open, was    *)
(* admitted a window before.                                                    *)
EntryOK(e, s, t) ==
  /\ e.start # 0 =>
       /\ e.count \in 1 .. Len(s) /\ e.count <= Limit /\ s[Len(s) - e.count + 1] = e.start
       /\ \A m \in DOMAIN s : m + Limit <= Len(s) - e.count + 1 => s[m] + Window <= e.start
  /\ e.start = 0 =>
       \A m \in DOMAIN s : m + Limit <= Len(s) + 1 => s[m] + Window <= t

(* No window is older than the last sweep allows.                              *)
SweepOK(e) == e.start # 0 => e.start <= called /\ sweptAt < e.start + Window

LimitsInv ==
  /\ Limits!TypeOK
  /\ sweptAt <= called /\ called <= instant
  /\ called # 0 => sweptAt # 0 /\ called < sweptAt + Window
  /\ \A k \in Key : /\ LogOK(admitted[k], instant)
                    /\ EntryOK(window[k], admitted[k], instant)
                    /\ SweepOK(window[k])

LEMMA LimitsTypes ==
  ASSUME Limits!TypeOK
  PROVE  /\ window \in [Key -> Entries] /\ sweptAt \in Nat /\ instant \in Nat \ {0}
         /\ called \in Nat /\ admitted \in [Key -> Seq(Limits!Instant)]
         /\ instant <= MaxInstant /\ instant \in Limits!Instant /\ sweptAt <= MaxInstant
BY LimitAssumption DEF Limits!TypeOK, Entries, Limits!Instant

LEMMA LimitsInitial ==
  ASSUME Limits!Init
  PROVE  LimitsInv
<1>1. /\ window = [k \in Key |-> Limits!NoEntry] /\ sweptAt = 0 /\ instant = 1 /\ called = 0
      /\ admitted = [k \in Key |-> <<>>]
  BY DEF Limits!Init
<1>2. Limits!NoEntry \in Entries /\ Limits!NoEntry.start = 0
  BY LimitAssumption DEF Limits!NoEntry, Entries
<1>3. Limits!TypeOK
  <2>1. window \in [Key -> Entries] /\ admitted \in [Key -> Seq(Limits!Instant)]
    BY <1>1, <1>2
  <2>. QED BY <1>1, <2>1, LimitAssumption DEF Limits!TypeOK, Entries, Limits!Instant
<1>4. \A k \in Key : /\ LogOK(admitted[k], instant)
                     /\ EntryOK(window[k], admitted[k], instant)
                     /\ SweepOK(window[k])
  BY <1>1, <1>2 DEF LogOK, EntryOK, SweepOK
<1>. QED BY <1>1, <1>3, <1>4 DEF LimitsInv

(* A window that is over leaves nothing recent behind.                         *)
LEMMA WindowForgotten ==
  ASSUME NEW e \in Entries, NEW s \in Seq(Limits!Instant), NEW t \in Nat,
         LogOK(s, t), EntryOK(e, s, t), t - e.start >= Window,
         NEW m \in DOMAIN s, m + Limit <= Len(s) + 1
  PROVE  s[m] + Window <= t
<1>1. /\ e.start \in Nat /\ e.count \in Nat /\ Len(s) \in Nat /\ m \in 1 .. Len(s)
      /\ Limit \in Nat /\ Window \in Nat /\ s[m] \in Nat /\ DOMAIN s = 1 .. Len(s)
  BY LimitAssumption DEF Entries, Limits!Instant
<1>2. CASE e.start = 0
  BY <1>2 DEF EntryOK
<1>3. CASE e.start # 0
  <2>. DEFINE first == Len(s) - e.count + 1
  <2>1. /\ first \in DOMAIN s /\ m <= first /\ s[first] = e.start
    BY <1>1, <1>3 DEF EntryOK
  <2>2. s[m] <= e.start
    BY <2>1 DEF LogOK
  <2>. QED BY <1>1, <2>2
<1>. QED BY <1>2, <1>3

(* A request that is admitted joins the log.                                   *)
LEMMA RequestAdmitted ==
  ASSUME NEW e \in Entries, NEW s \in Seq(Limits!Instant),
         LogOK(s, instant), EntryOK(e, s, instant), instant \in Limits!Instant,
         ~(e.start # 0 /\ ~Limits!Over(e) /\ e.count >= Limit)
  PROVE  /\ Limits!Counted(e) \in Entries /\ Append(s, instant) \in Seq(Limits!Instant)
         /\ LogOK(Append(s, instant), instant)
         /\ EntryOK(Limits!Counted(e), Append(s, instant), instant)
         /\ Limits!Counted(e).start \in {e.start, instant} \ {0}
<1>. DEFINE u == Append(s, instant)
            k == Len(s) + 1
<1>1. /\ e.start \in Nat /\ e.count \in Nat /\ Len(s) \in Nat /\ DOMAIN s = 1 .. Len(s)
      /\ Limit \in Nat \ {0} /\ Window \in Nat \ {0} /\ instant \in Nat \ {0}
      /\ instant <= MaxInstant /\ MaxInstant \in Nat
      /\ \A n \in DOMAIN s : s[n] \in Nat
  BY LimitAssumption DEF Entries, Limits!Instant
<1>2. /\ u \in Seq(Limits!Instant) /\ Len(u) = k /\ DOMAIN u = 1 .. k
      /\ u[k] = instant /\ \A n \in DOMAIN s : u[n] = s[n]
  OBVIOUS
<1>. HIDE DEF u
<1>3. /\ \A n \in DOMAIN u : u[n] <= instant
      /\ \A n, m \in DOMAIN u : n <= m => u[n] <= u[m]
  <2>1. \A n \in DOMAIN u : u[n] <= instant
    BY <1>1, <1>2 DEF LogOK
  <2>2. ASSUME NEW n \in DOMAIN u, NEW m \in DOMAIN u, n <= m PROVE u[n] <= u[m]
    <3>1. CASE m = k
      BY <1>2, <2>1, <3>1
    <3>2. CASE m # k
      <4>1. n \in DOMAIN s /\ m \in DOMAIN s
        BY <1>1, <1>2, <2>2, <3>2
      <4>. QED BY <1>2, <2>2, <4>1 DEF LogOK
    <3>. QED BY <3>1, <3>2
  <2>. QED BY <2>1, <2>2
<1>4. CASE e.start = 0 \/ Limits!Over(e)
  <2>1. Limits!Counted(e) = [start |-> instant, count |-> 1]
    BY <1>4 DEF Limits!Counted
  <2>2. \A m \in DOMAIN s : m + Limit <= k => s[m] + Window <= instant
    BY <1>1, <1>4, WindowForgotten DEF EntryOK, Limits!Over
  <2>3. ASSUME NEW n \in DOMAIN u, NEW m \in DOMAIN u, m = n + 2 * Limit - 1
        PROVE  u[n] + Window <= u[m]
    <3>1. CASE m = k
      <4>1. n \in DOMAIN s /\ n + Limit <= k
        BY <1>1, <1>2, <2>3, <3>1
      <4>. QED BY <1>2, <2>2, <3>1, <4>1
    <3>2. CASE m # k
      <4>1. n \in DOMAIN s /\ m \in DOMAIN s
        BY <1>1, <1>2, <2>3, <3>2
      <4>. QED BY <1>2, <2>3, <4>1 DEF LogOK
    <3>. QED BY <3>1, <3>2
  <2>4. LogOK(u, instant)
    BY <1>3, <2>3 DEF LogOK
  <2>5. Limits!Counted(e) \in Entries
    BY <1>1, <2>1 DEF Entries
  <2>6. \A m \in DOMAIN u : m + Limit <= Len(u) => u[m] + Window <= instant
    <3>1. ASSUME NEW m \in DOMAIN u, m + Limit <= k PROVE u[m] + Window <= instant
      <4>1. m \in DOMAIN s
        BY <1>1, <1>2, <3>1
      <4>. QED BY <1>2, <2>2, <3>1, <4>1
    <3>. QED BY <1>2, <3>1
  <2>7. EntryOK([start |-> instant, count |-> 1], u, instant)
    BY <1>1, <1>2, <2>6 DEF EntryOK
  <2>. QED BY <1>1, <1>2, <2>1, <2>4, <2>5, <2>7 DEF u
<1>5. CASE ~(e.start = 0 \/ Limits!Over(e))
  <2>. DEFINE c == e.count
              new == [e EXCEPT !.count = c + 1]
  <2>1. Limits!Counted(e) = new
    BY <1>5 DEF Limits!Counted
  <2>2. c + 1 <= Limit /\ c + 1 \in 0 .. Limit /\ c \in 1 .. Len(s)
    BY <1>1, <1>5 DEF EntryOK
  <2>3. new \in Entries /\ new.start = e.start /\ new.count = c + 1
    BY <1>1, <2>2 DEF Entries
  <2>4. /\ s[k - c] = e.start /\ k - c \in DOMAIN s
        /\ \A m \in DOMAIN s : m + Limit <= k - c => s[m] + Window <= e.start
    <3>. DEFINE l == Len(s)
    <3>1. l \in Nat /\ c \in 1 .. l /\ k = l + 1 /\ DOMAIN s = 1 .. l
      BY <1>1, <2>2
    <3>2. /\ l - c + 1 \in DOMAIN s /\ s[l - c + 1] = e.start
          /\ \A m \in DOMAIN s : m + Limit <= l - c + 1 => s[m] + Window <= e.start
      BY <1>5, <2>2 DEF EntryOK
    <3>. HIDE DEF l, c, k
    <3>3. l - c + 1 = k - c
      BY <3>1
    <3>. QED BY <3>2, <3>3
  <2>5. ASSUME NEW n \in DOMAIN u, NEW m \in DOMAIN u, m = n + 2 * Limit - 1
        PROVE  u[n] + Window <= u[m]
    <3>1. CASE m = k
      <4>1. n \in DOMAIN s /\ n + Limit <= k - c
        BY <1>1, <1>2, <2>2, <2>5, <3>1
      <4>2. s[n] + Window <= e.start /\ e.start <= instant
        BY <1>1, <2>4, <4>1 DEF LogOK
      <4>. QED BY <1>1, <1>2, <3>1, <4>1, <4>2
    <3>2. CASE m # k
      <4>1. n \in DOMAIN s /\ m \in DOMAIN s
        BY <1>1, <1>2, <2>5, <3>2
      <4>. QED BY <1>2, <2>5, <4>1 DEF LogOK
    <3>. QED BY <3>1, <3>2
  <2>6. LogOK(u, instant)
    BY <1>3, <2>5 DEF LogOK
  <2>7. Len(u) - (c + 1) + 1 = k - c
    BY <1>1, <1>2, <2>2
  <2>8. \A m \in DOMAIN u : m + Limit <= k - c => u[m] + Window <= e.start
    <3>1. ASSUME NEW m \in DOMAIN u, m + Limit <= k - c PROVE u[m] + Window <= e.start
      <4>1. m \in DOMAIN s
        BY <1>1, <1>2, <2>2, <3>1
      <4>. QED BY <1>2, <2>4, <3>1, <4>1
    <3>. QED BY <3>1
  <2>9. u[k - c] = e.start /\ c + 1 \in 1 .. Len(u) /\ e.start # 0
    BY <1>1, <1>2, <1>5, <2>2, <2>4
  <2>. HIDE DEF new
  <2>10. EntryOK(new, u, instant)
    BY <2>2, <2>3, <2>7, <2>8, <2>9 DEF EntryOK
  <2>. QED BY <1>2, <1>5, <2>1, <2>3, <2>6, <2>10 DEF u
<1>. QED BY <1>4, <1>5

(* The table after the sweep.                                                 *)
LEMMA TableSwept ==
  ASSUME LimitsInv
  PROVE  /\ Limits!Swept \in [Key -> Entries]
         /\ Limits!SweepTime \in 1 .. MaxInstant /\ Limits!SweepTime <= instant
         /\ instant < Limits!SweepTime + Window
         /\ \A k \in Key : /\ EntryOK(Limits!Swept[k], admitted[k], instant)
                           /\ Limits!Swept[k].start # 0 =>
                                /\ Limits!Swept[k].start <= called
                                /\ Limits!SweepTime < Limits!Swept[k].start + Window
<1>1. /\ window \in [Key -> Entries] /\ sweptAt \in Nat /\ instant \in Nat \ {0} /\ called \in Nat
      /\ admitted \in [Key -> Seq(Limits!Instant)] /\ instant <= MaxInstant
      /\ Window \in Nat \ {0} /\ MaxInstant \in Nat
      /\ sweptAt <= called /\ called <= instant /\ sweptAt <= MaxInstant
  BY LimitsTypes, LimitAssumption DEF LimitsInv
<1>2. \A k \in Key : /\ LogOK(admitted[k], instant) /\ EntryOK(window[k], admitted[k], instant)
                     /\ SweepOK(window[k]) /\ window[k].start \in Nat
  BY <1>1 DEF LimitsInv, Entries
<1>3. CASE sweptAt # 0 /\ instant - sweptAt < Window
  <2>1. Limits!Swept = window /\ Limits!SweepTime = sweptAt
    BY <1>3 DEF Limits!Swept, Limits!SweepTime
  <2>. QED BY <1>1, <1>2, <1>3, <2>1 DEF SweepOK
<1>4. CASE ~(sweptAt # 0 /\ instant - sweptAt < Window)
  <2>1. /\ Limits!Swept = [k \in Key |-> IF Limits!Over(window[k]) THEN Limits!NoEntry ELSE window[k]]
        /\ Limits!SweepTime = instant
    BY <1>4 DEF Limits!Swept, Limits!SweepTime
  <2>2. Limits!NoEntry \in Entries /\ Limits!NoEntry.start = 0
    BY LimitAssumption DEF Limits!NoEntry, Entries
  <2>3. Limits!Swept \in [Key -> Entries]
    BY <1>1, <2>1, <2>2
  <2>4. ASSUME NEW k \in Key
        PROVE  /\ EntryOK(Limits!Swept[k], admitted[k], instant)
               /\ Limits!Swept[k].start # 0 =>
                    /\ Limits!Swept[k].start <= called
                    /\ instant < Limits!Swept[k].start + Window
    <3>1. CASE Limits!Over(window[k])
      <4>1. Limits!Swept[k] = Limits!NoEntry
        BY <2>1, <3>1
      <4>2. \A m \in DOMAIN admitted[k] :
              m + Limit <= Len(admitted[k]) + 1 => admitted[k][m] + Window <= instant
        BY <1>1, <1>2, <3>1, WindowForgotten DEF Limits!Over
      <4>. QED BY <2>2, <4>1, <4>2 DEF EntryOK
    <3>2. CASE ~Limits!Over(window[k])
      <4>1. Limits!Swept[k] = window[k]
        BY <2>1, <3>2
      <4>2. instant < window[k].start + Window
        BY <1>1, <1>2, <3>2 DEF Limits!Over
      <4>. QED BY <1>2, <4>1, <4>2 DEF SweepOK
    <3>. QED BY <3>1, <3>2
  <2>. QED BY <1>1, <2>1, <2>3, <2>4
<1>. QED BY <1>3, <1>4

LEMMA LimitsAllow ==
  ASSUME LimitsInv, NEW k \in Key, Limits!Allow(k)
  PROVE  LimitsInv'
<1>. DEFINE swept == Limits!Swept
            e == swept[k]
            full == e.start # 0 /\ ~Limits!Over(e) /\ e.count >= Limit
            at == Limits!SweepTime
<1>1. /\ instant \in Nat \ {0} /\ called \in Nat /\ called <= instant /\ instant \in Limits!Instant
      /\ admitted \in [Key -> Seq(Limits!Instant)] /\ instant <= MaxInstant
      /\ Window \in Nat \ {0} /\ MaxInstant \in Nat
      /\ \A j \in Key : LogOK(admitted[j], instant)
  BY LimitsTypes, LimitAssumption DEF LimitsInv
<1>2. /\ swept \in [Key -> Entries] /\ at \in 1 .. MaxInstant /\ at <= instant /\ instant < at + Window
      /\ \A j \in Key : /\ EntryOK(swept[j], admitted[j], instant)
                        /\ swept[j].start # 0 =>
                             swept[j].start <= called /\ at < swept[j].start + Window
  BY TableSwept
<1>3. /\ sweptAt' = at /\ called' = instant /\ UNCHANGED instant
      /\ window' = IF full THEN swept ELSE [swept EXCEPT ![k] = Limits!Counted(e)]
      /\ admitted' = IF full THEN admitted ELSE [admitted EXCEPT ![k] = Append(admitted[k], instant)]
  BY <1>1 DEF Limits!Allow
<1>. HIDE DEF swept, at
<1>4. CASE full
  <2>1. window' = swept /\ admitted' = admitted
    BY <1>3, <1>4
  <2>2. Limits!TypeOK'
    BY <1>1, <1>2, <1>3, <2>1 DEF Limits!TypeOK, Entries, Limits!Instant
  <2>3. ASSUME NEW j \in Key
        PROVE  (LogOK(admitted[j], instant) /\ EntryOK(window[j], admitted[j], instant)
                /\ SweepOK(window[j]))'
    <3>1. LogOK(admitted[j], instant)' /\ EntryOK(window[j], admitted[j], instant)'
      BY <1>1, <1>2, <1>3, <2>1 DEF LogOK, EntryOK
    <3>2. swept[j].start \in Nat
      BY <1>2 DEF Entries
    <3>3. SweepOK(window[j])'
      BY <1>1, <1>2, <1>3, <2>1, <3>2 DEF SweepOK
    <3>. QED BY <3>1, <3>3
  <2>. QED BY <1>1, <1>2, <1>3, <2>2, <2>3 DEF LimitsInv
<1>5. CASE ~full
  <2>. DEFINE new == Limits!Counted(e)
              log == Append(admitted[k], instant)
  <2>1. window' = [swept EXCEPT ![k] = new] /\ admitted' = [admitted EXCEPT ![k] = log]
    BY <1>3, <1>5
  <2>2. /\ new \in Entries /\ log \in Seq(Limits!Instant) /\ LogOK(log, instant)
        /\ EntryOK(new, log, instant) /\ new.start \in {e.start, instant} \ {0}
    BY <1>1, <1>2, <1>5, RequestAdmitted
  <2>. HIDE DEF new, log
  <2>3. /\ window' \in [Key -> Entries] /\ admitted' \in [Key -> Seq(Limits!Instant)]
        /\ window'[k] = new /\ admitted'[k] = log
        /\ \A j \in Key : j # k => window'[j] = swept[j] /\ admitted'[j] = admitted[j]
    BY <1>1, <1>2, <2>1, <2>2
  <2>4. Limits!TypeOK'
    BY <1>1, <1>2, <1>3, <2>3 DEF Limits!TypeOK, Entries, Limits!Instant
  <2>5. ASSUME NEW j \in Key
        PROVE  (LogOK(admitted[j], instant) /\ EntryOK(window[j], admitted[j], instant)
                /\ SweepOK(window[j]))'
    <3>1. LogOK(admitted'[j], instant) /\ EntryOK(window'[j], admitted'[j], instant)
      BY <1>1, <1>2, <2>2, <2>3
    <3>2. LogOK(admitted[j], instant)' /\ EntryOK(window[j], admitted[j], instant)'
      BY <1>3, <3>1 DEF LogOK, EntryOK
    <3>3. swept[j].start \in Nat /\ at \in Nat
      BY <1>2 DEF Entries
    <3>4. window'[j].start # 0 => window'[j].start <= instant /\ at < window'[j].start + Window
      <4>1. CASE j # k
        BY <1>1, <1>2, <2>3, <3>3, <4>1
      <4>2. CASE j = k /\ new.start = e.start
        BY <1>1, <1>2, <2>2, <2>3, <3>3, <4>2
      <4>3. CASE j = k /\ new.start = instant
        <5>1. at <= instant /\ instant < instant + Window
          BY <1>1, <1>2
        <5>. QED BY <1>1, <2>3, <3>3, <4>3, <5>1
      <4>. QED BY <2>2, <4>1, <4>2, <4>3
    <3>5. SweepOK(window[j])'
      BY <1>3, <3>4 DEF SweepOK
    <3>. QED BY <3>2, <3>5
  <2>. QED BY <1>1, <1>2, <1>3, <2>4, <2>5 DEF LimitsInv
<1>. QED BY <1>4, <1>5

LEMMA LimitsStep ==
  ASSUME LimitsInv, [Limits!Next]_ofLimits
  PROVE  LimitsInv'
<1>1. CASE UNCHANGED ofLimits
  BY <1>1 DEF ofLimits, LimitsInv, Limits!TypeOK, LogOK, EntryOK, SweepOK
<1>2. CASE Limits!Tick
  <2>1. /\ instant \in Nat \ {0} /\ instant' = instant + 1 /\ instant < MaxInstant
        /\ UNCHANGED <<window, sweptAt, admitted, called>> /\ called \in Nat
        /\ Window \in Nat /\ MaxInstant \in Nat
        /\ admitted \in [Key -> Seq(Limits!Instant)]
    BY <1>2, LimitsTypes, LimitAssumption DEF LimitsInv, Limits!Tick
  <2>2. Limits!TypeOK'
    BY <2>1 DEF LimitsInv, Limits!TypeOK, Limits!Instant
  <2>3. ASSUME NEW k \in Key
        PROVE  (LogOK(admitted[k], instant) /\ EntryOK(window[k], admitted[k], instant)
                /\ SweepOK(window[k]))'
    <3>1. \A n \in DOMAIN admitted[k] : admitted[k][n] \in Nat
      BY <2>1 DEF Limits!Instant
    <3>2. LogOK(admitted[k], instant)'
      BY <2>1, <3>1 DEF LimitsInv, LogOK
    <3>3. EntryOK(window[k], admitted[k], instant)'
      BY <2>1, <3>1 DEF LimitsInv, EntryOK
    <3>4. SweepOK(window[k])'
      BY <2>1 DEF LimitsInv, SweepOK
    <3>. QED BY <3>2, <3>3, <3>4
  <2>. QED BY <2>1, <2>2, <2>3 DEF LimitsInv
<1>. QED BY <1>1, <1>2, LimitsAllow DEF Limits!Next

(* The invariant gives both halves.                                          *)
LEMMA LimitsAreSafe ==
  ASSUME LimitsInv
  PROVE  LimitSafe
<1>1. ASSUME NEW k \in Key, NEW n \in DOMAIN admitted[k], NEW m \in DOMAIN admitted[k],
             m = n + 2 * Limit - 1
      PROVE  admitted[k][m] - admitted[k][n] >= Window
  <2>1. admitted[k][n] + Window <= admitted[k][m]
    BY <1>1 DEF LimitsInv, LogOK
  <2>2. admitted[k] \in Seq(Limits!Instant)
    BY LimitsTypes DEF LimitsInv
  <2>3. admitted[k][n] \in Limits!Instant /\ admitted[k][m] \in Limits!Instant
    BY <2>2
  <2>. QED BY <2>1, <2>3, LimitAssumption DEF Limits!Instant
<1>2. ASSUME NEW k \in Key, window[k].start # 0
      PROVE  called - window[k].start < 2 * Window
  <2>1. /\ window[k].start \in Nat /\ called \in Nat /\ sweptAt \in Nat /\ Window \in Nat
        /\ window[k].start <= called /\ sweptAt < window[k].start + Window
        /\ called # 0 => called < sweptAt + Window
    BY <1>2, LimitsTypes, LimitAssumption DEF LimitsInv, SweepOK, Entries
  <2>. QED BY <2>1, <1>2
<1>. QED BY <1>1, <1>2 DEF LimitSafe, Limits!LimitSafe, Limits!TwiceTheLimit, Limits!TableForgets

(***************************************************************************)
(* agentRateLimiter (httpapi/agents.go): for any limit, window, number of    *)
(* keys and spread of the requests over time, any stretch as long as a        *)
(* window sees less than twice the limit of one key, and the table forgets a  *)
(* key within two windows.                                                  *)
(***************************************************************************)
THEOREM LimitsHold == Spec => []LimitSafe
<1>1. Init => LimitsInv
  BY LimitsInitial DEF Init
<1>2. LimitsInv /\ [Next]_vars => LimitsInv'
  BY Zenon, PartsMove, LimitsStep
<1>. QED BY <1>1, <1>2, LimitsAreSafe, PTL DEF Spec

(***************************************************************************)
(* auth/service.go, httpapi/users.go: the failures of an address stay below   *)
(* the limit and one for each login under way, every session ends when a       *)
(* change or its absolute end says so, a live account has a role and a         *)
(* deleted one stays inactive, for any number of clients, sessions, accounts   *)
(* and requests that change them.                                            *)
(***************************************************************************)
THEOREM AccountsKept == Spec => []AccountsSafe
<1>1. Init => LoginInv /\ UsersInv
  BY LoginInitial, UsersInitial DEF Init
<1>2. LoginInv /\ UsersInv /\ [Next]_vars => (LoginInv /\ UsersInv)'
  BY Zenon, PartsMove, LoginStep, UsersStep
<1>3. LoginInv /\ UsersInv => AccountsSafe
  BY Zenon, LoginIsSafe DEF UsersInv, AccountsSafe
<1>. QED BY <1>1, <1>2, <1>3, PTL DEF Spec

(***************************************************************************)
(* auth/oidc.go: one callback of a flow opens a session, only on the account   *)
(* of the person it was made for, and the Pods use the secret the              *)
(* administrator shared, for any number of flows, callbacks, issuers, names,    *)
(* Pods and secrets, whatever the issuer is changed to meanwhile.               *)
(***************************************************************************)
THEOREM KeycloakKept == Spec => []KeycloakSafe
<1>1. Init => SsoInv /\ SealedInv
  BY SsoInitial, SealedInitial DEF Init
<1>2. SsoInv /\ SealedInv /\ [Next]_vars => (SsoInv /\ SealedInv)'
  BY Zenon, PartsMove, SsoStep, SealedStep
<1>3. SsoInv /\ SealedInv => KeycloakSafe
  BY Zenon, SsoIsSafe, SealedIsSafe DEF KeycloakSafe
<1>. QED BY <1>1, <1>2, <1>3, PTL DEF Spec

(***************************************************************************)
(* Every part keeps its types (bootstrap.go, totp.go, service.go, users.go,    *)
(* oidc.go, apikeys, agents.go).                                            *)
(***************************************************************************)
THEOREM PartsTyped == Spec => []TypeOK
<1>. DEFINE Inv == /\ SetupInv /\ FactorInv /\ LoginInv /\ UsersInv
                   /\ KeysInv /\ SsoInv /\ SealedInv /\ LimitsInv
<1>1. Init => Inv
  BY Zenon, SetupInitial, FactorInitial, LoginInitial, UsersInitial, KeysInitial,
     SsoInitial, SealedInitial, LimitsInitial DEF Init
<1>2. Inv /\ [Next]_vars => Inv'
  BY Zenon, PartsMove, SetupStep, FactorStep, LoginStep, UsersStep, KeysStep,
     SsoStep, SealedStep, LimitsStep
<1>3. Inv => TypeOK
  BY Zenon DEF TypeOK, SetupInv, FactorInv, LoginInv, UsersInv, KeysInv, SsoInv, SealedInv, LimitsInv
<1>. QED BY <1>1, <1>2, <1>3, PTL DEF Spec
=============================================================================
