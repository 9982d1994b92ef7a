-------------------------- MODULE CredentialsProofs --------------------------
(* The safety of Credentials for any number of devices, Pods and tokens, any *)
(* grace and cache times, and any number of faults.                          *)
EXTENDS Credentials, TLAPS

Row == [revoked : Nat, until : Nat]

(* What the types say of the values the steps compute with.                 *)
LEMMA Typed ==
  ASSUME TypeOK
  PROVE  /\ now \in Nat /\ Len(token) \in Nat /\ blockedAt \in Nat
         /\ \A t \in 1..Len(token) : token[t] \in Row
         /\ \A p \in Pod : work[p] \in Request /\ work[p].grace \in Nat
<1>1. now \in Nat /\ Len(token) \in Nat /\ blockedAt \in Nat
  BY CredentialsAssumption DEF TypeOK
<1>2. token \in Seq(Row)
  BY DEF TypeOK, Row
<1>3. \A t \in 1..Len(token) : token[t] \in Row
  BY <1>2
<1>4. \A p \in Pod : work[p] \in Request
  BY DEF TypeOK
<1>5. \A p \in Pod : work[p].grace \in Nat
  <2>1. \A p \in Pod : work[p].grace \in Grace \cup {0}
    BY <1>4 DEF Request
  <2>2. Grace \cup {0} \subseteq Nat
    BY CredentialsAssumption
  <2>. QED BY <2>1, <2>2
<1>. QED BY <1>1, <1>3, <1>4, <1>5

(* Reply leaves the other Pods' requests and the other devices alone.       *)
LEMMA ReplyEffect ==
  ASSUME TypeOK, NEW p \in Pod, NEW t \in Token \cup {0}, Reply(p, t)
  PROVE  /\ work' \in [Pod -> Request] /\ work'[p] = Idle
         /\ \A q \in Pod : q # p => work'[q] = work[q]
         /\ device' \in [Device -> [token : Token \cup {0}, awaiting : Pod \cup {NoPod}]]
         /\ \A d \in Device : \/ device'[d].token = device[d].token
                              \/ d = work[p].device /\ device'[d].token = t
<1>1. Idle \in Request
  BY DEF Idle, Request, Phase
<1>2. work' \in [Pod -> Request] /\ work'[p] = Idle
      /\ \A q \in Pod : q # p => work'[q] = work[q]
  BY <1>1 DEF Reply, TypeOK
<1>3. CASE device' = device
  BY <1>2, <1>3 DEF TypeOK
<1>4. CASE /\ work[p].device \in Device
           /\ device' = [device EXCEPT ![work[p].device] =
                           [token |-> t, awaiting |-> NoPod]]
  BY <1>2, <1>4 DEF TypeOK
<1>5. work[p].device # NoDevice => work[p].device \in Device
  BY DEF TypeOK, Request
<1>. QED BY <1>3, <1>4, <1>5 DEF Reply

LEMMA GotoEffect ==
  ASSUME TypeOK, NEW p \in Pod, NEW a \in Phase, Goto(p, a)
  PROVE  /\ work' \in [Pod -> Request]
         /\ work'[p].at = a
         /\ work'[p].device = work[p].device /\ work'[p].token = work[p].token
         /\ \A q \in Pod : q # p => work'[q] = work[q]
  BY DEF Goto, TypeOK, Request

LEMMA InvalidateEffect ==
  ASSUME TypeOK, NEW p \in Pod, Invalidate(p)
  PROVE  /\ cache' \in [Pod -> [Token -> Nat]]
         /\ \A q \in Pod, t \in Token : cache'[q][t] = cache[q][t] \/ cache'[q][t] = 0
  BY DEF Invalidate, Uncached, TypeOK

(* Storing a token after the rows of f.                                     *)
LEMMA AppendEffect ==
  ASSUME TypeOK, Len(token) < MaxTokens,
         NEW f \in [1..Len(token) -> Row], token' = Append(f, Fresh)
  PROVE  /\ token' \in Seq(Row)
         /\ Len(token') = Len(token) + 1 /\ Len(token') \in Token
         /\ \A t \in 1..Len(token) : token'[t] = f[t]
<1>1. Len(token) \in Nat /\ Fresh \in Row
  BY DEF TypeOK, Fresh, Row
<1>2. f \in Seq(Row) /\ Len(f) = Len(token)
  BY <1>1
<1>. QED BY <1>1, <1>2, CredentialsAssumption DEF Token

(* The rows an enrollment stores.                                           *)
LEMMA EnrollmentRows ==
  ASSUME TypeOK, NEW p \in Pod, CommitEnrollment(p)
  PROVE  /\ token' \in Seq(Row)
         /\ Len(token') = Len(token) + 1 /\ Len(token') \in Token
         /\ \A t \in 1..Len(token) :
              /\ token'[t] \in Row
              /\ token'[t].revoked \in {token[t].revoked, now}
              /\ token'[t].until = token[t].until
<1>1. now \in Nat /\ \A t \in 1..Len(token) : token[t] \in Row
  BY Typed
<1>2. WithoutSeen(work[p].seen) \in [1..Len(token) -> Row]
  BY <1>1 DEF WithoutSeen, Row
<1>3. /\ token' \in Seq(Row)
      /\ Len(token') = Len(token) + 1 /\ Len(token') \in Token
      /\ \A t \in 1..Len(token) : token'[t] = WithoutSeen(work[p].seen)[t]
  BY <1>2, AppendEffect DEF CommitEnrollment
<1>. QED BY <1>1, <1>3 DEF WithoutSeen, Row

(* The rows a rotation stores.                                              *)
LEMMA RotationRows ==
  ASSUME TypeOK, NEW p \in Pod, Rotate(p)
  PROVE  /\ token' \in Seq(Row) /\ Len(token') \in Token
         /\ Len(token') = Len(token) + 1
         /\ \A t \in 1..Len(token) :
              /\ token'[t].revoked = token[t].revoked
              /\ token'[t].until = token[t].until \/ token'[t].until >= now
<1>. DEFINE old == work[p].seen \cap Unrevoked
            f == [t \in 1..Len(token) |->
                    IF t \in old THEN [token[t] EXCEPT !.until = now + work[p].grace]
                                 ELSE token[t]]
<1>1. /\ now \in Nat /\ work[p].grace \in Nat
      /\ \A t \in 1..Len(token) : token[t] \in Row
  BY Typed
<1>2. now + work[p].grace \in Nat /\ now + work[p].grace >= now
  BY <1>1
<1>3. f \in [1..Len(token) -> Row]
  BY <1>1, <1>2 DEF Row
<1>4. token' = Append(f, Fresh) /\ Len(token) < MaxTokens
  BY DEF Rotate
<1>5. /\ token' \in Seq(Row) /\ Len(token') \in Token
      /\ Len(token') = Len(token) + 1
      /\ \A t \in 1..Len(token) : token'[t] = f[t]
  BY <1>3, <1>4, AppendEffect
<1>. QED BY <1>1, <1>2, <1>5 DEF Row

-----------------------------------------------------------------------------
(***************************************************************************)
(* Type correctness.                                                       *)
(***************************************************************************)

(* A fault keeps its count within the bound.                                *)
LEMMA FaultType ==
  ASSUME TypeOK, Fault
  PROVE  faults' \in 0..MaxFaults
  BY CredentialsAssumption DEF TypeOK, Fault

LEMMA TypeStep ==
  ASSUME TypeOK, CacheOK, Next
  PROVE  TypeOK'
<1>. USE DEF TypeOK
<1>1. ASSUME NEW d \in Device, NEW p \in Pod, Ask(d, p)
      PROVE  TypeOK'
  <2>1. work' \in [Pod -> Request]
    BY <1>1 DEF Ask, Idle, Request, Phase
  <2>2. device' \in [Device -> [token : Token \cup {0}, awaiting : Pod \cup {NoPod}]]
    BY <1>1 DEF Ask
  <2>. QED BY <1>1, <2>1, <2>2 DEF Ask, rows
<1>2. ASSUME NEW d \in Device, GiveUp(d)
      PROVE  TypeOK'
  <2>1. device' \in [Device -> [token : Token \cup {0}, awaiting : Pod \cup {NoPod}]]
    BY <1>2 DEF GiveUp
  <2>. QED BY <1>2, <2>1, FaultType DEF GiveUp, rows
<1>3. ASSUME NEW p \in Pod, Authenticate(p) \/ FindAgent(p) \/ CreateAgent(p)
      PROVE  TypeOK'
  <2>1. \E a \in Phase : Goto(p, a)
    BY <1>3 DEF Authenticate, FindAgent, CreateAgent, Phase
  <2>. QED BY <1>3, <2>1, GotoEffect DEF Authenticate, FindAgent, CreateAgent, rows
<1>4. ASSUME NEW p \in Pod,
             \/ Unauthorized(p) \/ RefuseBlocked(p) \/ AcceptCached(p)
             \/ Unavailable(p) \/ RefuseEnrollment(p) \/ AnswerIssued(p)
             \/ EnrollmentFails(p)
      PROVE  TypeOK'
  <2>1. work[p].token \in Token \cup {0} /\ 0 \in Token \cup {0}
    BY DEF Request
  <2>2. \E t \in Token \cup {0} : Reply(p, t)
    BY <1>4, <2>1 DEF Unauthorized, RefuseBlocked, AcceptCached, Unavailable,
       RefuseEnrollment, AnswerIssued, EnrollmentFails
  <2>3. faults' \in 0..MaxFaults
    BY <1>4, FaultType DEF Unauthorized, RefuseBlocked, AcceptCached, Unavailable,
       RefuseEnrollment, AnswerIssued, EnrollmentFails
  <2>. QED BY <1>4, <2>2, <2>3, ReplyEffect DEF Unauthorized, RefuseBlocked,
       AcceptCached, Unavailable, RefuseEnrollment, AnswerIssued, EnrollmentFails, rows
<1>5. ASSUME NEW p \in Pod, FillCache(p)
      PROVE  TypeOK'
  <2>1. work[p].token \in Token /\ now + CacheTime \in Nat
    BY <1>5, Typed, CredentialsAssumption DEF FillCache, CacheOK, Token
  <2>2. cache' \in [Pod -> [Token -> Nat]]
    BY <1>5, <2>1 DEF FillCache
  <2>. QED BY <1>5, <2>1, <2>2, ReplyEffect DEF FillCache, rows
<1>6. ASSUME NEW p \in Pod, SeeTokens(p) \/ RevokeTokens(p)
      PROVE  TypeOK'
  <2>1. Unrevoked \subseteq Token
    BY Typed, CredentialsAssumption DEF Unrevoked, Token
  <2>2. PICK a \in Phase, seen \in SUBSET Token :
          work' = [work EXCEPT ![p].at = a, ![p].seen = seen]
    <3>1. work[p].seen \cap Unrevoked \in SUBSET Token
      BY <2>1
    <3>. QED BY <1>6, <2>1, <3>1 DEF SeeTokens, RevokeTokens, Phase
  <2>3. work' \in [Pod -> Request]
    BY <2>2 DEF Request
  <2>. QED BY <1>6, <2>3 DEF SeeTokens, RevokeTokens, rows
<1>7. ASSUME NEW p \in Pod, Issue(p) \/ CommitLost(p)
      PROVE  TypeOK'
  <2>1. CommitEnrollment(p)
    BY <1>7 DEF Issue, CommitLost
  <2>2. token' \in Seq(Row) /\ Len(token') <= MaxTokens /\ Len(token') \in Token
    BY <2>1, EnrollmentRows, CredentialsAssumption DEF Token
  <2>3. known' \in BOOLEAN /\ claim' \in Device \cup {NoDevice} /\ UNCHANGED <<blockedAt, dbUp, now>>
    BY <2>1 DEF CommitEnrollment, Request
  <2>4. CASE Issue(p)
    <3>1. work' \in [Pod -> Request]
      <4>1. work' = [work EXCEPT ![p].at = "issued", ![p].token = Len(token')]
        BY <2>4 DEF Issue
      <4>2. work[p] \in Request /\ Len(token') \in Token \cup {0} /\ "issued" \in Phase
        BY <2>2 DEF Phase
      <4>3. [work[p] EXCEPT !.at = "issued", !.token = Len(token')] \in Request
        BY <4>2 DEF Request
      <4>. QED BY <4>1, <4>3
    <3>. QED BY <2>2, <2>3, <2>4, <3>1, InvalidateEffect DEF Issue, Row
  <2>5. CASE CommitLost(p)
    BY <2>2, <2>3, <2>5, ReplyEffect, FaultType DEF CommitLost, Row
  <2>. QED BY <1>7, <2>4, <2>5
<1>8. ASSUME NEW p \in Pod, Provision(p)
      PROVE  TypeOK'
  <2>1. token \in [1..Len(token) -> Row] /\ Len(token) \in Nat
    BY Typed DEF Row
  <2>2. Len(token) < MaxTokens /\ token' = Append(token, Fresh)
    BY <1>8 DEF Provision
  <2>3. token' \in Seq(Row) /\ Len(token') \in Token
    BY <2>1, <2>2, AppendEffect
  <2>4. Len(token') <= MaxTokens
    BY <2>3, CredentialsAssumption DEF Token
  <2>. QED BY <1>8, <2>3, <2>4, FaultType DEF Provision, Row
<1>9. ASSUME NEW p \in Pod, NEW g \in Grace, StartRotation(p, g)
      PROVE  TypeOK'
  <2>1. Unrevoked \subseteq Token
    BY Typed, CredentialsAssumption DEF Unrevoked, Token
  <2>2. work' \in [Pod -> Request]
    BY <1>9, <2>1 DEF StartRotation, Idle, Request, Phase
  <2>. QED BY <1>9, <2>2, FaultType DEF StartRotation, rows
<1>10. ASSUME NEW p \in Pod, Rotate(p)
       PROVE  TypeOK'
  <2>1. token' \in Seq(Row) /\ Len(token') <= MaxTokens
    BY <1>10, RotationRows, CredentialsAssumption DEF Token
  <2>2. work' \in [Pod -> Request]
    BY <1>10 DEF Rotate, Idle, Request, Phase
  <2>3. cache' \in [Pod -> [Token -> Nat]] /\ faults' \in 0..MaxFaults
    BY <1>10, InvalidateEffect, FaultType DEF Rotate
  <2>. QED BY <1>10, <2>1, <2>2, <2>3 DEF Rotate, Row
<1>11. ASSUME NEW p \in Pod, RotationFails(p)
       PROVE  TypeOK'
  <2>1. work' \in [Pod -> Request]
    BY <1>11 DEF RotationFails, Idle, Request, Phase
  <2>. QED BY <1>11, <2>1 DEF RotationFails, rows
<1>12. ASSUME NEW p \in Pod, NEW b \in BOOLEAN, SetBlocked(p, b)
       PROVE  TypeOK'
  <2>1. blockedAt' \in Nat
    BY <1>12, Typed DEF SetBlocked
  <2>2. faults' \in 0..MaxFaults
    BY <1>12, FaultType DEF SetBlocked
  <2>. QED BY <1>12, <2>1, <2>2, InvalidateEffect DEF SetBlocked
<1>13. ASSUME NEW p \in Pod, PodRestart(p)
       PROVE  TypeOK'
  <2>1. work' \in [Pod -> Request]
    BY <1>13 DEF PodRestart, Idle, Request, Phase
  <2>2. device' \in [Device -> [token : Token \cup {0}, awaiting : Pod \cup {NoPod}]]
    BY <1>13 DEF PodRestart
  <2>. QED BY <1>13, <2>1, <2>2, FaultType, InvalidateEffect DEF PodRestart, rows
<1>14. CASE DatabaseDown \/ DatabaseUp
  BY <1>14, FaultType DEF DatabaseDown, DatabaseUp, rows
<1>15. CASE Tick
  <2>1. now' \in 1..MaxNow
    BY <1>15, CredentialsAssumption DEF Tick
  <2>. QED BY <1>15, <2>1 DEF Tick, rows
<1>. QED BY <1>1, <1>2, <1>3, <1>4, <1>5, <1>6, <1>7, <1>8, <1>9, <1>10, <1>11,
            <1>12, <1>13, <1>14, <1>15 DEF Next, Handle

-----------------------------------------------------------------------------
(***************************************************************************)
(* One transaction at a time writes the agent's rows.                      *)
(***************************************************************************)

(* What EnrollmentOK says of the request of one Pod.                        *)
RequestOK(p) ==
  /\ work[p].at \in {"enroll", "create", "created"} => work[p].device # NoDevice
  /\ work[p].at = "created" => ~known
  /\ work[p].at \in {"authenticate", "fill", "replace", "revoke", "revoked", "issued"} =>
       claim = work[p].device /\ claim # NoDevice

(* A step of one Pod that leaves the agents row alone keeps EnrollmentOK if  *)
(* its own request is in order and it waits to become a writer.              *)
LEMMA OnePod ==
  ASSUME EnrollmentOK, NEW p \in Pod,
         UNCHANGED <<known, claim>>,
         \A q \in Pod : q # p => work'[q] = work[q],
         RequestOK(p)', Writing(p)' => Writing(p) \/ ~OthersWriting(p)
  PROVE  EnrollmentOK'
  BY DEF EnrollmentOK, RequestOK, Writing, OthersWriting

(* A Pod that becomes idle is in order.                                     *)
LEMMA PodIdle ==
  ASSUME EnrollmentOK, NEW p \in Pod,
         UNCHANGED <<known, claim>>,
         \A q \in Pod : q # p => work'[q] = work[q],
         work'[p] = Idle
  PROVE  EnrollmentOK'
  BY OnePod DEF RequestOK, Writing, Idle

(* Committing an enrollment binds the claim of the first device, or keeps    *)
(* the claim that matched.                                                  *)
LEMMA CommitKeepsClaim ==
  ASSUME TypeOK, EnrollmentOK, OnlyOwnerHolds, NEW p \in Pod, CommitEnrollment(p)
  PROVE  /\ known' /\ claim' = work[p].device /\ claim' # NoDevice
         /\ \A q \in Pod : q # p /\ work[q].at \in
              {"authenticate", "fill", "replace", "revoke", "revoked", "issued"} =>
              claim' = work[q].device
         /\ \A q \in Pod : q # p => work[q].at \notin {"created", "revoked"}
         /\ \A d \in Device : device[d].token # 0 => claim' = d
<1>1. Writing(p) /\ known'
      /\ claim' = IF work[p].at = "created" THEN work[p].device ELSE claim
  BY DEF CommitEnrollment
<1>2. CASE work[p].at = "created"
  <2>1. claim = NoDevice /\ work[p].device # NoDevice
    BY <1>2 DEF EnrollmentOK
  <2>2. \A d \in Device : device[d].token = 0
    BY <2>1, CredentialsAssumption DEF OnlyOwnerHolds
  <2>. QED BY <1>1, <1>2, <2>1, <2>2 DEF EnrollmentOK, Writing
<1>3. CASE work[p].at = "revoked"
  BY <1>1, <1>3 DEF EnrollmentOK, OnlyOwnerHolds, Writing
<1>. QED BY <1>1, <1>2, <1>3 DEF Writing

LEMMA EnrollmentStep ==
  ASSUME TypeOK, EnrollmentOK, OnlyOwnerHolds, Next
  PROVE  EnrollmentOK'
<1>1. ASSUME NEW d \in Device, NEW p \in Pod, Ask(d, p)
      PROVE  EnrollmentOK'
  <2>1. /\ work'[p].device = d /\ d # NoDevice
        /\ work'[p].at = IF device[d].token = 0 THEN "enroll" ELSE "authenticate"
        /\ \A q \in Pod : q # p => work'[q] = work[q]
    BY <1>1, CredentialsAssumption DEF Ask, Idle, TypeOK
  <2>2. device[d].token # 0 => claim = d
    BY DEF OnlyOwnerHolds
  <2>. QED BY <1>1, <2>1, <2>2, OnePod DEF Ask, RequestOK, Writing, rows
<1>2. ASSUME NEW d \in Device, GiveUp(d)
      PROVE  EnrollmentOK'
  BY <1>2 DEF GiveUp, EnrollmentOK, Writing, rows
<1>3. ASSUME NEW p \in Pod, Authenticate(p)
      PROVE  EnrollmentOK'
  <2>1. Goto(p, "fill") /\ "fill" \in Phase
    BY <1>3 DEF Authenticate, Phase
  <2>2. /\ work'[p].at = "fill" /\ work'[p].device = work[p].device
        /\ \A q \in Pod : q # p => work'[q] = work[q]
    BY <2>1, GotoEffect
  <2>. QED BY <1>3, <2>2, OnePod DEF Authenticate, EnrollmentOK, RequestOK, Writing, rows
<1>4. ASSUME NEW p \in Pod, FindAgent(p)
      PROVE  EnrollmentOK'
  <2>1. PICK a \in {"create", "replace"} :
          Goto(p, a) /\ (a = "replace" => claim = work[p].device)
    BY <1>4 DEF FindAgent
  <2>2. /\ work'[p].at = a /\ work'[p].device = work[p].device
        /\ \A q \in Pod : q # p => work'[q] = work[q]
    BY <2>1, GotoEffect DEF Phase
  <2>. QED BY <1>4, <2>1, <2>2, OnePod DEF FindAgent, EnrollmentOK, RequestOK, Writing, rows
<1>5. ASSUME NEW p \in Pod, CreateAgent(p)
      PROVE  EnrollmentOK'
  <2>1. Goto(p, "created") /\ "created" \in Phase
    BY <1>5 DEF CreateAgent, Phase
  <2>2. /\ work'[p].at = "created" /\ work'[p].device = work[p].device
        /\ \A q \in Pod : q # p => work'[q] = work[q]
    BY <2>1, GotoEffect
  <2>. QED BY <1>5, <2>2, OnePod DEF CreateAgent, EnrollmentOK, RequestOK, Writing, rows
<1>6. ASSUME NEW p \in Pod, SeeTokens(p)
      PROVE  EnrollmentOK'
  <2>1. /\ work'[p].at = "revoke" /\ work'[p].device = work[p].device
        /\ \A q \in Pod : q # p => work'[q] = work[q]
    BY <1>6 DEF SeeTokens, TypeOK, Request
  <2>. QED BY <1>6, <2>1, OnePod DEF SeeTokens, EnrollmentOK, RequestOK, Writing, rows
<1>7. ASSUME NEW p \in Pod, RevokeTokens(p)
      PROVE  EnrollmentOK'
  <2>1. /\ work'[p].at = "revoked" /\ work'[p].device = work[p].device
        /\ \A q \in Pod : q # p => work'[q] = work[q]
    BY <1>7 DEF RevokeTokens, TypeOK, Request
  <2>. QED BY <1>7, <2>1, OnePod DEF RevokeTokens, EnrollmentOK, RequestOK, Writing, rows
<1>8. ASSUME NEW p \in Pod, Issue(p) \/ CommitLost(p)
      PROVE  EnrollmentOK'
  <2>1. CommitEnrollment(p)
    BY <1>8 DEF Issue, CommitLost
  <2>2. /\ work'[p].at \in {"issued", "idle"}
        /\ work'[p].at = "issued" => work'[p].device = work[p].device
        /\ \A q \in Pod : q # p => work'[q] = work[q]
    BY <1>8, ReplyEffect DEF Issue, CommitLost, TypeOK, Request, Idle
  <2>. QED BY <2>1, <2>2, CommitKeepsClaim DEF EnrollmentOK, Writing
<1>9. ASSUME NEW p \in Pod,
             \/ Unauthorized(p) \/ RefuseBlocked(p) \/ AcceptCached(p)
             \/ Unavailable(p) \/ RefuseEnrollment(p) \/ AnswerIssued(p)
             \/ EnrollmentFails(p) \/ FillCache(p)
      PROVE  EnrollmentOK'
  <2>1. work[p].token \in Token \cup {0}
    BY DEF TypeOK, Request
  <2>2. \E t \in Token \cup {0} : Reply(p, t)
    BY <1>9, <2>1 DEF Unauthorized, RefuseBlocked, AcceptCached, Unavailable,
       RefuseEnrollment, AnswerIssued, EnrollmentFails, FillCache
  <2>3. UNCHANGED <<known, claim>>
    BY <1>9 DEF Unauthorized, RefuseBlocked, AcceptCached, Unavailable,
       RefuseEnrollment, AnswerIssued, EnrollmentFails, FillCache, rows
  <2>. QED BY <2>2, <2>3, ReplyEffect, PodIdle
<1>10. ASSUME NEW p \in Pod, Provision(p)
       PROVE  EnrollmentOK'
  BY <1>10 DEF Provision, EnrollmentOK, Writing, OthersWriting, Idle
<1>11. ASSUME NEW p \in Pod, NEW g \in Grace, StartRotation(p, g)
       PROVE  EnrollmentOK'
  <2>1. work'[p].at = "rotate" /\ \A q \in Pod : q # p => work'[q] = work[q]
    BY <1>11 DEF StartRotation, Idle, TypeOK
  <2>. QED BY <1>11, <2>1, OnePod DEF StartRotation, RequestOK, Writing, rows
<1>12. ASSUME NEW p \in Pod, Rotate(p) \/ RotationFails(p) \/ PodRestart(p)
       PROVE  EnrollmentOK'
  <2>1. work'[p] = Idle /\ \A q \in Pod : q # p => work'[q] = work[q]
    BY <1>12 DEF Rotate, RotationFails, PodRestart, TypeOK
  <2>. QED BY <1>12, <2>1, PodIdle DEF Rotate, RotationFails, PodRestart, rows
<1>13. ASSUME NEW p \in Pod, NEW b \in BOOLEAN, SetBlocked(p, b)
       PROVE  EnrollmentOK'
  BY <1>13 DEF SetBlocked, EnrollmentOK, Writing
<1>14. CASE DatabaseDown \/ DatabaseUp \/ Tick
  BY <1>14 DEF DatabaseDown, DatabaseUp, Tick, EnrollmentOK, Writing, rows
<1>. QED BY <1>1, <1>2, <1>3, <1>4, <1>5, <1>6, <1>7, <1>8, <1>9, <1>10, <1>11,
            <1>12, <1>13, <1>14 DEF Next, Handle

-----------------------------------------------------------------------------
(***************************************************************************)
(* Only the claim's device holds a token.                                  *)
(***************************************************************************)

LEMMA OwnerStep ==
  ASSUME TypeOK, EnrollmentOK, OnlyOwnerHolds, Next
  PROVE  OnlyOwnerHolds'
<1>1. ASSUME claim' = claim, \A d \in Device : device'[d].token = device[d].token
      PROVE  OnlyOwnerHolds'
  BY <1>1 DEF OnlyOwnerHolds
<1>2. ASSUME NEW d \in Device, GiveUp(d) \/ \E p \in Pod : Ask(d, p)
      PROVE  OnlyOwnerHolds'
  <2>1. \E p \in Pod \cup {NoPod} : device' = [device EXCEPT ![d].awaiting = p]
    BY <1>2 DEF GiveUp, Ask
  <2>2. \A c \in Device : device'[c].token = device[c].token
    BY <2>1 DEF TypeOK
  <2>3. claim' = claim
    BY <1>2 DEF GiveUp, Ask, rows
  <2>. QED BY <1>1, <2>2, <2>3
<1>3. ASSUME NEW p \in Pod,
             \/ RefuseBlocked(p) \/ AcceptCached(p) \/ Unavailable(p) \/ FillCache(p)
             \/ AnswerIssued(p)
      PROVE  OnlyOwnerHolds'
  <2>1. /\ claim = work[p].device
        /\ Reply(p, work[p].token) \/ Reply(p, 0)
        /\ UNCHANGED claim
    BY <1>3 DEF RefuseBlocked, AcceptCached, Unavailable, FillCache, AnswerIssued,
       EnrollmentOK, rows
  <2>2. work[p].token \in Token \cup {0}
    BY DEF TypeOK, Request
  <2>. QED BY <2>1, <2>2, ReplyEffect DEF OnlyOwnerHolds
<1>4. ASSUME NEW p \in Pod, Unauthorized(p) \/ RefuseEnrollment(p) \/ EnrollmentFails(p)
      PROVE  OnlyOwnerHolds'
  <2>1. Reply(p, 0) /\ UNCHANGED claim
    BY <1>4 DEF Unauthorized, RefuseEnrollment, EnrollmentFails, rows
  <2>. QED BY <2>1, ReplyEffect DEF OnlyOwnerHolds
<1>5. ASSUME NEW p \in Pod, Issue(p) \/ CommitLost(p)
      PROVE  OnlyOwnerHolds'
  <2>1. CommitEnrollment(p)
    BY <1>5 DEF Issue, CommitLost
  <2>2. \A d \in Device : device'[d].token # 0 => device[d].token # 0
    BY <1>5, ReplyEffect DEF Issue, CommitLost
  <2>. QED BY <2>1, <2>2, CommitKeepsClaim DEF OnlyOwnerHolds
<1>6. ASSUME NEW p \in Pod,
             \/ Authenticate(p) \/ FindAgent(p) \/ CreateAgent(p) \/ SeeTokens(p)
             \/ RevokeTokens(p) \/ Provision(p) \/ Rotate(p) \/ RotationFails(p)
             \/ \E g \in Grace : StartRotation(p, g)
             \/ \E b \in BOOLEAN : SetBlocked(p, b)
      PROVE  OnlyOwnerHolds'
  BY <1>1, <1>6 DEF Authenticate, FindAgent, CreateAgent, SeeTokens, RevokeTokens,
     Provision, Rotate, RotationFails, StartRotation, SetBlocked, rows
<1>7. ASSUME NEW p \in Pod, PodRestart(p)
      PROVE  OnlyOwnerHolds'
  <2>1. \A d \in Device : device'[d].token = device[d].token
    BY <1>7 DEF PodRestart, TypeOK
  <2>. QED BY <1>1, <1>7, <2>1 DEF PodRestart, rows
<1>8. CASE DatabaseDown \/ DatabaseUp \/ Tick
  BY <1>1, <1>8 DEF DatabaseDown, DatabaseUp, Tick, rows
<1>. QED BY <1>2, <1>3, <1>4, <1>5, <1>6, <1>7, <1>8 DEF Next, Handle

-----------------------------------------------------------------------------
(***************************************************************************)
(* A cached authentication is stale for CacheTime at most.                 *)
(***************************************************************************)

(* Whatever ends in this step ends now or later, so a step that does not     *)
(* advance the time keeps the bound, provided it caches only what has not    *)
(* ended.                                                                   *)
LEMMA CacheKept ==
  ASSUME TypeOK, CacheOK, StaleAtMostCacheTime, now' = now,
         \A p \in Pod : \A t \in Token :
            \/ cache'[p][t] \in {0, cache[p][t]}
            \/ /\ cache'[p][t] = now + CacheTime /\ t \in 1..Len(token)
               /\ \A ended \in Ended(t) : ended >= now,
         Len(token') \in Nat, Len(token') >= Len(token), Len(token') <= MaxTokens,
         \A t \in 1..Len(token) : \A ended \in Ended(t)' :
            ended \in Nat /\ (ended \in Ended(t) \/ ended >= now),
         \A p \in Pod : work'[p].at = "fill" =>
            /\ work'[p].token \in 1..Len(token)
            /\ \A ended \in Ended(work'[p].token) : ended >= now
  PROVE  CacheOK' /\ StaleAtMostCacheTime'
<1>1. /\ now \in Nat /\ CacheTime \in Nat /\ Len(token) \in Nat
      /\ \A t \in 1..Len(token') : t \in Token
      /\ \A p \in Pod, t \in Token : cache[p][t] \in Nat
  BY Typed, CredentialsAssumption DEF TypeOK, Token
<1>2. ASSUME NEW p \in Pod, NEW t \in Token, cache'[p][t] # 0
      PROVE  /\ t \in 1..Len(token) /\ t <= Len(token')
             /\ cache'[p][t] \in Nat /\ cache'[p][t] <= now + CacheTime
             /\ \A ended \in Ended(t)' : cache'[p][t] <= ended + CacheTime
  <2>1. CASE cache'[p][t] = cache[p][t]
    <3>1. t \in 1..Len(token) /\ cache[p][t] <= now + CacheTime
      BY <1>1, <1>2, <2>1 DEF CacheOK, Token
    <3>2. \A ended \in Ended(t) : cache[p][t] <= ended + CacheTime
      BY <1>2, <2>1, <3>1 DEF StaleAtMostCacheTime
    <3>. QED BY <1>1, <2>1, <3>1, <3>2
  <2>2. CASE /\ cache'[p][t] = now + CacheTime /\ t \in 1..Len(token)
             /\ \A ended \in Ended(t) : ended >= now
    BY <1>1, <2>2
  <2>. QED BY <1>2, <2>1, <2>2
<1>3. CacheOK'
  <2>1. ASSUME NEW p \in Pod, work'[p].at = "fill"
        PROVE  /\ work'[p].token \in 1..Len(token')
               /\ \A ended \in Ended(work[p].token)' : ended >= now'
    <3>1. /\ work'[p].token \in 1..Len(token)
          /\ \A ended \in Ended(work'[p].token) : ended >= now
      BY <2>1
    <3>2. \A t \in 1..Len(token) : \A ended \in Ended(t)' :
             ended \in Ended(t) \/ ended >= now
      OBVIOUS
    <3>. QED BY <1>1, <3>1, <3>2 DEF Ended
  <2>. QED BY <1>2, <2>1 DEF CacheOK
<1>4. StaleAtMostCacheTime'
  BY <1>1, <1>2 DEF StaleAtMostCacheTime, Ended
<1>. QED BY <1>3, <1>4

(* An end that is in the row before a step, or now, or later.               *)
LEMMA EndsKept ==
  ASSUME TypeOK, UNCHANGED <<token, blockedAt>>, now' = now
  PROVE  /\ Len(token') \in Nat /\ Len(token') >= Len(token) /\ Len(token') <= MaxTokens
         /\ \A t \in 1..Len(token) : \A ended \in Ended(t)' :
              ended \in Nat /\ (ended \in Ended(t) \/ ended >= now)
<1>1. Len(token) \in Nat /\ blockedAt \in Nat /\ \A t \in 1..Len(token) : token[t] \in Row
  BY Typed
<1>2. Len(token) <= MaxTokens
  BY DEF TypeOK
<1>. QED BY <1>1, <1>2 DEF Ended, Row

LEMMA CacheStep ==
  ASSUME TypeOK, CacheOK, StaleAtMostCacheTime, Next
  PROVE  CacheOK' /\ StaleAtMostCacheTime'
<1>. DEFINE
       EntriesOK == \A p \in Pod : \A t \in Token :
            \/ cache'[p][t] \in {0, cache[p][t]}
            \/ /\ cache'[p][t] = now + CacheTime /\ t \in 1..Len(token)
               /\ \A ended \in Ended(t) : ended >= now
       EndsOK == /\ Len(token') \in Nat /\ Len(token') >= Len(token)
                 /\ Len(token') <= MaxTokens
                 /\ \A t \in 1..Len(token) : \A ended \in Ended(t)' :
                       ended \in Nat /\ (ended \in Ended(t) \/ ended >= now)
       FillOK == \A p \in Pod : work'[p].at = "fill" =>
            /\ work'[p].token \in 1..Len(token)
            /\ \A ended \in Ended(work'[p].token) : ended >= now
<1>1. ASSUME EntriesOK, EndsOK, FillOK, now' = now
      PROVE  CacheOK' /\ StaleAtMostCacheTime'
  BY <1>1, CacheKept
<1>2. UNCHANGED cache => EntriesOK
  OBVIOUS
<1>3. ASSUME NEW p \in Pod, Invalidate(p)
      PROVE  EntriesOK
  BY <1>3, InvalidateEffect
<1>4. UNCHANGED <<token, blockedAt, now>> => EndsOK
  BY EndsKept
<1>5. ASSUME NEW p \in Pod, work'[p].at # "fill",
             \A q \in Pod : q # p => work'[q] = work[q]
      PROVE  FillOK
  BY <1>5 DEF CacheOK
<1>6. ASSUME NEW p \in Pod, CommitEnrollment(p)
      PROVE  EndsOK
  <2>1. /\ Len(token') = Len(token) + 1 /\ Len(token') \in Token
        /\ \A t \in 1..Len(token) :
             /\ token'[t] \in Row
             /\ token'[t].revoked \in {token[t].revoked, now}
             /\ token'[t].until = token[t].until
    BY <1>6, EnrollmentRows
  <2>2. blockedAt' = blockedAt
    BY <1>6 DEF CommitEnrollment
  <2>. QED BY <2>1, <2>2, Typed, CredentialsAssumption DEF Ended, Row, Token
<1>. HIDE DEF EntriesOK, EndsOK, FillOK
<1>7. CASE \E d \in Device : GiveUp(d)
  <2>1. FillOK
    BY <1>7 DEF GiveUp, CacheOK, FillOK
  <2>. QED BY <1>1, <1>2, <1>4, <1>7, <2>1 DEF GiveUp, rows
<1>8. ASSUME NEW d \in Device, NEW p \in Pod, Ask(d, p)
      PROVE  CacheOK' /\ StaleAtMostCacheTime'
  <2>1. work'[p].at # "fill" /\ \A q \in Pod : q # p => work'[q] = work[q]
    BY <1>8 DEF Ask, Idle, TypeOK
  <2>. QED BY <1>1, <1>2, <1>4, <1>5, <1>8, <2>1 DEF Ask, rows
<1>9. ASSUME NEW p \in Pod, Authenticate(p)
      PROVE  CacheOK' /\ StaleAtMostCacheTime'
  <2>1. Goto(p, "fill") /\ "fill" \in Phase
    BY <1>9 DEF Authenticate, Phase
  <2>2. /\ work'[p].token = work[p].token
        /\ \A q \in Pod : q # p => work'[q] = work[q]
    BY <2>1, GotoEffect
  <2>3. /\ work[p].token \in 1..Len(token)
        /\ \A ended \in Ended(work[p].token) : ended >= now
    BY <1>9, Typed DEF Authenticate, Usable, Unrevoked, Ended, Row
  <2>4. FillOK
    BY <2>2, <2>3 DEF FillOK, CacheOK
  <2>. QED BY <1>1, <1>2, <1>4, <1>9, <2>4 DEF Authenticate, rows
<1>10. ASSUME NEW p \in Pod, FillCache(p)
       PROVE  CacheOK' /\ StaleAtMostCacheTime'
  <2>1. /\ work[p].token \in 1..Len(token)
        /\ \A ended \in Ended(work[p].token) : ended >= now
    BY <1>10 DEF FillCache, CacheOK
  <2>2. work[p].token \in Token
    BY <2>1, Typed, CredentialsAssumption DEF TypeOK, Token
  <2>3. \A q \in Pod, t \in Token :
           cache'[q][t] = IF q = p /\ t = work[p].token THEN now + CacheTime
                                                       ELSE cache[q][t]
    BY <1>10, <2>2 DEF FillCache, TypeOK
  <2>4. EntriesOK
    BY <2>1, <2>3 DEF EntriesOK
  <2>5. work'[p].at # "fill" /\ \A q \in Pod : q # p => work'[q] = work[q]
    BY <1>10, <2>2, ReplyEffect DEF FillCache, Idle
  <2>. QED BY <1>1, <1>4, <1>5, <1>10, <2>4, <2>5 DEF FillCache, rows
<1>11. ASSUME NEW p \in Pod,
              \/ Unauthorized(p) \/ RefuseBlocked(p) \/ AcceptCached(p)
              \/ Unavailable(p) \/ RefuseEnrollment(p) \/ AnswerIssued(p)
              \/ EnrollmentFails(p)
       PROVE  CacheOK' /\ StaleAtMostCacheTime'
  <2>1. work[p].token \in Token \cup {0}
    BY DEF TypeOK, Request
  <2>2. \E t \in Token \cup {0} : Reply(p, t)
    BY <1>11, <2>1 DEF Unauthorized, RefuseBlocked, AcceptCached, Unavailable,
       RefuseEnrollment, AnswerIssued, EnrollmentFails
  <2>3. UNCHANGED <<rows, cache, now>>
    BY <1>11 DEF Unauthorized, RefuseBlocked, AcceptCached, Unavailable,
       RefuseEnrollment, AnswerIssued, EnrollmentFails
  <2>4. work'[p].at # "fill" /\ \A q \in Pod : q # p => work'[q] = work[q]
    BY <2>2, ReplyEffect DEF Idle
  <2>. QED BY <1>1, <1>2, <1>4, <1>5, <2>3, <2>4 DEF rows
<1>12. ASSUME NEW p \in Pod,
              \/ FindAgent(p) \/ CreateAgent(p) \/ SeeTokens(p) \/ RevokeTokens(p)
              \/ \E g \in Grace : StartRotation(p, g)
              \/ RotationFails(p)
       PROVE  CacheOK' /\ StaleAtMostCacheTime'
  <2>1. work'[p].at # "fill" /\ \A q \in Pod : q # p => work'[q] = work[q]
    <3>1. CASE FindAgent(p) \/ CreateAgent(p)
      <4>1. \E a \in {"create", "replace", "created"} : Goto(p, a)
        BY <3>1 DEF FindAgent, CreateAgent
      <4>. QED BY <4>1, GotoEffect DEF Phase
    <3>2. CASE SeeTokens(p) \/ RevokeTokens(p)
      <4>1. \E a \in {"revoke", "revoked"},
                seen \in {Unrevoked, work[p].seen \cap Unrevoked} :
               work' = [work EXCEPT ![p].at = a, ![p].seen = seen]
        BY <3>2 DEF SeeTokens, RevokeTokens
      <4>. QED BY <4>1 DEF TypeOK, Request
    <3>3. CASE RotationFails(p) \/ \E g \in Grace : StartRotation(p, g)
      <4>1. \E request \in [at : {"idle", "rotate"}, device : {NoDevice}, token : {0},
                             seen : {{}, Unrevoked}, grace : Grace \cup {0}] :
               work' = [work EXCEPT ![p] = request]
        BY <3>3 DEF RotationFails, StartRotation, Idle
      <4>. QED BY <4>1 DEF TypeOK
    <3>. QED BY <1>12, <3>1, <3>2, <3>3
  <2>2. UNCHANGED <<rows, cache, now>>
    BY <1>12 DEF FindAgent, CreateAgent, SeeTokens, RevokeTokens, StartRotation,
       RotationFails
  <2>. QED BY <1>1, <1>2, <1>4, <1>5, <2>1, <2>2 DEF rows
<1>13. ASSUME NEW p \in Pod, Issue(p) \/ CommitLost(p)
       PROVE  CacheOK' /\ StaleAtMostCacheTime'
  <2>1. CommitEnrollment(p) /\ now' = now
    BY <1>13 DEF Issue, CommitLost, CommitEnrollment
  <2>2. EntriesOK
    BY <1>2, <1>3, <1>13 DEF Issue, CommitLost
  <2>3. work'[p].at # "fill" /\ \A q \in Pod : q # p => work'[q] = work[q]
    BY <1>13, ReplyEffect DEF Issue, CommitLost, Idle, TypeOK, Request
  <2>. QED BY <1>1, <1>5, <1>6, <2>1, <2>2, <2>3
<1>14. ASSUME NEW p \in Pod, Provision(p)
       PROVE  CacheOK' /\ StaleAtMostCacheTime'
  <2>1. token \in [1..Len(token) -> Row] /\ Len(token) \in Nat
    BY Typed DEF TypeOK, Row
  <2>2. Len(token) < MaxTokens /\ token' = Append(token, Fresh)
    BY <1>14 DEF Provision
  <2>3. /\ Len(token') = Len(token) + 1 /\ Len(token') \in Token
        /\ \A t \in 1..Len(token) : token'[t] = token[t]
    BY <2>1, <2>2, AppendEffect
  <2>4. EndsOK
    BY <1>14, <2>3, Typed, CredentialsAssumption DEF Provision, EndsOK, Ended, Row, Token
  <2>5. FillOK
    BY <1>14 DEF Provision, CacheOK, FillOK
  <2>. QED BY <1>1, <1>2, <1>14, <2>4, <2>5 DEF Provision
<1>15. ASSUME NEW p \in Pod, Rotate(p)
       PROVE  CacheOK' /\ StaleAtMostCacheTime'
  <2>1. /\ Len(token') = Len(token) + 1 /\ Len(token') \in Token
        /\ token' \in Seq(Row)
        /\ \A t \in 1..Len(token) :
             /\ token'[t].revoked = token[t].revoked
             /\ token'[t].until = token[t].until \/ token'[t].until >= now
    BY <1>15, RotationRows
  <2>2. \A t \in 1..Len(token) : token'[t] \in Row
    BY <2>1, Typed
  <2>3. EndsOK
    BY <1>15, <2>1, <2>2, Typed, CredentialsAssumption DEF Rotate, EndsOK, Ended, Row, Token
  <2>4. EntriesOK
    BY <1>2, <1>3, <1>15 DEF Rotate
  <2>5. work'[p].at # "fill" /\ \A q \in Pod : q # p => work'[q] = work[q]
    BY <1>15 DEF Rotate, Idle, TypeOK
  <2>. QED BY <1>1, <1>5, <1>15, <2>3, <2>4, <2>5 DEF Rotate
<1>16. ASSUME NEW p \in Pod, NEW b \in BOOLEAN, SetBlocked(p, b)
       PROVE  CacheOK' /\ StaleAtMostCacheTime'
  <2>1. EndsOK
    <3>1. token' = token /\ blockedAt' \in {now, 0} /\ Len(token) <= MaxTokens
      BY <1>16 DEF SetBlocked, TypeOK
    <3>2. /\ now \in Nat /\ Len(token) \in Nat
          /\ \A t \in 1..Len(token) : token[t].revoked \in Nat /\ token[t].until \in Nat
      BY Typed DEF Row
    <3>3. \A t \in 1..Len(token) : \A ended \in Ended(t)' :
             ended \in Nat /\ (ended \in Ended(t) \/ ended >= now)
      BY <3>1, <3>2 DEF Ended
    <3>. QED BY <3>1, <3>2, <3>3 DEF EndsOK
  <2>2. FillOK
    BY <1>16 DEF SetBlocked, CacheOK, FillOK
  <2>. QED BY <1>1, <1>3, <1>16, <2>1, <2>2 DEF SetBlocked
<1>17. ASSUME NEW p \in Pod, PodRestart(p)
       PROVE  CacheOK' /\ StaleAtMostCacheTime'
  <2>1. work'[p].at # "fill" /\ \A q \in Pod : q # p => work'[q] = work[q]
    BY <1>17 DEF PodRestart, Idle, TypeOK
  <2>. QED BY <1>1, <1>3, <1>4, <1>5, <1>17, <2>1 DEF PodRestart, rows
<1>18. CASE DatabaseDown \/ DatabaseUp
  <2>1. FillOK
    BY <1>18 DEF DatabaseDown, DatabaseUp, CacheOK, FillOK
  <2>. QED BY <1>1, <1>2, <1>4, <1>18, <2>1 DEF DatabaseDown, DatabaseUp, rows
<1>19. CASE Tick
  <2>1. /\ now \in Nat /\ now' = now + 1 /\ CacheTime \in Nat
        /\ \A p \in Pod, t \in Token : cache[p][t] \in Nat
        /\ \A p \in Pod : work'[p].at # "fill"
    BY <1>19, Typed, CredentialsAssumption DEF Tick, Idle, TypeOK
  <2>2. CacheOK'
    BY <1>19, <2>1 DEF Tick, CacheOK, rows
  <2>3. StaleAtMostCacheTime'
    BY <1>19 DEF Tick, StaleAtMostCacheTime, Ended, rows
  <2>. QED BY <2>2, <2>3
<1>. QED BY <1>7, <1>8, <1>9, <1>10, <1>11, <1>12, <1>13, <1>14, <1>15, <1>16,
            <1>17, <1>18, <1>19 DEF Next, Handle

-----------------------------------------------------------------------------
(***************************************************************************)
(* The theorems.                                                           *)
(***************************************************************************)

LEMMA InitInvariant ==
  Init => IInv
<1>. SUFFICES ASSUME Init PROVE IInv
  OBVIOUS
<1>1. TypeOK
  <2>1. Idle \in Request /\ 1 \in 1..MaxNow /\ 0 \in 0..MaxFaults
    BY CredentialsAssumption DEF Idle, Request, Phase
  <2>2. /\ work \in [Pod -> Request] /\ cache \in [Pod -> [Token -> Nat]]
        /\ device \in [Device -> [token : Token \cup {0}, awaiting : Pod \cup {NoPod}]]
    BY <2>1 DEF Init, Uncached
  <2>3. token \in Seq(Row) /\ Len(token) <= MaxTokens
    BY CredentialsAssumption DEF Init
  <2>. QED BY <2>1, <2>2, <2>3 DEF Init, TypeOK, Row
<1>2. EnrollmentOK /\ OnlyOwnerHolds
  BY DEF Init, EnrollmentOK, OnlyOwnerHolds, Writing, Idle
<1>3. CacheOK /\ StaleAtMostCacheTime
  BY DEF Init, CacheOK, StaleAtMostCacheTime, Uncached, Idle
<1>. QED BY <1>1, <1>2, <1>3 DEF IInv

LEMMA StepInvariant ==
  ASSUME IInv, [Next]_vars
  PROVE  IInv'
<1>1. CASE Next
  BY <1>1, TypeStep, EnrollmentStep, OwnerStep, CacheStep DEF IInv
<1>2. CASE UNCHANGED vars
  BY <1>2 DEF IInv, vars, rows, TypeOK, EnrollmentOK, OnlyOwnerHolds, CacheOK,
     StaleAtMostCacheTime, Writing, Ended
<1>. QED BY <1>1, <1>2

(* The inductive invariant: every variable keeps its type, at most one       *)
(* enrollment has written the agent's rows, tokens go to the claim's device  *)
(* only, and nothing that has ended is cached beyond CacheTime.              *)
THEOREM Inductive == Spec => []IInv
<1>. QED BY InitInvariant, StepInvariant, PTL DEF Spec

(* AutoEnroll: however enrollments race and fail, only the device whose      *)
(* claim is stored ever holds a token.                                      *)
THEOREM OwnerOnly == Spec => []OnlyOwnerHolds
<1>1. IInv => OnlyOwnerHolds
  BY DEF IInv
<1>. QED BY <1>1, Inductive, PTL

(* authenticate and invalidateCache: a cache that nobody told of the end of *)
(* a token or of a block forgets it within CacheTime.                        *)
THEOREM CacheBound == Spec => []StaleAtMostCacheTime
<1>1. IInv => StaleAtMostCacheTime
  BY DEF IInv
<1>. QED BY <1>1, Inductive, PTL
=============================================================================
