------------------------- MODULE AgentUpdateProofs -------------------------
(***************************************************************************)
(* Proofs about AgentUpdate: wherever the helper fails or dies and whatever   *)
(* operators publish, stop or retire, the host can be brought back, runs      *)
(* what it has, and comes to rest.                                           *)
(***************************************************************************)
EXTENDS AgentUpdate, SequenceLemmas

(* The helper has an offer it may still install.                             *)
InHand == helper.step \in {"read", "tested", "aside"}

(* What the steps of the helper leave on the disk (updater.rs, apply_pending, *)
(* atomic_install): a binary that starts, at its place or beside it.          *)
Swapping ==
  /\ helper.step = "rest" => helper = Rest
  /\ checker.step = "rest" => checker = Rest
  /\ checker.step # "rest" => checker.offer # NoOffer
  /\ InHand => Accepts(helper.offer, Base)
  /\ installed \notin Broken \/ installed = 0
  /\ installed = 0 => previous \in Version \ Broken
  /\ helper.step \in {"read", "tested"} => installed # 0
  /\ helper.step = "aside" => installed = 0
  /\ helper.step \in {"tested", "aside"} => helper.offer.version \in Version \ Broken
  /\ RunsInstalled

-----------------------------------------------------------------------------
(***************************************************************************)
(* How many installations are left, once operators have stopped and no open   *)
(* rollback is below another open release.  An offer the store makes now is    *)
(* current, any other that is on its way is stale.  At most three are on       *)
(* their way, one behind the other: the helper's, the marker's and the         *)
(* checker's; a current one is only asked for when the checker's is gone, so    *)
(* that whatever is before the last stale one counts, stale or not.  What       *)
(* follows is one climb: the newest normal release, then the rollback.          *)
(***************************************************************************)
One(b) == IF b THEN 1 ELSE 0

Current(o) ==
  /\ o.version \in Candidates /\ o.kind = kind[o.version] /\ o.kind \in {"normal", "rollback"}
  /\ o.kind = "normal" => \A w \in Candidates : kind[w] = "normal" => w <= o.version
Stale(o) == o # NoOffer /\ ~Current(o)

(* The helper's offer is not the marker's any more; the marker may be taken up. *)
Own == InHand /\ helper.offer # pending
Live == pending # NoOffer /\ (InHand \/ pending.version # Base)

Climb(i) == One(\E v \in Candidates : kind[v] = "normal" /\ v > i)
            + One(\E v \in Candidates : kind[v] = "rollback" /\ v # i)

Left ==
  IF Stale(checker.offer) THEN One(Own) + One(Live) + 3
  ELSE IF Live /\ Stale(pending) THEN One(Own) + 3
  ELSE IF InHand /\ Stale(helper.offer) THEN 3
  ELSE Climb(Base)

Few == Calm => installs + Left <= 5

-----------------------------------------------------------------------------
OfferRecords == [version : Nat, kind : Kind]

LEMMA HostTypes ==
  ASSUME TypeOK
  PROVE  /\ running \in Nat /\ installed \in Nat /\ previous \in Nat /\ Base \in Nat
         /\ pending \in OfferRecords /\ checker.offer \in OfferRecords /\ helper.offer \in OfferRecords
         /\ pending \in Offers /\ checker.offer \in Offers /\ helper.offer \in Offers
         /\ Candidates \subseteq Version /\ Version \subseteq Nat
         /\ NoOffer \in Offers /\ NoOffer.version = 0
<1>1. /\ NoOffer \in OfferRecords /\ Offers \subseteq OfferRecords /\ Version \subseteq Nat
      /\ NoOffer \in Offers /\ NoOffer.version = 0
  BY HostAssumption DEF NoOffer, Offers, OfferRecords, Kind, Version
<1>2. /\ running \in Nat /\ installed \in Nat /\ previous \in Nat
  BY HostAssumption DEF TypeOK
<1>3. /\ pending \in Offers /\ checker.offer \in Offers /\ helper.offer \in Offers
  BY DEF TypeOK
<1>. QED BY <1>1, <1>2, <1>3 DEF Base, Candidates

(* What the store offers a host is the newest release it may be sent.          *)
LEMMA OfferIsNewest ==
  ASSUME TypeOK, NEW allowed, allowed = {v \in Candidates : Allowed(v, running)}
  PROVE  /\ allowed = {} => Offer(running) = 0
         /\ allowed # {} => /\ Offer(running) \in allowed /\ Offer(running) # 0
                            /\ \A v \in allowed : v <= Offer(running)
<1>1. allowed \in SUBSET (0 .. MaxVersion) /\ 0 \notin allowed /\ MaxVersion \in Nat
  BY HostAssumption DEF Candidates, Version
<1>2. Offer(running) = IF allowed = {} THEN 0 ELSE Max(allowed)
  BY DEF Offer
<1>3. ASSUME allowed # {}
      PROVE  Max(allowed) \in allowed /\ \A v \in allowed : v <= Max(allowed)
  BY <1>1, <1>3, MaxOfNaturals
<1>. QED BY <1>1, <1>2, <1>3

LEMMA AskedIsCurrent ==
  ASSUME TypeOK, AskOffer
  PROVE  /\ checker'.step = "offered" /\ checker'.offer \in Offers /\ Current(checker'.offer)
         /\ UNCHANGED <<store, running, installed, previous, staged, pending, helper, installs,
                        deaths, unfinished, trigger>>
<1>. DEFINE v == Offer(running)
            o == [version |-> v, kind |-> kind[v]]
            allowed == {w \in Candidates : Allowed(w, running)}
<1>1. /\ v # 0 /\ checker' = [step |-> "offered", offer |-> o]
      /\ UNCHANGED <<store, running, installed, previous, staged, pending, helper, installs,
                     deaths, unfinished, trigger>>
  BY DEF AskOffer, ends
<1>2. v \in allowed /\ \A w \in allowed : w <= v
  BY <1>1, OfferIsNewest
<1>3. /\ v \in Candidates /\ kind[v] \in {"normal", "rollback"} /\ v \in Version /\ v \in Nat
      /\ running \in Nat
      /\ kind[v] = "normal" => v > running
  BY <1>2, HostTypes DEF Allowed
<1>. HIDE DEF v
<1>4. o.version = v /\ o.kind = kind[v] /\ o \in Offers
  BY <1>3 DEF Offers, Kind
<1>5. ASSUME NEW w \in Candidates, kind[v] = "normal", kind[w] = "normal" PROVE w <= v
  <2>1. w \in Nat
    BY HostTypes
  <2>2. CASE w > running
    BY <1>2, <1>5, <2>2 DEF Allowed
  <2>. QED BY <1>3, <1>5, <2>1, <2>2
<1>. HIDE DEF o
<1>6. Current(o)
  BY <1>3, <1>4, <1>5 DEF Current
<1>. QED BY <1>1, <1>4, <1>6

(* Sums of what is left.                                                      *)
LEMMA SumsStay ==
  /\ \A i, l, m \in Nat : i + l <= 5 /\ m <= l => i + m <= 5
  /\ \A i, l, m \in Nat : i + l <= 5 /\ m + 1 <= l => (i + 1) + m <= 5
  /\ \A a, b, x, y \in Nat : x <= a /\ y <= b => x + y + 3 <= a + b + 3
  /\ \A a, b, x \in Nat : x <= a + b => x + 3 <= a + b + 3
  /\ \A b, y \in Nat : y <= b => (y + 3) + 1 <= 1 + b + 3
  /\ \A a, x \in Nat : x <= 2 => x + 1 <= a + 3
  /\ \A x \in 0 .. 2 : x + 1 <= 3
  /\ \A l \in 0 .. 5 : 0 + l <= 5
OBVIOUS

LEMMA LeftIsFew == Left \in 0 .. 5
<1>. DEFINE a == One(Own)
            b == One(Live)
            c == Climb(Base)
<1>1. a \in 0 .. 1 /\ b \in 0 .. 1 /\ c \in 0 .. 2
  BY DEF One, Climb
<1>2. Left = IF Stale(checker.offer) THEN a + b + 3
             ELSE IF Live /\ Stale(pending) THEN a + 3
             ELSE IF InHand /\ Stale(helper.offer) THEN 3
             ELSE c
  BY DEF Left
<1>. HIDE DEF a, b, c
<1>. QED BY <1>1, <1>2

LEMMA LeftStaysFew == Left' \in 0 .. 5
<1>1. (Left \in 0 .. 5)'
  BY LeftIsFew, PTL
<1>. QED BY <1>1

(* While the store stays as it is, so does what it offers.                     *)
LEMMA StoreStays ==
  ASSUME UNCHANGED <<kind, open>>
  PROVE  /\ Calm' <=> Calm
         /\ \A o : Stale(o)' <=> Stale(o)
         /\ \A i : Climb(i)' = Climb(i)
<1>1. Candidates' = Candidates
  BY DEF Candidates
<1>2. \A o : Current(o)' <=> Current(o)
  BY <1>1 DEF Current
<1>. QED BY <1>1, <1>2 DEF Stale, Climb, Calm

(* Installing an offer the store makes now is a step of the climb.             *)
LEMMA ClimbDrops ==
  ASSUME TypeOK, Calm, NEW o \in Offers, NEW i \in Nat, Current(o), Accepts(o, i)
  PROVE  Climb(o.version) + 1 <= Climb(i)
<1>. DEFINE v == o.version
            Normal(j) == \E w \in Candidates : kind[w] = "normal" /\ w > j
            Back(j) == \E w \in Candidates : kind[w] = "rollback" /\ w # j
<1>1. /\ v \in Candidates /\ kind[v] \in {"normal", "rollback"} /\ v \in Nat /\ o.kind = kind[v]
      /\ Candidates \subseteq Version /\ Version \subseteq Nat
      /\ \A w \in Candidates : open[w]
  BY HostTypes DEF Current, Candidates
<1>2. v # i /\ (kind[v] = "normal" => v > i)
  BY <1>1 DEF Accepts
<1>3. \A w, u \in Candidates : kind[w] = "rollback" => u <= w
  BY <1>1 DEF Calm
<1>4. CASE kind[v] = "normal"
  <2>1. ~Normal(v) /\ Normal(i)
    BY <1>1, <1>2, <1>4 DEF Current
  <2>2. Back(v) => Back(i)
    <3>1. ASSUME NEW w \in Candidates, kind[w] = "rollback", w # v PROVE w # i
      <4>1. v <= w /\ v > i /\ w \in Nat
        BY <1>1, <1>2, <1>3, <1>4, <3>1
      <4>. QED BY <1>1, <4>1
    <3>. QED BY <3>1
  <2>. QED BY <2>1, <2>2 DEF Climb, One
<1>5. CASE kind[v] = "rollback"
  <2>1. ~Normal(v)
    BY <1>1, <1>3, <1>5
  <2>2. ~Back(v)
    <3>1. ASSUME NEW w \in Candidates, kind[w] = "rollback" PROVE w = v
      <4>1. w <= v /\ v <= w /\ w \in Nat
        BY <1>1, <1>3, <1>5, <3>1
      <4>. QED BY <1>1, <4>1
    <3>. QED BY <3>1
  <2>3. Back(i)
    BY <1>1, <1>2, <1>5
  <2>. QED BY <2>1, <2>2, <2>3 DEF Climb, One
<1>. QED BY <1>1, <1>4, <1>5

(* Steps that install nothing, and put no new offer on its way but a current one. *)
LEMMA LeftDrops ==
  ASSUME UNCHANGED <<kind, open, installs>>, Base' = Base, Few,
         Stale(checker.offer)' => Stale(checker.offer),
         (Live /\ Stale(pending))' => Live /\ Stale(pending),
         (InHand /\ Stale(helper.offer))' =>
            (InHand /\ Stale(helper.offer)) \/ (Live /\ Stale(pending)),
         Own' => Own, Live' => Live, installs \in Nat
  PROVE  Few'
<1>. DEFINE a == One(Own)
            b == One(Live)
            c == Climb(Base)
<1>1. /\ a \in 0 .. 1 /\ b \in 0 .. 1 /\ c \in 0 .. 2 /\ a' \in 0 .. 1 /\ b' \in 0 .. 1
      /\ a' <= a /\ b' <= b
  BY DEF One, Climb
<1>2. (Calm' <=> Calm) /\ c' = c
  BY StoreStays DEF Climb, Candidates
<1>. DEFINE checking == Stale(checker.offer)
            marked == Live /\ Stale(pending)
            helping == InHand /\ Stale(helper.offer)
<1>3. Left = IF checking THEN a + b + 3 ELSE IF marked THEN a + 3 ELSE IF helping THEN 3 ELSE c
  BY DEF Left
<1>4. Left' = IF checking' THEN a' + b' + 3 ELSE IF marked' THEN a' + 3
              ELSE IF helping' THEN 3 ELSE c'
  BY DEF Left
<1>5. /\ checking' => checking
      /\ marked' => marked
      /\ helping' => helping \/ marked
      /\ marked => b = 1
  BY DEF One
<1>. HIDE DEF a, b, c, checking, marked, helping
<1>6. Left' <= Left
  <2>1. /\ checking => Left = a + b + 3
        /\ ~checking /\ marked => Left = a + 3
        /\ ~checking /\ ~marked /\ helping => Left = 3
        /\ ~checking /\ ~marked /\ ~helping => Left = c
    BY Zenon, <1>3
  <2>2. /\ checking' => Left' = a' + b' + 3
        /\ ~checking' /\ marked' => Left' = a' + 3
        /\ ~checking' /\ ~marked' /\ helping' => Left' = 3
        /\ ~checking' /\ ~marked' /\ ~helping' => Left' = c'
    BY Zenon, <1>4
  <2>3. CASE checking'
    <3>1. /\ Left = a + b + 3 /\ Left' = a' + b' + 3 /\ a' <= a /\ b' <= b
          /\ a \in Nat /\ b \in Nat /\ a' \in Nat /\ b' \in Nat
      BY <1>1, <1>5, <2>1, <2>2, <2>3
    <3>. QED BY <3>1, SumsStay
  <2>4. CASE ~checking' /\ marked'
    BY <1>1, <1>5, <2>1, <2>2, <2>4
  <2>5. CASE ~checking' /\ ~marked' /\ helping'
    BY <1>1, <1>5, <2>1, <2>2, <2>5
  <2>6. CASE ~checking' /\ ~marked' /\ ~helping'
    BY <1>1, <1>2, <2>1, <2>2, <2>6
  <2>. QED BY <2>3, <2>4, <2>5, <2>6
<1>7. Left \in Nat /\ Left' \in Nat
  BY LeftIsFew, LeftStaysFew
<1>8. ASSUME Calm' PROVE installs' + Left' <= 5
  <2>1. installs + Left <= 5 /\ installs' = installs
    BY <1>2, <1>8 DEF Few
  <2>. QED BY <1>6, <1>7, <2>1, SumsStay
<1>. QED BY <1>8 DEF Few

-----------------------------------------------------------------------------
(***************************************************************************)
(* What each step does to the types and the binaries.                       *)
(***************************************************************************)
CheckerSteps == {"rest", "offered", "verified", "kept", "pruned"}
HelperSteps == {"rest", "read", "tested", "aside", "active", "unmarked"}
Triggers == {"watching", "stopped", "atStart"}

(* The service need not be restarted.                                         *)
Restarted == helper.step \notin {"active", "unmarked"} /\ ~ unfinished

LEMMA HostInitial ==
  ASSUME Init
  PROVE  TypeOK /\ Swapping
<1>1. /\ kind \in [Version -> {"absent", "normal", "unsignedRollback"}]
      /\ open = [v \in Version |-> kind[v] # "absent"]
      /\ running \in Version \ Broken /\ installed = running /\ previous = 0
      /\ staged = {} /\ pending = NoOffer /\ checker = Rest /\ helper = Rest
      /\ releases = 0 /\ installs = 0 /\ deaths = 0 /\ unfinished = FALSE
      /\ trigger \in {"watching", "atStart"}
  BY DEF Init
<1>2. Rest.step = "rest" /\ Rest.offer = NoOffer
  BY DEF Rest
<1>3. NoOffer \in Offers
  BY DEF Offers
<1>4. /\ checker \in [step : CheckerSteps, offer : Offers]
      /\ helper \in [step : HelperSteps, offer : Offers]
  BY <1>1, <1>3 DEF Rest, CheckerSteps, HelperSteps
<1>5. kind \in [Version -> Kind]
  BY <1>1 DEF Kind
<1>6. open \in [Version -> BOOLEAN]
  BY Zenon, <1>1
<1>7. /\ running \in 0 .. MaxVersion /\ installed \in 0 .. MaxVersion /\ previous \in 0 .. MaxVersion
      /\ releases \in 0 .. MaxReleases /\ installs \in 0 .. MaxInstalls + 1 /\ installed # 0
      /\ staged \subseteq Version
  BY <1>1, HostAssumption DEF Version
<1>8. deaths \in 0 .. MaxDeaths /\ unfinished \in BOOLEAN /\ trigger \in Triggers
  <2>1. unfinished \in BOOLEAN
    BY Zenon, <1>1
  <2>. QED BY <1>1, <2>1, HostAssumption DEF Triggers
<1>9. TypeOK
  BY <1>1, <1>3, <1>4, <1>5, <1>6, <1>7, <1>8 DEF TypeOK, CheckerSteps, HelperSteps, Triggers
<1>10. Swapping
  BY <1>1, <1>2, <1>7 DEF Swapping, InHand, RunsInstalled, Base
<1>. QED BY <1>9, <1>10

(* The rest of the state, for the steps that leave it alone.                   *)
LEMMA TypesRest ==
  ASSUME TypeOK, UNCHANGED <<kind, open, releases, installs>>,
         deaths' \in 0 .. MaxDeaths, unfinished' \in BOOLEAN, trigger' \in Triggers,
         running' \in 0 .. MaxVersion, installed' \in 0 .. MaxVersion, previous' \in 0 .. MaxVersion,
         staged' \subseteq Version, pending' \in Offers,
         checker' \in [step : CheckerSteps, offer : Offers],
         helper' \in [step : HelperSteps, offer : Offers]
  PROVE  TypeOK'
BY DEF TypeOK, CheckerSteps, HelperSteps, Triggers

(* What a run of the helper that fails does to what starts it.                *)
LEMMA FailsRests ==
  ASSUME TypeOK, Fails
  PROVE  helper' = Rest /\ trigger' \in Triggers
BY DEF Fails, TypeOK, Triggers

(* While the next installation replaces the same binary, the Agent runs it.    *)
LEMMA RunsOn ==
  ASSUME RunsInstalled, Base' = Base, Restarted' => Restarted \/ running' = Base,
         running' \in {0, running, Base}
  PROVE  RunsInstalled'
BY DEF RunsInstalled, Restarted

LEMMA HostFields ==
  ASSUME TypeOK
  PROVE  /\ checker \in [step : CheckerSteps, offer : Offers]
         /\ helper \in [step : HelperSteps, offer : Offers]
         /\ running \in 0 .. MaxVersion /\ installed \in 0 .. MaxVersion
         /\ previous \in 0 .. MaxVersion
         /\ staged \subseteq Version /\ pending \in Offers
         /\ deaths \in 0 .. MaxDeaths /\ unfinished \in BOOLEAN /\ trigger \in Triggers
         /\ Rest \in [step : CheckerSteps, offer : Offers]
         /\ Rest \in [step : HelperSteps, offer : Offers]
         /\ Rest.step = "rest" /\ Rest.offer = NoOffer
         /\ 0 \in 0 .. MaxVersion /\ Version \subseteq 0 .. MaxVersion
<1>1. NoOffer \in Offers
  BY DEF Offers
<1>2. /\ Rest \in [step : CheckerSteps, offer : Offers]
      /\ Rest \in [step : HelperSteps, offer : Offers]
      /\ Rest.step = "rest" /\ Rest.offer = NoOffer
  BY <1>1 DEF Rest, CheckerSteps, HelperSteps
<1>3. 0 \in 0 .. MaxVersion /\ Version \subseteq 0 .. MaxVersion
  BY HostAssumption DEF Version
<1>. QED BY <1>2, <1>3 DEF TypeOK, CheckerSteps, HelperSteps, Triggers

(* The Agent's check leaves the helper and the binaries alone.                *)
LEMMA CheckKeeps ==
  ASSUME TypeOK, Swapping, Check
  PROVE  TypeOK' /\ Swapping' /\ Base' = Base
<1>1. /\ UNCHANGED <<kind, open, releases, running, installed, previous, helper, installs,
                     deaths, unfinished, trigger>>
      /\ staged' \subseteq Version /\ pending' \in Offers
      /\ checker' \in [step : CheckerSteps, offer : Offers]
      /\ checker'.step = "rest" => checker' = Rest
      /\ checker'.step # "rest" => checker'.offer # NoOffer
  <2>1. CASE AskOffer
    <3>1. /\ checker'.step = "offered" /\ checker'.offer \in Offers /\ Current(checker'.offer)
          /\ UNCHANGED <<store, running, installed, previous, staged, pending, helper, installs,
                         deaths, unfinished, trigger>>
      BY <2>1, AskedIsCurrent
    <3>2. checker' = [step |-> checker'.step, offer |-> checker'.offer]
      BY <2>1 DEF AskOffer
    <3>3. checker'.offer # NoOffer
      BY <3>1, HostTypes DEF Current, Version
    <3>. QED BY <3>1, <3>2, <3>3, HostFields DEF store, ends, CheckerSteps
  <2>2. CASE Download \/ KeepArtifact \/ Prune
    <3>1. /\ UNCHANGED <<kind, open, releases, running, installed, previous, helper, pending, installs,
                         deaths, unfinished, trigger>>
          /\ checker' \in {Rest, [checker EXCEPT !.step = "verified"],
                           [checker EXCEPT !.step = "kept"], [checker EXCEPT !.step = "pruned"]}
          /\ staged' \in {staged, staged \cup {checker.offer.version},
                          staged \cap {checker.offer.version}}
          /\ KeepArtifact => checker.step = "verified"
          /\ checker.step # "rest"
      BY <2>2 DEF Download, KeepArtifact, Prune, store, ends
    <3>2. /\ checker' \in [step : CheckerSteps, offer : Offers]
          /\ checker'.step = "rest" => checker' = Rest
          /\ checker'.step # "rest" => checker'.offer # NoOffer
      BY <3>1, HostFields DEF CheckerSteps, Swapping
    <3>3. ~KeepArtifact => staged' \subseteq Version
      BY <2>2, HostFields DEF Download, Prune
    <3>4. ASSUME KeepArtifact PROVE staged' \subseteq Version
      <4>1. /\ checker.offer \in Offers /\ checker.step = "verified"
            /\ staged' = staged \cup {checker.offer.version}
        BY <3>4, HostFields DEF KeepArtifact
      <4>2. checker.offer.version \in Version
        BY <4>1 DEF Offers, Swapping
      <4>. QED BY <4>1, <4>2, HostFields
    <3>. QED BY <3>1, <3>2, <3>3, <3>4, HostFields
  <2>3. CASE Mark
    BY <2>3, HostFields DEF Mark, store, ends
  <2>. QED BY <2>1, <2>2, <2>3 DEF Check
<1>2. TypeOK'
  BY <1>1, HostFields, TypesRest
<1>3. Base' = Base
  BY <1>1 DEF Base
<1>4. RunsInstalled'
  BY <1>1, <1>3, RunsOn DEF Swapping, Restarted
<1>5. Swapping'
  BY <1>1, <1>3, <1>4 DEF Swapping, InHand, Accepts
<1>. QED BY <1>2, <1>3, <1>5

(* The helper goes from one step to another, or rests.                         *)
LEMMA HelperMoves ==
  ASSUME TypeOK, NEW stage \in HelperSteps, helper' = [helper EXCEPT !.step = stage]
  PROVE  /\ helper' \in [step : HelperSteps, offer : Offers]
         /\ helper'.step = stage /\ helper'.offer = helper.offer
BY HostFields

LEMMA MarkerRead ==
  ASSUME TypeOK, Swapping, ReadMarker
  PROVE  /\ TypeOK' /\ Swapping' /\ Base' = Base
         /\ helper'.step = "read" /\ helper'.offer = pending /\ pending.version # Base
         /\ UNCHANGED <<kind, open, pending, checker, installs>>
<1>1. /\ helper = Rest /\ installed # 0 /\ pending # NoOffer /\ Accepts(pending, installed)
      /\ helper' = [step |-> "read", offer |-> pending]
      /\ UNCHANGED <<kind, open, releases, running, installed, previous, staged, pending, checker,
                     installs, deaths, unfinished, trigger>>
  BY DEF ReadMarker, Started, store, ends
<1>2. /\ helper' \in [step : HelperSteps, offer : Offers]
      /\ helper'.step = "read" /\ helper'.offer = pending
  BY <1>1, HostFields DEF HelperSteps
<1>3. TypeOK'
  BY <1>1, <1>2, HostFields, TypesRest
<1>4. Base = installed /\ Base' = Base
  BY <1>1 DEF Base
<1>5. RunsInstalled'
  BY <1>1, <1>2, <1>4, HostFields, RunsOn DEF Swapping, Restarted
<1>6. Swapping'
  BY <1>1, <1>2, <1>4, <1>5 DEF Swapping, InHand, Accepts
<1>7. pending.version # Base
  BY <1>1, <1>4, HostTypes DEF Accepts, OfferRecords
<1>. QED BY <1>1, <1>2, <1>3, <1>4, <1>6, <1>7

LEMMA ArtifactTested ==
  ASSUME TypeOK, Swapping, SelfTest
  PROVE  /\ TypeOK' /\ Swapping' /\ Base' = Base
         /\ InHand /\ helper'.step = "tested" /\ helper'.offer = helper.offer
         /\ UNCHANGED <<kind, open, pending, checker, installs>>
<1>1. /\ helper.step = "read" /\ helper.offer.version \in staged \ Broken
      /\ helper' = [helper EXCEPT !.step = "tested"]
      /\ UNCHANGED <<kind, open, releases, running, installed, previous, staged, pending, checker,
                     installs, deaths, unfinished, trigger>>
  BY DEF SelfTest, store, ends
<1>2. Base' = Base
  BY <1>1 DEF Base
<1>3. /\ helper' \in [step : HelperSteps, offer : Offers]
      /\ helper'.step = "tested" /\ helper'.offer = helper.offer
  BY <1>1, HelperMoves DEF HelperSteps
<1>4. TypeOK'
  BY <1>1, <1>3, HostFields, TypesRest
<1>5. RunsInstalled'
  BY <1>1, <1>2, <1>3, RunsOn DEF Swapping, Restarted
<1>6. Swapping'
  BY <1>1, <1>2, <1>3, <1>5, HostFields DEF Swapping, InHand, Accepts
<1>. QED BY <1>1, <1>2, <1>3, <1>4, <1>6 DEF InHand

(* A marker that is refused, or an artifact, leaves all as it is.              *)
LEMMA NothingTaken ==
  ASSUME TypeOK, Swapping, Refuse \/ TestFails \/ KeepOld
  PROVE  /\ TypeOK' /\ Swapping' /\ Base' = Base /\ helper' = Rest
         /\ UNCHANGED <<kind, open, checker, pending, installs>>
<1>1. /\ helper' = Rest /\ trigger' \in Triggers
      /\ previous' = previous \/ (previous' = 0 /\ helper.step = "tested")
      /\ Restarted
         \/ unfinished
      /\ UNCHANGED <<kind, open, releases, running, installed, staged, pending, checker,
                     installs, deaths, unfinished>>
  BY FailsRests, HostFields DEF Refuse, TestFails, KeepOld, Started, Restarted, store
<1>2. previous' \in 0 .. MaxVersion /\ Base' = Base
  BY <1>1, HostFields DEF Swapping, Base
<1>3. TypeOK'
  BY <1>1, <1>2, HostFields, TypesRest
<1>4. RunsInstalled'
  BY <1>1, <1>2, RunsOn DEF Swapping, Restarted
<1>5. Swapping'
  BY <1>1, <1>2, <1>4, HostFields DEF Swapping, InHand
<1>. QED BY <1>1, <1>2, <1>3, <1>5

LEMMA MovedAside ==
  ASSUME TypeOK, Swapping, MoveAside
  PROVE  /\ TypeOK' /\ Swapping' /\ Base' = Base
         /\ InHand /\ helper'.step = "aside" /\ helper'.offer = helper.offer
         /\ UNCHANGED <<kind, open, pending, checker, installs>>
<1>1. /\ helper.step = "tested" /\ previous' = installed /\ installed' = 0
      /\ helper' = [helper EXCEPT !.step = "aside"]
      /\ UNCHANGED <<kind, open, releases, running, staged, pending, checker, installs,
                     deaths, unfinished, trigger>>
  BY DEF MoveAside, store, ends
<1>2. /\ helper' \in [step : HelperSteps, offer : Offers]
      /\ helper'.step = "aside" /\ helper'.offer = helper.offer
  BY <1>1, HelperMoves DEF HelperSteps
<1>3. TypeOK'
  BY <1>1, <1>2, HostFields, TypesRest
<1>4. installed # 0 /\ installed \in Version \ Broken /\ Base' = Base
  BY <1>1, HostFields, HostAssumption DEF Swapping, Base, Version
<1>5. RunsInstalled'
  BY <1>1, <1>2, <1>4, RunsOn DEF Swapping, Restarted
<1>6. Swapping'
  BY <1>1, <1>2, <1>4, <1>5 DEF Swapping, InHand, Accepts
<1>. QED BY <1>1, <1>2, <1>3, <1>4, <1>6 DEF InHand

LEMMA Activated ==
  ASSUME TypeOK, Swapping, Activate
  PROVE  /\ TypeOK' /\ Swapping'
         /\ helper.step = "aside" /\ helper'.step = "active" /\ Base' = helper.offer.version
         /\ installs <= MaxInstalls => installs' = installs + 1
         /\ UNCHANGED <<kind, open, pending, checker>>
<1>1. /\ helper.step = "aside" /\ installed' = helper.offer.version
      /\ installs' = Min({installs + 1, MaxInstalls + 1})
      /\ helper' = [helper EXCEPT !.step = "active"]
      /\ UNCHANGED <<kind, open, releases, running, previous, staged, pending, checker,
                     deaths, unfinished, trigger>>
  BY DEF Activate, store, ends
<1>2. /\ helper' \in [step : HelperSteps, offer : Offers]
      /\ helper'.step = "active" /\ helper'.offer = helper.offer
  BY <1>1, HelperMoves DEF HelperSteps
<1>3. /\ helper.offer.version \in Version \ Broken /\ installed' # 0 /\ installed' \in 0 .. MaxVersion
  BY <1>1, HostFields, HostAssumption DEF Swapping, Version
<1>4. /\ installs \in 0 .. MaxInstalls + 1 /\ installs' \in 0 .. MaxInstalls + 1
      /\ installs <= MaxInstalls => installs' = installs + 1
  <2>. DEFINE counts == {installs + 1, MaxInstalls + 1}
  <2>1. installs \in 0 .. MaxInstalls + 1 /\ MaxInstalls \in Nat
    BY HostAssumption DEF TypeOK
  <2>2. counts \in SUBSET Nat /\ counts # {}
    BY <2>1
  <2>3. Min(counts) \in counts /\ \A y \in counts : Min(counts) <= y
    BY <2>2, MinOfNaturals
  <2>4. installs' \in {installs + 1, MaxInstalls + 1} /\ installs' <= installs + 1
        /\ installs' <= MaxInstalls + 1
    BY <1>1, <2>3
  <2>. QED BY <2>1, <2>4
<1>5. TypeOK'
  BY <1>1, <1>2, <1>3, <1>4 DEF TypeOK, HelperSteps
<1>6. Base' = helper.offer.version
  BY <1>1, <1>3 DEF Base
<1>7. Swapping'
  BY <1>1, <1>2, <1>3 DEF Swapping, InHand, RunsInstalled
<1>. QED BY <1>1, <1>2, <1>4, <1>5, <1>6, <1>7

(* The helper gives up, is done, or dies.                                     *)
LEMMA HelperLeaves ==
  ASSUME TypeOK, Swapping, PutBack \/ LeaveMarker \/ Finish \/ HelperDies
  PROVE  /\ TypeOK' /\ Swapping' /\ Base' = Base /\ helper' = Rest
         /\ checker' = checker \/ checker' = Rest
         /\ UNCHANGED <<kind, open, pending, installs>>
<1>1. CASE PutBack
  <2>1. /\ helper.step = "aside" /\ helper' = Rest /\ trigger' \in Triggers
        /\ (installed' = previous /\ previous' = 0) \/ UNCHANGED <<installed, previous>>
        /\ UNCHANGED <<kind, open, releases, running, staged, pending, checker, installs, deaths,
                       unfinished>>
    BY <1>1, FailsRests DEF PutBack, store
  <2>2. TypeOK'
    <3>1. installed' \in 0 .. MaxVersion /\ previous' \in 0 .. MaxVersion
      BY <2>1, HostFields
    <3>. QED BY <2>1, <3>1, HostFields, TypesRest
  <2>3. previous \in Version \ Broken /\ previous # 0 /\ installed = 0 /\ Base' = Base
    BY <2>1, HostAssumption DEF Swapping, Base, Version
  <2>4. RunsInstalled'
    BY <2>1, <2>3, RunsOn DEF Swapping, Restarted
  <2>5. Swapping'
    BY <2>1, <2>3, <2>4, HostFields DEF Swapping, InHand
  <2>. QED BY <2>1, <2>2, <2>3, <2>5
<1>2. CASE LeaveMarker
  <2>1. /\ helper' = Rest /\ trigger' \in Triggers /\ unfinished' = TRUE
        /\ UNCHANGED <<kind, open, releases, running, installed, previous, staged, pending, checker,
                       installs, deaths>>
    BY <1>2, FailsRests DEF LeaveMarker, store
  <2>2. TypeOK'
    BY <2>1, HostFields, TypesRest
  <2>3. Base' = Base
    BY <2>1 DEF Base
  <2>4. Swapping'
    BY <2>1, HostFields DEF Swapping, InHand, RunsInstalled
  <2>. QED BY <2>1, <2>2, <2>3, <2>4
<1>3. CASE Finish
  <2>1. /\ helper.step = "unmarked" /\ staged' = staged \ {helper.offer.version} /\ helper' = Rest
        /\ running' \in {0, installed} /\ checker' = Rest /\ unfinished' = FALSE
        /\ UNCHANGED <<kind, open, releases, installed, previous, pending, installs, deaths, trigger>>
    BY <1>3 DEF Finish, store
  <2>2. TypeOK'
    <3>1. running' \in 0 .. MaxVersion /\ staged' \subseteq Version /\ unfinished' \in BOOLEAN
      BY <2>1, HostFields
    <3>. QED BY <2>1, <3>1, HostFields, TypesRest
  <2>3. Base' = Base /\ running' \in {0, Base}
    BY <2>1 DEF Base
  <2>4. Swapping'
    BY <2>1, <2>3, HostFields DEF Swapping, InHand, RunsInstalled
  <2>. QED BY <2>1, <2>2, <2>3, <2>4
<1>4. CASE HelperDies
  <2>. DEFINE late == unfinished \/ helper.step \in {"active", "unmarked"}
  <2>1. /\ helper' = Rest /\ trigger' \in Triggers /\ deaths < MaxDeaths /\ deaths' = deaths + 1
        /\ unfinished' = late
        /\ UNCHANGED <<kind, open, releases, running, installed, previous, staged, pending, checker,
                       installs>>
    BY <1>4, FailsRests DEF HelperDies, store
  <2>2. late \in BOOLEAN /\ (~ late => Restarted)
    BY DEF Restarted
  <2>. HIDE DEF late
  <2>3. unfinished' \in BOOLEAN /\ deaths' \in 0 .. MaxDeaths
    BY <2>1, <2>2, HostFields, HostAssumption
  <2>4. TypeOK'
    BY <2>1, <2>3, HostFields, TypesRest
  <2>5. Base' = Base
    BY <2>1 DEF Base
  <2>6. RunsInstalled'
    BY <2>1, <2>2, <2>5, RunsOn DEF Swapping, Restarted
  <2>7. Swapping'
    BY <2>1, <2>6, HostFields DEF Swapping, InHand
  <2>. QED BY <2>1, <2>4, <2>5, <2>7
<1>. QED BY <1>1, <1>2, <1>3, <1>4

LEMMA MarkerRemoved ==
  ASSUME TypeOK, Swapping, RemoveMarker
  PROVE  /\ TypeOK' /\ Swapping' /\ Base' = Base /\ pending' = NoOffer
         /\ helper'.step = "unmarked" /\ helper'.offer = helper.offer
         /\ UNCHANGED <<kind, open, checker, installs>>
<1>1. /\ helper.step = "active" /\ pending' = NoOffer
      /\ helper' = [helper EXCEPT !.step = "unmarked"]
      /\ UNCHANGED <<kind, open, releases, running, installed, previous, staged, checker, installs,
                     deaths, unfinished, trigger>>
  BY DEF RemoveMarker, store, ends
<1>2. /\ helper' \in [step : HelperSteps, offer : Offers]
      /\ helper'.step = "unmarked" /\ helper'.offer = helper.offer
  BY <1>1, HelperMoves DEF HelperSteps
<1>3. TypeOK'
  BY <1>1, <1>2, HostFields, HostTypes, TypesRest
<1>4. Base' = Base
  BY <1>1 DEF Base
<1>5. Swapping'
  BY <1>1, <1>2, <1>4 DEF Swapping, InHand, RunsInstalled
<1>. QED BY <1>1, <1>2, <1>3, <1>4, <1>5

LEMMA AgentRestarts ==
  ASSUME TypeOK, Swapping, AgentStops \/ Reboot \/ AgentStarts
  PROVE  /\ TypeOK' /\ Swapping' /\ Base' = Base
         /\ checker' = checker \/ checker' = Rest
         /\ helper' = helper \/ helper' = Rest
         /\ UNCHANGED <<kind, open, pending, installs>>
<1>1. /\ running' = 0 \/ (running' = installed /\ installed # 0)
      /\ checker' \in {checker, Rest} /\ helper' \in {helper, Rest}
      /\ unfinished' \in {unfinished, FALSE} /\ trigger' \in {trigger, "watching"}
      /\ UNCHANGED <<kind, open, releases, installed, previous, staged, pending, installs, deaths>>
  BY DEF AgentStops, Reboot, AgentStarts, store, ends
<1>2. unfinished' \in BOOLEAN /\ trigger' \in Triggers
  BY <1>1, HostFields DEF Triggers
<1>3. TypeOK'
  BY <1>1, <1>2, HostFields, TypesRest
<1>4. Base' = Base /\ running' \in {0, Base}
  BY <1>1 DEF Base
<1>5. Swapping'
  BY <1>1, <1>4, HostFields DEF Swapping, InHand, Accepts, RunsInstalled
<1>. QED BY <1>1, <1>3, <1>4, <1>5

LEMMA OperatorActs ==
  ASSUME TypeOK, Swapping, NEW v \in Version, NEW k \in {"normal", "rollback"},
         Publish(v, k) \/ SetRollout(v) \/ Retire(v)
  PROVE  TypeOK' /\ Swapping' /\ installs' = 0
<1>. DEFINE other == ~ open[v]
<1>1. /\ releases < MaxReleases /\ releases' = releases + 1 /\ installs' = 0
      /\ UNCHANGED <<running, installed, previous, staged, pending, checker, helper,
                     deaths, unfinished, trigger>>
  BY DEF Publish, SetRollout, Retire, Act, ends
<1>2. kind' \in [Version -> Kind]
  <2>1. /\ kind \in [Version -> Kind] /\ k \in Kind /\ "absent" \in Kind
        /\ kind' \in {kind, [kind EXCEPT ![v] = k], [kind EXCEPT ![v] = "absent"]}
    BY DEF Publish, SetRollout, Retire, TypeOK, Kind
  <2>. QED BY <2>1
<1>3. open' \in [Version -> BOOLEAN]
  <2>1. open' \in {[open EXCEPT ![v] = other], [open EXCEPT ![v] = TRUE], [open EXCEPT ![v] = FALSE]}
    BY DEF Publish, SetRollout, Retire
  <2>2. other \in BOOLEAN /\ open \in [Version -> BOOLEAN]
    BY DEF TypeOK
  <2>. HIDE DEF other
  <2>. QED BY <2>1, <2>2
<1>4. releases' \in 0 .. MaxReleases /\ installs' \in 0 .. MaxInstalls + 1
  BY <1>1, HostAssumption DEF TypeOK
<1>5. TypeOK'
  BY <1>1, <1>2, <1>3, <1>4 DEF TypeOK
<1>6. Base' = Base
  BY <1>1 DEF Base
<1>7. Swapping'
  BY <1>1, <1>6 DEF Swapping, InHand, Accepts, RunsInstalled
<1>. QED BY <1>1, <1>5, <1>7

-----------------------------------------------------------------------------
(***************************************************************************)
(* What each step does to the count of installations.                       *)
(***************************************************************************)
LEMMA NothingStale == ~Stale(NoOffer) /\ ~Stale(Rest.offer)
BY DEF Stale, Rest

LEMMA CheckCounts ==
  ASSUME TypeOK, Swapping, Few, AskOffer \/ Download \/ KeepArtifact \/ Prune
  PROVE  Few'
<1>1. /\ UNCHANGED <<kind, open, installs, helper, pending>> /\ Base' = Base /\ installs \in Nat
  BY CheckKeeps, HostAssumption DEF AskOffer, Download, KeepArtifact, Prune, store, ends, Check, TypeOK
<1>2. Stale(checker.offer)' => Stale(checker.offer)
  <2>1. CASE AskOffer
    <3>1. Current(checker'.offer) /\ UNCHANGED <<kind, open>>
      BY <2>1, AskedIsCurrent DEF store, ends
    <3>2. Current(checker'.offer) => Current(checker.offer)'
      BY <3>1 DEF Current, Candidates
    <3>. QED BY <3>1, <3>2 DEF Stale
  <2>2. CASE ~AskOffer
    <3>1. checker'.offer = checker.offer \/ checker'.offer = NoOffer
      BY <2>2, HostFields DEF Download, KeepArtifact, Prune, Rest
    <3>2. ~Stale(NoOffer) /\ \A o : Stale(o)' <=> Stale(o)
      BY <1>1, StoreStays, NothingStale
    <3>. QED BY <1>1, <3>1, <3>2 DEF Stale, Current, Candidates
  <2>. QED BY <2>1, <2>2
<1>3. (Own' <=> Own) /\ (Live' <=> Live)
  BY <1>1 DEF Own, Live, InHand
<1>4. /\ (Live /\ Stale(pending))' => Live /\ Stale(pending)
      /\ (InHand /\ Stale(helper.offer))' => InHand /\ Stale(helper.offer)
  BY <1>1 DEF Live, InHand, Stale, Current, Candidates
<1>. QED BY <1>1, <1>2, <1>3, <1>4, LeftDrops

(* Steps after which the helper has no more in hand than before, the marker no   *)
(* more to offer, and the checker its offer or none.                            *)
LEMMA HelperCounts ==
  ASSUME TypeOK, Few, UNCHANGED <<kind, open, installs>>, Base' = Base,
         checker' = checker \/ checker' = Rest,
         pending' = pending \/ pending' = NoOffer,
         \/ helper' = helper /\ pending' = pending
         \/ helper'.step \notin {"read", "tested", "aside"}
         \/ InHand /\ helper'.offer = helper.offer /\ pending' = pending
  PROVE  Few'
<1>1. installs \in Nat
  BY HostAssumption DEF TypeOK
<1>2. ~Stale(NoOffer) /\ \A o : Stale(o)' <=> Stale(o)
  BY StoreStays, NothingStale
<1>3. Stale(checker.offer)' => Stale(checker.offer)
  BY <1>2, HostFields DEF Stale, Current, Candidates
<1>4. (InHand /\ Stale(helper.offer))' => InHand /\ Stale(helper.offer)
  BY DEF InHand, Stale, Current, Candidates
<1>5. InHand' => InHand /\ helper'.offer = helper.offer /\ pending' = pending
  BY DEF InHand
<1>6. (Own' => Own) /\ (Live' => Live)
  BY <1>5 DEF Own, Live
<1>7. (Live /\ Stale(pending))' => Live /\ Stale(pending)
  <2>1. Stale(pending)' => Stale(pending)
    BY <1>2 DEF Stale, Current, Candidates
  <2>. QED BY <1>6, <2>1
<1>. QED BY <1>1, <1>3, <1>4, <1>6, <1>7, LeftDrops

LEMMA ReadCounts ==
  ASSUME TypeOK, Swapping, Few, ReadMarker
  PROVE  Few'
<1>1. /\ Base' = Base /\ helper'.step = "read" /\ helper'.offer = pending /\ pending.version # Base
      /\ UNCHANGED <<kind, open, pending, checker, installs>> /\ pending # NoOffer
  BY MarkerRead DEF ReadMarker, Started
<1>2. installs \in Nat
  BY HostAssumption DEF TypeOK
<1>3. ~Own' /\ Live /\ Live'
  BY <1>1 DEF Own, Live, InHand
<1>4. /\ Stale(checker.offer)' => Stale(checker.offer)
      /\ (Live /\ Stale(pending))' => Live /\ Stale(pending)
      /\ (InHand /\ Stale(helper.offer))' => Live /\ Stale(pending)
  BY <1>1, <1>3 DEF Stale, Current, Candidates
<1>. QED BY <1>1, <1>2, <1>3, <1>4, LeftDrops

(* The checker's offer takes the place of the marker's.  If the helper still has  *)
(* that one in hand, it is its own now.                                        *)
LEMMA MarkCounts ==
  ASSUME TypeOK, Swapping, Few, Mark
  PROVE  Few'
<1>. DEFINE a == One(Own)
            b == One(Live)
            c == Climb(Base)
            checking == Stale(checker.offer)
            marked == Live /\ Stale(pending)
            helping == InHand /\ Stale(helper.offer)
<1>1. /\ pending' = checker.offer /\ checker' = Rest /\ Base' = Base
      /\ UNCHANGED <<kind, open, helper, installs>>
  BY CheckKeeps DEF Mark, store, ends, Check
<1>2. /\ ~checking' /\ (marked' => checking) /\ (helping' <=> helping)
  <2>1. ~checking'
    BY <1>1, HostFields DEF Stale
  <2>2. Stale(pending)' <=> Stale(checker.offer)
    BY <1>1 DEF Stale, Current, Candidates
  <2>3. helping' <=> helping
    BY <1>1 DEF Stale, Current, Candidates, InHand
  <2>. QED BY <2>1, <2>2, <2>3
<1>3. /\ a \in 0 .. 1 /\ b \in 0 .. 1 /\ c \in 0 .. 2 /\ a' \in 0 .. 1
      /\ marked => b = 1
  BY DEF One, Climb
<1>4. a' <= a + b
  <2>1. Own' => Own \/ Live
    <3>1. ASSUME Own', ~Own PROVE Live
      <4>1. InHand /\ helper.offer = pending
        BY <1>1, <3>1 DEF Own, InHand
      <4>2. pending # NoOffer
        BY <4>1 DEF Swapping, Accepts, NoOffer
      <4>. QED BY <4>1, <4>2 DEF Live
    <3>. QED BY <3>1
  <2>. QED BY <2>1 DEF One
<1>5. c' = c /\ (Calm' <=> Calm)
  BY <1>1, StoreStays DEF Climb, Candidates
<1>6. /\ checking => Left = a + b + 3
      /\ ~checking /\ marked => Left = a + 3
      /\ ~checking /\ ~marked /\ helping => Left = 3
      /\ ~checking /\ ~marked /\ ~helping => Left = c
  BY Zenon DEF Left
<1>7. /\ ~checking' /\ marked' => Left' = a' + 3
      /\ ~checking' /\ ~marked' /\ helping' => Left' = 3
      /\ ~checking' /\ ~marked' /\ ~helping' => Left' = c'
  BY Zenon DEF Left
<1>. HIDE DEF a, b, c, checking, marked, helping
<1>8. Left' <= Left
  <2>1. CASE marked'
    <3>1. /\ Left' = a' + 3 /\ Left = a + b + 3 /\ a' <= a + b
          /\ a \in Nat /\ b \in Nat /\ a' \in Nat
      BY <1>2, <1>3, <1>4, <1>6, <1>7, <2>1
    <3>. QED BY <3>1, SumsStay
  <2>2. CASE ~marked' /\ helping'
    BY <1>2, <1>3, <1>6, <1>7, <2>2
  <2>3. CASE ~marked' /\ ~helping'
    BY <1>2, <1>3, <1>5, <1>6, <1>7, <2>3
  <2>. QED BY <2>1, <2>2, <2>3
<1>9. ASSUME Calm' PROVE installs' + Left' <= 5
  <2>1. installs + Left <= 5 /\ installs' = installs /\ installs \in Nat
    BY <1>1, <1>5, <1>9, HostAssumption DEF Few, TypeOK
  <2>2. Left \in Nat /\ Left' \in Nat
    BY LeftIsFew, LeftStaysFew
  <2>. QED BY <1>8, <2>1, <2>2, SumsStay
<1>. QED BY <1>9 DEF Few

(* An installation takes one away: a stale offer of those on their way, a current *)
(* one of the climb.                                                           *)
LEMMA InstallCounts ==
  ASSUME TypeOK, Swapping, Few, Activate, MaxInstalls >= 5
  PROVE  Few'
<1>. DEFINE a == One(Own)
            b == One(Live)
            c == Climb(Base)
            checking == Stale(checker.offer)
            marked == Live /\ Stale(pending)
            helping == InHand /\ Stale(helper.offer)
<1>1. /\ helper.step = "aside" /\ helper'.step = "active" /\ Base' = helper.offer.version
      /\ installs <= MaxInstalls => installs' = installs + 1
      /\ UNCHANGED <<kind, open, pending, checker>>
  BY Activated
<1>2. InHand /\ ~InHand' /\ ~Own' /\ helper.offer # NoOffer
  BY <1>1 DEF InHand, Own, Swapping, Accepts, NoOffer
<1>3. /\ a \in 0 .. 1 /\ b \in 0 .. 1 /\ c \in 0 .. 2 /\ a' = 0 /\ b' \in 0 .. 1 /\ c' \in 0 .. 2
      /\ marked => b = 1
  BY <1>2 DEF One, Climb
<1>4. (checking' <=> checking) /\ (Calm' <=> Calm) /\ (marked' => marked) /\ ~helping'
  <2>1. (checking' <=> checking) /\ (Stale(pending)' <=> Stale(pending))
    BY <1>1 DEF Stale, Current, Candidates
  <2>2. Live' => Live
    BY <1>1, <1>2 DEF Live
  <2>. QED BY <1>1, <1>2, <2>1, <2>2, StoreStays
<1>5. /\ a = 1 => b' <= b
      /\ a = 0 => b = 1 /\ b' = 0 /\ ~marked'
  <2>1. CASE helper.offer = pending
    <3>1. ~Own /\ Live /\ ~Live'
      BY <1>1, <1>2, <2>1 DEF Own, Live
    <3>. QED BY <3>1 DEF One
  <2>2. CASE helper.offer # pending
    <3>1. Own /\ (Live' => Live)
      BY <1>1, <1>2, <2>2 DEF Own, Live
    <3>. QED BY <3>1 DEF One
  <2>. QED BY <2>1, <2>2
<1>6. ASSUME Calm, ~helping PROVE c' + 1 <= c
  <2>1. Current(helper.offer) /\ Accepts(helper.offer, Base)
    BY <1>2, <1>6 DEF Stale, Swapping
  <2>2. Climb(helper.offer.version) + 1 <= Climb(Base)
    BY <1>6, <2>1, ClimbDrops, HostTypes
  <2>3. c' = Climb(helper.offer.version)
    BY <1>1, StoreStays DEF Climb, Candidates
  <2>. QED BY <2>2, <2>3
<1>7. /\ checking => Left = a + b + 3
      /\ ~checking /\ marked => Left = a + 3
      /\ ~checking /\ ~marked /\ helping => Left = 3
      /\ ~checking /\ ~marked /\ ~helping => Left = c
  BY Zenon DEF Left
<1>8. /\ checking' => Left' = a' + b' + 3
      /\ ~checking' /\ marked' => Left' = a' + 3
      /\ ~checking' /\ ~marked' /\ ~helping' => Left' = c'
  BY Zenon, <1>4 DEF Left
<1>. HIDE DEF a, b, c, checking, marked, helping
<1>9. ASSUME Calm PROVE Left' + 1 <= Left
  <2>1. CASE checking
    <3>1. Left = a + b + 3 /\ Left' = b' + 3
      BY <1>3, <1>4, <1>7, <1>8, <2>1
    <3>2. CASE a = 1
      <4>1. b \in Nat /\ b' \in Nat /\ b' <= b
        BY <1>3, <1>5, <3>2
      <4>2. (b' + 3) + 1 <= 1 + b + 3
        BY <4>1, SumsStay
      <4>. QED BY <3>1, <3>2, <4>2
    <3>3. CASE a = 0
      BY <1>3, <1>5, <3>1, <3>3
    <3>. QED BY <1>3, <3>2, <3>3
  <2>2. CASE ~checking /\ marked
    <3>1. Left = a + 3
      BY <1>7, <2>2
    <3>2. CASE marked'
      <4>1. Left' = 3 /\ a = 1
        BY <1>3, <1>4, <1>5, <1>8, <2>2, <3>2
      <4>. QED BY <3>1, <4>1
    <3>3. CASE ~marked'
      <4>1. Left' = c'
        BY <1>4, <1>8, <2>2, <3>3
      <4>2. a \in Nat /\ c' \in Nat /\ c' <= 2
        BY <1>3
      <4>. QED BY <3>1, <4>1, <4>2, SumsStay
    <3>. QED BY <3>2, <3>3
  <2>3. CASE ~checking /\ ~marked
    <3>1. Left' = c'
      BY <1>4, <1>8, <2>3
    <3>2. CASE helping
      <4>1. Left = 3 /\ c' \in 0 .. 2
        BY <1>3, <1>7, <2>3, <3>2
      <4>2. c' + 1 <= 3
        BY <4>1, SumsStay
      <4>. QED BY <3>1, <4>1, <4>2
    <3>3. CASE ~helping
      BY <1>3, <1>6, <1>7, <1>9, <2>3, <3>1, <3>3
    <3>. QED BY <3>2, <3>3
  <2>. QED BY <2>1, <2>2, <2>3
<1>10. ASSUME Calm' PROVE installs' + Left' <= 5
  <2>0. Left \in Nat /\ Left' \in Nat
    BY LeftIsFew, LeftStaysFew
  <2>1. installs + Left <= 5 /\ installs \in Nat /\ Left' + 1 <= Left
    BY <1>4, <1>9, <1>10, HostAssumption DEF Few, TypeOK
  <2>2. installs <= MaxInstalls
    BY <2>0, <2>1, HostAssumption
  <2>3. installs' = installs + 1
    BY <1>1, <2>2
  <2>. QED BY <2>0, <2>1, <2>3, SumsStay
<1>. QED BY <1>10 DEF Few

-----------------------------------------------------------------------------
LEMMA HostStep ==
  ASSUME TypeOK, Swapping, [Next]_hostVars
  PROVE  TypeOK' /\ Swapping'
<1>1. CASE UNCHANGED hostVars
  BY <1>1 DEF hostVars, TypeOK, Swapping, InHand, Base, Accepts, RunsInstalled
<1>2. ASSUME NEW v \in Version, NEW k \in {"normal", "rollback"},
             Publish(v, k) \/ SetRollout(v) \/ Retire(v)
      PROVE  TypeOK' /\ Swapping'
  BY <1>2, OperatorActs
<1>3. CASE Check \/ Apply \/ Failure \/ AgentStops \/ Reboot \/ AgentStarts
  BY <1>3, CheckKeeps, MarkerRead, ArtifactTested, MovedAside, Activated, MarkerRemoved,
     NothingTaken, HelperLeaves, AgentRestarts DEF Apply, Failure
<1>. QED BY <1>1, <1>2, <1>3 DEF Next

LEMMA CountStep ==
  ASSUME TypeOK, Swapping, Few, [Next]_hostVars, MaxInstalls >= 5
  PROVE  Few'
<1>1. CASE UNCHANGED hostVars
  <2>1. /\ UNCHANGED <<kind, open, installs>> /\ Base' = Base
        /\ checker' = checker /\ helper' = helper /\ pending' = pending
    BY <1>1 DEF hostVars, Base
  <2>. QED BY <2>1, HelperCounts
<1>2. ASSUME NEW v \in Version, NEW k \in {"normal", "rollback"},
             Publish(v, k) \/ SetRollout(v) \/ Retire(v)
      PROVE  Few'
  <2>1. installs' = 0
    BY <1>2, OperatorActs
  <2>. QED BY <2>1, LeftStaysFew, SumsStay DEF Few
<1>3. CASE Check
  BY <1>3, CheckCounts, MarkCounts DEF Check
<1>4. CASE ReadMarker \/ Activate
  BY <1>4, ReadCounts, InstallCounts
<1>5. CASE SelfTest \/ MoveAside \/ RemoveMarker \/ Finish \/ Failure
  <2>1. /\ UNCHANGED <<kind, open, installs>> /\ Base' = Base
        /\ checker' = checker \/ checker' = Rest
        /\ pending' = pending \/ pending' = NoOffer
        /\ \/ helper' = Rest
           \/ helper'.step = "unmarked"
           \/ InHand /\ helper'.offer = helper.offer /\ pending' = pending
    BY <1>5, ArtifactTested, MovedAside, MarkerRemoved, NothingTaken, HelperLeaves DEF Failure
  <2>2. Rest.step = "rest"
    BY DEF Rest
  <2>. QED BY <2>1, <2>2, HelperCounts
<1>6. CASE AgentStops \/ Reboot \/ AgentStarts
  <2>1. /\ UNCHANGED <<kind, open, installs, pending>> /\ Base' = Base
        /\ checker' = checker \/ checker' = Rest
        /\ helper' = helper \/ helper' = Rest
    BY <1>6, AgentRestarts
  <2>2. Rest.step = "rest"
    BY DEF Rest
  <2>. QED BY <2>1, <2>2, HelperCounts
<1>. QED BY <1>1, <1>2, <1>3, <1>4, <1>5, <1>6 DEF Next, Apply

(***************************************************************************)
(* updater.rs, updates/store.go: every variable keeps its type.              *)
(***************************************************************************)
THEOREM TypesKept == Spec => []TypeOK
<1>1. Init => TypeOK /\ Swapping
  BY HostInitial
<1>2. TypeOK /\ Swapping /\ [Next]_hostVars => (TypeOK /\ Swapping)'
  BY Zenon, HostStep
<1>. QED BY <1>1, <1>2, PTL DEF Spec

(***************************************************************************)
(* atomic_install_with_suffix (updater.rs): wherever the helper fails or dies,  *)
(* however often, and whatever operators publish meanwhile, the host has a binary that  *)
(* passed its self-test, at the install path or beside it.                     *)
(***************************************************************************)
THEOREM HostRecovers == Spec => []RecoverableBinary
<1>1. Init => TypeOK /\ Swapping
  BY HostInitial
<1>2. TypeOK /\ Swapping /\ [Next]_hostVars => (TypeOK /\ Swapping)'
  BY Zenon, HostStep
<1>3. TypeOK /\ Swapping => RecoverableBinary
  BY HostFields DEF Swapping, RecoverableBinary, Version
<1>. QED BY <1>1, <1>2, <1>3, PTL DEF Spec

(***************************************************************************)
(* updater.rs, updates/store.go: with any number of versions, operators' acts   *)
(* and failures and deaths of the helper, the host can be brought back and runs   *)
(* what it has, and once operators stop it installs at most five times: the       *)
(* offers the helper, the marker and the checker hold, and one climb of two.      *)
(***************************************************************************)
THEOREM HostSettles ==
  ASSUME MaxInstalls >= 5
  PROVE  Spec => []HostSafe
<1>. DEFINE Inv == TypeOK /\ Swapping /\ Few
<1>1. Init => Inv
  <2>1. ASSUME Init PROVE Few
    BY <2>1, LeftIsFew DEF Init, Few
  <2>. QED BY <2>1, HostInitial
<1>2. Inv /\ [Next]_hostVars => Inv'
  BY Zenon, HostStep, CountStep
<1>3. Inv => HostSafe
  <2>1. ASSUME Inv PROVE Settles
    BY <2>1, LeftIsFew, HostAssumption DEF Few, Settles, TypeOK
  <2>2. ASSUME Inv PROVE RecoverableBinary
    BY <2>2, HostFields DEF Swapping, RecoverableBinary, Version
  <2>3. Inv => RunsInstalled
    BY DEF Swapping
  <2>. QED BY <2>1, <2>2, <2>3 DEF HostSafe
<1>. QED BY <1>1, <1>2, <1>3, PTL DEF Spec
=============================================================================
