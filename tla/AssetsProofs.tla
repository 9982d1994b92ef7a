---------------------------- MODULE AssetsProofs ----------------------------
(***************************************************************************)
(* Proofs about MCAssets: what ingestion and persons do to the inventory     *)
(* beyond the sources of one Agent, for any number of assets, sources,       *)
(* packages, Agents, Pods, requests and events.  Each part has its inductive  *)
(* invariant, a lemma that its steps preserve it, and one that it gives what  *)
(* the part promises.                                                        *)
(***************************************************************************)
EXTENDS MCAssets, FiniteSets, FiniteSetTheorems, TLAPS

(* A step of the whole is a step of each part, or leaves the part alone.      *)
LEMMA PartsMove ==
  ASSUME [Next]_vars
  PROVE  /\ [Assets!Next]_ofAssets
         /\ [Classes!Next]_ofClasses
         /\ [Cache!Next]_ofCache
         /\ [Links!Next]_ofLinks
         /\ [Product!Next]_ofProduct
         /\ [Legacy!Next]_ofLegacy
         /\ [Hosts!Next]_ofHosts
BY Zenon DEF Next, vars

-----------------------------------------------------------------------------
(***************************************************************************)
(* Relations (classify/relate.go, httpapi/assets.go).                       *)
(***************************************************************************)

(* The host's relation is never a proposal to decide on, and who stated it    *)
(* does not change while an event has it looked up; no person vouched for a   *)
(* row that is missing or still a proposal.                                  *)
LinksInv ==
  /\ Links!TypeOK /\ Links!DecisionStands
  /\ relation["link"].status # "proposed" /\ ruled["link"] = "none"
  /\ \A t \in Links!Type : relation[t].status \in {"none", "proposed"} => ~relation[t].manual
  /\ \A i \in Inference :
       (inference[i].at = "found" /\ inference[i].type = "link" /\ inference[i].row.status # "none")
         => /\ relation["link"].status # "none"
            /\ inference[i].row.manual = relation["link"].manual

LEMMA LinksInitial ==
  ASSUME Links!Init
  PROVE  LinksInv
BY LinksAssumption DEF Links!Init, LinksInv, Links!TypeOK, Links!DecisionStands, Links!Type,
   Links!NoRow, Links!Row, Links!Resting

LEMMA LinksStep ==
  ASSUME LinksInv, [Links!Next]_ofLinks
  PROVE  LinksInv' /\ (Links!ManualEndsForGood \/ UNCHANGED ofLinks)
<1>. USE DEF LinksInv, Links!TypeOK, Links!DecisionStands, Links!Type, Links!NoRow, Links!Row,
             Links!Resting, Links!ManualEndsForGood
<1>1. CASE UNCHANGED ofLinks
  BY <1>1 DEF ofLinks
<1>2. ASSUME NEW i \in Inference, NEW t \in Links!Type, Links!LookUp(i, t)
      PROVE  LinksInv' /\ Links!ManualEndsForGood
  BY <1>2 DEF Links!LookUp
<1>3. ASSUME NEW i \in Inference, Links!Link(i)
      PROVE  LinksInv' /\ Links!ManualEndsForGood
  <2>1. /\ inference[i].at = "found" /\ inference[i].type = "link"
        /\ inference' = [inference EXCEPT ![i] = Links!Resting]
        /\ UNCHANGED <<present, ruled, reviews>>
    BY <1>3, Zenon DEF Links!Link
  <2>. DEFINE found == inference[i].row
              insert == found.status = "none" /\ relation["link"].status = "none"
              refresh == found.status # "none" /\ ~found.manual
  <2>2. CASE insert
    <3>1. relation' = [relation EXCEPT !["link"] = [status |-> "active", manual |-> FALSE,
                                                    open |-> TRUE]]
      BY <1>3, <2>2, Zenon DEF Links!Link
    <3>. QED BY <2>1, <2>2, <3>1
  <2>3. CASE refresh
    <3>1. relation' = [relation EXCEPT !["link"].status = "active", !["link"].open = TRUE]
      BY <1>3, <2>3, Zenon DEF Links!Link
    <3>2. relation["link"].status \in {"active", "rejected"} /\ relation["link"].manual = FALSE
      BY <2>1, <2>3
    <3>. QED BY <2>1, <2>3, <3>1, <3>2
  <2>4. CASE ~insert /\ ~refresh
    <3>1. relation' = relation
      BY <1>3, <2>4, Zenon DEF Links!Link
    <3>. QED BY <2>1, <3>1
  <2>. QED BY <2>2, <2>3, <2>4
<1>4. ASSUME NEW i \in Inference, Links!ProposeDuplicate(i)
      PROVE  LinksInv' /\ Links!ManualEndsForGood
  BY <1>4 DEF Links!ProposeDuplicate
<1>5. CASE Links!RemoveAsset
  <2>1. /\ \A t \in Links!Type : relation'[t] = [relation[t] EXCEPT !.open = FALSE]
        /\ DOMAIN relation' = Links!Type /\ present' \in BOOLEAN
        /\ UNCHANGED <<inference, ruled, reviews>>
    BY <1>5 DEF Links!RemoveAsset
  <2>2. ASSUME NEW t \in Links!Type
        PROVE  /\ relation'[t] \in Links!Row /\ ~relation'[t].open
               /\ relation'[t].status = relation[t].status
               /\ relation'[t].manual = relation[t].manual
    <3>1. relation[t] \in Links!Row
      OBVIOUS
    <3>2. relation'[t] = [relation[t] EXCEPT !.open = FALSE]
      BY <2>1
    <3>. QED BY <3>1, <3>2
  <2>3. relation' \in [Links!Type -> Links!Row]
    BY <1>5, <2>2 DEF Links!RemoveAsset
  <2>. QED BY <2>1, <2>2, <2>3
<1>6. CASE Links!ReportAsset
  BY <1>6 DEF Links!ReportAsset
<1>7. ASSUME NEW t \in Links!Type, Links!CreateRelation(t)
      PROVE  LinksInv' /\ Links!ManualEndsForGood
  BY <1>7 DEF Links!CreateRelation
<1>8. ASSUME NEW t \in Links!Type, Links!DeleteRelation(t)
      PROVE  LinksInv' /\ Links!ManualEndsForGood
  <2>1. /\ relation' = [relation EXCEPT ![t].open = FALSE]
        /\ UNCHANGED <<present, inference, ruled, reviews>>
    BY <1>8 DEF Links!DeleteRelation
  <2>2. relation' \in [Links!Type -> Links!Row]
    <3>1. [relation[t] EXCEPT !.open = FALSE] \in Links!Row
      <4>1. relation[t] \in Links!Row
        OBVIOUS
      <4>. QED BY <4>1
    <3>. QED BY <2>1, <3>1
  <2>3. \A s \in Links!Type : /\ relation'[s].status = relation[s].status
                             /\ relation'[s].manual = relation[s].manual
                             /\ relation'[s].open => relation[s].open
    BY <2>1
  <2>. QED BY <2>1, <2>2, <2>3
<1>9. ASSUME NEW t \in Links!Type, NEW decision \in {"approve", "reject"},
             Links!Review(t, decision)
      PROVE  LinksInv' /\ Links!ManualEndsForGood
  <2>1. PICK made \in [status : {"active", "rejected"}, manual : BOOLEAN, open : BOOLEAN] :
          /\ relation' = [relation EXCEPT ![t] = made]
          /\ decision = "approve" => made.status = "active" /\ made.manual /\ made.open
          /\ decision = "reject" => made.status = "rejected"
    <3>. DEFINE made == [status |-> IF decision = "approve" THEN "active" ELSE "rejected",
                         manual |-> decision = "approve", open |-> decision = "approve"]
    <3>1. /\ made \in [status : {"active", "rejected"}, manual : BOOLEAN, open : BOOLEAN]
          /\ decision = "approve" => made.status = "active" /\ made.manual /\ made.open
          /\ decision = "reject" => made.status = "rejected"
      OBVIOUS
    <3>2. relation' = [relation EXCEPT ![t] = made]
      BY <1>9, Zenon DEF Links!Review
    <3>. HIDE DEF made
    <3>. QED BY <3>1, <3>2
  <2>2. /\ reviews < MaxDecided /\ reviews' = reviews + 1 /\ reviews \in 0..MaxDecided
        /\ relation[t].status = "proposed" /\ ruled[t] = "none"
        /\ ruled' = [ruled EXCEPT ![t] = decision]
        /\ UNCHANGED <<present, inference>>
    BY <1>9 DEF Links!Review
  <2>3. reviews' \in 0..MaxDecided
    BY <2>2, LinksAssumption
  <2>. QED BY <2>1, <2>2, <2>3
<1>. QED BY <1>1, <1>2, <1>3, <1>4, <1>5, <1>6, <1>7, <1>8, <1>9 DEF Links!Next

(***************************************************************************)
(* classify/relate.go, reviewProposedRelation: a person's decision about a    *)
(* proposed relation stands, and a relation a person stated that ended is     *)
(* never reopened by an event, for any number of transactions and reviews.   *)
(***************************************************************************)
THEOREM RelationsStand == Spec => RelationsSafe
<1>1. Init => LinksInv
  BY LinksInitial DEF Init
<1>2. LinksInv /\ [Next]_vars => LinksInv' /\ [Links!ManualEndsForGood]_ofLinks
  BY Zenon, PartsMove, LinksStep
<1>3. LinksInv => Links!DecisionStands
  BY DEF LinksInv
<1>. QED BY <1>1, <1>2, <1>3, PTL DEF Spec, RelationsSafe, Links!RelationsSafe, ofLinks,
            Links!relationVars

-----------------------------------------------------------------------------
(***************************************************************************)
(* The cache of the rules (classify/store.go).                              *)
(***************************************************************************)

(* A version that was loaded or cached and not overtaken by a dropped cache    *)
(* satisfies every reader that has to see version n.                         *)
Serves(n) ==
  /\ cached.version # 0 => cached.overtaken \/ cached.version >= n
  /\ \A r \in Reader : reader[r].at = "loaded" => reader[r].overtaken \/ reader[r].version >= n
(* The table's last edit is served or the cache that misses it is overtaken; a  *)
(* reader that dropped the cache will see what it has to see, and what it loads   *)
(* itself has it.                                                            *)
CacheInv ==
  /\ Cache!TypeOK /\ Cache!EditsSeen /\ cached.at <= ruleNow
  /\ edited <= table /\ Serves(edited)
  /\ \A r \in Reader : /\ reader[r].asOf <= table
                       /\ reader[r].at = "dropped" => Serves(reader[r].asOf)
                       /\ reader[r].at = "loaded" => reader[r].version >= reader[r].asOf

LEMMA CacheInitial ==
  ASSUME Cache!Init
  PROVE  CacheInv
BY CacheAssumption DEF Cache!Init, CacheInv, Cache!TypeOK, Cache!EditsSeen, Cache!Outside, Serves

ReaderRow == [at : {"idle", "dropped", "missed", "loaded", "served"},
              version : 0..MaxRules, asOf : 0..MaxRules, overtaken : BOOLEAN, age : 0..MaxAge]

(* The cache was dropped: a load under way is overtaken, the rest of a reader    *)
(* stays.                                                                    *)
Dropped(q) ==
  /\ reader'[q].at = reader[q].at /\ reader'[q].version = reader[q].version
  /\ reader'[q].asOf = reader[q].asOf /\ reader'[q].age = reader[q].age
  /\ reader[q].overtaken => reader'[q].overtaken
  /\ reader[q].at \in {"missed", "loaded"} => reader'[q].overtaken

(* Overtaking is all that happens to a reader when the cache is dropped.       *)
LEMMA Overtakes ==
  ASSUME NEW q \in Reader, NEW old \in ReaderRow, reader[q] = old,
         reader'[q] = [old EXCEPT !.overtaken =
                        (old.overtaken \/ old.at \in {"missed", "loaded"})]
  PROVE  Dropped(q) /\ reader'[q] \in ReaderRow
<1>. DEFINE flag == old.overtaken \/ old.at \in {"missed", "loaded"}
<1>1. flag \in BOOLEAN /\ (old.overtaken => flag) /\ (old.at \in {"missed", "loaded"} => flag)
  OBVIOUS
<1>2. reader'[q] = [old EXCEPT !.overtaken = flag]
  OBVIOUS
<1>. HIDE DEF flag
<1>. QED BY <1>1, <1>2 DEF Dropped, ReaderRow

LEMMA CacheStep ==
  ASSUME CacheInv, [Cache!Next]_ofCache
  PROVE  CacheInv'
<1>. USE CacheAssumption DEF CacheInv, Cache!TypeOK, Cache!EditsSeen, Cache!Outside, Serves
<1>1. CASE UNCHANGED ofCache
  BY <1>1 DEF ofCache
<1>2. ASSUME NEW r \in Reader, Cache!Drop(r)
      PROVE  CacheInv'
  <2>. DEFINE out == [Cache!Outside EXCEPT !.at = "dropped", !.asOf = table]
  <2>1. /\ r \in Replayer /\ reader[r].at = "idle" /\ UNCHANGED <<table, edited, ruleNow>>
        /\ cached' = [cached EXCEPT !.version = 0]
        /\ reader' = [q \in Reader |-> IF q = r THEN out ELSE [reader[q] EXCEPT !.overtaken =
                (reader[q].overtaken \/ reader[q].at \in {"missed", "loaded"})]]
    BY <1>2, Zenon DEF Cache!Drop
  <2>2. \A q \in Reader \ {r} : Dropped(q) /\ reader'[q] \in ReaderRow
    <3>1. ASSUME NEW q \in Reader \ {r}
          PROVE  reader'[q] = [reader[q] EXCEPT !.overtaken =
                                 (reader[q].overtaken \/ reader[q].at \in {"missed", "loaded"})]
      BY <2>1, Zenon
    <3>. QED BY <3>1, Overtakes DEF ReaderRow
  <2>3. /\ reader'[r] = [at |-> "dropped", version |-> 0, asOf |-> table, overtaken |-> FALSE,
                        age |-> 0]
        /\ reader' \in [Reader -> ReaderRow]
    <3>1. reader'[r] = [at |-> "dropped", version |-> 0, asOf |-> table, overtaken |-> FALSE,
                        age |-> 0]
      <4>1. reader'[r] = out
        BY <2>1, Zenon
      <4>. QED BY <4>1
    <3>2. DOMAIN reader' = Reader /\ reader' = [q \in Reader |-> reader'[q]]
      BY <2>1, Zenon
    <3>3. reader'[r] \in ReaderRow
      BY <3>1 DEF ReaderRow
    <3>. QED BY <2>2, <3>1, <3>2, <3>3
  <2>4. cached' \in [version : 0..MaxRules, at : 0..MaxAge, overtaken : BOOLEAN] /\ cached'.version = 0
    BY <2>1
  <2>5. UNCHANGED <<table, edited, ruleNow>>
    BY <2>1
  <2>6. \A q \in Reader : reader'[q].at = "loaded" => reader'[q].overtaken
    BY <2>2, <2>3 DEF Dropped
  <2>7. cached'.at <= ruleNow' /\ (edited <= table)'
    BY <2>1
  <2>8. \A n \in Nat : Serves(n)'
    BY <2>4, <2>6
  <2>9. ASSUME NEW q \in Reader
        PROVE  /\ (reader[q].asOf <= table)'
               /\ reader'[q].at = "loaded" => reader'[q].version >= reader'[q].asOf
               /\ reader'[q].at = "served" => reader'[q].version >= reader'[q].asOf
                                              \/ (reader'[q].overtaken /\ reader'[q].age < Ttl)
    <3>1. CASE q = r
      BY <2>3, <2>5, <3>1
    <3>2. CASE q # r
      BY <2>2, <2>5, <3>2 DEF Dropped
    <3>. QED BY <3>1, <3>2
  <2>10. Serves(edited)' /\ \A q \in Reader : Serves(reader[q].asOf)'
    <3>1. edited' \in Nat /\ \A q \in Reader : reader'[q].asOf \in Nat
      BY <2>3, <2>5 DEF ReaderRow
    <3>. QED BY <2>8, <3>1
  <2>. QED BY <2>3, <2>4, <2>5, <2>7, <2>9, <2>10 DEF ReaderRow
<1>3. ASSUME NEW r \in Reader, Cache!StartRules(r)
      PROVE  CacheInv'
  <2>. DEFINE asOf == IF r \in Replayer THEN reader[r].asOf ELSE edited
              hit  == cached.version # 0 /\ ruleNow - cached.at < Ttl
              new  == IF hit THEN [at |-> "served", version |-> cached.version, asOf |-> asOf,
                                   overtaken |-> cached.overtaken, age |-> ruleNow - cached.at]
                      ELSE [Cache!Outside EXCEPT !.at = "missed", !.asOf = asOf]
  <2>1. /\ reader[r].at = IF r \in Replayer THEN "dropped" ELSE "idle"
        /\ reader' = [reader EXCEPT ![r] = new]
        /\ UNCHANGED <<table, edited, cached, ruleNow>>
    BY <1>3, Zenon DEF Cache!StartRules
  <2>2. asOf \in 0..MaxRules /\ asOf <= table /\ Serves(asOf)
    BY <2>1
  <2>. HIDE DEF asOf, Serves
  <2>3. /\ new \in ReaderRow /\ new.asOf = asOf /\ new.at \in {"served", "missed"}
        /\ new.at = "served" => new.version >= new.asOf \/ (new.overtaken /\ new.age < Ttl)
    <3>1. CASE hit
      <4>1. new = [at |-> "served", version |-> cached.version, asOf |-> asOf,
                   overtaken |-> cached.overtaken, age |-> ruleNow - cached.at]
        BY <3>1, Zenon
      <4>2. cached.overtaken \/ cached.version >= asOf
        BY <2>2, <3>1 DEF Serves
      <4>3. cached.version \in 0..MaxRules /\ cached.overtaken \in BOOLEAN
        OBVIOUS
      <4>4. ruleNow - cached.at \in 0..MaxAge /\ ruleNow - cached.at < Ttl
        BY <3>1
      <4>. HIDE DEF new, hit
      <4>. QED BY <2>2, <4>1, <4>2, <4>3, <4>4 DEF ReaderRow
    <3>2. CASE ~hit
      <4>1. new = [Cache!Outside EXCEPT !.at = "missed", !.asOf = asOf]
        BY <3>2, Zenon
      <4>. HIDE DEF new
      <4>2. new = [at |-> "missed", version |-> 0, asOf |-> asOf, overtaken |-> FALSE, age |-> 0]
        BY <4>1
      <4>3. 0 \in 0..MaxRules /\ 0 \in 0..MaxAge
        OBVIOUS
      <4>. QED BY <2>2, <4>2, <4>3 DEF ReaderRow
    <3>. QED BY <3>1, <3>2
  <2>. HIDE DEF new
  <2>4. /\ reader' \in [Reader -> ReaderRow] /\ reader'[r] = new
        /\ \A q \in Reader \ {r} : reader'[q] = reader[q]
    BY <2>1, <2>3 DEF ReaderRow
  <2>5. \A n \in Nat : Serves(n) => Serves(n)'
    BY <2>1, <2>3, <2>4 DEF Serves
  <2>6. edited \in Nat /\ Serves(edited) /\ edited' = edited
        /\ \A q \in Reader : /\ reader[q].asOf \in Nat
                            /\ reader[q].at = "dropped" => Serves(reader[q].asOf)
    BY <2>1
  <2>7. Serves(edited)'
    BY <2>5, <2>6 DEF Serves
  <2>8. \A q \in Reader : reader'[q].at = "dropped" => Serves(reader[q].asOf)' /\ q # r
    BY <2>3, <2>4, <2>5, <2>6
  <2>. QED BY <2>1, <2>2, <2>3, <2>4, <2>7, <2>8 DEF ReaderRow, Serves
<1>4. ASSUME NEW r \in Reader, Cache!Load(r)
      PROVE  CacheInv'
  <2>1. /\ reader[r].at = "missed" /\ UNCHANGED <<table, edited, cached, ruleNow>>
        /\ reader' = [reader EXCEPT ![r].at = "loaded", ![r].version = table]
    BY <1>4 DEF Cache!Load
  <2>2. table \in 0..MaxRules
    OBVIOUS
  <2>. DEFINE new == [reader[r] EXCEPT !.at = "loaded", !.version = table]
  <2>3. reader' = [reader EXCEPT ![r] = new]
    BY <2>1
  <2>10. reader[r] \in ReaderRow
    BY DEF ReaderRow
  <2>5. /\ new \in ReaderRow /\ new.at = "loaded" /\ new.version = table /\ new.asOf = reader[r].asOf
    BY <2>2, <2>10 DEF ReaderRow
  <2>. HIDE DEF new
  <2>6. /\ reader' \in [Reader -> ReaderRow] /\ reader'[r] = new
        /\ \A q \in Reader \ {r} : reader'[q] = reader[q]
    BY <2>3, <2>5 DEF ReaderRow
  <2>4. edited <= table /\ \A q \in Reader : reader[q].asOf <= table
    OBVIOUS
  <2>7. Cache!TypeOK' /\ cached'.at <= ruleNow' /\ (edited <= table)'
    BY <2>1, <2>6 DEF ReaderRow
  <2>8. \A n \in Nat : n <= table /\ Serves(n) => Serves(n)'
    BY <2>1, <2>5, <2>6
  <2>9. Serves(edited)' /\ \A q \in Reader : reader'[q].at = "dropped" => Serves(reader[q].asOf)'
    <3>1. edited' = edited /\ edited \in Nat /\ \A q \in Reader : reader[q].asOf \in Nat
      BY <2>1
    <3>2. \A q \in Reader : reader'[q].at = "dropped" => reader'[q] = reader[q]
      BY <2>5, <2>6
    <3>3. Serves(edited) /\ \A q \in Reader : reader[q].at = "dropped" => Serves(reader[q].asOf)
      OBVIOUS
    <3>. HIDE DEF CacheInv, Cache!TypeOK, Serves
    <3>. QED BY <2>4, <2>8, <3>1, <3>2, <3>3
  <2>. QED BY <2>1, <2>4, <2>5, <2>6, <2>7, <2>9
<1>5. ASSUME NEW r \in Reader, Cache!Store(r)
      PROVE  CacheInv'
  <2>. DEFINE old == reader[r]
              new == [old EXCEPT !.at = "served", !.overtaken = FALSE]
  <2>1. /\ old.at = "loaded" /\ UNCHANGED <<table, edited, ruleNow>>
        /\ cached' = [version |-> old.version, at |-> ruleNow, overtaken |-> old.overtaken]
        /\ reader' = [reader EXCEPT ![r] = new]
    BY <1>5 DEF Cache!Store
  <2>2. old \in ReaderRow
    BY DEF ReaderRow
  <2>3. new \in ReaderRow /\ new.at = "served" /\ new.version = old.version /\ new.asOf = old.asOf
    BY <2>2 DEF ReaderRow
  <2>4. old.version >= old.asOf /\ old.asOf <= table
    BY <2>1
  <2>5. \A n \in Nat : Serves(n) => old.overtaken \/ old.version >= n
    BY <2>1
  <2>6. cached' \in [version : 0..MaxRules, at : 0..MaxAge, overtaken : BOOLEAN]
    BY <2>1, <2>2 DEF ReaderRow
  <2>. HIDE DEF new
  <2>7. /\ reader' \in [Reader -> ReaderRow] /\ reader'[r] = new
        /\ \A q \in Reader \ {r} : reader'[q] = reader[q]
    BY <2>1, <2>3 DEF ReaderRow
  <2>8. Cache!TypeOK' /\ cached'.at <= ruleNow' /\ (edited <= table)'
    BY <2>1, <2>6, <2>7 DEF ReaderRow
  <2>9. \A n \in Nat : Serves(n) => Serves(n)'
    BY <2>1, <2>3, <2>5, <2>7
  <2>10. Serves(edited)' /\ \A q \in Reader : reader'[q].at = "dropped" => Serves(reader[q].asOf)'
    <3>1. edited' = edited /\ edited \in Nat /\ \A q \in Reader : reader[q].asOf \in Nat
      BY <2>1
    <3>2. \A q \in Reader : reader'[q].at = "dropped" => reader'[q] = reader[q]
      BY <2>3, <2>7
    <3>3. Serves(edited) /\ \A q \in Reader : reader[q].at = "dropped" => Serves(reader[q].asOf)
      OBVIOUS
    <3>. HIDE DEF CacheInv, Cache!TypeOK, Serves
    <3>. QED BY <2>9, <3>1, <3>2, <3>3
  <2>. QED BY <2>1, <2>3, <2>4, <2>7, <2>8, <2>10
<1>6. ASSUME NEW r \in Reader, Cache!Applied(r)
      PROVE  CacheInv'
  BY <1>6 DEF Cache!Applied
<1>7. CASE Cache!Edit
  <2>1. /\ table' = table + 1 /\ edited' = table + 1 /\ table < MaxRules /\ ruleNow' = ruleNow
        /\ cached' = [cached EXCEPT !.version = 0]
    BY <1>7 DEF Cache!Edit, Cache!Invalidate
  <2>2. \A q \in Reader : Dropped(q) /\ reader'[q] \in ReaderRow
    <3>1. ASSUME NEW q \in Reader
          PROVE  reader'[q] = [reader[q] EXCEPT !.overtaken =
                                 (reader[q].overtaken \/ reader[q].at \in {"missed", "loaded"})]
      BY <1>7, Zenon DEF Cache!Edit, Cache!Invalidate
    <3>. QED BY <3>1, Overtakes DEF ReaderRow
  <2>3. reader' \in [Reader -> ReaderRow]
    <3>1. DOMAIN reader' = Reader /\ reader' = [q \in Reader |-> reader'[q]]
      BY <1>7, Zenon DEF Cache!Edit, Cache!Invalidate
    <3>. QED BY <2>2, <3>1
  <2>4. cached' \in [version : 0..MaxRules, at : 0..MaxAge, overtaken : BOOLEAN] /\ cached'.version = 0
    BY <2>1
  <2>6. \A q \in Reader : reader'[q].at = "loaded" => reader'[q].overtaken
    BY <2>2 DEF Dropped
  <2>7. table' \in 1..MaxRules /\ edited' \in 1..MaxRules /\ edited' <= table' /\ table <= table'
    BY <2>1
  <2>. QED BY <2>1, <2>2, <2>3, <2>4, <2>6, <2>7 DEF Dropped, ReaderRow
<1>8. CASE Cache!EditElsewhere
  BY <1>8 DEF Cache!EditElsewhere
<1>9. CASE Cache!Tick
  BY <1>9 DEF Cache!Tick
<1>. QED BY <1>1, <1>2, <1>3, <1>4, <1>5, <1>6, <1>7, <1>8, <1>9 DEF Cache!Next
-----------------------------------------------------------------------------
(***************************************************************************)
(* Classification (ingest/service.go, classify/store.go, httpapi/assets.go). *)
(***************************************************************************)

(* An event that classifies holds the row, so what it read of it is still      *)
(* there, but for an environment nobody had decided.                         *)
Knows(p) ==
  /\ pass[p].at \in {"held", "read"} => holder = p
  /\ pass[p].at = "read" =>
       /\ pass[p].manual = row.manual
       /\ \A f \in Classes!Field : (f = "environment" => row.value[f] # Default)
            => pass[p].value[f] = row.value[f]
ClassesInv == Classes!TypeOK /\ \A p \in Pass : Knows(p)

LEMMA ClassesInitial ==
  ASSUME Classes!Init
  PROVE  ClassesInv
BY ClassesAssumption DEF Classes!Init, ClassesInv, Classes!TypeOK, Knows, Classes!Free,
   Classes!Nowhere, Classes!NoEdit, Classes!Field

(* What the rules make of the fields of a row.                               *)
LEMMA ClassifiedFields ==
  ASSUME NEW rules \in AnyRules, NEW value \in [Classes!Field -> Value],
         NEW manual \in SUBSET Classes!Field
  PROVE  /\ Classes!Classified(rules, value, manual) \in [Classes!Field -> Value]
         /\ \A f \in manual : Classes!Classified(rules, value, manual)[f] = value[f]
BY DEF AnyRules, Classes!Field, Classes!Classified

(* What an event or a replay writes into the row.                            *)
LEMMA RowWritten ==
  ASSUME ClassesInv, NEW p \in Pass, NEW rules \in AnyRules, NEW tags \in BOOLEAN,
         row' = IF Classes!Fires(rules, tags, pass[p].manual)
                THEN [row EXCEPT !.value = Classes!Classified(rules, pass[p].value, pass[p].manual)]
                ELSE row
  PROVE  /\ row' \in [value : [Classes!Field -> Value], manual : SUBSET Classes!Field,
                      kind : {"component", "product"}]
         /\ row'.manual = row.manual
         /\ \/ row' = row
            \/ \A f \in pass[p].manual : row'.value[f] = pass[p].value[f]
<1>. DEFINE wrote == Classes!Classified(rules, pass[p].value, pass[p].manual)
<1>1. /\ pass[p].value \in [Classes!Field -> Value] /\ pass[p].manual \in SUBSET Classes!Field
      /\ row \in [value : [Classes!Field -> Value], manual : SUBSET Classes!Field,
                  kind : {"component", "product"}]
  BY DEF ClassesInv, Classes!TypeOK
<1>2. /\ wrote \in [Classes!Field -> Value]
      /\ \A f \in pass[p].manual : wrote[f] = pass[p].value[f]
  BY <1>1, ClassifiedFields
<1>3. row' = [row EXCEPT !.value = wrote] \/ row' = row
  BY Zenon
<1>. HIDE DEF wrote
<1>. QED BY <1>1, <1>2, <1>3

LEMMA ClassesStep ==
  ASSUME ClassesInv, [Classes!Next]_ofClasses
  PROVE  ClassesInv' /\ (Classes!EventKeepsClaims \/ UNCHANGED ofClasses)
<1>. DEFINE kept == ClassesInv' /\ Classes!EventKeepsClaims
<1>0. ASSUME \A p \in Pass : pass'[p].at = "idle" => pass[p].at # "read"
      PROVE  Classes!EventKeepsClaims
  BY <1>0 DEF Classes!EventKeepsClaims
<1>1. CASE UNCHANGED ofClasses
  BY <1>1 DEF ofClasses, ClassesInv, Classes!TypeOK, Knows
<1>2. ASSUME NEW p \in Pass, Classes!Touch(p) \/ Classes!ListAssets(p) \/ Classes!ReadManual(p)
      PROVE  kept
  <2>. DEFINE next == pass'[p]
  <2>1. /\ pass[p].at \in {"idle", "listed"} /\ UNCHANGED <<row, editor, edits, person>>
        /\ holder' = holder \/ (holder = Classes!Free /\ holder' = p)
        /\ Classes!Touch(p) => holder' = p
    BY <1>2 DEF Classes!Touch, Classes!ListAssets, Classes!ReadManual
  <2>2. /\ next \in [at : {"held", "listed", "replay"}, value : [Classes!Field -> Value],
                     manual : SUBSET Classes!Field]
        /\ next.at = "held" => holder' = p
        /\ pass' = [pass EXCEPT ![p] = next]
    <3>1. CASE Classes!Touch(p)
      BY <2>1, <3>1 DEF ClassesInv, Classes!TypeOK, Classes!Touch
    <3>2. CASE Classes!ListAssets(p)
      <4>. DEFINE listed == [Classes!Nowhere EXCEPT !.at = "listed", !.value = row.value]
      <4>1. pass' = [pass EXCEPT ![p] = listed]
        BY <3>2 DEF Classes!ListAssets
      <4>2. listed \in [at : {"held", "listed", "replay"}, value : [Classes!Field -> Value],
                        manual : SUBSET Classes!Field] /\ listed.at = "listed"
        BY DEF ClassesInv, Classes!TypeOK, Classes!Nowhere
      <4>. HIDE DEF listed
      <4>3. next = listed
        BY <4>1 DEF ClassesInv, Classes!TypeOK
      <4>. HIDE DEF next
      <4>4. next.at # "held"
        BY <4>2, <4>3
      <4>. QED BY <4>1, <4>2, <4>3, <4>4, Zenon
    <3>3. CASE Classes!ReadManual(p)
      BY <3>3 DEF ClassesInv, Classes!TypeOK, Classes!ReadManual
    <3>. QED BY <1>2, <3>1, <3>2, <3>3
  <2>. HIDE DEF next
  <2>3. /\ pass' \in [Pass -> [at : {"idle", "held", "read", "listed", "replay"},
                             value : [Classes!Field -> Value], manual : SUBSET Classes!Field]]
        /\ pass'[p] = next /\ \A q \in Pass \ {p} : pass'[q] = pass[q]
    BY <2>2 DEF ClassesInv, Classes!TypeOK
  <2>4. \A q \in Pass : Knows(q)'
    BY <2>1, <2>2, <2>3, ClassesAssumption DEF ClassesInv, Knows, Classes!Free
  <2>5. \A q \in Pass : pass'[q].at = "idle" => pass[q].at # "read"
    BY <2>1, <2>3
  <2>. QED BY <1>0, <2>1, <2>3, <2>4, <2>5 DEF ClassesInv, Classes!TypeOK
<1>3. ASSUME NEW p \in Pass, NEW seen \in Value, Classes!ReadAsset(p, seen)
      PROVE  kept
  <2>. DEFINE read == [at |-> "read", manual |-> row.manual,
                       value |-> Classes!Inherited(row.value, seen)]
  <2>1. /\ pass[p].at = "held" /\ pass' = [pass EXCEPT ![p] = read]
        /\ UNCHANGED <<row, holder, editor, edits, person>>
    BY <1>3 DEF Classes!ReadAsset
  <2>2. /\ Classes!Inherited(row.value, seen) \in [Classes!Field -> Value]
        /\ \A f \in Classes!Field : (f = "environment" => row.value[f] # Default)
             => Classes!Inherited(row.value, seen)[f] = row.value[f]
    BY DEF ClassesInv, Classes!TypeOK, Classes!Inherited, Classes!Field
  <2>3. ClassesInv'
    BY <2>1, <2>2 DEF ClassesInv, Classes!TypeOK, Knows
  <2>4. \A q \in Pass : pass'[q].at = "idle" => pass[q].at # "read"
    BY <2>1 DEF ClassesInv, Classes!TypeOK
  <2>. QED BY <1>0, <2>3, <2>4
<1>4. ASSUME NEW p \in Pass, NEW rules \in AnyRules, NEW tags \in BOOLEAN,
             Classes!Classify(p, rules, tags)
      PROVE  kept
  <2>1. /\ pass[p].at = "read" /\ holder' = Classes!Free
        /\ pass' = [pass EXCEPT ![p] = Classes!Nowhere]
        /\ UNCHANGED <<editor, edits, person>>
    BY <1>4 DEF Classes!Classify
  <2>2. /\ row' \in [value : [Classes!Field -> Value], manual : SUBSET Classes!Field,
                     kind : {"component", "product"}]
        /\ row'.manual = row.manual
        /\ \/ row' = row
           \/ \A f \in pass[p].manual : row'.value[f] = pass[p].value[f]
    BY <1>4, RowWritten DEF Classes!Classify
  <2>3. \A q \in Pass \ {p} : pass'[q] = pass[q] /\ pass[q].at \notin {"held", "read"}
    BY <2>1 DEF ClassesInv, Classes!TypeOK, Knows
  <2>4. ClassesInv'
    BY <2>1, <2>2, <2>3, ClassesAssumption
       DEF ClassesInv, Classes!TypeOK, Knows, Classes!Nowhere, Classes!Free
  <2>5. Classes!EventKeepsClaims
    BY <2>1, <2>2, <2>3 DEF Classes!EventKeepsClaims, ClassesInv, Classes!TypeOK, Knows
  <2>. QED BY <2>4, <2>5
<1>5. ASSUME NEW p \in Pass, NEW rules \in AnyRules, NEW tags \in BOOLEAN,
             Classes!Replay(p, rules, tags)
      PROVE  kept
  <2>1. /\ pass[p].at = "replay" /\ holder = Classes!Free
        /\ pass' = [pass EXCEPT ![p] = Classes!Nowhere]
        /\ UNCHANGED <<holder, editor, edits, person>>
    BY <1>5 DEF Classes!Replay
  <2>2. row' \in [value : [Classes!Field -> Value], manual : SUBSET Classes!Field,
                  kind : {"component", "product"}]
    BY <1>5, RowWritten DEF Classes!Replay
  <2>3. \A q \in Pass : pass[q].at \notin {"held", "read"} /\ pass'[q].at \notin {"held", "read"}
    BY <2>1, ClassesAssumption DEF ClassesInv, Classes!TypeOK, Knows, Classes!Nowhere, Classes!Free
  <2>4. ClassesInv'
    BY <2>1, <2>2, <2>3, ClassesAssumption
       DEF ClassesInv, Classes!TypeOK, Knows, Classes!Nowhere
  <2>. QED BY <1>0, <2>3, <2>4
<1>6. ASSUME NEW seen \in Value, Classes!Reconcile(seen)
      PROVE  kept
  <2>1. /\ holder = Classes!Free /\ row' = [row EXCEPT !.value["environment"] = seen]
        /\ UNCHANGED <<holder, pass, editor, edits, person>>
    BY <1>6 DEF Classes!Reconcile
  <2>2. row' \in [value : [Classes!Field -> Value], manual : SUBSET Classes!Field,
                  kind : {"component", "product"}]
    BY <2>1 DEF ClassesInv, Classes!TypeOK
  <2>3. \A q \in Pass : pass[q].at \notin {"held", "read"}
    BY <2>1, ClassesAssumption DEF ClassesInv, Classes!TypeOK, Knows, Classes!Free
  <2>4. ClassesInv'
    BY <2>1, <2>2, <2>3 DEF ClassesInv, Classes!TypeOK, Knows
  <2>. QED BY <1>0, <2>3, <2>4
<1>7. ASSUME NEW e \in Editor, NEW input \in [Classes!Field -> Value \cup {Unset}],
             Classes!PatchRead(e, input)
      PROVE  kept
  <2>1. /\ UNCHANGED <<row, holder, pass, person>>
        /\ edits < MaxEdits /\ edits' = edits + 1
        /\ editor' = [editor EXCEPT ![e] = [Classes!NoEdit EXCEPT !.at = "read",
                        !.value = row.value, !.input = input]]
    BY <1>7 DEF Classes!PatchRead
  <2>2. edits' \in 0..MaxEdits
    BY <2>1, ClassesAssumption DEF ClassesInv, Classes!TypeOK
  <2>3. ClassesInv'
    BY <2>1, <2>2 DEF ClassesInv, Classes!TypeOK, Knows, Classes!NoEdit
  <2>. QED BY <1>0, <2>1, <2>3
<1>8. ASSUME NEW e \in Editor, Classes!MarkRead(e)
      PROVE  kept
  <2>1. /\ UNCHANGED <<row, holder, pass, edits, person>>
        /\ editor' = [editor EXCEPT ![e].at = "marked", ![e].manual = row.manual]
    BY <1>8 DEF Classes!MarkRead
  <2>. DEFINE EditorRow == [at : {"idle", "read", "marked"}, value : [Classes!Field -> Value],
                       input : [Classes!Field -> Value \cup {Unset}], manual : SUBSET Classes!Field]
              marked == [editor[e] EXCEPT !.at = "marked", !.manual = row.manual]
  <2>4. editor \in [Editor -> EditorRow] /\ row.manual \in SUBSET Classes!Field
    BY DEF ClassesInv, Classes!TypeOK
  <2>5. marked \in EditorRow
    BY <2>4
  <2>6. editor' = [editor EXCEPT ![e] = marked]
    BY <2>1
  <2>. HIDE DEF marked
  <2>7. editor' \in [Editor -> EditorRow]
    BY <2>4, <2>5, <2>6
  <2>. HIDE DEF EditorRow
  <2>2. ClassesInv'
    <3>1. Classes!TypeOK'
      BY <2>1, <2>7 DEF ClassesInv, Classes!TypeOK, EditorRow
    <3>. QED BY <2>1, <3>1 DEF ClassesInv, Knows
  <2>3. \A q \in Pass : pass'[q].at = "idle" => pass[q].at # "read"
    BY <2>1
  <2>. QED BY <1>0, <2>2, <2>3
<1>9. ASSUME NEW e \in Editor, Classes!PatchWrite(e)
      PROVE  kept
  <2>. DEFINE claimed == Classes!Claimed(e)
              values  == [f \in Classes!Field |-> IF f \in claimed THEN editor[e].input[f]
                                                  ELSE editor[e].value[f]]
              marks   == IF claimed = {} THEN row.manual ELSE editor[e].manual \cup claimed
  <2>1. /\ holder = Classes!Free /\ UNCHANGED <<holder, pass, edits>>
        /\ row' = [row EXCEPT !.manual = marks, !.value = values]
        /\ person' = [f \in Classes!Field |-> IF f \in claimed THEN editor[e].input[f] ELSE person[f]]
        /\ editor' = [editor EXCEPT ![e] = Classes!NoEdit]
    BY <1>9 DEF Classes!PatchWrite
  <2>2. values \in [Classes!Field -> Value] /\ marks \in SUBSET Classes!Field
    BY DEF ClassesInv, Classes!TypeOK, Classes!Claimed
  <2>3. /\ person' \in [Classes!Field -> Value \cup {Unset}]
        /\ editor' \in [Editor -> [at : {"idle", "read", "marked"}, value : [Classes!Field -> Value],
                          input : [Classes!Field -> Value \cup {Unset}], manual : SUBSET Classes!Field]]
    BY <2>1, ClassesAssumption DEF ClassesInv, Classes!TypeOK, Classes!Claimed, Classes!NoEdit
  <2>. HIDE DEF values, marks, claimed
  <2>4. row' \in [value : [Classes!Field -> Value], manual : SUBSET Classes!Field,
                  kind : {"component", "product"}]
    BY <2>1, <2>2 DEF ClassesInv, Classes!TypeOK
  <2>5. \A q \in Pass : pass[q].at \notin {"held", "read"}
    BY <2>1, ClassesAssumption DEF ClassesInv, Classes!TypeOK, Knows, Classes!Free
  <2>6. ClassesInv'
    BY <2>1, <2>3, <2>4, <2>5 DEF ClassesInv, Classes!TypeOK, Knows
  <2>. QED BY <1>0, <2>1, <2>5, <2>6
<1>. QED BY Zenon, <1>1, <1>2, <1>3, <1>4, <1>5, <1>6, <1>7, <1>8, <1>9 DEF Classes!Next

(***************************************************************************)
(* classify/store.go, classifyRecord: an edit of the rules is missed by none     *)
(* that loads them, and by others for less than the cache time after the load     *)
(* it overtook; the classification by an event lets no rule decide a field a      *)
(* person claimed, for any rules, values, Pods, events and edits.                *)
(***************************************************************************)
THEOREM ClaimsKept == Spec => ClassesSafe
<1>1. Init => CacheInv /\ ClassesInv
  BY CacheInitial, ClassesInitial DEF Init
<1>2. /\ CacheInv /\ ClassesInv /\ [Next]_vars => (CacheInv /\ ClassesInv)'
      /\ ClassesInv /\ [Next]_vars => [Classes!EventKeepsClaims]_vars
  <2>1. ClassesInv /\ UNCHANGED ofClasses => Classes!EventKeepsClaims
    BY DEF ofClasses, Classes!EventKeepsClaims
  <2>. QED BY Zenon, PartsMove, CacheStep, ClassesStep, <2>1
<1>3. CacheInv => Cache!EditsSeen
  BY DEF CacheInv
<1>. QED BY <1>1, <1>2, <1>3, PTL DEF Spec, ClassesSafe
-----------------------------------------------------------------------------
(***************************************************************************)
(* Representatives (ingest/service.go, httpapi/assets.go).                  *)
(***************************************************************************)

Status    == {"none", "active", "removed", "deleted", "merged"}
AssetRow  == [status : Status, gone : BOOLEAN, seen : 0..MaxOrder]
SourceRow == [asset : Asset, live : BOOLEAN, order : 0..MaxOrder]
EventRow  == [at : {"idle", "read", "held", "counted"}, kind : {"upsert", "remove"},
              source : Source, asset : Asset, order : 0..MaxOrder, others : BOOLEAN]
RequestRow == [at : {"idle", "merge", "patch"}, asset : Asset, into : Asset,
               sources : SUBSET Source, status : Status]

(* The event's transaction has updated its source and holds the row.          *)
Holds(t) == t.at \in {"held", "counted"}
(* What an event read is still so, but for the asset of a source that a person *)
(* has moved since; a source it holds has not seen a later event.             *)
EventOK(t) ==
  /\ t.at # "idle" => \/ t.asset = source[t.source].asset
                      \/ t.asset \in handled /\ source[t.source].asset \in handled
  /\ Holds(t) => source[t.source].order < t.order
  /\ t.at = "counted" /\ t.others => t.asset \in handled
(* An asset no person has touched has one source and was last seen with it.    *)
SourceOK(s) ==
  /\ \A t \in Source \ {s} :
       source[t].asset = source[s].asset => source[s].asset \in handled
  /\ source[s].asset \notin handled =>
       /\ Assets!Visible(source[s].asset) <=> source[s].live
       /\ asset[source[s].asset].seen <= source[s].order
(* The sources of an open merge belong to the secondary still.                *)
MergeOK(t) == t.at = "merge" => \A s \in t.sources : source[s].asset = t.asset

AssetsInv ==
  /\ Assets!TypeOK /\ Assets!StaysPlaced
  /\ \A s \in Source : SourceOK(s)
  /\ \A e \in Event : EventOK(event[e])
  /\ \A e, f \in Event : (e # f /\ Holds(event[e]) /\ Holds(event[f])) =>
       event[e].source # event[f].source
  /\ \A r \in Request : MergeOK(request[r])
  /\ \A r, q \in Request : (r # q /\ request[r].at = "merge" /\ request[q].at = "merge") =>
       request[r].sources \cap request[q].sources = {}

LEMMA AssetsTypes ==
  ASSUME AssetsInv
  PROVE  /\ asset \in [Asset -> AssetRow] /\ source \in [Source -> SourceRow]
         /\ event \in [Event -> EventRow] /\ request \in [Request -> RequestRow]
         /\ placed \in [Source -> Asset] /\ handled \subseteq Asset /\ acts \in 0..MaxActs
BY DEF AssetsInv, Assets!TypeOK, AssetRow, SourceRow, EventRow, RequestRow, Status

LEMMA AssetsTyped ==
  ASSUME /\ asset \in [Asset -> AssetRow] /\ source \in [Source -> SourceRow]
         /\ event \in [Event -> EventRow] /\ request \in [Request -> RequestRow]
         /\ placed \in [Source -> Asset] /\ handled \subseteq Asset /\ acts \in 0..MaxActs
  PROVE  Assets!TypeOK
BY DEF Assets!TypeOK, AssetRow, SourceRow, EventRow, RequestRow, Status

(* The rows of events and requests that rest.                                *)
LEMMA Rest ==
  /\ Assets!NoEvent \in EventRow /\ Assets!NoEvent.at = "idle"
  /\ Assets!NoRequest \in RequestRow /\ Assets!NoRequest.at = "idle"
BY AssetsAssumption DEF Assets!NoEvent, Assets!NoRequest, Assets!Some, EventRow, RequestRow, Status

LEMMA AssetsInitial ==
  ASSUME Assets!Init
  PROVE  AssetsInv
<1>. DEFINE start == [Source -> [asset : Asset \ {Fresh}, live : {TRUE}, order : {0}]]
            apart(f) == \A s, t \in Source : s # t => f[s].asset # f[t].asset
<1>1. \E f \in start : apart(f)
  <2>1. PICK g \in [Source -> Asset \ {Fresh}] : \A s, t \in Source : s # t => g[s] # g[t]
    BY AssetsAssumption
  <2>. DEFINE f == [s \in Source |-> [asset |-> g[s], live |-> TRUE, order |-> 0]]
  <2>2. f \in start /\ apart(f)
    BY <2>1
  <2>. QED BY <2>2
<1>2. source \in start /\ apart(source)
  <2>1. source = CHOOSE f \in start : apart(f)
    BY Zenon DEF Assets!Init
  <2>. QED BY <1>1, <2>1
<1>3. /\ asset = [a \in Asset |-> [status |-> IF a = Fresh THEN "none" ELSE "active",
                                   gone |-> FALSE, seen |-> 0]]
      /\ event = [e \in Event |-> Assets!NoEvent]
      /\ request = [r \in Request |-> Assets!NoRequest]
      /\ placed = [s \in Source |-> source[s].asset] /\ handled = {} /\ acts = 0
  BY DEF Assets!Init
<1>4. 0 \in 0..MaxOrder /\ 0 \in 0..MaxActs
  BY AssetsAssumption
<1>5. /\ source \in [Source -> SourceRow] /\ placed \in [Source -> Asset]
      /\ \A s \in Source : /\ source[s].asset \in Asset \ {Fresh} /\ source[s].live
                           /\ source[s].order = 0
  <2>1. start \subseteq [Source -> SourceRow]
    BY <1>4 DEF SourceRow
  <2>2. source \in [Source -> SourceRow]
    BY <1>2, <2>1
  <2>. QED BY <1>2, <1>3, <2>2 DEF SourceRow
<1>. HIDE DEF start
<1>6. /\ asset \in [Asset -> AssetRow]
      /\ \A a \in Asset \ {Fresh} : asset[a] = [status |-> "active", gone |-> FALSE, seen |-> 0]
  BY <1>3, <1>4 DEF AssetRow, Status
<1>7. Assets!TypeOK
  BY <1>3, <1>4, <1>5, <1>6, Rest, AssetsTyped
<1>8. \A s \in Source : SourceOK(s)
  <2>1. ASSUME NEW s \in Source
        PROVE  SourceOK(s)
    <3>1. asset[source[s].asset] = [status |-> "active", gone |-> FALSE, seen |-> 0]
      BY <1>5, <1>6
    <3>2. Assets!Visible(source[s].asset) /\ asset[source[s].asset].seen = 0
      BY <3>1 DEF Assets!Visible
    <3>. QED BY <1>2, <1>5, <3>2 DEF SourceOK
  <2>. QED BY <2>1
<1>. QED BY <1>3, <1>7, <1>8, Rest
        DEF AssetsInv, EventOK, MergeOK, Holds, Assets!StaysPlaced

(* One event goes on, and nothing else changes.                              *)
LEMMA EventMoves ==
  ASSUME AssetsInv, NEW e \in Event, NEW new \in EventRow,
         event' = [event EXCEPT ![e] = new],
         UNCHANGED <<asset, source, request, placed, handled, acts>>,
         EventOK(new),
         Holds(new) => \A f \in Event \ {e} : Holds(event[f]) => event[f].source # new.source
  PROVE  AssetsInv'
<1>1. /\ event' \in [Event -> EventRow] /\ event'[e] = new
      /\ \A f \in Event \ {e} : event'[f] = event[f]
  BY AssetsTypes
<1>2. Assets!TypeOK'
  BY <1>1, AssetsTypes, AssetsTyped DEF AssetsInv, Assets!TypeOK, EventRow
<1>3. \A f \in Event : EventOK(event[f])'
  BY <1>1 DEF AssetsInv, EventOK, Holds
<1>4. \A f, g \in Event : (f # g /\ Holds(event'[f]) /\ Holds(event'[g])) =>
        event'[f].source # event'[g].source
  BY <1>1 DEF AssetsInv, Holds
<1>5. (\A s \in Source : SourceOK(s)) /\ (\A r \in Request : MergeOK(request[r]))
  BY DEF AssetsInv
<1>6. (\A s \in Source : SourceOK(s))' /\ (\A r \in Request : MergeOK(request[r]))'
  BY <1>5 DEF SourceOK, MergeOK, Assets!Visible
<1>. QED BY <1>2, <1>3, <1>4, <1>6 DEF AssetsInv, Assets!StaysPlaced, Holds

LEMMA AssetsRead ==
  ASSUME AssetsInv, NEW e \in Event, NEW kind \in {"upsert", "remove"}, NEW s \in Source,
         NEW n \in 1..MaxOrder, Assets!ReadSource(e, kind, s, n)
  PROVE  AssetsInv'
<1>. DEFINE new == [Assets!NoEvent EXCEPT !.at = "read", !.kind = kind, !.source = s,
                      !.asset = source[s].asset, !.order = n]
<1>1. new \in EventRow /\ new.at = "read" /\ new.source = s /\ new.asset = source[s].asset
  <2>1. n \in 0..MaxOrder /\ source[s].asset \in Asset
    BY AssetsTypes, AssetsAssumption DEF SourceRow
  <2>. QED BY <2>1, Rest DEF EventRow
<1>2. /\ event' = [event EXCEPT ![e] = new]
      /\ UNCHANGED <<asset, source, request, placed, handled, acts>>
  BY DEF Assets!ReadSource
<1>. HIDE DEF new
<1>. QED BY <1>1, <1>2, EventMoves DEF EventOK, Holds

LEMMA AssetsUpdate ==
  ASSUME AssetsInv, NEW e \in Event, Assets!UpdateSource(e)
  PROVE  AssetsInv'
<1>. DEFINE t == event[e]
            new == [t EXCEPT !.at = "held"]
<1>1. /\ t.at = "read" /\ ~Assets!Held(t.source) /\ t \in EventRow
      /\ UNCHANGED <<asset, source, request, placed, handled, acts>>
      /\ \/ event' = [event EXCEPT ![e] = new] /\ source[t.source].order < t.order
         \/ event' = [event EXCEPT ![e] = Assets!NoEvent]
  BY AssetsTypes DEF Assets!UpdateSource, EventRow, SourceRow
<1>2. /\ new \in EventRow /\ new.at = "held" /\ new.source = t.source /\ new.asset = t.asset
      /\ new.order = t.order
  BY <1>1 DEF EventRow
<1>3. EventOK(t) /\ \A f \in Event : Holds(event[f]) => event[f].source # t.source
  BY <1>1 DEF AssetsInv, Holds, Assets!Held
<1>. HIDE DEF new, t
<1>4. CASE event' = [event EXCEPT ![e] = new] /\ source[t.source].order < t.order
  BY <1>1, <1>2, <1>3, <1>4, EventMoves DEF EventOK, Holds
<1>5. CASE event' = [event EXCEPT ![e] = Assets!NoEvent]
  BY <1>1, <1>5, Rest, EventMoves DEF EventOK, Holds
<1>. QED BY <1>1, <1>4, <1>5

LEMMA AssetsCount ==
  ASSUME AssetsInv, NEW e \in Event, Assets!CountSources(e)
  PROVE  AssetsInv'
<1>. DEFINE t == event[e]
            more == \E s \in Assets!SourcesOf(t.asset) \ {t.source} : source[s].live
            new == [t EXCEPT !.at = "counted", !.others = more]
<1>1. /\ t.at = "held" /\ t \in EventRow /\ event' = [event EXCEPT ![e] = new]
      /\ UNCHANGED <<asset, source, request, placed, handled, acts>>
  BY AssetsTypes DEF Assets!CountSources
<1>2. more \in BOOLEAN /\ (more => t.asset \in handled)
  <2>1. ASSUME NEW s \in Source \ {t.source}, source[s].asset = t.asset
        PROVE  t.asset \in handled
    BY <1>1, <2>1 DEF AssetsInv, EventOK, SourceOK, EventRow
  <2>. QED BY <2>1 DEF Assets!SourcesOf
<1>3. EventOK(t) /\ \A f \in Event \ {e} : Holds(event[f]) => event[f].source # t.source
  BY <1>1 DEF AssetsInv, Holds
<1>. HIDE DEF more
<1>4. /\ new \in EventRow /\ new.at = "counted" /\ new.source = t.source /\ new.asset = t.asset
      /\ new.order = t.order /\ new.others = more
  BY <1>1, <1>2 DEF EventRow
<1>. HIDE DEF new, t
<1>. QED BY <1>1, <1>2, <1>3, <1>4, EventMoves DEF EventOK, Holds

LEMMA AssetsFail ==
  ASSUME AssetsInv, NEW e \in Event, Assets!Fail(e)
  PROVE  AssetsInv'
BY Rest, EventMoves DEF Assets!Fail, EventOK, Holds
(* An event commits: its source has the event's order, and only the asset that  *)
(* it read before may change.                                                *)
LEMMA EventEnds ==
  ASSUME AssetsInv, NEW e \in Event, Holds(event[e]), NEW new \in SourceRow,
         event' = [event EXCEPT ![e] = Assets!NoEvent],
         source' = [source EXCEPT ![event[e].source] = new],
         new.asset = source[event[e].source].asset, new.order = event[e].order,
         asset' \in [Asset -> AssetRow],
         \A a \in Asset \ {event[e].asset} : asset'[a] = asset[a],
         event[e].asset \notin handled =>
           /\ (asset'[event[e].asset].status # "none" /\ ~asset'[event[e].asset].gone) <=> new.live
           /\ asset'[event[e].asset].seen <= event[e].order,
         UNCHANGED <<request, placed, handled, acts>>
  PROVE  AssetsInv'
<1>. DEFINE t == event[e]
<1>1. /\ event' \in [Event -> EventRow] /\ event'[e] = Assets!NoEvent
      /\ \A f \in Event \ {e} : event'[f] = event[f]
      /\ t \in EventRow
  BY AssetsTypes, Rest
<1>2. /\ source' \in [Source -> SourceRow] /\ t.source \in Source /\ source'[t.source] = new
      /\ \A s \in Source \ {t.source} : source'[s] = source[s]
  BY <1>1, AssetsTypes DEF EventRow
<1>3. \A s \in Source : source'[s].asset = source[s].asset
  BY <1>2
<1>4. Assets!TypeOK' /\ Assets!StaysPlaced'
  BY <1>1, <1>2, <1>3, AssetsTypes
     DEF AssetsInv, Assets!TypeOK, Assets!StaysPlaced, EventRow, SourceRow, AssetRow, Status
<1>5. ASSUME NEW s \in Source
      PROVE  SourceOK(s)'
  <2>1. \A u \in Source \ {s} :
          source'[u].asset = source'[s].asset => source'[s].asset \in handled'
    BY <1>3 DEF AssetsInv, SourceOK
  <2>2. ASSUME source[s].asset \notin handled
        PROVE  /\ Assets!Visible(source[s].asset)' <=> source'[s].live
               /\ asset'[source[s].asset].seen <= source'[s].order
    <3>1. EventOK(t) /\ t.at # "idle"
      BY DEF AssetsInv, Holds
    <3>2. CASE s = t.source
      <4>1. source[s].asset = t.asset
        BY <2>2, <3>1, <3>2 DEF EventOK
      <4>. QED BY <1>2, <2>2, <3>2, <4>1 DEF Assets!Visible
    <3>3. CASE s # t.source
      <4>1. source[s].asset # t.asset
        BY <1>2, <2>2, <3>1, <3>3 DEF EventOK, AssetsInv, SourceOK
      <4>2. asset'[source[s].asset] = asset[source[s].asset] /\ source'[s] = source[s]
        BY <1>2, <3>3, <4>1, AssetsTypes DEF SourceRow
      <4>. QED BY <2>2, <4>2 DEF AssetsInv, SourceOK, Assets!Visible
    <3>. QED BY <3>2, <3>3
  <2>. QED BY <1>3, <2>1, <2>2 DEF SourceOK, Assets!Visible
<1>6. ASSUME NEW f \in Event
      PROVE  EventOK(event[f])'
  <2>1. CASE f = e
    BY <1>1, <2>1, Rest DEF EventOK, Holds
  <2>2. CASE f # e
    <3>1. Holds(event[f]) => event[f].source # t.source
      BY <2>2 DEF AssetsInv
    <3>2. EventOK(event[f]) /\ event'[f] = event[f] /\ event[f].source \in Source
      BY <1>1, <2>2, AssetsTypes DEF AssetsInv, EventRow
    <3>. QED BY <1>2, <1>3, <3>1, <3>2 DEF EventOK, Holds
  <2>. QED BY <2>1, <2>2
<1>7. \A f, g \in Event : (f # g /\ Holds(event'[f]) /\ Holds(event'[g])) =>
        event'[f].source # event'[g].source
  BY <1>1, Rest DEF AssetsInv, Holds
<1>8. \A r \in Request : MergeOK(request[r])'
  BY <1>3, AssetsTypes DEF AssetsInv, MergeOK, RequestRow
<1>. QED BY <1>4, <1>5, <1>6, <1>7, <1>8 DEF AssetsInv, Holds

LEMMA AssetsUpsert ==
  ASSUME AssetsInv, NEW e \in Event, Assets!Upsert(e)
  PROVE  AssetsInv'
<1>. DEFINE t == event[e]
            new == [source[t.source] EXCEPT !.live = TRUE, !.order = t.order]
            shown == [status |-> "active", gone |-> FALSE, seen |-> t.order]
<1>1. /\ t.at = "held" /\ t \in EventRow
      /\ source' = [source EXCEPT ![t.source] = new]
      /\ event' = [event EXCEPT ![e] = Assets!NoEvent]
      /\ UNCHANGED <<request, placed, handled, acts>>
  BY AssetsTypes DEF Assets!Upsert
<1>2. t.source \in Source /\ t.asset \in Asset /\ t.order \in 0..MaxOrder
  BY <1>1 DEF EventRow
<1>3. /\ new \in SourceRow /\ new.asset = source[t.source].asset /\ new.order = t.order /\ new.live
  BY <1>2, AssetsTypes DEF SourceRow
<1>4. /\ asset' = [asset EXCEPT ![t.asset] = IF asset[t.asset].seen <= t.order THEN shown
                                             ELSE asset[t.asset]]
  BY DEF Assets!Upsert
<1>5. shown \in AssetRow /\ asset[t.asset] \in AssetRow
  BY <1>2, AssetsTypes DEF AssetRow, Status
<1>6. /\ asset' \in [Asset -> AssetRow] /\ \A a \in Asset \ {t.asset} : asset'[a] = asset[a]
      /\ asset[t.asset].seen <= t.order => asset'[t.asset] = shown
  BY <1>2, <1>4, <1>5, AssetsTypes
<1>7. t.asset \notin handled => asset[t.asset].seen <= t.order
  <2>1. EventOK(t) /\ SourceOK(t.source)
    BY <1>2 DEF AssetsInv
  <2>2. source[t.source].order \in 0..MaxOrder /\ asset[t.asset].seen \in 0..MaxOrder
    BY <1>2, <1>5, AssetsTypes DEF SourceRow, AssetRow
  <2>. QED BY <1>1, <1>2, <2>1, <2>2, AssetsAssumption DEF EventOK, SourceOK, Holds
<1>8. t.asset \notin handled =>
        /\ (asset'[t.asset].status # "none" /\ ~asset'[t.asset].gone) <=> new.live
        /\ asset'[t.asset].seen <= t.order
  <2>1. ~shown.gone /\ shown.status = "active" /\ shown.seen = t.order
    OBVIOUS
  <2>2. t.order <= t.order
    BY <1>2, AssetsAssumption
  <2>. HIDE DEF shown, new, t
  <2>. QED BY <1>3, <1>6, <1>7, <2>1, <2>2
<1>9. Holds(t)
  BY <1>1 DEF Holds
<1>. HIDE DEF new, shown
<1>. QED BY <1>1, <1>3, <1>6, <1>8, <1>9, EventEnds

LEMMA AssetsRemove ==
  ASSUME AssetsInv, NEW e \in Event, Assets!Remove(e)
  PROVE  AssetsInv'
<1>. DEFINE t == event[e]
            new == [source[t.source] EXCEPT !.live = FALSE, !.order = t.order]
            gone == [asset[t.asset] EXCEPT !.status = "removed", !.gone = TRUE]
<1>1. /\ t.at = "counted" /\ t \in EventRow
      /\ source' = [source EXCEPT ![t.source] = new]
      /\ event' = [event EXCEPT ![e] = Assets!NoEvent]
      /\ UNCHANGED <<request, placed, handled, acts>>
  BY AssetsTypes DEF Assets!Remove
<1>2. t.source \in Source /\ t.asset \in Asset /\ t.order \in 0..MaxOrder
  BY <1>1 DEF EventRow
<1>3. /\ new \in SourceRow /\ new.asset = source[t.source].asset /\ new.order = t.order /\ ~new.live
  BY <1>2, AssetsTypes DEF SourceRow
<1>4. /\ t.others => asset' = asset
      /\ ~t.others => asset' = [asset EXCEPT ![t.asset] = gone]
  BY DEF Assets!Remove
<1>5. gone \in AssetRow /\ gone.gone /\ gone.seen = asset[t.asset].seen
  BY <1>2, AssetsTypes DEF AssetRow, Status
<1>6. EventOK(t) /\ SourceOK(t.source)
  BY <1>2 DEF AssetsInv
<1>7. t.asset \notin handled =>
        ~t.others /\ t.asset = source[t.source].asset /\ asset[t.asset].seen <= source[t.source].order
  BY <1>1, <1>6 DEF EventOK, SourceOK
<1>8. source[t.source].order < t.order
  BY <1>1, <1>6 DEF EventOK, Holds
<1>9. t.asset \notin handled => asset[t.asset].seen <= t.order
  <2>1. source[t.source].order \in Nat /\ asset[t.asset].seen \in Nat /\ t.order \in Nat
    BY <1>2, AssetsTypes, AssetsAssumption DEF SourceRow, AssetRow
  <2>. QED BY <1>7, <1>8, <2>1
<1>. HIDE DEF new, gone, t
<1>10. /\ asset' \in [Asset -> AssetRow] /\ \A a \in Asset \ {t.asset} : asset'[a] = asset[a]
       /\ ~t.others => asset'[t.asset] = gone
  BY <1>2, <1>4, <1>5, AssetsTypes
<1>11. t.asset \notin handled =>
         /\ (asset'[t.asset].status # "none" /\ ~asset'[t.asset].gone) <=> new.live
        /\ asset'[t.asset].seen <= t.order
  BY <1>3, <1>5, <1>7, <1>9, <1>10
<1>12. Holds(t) /\ t = event[e]
  BY <1>1 DEF Holds, t
<1>. QED BY <1>1, <1>3, <1>10, <1>11, <1>12, EventEnds DEF t
(* A person's change commits: the sources in moved go from one asset to        *)
(* another, and only these two assets may change; no other merge has any of     *)
(* those sources, and a merge that goes on is one that was open.              *)
LEMMA PersonCommits ==
  ASSUME AssetsInv, NEW moved \in SUBSET Source, NEW from \in Asset, NEW into \in Asset,
         \A s \in moved : source[s].asset = from,
         source' = [s \in Source |-> IF s \in moved
                      THEN [source[s] EXCEPT !.asset = into] ELSE source[s]],
         placed' = [s \in Source |-> IF s \in moved THEN into ELSE placed[s]],
         handled' = handled \cup {from, into},
         asset' \in [Asset -> AssetRow],
         \A a \in Asset \ {from, into} : asset'[a] = asset[a],
         request' \in [Request -> RequestRow],
         \A r \in Request : request'[r].at = "merge" =>
           request'[r] = request[r] /\ request[r].sources \cap moved = {},
         event' = event, acts' \in 0..MaxActs
  PROVE  AssetsInv'
<1>1. /\ source' \in [Source -> SourceRow] /\ placed' \in [Source -> Asset]
      /\ \A s \in Source : /\ source'[s].live = source[s].live
                           /\ source'[s].order = source[s].order
                           /\ source'[s].asset = IF s \in moved THEN into ELSE source[s].asset
                           /\ placed'[s] = IF s \in moved THEN into ELSE placed[s]
                           /\ source[s].asset \in Asset
  BY AssetsTypes DEF SourceRow
<1>2. Assets!TypeOK'
  BY <1>1, AssetsTypes DEF Assets!TypeOK, EventRow, SourceRow, AssetRow, RequestRow, Status
<1>3. Assets!StaysPlaced'
  BY <1>1 DEF AssetsInv, Assets!StaysPlaced
<1>4. ASSUME NEW s \in Source
      PROVE  SourceOK(s)'
  <2>1. ASSUME NEW u \in Source \ {s}, source'[u].asset = source'[s].asset
        PROVE  source'[s].asset \in handled'
    BY <1>1, <2>1 DEF AssetsInv, SourceOK
  <2>2. ASSUME source'[s].asset \notin handled'
        PROVE  /\ Assets!Visible(source[s].asset)' <=> source'[s].live
               /\ asset'[source'[s].asset].seen <= source'[s].order
    <3>1. /\ s \notin moved /\ source'[s].asset = source[s].asset
          /\ source[s].asset \notin handled \cup {from, into}
      BY <1>1, <2>2
    <3>2. asset'[source[s].asset] = asset[source[s].asset]
      BY <1>1, <3>1
    <3>. QED BY <1>1, <3>1, <3>2 DEF AssetsInv, SourceOK, Assets!Visible
  <2>. QED BY <2>1, <2>2 DEF SourceOK, Assets!Visible
<1>5. ASSUME NEW e \in Event
      PROVE  EventOK(event[e])'
  <2>1. EventOK(event[e]) /\ event[e].source \in Source
    BY AssetsTypes DEF AssetsInv, EventRow
  <2>. QED BY <1>1, <2>1 DEF EventOK, Holds
<1>6. \A e, f \in Event : (e # f /\ Holds(event'[e]) /\ Holds(event'[f])) =>
        event'[e].source # event'[f].source
  BY DEF AssetsInv, Holds
<1>7. ASSUME NEW r \in Request
      PROVE  MergeOK(request[r])'
  <2>1. request[r].sources \subseteq Source
    BY AssetsTypes DEF RequestRow
  <2>. QED BY <1>1, <2>1 DEF AssetsInv, MergeOK
<1>8. \A r, q \in Request : (r # q /\ request'[r].at = "merge" /\ request'[q].at = "merge") =>
        request'[r].sources \cap request'[q].sources = {}
  BY DEF AssetsInv
<1>. QED BY <1>2, <1>3, <1>4, <1>5, <1>6, <1>7, <1>8 DEF AssetsInv, Holds

(* A request begins, and nothing else changes but what persons have begun.     *)
LEMMA RequestBegins ==
  ASSUME AssetsInv, NEW r \in Request, NEW new \in RequestRow,
         request' = [request EXCEPT ![r] = new], MergeOK(new),
         new.at = "merge" => \A q \in Request \ {r} :
           request[q].at = "merge" => request[q].sources \cap new.sources = {},
         UNCHANGED <<asset, source, event, placed, handled>>, acts' \in 0..MaxActs
  PROVE  AssetsInv'
<1>1. /\ request' \in [Request -> RequestRow] /\ request'[r] = new
      /\ \A q \in Request \ {r} : request'[q] = request[q]
  BY AssetsTypes
<1>2. Assets!TypeOK'
  BY <1>1 DEF AssetsInv, Assets!TypeOK, RequestRow, Status
<1>3. \A q \in Request : MergeOK(request[q])'
  BY <1>1 DEF AssetsInv, MergeOK
<1>4. \A q, u \in Request : (q # u /\ request'[q].at = "merge" /\ request'[u].at = "merge") =>
        request'[q].sources \cap request'[u].sources = {}
  BY <1>1 DEF AssetsInv
<1>5. (\A s \in Source : SourceOK(s)) /\ (\A e \in Event : EventOK(event[e]))
  BY DEF AssetsInv
<1>6. (\A s \in Source : SourceOK(s))' /\ (\A e \in Event : EventOK(event[e]))'
  BY <1>5 DEF SourceOK, EventOK, Holds, Assets!Visible
<1>. QED BY <1>2, <1>3, <1>4, <1>6 DEF AssetsInv, Assets!StaysPlaced, Holds

LEMMA Acts ==
  ASSUME AssetsInv, Assets!Act
  PROVE  acts' \in 0..MaxActs
BY AssetsTypes, AssetsAssumption DEF Assets!Act

LEMMA AssetsMergeMove ==
  ASSUME AssetsInv, NEW r \in Request, NEW primary \in Asset, NEW secondary \in Asset,
         Assets!MergeMove(r, primary, secondary)
  PROVE  AssetsInv'
<1>. DEFINE new == [Assets!NoRequest EXCEPT !.at = "merge", !.asset = secondary,
                      !.into = primary, !.sources = Assets!SourcesOf(secondary)]
<1>1. /\ request' = [request EXCEPT ![r] = new]
      /\ UNCHANGED <<asset, source, event, placed, handled>> /\ acts' \in 0..MaxActs
  BY Acts DEF Assets!MergeMove
<1>2. /\ new \in RequestRow /\ new.sources = {s \in Source : source[s].asset = secondary}
      /\ new.asset = secondary
  BY Rest DEF RequestRow, Assets!SourcesOf
<1>3. \A q \in Request : request[q].at = "merge" =>
        request[q].sources \cap Assets!SourcesOf(secondary) = {}
  BY DEF Assets!MergeMove, Assets!Held
<1>4. new.sources = Assets!SourcesOf(secondary)
  BY <1>2 DEF Assets!SourcesOf
<1>. HIDE DEF new
<1>. QED BY <1>1, <1>2, <1>3, <1>4, RequestBegins DEF MergeOK

LEMMA AssetsPatchRead ==
  ASSUME AssetsInv, NEW r \in Request, NEW a \in Asset, Assets!PatchRead(r, a)
  PROVE  AssetsInv'
<1>. DEFINE new == [Assets!NoRequest EXCEPT !.at = "patch", !.asset = a,
                      !.status = asset[a].status]
<1>1. /\ request' = [request EXCEPT ![r] = new]
      /\ UNCHANGED <<asset, source, event, placed, handled>> /\ acts' \in 0..MaxActs
  BY Acts DEF Assets!PatchRead
<1>2. asset[a].status \in Status
  BY AssetsTypes DEF AssetRow
<1>3. new \in RequestRow /\ new.at = "patch"
  BY <1>2, Rest DEF RequestRow
<1>. HIDE DEF new
<1>. QED BY <1>1, <1>3, RequestBegins DEF MergeOK

LEMMA AssetsMergeCommit ==
  ASSUME AssetsInv, NEW r \in Request, Assets!MergeCommit(r)
  PROVE  AssetsInv'
<1>. DEFINE t == request[r]
            merged1 == [asset[t.asset] EXCEPT !.status = "merged", !.gone = TRUE]
<1>1. /\ t.at = "merge" /\ t \in RequestRow
      /\ source' = [s \in Source |-> IF s \in t.sources
                      THEN [source[s] EXCEPT !.asset = t.into] ELSE source[s]]
      /\ placed' = [s \in Source |-> IF s \in t.sources THEN t.into ELSE placed[s]]
      /\ handled' = handled \cup {t.asset, t.into}
      /\ request' = [request EXCEPT ![r] = Assets!NoRequest]
      /\ event' = event /\ acts' = acts /\ acts \in 0..MaxActs
  BY AssetsTypes DEF Assets!MergeCommit
<1>2. t.sources \in SUBSET Source /\ t.asset \in Asset /\ t.into \in Asset
  BY <1>1 DEF RequestRow
<1>3. asset' = [asset EXCEPT ![t.asset] = merged1] /\ merged1 \in AssetRow
  BY <1>2, AssetsTypes DEF Assets!MergeCommit, AssetRow, Status
<1>. HIDE DEF merged1
<1>4. asset' \in [Asset -> AssetRow] /\ \A a \in Asset \ {t.asset, t.into} : asset'[a] = asset[a]
  BY <1>2, <1>3, AssetsTypes
<1>5. /\ request' \in [Request -> RequestRow] /\ request'[r].at = "idle"
      /\ \A q \in Request \ {r} : request'[q] = request[q]
  BY <1>1, Rest, AssetsTypes
<1>6. \A q \in Request : request'[q].at = "merge" =>
        request'[q] = request[q] /\ request[q].sources \cap t.sources = {}
  BY <1>1, <1>5 DEF AssetsInv
<1>7. \A s \in t.sources : source[s].asset = t.asset
  BY <1>1 DEF AssetsInv, MergeOK
<1>8. acts' \in 0..MaxActs
  BY <1>1
<1>9. /\ request' \in [Request -> RequestRow] /\ event' = event
      /\ handled' = handled \cup {t.asset, t.into}
  BY <1>1, <1>5
<1>10. ASSUME NEW from \in Asset, NEW into \in Asset, NEW moved \in SUBSET Source,
              from = t.asset, into = t.into, moved = t.sources
       PROVE  AssetsInv'
  <2>1. /\ source' = [s \in Source |-> IF s \in moved
                        THEN [source[s] EXCEPT !.asset = into] ELSE source[s]]
        /\ placed' = [s \in Source |-> IF s \in moved THEN into ELSE placed[s]]
        /\ handled' = handled \cup {from, into}
    BY Zenon, <1>1, <1>10
  <2>2. /\ \A a \in Asset \ {from, into} : asset'[a] = asset[a]
        /\ \A q \in Request : request'[q].at = "merge" =>
             request'[q] = request[q] /\ request[q].sources \cap moved = {}
        /\ \A s \in moved : source[s].asset = from
    BY Zenon, <1>4, <1>6, <1>7, <1>10
  <2>. QED BY Zenon, <1>4, <1>8, <1>9, <2>1, <2>2, PersonCommits
<1>. QED BY <1>2, <1>10

LEMMA AssetsSplit ==
  ASSUME AssetsInv, NEW original \in Asset, NEW sources \in SUBSET Source,
         Assets!Split(original, sources)
  PROVE  AssetsInv'
<1>1. /\ source' = [s \in Source |-> IF s \in sources
                      THEN [source[s] EXCEPT !.asset = Fresh] ELSE source[s]]
      /\ placed' = [s \in Source |-> IF s \in sources THEN Fresh ELSE placed[s]]
      /\ handled' = handled \cup {original, Fresh}
      /\ event' = event /\ request' = request /\ acts' \in 0..MaxActs
      /\ asset' = [asset EXCEPT ![Fresh].status = "active"]
  BY Acts DEF Assets!Split
<1>2. \A s \in sources : source[s].asset = original /\ ~Assets!Held(s)
  BY DEF Assets!Split, Assets!SourcesOf
<1>3. asset' \in [Asset -> AssetRow] /\ \A a \in Asset \ {original, Fresh} : asset'[a] = asset[a]
  BY <1>1, AssetsTypes, AssetsAssumption DEF AssetRow, Status
<1>4. \A q \in Request : request'[q].at = "merge" =>
        request'[q] = request[q] /\ request[q].sources \cap sources = {}
  BY <1>1, <1>2 DEF Assets!Held
<1>5. request' \in [Request -> RequestRow] /\ Fresh \in Asset
  BY <1>1, AssetsTypes, AssetsAssumption
<1>6. \A s \in sources : source[s].asset = original
  BY <1>2
<1>. QED BY Zenon, <1>1, <1>3, <1>4, <1>5, <1>6, PersonCommits

(* A person changes one asset, and no source moves.                          *)
LEMMA PersonTouches ==
  ASSUME AssetsInv, NEW a \in Asset, NEW new \in AssetRow, asset' = [asset EXCEPT ![a] = new],
         handled' = handled \cup {a}, UNCHANGED <<source, event, placed>>,
         request' \in [Request -> RequestRow],
         \A q \in Request : request'[q].at = "merge" => request'[q] = request[q],
         acts' \in 0..MaxActs
  PROVE  AssetsInv'
<1>. DEFINE moved == {}
<1>1. /\ source' = [s \in Source |-> IF s \in moved
                      THEN [source[s] EXCEPT !.asset = a] ELSE source[s]]
      /\ placed' = [s \in Source |-> IF s \in moved THEN a ELSE placed[s]]
  BY AssetsTypes
<1>2. /\ asset' \in [Asset -> AssetRow] /\ \A b \in Asset \ {a, a} : asset'[b] = asset[b]
      /\ handled' = handled \cup {a, a} /\ event' = event
  BY AssetsTypes
<1>3. /\ \A q \in Request : request'[q].at = "merge" =>
           request'[q] = request[q] /\ request[q].sources \cap moved = {}
      /\ \A s \in moved : source[s].asset = a
      /\ moved \in SUBSET Source
  OBVIOUS
<1>. HIDE DEF moved
<1>. QED BY <1>1, <1>2, <1>3, PersonCommits

LEMMA AssetsStep ==
  ASSUME AssetsInv, [Assets!Next]_ofAssets
  PROVE  AssetsInv'
<1>1. CASE UNCHANGED ofAssets
  BY <1>1 DEF ofAssets, AssetsInv, Assets!TypeOK, Assets!StaysPlaced, SourceOK, EventOK, MergeOK,
     Holds, Assets!Visible
<1>2. ASSUME NEW a \in Asset, NEW deleted \in BOOLEAN, Assets!SetAssetDeleted(a, deleted)
      PROVE  AssetsInv'
  <2>. DEFINE new == [asset[a] EXCEPT !.gone = deleted,
                        !.status = IF deleted THEN "deleted" ELSE "active"]
  <2>1. /\ asset' = [asset EXCEPT ![a] = new] /\ handled' = handled \cup {a}
        /\ UNCHANGED <<source, event, request, placed>> /\ acts' \in 0..MaxActs
    BY <1>2, Acts DEF Assets!SetAssetDeleted
  <2>2. new \in AssetRow
    BY AssetsTypes DEF AssetRow, Status
  <2>. HIDE DEF new
  <2>. QED BY <2>1, <2>2, AssetsTypes, PersonTouches
<1>3. ASSUME NEW r \in Request, Assets!PatchWrite(r)
      PROVE  AssetsInv'
  <2>. DEFINE t == request[r]
              new == [asset[t.asset] EXCEPT !.status = t.status]
  <2>1. /\ asset' = [asset EXCEPT ![t.asset] = new] /\ handled' = handled \cup {t.asset}
        /\ request' = [request EXCEPT ![r] = Assets!NoRequest]
        /\ UNCHANGED <<source, event, placed, acts>> /\ t \in RequestRow
    BY <1>3, AssetsTypes DEF Assets!PatchWrite
  <2>2. t.asset \in Asset /\ t.status \in Status
    BY <2>1 DEF RequestRow
  <2>3. new \in AssetRow
    BY <2>2, AssetsTypes DEF AssetRow
  <2>4. /\ request' \in [Request -> RequestRow]
        /\ \A q \in Request : request'[q].at = "merge" => request'[q] = request[q]
    BY <2>1, Rest, AssetsTypes
  <2>. HIDE DEF new
  <2>. QED BY <2>1, <2>2, <2>3, <2>4, AssetsTypes, PersonTouches
<1>. QED BY Zenon, <1>1, <1>2, <1>3, AssetsRead, AssetsUpdate, AssetsUpsert, AssetsCount, AssetsRemove,
            AssetsFail, AssetsMergeMove, AssetsMergeCommit, AssetsPatchRead, AssetsSplit
         DEF Assets!Next

(***************************************************************************)
(* upsertRecord, removeRecord, mergeAssets, splitAsset: an asset no person     *)
(* has touched is shown exactly while its source is reported, and a source     *)
(* stays where a person's last merge or split put it, for any number of        *)
(* assets, sources, events, Pods and requests.                               *)
(***************************************************************************)
THEOREM SourcesRepresented == Spec => []RepresentativesSafe
<1>1. Init => AssetsInv
  BY AssetsInitial DEF Init
<1>2. AssetsInv /\ [Next]_vars => AssetsInv'
  BY Zenon, PartsMove, AssetsStep
<1>3. AssetsInv => RepresentativesSafe
  BY DEF AssetsInv, SourceOK, RepresentativesSafe, Assets!RepresentativesSafe,
     Assets!UntouchedIsVisible
<1>. QED BY <1>1, <1>2, <1>3, PTL DEF Spec
-----------------------------------------------------------------------------
(***************************************************************************)
(* The packages of old Agents (ingest/service.go).                          *)
(***************************************************************************)

MigrationRow == [at : {"idle", "begun", "matched", "moved"}, records : SUBSET Package,
                 removes : BOOLEAN, target : Package \cup {Legacy!Old}]

Adopts(t) == t.at = "moved" /\ t.target # Legacy!Old
(* What an event's transaction has found: only a record that agrees with the    *)
(* old source, which nobody has adopted once the transaction has its rows; and   *)
(* before any event has committed, exactly that record.                       *)
MigrationOK(t) ==
  /\ t.at # "idle" => t.records # {} /\ (t.removes => t.records = Package)
  /\ t.at = "begun" => t.target = Legacy!Old
  /\ t.target # Legacy!Old => t.target \in t.records \cap twins
  /\ Adopts(t) => adopted = Legacy!Old /\ t.target \notin fresh
  /\ first = {} /\ t.at \in {"matched", "moved"} => t.target = Legacy!Match(t.records)

LegacyInv ==
  /\ Legacy!TypeOK /\ Legacy!AdoptedByTwin /\ Legacy!TwinKeepsAsset
  /\ \A m \in Migration : MigrationOK(migration[m])
  /\ \A m, n \in Migration : Adopts(migration[m]) /\ Adopts(migration[n]) => m = n
  /\ first = {} => fresh = {} /\ adopted = Legacy!Old /\ ~retired

LEMMA LegacyInitial ==
  ASSUME Legacy!Init
  PROVE  LegacyInv
<1>1. Legacy!TypeOK
  <2>1. Legacy!NoMigration \in MigrationRow
    BY DEF Legacy!NoMigration, MigrationRow
  <2>2. migration \in [Migration -> MigrationRow]
    BY <2>1 DEF Legacy!Init
  <2>3. carried \in 0..MaxCarried /\ twins \subseteq Package /\ adopted = Legacy!Old
    BY LegacyAssumption DEF Legacy!Init
  <2>4. fresh = {} /\ first = {} /\ retired = FALSE
    BY DEF Legacy!Init
  <2>. QED BY <2>2, <2>3, <2>4 DEF Legacy!TypeOK, MigrationRow
<1>2. Legacy!TwinKeepsAsset
  BY <1>1 DEF Legacy!Init, Legacy!TypeOK, Legacy!TwinKeepsAsset
<1>3. \A m \in Migration : MigrationOK(migration[m]) /\ ~Adopts(migration[m])
  BY DEF Legacy!Init, MigrationOK, Adopts, Legacy!NoMigration
<1>. QED BY <1>1, <1>2, <1>3 DEF Legacy!Init, LegacyInv, Legacy!AdoptedByTwin

LEMMA LegacyTypes ==
  ASSUME LegacyInv
  PROVE  /\ migration \in [Migration -> MigrationRow] /\ carried \in 0..MaxCarried
         /\ twins \subseteq Package /\ fresh \subseteq Package /\ first \subseteq Package
         /\ adopted \in Package \cup {Legacy!Old} /\ retired \in BOOLEAN
         /\ Legacy!Old \notin Package
BY LegacyAssumption DEF LegacyInv, Legacy!TypeOK, MigrationRow, Legacy!Old

(* The record that agrees is found, if there is exactly one.                  *)
LEMMA Matched ==
  ASSUME NEW records \in SUBSET Package, twins \subseteq Package
  PROVE  /\ Legacy!Match(records) # Legacy!Old => Legacy!Match(records) \in records \cap twins
         /\ \A p \in Package : records = Package /\ twins = {p} => Legacy!Match(records) = p
<1>. DEFINE sole(p) == records \cap twins = {p}
<1>1. CASE \E p \in records : sole(p)
  <2>1. Legacy!Match(records) = CHOOSE p \in records : sole(p)
    BY <1>1, Zenon DEF Legacy!Match
  <2>2. Legacy!Match(records) \in records /\ sole(Legacy!Match(records))
    BY <1>1, <2>1
  <2>. QED BY <2>2
<1>2. CASE ~\E p \in records : sole(p)
  <2>1. Legacy!Match(records) = Legacy!Old
    BY <1>2, Zenon DEF Legacy!Match
  <2>2. ASSUME NEW p \in Package, records = Package, twins = {p}
        PROVE  FALSE
    BY <1>2, <2>2
  <2>. QED BY <2>1, <2>2
<1>. QED BY <1>1, <1>2

(* A transaction goes on without a commit.                                   *)
LEMMA MigrationMoves ==
  ASSUME LegacyInv, NEW m \in Migration, NEW new \in MigrationRow,
         migration' = [migration EXCEPT ![m] = new], MigrationOK(new),
         Adopts(new) => \A o \in Migration \ {m} : ~Adopts(migration[o]),
         UNCHANGED <<twins, adopted, fresh, retired, first>>, carried' \in 0..MaxCarried
  PROVE  LegacyInv'
<1>1. /\ migration' \in [Migration -> MigrationRow] /\ migration'[m] = new
      /\ \A o \in Migration \ {m} : migration'[o] = migration[o]
  BY LegacyTypes
<1>2. Legacy!TypeOK'
  BY <1>1 DEF LegacyInv, Legacy!TypeOK, MigrationRow
<1>3. \A o \in Migration : MigrationOK(migration[o])'
  <2>1. \A records : Legacy!Match(records)' = Legacy!Match(records)
    BY DEF Legacy!Match
  <2>. QED BY <1>1, <2>1 DEF LegacyInv, MigrationOK, Adopts
<1>4. \A o, n \in Migration : Adopts(migration'[o]) /\ Adopts(migration'[n]) => o = n
  BY <1>1 DEF LegacyInv
<1>. QED BY <1>2, <1>3, <1>4
        DEF LegacyInv, Legacy!AdoptedByTwin, Legacy!TwinKeepsAsset, Adopts

LEMMA LegacyBegin ==
  ASSUME LegacyInv, NEW m \in Migration, NEW records \in SUBSET Package, NEW removes \in BOOLEAN,
         Legacy!Begin(m, records, removes)
  PROVE  LegacyInv'
<1>. DEFINE new == [at |-> "begun", records |-> records, removes |-> removes,
                    target |-> Legacy!Old]
<1>1. /\ migration' = [migration EXCEPT ![m] = new] /\ new \in MigrationRow
      /\ new.at = "begun" /\ new.target = Legacy!Old /\ new.records # {}
      /\ new.removes => new.records = Package
      /\ UNCHANGED <<twins, adopted, fresh, retired, first>>
      /\ carried < MaxCarried /\ carried' = carried + 1
  BY DEF Legacy!Begin, MigrationRow
<1>2. carried' \in 0..MaxCarried
  BY <1>1, LegacyTypes, LegacyAssumption
<1>. HIDE DEF new
<1>. QED BY <1>1, <1>2, MigrationMoves DEF MigrationOK, Adopts

LEMMA LegacyFind ==
  ASSUME LegacyInv, NEW m \in Migration, Legacy!Find(m)
  PROVE  LegacyInv'
<1>. DEFINE t == migration[m]
            new(target) == [t EXCEPT !.at = "matched", !.target = target]
<1>1. /\ t.at = "begun" /\ t \in MigrationRow /\ t.records \in SUBSET Package
      /\ UNCHANGED <<twins, adopted, fresh, retired, first>> /\ carried' \in 0..MaxCarried
  BY LegacyTypes DEF Legacy!Find, MigrationRow
<1>2. PICK target : /\ migration' = [migration EXCEPT ![m] = new(target)]
                    /\ target \in {Legacy!Old, Legacy!Match(t.records)}
                    /\ first = {} => target = Legacy!Match(t.records)
  <2>. DEFINE free == (\A p \in t.records : ~Legacy!Known(p)) /\ adopted = Legacy!Old
              target == IF free THEN Legacy!Match(t.records) ELSE Legacy!Old
  <2>1. migration' = [migration EXCEPT ![m] = new(target)]
    BY DEF Legacy!Find
  <2>2. first = {} => free
    BY <1>1, LegacyTypes DEF LegacyInv, Legacy!Known
  <2>3. target \in {Legacy!Old, Legacy!Match(t.records)}
    BY Zenon
  <2>4. first = {} => target = Legacy!Match(t.records)
    BY Zenon, <2>2
  <2>. HIDE DEF target
  <2>. QED BY <2>1, <2>3, <2>4
<1>3. target # Legacy!Old => target \in t.records \cap twins
  BY <1>1, <1>2, Matched, LegacyTypes
<1>4. target \in Package \cup {Legacy!Old}
  BY <1>1, <1>3
<1>5. /\ new(target) \in MigrationRow /\ new(target).at = "matched" /\ new(target).target = target
      /\ new(target).records = t.records /\ new(target).removes = t.removes
  BY <1>1, <1>4 DEF MigrationRow
<1>6. MigrationOK(t)
  BY DEF LegacyInv
<1>. HIDE DEF new, t
<1>. QED BY <1>1, <1>2, <1>3, <1>5, <1>6, MigrationMoves DEF MigrationOK, Adopts

LEMMA RestingMigration ==
  ASSUME LegacyInv
  PROVE  /\ Legacy!NoMigration \in MigrationRow /\ MigrationOK(Legacy!NoMigration)
         /\ ~Adopts(Legacy!NoMigration)
BY LegacyTypes DEF Legacy!NoMigration, MigrationRow, MigrationOK, Adopts

LEMMA LegacyAdopt ==
  ASSUME LegacyInv, NEW m \in Migration, Legacy!Adopt(m)
  PROVE  LegacyInv'
<1>. DEFINE t == migration[m]
            new == [t EXCEPT !.at = "moved"]
            late == t.target # Legacy!Old /\ (adopted # Legacy!Old \/ t.target \in fresh)
<1>1. /\ t.at = "matched" /\ t \in MigrationRow
      /\ t.target # Legacy!Old => \A o \in Migration : ~Adopts(migration[o])
      /\ migration' = [migration EXCEPT ![m] = IF late THEN Legacy!NoMigration ELSE new]
      /\ UNCHANGED <<twins, adopted, fresh, retired, first>> /\ carried' \in 0..MaxCarried
  BY LegacyTypes DEF Legacy!Adopt, Adopts
<1>2. /\ new \in MigrationRow /\ new.at = "moved" /\ new.target = t.target
      /\ new.records = t.records /\ new.removes = t.removes
  BY <1>1 DEF MigrationRow
<1>3. MigrationOK(t)
  BY DEF LegacyInv
<1>4. CASE late
  <2>1. migration' = [migration EXCEPT ![m] = Legacy!NoMigration]
    BY Zenon, <1>1, <1>4
  <2>. QED BY <1>1, <2>1, RestingMigration, MigrationMoves
<1>5. CASE ~late
  <2>1. migration' = [migration EXCEPT ![m] = new]
    BY Zenon, <1>1, <1>5
  <2>2. t.target # Legacy!Old => adopted = Legacy!Old /\ t.target \notin fresh
    BY <1>5
  <2>. HIDE DEF new, t
  <2>3. MigrationOK(new) /\ (Adopts(new) => t.target # Legacy!Old)
    BY <1>1, <1>2, <1>3, <2>2 DEF MigrationOK, Adopts
  <2>. QED BY <1>1, <1>2, <2>1, <2>3, MigrationMoves
<1>. QED BY <1>4, <1>5

LEMMA LegacyCommit ==
  ASSUME LegacyInv, NEW m \in Migration, Legacy!Commit(m)
  PROVE  LegacyInv'
<1>. DEFINE t == migration[m]
<1>1. /\ t.at = "moved" /\ t \in MigrationRow /\ MigrationOK(t)
      /\ \A o \in Migration \ {m} : migration[o].at = "moved" => migration[o].target \notin t.records
      /\ adopted' = IF t.target # Legacy!Old THEN t.target ELSE adopted
      /\ fresh' = fresh \cup {p \in t.records : adopted' # p}
      /\ retired' = (retired \/ (t.removes /\ adopted' = Legacy!Old))
      /\ first' = IF first = {} THEN t.records ELSE first
      /\ migration' = [migration EXCEPT ![m] = Legacy!NoMigration]
      /\ UNCHANGED <<twins, carried>>
  BY LegacyTypes DEF Legacy!Commit, LegacyInv
<1>2. /\ t.records \in SUBSET Package /\ t.records # {} /\ (t.removes => t.records = Package)
      /\ t.target \in Package \cup {Legacy!Old} /\ t.removes \in BOOLEAN
      /\ t.target # Legacy!Old => t.target \in t.records \cap twins /\ t.target \notin fresh
                                  /\ adopted = Legacy!Old
      /\ first = {} => t.target = Legacy!Match(t.records)
  BY <1>1 DEF MigrationRow, MigrationOK, Adopts
<1>3. /\ migration' \in [Migration -> MigrationRow] /\ migration'[m] = Legacy!NoMigration
      /\ \A o \in Migration \ {m} : migration'[o] = migration[o]
  BY <1>1, LegacyTypes, RestingMigration
<1>. HIDE DEF t
<1>4. Legacy!TypeOK'
  BY <1>1, <1>2, <1>3, LegacyTypes DEF Legacy!TypeOK, MigrationRow
<1>5. first' # {}
  BY <1>1, <1>2
<1>6. Legacy!AdoptedByTwin'
  BY <1>1, <1>2, LegacyTypes DEF LegacyInv, Legacy!AdoptedByTwin
<1>7. Legacy!TwinKeepsAsset'
  <2>1. ASSUME NEW p \in Package, first' = Package, twins = {p}
        PROVE  adopted' = p /\ ~retired'
    <3>1. CASE first = {}
      <4>1. t.records = Package
        BY <1>1, <2>1, <3>1
      <4>2. t.target = p
        BY <1>2, <2>1, <3>1, <4>1, Matched, LegacyTypes
      <4>3. adopted' = p /\ ~retired
        BY <1>1, <2>1, <3>1, <4>2, LegacyTypes DEF LegacyInv
      <4>. QED BY <1>1, <4>3, LegacyTypes
    <3>2. CASE first # {}
      <4>1. adopted = p /\ ~retired
        BY <1>1, <2>1, <3>2 DEF LegacyInv, Legacy!TwinKeepsAsset
      <4>2. adopted' = p
        BY <1>1, <1>2, <2>1, <4>1, LegacyTypes
      <4>. QED BY <1>1, <4>1, <4>2, LegacyTypes
    <3>. QED BY <3>1, <3>2
  <2>. QED BY <1>1, <2>1 DEF Legacy!TwinKeepsAsset
<1>8. ASSUME NEW o \in Migration
      PROVE  MigrationOK(migration[o])'
  <2>1. CASE o = m
    BY <1>3, <2>1, LegacyTypes DEF MigrationOK, Adopts, Legacy!NoMigration
  <2>2. CASE o # m
    <3>1. MigrationOK(migration[o]) /\ migration'[o] = migration[o]
      BY <1>3, <2>2 DEF LegacyInv
    <3>2. Adopts(migration[o]) => t.target = Legacy!Old
      BY <1>1, <2>2 DEF LegacyInv, Adopts, t
    <3>3. Adopts(migration[o]) => adopted' = Legacy!Old /\ migration[o].target \notin fresh'
      BY <1>1, <2>2, <3>1, <3>2 DEF MigrationOK, Adopts
    <3>. QED BY <1>1, <1>5, <3>1, <3>3 DEF MigrationOK, Adopts
  <2>. QED BY <2>1, <2>2
<1>9. \A o, n \in Migration : Adopts(migration'[o]) /\ Adopts(migration'[n]) => o = n
  BY <1>3, RestingMigration DEF LegacyInv
<1>. QED BY <1>4, <1>5, <1>6, <1>7, <1>8, <1>9 DEF LegacyInv, Adopts

LEMMA LegacyStep ==
  ASSUME LegacyInv, [Legacy!Next]_ofLegacy
  PROVE  LegacyInv'
<1>1. CASE UNCHANGED ofLegacy
  BY <1>1 DEF ofLegacy, LegacyInv, Legacy!TypeOK, Legacy!AdoptedByTwin, Legacy!TwinKeepsAsset,
     MigrationOK, Adopts, Legacy!Match
<1>2. ASSUME NEW m \in Migration, Legacy!GiveUp(m)
      PROVE  LegacyInv'
  <2>1. /\ migration' = [migration EXCEPT ![m] = Legacy!NoMigration]
        /\ UNCHANGED <<twins, adopted, fresh, retired, first>> /\ carried' \in 0..MaxCarried
    BY <1>2, LegacyTypes DEF Legacy!GiveUp
  <2>. QED BY <2>1, RestingMigration, MigrationMoves
<1>. QED BY Zenon, <1>1, <1>2, LegacyBegin, LegacyFind, LegacyAdopt, LegacyCommit DEF Legacy!Next
-----------------------------------------------------------------------------
(***************************************************************************)
(* The host and its enrollment (agents/service.go, ingest/service.go).      *)
(***************************************************************************)

HostRow     == [status : {"none", "discovered", "active", "removed"},
                named : {"none", "enrollment", "record"}]
OriginRow   == [asset : HostAsset \cup {Hosts!NoHost}, live : BOOLEAN, order : 0 .. MaxAge]
EnrollRow   == [step : {"rest", "known", "find", "write"}, known : BOOLEAN,
                asset : HostAsset \cup {Hosts!NoHost}, new : BOOLEAN]
ArrivalRow  == [step : {"rest", "find", "write"}, kind : {"upsert", "remove"}, id : SystemId,
                order : 0 .. MaxAge, new : BOOLEAN, asset : HostAsset \cup {Hosts!NoHost}]
Enrolled    == origin["enrollment"].asset

(* What a transaction that is about to write knows is there.                  *)
EnrollOK(t) ==
  t.step = "write" =>
    /\ t.asset \in HostAsset
    /\ ~t.new => t.asset = Enrolled
    /\ t.new => Enrolled = Hosts!NoHost
ArrivalOK(t) ==
  /\ t.step = "find" => t.new
  /\ t.step = "write" => t.asset \in HostAsset /\ (~t.new => Hosts!Exists(t.id))
(* A source that was seen has an asset; an asset named by the inventory is not  *)
(* as an enrollment leaves a new one.                                        *)
SourceNamed(k) == origin[k].live => Hosts!Exists(k)
AssetNamed(a)  == host[a].named = "record" => host[a].status \in {"active", "removed"}
(* After an enrollment as the first contact, every source has its asset.       *)
OneAsset ==
  /\ ~known => /\ \A k \in Hosts!Key : ~Hosts!Exists(k)
               /\ \A v \in HostEvent : arrival[v].step = "rest"
  /\ known => /\ Enrolled # Hosts!NoHost /\ origin["enrollment"].live
              /\ \A i \in SystemId : Hosts!Exists(i) => origin[i].asset = Enrolled
              /\ \A v \in HostEvent : arrival[v].step = "write" => arrival[v].asset = Enrolled

HostsInv ==
  /\ Hosts!TypeOK /\ Hosts!InventoryNames
  /\ \A k \in Hosts!Key : SourceNamed(k)
  /\ \A a \in HostAsset : AssetNamed(a)
  /\ \A e \in Enrollment : EnrollOK(enrollment[e])
  /\ \A e, f \in Enrollment : (/\ enrollment[e].step \in {"find", "write"}
                              /\ enrollment[f].step \in {"find", "write"}) => e = f
  /\ \A v \in HostEvent : ArrivalOK(arrival[v])
  /\ enrolledFirst => OneAsset

LEMMA HostsTypes ==
  ASSUME HostsInv
  PROVE  /\ host \in [HostAsset -> HostRow] /\ origin \in [Hosts!Key -> OriginRow]
         /\ enrollment \in [Enrollment -> EnrollRow] /\ arrival \in [HostEvent -> ArrivalRow]
         /\ known \in BOOLEAN /\ enrolledFirst \in BOOLEAN
         /\ Hosts!NoHost \notin HostAsset /\ Hosts!Key = {"enrollment"} \cup SystemId
         /\ "enrollment" \notin SystemId
BY HostsAssumption DEF HostsInv, Hosts!TypeOK, HostRow, OriginRow, EnrollRow, ArrivalRow,
   Hosts!NoHost, Hosts!Key

LEMMA HostRest ==
  /\ Hosts!Resting \in EnrollRow /\ Hosts!Resting.step = "rest"
  /\ Hosts!NoRecord \in ArrivalRow /\ Hosts!NoRecord.step = "rest"
  /\ Hosts!NoSource \in OriginRow /\ Hosts!NoSource.asset = Hosts!NoHost /\ ~Hosts!NoSource.live
BY HostsAssumption, CacheAssumption
   DEF Hosts!Resting, Hosts!NoRecord, Hosts!NoSource, EnrollRow, ArrivalRow, OriginRow

LEMMA HostsInitial ==
  ASSUME Hosts!Init
  PROVE  HostsInv
<1>. DEFINE oldest == CHOOSE a \in HostAsset : TRUE
            record == CHOOSE j \in SystemId : TRUE
            blank  == [status |-> "none", named |-> "none"]
            seen   == [asset |-> oldest, live |-> TRUE, order |-> 0]
<1>1. /\ enrollment = [e \in Enrollment |-> Hosts!Resting]
      /\ arrival = [v \in HostEvent |-> Hosts!NoRecord]
  BY DEF Hosts!Init
<1>2. /\ oldest \in HostAsset /\ record \in SystemId /\ Hosts!NoHost \notin HostAsset
      /\ Hosts!Key = {"enrollment"} \cup SystemId /\ "enrollment" \notin SystemId
  BY HostsAssumption DEF Hosts!NoHost, Hosts!Key
<1>3. blank \in HostRow /\ [status |-> "active", named |-> "record"] \in HostRow
      /\ seen \in OriginRow
  BY <1>2, CacheAssumption DEF HostRow, OriginRow
<1>4. CASE /\ enrolledFirst = TRUE /\ known = FALSE
           /\ host = [a \in HostAsset |-> blank]
           /\ origin = [k \in Hosts!Key |-> Hosts!NoSource]
  <2>1. Hosts!TypeOK
    BY <1>1, <1>3, <1>4, HostRest DEF Hosts!TypeOK, HostRow, OriginRow, EnrollRow, ArrivalRow
  <2>. QED BY <1>1, <1>2, <1>4, <2>1, HostRest
          DEF HostsInv, Hosts!InventoryNames, SourceNamed, AssetNamed, EnrollOK, ArrivalOK,
              OneAsset, Hosts!Exists
<1>5. CASE /\ enrolledFirst = FALSE /\ known = TRUE
           /\ host = [a \in HostAsset |-> IF a = oldest
                        THEN [status |-> "active", named |-> "record"] ELSE blank]
           /\ origin = [k \in Hosts!Key |-> IF k = record THEN seen ELSE Hosts!NoSource]
  <2>. HIDE DEF oldest, record
  <2>1. Hosts!TypeOK
    BY <1>1, <1>3, <1>5, HostRest DEF Hosts!TypeOK, HostRow, OriginRow, EnrollRow, ArrivalRow
  <2>2. \A k \in Hosts!Key : (Hosts!Exists(k) => k = record) /\ SourceNamed(k)
    BY <1>2, <1>5, HostRest DEF Hosts!Exists, SourceNamed
  <2>3. origin[record].asset = oldest /\ host[oldest].named = "record"
    BY <1>2, <1>5
  <2>4. Hosts!InventoryNames
    BY <1>2, <2>2, <2>3 DEF Hosts!InventoryNames
  <2>. QED BY <1>1, <1>2, <1>5, <2>1, <2>2, <2>4, HostRest
          DEF HostsInv, AssetNamed, EnrollOK, ArrivalOK
<1>. QED BY Zenon, <1>4, <1>5 DEF Hosts!Init

(* An enrollment goes on, and nothing else changes.                          *)
LEMMA EnrollmentMoves ==
  ASSUME HostsInv, NEW e \in Enrollment, NEW new \in EnrollRow,
         enrollment' = [enrollment EXCEPT ![e] = new], EnrollOK(new),
         new.step \in {"find", "write"} =>
           \A f \in Enrollment \ {e} : enrollment[f].step \notin {"find", "write"},
         UNCHANGED <<known, host, origin, arrival, enrolledFirst>>
  PROVE  HostsInv'
<1>1. /\ enrollment' \in [Enrollment -> EnrollRow] /\ enrollment'[e] = new
      /\ \A f \in Enrollment \ {e} : enrollment'[f] = enrollment[f]
  BY HostsTypes
<1>2. Hosts!TypeOK'
  BY <1>1 DEF HostsInv, Hosts!TypeOK, EnrollRow
<1>3. \A f \in Enrollment : EnrollOK(enrollment[f])'
  BY <1>1 DEF HostsInv, EnrollOK, Enrolled
<1>. QED BY <1>1, <1>2, <1>3
        DEF HostsInv, Hosts!InventoryNames, SourceNamed, AssetNamed, ArrivalOK, OneAsset, Enrolled,
            Hosts!Exists

(* An event goes on, and nothing else changes.                               *)
LEMMA ArrivalMoves ==
  ASSUME HostsInv, NEW v \in HostEvent, NEW new \in ArrivalRow,
         arrival' = [arrival EXCEPT ![v] = new], ArrivalOK(new),
         enrolledFirst => known /\ (new.step = "write" => new.asset = Enrolled),
         UNCHANGED <<known, host, origin, enrollment, enrolledFirst>>
  PROVE  HostsInv'
<1>1. /\ arrival' \in [HostEvent -> ArrivalRow] /\ arrival'[v] = new
      /\ \A w \in HostEvent \ {v} : arrival'[w] = arrival[w]
  BY HostsTypes
<1>2. Hosts!TypeOK'
  BY <1>1 DEF HostsInv, Hosts!TypeOK, ArrivalRow
<1>3. \A w \in HostEvent : ArrivalOK(arrival[w])'
  BY <1>1 DEF HostsInv, ArrivalOK, Hosts!Exists
<1>4. (enrolledFirst => OneAsset)'
  BY <1>1 DEF HostsInv, OneAsset, Enrolled, Hosts!Exists
<1>. QED BY <1>1, <1>2, <1>3, <1>4
        DEF HostsInv, Hosts!InventoryNames, SourceNamed, AssetNamed, EnrollOK, Enrolled, Hosts!Exists
LEMMA HostLook ==
  ASSUME HostsInv, NEW e \in Enrollment, Hosts!Look(e) \/ Hosts!TakeAgent(e) \/ Hosts!EnrollFails(e)
  PROVE  HostsInv'
<1>. DEFINE looked == [Hosts!Resting EXCEPT !.step = "known", !.known = known]
            taken  == [enrollment[e] EXCEPT !.step = "find"]
<1>1. /\ UNCHANGED <<known, host, origin, arrival, enrolledFirst>>
      /\ \E new \in {looked, taken, Hosts!Resting} :
           /\ enrollment' = [enrollment EXCEPT ![e] = new]
           /\ new = taken => \A f \in Enrollment : enrollment[f].step \notin {"find", "write"}
  <2>1. CASE Hosts!Look(e)
    <3>1. looked.step # "find" /\ taken.step = "find"
      BY HostRest, HostsTypes DEF EnrollRow
    <3>. HIDE DEF looked, taken
    <3>2. enrollment' = [enrollment EXCEPT ![e] = looked]
      BY <2>1, Zenon DEF Hosts!Look, looked
    <3>. QED BY <2>1, <3>1, <3>2 DEF Hosts!Look
  <2>2. CASE Hosts!TakeAgent(e)
    <3>1. enrollment' = [enrollment EXCEPT ![e] = IF known /\ ~enrollment[e].known
                                                  THEN Hosts!Resting ELSE taken]
      BY <2>2, Zenon DEF Hosts!TakeAgent
    <3>2. /\ UNCHANGED <<known, host, origin, arrival, enrolledFirst>>
          /\ \A f \in Enrollment : enrollment[f].step \notin {"find", "write"}
      BY <2>2, Zenon DEF Hosts!TakeAgent
    <3>. HIDE DEF looked, taken
    <3>. QED BY <3>1, <3>2
  <2>3. CASE Hosts!EnrollFails(e)
    <3>1. Hosts!Resting.step = "rest" /\ taken.step = "find"
      BY HostRest, HostsTypes DEF EnrollRow
    <3>2. /\ enrollment' = [enrollment EXCEPT ![e] = Hosts!Resting]
          /\ UNCHANGED <<known, host, origin, arrival, enrolledFirst>>
      BY <2>3, Zenon DEF Hosts!EnrollFails
    <3>. HIDE DEF looked, taken
    <3>. QED BY <3>1, <3>2
  <2>. QED BY <2>1, <2>2, <2>3
<1>2. /\ looked \in EnrollRow /\ looked.step = "known" /\ taken \in EnrollRow /\ taken.step = "find"
  BY HostRest, HostsTypes DEF EnrollRow
<1>. HIDE DEF looked, taken
<1>. QED BY <1>1, <1>2, HostRest, EnrollmentMoves DEF EnrollOK

LEMMA HostFind ==
  ASSUME HostsInv, NEW e \in Enrollment, Hosts!Find(e)
  PROVE  HostsInv'
<1>. DEFINE t == enrollment[e]
            found(a, new) == [t EXCEPT !.step = "write", !.asset = a, !.new = new]
<1>1. PICK a \in HostAsset, new \in BOOLEAN :
        /\ enrollment' = [enrollment EXCEPT ![e] = found(a, new)]
        /\ Hosts!Exists("enrollment") => a = Enrolled /\ ~new
        /\ ~Hosts!Exists("enrollment") => new
  BY Zenon DEF Hosts!Find, Enrolled
<1>2. /\ t.step = "find" /\ UNCHANGED <<known, host, origin, arrival, enrolledFirst>>
      /\ \A f \in Enrollment \ {e} : enrollment[f].step \notin {"find", "write"}
  BY DEF Hosts!Find, HostsInv
<1>3. /\ found(a, new) \in EnrollRow /\ found(a, new).step = "write"
      /\ found(a, new).asset = a /\ found(a, new).new = new
  BY HostsTypes DEF EnrollRow
<1>. HIDE DEF found
<1>4. EnrollOK(found(a, new))
  BY <1>1, <1>3 DEF EnrollOK, Hosts!Exists, Enrolled
<1>. QED BY <1>1, <1>2, <1>3, <1>4, EnrollmentMoves

LEMMA HostEnroll ==
  ASSUME HostsInv, NEW e \in Enrollment, Hosts!Enroll(e)
  PROVE  HostsInv'
<1>. DEFINE t == enrollment[e]
            row1 == IF ~ t.new THEN Hosts!Refreshed(host[t.asset])
                    ELSE IF Hosts!Unused(t.asset) THEN Hosts!Discovered ELSE host[t.asset]
            new  == [origin["enrollment"] EXCEPT !.asset = t.asset, !.live = TRUE]
<1>1. /\ t.step = "write" /\ known' = TRUE /\ UNCHANGED <<arrival, enrolledFirst>>
      /\ enrollment' = [enrollment EXCEPT ![e] = Hosts!Resting]
      /\ t \in EnrollRow /\ EnrollOK(t)
  BY HostsTypes DEF Hosts!Enroll, HostsInv
<1>2. origin' = [origin EXCEPT !["enrollment"] = new] /\ host' = [host EXCEPT ![t.asset] = row1]
  BY DEF Hosts!Enroll
<1>3. t.asset \in HostAsset /\ host[t.asset] \in HostRow /\ AssetNamed(t.asset)
  BY <1>1, HostsTypes DEF EnrollOK, HostsInv
<1>4. /\ row1 \in HostRow /\ (row1.named = "record" => row1.status \in {"active", "removed"})
      /\ row1.named = "record" <=> host[t.asset].named = "record"
  <2>1. /\ Hosts!Discovered \in HostRow /\ Hosts!Discovered.named = "enrollment"
        /\ Hosts!Refreshed(host[t.asset]) \in HostRow
        /\ \/ Hosts!Refreshed(host[t.asset]) = host[t.asset]
           \/ /\ Hosts!Refreshed(host[t.asset]).named = "enrollment"
              /\ host[t.asset].status = "discovered"
    BY <1>3 DEF Hosts!Discovered, Hosts!Refreshed, HostRow
  <2>2. Hosts!Unused(t.asset) <=> host[t.asset].status = "none"
    BY DEF Hosts!Unused
  <2>3. row1 \in {Hosts!Refreshed(host[t.asset]), Hosts!Discovered, host[t.asset]}
        /\ (row1 = Hosts!Discovered => row1 = Hosts!Refreshed(host[t.asset]) \/ Hosts!Unused(t.asset)
                                       \/ row1 = host[t.asset])
    BY Zenon
  <2>. HIDE DEF row1
  <2>. QED BY <1>3, <2>1, <2>2, <2>3 DEF AssetNamed
<1>5. new \in OriginRow /\ new.asset = t.asset /\ new.live
  BY <1>3, HostsTypes DEF OriginRow
<1>. HIDE DEF row1, new
<1>6. /\ host' \in [HostAsset -> HostRow] /\ origin' \in [Hosts!Key -> OriginRow]
      /\ enrollment' \in [Enrollment -> EnrollRow]
      /\ enrollment'[e] = Hosts!Resting /\ \A f \in Enrollment \ {e} : enrollment'[f] = enrollment[f]
      /\ host'[t.asset] = row1 /\ \A a \in HostAsset \ {t.asset} : host'[a] = host[a]
      /\ origin'["enrollment"] = new /\ \A i \in SystemId : origin'[i] = origin[i]
  BY <1>1, <1>2, <1>3, <1>4, <1>5, HostsTypes, HostRest
<1>. HIDE DEF t
<1>7. Hosts!TypeOK'
  BY <1>1, <1>6, HostsTypes DEF Hosts!TypeOK, HostRow, OriginRow, EnrollRow, ArrivalRow
<1>8. \A a \in HostAsset : AssetNamed(a)' /\ (host[a].named = "record" => host'[a].named = "record")
  BY <1>4, <1>6 DEF HostsInv, AssetNamed
<1>9. Hosts!InventoryNames'
  <2>1. \A i \in SystemId : Hosts!Exists(i) => origin[i].asset \in HostAsset
    BY HostsTypes DEF OriginRow, Hosts!Exists
  <2>. QED BY <1>6, <1>8, <2>1 DEF HostsInv, Hosts!InventoryNames, Hosts!Exists
<1>10. \A k \in Hosts!Key : SourceNamed(k)'
  BY <1>3, <1>5, <1>6, HostsTypes DEF HostsInv, SourceNamed, Hosts!Exists
<1>11. \A f \in Enrollment : f # e => enrollment[f].step \notin {"find", "write"}
  BY <1>1 DEF HostsInv, t
<1>12. (\A f \in Enrollment : EnrollOK(enrollment[f]))'
  BY <1>6, <1>11, HostRest DEF EnrollOK
<1>13. ASSUME NEW v \in HostEvent
       PROVE  ArrivalOK(arrival[v])'
  <2>1. arrival[v].id \in SystemId /\ ArrivalOK(arrival[v])
    BY HostsTypes DEF ArrivalRow, HostsInv
  <2>. QED BY <1>1, <1>6, <2>1 DEF ArrivalOK, Hosts!Exists
<1>14. (enrolledFirst => OneAsset)'
  <2>1. Enrolled # Hosts!NoHost => Enrolled = t.asset
    BY <1>1 DEF EnrollOK
  <2>2. Enrolled' = t.asset /\ origin'["enrollment"].live /\ t.asset # Hosts!NoHost
    BY <1>3, <1>5, <1>6, HostsTypes DEF Enrolled
  <2>3. SystemId \subseteq Hosts!Key
    BY HostsTypes
  <2>. QED BY <1>1, <1>6, <2>1, <2>2, <2>3 DEF HostsInv, OneAsset, Hosts!Exists
<1>. QED BY <1>6, <1>7, <1>8, <1>9, <1>10, <1>11, <1>12, <1>13, <1>14, HostRest DEF HostsInv
(* An event is known of only once the Agent is.                              *)
LEMMA Arrived ==
  ASSUME HostsInv, NEW v \in HostEvent, arrival[v].step # "rest" \/ known
  PROVE  enrolledFirst => known
BY DEF HostsInv, OneAsset, Hosts!TypeOK

LEMMA HostRead ==
  ASSUME HostsInv, NEW v \in HostEvent, NEW kind \in {"upsert", "remove"}, NEW i \in SystemId,
         NEW n \in 1 .. MaxAge, Hosts!Read(v, kind, i, n)
  PROVE  HostsInv'
<1>. DEFINE fresh1 == ~Hosts!Exists(i)
            step1  == IF Hosts!Exists(i) THEN "write" ELSE "find"
            new == [Hosts!NoRecord EXCEPT !.kind = kind, !.id = i, !.order = n, !.new = fresh1,
                      !.asset = origin[i].asset, !.step = step1]
<1>1. /\ known /\ arrival' = [arrival EXCEPT ![v] = new]
      /\ UNCHANGED <<known, host, origin, enrollment, enrolledFirst>>
  BY Zenon DEF Hosts!Read
<1>2. /\ fresh1 \in BOOLEAN /\ step1 \in {"find", "write"}
      /\ step1 = "write" <=> Hosts!Exists(i)
      /\ step1 = "write" <=> ~fresh1
  BY DEF Hosts!Exists
<1>3. n \in 0 .. MaxAge /\ origin[i] \in OriginRow
  BY HostsTypes, CacheAssumption
<1>. HIDE DEF fresh1, step1
<1>4. /\ new \in ArrivalRow /\ new.step = step1 /\ new.new = fresh1 /\ new.id = i
      /\ new.asset = origin[i].asset
  BY <1>2, <1>3, HostRest DEF ArrivalRow, OriginRow
<1>. HIDE DEF new
<1>5. ArrivalOK(new)
  BY <1>2, <1>3, <1>4 DEF ArrivalOK, OriginRow, Hosts!Exists
<1>6. enrolledFirst => known /\ (new.step = "write" => new.asset = Enrolled)
  BY <1>1, <1>2, <1>4 DEF HostsInv, OneAsset
<1>. QED BY <1>1, <1>4, <1>5, <1>6, ArrivalMoves

LEMMA HostFindEnrollment ==
  ASSUME HostsInv, NEW v \in HostEvent, Hosts!FindEnrollment(v)
  PROVE  HostsInv'
<1>. DEFINE t == arrival[v]
            found(a) == [t EXCEPT !.step = "write", !.asset = a]
<1>1. PICK a \in HostAsset :
        /\ arrival' = [arrival EXCEPT ![v] = found(a)]
        /\ origin["enrollment"].live => a = Enrolled
  BY Zenon DEF Hosts!FindEnrollment, Enrolled
<1>2. /\ t.step = "find" /\ UNCHANGED <<known, host, origin, enrollment, enrolledFirst>>
      /\ ArrivalOK(t) /\ t \in ArrivalRow
  BY HostsTypes DEF Hosts!FindEnrollment, HostsInv
<1>3. /\ found(a) \in ArrivalRow /\ found(a).step = "write" /\ found(a).asset = a /\ found(a).new
  BY <1>2 DEF ArrivalRow, ArrivalOK
<1>. HIDE DEF found
<1>4. ArrivalOK(found(a))
  BY <1>1, <1>3 DEF ArrivalOK
<1>5. enrolledFirst => known /\ a = Enrolled
  BY <1>1, <1>2, Arrived DEF HostsInv, OneAsset
<1>. QED BY <1>1, <1>2, <1>3, <1>4, <1>5, ArrivalMoves

(* An event commits: its source is written, of the asset the event found.       *)
LEMMA ArrivalEnds ==
  ASSUME HostsInv, NEW v \in HostEvent, NEW i \in SystemId, NEW new \in OriginRow,
         arrival' = [arrival EXCEPT ![v] = Hosts!NoRecord],
         origin' = [origin EXCEPT ![i] = new],
         new.asset \in HostAsset, Hosts!Exists(i) => new.asset = origin[i].asset,
         host' \in [HostAsset -> HostRow],
         \A a \in HostAsset : /\ host[a].named = "record" => host'[a].named = "record"
                              /\ host'[a].named = "record" => host'[a].status \in {"active", "removed"},
         host'[new.asset].named = "record",
         enrolledFirst => known /\ new.asset = Enrolled,
         UNCHANGED <<known, enrollment, enrolledFirst>>
  PROVE  HostsInv'
<1>1. /\ arrival' \in [HostEvent -> ArrivalRow] /\ arrival'[v] = Hosts!NoRecord
      /\ \A w \in HostEvent \ {v} : arrival'[w] = arrival[w]
      /\ origin' \in [Hosts!Key -> OriginRow] /\ origin'[i] = new
      /\ \A k \in Hosts!Key \ {i} : origin'[k] = origin[k]
      /\ i # "enrollment" /\ "enrollment" \in Hosts!Key /\ SystemId \subseteq Hosts!Key
  BY HostsTypes, HostRest
<1>2. Hosts!TypeOK'
  BY <1>1, HostsTypes DEF Hosts!TypeOK, HostRow, OriginRow, EnrollRow, ArrivalRow
<1>3. \A k \in Hosts!Key : Hosts!Exists(k) => Hosts!Exists(k)'
  BY <1>1, HostsTypes DEF Hosts!Exists
<1>4. Hosts!InventoryNames'
  <2>1. ASSUME NEW j \in SystemId, origin'[j].asset # Hosts!NoHost
        PROVE  host'[origin'[j].asset].named = "record"
    <3>1. CASE j = i
      BY <1>1, <3>1
    <3>2. CASE j # i
      <4>1. origin'[j] = origin[j] /\ origin[j] \in OriginRow
        BY <1>1, <3>2, HostsTypes
      <4>2. origin[j].asset \in HostAsset /\ host[origin[j].asset].named = "record"
        BY <2>1, <4>1 DEF OriginRow, HostsInv, Hosts!InventoryNames, Hosts!Exists
      <4>. QED BY <4>1, <4>2
    <3>. QED BY <3>1, <3>2
  <2>. QED BY <2>1 DEF Hosts!InventoryNames, Hosts!Exists
<1>5. \A k \in Hosts!Key : SourceNamed(k)'
  BY <1>1, HostsTypes DEF HostsInv, SourceNamed, Hosts!Exists
<1>6. Enrolled' = Enrolled /\ origin'["enrollment"] = origin["enrollment"]
  BY <1>1 DEF Enrolled
<1>7. \A e \in Enrollment : EnrollOK(enrollment[e])'
  BY <1>6 DEF HostsInv, EnrollOK
<1>8. ASSUME NEW w \in HostEvent
      PROVE  ArrivalOK(arrival[w])'
  <2>1. arrival[w].id \in Hosts!Key /\ ArrivalOK(arrival[w])
    BY <1>1, HostsTypes DEF ArrivalRow, HostsInv
  <2>. QED BY <1>1, <1>3, <2>1, HostRest DEF ArrivalOK
<1>9. (enrolledFirst => OneAsset)'
  BY <1>1, <1>6, HostsTypes, HostRest DEF HostsInv, OneAsset, Hosts!Exists
<1>10. \A a \in HostAsset : AssetNamed(a)'
  BY DEF AssetNamed
<1>. QED BY <1>2, <1>4, <1>5, <1>7, <1>8, <1>9, <1>10 DEF HostsInv

(* An event that leaves its source alone ends.                               *)
LEMMA ArrivalLate ==
  ASSUME HostsInv, NEW v \in HostEvent, arrival[v].step = "write",
         arrival' = [arrival EXCEPT ![v] = Hosts!NoRecord],
         UNCHANGED <<known, host, origin, enrollment, enrolledFirst>>
  PROVE  HostsInv'
BY HostRest, Arrived, ArrivalMoves DEF ArrivalOK

LEMMA HostUpsert ==
  ASSUME HostsInv, NEW v \in HostEvent, Hosts!Upsert(v)
  PROVE  HostsInv'
<1>. DEFINE t     == arrival[v]
            named == [status |-> "active", named |-> "record"]
            first1 == [asset |-> t.asset, live |-> TRUE, order |-> t.order]
            again == [origin[t.id] EXCEPT !.live = TRUE, !.order = t.order]
<1>1. /\ t.step = "write" /\ t \in ArrivalRow /\ ArrivalOK(t)
      /\ arrival' = [arrival EXCEPT ![v] = Hosts!NoRecord]
      /\ UNCHANGED <<known, enrollment, enrolledFirst>>
  BY HostsTypes DEF Hosts!Upsert, HostsInv
<1>2. t.asset \in HostAsset /\ t.id \in SystemId /\ t.order \in 0 .. MaxAge
  BY <1>1 DEF ArrivalRow, ArrivalOK
<1>3. enrolledFirst => known /\ t.asset = Enrolled
  BY <1>1, Arrived DEF HostsInv, OneAsset
<1>4. /\ first1 \in OriginRow /\ first1.asset = t.asset
      /\ again \in OriginRow /\ again.asset = origin[t.id].asset
  BY <1>2, HostsTypes DEF OriginRow
<1>. HIDE DEF first1, again
<1>5. ASSUME host' = [host EXCEPT ![t.asset] = named]
      PROVE  /\ host' \in [HostAsset -> HostRow]
             /\ \A a \in HostAsset :
                  /\ host[a].named = "record" => host'[a].named = "record"
                  /\ host'[a].named = "record" => host'[a].status \in {"active", "removed"}
             /\ host'[t.asset].named = "record"
  <2>1. named \in HostRow /\ named.named = "record" /\ named.status = "active"
    BY DEF HostRow
  <2>. HIDE DEF named, t
  <2>2. /\ host' \in [HostAsset -> HostRow] /\ host'[t.asset] = named
        /\ \A a \in HostAsset \ {t.asset} : host'[a] = host[a]
    BY <1>2, <1>5, <2>1, HostsTypes
  <2>. QED BY <2>1, <2>2 DEF HostsInv, AssetNamed
<1>6. CASE /\ ~Hosts!Exists(t.id) /\ origin' = [origin EXCEPT ![t.id] = first1]
           /\ host' = [host EXCEPT ![t.asset] = named]
  <2>. HIDE DEF named, t
  <2>. QED BY <1>1, <1>2, <1>3, <1>4, <1>5, <1>6, ArrivalEnds DEF t
<1>7. CASE /\ ~t.new /\ origin' = [origin EXCEPT ![t.id] = again]
           /\ host' = [host EXCEPT ![t.asset] = named] \/ UNCHANGED host
  <2>1. Hosts!Exists(t.id)
    BY <1>1, <1>7 DEF ArrivalOK
  <2>2. /\ again.asset \in HostAsset /\ host[again.asset].named = "record"
        /\ enrolledFirst => again.asset = Enrolled
    BY <1>2, <1>3, <1>4, <2>1 DEF HostsInv, Hosts!InventoryNames, OneAsset, Hosts!Exists, OriginRow
  <2>3. /\ host' \in [HostAsset -> HostRow]
        /\ \A a \in HostAsset :
             /\ host[a].named = "record" => host'[a].named = "record"
             /\ host'[a].named = "record" => host'[a].status \in {"active", "removed"}
    <3>1. CASE UNCHANGED host
      BY <3>1, HostsTypes DEF HostsInv, AssetNamed
    <3>. QED BY <1>5, <1>7, <3>1
  <2>4. host'[again.asset].named = "record"
    BY <2>2, <2>3
  <2>. HIDE DEF named, t
  <2>. QED BY <1>1, <1>2, <1>3, <1>4, <1>7, <2>2, <2>3, <2>4, ArrivalEnds DEF t
<1>8. CASE UNCHANGED <<origin, host>>
  BY <1>1, <1>8, ArrivalLate
<1>. QED
  <2>1. \/ /\ t.new /\ ~Hosts!Exists(t.id) /\ origin' = [origin EXCEPT ![t.id] = first1]
           /\ host' = [host EXCEPT ![t.asset] = named]
        \/ /\ ~t.new /\ origin' = [origin EXCEPT ![t.id].live = TRUE, ![t.id].order = t.order]
           /\ host' = [host EXCEPT ![t.asset] = named] \/ UNCHANGED host
        \/ UNCHANGED <<origin, host>>
    BY Zenon DEF Hosts!Upsert, first1
  <2>2. origin' = [origin EXCEPT ![t.id].live = TRUE, ![t.id].order = t.order]
          => origin' = [origin EXCEPT ![t.id] = again]
    BY <1>2, HostsTypes DEF again
  <2>. QED BY Zenon, <1>6, <1>7, <1>8, <2>1, <2>2

LEMMA HostRemove ==
  ASSUME HostsInv, NEW v \in HostEvent, Hosts!Remove(v)
  PROVE  HostsInv'
<1>. DEFINE t    == arrival[v]
            out  == [origin[t.id] EXCEPT !.live = FALSE, !.order = t.order]
            gone == [host[t.asset] EXCEPT !.status = "removed"]
<1>1. /\ t.step = "write" /\ t \in ArrivalRow /\ ArrivalOK(t)
      /\ arrival' = [arrival EXCEPT ![v] = Hosts!NoRecord]
      /\ UNCHANGED <<known, enrollment, enrolledFirst>>
  BY HostsTypes DEF Hosts!Remove, HostsInv
<1>2. t.asset \in HostAsset /\ t.id \in SystemId /\ t.order \in 0 .. MaxAge
  BY <1>1 DEF ArrivalRow, ArrivalOK
<1>3. \/ /\ origin[t.id].live /\ origin' = [origin EXCEPT ![t.id] = out]
         /\ host' = host \/ host' = [host EXCEPT ![t.asset] = gone]
      \/ UNCHANGED <<origin, host>>
  <2>1. \/ /\ origin[t.id].live
           /\ origin' = [origin EXCEPT ![t.id].live = FALSE, ![t.id].order = t.order]
           /\ host' = host \/ host' = [host EXCEPT ![t.asset].status = "removed"]
        \/ UNCHANGED <<origin, host>>
    BY Zenon DEF Hosts!Remove
  <2>. QED BY <1>2, <2>1, HostsTypes
<1>4. CASE UNCHANGED <<origin, host>>
  BY <1>1, <1>4, ArrivalLate
<1>5. CASE /\ origin[t.id].live /\ origin' = [origin EXCEPT ![t.id] = out]
           /\ host' = host \/ host' = [host EXCEPT ![t.asset] = gone]
  <2>1. Hosts!Exists(t.id)
    BY <1>2, <1>5, HostsTypes DEF HostsInv, SourceNamed
  <2>2. out \in OriginRow /\ out.asset = origin[t.id].asset
    BY <1>2, HostsTypes DEF OriginRow
  <2>3. /\ gone \in HostRow /\ gone.status = "removed" /\ gone.named = host[t.asset].named
    BY <1>2, HostsTypes DEF HostRow
  <2>. HIDE DEF out, gone
  <2>4. /\ out.asset \in HostAsset /\ host[out.asset].named = "record"
        /\ enrolledFirst => known /\ out.asset = Enrolled
    BY <1>1, <1>2, <2>1, <2>2, Arrived
       DEF HostsInv, Hosts!InventoryNames, OneAsset, Hosts!Exists, OriginRow
  <2>5. /\ host' \in [HostAsset -> HostRow]
        /\ \A a \in HostAsset : host'[a] = host[a] \/ (a = t.asset /\ host'[a] = gone)
    BY <1>2, <1>5, <2>3, HostsTypes
  <2>6. \A a \in HostAsset :
          /\ host[a].named = "record" => host'[a].named = "record"
          /\ host'[a].named = "record" => host'[a].status \in {"active", "removed"}
    BY <2>3, <2>5 DEF HostsInv, AssetNamed
  <2>7. host'[out.asset].named = "record"
    BY <2>4, <2>6
  <2>8. PICK i \in SystemId : i = t.id
    BY <1>2
  <2>9. origin' = [origin EXCEPT ![i] = out] /\ (Hosts!Exists(i) => out.asset = origin[i].asset)
    BY <1>5, <2>2, <2>8
  <2>. QED BY Zenon, <1>1, <2>2, <2>4, <2>5, <2>6, <2>7, <2>9, ArrivalEnds
<1>. QED BY <1>3, <1>4, <1>5

LEMMA HostsStep ==
  ASSUME HostsInv, [Hosts!Next]_ofHosts
  PROVE  HostsInv'
<1>1. CASE UNCHANGED ofHosts
  BY <1>1 DEF ofHosts, HostsInv, Hosts!TypeOK, Hosts!InventoryNames, SourceNamed, AssetNamed,
     EnrollOK, ArrivalOK, OneAsset, Enrolled, Hosts!Exists
<1>. QED BY Zenon, <1>1, HostLook, HostFind, HostEnroll, HostRead, HostFindEnrollment, HostUpsert,
            HostRemove DEF Hosts!Next

(* The sizes that the module of the hosts speaks of are sizes.                *)
LEMMA HostsCount ==
  ASSUME NEW S
  PROVE  Hosts!Cardinality(S) = Cardinality(S)
BY Zenon DEF Cardinality, Hosts!Cardinality

(* The live sources of a host that was enrolled first have one asset.          *)
LEMMA HostsAreSafe ==
  ASSUME HostsInv
  PROVE  Hosts!OneHostAsset /\ Hosts!InventoryNames
<1>1. ASSUME enrolledFirst
      PROVE  Cardinality(Hosts!HostAssets) <= 1
  <2>1. Hosts!HostAssets \subseteq {Enrolled}
    <3>1. ASSUME NEW k \in Hosts!Key, origin[k].live
          PROVE  origin[k].asset = Enrolled
      BY <1>1, <3>1, HostsTypes DEF HostsInv, OneAsset, SourceNamed, Enrolled
    <3>. QED BY <3>1 DEF Hosts!HostAssets
  <2>2. IsFiniteSet({Enrolled}) /\ Cardinality({Enrolled}) = 1
    BY FS_Singleton
  <2>. QED BY <2>1, <2>2, FS_Subset
<1>2. Hosts!OneHostAsset
  BY <1>1, HostsCount DEF Hosts!OneHostAsset
<1>. QED BY <1>2 DEF HostsInv

(***************************************************************************)
(* ensureEnrollmentAsset, upsertRecord, migrateLegacyPackageSources: a host     *)
(* that was enrolled first has one asset for ever and keeps the name its        *)
(* inventory gave it, an old package is adopted by its twin and by no other,     *)
(* for any number of enrollments, events, Pods, system records and packages.    *)
(***************************************************************************)
THEOREM IdentitiesKept == Spec => []IdentitySafe
<1>1. Init => HostsInv /\ LegacyInv
  BY HostsInitial, LegacyInitial DEF Init
<1>2. HostsInv /\ LegacyInv /\ [Next]_vars => (HostsInv /\ LegacyInv)'
  BY Zenon, PartsMove, HostsStep, LegacyStep
<1>3. HostsInv /\ LegacyInv => IdentitySafe
  BY HostsAreSafe DEF LegacyInv, IdentitySafe
<1>. QED BY <1>1, <1>2, <1>3, PTL DEF Spec
-----------------------------------------------------------------------------
(***************************************************************************)
(* Products (softwarecatalog/reconcile.go).                                 *)
(***************************************************************************)

ProductRow == [row : {"none", "live", "retired"}, asset : Agent, view : SUBSET Evidence]
WorkRow    == [at : {"idle", "applied", "reserved", "loaded"}, agent : Agent, heartbeat : BOOLEAN,
               version : {0} \cup Version, change : SUBSET Evidence, seen : SUBSET Evidence,
               asset : Agent]

(* The transaction holds its Agent's marker.                                 *)
Reserves(t) == t.at \in {"reserved", "loaded"}
(* An asset is its own host's, unless a person merged the products of both.     *)
Own(g, a) == a = g \/ (g \in merged /\ a \in merged)
(* What the transaction that holds the marker has read is still so.            *)
WorkOK(t) ==
  /\ Reserves(t) /\ t.heartbeat => marker[t.agent] # t.version
  /\ t.at = "loaded" => /\ t.seen = Product!Toggled(evidence[t.agent], t.change)
                        /\ Own(t.agent, t.asset)

ProductsInv ==
  /\ Product!TypeOK /\ Product!ViewIsCurrent /\ Product!BackfillOnce /\ Product!ProjectionAgrees
  /\ \A g \in Agent : Own(g, product[g].asset)
  /\ \A r \in projection : Own(r.agent, r.asset)
  /\ \A w \in Work : WorkOK(work[w])
  /\ \A w, o \in Work :
       (Reserves(work[w]) /\ Reserves(work[o]) /\ work[w].agent = work[o].agent) => w = o

LEMMA ProductsTypes ==
  ASSUME ProductsInv
  PROVE  /\ evidence \in [Agent -> SUBSET Evidence] /\ product \in [Agent -> ProductRow]
         /\ projection \subseteq [asset : Agent, agent : Agent]
         /\ marker \in [Agent -> {0} \cup Version] /\ work \in [Work -> WorkRow]
         /\ began \in 0..MaxWork /\ merged \subseteq Agent
         /\ refused \in BOOLEAN /\ repeated = FALSE
BY DEF ProductsInv, Product!TypeOK, ProductRow, WorkRow, Product!BackfillOnce

LEMMA RestingWork ==
  Product!NoWork \in WorkRow /\ Product!NoWork.at = "idle"
BY ProductAssumption DEF Product!NoWork, Product!Someone, WorkRow

LEMMA ProductsInitial ==
  ASSUME Product!Init
  PROVE  ProductsInv
<1>1. /\ evidence = [g \in Agent |-> Evidence]
      /\ product = [g \in Agent |-> [row |-> "none", asset |-> g, view |-> {}]]
      /\ projection = {} /\ marker = [g \in Agent |-> 0]
      /\ work = [w \in Work |-> Product!NoWork] /\ began = 0
      /\ merged = {} /\ refused = FALSE /\ repeated = FALSE
  BY DEF Product!Init
<1>2. 0 \in 0..MaxWork /\ product \in [Agent -> ProductRow]
  BY <1>1, ProductAssumption DEF ProductRow
<1>3. Product!TypeOK
  BY <1>1, <1>2, RestingWork DEF Product!TypeOK, ProductRow, WorkRow
<1>. QED BY <1>1, <1>3, RestingWork
        DEF ProductsInv, Product!ViewIsCurrent, Product!BackfillOnce, Product!ProjectionAgrees,
            Own, WorkOK, Reserves

(* A transaction goes on, and nothing else changes.                          *)
LEMMA WorkMoves ==
  ASSUME ProductsInv, NEW w \in Work, NEW new \in WorkRow,
         work' = [work EXCEPT ![w] = new], WorkOK(new),
         Reserves(new) => \A o \in Work \ {w} :
           ~(Reserves(work[o]) /\ work[o].agent = new.agent),
         UNCHANGED <<evidence, product, projection, marker, merged, repeated>>,
         began' \in 0..MaxWork, refused' \in BOOLEAN
  PROVE  ProductsInv'
<1>1. /\ work' \in [Work -> WorkRow] /\ work'[w] = new
      /\ \A o \in Work \ {w} : work'[o] = work[o]
  BY ProductsTypes
<1>2. Product!TypeOK'
  BY <1>1 DEF ProductsInv, Product!TypeOK, WorkRow
<1>3. \A o \in Work : WorkOK(work[o])'
  <2>1. \A S, T : Product!Toggled(S, T)' = Product!Toggled(S, T)
    BY DEF Product!Toggled
  <2>. QED BY <1>1 DEF ProductsInv, WorkOK, Reserves, Own, Product!Toggled
<1>4. \A v, o \in Work :
        (Reserves(work'[v]) /\ Reserves(work'[o]) /\ work'[v].agent = work'[o].agent) => v = o
  BY <1>1 DEF ProductsInv, Reserves
<1>. QED BY <1>2, <1>3, <1>4
        DEF ProductsInv, Product!ViewIsCurrent, Product!BackfillOnce, Product!ProjectionAgrees,
            Own, Reserves

LEMMA ProductsApply ==
  ASSUME ProductsInv, NEW w \in Work, NEW g \in Agent, NEW heartbeat \in BOOLEAN,
         NEW version \in Version, NEW change \in SUBSET Evidence,
         Product!Apply(w, g, heartbeat, version, change)
  PROVE  ProductsInv'
<1>. DEFINE new == [Product!NoWork EXCEPT !.at = "applied", !.agent = g,
                      !.heartbeat = heartbeat, !.version = version, !.change = change]
<1>1. /\ work' = [work EXCEPT ![w] = new]
      /\ UNCHANGED <<evidence, product, projection, marker, merged, refused, repeated>>
      /\ began < MaxWork /\ began' = began + 1
  BY DEF Product!Apply
<1>2. new \in WorkRow /\ new.at = "applied"
  BY RestingWork DEF WorkRow
<1>3. began' \in 0..MaxWork /\ refused' \in BOOLEAN
  BY <1>1, ProductsTypes, ProductAssumption
<1>. HIDE DEF new
<1>. QED BY <1>1, <1>2, <1>3, WorkMoves DEF WorkOK, Reserves

LEMMA ProductsReserve ==
  ASSUME ProductsInv, NEW w \in Work, Product!Reserve(w)
  PROVE  ProductsInv'
<1>. DEFINE t == work[w]
            done == t.heartbeat /\ marker[t.agent] = t.version
            new == [t EXCEPT !.at = "reserved"]
<1>1. /\ work' = [work EXCEPT ![w] = IF done THEN Product!NoWork ELSE new]
      /\ UNCHANGED <<evidence, product, projection, marker, began, merged, refused, repeated>>
      /\ \A o \in Product!Open(t.agent) : work[o].at \notin {"reserved", "loaded"}
  BY Zenon DEF Product!Reserve
<1>2. \A o \in Work : ~(Reserves(work[o]) /\ work[o].agent = t.agent)
  BY <1>1 DEF Product!Open, Reserves
<1>3. /\ new \in WorkRow /\ new.at = "reserved" /\ new.agent = t.agent
      /\ new.heartbeat = t.heartbeat /\ new.version = t.version
  BY ProductsTypes DEF WorkRow
<1>4. began' \in 0..MaxWork /\ refused' \in BOOLEAN
  BY <1>1, ProductsTypes
<1>5. CASE done
  <2>1. work' = [work EXCEPT ![w] = Product!NoWork]
    BY <1>1, <1>5, Zenon
  <2>. QED BY <1>1, <1>4, <2>1, RestingWork, WorkMoves DEF WorkOK, Reserves
<1>6. CASE ~done
  <2>1. work' = [work EXCEPT ![w] = new]
    BY <1>1, <1>6, Zenon
  <2>2. t.heartbeat => marker[t.agent] # t.version
    BY <1>6
  <2>. HIDE DEF new, done, t
  <2>3. WorkOK(new)
    BY <1>3, <2>2 DEF WorkOK, Reserves
  <2>4. \A o \in Work \ {w} : ~(Reserves(work[o]) /\ work[o].agent = new.agent)
    BY <1>2, <1>3
  <2>. QED BY Zenon, <1>1, <1>3, <1>4, <2>1, <2>3, <2>4, WorkMoves
<1>. QED BY <1>5, <1>6

LEMMA ProductsLoad ==
  ASSUME ProductsInv, NEW w \in Work, Product!Load(w)
  PROVE  ProductsInv'
<1>. DEFINE t == work[w]
            new == [t EXCEPT !.at = "loaded", !.asset = product[t.agent].asset,
                      !.seen = Product!Toggled(evidence[t.agent], t.change)]
<1>1. /\ t.at = "reserved" /\ t \in WorkRow /\ WorkOK(t)
      /\ work' = [work EXCEPT ![w] = new]
      /\ UNCHANGED <<evidence, product, projection, marker, began, merged, refused, repeated>>
  BY ProductsTypes DEF Product!Load, ProductsInv
<1>2. t.agent \in Agent /\ t.change \in SUBSET Evidence
  BY <1>1 DEF WorkRow
<1>3. /\ product[t.agent].asset \in Agent
      /\ Product!Toggled(evidence[t.agent], t.change) \in SUBSET Evidence
  BY <1>2, ProductsTypes DEF ProductRow, Product!Toggled
<1>4. /\ new \in WorkRow /\ new.at = "loaded" /\ new.agent = t.agent
      /\ new.heartbeat = t.heartbeat /\ new.version = t.version /\ new.change = t.change
      /\ new.asset = product[t.agent].asset
      /\ new.seen = Product!Toggled(evidence[t.agent], t.change)
  BY <1>1, <1>3 DEF WorkRow
<1>5. \A o \in Work \ {w} : ~(Reserves(work[o]) /\ work[o].agent = t.agent)
  BY <1>1 DEF ProductsInv, Reserves
<1>6. Own(t.agent, product[t.agent].asset) /\ began' \in 0..MaxWork /\ refused' \in BOOLEAN
  BY <1>1, <1>2, ProductsTypes DEF ProductsInv
<1>. HIDE DEF new, t
<1>7. WorkOK(new)
  BY <1>1, <1>4, <1>6 DEF WorkOK, Reserves
<1>. QED BY <1>1, <1>4, <1>5, <1>6, <1>7, WorkMoves

(* A reconciliation commits: the host's product shows what was seen, and only   *)
(* the rows of the host, or of the asset that is its own, leave the projection.  *)
LEMMA ProductsCommit ==
  ASSUME ProductsInv, NEW w \in Work, Product!Commit(w), work[w].at = "loaded",
         NEW new \in ProductRow, product' = [product EXCEPT ![work[w].agent] = new],
         new.view = work[w].seen, new.asset = product[work[w].agent].asset,
         projection' \subseteq [asset : Agent, agent : Agent],
         \A r \in projection' : r \in projection \/ (r.agent = work[w].agent /\ r.asset = work[w].asset),
         \A r \in projection : r \in projection' \/ r.agent = work[w].agent \/ r.asset = work[w].asset,
         work[w].agent \notin merged =>
           ((\E r \in projection' : r.agent = work[w].agent) <=> new.row = "live")
  PROVE  ProductsInv'
<1>. DEFINE t == work[w]
            g == t.agent
            left == Product!Toggled(evidence[g], t.change)
<1>1. /\ t \in WorkRow /\ WorkOK(t) /\ g \in Agent /\ t.change \in SUBSET Evidence
      /\ t.version \in {0} \cup Version
  BY ProductsTypes DEF ProductsInv, WorkRow
<1>2. /\ t.seen = left /\ Own(g, t.asset) /\ left \in SUBSET Evidence
      /\ ~(t.heartbeat /\ marker[g] = t.version)
  BY <1>1, ProductsTypes DEF WorkOK, Reserves, Product!Toggled
<1>3. /\ evidence' = [evidence EXCEPT ![g] = left] /\ marker' = [marker EXCEPT ![g] = t.version]
      /\ repeated' = FALSE /\ work' = [work EXCEPT ![w] = Product!NoWork]
      /\ UNCHANGED <<began, merged, refused>>
  <2>1. repeated' = (repeated \/ (t.heartbeat /\ marker[g] = t.version))
    BY Zenon DEF Product!Commit
  <2>2. evidence' = [evidence EXCEPT ![g] = left]
    BY DEF Product!Commit
  <2>. QED BY <1>2, <2>1, <2>2, ProductsTypes DEF Product!Commit
<1>. HIDE DEF left
<1>4. /\ evidence' \in [Agent -> SUBSET Evidence] /\ evidence'[g] = left
      /\ \A h \in Agent \ {g} : evidence'[h] = evidence[h] /\ marker'[h] = marker[h]
      /\ marker' \in [Agent -> {0} \cup Version] /\ marker'[g] = t.version
      /\ product' \in [Agent -> ProductRow] /\ product'[g] = new
      /\ \A h \in Agent \ {g} : product'[h] = product[h]
      /\ work' \in [Work -> WorkRow] /\ work'[w] = Product!NoWork
      /\ \A o \in Work \ {w} : work'[o] = work[o]
  BY <1>1, <1>2, <1>3, ProductsTypes, RestingWork
<1>5. Product!TypeOK'
  BY <1>3, <1>4, ProductsTypes DEF Product!TypeOK, ProductRow, WorkRow
<1>6. Product!ViewIsCurrent' /\ Product!BackfillOnce'
  BY <1>2, <1>3, <1>4 DEF ProductsInv, Product!ViewIsCurrent, Product!BackfillOnce
<1>7. Product!ProjectionAgrees'
  <2>1. ASSUME NEW h \in Agent \ merged, h # g
        PROVE  (\E r \in projection' : r.agent = h) <=> (\E r \in projection : r.agent = h)
    <3>1. ASSUME NEW r \in projection, r.agent = h
          PROVE  r \in projection'
      <4>1. r.asset = h
        BY <2>1, <3>1 DEF ProductsInv, Own
      <4>2. t.asset # h
        BY <1>2, <2>1 DEF Own
      <4>. QED BY <2>1, <3>1, <4>1, <4>2
    <3>. QED BY <2>1, <3>1
  <2>2. ASSUME NEW h \in Agent \ merged, h # g
        PROVE  (\E r \in projection' : r.agent = h) <=> product'[h].row = "live"
    BY <1>4, <2>1, <2>2 DEF ProductsInv, Product!ProjectionAgrees
  <2>3. g \in Agent \ merged =>
          ((\E r \in projection' : r.agent = g) <=> product'[g].row = "live")
    BY <1>4
  <2>. QED BY <1>3, <2>2, <2>3 DEF Product!ProjectionAgrees
<1>8. /\ \A h \in Agent : Own(h, product[h].asset)'
      /\ \A r \in projection' : Own(r.agent, r.asset)
  BY <1>1, <1>2, <1>3, <1>4 DEF ProductsInv, Own
<1>9. \A r \in projection' : Own(r.agent, r.asset)'
  BY <1>3, <1>8 DEF Own
<1>10. ASSUME NEW o \in Work
       PROVE  WorkOK(work[o])'
  <2>1. CASE o = w
    BY <1>4, <2>1, RestingWork DEF WorkOK, Reserves
  <2>2. CASE o # w
    <3>1. work'[o] = work[o] /\ WorkOK(work[o]) /\ work[o].agent \in Agent
      BY <1>4, <2>2, ProductsTypes DEF ProductsInv, WorkRow
    <3>2. Reserves(work[o]) => work[o].agent # g
      BY <2>2 DEF ProductsInv, Reserves
    <3>. QED BY <1>3, <1>4, <3>1, <3>2 DEF WorkOK, Reserves, Own, Product!Toggled
  <2>. QED BY <2>1, <2>2
<1>11. \A v, o \in Work :
         (Reserves(work'[v]) /\ Reserves(work'[o]) /\ work'[v].agent = work'[o].agent) => v = o
  BY <1>4, RestingWork DEF ProductsInv, Reserves
<1>. QED BY <1>5, <1>6, <1>7, <1>8, <1>9, <1>10, <1>11 DEF ProductsInv, Reserves

LEMMA ProductsDetected ==
  ASSUME ProductsInv, NEW w \in Work, Product!Detected(w)
  PROVE  ProductsInv'
<1>. DEFINE t == work[w]
            g == t.agent
            new == [product[g] EXCEPT !.row = "live", !.view = t.seen]
<1>1. /\ t.at = "loaded" /\ Product!Commit(w) /\ t \in WorkRow
      /\ product' = [product EXCEPT ![g] = new]
      /\ projection' = {r \in projection : r.agent # g} \cup {[asset |-> t.asset, agent |-> g]}
  <2>1. PICK d \in Product!Detect(t.seen) :
          product' = [product EXCEPT ![g].row = "live", ![g].view = d.evidence]
    BY DEF Product!Detected
  <2>2. d.evidence = t.seen
    BY <2>1 DEF Product!Detect, Product!Detection
  <2>3. product' = [product EXCEPT ![g] = new]
    BY <2>1, <2>2, ProductsTypes DEF WorkRow
  <2>. QED BY <2>3, ProductsTypes DEF Product!Detected, Product!Projected
<1>2. g \in Agent /\ t.asset \in Agent /\ t.seen \in SUBSET Evidence
  BY <1>1 DEF WorkRow
<1>3. /\ new \in ProductRow /\ new.row = "live" /\ new.view = t.seen /\ new.asset = product[g].asset
  <2>1. product[g] \in ProductRow
    BY <1>2, ProductsTypes
  <2>. QED BY <1>2, <2>1 DEF ProductRow
<1>4. projection' \subseteq [asset : Agent, agent : Agent]
  BY <1>1, <1>2, ProductsTypes
<1>. HIDE DEF new
<1>5. \E r \in projection' : r.agent = g
  <2>. DEFINE shown == [asset |-> t.asset, agent |-> g]
  <2>1. shown \in projection' /\ shown.agent = g
    BY <1>1
  <2>. QED BY <2>1
<1>6. /\ \A r \in projection' : r \in projection \/ (r.agent = g /\ r.asset = t.asset)
      /\ \A r \in projection : r \in projection' \/ r.agent = g \/ r.asset = t.asset
  BY <1>1
<1>. QED BY <1>1, <1>3, <1>4, <1>5, <1>6, ProductsCommit

LEMMA ProductsUndetected ==
  ASSUME ProductsInv, NEW w \in Work, Product!Undetected(w)
  PROVE  ProductsInv'
<1>. DEFINE t == work[w]
            g == t.agent
            was == product[g].row = "live"
            row1 == IF was THEN "retired" ELSE product[g].row
            new == [product[g] EXCEPT !.view = {}, !.row = row1]
<1>1. /\ t.at = "loaded" /\ Product!Commit(w) /\ t \in WorkRow /\ WorkOK(t)
      /\ product' = [product EXCEPT ![g] = new] /\ t.seen = {}
      /\ was => projection' = {r \in projection : r.asset # t.asset}
      /\ ~was => projection' = projection
  <2>1. t.seen = {}
    BY DEF Product!Undetected, Product!Detect
  <2>2. product' = [product EXCEPT ![g].view = {}, ![g].row = row1]
    BY Zenon DEF Product!Undetected
  <2>3. product' = [product EXCEPT ![g] = new]
    BY <2>2, ProductsTypes DEF WorkRow
  <2>. QED BY <2>1, <2>3, ProductsTypes DEF Product!Undetected, Product!RetiredProjection, ProductsInv
<1>2. g \in Agent /\ t.asset \in Agent
  BY <1>1 DEF WorkRow
<1>3. row1 \in {"none", "retired"} /\ row1 # "live"
  BY <1>2, ProductsTypes DEF ProductRow
<1>. HIDE DEF row1
<1>4. new \in ProductRow /\ new.row = row1 /\ new.view = {} /\ new.asset = product[g].asset
  <2>1. product[g] \in ProductRow
    BY <1>2, ProductsTypes
  <2>. QED BY <1>3, <2>1 DEF ProductRow
<1>. HIDE DEF new
<1>5. ASSUME g \notin merged
      PROVE  ~\E r \in projection' : r.agent = g
  <2>1. \A r \in projection : r.agent = g => r.asset = g
    BY <1>5 DEF ProductsInv, Own
  <2>2. t.asset = g
    BY <1>1, <1>5 DEF WorkOK, Own
  <2>3. ~was => ~\E r \in projection : r.agent = g
    BY <1>2, <1>5 DEF ProductsInv, Product!ProjectionAgrees
  <2>. QED BY <1>1, <2>1, <2>2, <2>3
<1>6. /\ projection' \subseteq projection
      /\ \A r \in projection : r \in projection' \/ r.asset = t.asset
  BY <1>1
<1>7. projection' \subseteq [asset : Agent, agent : Agent]
  BY <1>6, ProductsTypes
<1>. QED BY <1>1, <1>3, <1>4, <1>5, <1>6, <1>7, ProductsCommit

LEMMA ProductsMerge ==
  ASSUME ProductsInv, NEW g \in Agent, NEW h \in Agent, Product!Merge(g, h)
  PROVE  ProductsInv'
<1>1. /\ product' = [a \in Agent |-> IF product[a].asset = h
                        THEN [product[a] EXCEPT !.asset = g] ELSE product[a]]
      /\ merged' = merged \cup {g, h}
      /\ UNCHANGED <<evidence, projection, marker, work, began, refused, repeated>>
  BY DEF Product!Merge
<1>2. /\ product' \in [Agent -> ProductRow]
      /\ \A a \in Agent : /\ product'[a].row = product[a].row /\ product'[a].view = product[a].view
                          /\ product'[a].asset = IF product[a].asset = h THEN g ELSE product[a].asset
  BY <1>1, ProductsTypes DEF ProductRow
<1>3. Product!TypeOK'
  BY <1>1, <1>2, ProductsTypes DEF Product!TypeOK, ProductRow, WorkRow
<1>4. \A b, a \in Agent : Own(b, a) => Own(b, a)'
  BY <1>1 DEF Own
<1>5. \A a \in Agent : Own(a, product[a].asset)'
  BY <1>1, <1>2 DEF ProductsInv, Own
<1>6. \A r \in projection' : Own(r.agent, r.asset)'
  BY <1>1, <1>4, ProductsTypes DEF ProductsInv
<1>7. \A w \in Work : WorkOK(work[w])'
  BY <1>1, ProductsTypes DEF ProductsInv, WorkOK, Reserves, Own, Product!Toggled
<1>8. Product!ViewIsCurrent' /\ Product!BackfillOnce' /\ Product!ProjectionAgrees'
  BY <1>1, <1>2 DEF ProductsInv, Product!ViewIsCurrent, Product!BackfillOnce, Product!ProjectionAgrees
<1>. QED BY <1>1, <1>3, <1>5, <1>6, <1>7, <1>8 DEF ProductsInv, Reserves

LEMMA ProductsStep ==
  ASSUME ProductsInv, [Product!Next]_ofProduct
  PROVE  ProductsInv'
<1>1. CASE UNCHANGED ofProduct
  BY <1>1 DEF ofProduct, ProductsInv, Product!TypeOK, Product!ViewIsCurrent, Product!BackfillOnce,
     Product!ProjectionAgrees, Own, WorkOK, Reserves, Product!Toggled
<1>2. ASSUME NEW w \in Work, Product!Refused(w) \/ Product!Rollback(w)
      PROVE  ProductsInv'
  <2>1. /\ work' = [work EXCEPT ![w] = Product!NoWork] /\ refused' \in BOOLEAN
        /\ UNCHANGED <<evidence, product, projection, marker, merged, repeated>>
        /\ began' \in 0..MaxWork
    BY <1>2, ProductsTypes DEF Product!Refused, Product!Rollback
  <2>. QED BY <2>1, RestingWork, WorkMoves DEF WorkOK, Reserves
<1>. QED BY Zenon, <1>1, <1>2, ProductsApply, ProductsReserve, ProductsLoad, ProductsDetected,
            ProductsUndetected, ProductsMerge DEF Product!Next

(***************************************************************************)
(* softwarecatalog/reconcile.go: whoever reads the product of a host reads      *)
(* what its active evidence shows, a heartbeat rebuilds the view once for each   *)
(* catalogue, and the lists show what is detected unless a person merged it,      *)
(* for any number of Agents, Pods, catalogues, events and merges.               *)
(***************************************************************************)
THEOREM ProductsAgree == Spec => []ProductsSafe
<1>1. Init => ProductsInv
  BY ProductsInitial DEF Init
<1>2. ProductsInv /\ [Next]_vars => ProductsInv'
  BY Zenon, PartsMove, ProductsStep
<1>3. ProductsInv => ProductsSafe
  BY DEF ProductsInv, ProductsSafe, Product!ProductsSafe
<1>. QED BY <1>1, <1>2, <1>3, PTL DEF Spec

(***************************************************************************)
(* Every part keeps its types (ingest/service.go, assets.go, classify,        *)
(* softwarecatalog, agents/service.go).                                      *)
(***************************************************************************)
THEOREM PartsTyped == Spec => []TypeOK
<1>. DEFINE Inv == /\ AssetsInv /\ ClassesInv /\ CacheInv /\ LinksInv
                   /\ ProductsInv /\ LegacyInv /\ HostsInv
<1>1. Init => Inv
  BY Zenon, AssetsInitial, ClassesInitial, CacheInitial, LinksInitial, ProductsInitial,
     LegacyInitial, HostsInitial DEF Init
<1>2. Inv /\ [Next]_vars => Inv'
  BY Zenon, PartsMove, AssetsStep, ClassesStep, CacheStep, LinksStep, ProductsStep, LegacyStep,
     HostsStep
<1>3. Inv => TypeOK
  BY Zenon DEF TypeOK, AssetsInv, ClassesInv, CacheInv, LinksInv, ProductsInv, LegacyInv, HostsInv
<1>. QED BY <1>1, <1>2, <1>3, PTL DEF Spec
=============================================================================
