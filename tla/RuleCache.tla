------------------------------ MODULE RuleCache ------------------------------
(***************************************************************************)
(* The cache of the classification rules in one Pod (classify.Store): a     *)
(* miss loads the table without a lock and stores what it found; an edit    *)
(* (updateClassificationRule) and a replay (reclassifyAssets) drop the      *)
(* cache.  Other Pods edit the table, too.                                  *)
(***************************************************************************)
EXTENDS Naturals

CONSTANTS
  Reader,    \* calls of Rules that may be open at once in this Pod
  Replayer,  \* the readers among them that replay the rules
  Ttl,       \* ruleCacheTTL
  MaxRules,  \* bound: the versions of the table
  MaxAge     \* bound: the clock

VARIABLES
  table,   \* the version of asset_classification_rules
  edited,  \* the version of the last edit in this Pod
  cached,  \* the cached version, 0 for none, when it was stored, and whether the
           \* cache was dropped while it was loaded
  reader,  \* Reader -> its place, the version it has, the one it must see, whether it
           \* came from a load the cache was dropped under, and its age in the cache
  ruleNow  \* the Pod's clock

ruleVars == <<table, edited, cached, reader, ruleNow>>

Outside == [at |-> "idle", version |-> 0, asOf |-> 0, overtaken |-> FALSE,
            age |-> 0]

TypeOK ==
  /\ table \in 1..MaxRules /\ edited \in 1..MaxRules
  /\ cached \in [version : 0..MaxRules, at : 0..MaxAge, overtaken : BOOLEAN]
  /\ reader \in [Reader -> [at : {"idle", "dropped", "missed", "loaded", "served"},
                            version : 0..MaxRules, asOf : 0..MaxRules,
                            overtaken : BOOLEAN, age : 0..MaxAge]]
  /\ ruleNow \in 0..MaxAge

Init ==
  /\ table = 1 /\ edited = 1 /\ ruleNow = 0
  /\ cached = [version |-> 0, at |-> 0, overtaken |-> FALSE]
  /\ reader = [r \in Reader |-> Outside]

\* Invalidate.  A load under way does not notice; overtaken remembers it.
Invalidate ==
  /\ cached' = [cached EXCEPT !.version = 0]
  /\ reader' = [r \in Reader |-> [reader[r] EXCEPT
       !.overtaken = @ \/ reader[r].at \in {"missed", "loaded"}]]

\* updateClassificationRule in this Pod: the UPDATE, then Invalidate.
Edit ==
  /\ table < MaxRules
  /\ table' = table + 1 /\ edited' = table + 1
  /\ Invalidate
  /\ UNCHANGED ruleNow

\* updateClassificationRule in another Pod.
EditElsewhere ==
  /\ table < MaxRules /\ table' = table + 1
  /\ UNCHANGED <<edited, cached, reader, ruleNow>>

\* reclassifyAssets: the cache is dropped first.
Drop(r) ==
  /\ r \in Replayer /\ reader[r].at = "idle"
  /\ cached' = [cached EXCEPT !.version = 0]
  /\ reader' = [q \in Reader |-> IF q = r
       THEN [Outside EXCEPT !.at = "dropped", !.asOf = table]
       ELSE [reader[q] EXCEPT !.overtaken = @ \/ reader[q].at \in {"missed", "loaded"}]]
  /\ UNCHANGED <<table, edited, ruleNow>>

\* Rules: served from the cache, or missed.
StartRules(r) ==
  LET asOf == IF r \in Replayer THEN reader[r].asOf ELSE edited IN
  /\ reader[r].at = IF r \in Replayer THEN "dropped" ELSE "idle"
  /\ reader' = [reader EXCEPT ![r] =
       IF cached.version # 0 /\ ruleNow - cached.at < Ttl
       THEN [at |-> "served", version |-> cached.version, asOf |-> asOf,
             overtaken |-> cached.overtaken, age |-> ruleNow - cached.at]
       ELSE [Outside EXCEPT !.at = "missed", !.asOf = asOf]]
  /\ UNCHANGED <<table, edited, cached, ruleNow>>

\* Mutant: a version that is not in the table.
LoadNext(r) ==
  /\ reader[r].at = "missed"
  /\ reader' = [reader EXCEPT ![r].at = "loaded", ![r].version = table + 1]
  /\ UNCHANGED <<table, edited, cached, ruleNow>>

\* load.
Load(r) ==
  /\ reader[r].at = "missed"
  /\ reader' = [reader EXCEPT ![r].at = "loaded", ![r].version = table]
  /\ UNCHANGED <<table, edited, cached, ruleNow>>

\* Rules: the result is cached, whatever happened to the cache meanwhile.  The call
\* that loaded it asked before what overtook the load.
Store(r) ==
  /\ reader[r].at = "loaded"
  /\ cached' = [version |-> reader[r].version, at |-> ruleNow,
                overtaken |-> reader[r].overtaken]
  /\ reader' = [reader EXCEPT ![r].at = "served", ![r].overtaken = FALSE]
  /\ UNCHANGED <<table, edited, ruleNow>>

\* The caller has applied the rules.
Applied(r) ==
  /\ reader[r].at = "served"
  /\ reader' = [reader EXCEPT ![r] = Outside]
  /\ UNCHANGED <<table, edited, cached, ruleNow>>

Tick ==
  /\ ruleNow < MaxAge /\ ruleNow' = ruleNow + 1
  /\ UNCHANGED <<table, edited, cached, reader>>

Next ==
  \/ \E r \in Reader :
       Drop(r) \/ StartRules(r) \/ Load(r) \/ Store(r) \/ Applied(r)
  \/ Edit \/ EditElsewhere \/ Tick
-----------------------------------------------------------------------------
\* An edit takes effect in the Pod that took it ("at once", store.go:50), and a replay
\* applies every edit of any Pod made before it, even where loads and edits race: a
\* call that loads the table itself has them, whatever dropped the cache meanwhile,
\* and so has one that finds the result of a load begun after them.  The result of a
\* load that was under way when the cache was dropped is put back into it, and calls
\* that miss the edit are served that one, but none once it is as old as the cache
\* time: then the half minute of httpapi/classification.go:208 is over.
EditsSeen ==
  \A r \in Reader : reader[r].at = "served" =>
    \/ reader[r].version >= reader[r].asOf
    \/ reader[r].overtaken /\ reader[r].age < Ttl
=============================================================================
