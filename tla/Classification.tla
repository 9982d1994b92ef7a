--------------------------- MODULE Classification ---------------------------
(***************************************************************************)
(* Who decides an asset's environment and criticality: the person who       *)
(* edited the field (updateAsset with MarkManual), the rules when an event  *)
(* reports the asset (classifyRecord and ClassifyAndStore), the replay of   *)
(* the rules over the stored inventory (reclassifyAssets), and for a        *)
(* catalogue product its host (upsertDetection, softwarecatalog).           *)
(*                                                                          *)
(* One row of assets at READ COMMITTED: an UPDATE holds the row until its   *)
(* transaction ends, a SELECT does not.  The rules may be edited at any     *)
(* time and every Pod caches them (module RuleCache), so each pass may find *)
(* any of the rule sets.                                                    *)
(***************************************************************************)
EXTENDS Naturals, FiniteSets

CONSTANTS
  Value,    \* the values of a field
  Default,  \* the schema's default; environment "other": nobody has decided yet
  Unset,    \* a rule set that says nothing of a field, an input left out
  Rules,    \* what the enabled rules may assign: functions from Field
  Pass,     \* events and replays that may be open at once
  Editor,   \* requests of updateAsset that may be open at once
  MaxEdits  \* bound: the requests

VARIABLES
  row,     \* the fields and manual_fields_json
  holder,  \* the event that holds the row
  pass,    \* Pass -> what it read
  editor,  \* Editor -> what it read and what it is asked to set
  edits,   \* how many requests began
  person   \* history: what a person last set each field to

classVars == <<row, holder, pass, editor, edits, person>>

Field == {"environment", "criticality"}
Free  == "free"
Nowhere == [at |-> "idle", value |-> [f \in Field |-> Default], manual |-> {}]
NoEdit  == [at |-> "idle", value |-> [f \in Field |-> Default],
            input |-> [f \in Field |-> Unset], manual |-> {}]

TypeOK ==
  /\ row \in [value : [Field -> Value], manual : SUBSET Field,
              kind : {"component", "product"}]
  /\ holder \in Pass \cup {Free}
  /\ pass \in [Pass -> [at : {"idle", "held", "read", "listed", "replay"},
                        value : [Field -> Value], manual : SUBSET Field]]
  /\ editor \in [Editor -> [at : {"idle", "read", "marked"}, value : [Field -> Value],
                            input : [Field -> Value \cup {Unset}], manual : SUBSET Field]]
  /\ edits \in 0..MaxEdits
  /\ person \in [Field -> Value \cup {Unset}]

Init ==
  /\ row \in [value : {[f \in Field |-> Default]}, manual : {{}},
              kind : {"component", "product"}]
  /\ holder = Free /\ edits = 0 /\ person = [f \in Field |-> Unset]
  /\ pass = [p \in Pass |-> Nowhere] /\ editor = [e \in Editor |-> NoEdit]

\* Apply and the UPDATE of ClassifyAndStore: a field a person owns is not assigned
\* to; what no rule assigned is written as the caller passed it.  Rules that do
\* nothing, not even set a tag, leave the row alone.
Classified(rules, value, manual) ==
  [f \in Field |-> IF rules[f] # Unset /\ f \notin manual THEN rules[f] ELSE value[f]]
Fires(rules, tags, manual) == tags \/ \E f \in Field \ manual : rules[f] # Unset

(***************************************************************************)
(* An inventory event.                                                      *)
(***************************************************************************)
\* Mutant: the row is not updated before it is read.
TouchNothing(p) ==
  /\ pass[p].at = "idle" /\ row.kind = "component"
  /\ pass' = [pass EXCEPT ![p].at = "held"]
  /\ UNCHANGED <<row, holder, editor, edits, person>>

\* upsertRecord: the representative is updated, which holds its row; without that
\* update the event does not classify.
Touch(p) ==
  /\ pass[p].at = "idle" /\ row.kind = "component" /\ holder = Free
  /\ holder' = p
  /\ pass' = [pass EXCEPT ![p].at = "held"]
  /\ UNCHANGED <<row, editor, edits, person>>

\* hostEnvironment: a component whose environment nobody decided has its host's.
Inherited(value, host) ==
  [value EXCEPT !["environment"] = IF @ = Default THEN host ELSE @]

\* classifyRecord: the asset and its manual fields are read.
ReadAsset(p, host) ==
  /\ pass[p].at = "held"
  /\ pass' = [pass EXCEPT ![p] = [at |-> "read", manual |-> row.manual,
                                  value |-> Inherited(row.value, host)]]
  /\ UNCHANGED <<row, holder, editor, edits, person>>

\* ClassifyAndStore: the classification is written and the event commits.
Classify(p, rules, tags) ==
  /\ pass[p].at = "read"
  /\ row' = IF Fires(rules, tags, pass[p].manual)
            THEN [row EXCEPT !.value = Classified(rules, pass[p].value, pass[p].manual)]
            ELSE row
  /\ holder' = Free
  /\ pass' = [pass EXCEPT ![p] = Nowhere]
  /\ UNCHANGED <<editor, edits, person>>

\* upsertDetection: a product takes over the environment of its host.
Reconcile(host) ==
  /\ row.kind = "product" /\ holder = Free
  /\ row' = [row EXCEPT !.value["environment"] = host]
  /\ UNCHANGED <<holder, pass, editor, edits, person>>

(***************************************************************************)
(* reclassifyAssets.                                                        *)
(***************************************************************************)
\* The work list, with the fields as they are now.
ListAssets(p) ==
  /\ pass[p].at = "idle"
  /\ pass' = [pass EXCEPT ![p] = [Nowhere EXCEPT !.at = "listed", !.value = row.value]]
  /\ UNCHANGED <<row, holder, editor, edits, person>>

\* ClassifyAndStore: the manual fields are read when the asset's turn comes.
ReadManual(p) ==
  /\ pass[p].at = "listed"
  /\ pass' = [pass EXCEPT ![p].at = "replay", ![p].manual = row.manual]
  /\ UNCHANGED <<row, holder, editor, edits, person>>

\* ClassifyAndStore and the commit.
Replay(p, rules, tags) ==
  /\ pass[p].at = "replay" /\ holder = Free
  /\ row' = IF Fires(rules, tags, pass[p].manual)
            THEN [row EXCEPT !.value = Classified(rules, pass[p].value, pass[p].manual)]
            ELSE row
  /\ pass' = [pass EXCEPT ![p] = Nowhere]
  /\ UNCHANGED <<holder, editor, edits, person>>

(***************************************************************************)
(* updateAsset.                                                             *)
(***************************************************************************)
\* The row as it was before the transaction; the request says what to set.
PatchRead(e, input) ==
  /\ editor[e].at = "idle" /\ edits < MaxEdits
  /\ edits' = edits + 1
  /\ editor' = [editor EXCEPT ![e] = [NoEdit EXCEPT !.at = "read",
                  !.value = row.value, !.input = input]]
  /\ UNCHANGED <<row, holder, pass, person>>

Claimed(e) == {f \in Field : editor[e].input[f] # Unset}

\* MarkManual: the list of the manual fields is read.
MarkRead(e) ==
  /\ editor[e].at = "read"
  /\ editor' = [editor EXCEPT ![e].at = "marked", ![e].manual = row.manual]
  /\ UNCHANGED <<row, holder, pass, edits, person>>

\* updateAsset: every field is written, the ones the request leaves out as they
\* were read; MarkManual's list, too, if the request claims a field.
PatchWrite(e) ==
  /\ editor[e].at = "marked" /\ holder = Free
  /\ row' = [row EXCEPT
       !.manual = IF Claimed(e) = {} THEN @ ELSE editor[e].manual \cup Claimed(e),
       !.value = [f \in Field |-> IF f \in Claimed(e) THEN editor[e].input[f]
                                  ELSE editor[e].value[f]]]
  /\ person' = [f \in Field |-> IF f \in Claimed(e) THEN editor[e].input[f] ELSE person[f]]
  /\ editor' = [editor EXCEPT ![e] = NoEdit]
  /\ UNCHANGED <<holder, pass, edits>>

Next ==
  \/ \E p \in Pass : Touch(p) \/ ListAssets(p) \/ ReadManual(p)
  \/ \E p \in Pass : \E host \in Value : ReadAsset(p, host)
  \/ \E p \in Pass, rules \in Rules, tags \in BOOLEAN :
       Classify(p, rules, tags) \/ Replay(p, rules, tags)
  \/ \E host \in Value : Reconcile(host)
  \/ \E e \in Editor : \E input \in [Field -> Value \cup {Unset}] : PatchRead(e, input)
  \/ \E e \in Editor : MarkRead(e) \/ PatchWrite(e)
-----------------------------------------------------------------------------
\* No rule decides a field of manual_fields_json in the classification by an event,
\* even when the person's request commits while the event is processed (the event
\* holds the row before it reads the list): the field stays as it is.  A claimed
\* environment of "other" counts as undecided (ingest/service.go:1140), against "must
\* never move it back" (httpapi/assets.go:429): it may become what the event read of
\* the host, and nothing else.
EventKeepsClaims ==
  \A p \in Pass : (pass[p].at = "read" /\ pass'[p].at = "idle") =>
    \A f \in row.manual :
      \/ row'.value[f] = row.value[f]
      \/ /\ f = "environment" /\ row.value[f] = Default
         /\ row'.value[f] = pass[p].value[f]

\* What a person sets a field to stays until a person sets it again
\* (docs/SERVER_INSTALLATION.md:1096).
ManualStays == \A f \in Field : person[f] # Unset => row.value[f] = person[f]
=============================================================================
