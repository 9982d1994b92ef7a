------------------------------ MODULE Relations ------------------------------
(***************************************************************************)
(* The relations of two assets, one row of asset_relations for each type:   *)
(*   "link"  what LinkToHost infers for a component and its host;           *)
(*   "twin"  the duplicate_of that ProposeDuplicate suggests for two hosts. *)
(* Persons create, delete and review relations (createAssetRelation,        *)
(* deleteAssetRelation, reviewProposedRelation); the removal of an asset    *)
(* closes them (removeRecord).  (source, type, target) is unique.           *)
(***************************************************************************)
EXTENDS Naturals

CONSTANTS
  Inference,  \* transactions of ingestion that may be open at once
  MaxDecided  \* bound: the reviews

VARIABLES
  relation,  \* type -> its row
  present,   \* the two assets are reported
  inference, \* Inference -> what it looked up
  ruled,     \* history: type -> the first review's decision
  reviews    \* how many reviews succeeded

relationVars == <<relation, present, inference, ruled, reviews>>

Type  == {"link", "twin"}
NoRow == [status |-> "none", manual |-> FALSE, open |-> FALSE]
Resting == [at |-> "idle", type |-> "link", row |-> NoRow]

Row == [status : {"none", "proposed", "active", "rejected"},
        manual : BOOLEAN, open : BOOLEAN]

TypeOK ==
  /\ relation \in [Type -> Row]
  /\ present \in BOOLEAN
  /\ inference \in [Inference -> [at : {"idle", "found"}, type : Type, row : Row]]
  /\ ruled \in [Type -> {"none", "approve", "reject"}]
  /\ reviews \in 0..MaxDecided

Init ==
  /\ relation = [t \in Type |-> NoRow] /\ present = TRUE
  /\ inference = [i \in Inference |-> Resting]
  /\ ruled = [t \in Type |-> "none"] /\ reviews = 0

\* HostAssetForAgent found the other asset; LinkToHost and ProposeDuplicate look
\* the relation up.
LookUp(i, type) ==
  /\ inference[i].at = "idle" /\ present
  /\ inference' = [inference EXCEPT ![i] =
                     [at |-> "found", type |-> type, row |-> relation[type]]]
  /\ UNCHANGED <<relation, present, ruled, reviews>>

\* Mutant: a manual row is refreshed like a derived one.
LinkAlways(i) ==
  LET found == inference[i].row IN
  /\ inference[i].at = "found" /\ inference[i].type = "link"
  /\ relation' =
       CASE found.status = "none" /\ relation["link"].status = "none" ->
              [relation EXCEPT !["link"] = [status |-> "active", manual |-> FALSE,
                                            open |-> TRUE]]
         [] found.status # "none" ->
              [relation EXCEPT !["link"].status = "active", !["link"].open = TRUE]
         [] OTHER -> relation
  /\ inference' = [inference EXCEPT ![i] = Resting]
  /\ UNCHANGED <<present, ruled, reviews>>

\* LinkToHost: a missing row is inserted, a derived one opened again, and a manual
\* one left alone.  An INSERT that meets a row fails its transaction.
Link(i) ==
  LET found == inference[i].row IN
  /\ inference[i].at = "found" /\ inference[i].type = "link"
  /\ relation' =
       CASE found.status = "none" /\ relation["link"].status = "none" ->
              [relation EXCEPT !["link"] = [status |-> "active", manual |-> FALSE,
                                            open |-> TRUE]]
         [] found.status # "none" /\ ~found.manual ->
              [relation EXCEPT !["link"].status = "active", !["link"].open = TRUE]
         [] OTHER -> relation
  /\ inference' = [inference EXCEPT ![i] = Resting]
  /\ UNCHANGED <<present, ruled, reviews>>

\* ProposeDuplicate: a row in any state stands in the way of a new proposal.
ProposeDuplicate(i) ==
  /\ inference[i].at = "found" /\ inference[i].type = "twin"
  /\ relation' =
       IF inference[i].row.status = "none" /\ relation["twin"].status = "none"
       THEN [relation EXCEPT !["twin"] = [status |-> "proposed", manual |-> FALSE,
                                          open |-> TRUE]]
       ELSE relation
  /\ inference' = [inference EXCEPT ![i] = Resting]
  /\ UNCHANGED <<present, ruled, reviews>>

\* removeRecord: one of the assets is removed, and its open relations end.
RemoveAsset ==
  /\ present /\ present' = FALSE
  /\ relation' = [t \in Type |-> [relation[t] EXCEPT !.open = FALSE]]
  /\ UNCHANGED <<inference, ruled, reviews>>

\* upsertRecord: the asset is reported again; its relations are not opened.
ReportAsset ==
  /\ ~present /\ present' = TRUE
  /\ UNCHANGED <<relation, inference, ruled, reviews>>

\* createAssetRelation: any row of this kind, a closed one too, is a conflict.
CreateRelation(type) ==
  /\ relation[type].status = "none"
  /\ relation' = [relation EXCEPT ![type] = [status |-> "active", manual |-> TRUE,
                                             open |-> TRUE]]
  /\ UNCHANGED <<present, inference, ruled, reviews>>

\* deleteAssetRelation.
DeleteRelation(type) ==
  /\ relation[type].status # "none" /\ relation[type].open
  /\ relation' = [relation EXCEPT ![type].open = FALSE]
  /\ UNCHANGED <<present, inference, ruled, reviews>>

\* Mutant: the UPDATE names the relation only.
ReviewAgain(type, decision) ==
  /\ reviews < MaxDecided /\ relation[type].status # "none"
  /\ relation' = [relation EXCEPT ![type] =
       [status |-> IF decision = "approve" THEN "active" ELSE "rejected",
        manual |-> decision = "approve", open |-> decision = "approve"]]
  /\ ruled' = [ruled EXCEPT ![type] = IF @ = "none" THEN decision ELSE @]
  /\ reviews' = reviews + 1
  /\ UNCHANGED <<present, inference>>

\* reviewProposedRelation.
Review(type, decision) ==
  /\ reviews < MaxDecided /\ relation[type].status = "proposed"
  /\ relation' = [relation EXCEPT ![type] =
       [status |-> IF decision = "approve" THEN "active" ELSE "rejected",
        manual |-> decision = "approve", open |-> decision = "approve"]]
  /\ ruled' = [ruled EXCEPT ![type] = IF @ = "none" THEN decision ELSE @]
  /\ reviews' = reviews + 1
  /\ UNCHANGED <<present, inference>>

Next ==
  \/ \E i \in Inference : (\E t \in Type : LookUp(i, t)) \/ Link(i) \/ ProposeDuplicate(i)
  \/ RemoveAsset \/ ReportAsset
  \/ \E t \in Type : CreateRelation(t) \/ DeleteRelation(t)
  \/ \E t \in Type, decision \in {"approve", "reject"} : Review(t, decision)
-----------------------------------------------------------------------------
\* What a person decided about a proposal stays decided: no event proposes it or
\* turns it round, and no second review does (docs/SERVER_INSTALLATION.md:1131).
DecisionStands ==
  \A t \in Type :
    /\ ruled[t] = "reject"  => relation[t].status = "rejected"
    /\ ruled[t] = "approve" => relation[t].status = "active" /\ relation[t].manual

\* A relation a person stated or vouched for is never reopened by an event once it
\* ended (LinkToHost leaves manual rows untouched).
ManualEndsForGood ==
  \A t \in Type : (relation[t].manual /\ ~relation[t].open) => ~relation'[t].open

\* What persons decided about relations (asset_relations) stands.
RelationsSafe ==
  /\ []DecisionStands
  /\ [][ManualEndsForGood]_relationVars
=============================================================================
