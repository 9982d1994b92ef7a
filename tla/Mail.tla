-------------------------------- MODULE Mail --------------------------------
(***************************************************************************)
(* Mail notifications (mail/service.go, mail/mail.go) and the settings they  *)
(* are sent with (httpapi/mail.go; every row but the password's is also a     *)
(* setting that httpapi/settings.go changes alone, see Settings).  A          *)
(* notification is recorded, sent in the background with at most one retry,   *)
(* and its outcome is written to the delivery log.  Neither the log nor the   *)
(* relay is certain: a statement on the log can fail, the process can die,    *)
(* and the relay can accept a message whose acknowledgement (or QUIT) the     *)
(* Server does not get.                                                       *)
(***************************************************************************)
EXTENDS Naturals, FiniteSets
CONSTANTS
  Delivery,     \* notifications to one address
  Saver,        \* administrators' PATCH requests
  Secret,       \* passwords of the relay
  Nothing,      \* no password; a field a PATCH leaves alone
  MaxSaves      \* bound: requests for the settings in one behaviour
VARIABLES
  config,       \* the mail.* rows: enabled, whether a relay host is set, the password
  saver,        \* the PATCH requests under way
  saves,        \* requests for the settings so far
  mixed,        \* history: the rows were changed one by one since the form saved them
  entry,        \* the row of each delivery in mail_deliveries
  sender,       \* the goroutine of each delivery
  accepted,     \* history: how often the relay accepted the message
  lost          \* history: how often the relay accepted it and the Server saw an error

mailVars == <<config, saver, saves, mixed, entry, sender, accepted, lost>>

Configs == [enabled : BOOLEAN, host : BOOLEAN, password : Secret \cup {Nothing}]
\* A PATCH names the fields it changes; "" for a password clears it.
Patches == [enabled : BOOLEAN \cup {Nothing}, host : BOOLEAN \cup {Nothing},
            password : Secret \cup {Nothing, ""}]
Rest == [step |-> "rest", patch |-> [enabled |-> Nothing, host |-> Nothing, password |-> Nothing],
         after |-> [enabled |-> FALSE, host |-> FALSE, password |-> Nothing]]

TypeOK ==
  /\ config \in Configs
  /\ saver \in [Saver -> [step : {"rest", "save"}, patch : Patches, after : Configs]]
  /\ saves \in 0 .. MaxSaves /\ mixed \in BOOLEAN
  /\ entry \in [Delivery -> {"none", "queued", "sent", "failed"}]
  /\ sender \in [Delivery -> [step : {"new", "send", "done", "over"}, attempts : 0 .. 2,
                              error : BOOLEAN]]
  /\ accepted \in [Delivery -> 0 .. 2]
  /\ lost \in [Delivery -> 0 .. 2]

Init ==
  /\ config = [enabled |-> FALSE, host |-> FALSE, password |-> Nothing]
  /\ saver = [s \in Saver |-> Rest]
  /\ saves = 0 /\ mixed = FALSE
  /\ entry = [d \in Delivery |-> "none"]
  /\ sender = [d \in Delivery |-> [step |-> "new", attempts |-> 0, error |-> FALSE]]
  /\ accepted = [d \in Delivery |-> 0]
  /\ lost = [d \in Delivery |-> 0]
-----------------------------------------------------------------------------
\* Config.Validate: the relay is required once mail is on.
Valid(c) == c.enabled => c.host

Patched(c, patch) ==
  [enabled  |-> IF patch.enabled = Nothing THEN c.enabled ELSE patch.enabled,
   host     |-> IF patch.host = Nothing THEN c.host ELSE patch.host,
   password |-> IF patch.password = Nothing THEN c.password
                ELSE IF patch.password = "" THEN Nothing ELSE patch.password]

\* updateMailSettings reads all rows, applies the PATCH and validates the result.
LoadConfig(s, patch) ==
  /\ saver[s] = Rest /\ saves < MaxSaves
  /\ saves' = saves + 1
  /\ Valid(Patched(config, patch))
  /\ saver' = [saver EXCEPT ![s] = [step |-> "save", patch |-> patch,
                                     after |-> Patched(config, patch)]]
  /\ UNCHANGED <<config, mixed, entry, sender, accepted, lost>>

\* saveMailConfig writes every row but the password's in one transaction, and
\* that one only when the request names a password.
SaveConfig(s) ==
  /\ saver[s].step = "save"
  /\ config' = [saver[s].after EXCEPT !.password =
                  IF saver[s].patch.password = Nothing THEN config.password ELSE @]
  /\ mixed' = FALSE
  /\ saver' = [saver EXCEPT ![s] = Rest]
  /\ UNCHANGED <<saves, entry, sender, accepted, lost>>

\* updateSettings and rollbackSetting commit any of the rows but the password's, and
\* validate nothing.
ChangeRows(next) ==
  /\ saves < MaxSaves /\ next.password = config.password
  /\ saves' = saves + 1
  /\ config' = next /\ mixed' = TRUE
  /\ UNCHANGED <<saver, entry, sender, accepted, lost>>
-----------------------------------------------------------------------------
\* record inserts the row of the delivery; a failure is only logged.
Record(d) == \E row \in {"queued", "none"} : entry' = [entry EXCEPT ![d] = row]

\* Notify: with mail on and a valid configuration, the delivery is recorded and the
\* message goes to the background.
Notify(d) ==
  /\ sender[d].step = "new"
  /\ config.enabled /\ Valid(config)
  /\ Record(d)
  /\ sender' = [sender EXCEPT ![d].step = "send"]
  /\ UNCHANGED <<config, saver, saves, mixed, accepted, lost>>

\* SendNow, the test of an administrator, is the same in the request, without a retry.
SendNow(d) ==
  /\ sender[d].step = "new"
  /\ config.enabled /\ Valid(config)
  /\ Record(d)
  /\ sender' = [sender EXCEPT ![d].step = "send", ![d].attempts = 1]
  /\ UNCHANGED <<config, saver, saves, mixed, accepted, lost>>

\* Deliver, one SMTP session: the relay refuses, accepts, or accepts while the
\* Server sees an error (of the end of the message or of QUIT).
Sessions == {[taken |-> TRUE, error |-> FALSE], [taken |-> FALSE, error |-> TRUE],
             [taken |-> TRUE, error |-> TRUE]}

\* Mutant: the second attempt is made whatever came of the first.
AttemptTwice(d) ==
  /\ sender[d].step = "send"
  /\ \E smtp \in Sessions :
       /\ accepted' = IF smtp.taken THEN [accepted EXCEPT ![d] = @ + 1] ELSE accepted
       /\ lost' = IF smtp.taken /\ smtp.error
                  THEN [lost EXCEPT ![d] = @ + 1] ELSE lost
       /\ sender' = [sender EXCEPT
            ![d] = [step |-> IF @.attempts = 0 THEN "send" ELSE "done",
                    attempts |-> @.attempts + 1, error |-> smtp.error]]
  /\ UNCHANGED <<config, saver, saves, mixed, entry>>

\* deliver: one session, and one more on an error.
Attempt(d) ==
  /\ sender[d].step = "send"
  /\ \E smtp \in Sessions :
       /\ accepted' = IF smtp.taken THEN [accepted EXCEPT ![d] = @ + 1] ELSE accepted
       /\ lost' = IF smtp.taken /\ smtp.error
                  THEN [lost EXCEPT ![d] = @ + 1] ELSE lost
       /\ sender' = [sender EXCEPT
            ![d] = [step |-> IF smtp.error /\ @.attempts = 0 THEN "send" ELSE "done",
                    attempts |-> @.attempts + 1, error |-> smtp.error]]
  /\ UNCHANGED <<config, saver, saves, mixed, entry>>

\* complete: the outcome of the last attempt is written over the row, if there is
\* one; the statement can fail, which is only logged.
Complete(d) ==
  /\ sender[d].step = "done"
  /\ sender' = [sender EXCEPT ![d].step = "over"]
  /\ \/ entry' = [entry EXCEPT ![d] = IF @ = "none" THEN @
                                      ELSE IF sender[d].error THEN "failed" ELSE "sent"]
     \/ UNCHANGED entry
  /\ UNCHANGED <<config, saver, saves, mixed, accepted, lost>>

\* The process stops: background deliveries are not taken up again.
Stop ==
  /\ \E d \in Delivery : sender[d].step \in {"send", "done"}
  /\ sender' = [d \in Delivery |-> IF sender[d].step = "new" THEN sender[d]
                                   ELSE [sender[d] EXCEPT !.step = "over"]]
  /\ saver' = [s \in Saver |-> Rest]
  /\ UNCHANGED <<config, saves, mixed, entry, accepted, lost>>

\* prune removes old rows, which are those of deliveries long over.
Prune ==
  /\ \E d \in Delivery : sender[d].step = "over" /\ entry[d] # "none"
  /\ entry' = [d \in Delivery |-> IF sender[d].step = "over" THEN "none" ELSE entry[d]]
  /\ UNCHANGED <<config, saver, saves, mixed, sender, accepted, lost>>

Next ==
  \/ \E s \in Saver : (\E patch \in Patches : LoadConfig(s, patch)) \/ SaveConfig(s)
  \/ \E next \in Configs : ChangeRows(next)
  \/ \E d \in Delivery : Notify(d) \/ SendNow(d) \/ Attempt(d) \/ Complete(d)
  \/ Stop \/ Prune

Spec == Init /\ [][Next]_mailVars
-----------------------------------------------------------------------------
\* The log tells the truth: "sent" only for a message the relay accepted, and
\* "failed" only when no attempt was acknowledged; a row that still says "queued"
\* after its delivery ended may be either (complete).
LogIsTrue ==
  \A d \in Delivery :
    /\ entry[d] = "sent"   => accepted[d] > 0
    /\ entry[d] = "failed" => accepted[d] = lost[d]

\* Nobody gets a message twice unless the acknowledgement of the first was lost
\* (deliver).
TwiceOnlyAfterLoss == \A d \in Delivery : accepted[d] = 2 => lost[d] > 0

\* Two administrators saving the form at once never leave mail on without a relay: the
\* rows are ones that were validated together, whatever was stored when the form was
\* loaded, until one of them is changed as a setting of its own (saveMailConfig).
StoredTogether == ~ mixed => Valid(config)

\* What the log, the recipients and the form of the mail service rely on
\* (mail/service.go, saveMailConfig).
MailSafe == LogIsTrue /\ TwiceOnlyAfterLoss /\ StoredTogether
=============================================================================
