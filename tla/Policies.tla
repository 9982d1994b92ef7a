------------------------------ MODULE Policies ------------------------------
(***************************************************************************)
(* The two policy documents of server_metadata: agent enrollment            *)
(* (httpapi/agent_enrollment_settings.go) and tracking (httpapi/tracking.go). *)
(* A writer loads the document, changes a copy, and replaces the stored text *)
(* only if it is still the text it read; after several lost races it answers *)
(* 409.  The text of a document holds its version and time, so two versions  *)
(* are never equal.                                                         *)
(***************************************************************************)
EXTENDS Naturals, FiniteSets
CONSTANTS
  Writer,       \* administrators' requests
  Host,         \* networks and origins a list may hold
  Attempts,     \* how often a writer tries (5 in the code)
  MaxVersions   \* bound: versions of a document
VARIABLES
  policy,       \* which document this behaviour is about
  document,     \* its stored text; version 0: there is no row
  writer,       \* what each request is doing
  allowed,      \* history: the hosts the last acknowledged changes left allowed
  issued,       \* history: the token of the last acknowledged issue or deletion
  early         \* history: a request was answered 409 before it was overtaken often

policyVars == <<policy, document, writer, allowed, issued, early>>

Initial == [version |-> 0, enabled |-> FALSE, protected |-> FALSE, token |-> 0,
          restricted |-> FALSE, hosts |-> {}]
Documents == [version : 0 .. MaxVersions, enabled : BOOLEAN, protected : BOOLEAN,
              token : 0 .. MaxVersions, restricted : BOOLEAN, hosts : SUBSET Host]

\* The requests.  The enrollment settings name a mode, and may change the network
\* mode or replace the network list; a token is issued or deleted.  Of tracking the
\* switch or the list of hosts is set, or the host of a violation is added.
None == [kind |-> "none", mode |-> "", network |-> "", list |-> {}]
Lists == {{hosts} : hosts \in SUBSET Host}  \* a list that is given
EnrollmentSettings ==
  [kind : {"settings"}, mode : {"disabled", "open", "token"},
   network : {"", "any", "allowlist"}, list : {{}} \cup Lists]
IssueToken == [None EXCEPT !.kind = "issue"]
DeleteToken == [None EXCEPT !.kind = "delete"]
TrackingSettings ==
  {[None EXCEPT !.kind = k] : k \in {"on", "off"}}
    \cup {[None EXCEPT !.kind = "replace", !.list = l] : l \in Lists}
AllowHost == {[None EXCEPT !.kind = "allow", !.list = {{h}}] : h \in Host}
Changes == IF policy = "enrollment" THEN EnrollmentSettings \cup {IssueToken, DeleteToken}
           ELSE TrackingSettings \cup AllowHost

Resting == [step |-> "rest", change |-> None, read |-> Initial, tries |-> 0, since |-> 0]

TypeOK ==
  /\ policy \in {"enrollment", "tracking"}
  /\ document \in Documents
  /\ writer \in [Writer -> [step : {"rest", "load", "save"}, change : Changes \cup {None},
                            read : Documents, tries : 0 .. Attempts, since : 0 .. MaxVersions]]
  /\ allowed \subseteq Host
  /\ issued \in 0 .. MaxVersions
  /\ early \in BOOLEAN

Init ==
  /\ policy \in {"enrollment", "tracking"}
  /\ document = Initial
  /\ writer = [w \in Writer |-> Resting]
  /\ allowed = {} /\ issued = 0 /\ early = FALSE
-----------------------------------------------------------------------------
\* What a mutate function makes of a document.  A new token is told apart by the
\* version.
Applied(c, d) ==
  LET next == [d EXCEPT !.version = @ + 1]
  IN  IF c.kind = "settings" THEN
        [next EXCEPT
          !.enabled = c.mode # "disabled",
          !.protected = IF c.mode = "disabled" THEN @ ELSE c.mode = "token",
          !.restricted = IF c.network = "" THEN @ ELSE c.network = "allowlist",
          !.hosts = IF c.list = {} THEN @ ELSE UNION c.list]
      ELSE IF c.kind = "issue" THEN
        [next EXCEPT !.enabled = TRUE, !.protected = TRUE, !.token = next.version]
      ELSE IF c.kind = "delete" THEN [next EXCEPT !.protected = FALSE, !.token = 0]
      ELSE IF c.kind \in {"on", "off"} THEN [next EXCEPT !.enabled = c.kind = "on"]
      ELSE IF c.kind = "allow" THEN [next EXCEPT !.hosts = @ \cup UNION c.list]
      ELSE [next EXCEPT !.hosts = UNION c.list]  \* "replace"

\* Whether it admits the change: a protected mode needs a token, a restriction a
\* network.
Accepted(c, d) ==
  /\ c.mode = "token" => d.token # 0
  /\ c.kind = "settings" /\ Applied(c, d).restricted => Applied(c, d).hosts # {}

Ask(w, c) ==
  /\ writer[w] = Resting
  /\ document.version < MaxVersions
  /\ writer' = [writer EXCEPT ![w] = [Resting EXCEPT !.step = "load", !.change = c,
                                       !.since = document.version]]
  /\ UNCHANGED <<policy, document, allowed, issued, early>>

\* The first load of the enrollment policy stores the one of the start-up
\* environment, with or without a token; a missing tracking row stays missing.
Initialised ==
  IF policy = "enrollment" /\ document.version = 0
    THEN {[Initial EXCEPT !.version = 1, !.enabled = TRUE, !.protected = (t # 0), !.token = t] :
            t \in {0, 1}}
    ELSE {document}

\* One attempt loads the document; a change it does not admit is answered 400 or
\* 409 without another attempt.
Load(w) ==
  /\ writer[w].step = "load"
  /\ \E d \in Initialised :
       /\ document' = d
       /\ issued' = IF d # document THEN d.token ELSE issued
       /\ writer' = [writer EXCEPT ![w] =
            IF Accepted(@.change, d) /\ d.version < MaxVersions
              THEN [@ EXCEPT !.step = "save", !.read = d] ELSE Resting]
  /\ UNCHANGED <<policy, allowed, early>>

\* updateTrackingPolicy, and its twin for enrollment: one row is changed if its
\* text is the one that was read, or inserted if there was none.
StillRead(w) == document = writer[w].read

\* The acknowledged change, as the histories remember it.
Acknowledge(c, d) ==
  /\ allowed' = IF c.kind = "allow" THEN allowed \cup UNION c.list
                ELSE IF c.kind = "replace" THEN UNION c.list ELSE allowed
  /\ issued' = IF c.kind = "issue" THEN d.token ELSE IF c.kind = "delete" THEN 0 ELSE issued

\* Mutant: the row is replaced whatever it says by now.
SaveBlindly(w) ==
  LET c == writer[w].change
      d == Applied(c, writer[w].read)
  IN  /\ writer[w].step = "save" /\ UNCHANGED policy
      /\ document' = d
      /\ Acknowledge(c, d)
      /\ writer' = [writer EXCEPT ![w] = Resting]
      /\ UNCHANGED early

\* The changed document replaces the one read, or another attempt is made, or the
\* answer is 409.
Save(w) ==
  LET c == writer[w].change
      d == Applied(c, writer[w].read)
      tries == writer[w].tries + 1
  IN  /\ writer[w].step = "save" /\ UNCHANGED policy
      /\ \/ /\ StillRead(w)
            /\ document' = d
            /\ Acknowledge(c, d)
            /\ writer' = [writer EXCEPT ![w] = Resting]
            /\ UNCHANGED early
         \/ /\ ~ StillRead(w)
            /\ writer' = [writer EXCEPT ![w] = IF tries < Attempts
                            THEN [@ EXCEPT !.step = "load", !.tries = tries] ELSE Resting]
            /\ early' = (early \/ (tries = Attempts /\ document.version < writer[w].since + tries))
            /\ UNCHANGED <<document, allowed, issued>>

Next == \E w \in Writer : (\E c \in Changes : Ask(w, c)) \/ Load(w) \/ Save(w)

Spec == Init /\ [][Next]_policyVars
-----------------------------------------------------------------------------
\* No acknowledged change is undone by a request that had read an older document:
\* a host allowed stays allowed until the list is replaced, and the token that
\* Agents may enroll with is the one last issued (both update functions).
NoChangeLost ==
  /\ policy = "tracking" => document.hosts = allowed
  /\ document.token = issued

\* A stored enrollment policy is one the next load accepts: a protected mode has
\* a token and a restriction has a network, whatever two requests asked for.
PolicyStaysReadable ==
  /\ document.protected => document.token # 0
  /\ document.restricted => document.hosts # {}

\* 409 is answered only to a request that was overtaken by as many changes as it
\* made attempts.
GivesUpOvertaken == ~ early
=============================================================================
