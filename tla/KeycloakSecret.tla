--------------------------- MODULE KeycloakSecret ---------------------------
(***************************************************************************)
(* The client secret of Keycloak (auth/oidc.go).  Releases before the shared*)
(* setting kept it in a file of each Pod; a Pod that reads the secret and   *)
(* finds no setting migrates its own file's value.  Two Pods, and an        *)
(* administrator who saves a new secret, may do so at once.                 *)
(*                                                                         *)
(* The empty secret an administrator may store while the login is disabled  *)
(* is a value like the others; 0 is no value.                               *)
(***************************************************************************)
EXTENDS Naturals

CONSTANTS
  SecretPod,  \* the Server Pods
  Secrets,    \* the secrets there are: positive numbers
  Empty       \* the one of them that is the empty string

VARIABLES
  shared,     \* the setting keycloak.client_secret
  enabled,    \* whether the Keycloak settings enable the login
  fileSecret, \* Pod -> the secret in its bootstrap.enc
  reader,     \* Pod -> its call of clientSecret and the SaveSettings it is for
  used,       \* Pod -> the secret its last call returned
  saved,      \* the secret an administrator stored last
  everShared  \* the values the setting ever had

secretVars == <<shared, enabled, fileSecret, reader, used, saved, everShared>>

Optional == Secrets \cup {0}
NoSave   == [enable |-> FALSE, secret |-> 0]
Quiet    == [at |-> "idle", save |-> NoSave, saving |-> FALSE, found |-> 0]

TypeOK ==
  /\ shared \in Optional /\ saved \in Optional /\ everShared \subseteq Secrets
  /\ enabled \in BOOLEAN
  /\ fileSecret \in [SecretPod -> Optional]
  /\ reader \in [SecretPod -> [at : {"idle", "read", "migrate", "reread", "save"},
       save : [enable : BOOLEAN, secret : Optional], saving : BOOLEAN, found : Optional]]
  /\ used \in [SecretPod -> Optional]

Init ==
  /\ shared = 0 /\ saved = 0 /\ everShared = {}
  /\ enabled \in BOOLEAN
  /\ fileSecret \in [SecretPod -> Optional \ {Empty}]
  /\ reader = [p \in SecretPod |-> Quiet]
  /\ used = [p \in SecretPod |-> 0]

At(p, step) == reader[p].at = step

\* A login, the settings page, or SaveSettings with its settings and, when the
\* request has one, a secret, asks for the secret.
ClientSecret(p) ==
  /\ At(p, "idle")
  /\ reader' = [reader EXCEPT ![p] = [Quiet EXCEPT !.at = "read"]]
  /\ UNCHANGED <<shared, enabled, fileSecret, used, saved, everShared>>

SaveSettings(p, enable, secret) ==
  /\ At(p, "idle")
  /\ reader' = [reader EXCEPT ![p] = [Quiet EXCEPT !.at = "read",
       !.saving = TRUE, !.save = [enable |-> enable, secret |-> secret]]]
  /\ UNCHANGED <<shared, enabled, fileSecret, used, saved, everShared>>

\* clientSecret returns: to SaveSettings, which checks its rules, or to a login.
Return(p, secret) ==
  LET save == reader[p].save
      refused == save.enable /\
        (save.secret = Empty \/ (save.secret = 0 /\ secret \in {0, Empty})) IN
  /\ used' = [used EXCEPT ![p] = secret]
  /\ reader' = [reader EXCEPT ![p] =
       IF reader[p].saving /\ ~refused THEN [@ EXCEPT !.at = "save"] ELSE Quiet]

\* clientSecret: the shared setting wins; without it the Pod's file is read.
ReadShared(p) ==
  /\ At(p, "read")
  /\ IF shared # 0 \/ fileSecret[p] = 0
     THEN Return(p, shared)
     ELSE /\ reader' = [reader EXCEPT ![p].at = "migrate", ![p].found = fileSecret[p]]
          /\ UNCHANGED used
  /\ UNCHANGED <<shared, enabled, fileSecret, saved, everShared>>

\* clientSecret: INSERT ... ON CONFLICT (key) DO NOTHING.
Migrate(p) ==
  /\ At(p, "migrate")
  /\ shared' = IF shared = 0 THEN reader[p].found ELSE shared
  /\ everShared' = everShared \cup {shared'}
  /\ reader' = [reader EXCEPT ![p].at = "reread"]
  /\ UNCHANGED <<enabled, fileSecret, used, saved>>

\* clientSecret: the winner is read back.
ReadWinner(p) ==
  /\ At(p, "reread")
  /\ Return(p, shared)
  /\ UNCHANGED <<shared, enabled, fileSecret, saved, everShared>>

\* SaveSettings: one transaction stores the settings and the secret, if any.
CommitSettings(p) ==
  LET save == reader[p].save IN
  /\ At(p, "save")
  /\ enabled' = save.enable
  /\ IF save.secret = 0
     THEN UNCHANGED <<shared, saved, everShared>>
     ELSE shared' = save.secret /\ saved' = save.secret
          /\ everShared' = everShared \cup {save.secret}
  /\ reader' = [reader EXCEPT ![p] = Quiet]
  /\ UNCHANGED <<fileSecret, used>>

Next == \E p \in SecretPod :
  \/ ClientSecret(p)
  \/ \E enable \in BOOLEAN, secret \in Optional : SaveSettings(p, enable, secret)
  \/ ReadShared(p) \/ Migrate(p) \/ ReadWinner(p) \/ CommitSettings(p)

Spec == Init /\ [][Next]_secretVars

-----------------------------------------------------------------------------
\* "migrate it with an insert-if-absent and then read the winner back"
\* (oidc.go:884): a secret an administrator stored is never replaced by the one
\* in some Pod's old file, however late that Pod migrates.
AdministratorsSecretStays == saved # 0 => shared = saved

\* No Pod goes to Keycloak with a secret the Pods never shared.
SharedSecretUsed == \A p \in SecretPod : used[p] \in everShared \cup {0}
=============================================================================
