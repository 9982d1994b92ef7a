------------------------------ MODULE Accounts ------------------------------
(***************************************************************************)
(* The users table as the administrators (httpapi/users.go) and the logins  *)
(* through Keycloak (provisionUser and replaceKeycloakRoles, auth/oidc.go)  *)
(* change it.  A handler reads the account and the rules' other rows at the *)
(* beginning of its transaction and writes at its end; PostgreSQL runs them *)
(* at READ COMMITTED, so others may commit in between.                      *)
(***************************************************************************)
EXTENDS Naturals, FiniteSets

CONSTANTS
  User,       \* the users there may ever be
  Founder,    \* the ones there are at first: administrators by a local role
  Change,     \* requests that may be open at once
  SuperAdmin, \* the role super_admin
  Viewer      \* any other role, and the DefaultRole of the Keycloak settings

VARIABLES
  user,   \* User -> its row and its roles by source
  change  \* request -> what it has read and is about to write

accountVars == <<user, change>>

Role   == {SuperAdmin, Viewer}
Absent == [state |-> "absent", active |-> FALSE, super |-> FALSE, local |-> {},
           keycloak |-> {}]
Nobody == [at |-> "idle", user |-> CHOOSE u \in User : TRUE, active |-> FALSE,
           super |-> FALSE, roles |-> {}, replace |-> FALSE]

TypeOK ==
  /\ user \in [User -> [state : {"absent", "live", "deleted"}, active : BOOLEAN,
                        super : BOOLEAN, local : SUBSET Role,
                        keycloak : SUBSET Role]]
  /\ change \in [Change -> [at : {"idle", "update", "delete", "login", "synced"},
                            user : User, active : BOOLEAN, super : BOOLEAN,
                            roles : SUBSET Role, replace : BOOLEAN]]

Init ==
  /\ user = [u \in User |->
       IF u \in Founder
       THEN [Absent EXCEPT !.state = "live", !.active = TRUE, !.super = TRUE,
                           !.local = {SuperAdmin}]
       ELSE Absent]
  /\ change = [c \in Change |-> Nobody]

At(c, step) == change[c].at = step
Done(c)     == change' = [change EXCEPT ![c] = Nobody]
Live(u)     == user[u].state = "live"
Administrator(u) == Live(u) /\ user[u].active /\ user[u].super

\* requireAnotherActiveSuperAdmin.
AnotherAdministrator(u) == \E v \in User \ {u} : Administrator(v)

\* createUser: the name is free and the roles are valid; one transaction.
CreateUser(u, roles) ==
  /\ user[u].state = "absent" /\ roles # {}
  /\ user' = [user EXCEPT ![u] = [Absent EXCEPT !.state = "live", !.active = TRUE,
                !.super = SuperAdmin \in roles, !.local = roles]]
  /\ UNCHANGED change

\* updateUser: an account keeps a role, a local one or one from Keycloak.
UpdateRoles(u, roles) == roles # {} \/ user[u].keycloak # {}

\* updateUser: the account is read, the request's fields replace what was read,
\* and the rules are checked.  replace says that the request names roles; without
\* them the super_admin flag that was read is written back.
UpdateUser(c, actor, u, active, replace, roles) ==
  LET super == IF replace THEN SuperAdmin \in roles \cup user[u].keycloak
                          ELSE user[u].super IN
  /\ At(c, "idle") /\ Administrator(actor) /\ Live(u)
  /\ IF replace THEN UpdateRoles(u, roles) ELSE roles = {}
  /\ ~(actor = u /\ (~active \/ (user[u].super /\ ~super)))
  /\ (Administrator(u) /\ (~active \/ ~super)) => AnotherAdministrator(u)
  /\ change' = [change EXCEPT ![c] = [at |-> "update", user |-> u,
       active |-> active, super |-> super, roles |-> roles, replace |-> replace]]
  /\ UNCHANGED user

\* updateUser: the row is written unless it was deleted meanwhile, the local
\* roles in any case.
CommitUpdate(c) ==
  LET w   == change[c]
      row == user[w.user] IN
  /\ At(c, "update")
  /\ user' = [user EXCEPT ![w.user] = [row EXCEPT
       !.active = IF Live(w.user) THEN w.active ELSE row.active,
       !.super  = IF Live(w.user) THEN w.super ELSE row.super,
       !.local  = IF w.replace THEN w.roles ELSE row.local]]
  /\ Done(c)

\* deleteUser: not one's own account, nor the last administrator.
DeleteUser(c, actor, u) ==
  /\ At(c, "idle") /\ Administrator(actor) /\ actor # u /\ Live(u)
  /\ Administrator(u) => AnotherAdministrator(u)
  /\ change' = [change EXCEPT ![c] = [Nobody EXCEPT !.at = "delete", !.user = u]]
  /\ UNCHANGED user

\* deleteUser: the row stays, inactive and under a retired name.
CommitDelete(c) ==
  /\ At(c, "delete")
  /\ user' = [user EXCEPT ![change[c].user].state = "deleted",
                          ![change[c].user].active = FALSE]
  /\ Done(c)

\* provisionUser: a Keycloak subject without an account gets one.
ProvisionUser(u, roles) ==
  /\ user[u].state = "absent" /\ roles # {}
  /\ user' = [user EXCEPT ![u] = [Absent EXCEPT !.state = "live", !.active = TRUE,
                !.super = SuperAdmin \in roles, !.keycloak = roles]]
  /\ UNCHANGED change

\* provisionUser: a linked account is found active; the claims map to roles, to
\* DefaultRole when to none.
LoginWithKeycloak(c, u, roles) ==
  /\ At(c, "idle") /\ Live(u) /\ user[u].active /\ user[u].keycloak # {}
  /\ roles # {}
  /\ change' = [change EXCEPT ![c] = [Nobody EXCEPT
       !.at = "login", !.user = u, !.roles = roles]]
  /\ UNCHANGED user

\* replaceKeycloakRoles: the grants from Keycloak are replaced, and the flag is
\* computed from these and the local grants there are now.  Another login of the
\* account waits for the identity's row.
ReplaceKeycloakRoles(c) ==
  LET w == change[c] IN
  /\ At(c, "login")
  /\ \A d \in Change : ~(At(d, "synced") /\ change[d].user = w.user)
  /\ change' = [change EXCEPT ![c].at = "synced",
       ![c].super = SuperAdmin \in w.roles \cup user[w.user].local]
  /\ UNCHANGED user

CommitLogin(c) ==
  LET w == change[c] IN
  /\ At(c, "synced")
  /\ user' = [user EXCEPT ![w.user] = [@ EXCEPT !.super = w.super,
                                                !.keycloak = w.roles]]
  /\ Done(c)

Next ==
  \/ \E u \in User, roles \in SUBSET Role :
       CreateUser(u, roles) \/ ProvisionUser(u, roles)
  \/ \E c \in Change :
       \/ \E actor, u \in User, active, replace \in BOOLEAN, roles \in SUBSET Role :
            UpdateUser(c, actor, u, active, replace, roles)
       \/ CommitUpdate(c)
       \/ \E actor, u \in User : DeleteUser(c, actor, u)
       \/ CommitDelete(c)
       \/ \E u \in User, roles \in SUBSET Role : LoginWithKeycloak(c, u, roles)
       \/ ReplaceKeycloakRoles(c) \/ CommitLogin(c)

Spec == Init /\ [][Next]_accountVars

-----------------------------------------------------------------------------
\* "At least one role is required" (users.go, createUser and updateUser): no
\* order of local changes and Keycloak logins leaves a live account without one.
\* It needs the DefaultRole the settings are shipped with.
EveryAccountHasRole ==
  \A u \in User : Live(u) => user[u].local \cup user[u].keycloak # {}

\* A deleted account stays inactive, also when an update that had read it before
\* is written after the deletion.
DeletedStaysInactive ==
  \A u \in User : user[u].state = "deleted" => ~user[u].active

\* "The last active Super Admin cannot be deactivated, demoted or deleted"
\* (docs/SERVER_INSTALLATION.md:1207).  It does not hold: two requests that each
\* take the role from one of the last two count the other one as remaining.
SomeAdministrator == \E u \in User : Administrator(u)

\* "Permissions come only from role grants" (users.go:388): the flag that gives
\* every permission (HasPermission) is set only with the role.  It does not hold: an
\* update writes the flag from the roles it read before the role was taken.
FlagHasGrant ==
  \A u \in User : user[u].super => SuperAdmin \in user[u].local \cup user[u].keycloak
=============================================================================
