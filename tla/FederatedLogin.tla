--------------------------- MODULE FederatedLogin ---------------------------
(***************************************************************************)
(* Logins through Keycloak (auth/oidc.go).  Start stores a single-use flow  *)
(* and sends the browser to the provider; the callback loads the flow,      *)
(* exchanges the code, claims the flow, finds or makes the account and opens*)
(* a session.  Statements of two callbacks may alternate, and an            *)
(* administrator may point the server to another issuer at any time.        *)
(*                                                                         *)
(* Everybody who logs in has the same `sub`, which is unique within one     *)
(* issuer only: a person is the issuer that vouches for it.                 *)
(***************************************************************************)
EXTENDS Naturals, FiniteSets

CONSTANTS
  Flow,      \* the flows that are ever started
  Callback,  \* callbacks that may be open at once
  Issuer,    \* the realms the settings may name
  Username,  \* the names the claims may carry; one account each
  Nothing    \* no issuer, no account

VARIABLES
  issuer,    \* the issuer of the Keycloak settings
  flow,      \* the oidc_flows rows
  callback,  \* callback -> what it has read
  identity,  \* issuer -> account, the external_identities rows
  legacy,    \* the row of v0.2.14, without issuer: its account and stored `iss`
  owner,     \* account -> the person it was made for
  entered    \* <<flow, person, account>> of the sessions opened

federatedVars == <<issuer, flow, callback, identity, legacy, owner, entered>>

Blank == [at |-> "idle", flow |-> CHOOSE f \in Flow : TRUE, issuer |-> Nothing,
          account |-> Nothing]
Stages == {"idle", "refuse", "exchanged", "claimed", "migrate", "relook",
           "create", "open"}

TypeOK ==
  /\ issuer \in Issuer
  /\ flow \in [Flow -> [state : {"none", "open", "consumed", "gone"},
                        expired : BOOLEAN, issuer : Issuer \cup {Nothing}]]
  /\ callback \in [Callback -> [at : Stages, flow : Flow,
                     issuer : Issuer \cup {Nothing}, account : Username \cup {Nothing}]]
  /\ identity \in [Issuer -> Username \cup {Nothing}]
  /\ legacy \in [account : Username \cup {Nothing}, iss : Issuer \cup {Nothing}]
  /\ owner \in [Username -> Issuer \cup {Nothing}]
  /\ entered \subseteq Flow \X Issuer \X Username

\* A database of v0.2.14 may hold one row; its claims may lack the issuer.
Init ==
  /\ issuer \in Issuer
  /\ flow = [f \in Flow |-> [state |-> "none", expired |-> FALSE, issuer |-> Nothing]]
  /\ callback = [c \in Callback |-> Blank]
  /\ identity = [i \in Issuer |-> Nothing]
  /\ \E person \in Issuer, name \in Username, iss \in BOOLEAN, row \in BOOLEAN :
       /\ legacy = IF row THEN [account |-> name, iss |-> IF iss THEN person ELSE Nothing]
                          ELSE [account |-> Nothing, iss |-> Nothing]
       /\ owner = [u \in Username |-> IF row /\ u = name THEN person ELSE Nothing]
  /\ entered = {}

At(c, stage) == callback[c].at = stage
Go(c, stage) == callback' = [callback EXCEPT ![c].at = stage]
Answer(c)    == callback' = [callback EXCEPT ![c] = Blank]
Usable(f)    == flow[f].state = "open" /\ ~flow[f].expired

\* SaveSettings: another realm.
SaveIssuer(i) ==
  /\ i # issuer
  /\ issuer' = i
  /\ UNCHANGED <<flow, callback, identity, legacy, owner, entered>>

\* Start: finished and expired flows are deleted, and a new one is stored.
Start(f) ==
  /\ flow[f].state = "none"
  /\ flow' = [g \in Flow |->
       IF g = f THEN [state |-> "open", expired |-> FALSE, issuer |-> issuer]
       ELSE IF flow[g].state = "consumed" \/ (flow[g].state = "open" /\ flow[g].expired)
            THEN [flow[g] EXCEPT !.state = "gone"] ELSE flow[g]]
  /\ UNCHANGED <<issuer, callback, identity, legacy, owner, entered>>

\* Ten minutes later.
Expire(f) ==
  /\ Usable(f)
  /\ flow' = [flow EXCEPT ![f].expired = TRUE]
  /\ UNCHANGED <<issuer, callback, identity, legacy, owner, entered>>

\* RefusedSilently: the provider answered with an error.
Refused(c, f) ==
  /\ At(c, "idle") /\ Usable(f)
  /\ callback' = [callback EXCEPT ![c] = [Blank EXCEPT !.at = "refuse", !.flow = f]]
  /\ UNCHANGED <<issuer, flow, identity, legacy, owner, entered>>

\* RefusedSilently: UPDATE ... WHERE consumed_at IS NULL.
ConsumeRefused(c) ==
  /\ At(c, "refuse")
  /\ flow' = [flow EXCEPT ![callback[c].flow].state = IF @ = "open" THEN "consumed" ELSE @]
  /\ Answer(c)
  /\ UNCHANGED <<issuer, identity, legacy, owner, entered>>

\* Callback: the settings and the flow are read, and the code is exchanged: the
\* provider that issued it answers, with the nonce of the flow.  (Every failure
\* up to here is only answered.)
Exchange(c, f) ==
  /\ At(c, "idle") /\ Usable(f) /\ flow[f].issuer = issuer
  /\ callback' = [callback EXCEPT ![c] = [Blank EXCEPT
       !.at = "exchanged", !.flow = f, !.issuer = issuer]]
  /\ UNCHANGED <<issuer, flow, identity, legacy, owner, entered>>

\* Callback: the UPDATE that affects one row claims the flow.
ClaimFlow(c) ==
  LET f == callback[c].flow IN
  /\ At(c, "exchanged")
  /\ IF flow[f].state = "open"
     THEN flow' = [flow EXCEPT ![f].state = "consumed"] /\ Go(c, "claimed")
     ELSE UNCHANGED flow /\ Answer(c)
  /\ UNCHANGED <<issuer, identity, legacy, owner, entered>>

\* provisionUser: the identity of this issuer and subject; when there is none a
\* legacy row is looked for, and after a migration the identity once more.
LookUp(c) ==
  LET account == identity[callback[c].issuer] IN
  /\ At(c, "claimed") \/ At(c, "relook")
  /\ callback' = [callback EXCEPT ![c].account = account,
       ![c].at = IF account # Nothing THEN "open"
                 ELSE IF At(c, "claimed") THEN "migrate" ELSE "create"]
  /\ UNCHANGED <<issuer, flow, identity, legacy, owner, entered>>

\* Mutant: the legacy row goes to whoever presents its subject.
MigrateAnyLegacy(c) ==
  LET i == callback[c].issuer IN
  /\ At(c, "migrate")
  /\ IF legacy.account # Nothing
     THEN /\ identity' = [identity EXCEPT ![i] = legacy.account]
          /\ legacy' = [account |-> Nothing, iss |-> Nothing]
          /\ Go(c, "relook")
     ELSE Go(c, "create") /\ UNCHANGED <<identity, legacy>>
  /\ UNCHANGED <<issuer, flow, owner, entered>>

\* migrateLegacyOIDCIdentity: the row gets the issuer its verified claims name,
\* and only that one.  The unique key refuses a second row of the identity.
MigrateLegacy(c) ==
  LET i == callback[c].issuer IN
  /\ At(c, "migrate")
  /\ IF legacy.account = Nothing \/ legacy.iss # i
     THEN Go(c, "create") /\ UNCHANGED <<identity, legacy>>
     ELSE IF identity[i] # Nothing
     THEN Answer(c) /\ UNCHANGED <<identity, legacy>>
     ELSE /\ identity' = [identity EXCEPT ![i] = legacy.account]
          /\ legacy' = [account |-> Nothing, iss |-> Nothing]
          /\ Go(c, "relook")
  /\ UNCHANGED <<issuer, flow, owner, entered>>

\* Mutant: an account of the name in the claims is linked to the identity.
LinkByName(c, name) ==
  LET i == callback[c].issuer IN
  /\ At(c, "create")
  /\ IF identity[i] = Nothing
     THEN /\ owner' = [owner EXCEPT ![name] = IF @ = Nothing THEN i ELSE @]
          /\ identity' = [identity EXCEPT ![i] = name]
          /\ callback' = [callback EXCEPT ![c].at = "open", ![c].account = name]
     ELSE Answer(c) /\ UNCHANGED <<owner, identity>>
  /\ UNCHANGED <<issuer, flow, legacy, entered>>

\* provisionUser: a new account under the name the claims carry; a taken name or
\* identity is answered with an error.
ProvisionUser(c, name) ==
  LET i == callback[c].issuer IN
  /\ At(c, "create")
  /\ IF owner[name] = Nothing /\ identity[i] = Nothing
     THEN /\ owner' = [owner EXCEPT ![name] = i]
          /\ identity' = [identity EXCEPT ![i] = name]
          /\ callback' = [callback EXCEPT ![c].at = "open", ![c].account = name]
     ELSE Answer(c) /\ UNCHANGED <<owner, identity>>
  /\ UNCHANGED <<issuer, flow, legacy, entered>>

\* Callback: createSession.
OpenSession(c) ==
  /\ At(c, "open")
  /\ entered' = entered \cup {<<callback[c].flow, callback[c].issuer, callback[c].account>>}
  /\ Answer(c)
  /\ UNCHANGED <<issuer, flow, identity, legacy, owner>>

Next ==
  \/ \E i \in Issuer : SaveIssuer(i)
  \/ \E f \in Flow : Start(f) \/ Expire(f)
  \/ \E c \in Callback :
       \/ \E f \in Flow : Refused(c, f) \/ Exchange(c, f)
       \/ ConsumeRefused(c) \/ ClaimFlow(c) \/ LookUp(c) \/ MigrateLegacy(c)
       \/ \E name \in Username : ProvisionUser(c, name)
       \/ OpenSession(c)

Spec == Init /\ [][Next]_federatedVars

-----------------------------------------------------------------------------
\* "Claim the single-use flow before anything is created" (oidc.go:780): of the
\* callbacks that race on one state value at most one gets past the claim, so no
\* callback works on an account for a flow another one has opened a session for.
OneCallbackPerFlow ==
  \A c, d \in Callback : c # d /\ callback[c].flow = callback[d].flow
      /\ callback[c].at \in {"claimed", "migrate", "relook", "create", "open"} =>
    /\ callback[d].at \notin {"claimed", "migrate", "relook", "create", "open"}
    /\ \A e \in entered : e[1] # callback[c].flow

\* "trusting only a repeated `sub` would let the new realm take over the old local
\* account" (oidc.go:1167): a session is opened on an account only for the person
\* it was made for, whatever realm the settings named in between.
NoTakeover == \A e \in entered : owner[e[3]] = e[2]
=============================================================================
