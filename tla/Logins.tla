------------------------------- MODULE Logins -------------------------------
(***************************************************************************)
(* Local logins of one account and the sessions they open (auth/service.go),*)
(* with what an administrator does to the account meanwhile                 *)
(* (httpapi/users.go).  A login reads the account, checks the password and  *)
(* the second factor, and writes what it computed from that read with       *)
(* statements of their own.  A password change, a reset and a deactivation  *)
(* are transactions that end sessions: they revoke the ones they see.       *)
(*                                                                         *)
(* All logins come from one address.  A time of 0 is NULL.                  *)
(***************************************************************************)
EXTENDS Naturals, Sequences, FiniteSets

CONSTANTS
  Client,       \* requests that may be open at once
  Threshold,    \* LockoutThreshold
  LockTime,     \* LockoutDuration
  IpThreshold,  \* IPRateThreshold
  IpWindow,     \* IPRateWindow
  Idle,         \* SessionIdle
  Maximum,      \* SessionMaximum
  MaxClock,     \* bound: the time
  MaxSessions,  \* bound: sessions opened
  MaxEndings    \* bound: password changes, resets and deactivations

VARIABLES
  account,   \* the users row: failed_login_count, locked_until, active
  failures,  \* the times of the failed login_attempts, as they were stored
  session,   \* the sessions rows
  client,    \* request -> what it has read and is about to write
  endings,   \* password changes, resets and deactivations committed
  clock      \* the time

loginVars == <<account, failures, session, client, endings, clock>>

Clock   == 1..MaxClock
Session == 1..MaxSessions
Time    == 0..(MaxClock + Maximum + LockTime + Idle)
Ready   == [at |-> "idle", read |-> 0, failed |-> 0, seen |-> 0, session |-> 0,
            revoke |-> {}]
Step    == {"idle", "checked", "fail", "failUnknown", "reset", "open", "refresh", "acting",
            "change", "changing", "resetting", "deactivating"}

TypeOK ==
  /\ account \in [failed : Nat, lockedUntil : Time, active : BOOLEAN]
  /\ failures \in Seq(Clock)
  /\ session \in Seq([idle : Time, absolute : Time, revoked : BOOLEAN,
                      seen : Nat, raced : BOOLEAN, kept : BOOLEAN])
  /\ Len(session) <= MaxSessions
  /\ client \in [Client -> [at : Step, read : Clock \cup {0}, failed : Nat,
                            seen : Nat, session : Session \cup {0},
                            revoke : SUBSET Session]]
  /\ endings \in 0..MaxEndings
  /\ clock \in Clock

Init ==
  /\ account = [failed |-> 0, lockedUntil |-> 0, active |-> TRUE]
  /\ failures = <<>>
  /\ session = <<>>
  /\ client = [c \in Client |-> Ready]
  /\ endings = 0
  /\ clock = 1

At(c, step) == client[c].at = step
Go(c, step) == client' = [client EXCEPT ![c].at = step]
Done(c)     == client' = [client EXCEPT ![c] = Ready]

\* The transactions that end sessions, while they are open.
Ending(c) == client[c].at \in {"changing", "resetting", "deactivating"}

\* An open one holds the lock of the users row; others that write it wait.
AccountLocked == \E c \in Client : Ending(c)

FailuresWithin(t) ==
  Cardinality({n \in DOMAIN failures : failures[n] <= t /\ t <= failures[n] + IpWindow})

\* ipRateLimited: the failed attempts of the address within the window.
IpRateLimited == FailuresWithin(clock) >= IpThreshold

\* Authenticate: a blocked address is answered without a trace.
CheckAddress(c) ==
  /\ At(c, "idle") /\ ~IpRateLimited
  /\ Go(c, "checked")
  /\ UNCHANGED <<account, failures, session, endings, clock>>

\* Authenticate: the account is read, and the password and the second factor
\* are right or wrong.  An inactive or a locked account is only answered.
Authenticate(c) ==
  /\ At(c, "checked")
  /\ IF account.active /\ clock >= account.lockedUntil
     THEN \E step \in {"fail", "reset"} :
            client' = [client EXCEPT ![c] = [Ready EXCEPT
              !.at = step, !.read = clock, !.failed = account.failed, !.seen = endings]]
     ELSE Done(c)
  /\ UNCHANGED <<account, failures, session, endings, clock>>

\* Authenticate, for a name no account has.
AuthenticateUnknown(c) ==
  /\ At(c, "checked")
  /\ client' = [client EXCEPT ![c] = [Ready EXCEPT
       !.at = "failUnknown", !.read = clock]]
  /\ UNCHANGED <<account, failures, session, endings, clock>>

\* recordLoginAttempt and recordLoginFailure: the count that was read plus one,
\* and the lock that goes with it.
RecordFailure(c) ==
  /\ At(c, "fail") /\ ~AccountLocked
  /\ failures' = Append(failures, client[c].read)
  /\ LET failed == client[c].failed + 1 IN
     account' = [account EXCEPT !.failed = failed,
       !.lockedUntil = IF failed >= Threshold THEN client[c].read + LockTime ELSE 0]
  /\ Done(c)
  /\ UNCHANGED <<session, endings, clock>>

RecordUnknown(c) ==
  /\ At(c, "failUnknown")
  /\ failures' = Append(failures, client[c].read)
  /\ Done(c)
  /\ UNCHANGED <<account, session, endings, clock>>

\* Authenticate: a success clears the failures and the lock.
ClearFailures(c) ==
  /\ At(c, "reset") /\ ~AccountLocked
  /\ account' = [account EXCEPT !.failed = 0, !.lockedUntil = 0]
  /\ Go(c, "open")
  /\ UNCHANGED <<failures, session, endings, clock>>

\* createSession: an INSERT, whatever has become of the account since the read.
CreateSession(c) ==
  /\ At(c, "open") /\ Len(session) < MaxSessions
  /\ LET t == client[c].read IN
     session' = Append(session, [idle |-> t + Idle, absolute |-> t + Maximum,
       revoked |-> FALSE, seen |-> client[c].seen, kept |-> FALSE,
       raced |-> client[c].seen # endings \/ AccountLocked])
  /\ Done(c)
  /\ UNCHANGED <<account, failures, endings, clock>>

Alive(s) == ~session[s].revoked /\ clock < session[s].idle /\ clock < session[s].absolute

\* PrincipalByToken: the session and its account are read.
Principal(c, s) ==
  /\ At(c, "idle") /\ s \in DOMAIN session
  /\ account.active /\ Alive(s)
  /\ client' = [client EXCEPT ![c] = [Ready EXCEPT
       !.at = "refresh", !.read = clock, !.session = s]]
  /\ UNCHANGED <<account, failures, session, endings, clock>>

\* PrincipalByToken: the refresh names only the session's id.
Refresh(c) ==
  /\ At(c, "refresh")
  /\ LET s == client[c].session
         idle == client[c].read + Idle IN
     session' = [session EXCEPT ![s].idle =
       IF idle > session[s].absolute THEN session[s].absolute ELSE idle]
  /\ Go(c, "acting")
  /\ UNCHANGED <<account, failures, endings, clock>>

\* RevokeSession: the request logs its session out.
Logout(c) ==
  /\ At(c, "acting")
  /\ session' = [session EXCEPT ![client[c].session].revoked = TRUE]
  /\ Done(c)
  /\ UNCHANGED <<account, failures, endings, clock>>

\* ChangePassword: the account is active and the current password is right.
VerifyCurrent(c) ==
  /\ At(c, "acting") /\ account.active
  /\ Go(c, "change")
  /\ UNCHANGED <<account, failures, session, endings, clock>>

Unrevoked == {s \in DOMAIN session : ~session[s].revoked}

\* Mutant: the sessions of one account are revoked up to the caller's own.
ChangeOlder(c) ==
  /\ At(c, "change") /\ ~AccountLocked /\ endings < MaxEndings
  /\ client' = [client EXCEPT ![c].at = "changing",
       ![c].revoke = {s \in Unrevoked : s < client[c].session}]
  /\ UNCHANGED <<account, failures, session, endings, clock>>

\* ChangePassword: the transaction stores the new hash and revokes the sessions
\* it sees, except the caller's own.
ChangePassword(c) ==
  /\ At(c, "change") /\ ~AccountLocked /\ endings < MaxEndings
  /\ client' = [client EXCEPT ![c].at = "changing",
       ![c].revoke = Unrevoked \ {client[c].session}]
  /\ UNCHANGED <<account, failures, session, endings, clock>>

\* resetUserPassword and updateUser with active = FALSE: all it sees.
StartReset(c) ==
  /\ At(c, "idle") /\ ~AccountLocked /\ endings < MaxEndings
  /\ client' = [client EXCEPT ![c] = [Ready EXCEPT
       !.at = "resetting", !.revoke = Unrevoked]]
  /\ UNCHANGED <<account, failures, session, endings, clock>>

StartDeactivation(c) ==
  /\ At(c, "idle") /\ account.active /\ ~AccountLocked /\ endings < MaxEndings
  /\ client' = [client EXCEPT ![c] = [Ready EXCEPT
       !.at = "deactivating", !.revoke = Unrevoked]]
  /\ UNCHANGED <<account, failures, session, endings, clock>>

\* The transaction commits. A change leaves the failures alone; a reset and a
\* deactivation clear them.
CommitEnding(c) ==
  /\ Ending(c)
  /\ account' = IF At(c, "changing") THEN account
                 ELSE [failed |-> 0, lockedUntil |-> 0,
                       active |-> account.active /\ At(c, "resetting")]
  /\ session' = [s \in DOMAIN session |->
       [session[s] EXCEPT !.revoked = @ \/ s \in client[c].revoke,
                          !.kept = @ \/ s = client[c].session]]
  /\ endings' = endings + 1
  /\ Done(c)
  /\ UNCHANGED <<failures, clock>>

\* updateUser with active = TRUE, by an administrator.
Activate ==
  /\ ~account.active /\ ~AccountLocked
  /\ account' = [account EXCEPT !.active = TRUE]
  /\ UNCHANGED <<failures, session, client, endings, clock>>

\* unlockUser.
Unlock ==
  /\ account.lockedUntil # 0 /\ ~AccountLocked
  /\ account' = [account EXCEPT !.failed = 0, !.lockedUntil = 0]
  /\ UNCHANGED <<failures, session, client, endings, clock>>

Tick ==
  /\ clock < MaxClock
  /\ clock' = clock + 1
  /\ UNCHANGED <<account, failures, session, client, endings>>

Next ==
  \/ \E c \in Client :
       \/ CheckAddress(c) \/ Authenticate(c) \/ AuthenticateUnknown(c)
       \/ RecordFailure(c) \/ RecordUnknown(c)
       \/ ClearFailures(c) \/ CreateSession(c)
       \/ \E s \in Session : Principal(c, s)
       \/ Refresh(c) \/ Logout(c)
       \/ VerifyCurrent(c) \/ ChangePassword(c)
       \/ StartReset(c) \/ StartDeactivation(c) \/ CommitEnding(c)
  \/ Activate \/ Unlock \/ Tick

Spec == Init /\ [][Next]_loginVars

-----------------------------------------------------------------------------
\* However many requests of one address check their passwords at once, the
\* failures within any window exceed the threshold by at most the requests that
\* had passed the check already (ipRateLimited counts before the attempt is
\* stored).  The counter of the account has no such bound: two failures that
\* read the same count are one.
AddressBound ==
  \A t \in Clock : FailuresWithin(t) < IpThreshold + Cardinality(Client)

\* A session that was open when the password was changed or reset or the account
\* deactivated is revoked, except the one that asked for the change
\* (docs/SERVER_INSTALLATION.md:1203-1205): only a login that had not come to its
\* INSERT by then survives.
EarlierSessionsEnd ==
  \A s \in DOMAIN session :
    session[s].seen < endings /\ ~session[s].revoked =>
      session[s].kept \/ session[s].raced

\* No late or repeated refresh lets a session outlive its absolute end.
AbsoluteEnd == \A s \in DOMAIN session : session[s].idle <= session[s].absolute
=============================================================================
