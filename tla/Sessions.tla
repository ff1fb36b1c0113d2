------------------------------ MODULE Sessions ------------------------------
(***************************************************************************)
(* The sessions of one account: a user of the panel (auth, users) or a     *)
(* customer of the shop (customers), which share RefreshTokenService.      *)
(*                                                                         *)
(* A session is a chain of refresh tokens: each refresh consumes the token *)
(* it is given and issues the next one.  Beside it goes an access token,   *)
(* which is signed with the credentialVersion the invocation read and is   *)
(* refused once the account has another.  A RUN is one invocation: a       *)
(* login, a refresh, a logout, a logout everywhere, a change of password,  *)
(* or an operation of another administrator on the account.  Every call to *)
(* the database is one action.                                             *)
(*                                                                         *)
(* A run issues at most one pair of tokens, so the pair is named after the *)
(* run.  Of an expired token nothing is left: neither its claim nor the    *)
(* detection of its reuse finds it.  Whether a password matches is a       *)
(* choice.  Left out: the hash, mustChangePassword and the role, which no  *)
(* step here reads, and replacedBy, which the code never reads.            *)
(***************************************************************************)
EXTENDS Integers, FiniteSets

CONSTANT Runs   \* invocations on the account

ASSUME RunsAssumption == IsFiniteSet(Runs)

None == "NONE"
ASSUME NoneAssumption == None \notin Runs

VARIABLES
    (***********************************************************************)
    (* Documents of the database.                                          *)
    (***********************************************************************)
    active,     \* isActive of the account
    credential, \* credentialVersion
    token,      \* the refresh token of each run
    (***********************************************************************)
    (* Local state of the runs.                                            *)
    (***********************************************************************)
    rpc,        \* where each run is
    kind,       \* what it was called for
    presented,  \* the refresh token it was given
    signed,     \* the credentialVersion it read last, and signs with
    session,    \* the session its tokens belong to: the run that opened it
    (***********************************************************************)
    (* History variables.                                                  *)
    (***********************************************************************)
    handed,     \* runs whose access token reached the client
    earlier,    \* by a bump: the runs that had read the version before it
    closed      \* by a revocation: the sessions it closed, see Settled

accountVars == <<active, credential>>
localVars == <<kind, presented, signed, session>>
historyVars == <<handed, earlier, closed>>
vars == <<accountVars, token, rpc, localVars, historyVars>>

-----------------------------------------------------------------------------
Kinds == {None, "login", "refresh", "logout", "logoutAll", "changePassword",
          "setStatus", "resetPassword", "changeRole"}
RunSteps == {"idle", "reading", "checking", "issuing", "ending", "bumping",
             "entering", "verifying", "rewriting", "sweeping", "deactivating",
             "activating", "resetting", "promoting", "done", "refused"}

TypeOK ==
    /\ active \in BOOLEAN
    /\ credential \in 0..Cardinality(Runs)
    /\ token \in [Runs -> {None, "open", "revoked", "expired"}]
    /\ rpc \in [Runs -> RunSteps]
    /\ kind \in [Runs -> Kinds]
    /\ presented \in [Runs -> Runs \cup {None}]
    /\ signed \in [Runs -> 0..Cardinality(Runs)]
    /\ session \in [Runs -> Runs \cup {None}]
    /\ handed \subseteq Runs
    /\ earlier \in [Runs -> SUBSET Runs]
    /\ closed \in [Runs -> SUBSET Runs]

Init ==
    /\ active = TRUE
    /\ credential = 0
    /\ token = [r \in Runs |-> None]
    /\ rpc = [r \in Runs |-> "idle"]
    /\ kind = [r \in Runs |-> None]
    /\ presented = [r \in Runs |-> None]
    /\ signed = [r \in Runs |-> 0]
    /\ session = [r \in Runs |-> None]
    /\ handed = {}
    /\ earlier = [r \in Runs |-> {}]
    /\ closed = [r \in Runs |-> {}]

Open == {t \in Runs : token[t] = "open"}
Goto(r, step) == rpc' = [rpc EXCEPT ![r] = step]
Start(r, what, step) ==
    /\ rpc[r] = "idle"
    /\ kind' = [kind EXCEPT ![r] = what]
    /\ Goto(r, step)

\* validate: the access token a passes when the account is active and has the
\* credentialVersion it was signed with.
Accepted(a) == a \in handed /\ active /\ signed[a] = credential

-----------------------------------------------------------------------------
(***************************************************************************)
(* issue, and the two ways to it: login and refresh.                       *)
(***************************************************************************)

\* login reads the account, then verifies the password against what it read.
Login(r) ==
    /\ \/ active /\ Start(r, "login", "issuing")
       \/ Start(r, "login", "refused")
    /\ signed' = [signed EXCEPT ![r] = credential]
    /\ session' = [session EXCEPT ![r] = r]
    /\ UNCHANGED <<accountVars, token, presented, historyVars>>

\* The document of the refresh token is created, and the pair goes out.
Issue(r) ==
    /\ rpc[r] = "issuing"
    /\ token' = [token EXCEPT ![r] = "open"]
    /\ handed' = handed \cup {r}
    /\ Goto(r, "done")
    /\ UNCHANGED <<accountVars, localVars, earlier, closed>>

\* Mutant of Claim: the filter of the update forgets revokedAt.
ClaimRevoked(r) ==
    /\ \E t \in Runs :
        /\ token[t] \in {"open", "revoked"}
        /\ Start(r, "refresh", "reading")
        /\ token' = [token EXCEPT ![t] = "revoked"]
        /\ session' = [session EXCEPT ![r] = session[t]]
        /\ presented' = [presented EXCEPT ![r] = t]
    /\ UNCHANGED <<accountVars, signed, historyVars>>

\* claim: the update that finds an open token is the one that revokes it.
Claim(r) ==
    /\ \E t \in Open :
        /\ Start(r, "refresh", "reading")
        /\ token' = [token EXCEPT ![t] = "revoked"]
        /\ session' = [session EXCEPT ![r] = session[t]]
        /\ presented' = [presented EXCEPT ![r] = t]
    /\ UNCHANGED <<accountVars, signed, historyVars>>

\* A claim that finds nothing reads the token again, to know whether it was
\* used before.
ClaimFails(r) ==
    /\ \E t \in handed \ Open :
        /\ Start(r, "refresh", "checking")
        /\ presented' = [presented EXCEPT ![r] = t]
    /\ UNCHANGED <<accountVars, token, signed, session, historyVars>>

CheckReuse(r) ==
    /\ rpc[r] = "checking"
    /\ Goto(r, IF token[presented[r]] = "revoked" THEN "ending" ELSE "refused")
    /\ UNCHANGED <<accountVars, token, localVars, historyVars>>

\* refresh reads the account again: an inactive one loses every session.
ReadOwner(r) ==
    /\ rpc[r] = "reading"
    /\ signed' = [signed EXCEPT ![r] = credential]
    /\ Goto(r, IF active THEN "issuing" ELSE "ending")
    /\ UNCHANGED <<accountVars, token, kind, presented, session, historyVars>>

-----------------------------------------------------------------------------
(***************************************************************************)
(* revokeRefreshTokens, bumpCredentialVersion, and revokeAllSessions which *)
(* is one after the other.                                                 *)
(***************************************************************************)

\* The sessions that have a token, but for those a refresh holds between its
\* claim and its issue: nothing of these is open, so no update finds them.
InFlight == {f \in Runs : rpc[f] \in {"reading", "issuing"}}
Settled == {session[t] : t \in {t \in Runs : token[t] # None}}
               \ {session[f] : f \in InFlight}

RevokeOpen(r) ==
    /\ token' = [t \in Runs |-> IF token[t] = "open" THEN "revoked" ELSE token[t]]
    /\ closed' = [closed EXCEPT ![r] = Settled]

\* The runs whose access token is out, or will be signed with what they read.
Signing == handed \cup {a \in Runs : rpc[a] \in {"issuing", "sweeping"}}

\* Mutant of BumpVersion: the version is written from the copy the run holds.
BumpFromCopy(r) ==
    /\ credential' = signed[r] + 1
    /\ earlier' = [earlier EXCEPT ![r] = Signing]

BumpVersion(r) ==
    /\ credential' = credential + 1
    /\ earlier' = [earlier EXCEPT ![r] = Signing]

RevokeAll(r) ==
    /\ rpc[r] = "ending"
    /\ RevokeOpen(r)
    /\ Goto(r, "bumping")
    /\ UNCHANGED <<accountVars, localVars, handed, earlier>>

Bump(r) ==
    /\ rpc[r] = "bumping"
    /\ BumpVersion(r)
    /\ Goto(r, "done")
    /\ UNCHANGED <<active, token, localVars, handed, closed>>

\* logout: revoked if it was open, and no reuse is looked for.
Logout(r) ==
    /\ Start(r, "logout", "done")
    /\ \E t \in handed :
        /\ token' = [token EXCEPT ![t] = IF @ = "open" THEN "revoked" ELSE @]
        /\ closed' = [closed EXCEPT ![r] = {session[o] : o \in Open \cap {t}}]
        /\ presented' = [presented EXCEPT ![r] = t]
    /\ UNCHANGED <<accountVars, signed, session, handed, earlier>>

LogoutAll(r) ==
    /\ \E a \in Runs : Accepted(a)
    /\ Start(r, "logoutAll", "ending")
    /\ UNCHANGED <<accountVars, token, presented, signed, session, historyVars>>

-----------------------------------------------------------------------------
(***************************************************************************)
(* changePassword.                                                         *)
(***************************************************************************)

\* The guard lets an accepted access token in.
EnterChange(r) ==
    /\ \E a \in Runs : Accepted(a)
    /\ Start(r, "changePassword", "verifying")
    /\ session' = [session EXCEPT ![r] = r]
    /\ UNCHANGED <<accountVars, token, presented, signed, historyVars>>

\* The account is read, and its hash compared with the password given; the hash
\* of the new one is made before the write.
VerifyCurrent(r) ==
    /\ rpc[r] = "verifying"
    /\ Goto(r, "rewriting") \/ Goto(r, "refused")
    /\ UNCHANGED <<accountVars, token, localVars, historyVars>>

\* Hash and version in one update, and the document after it is what signs.
WritePassword(r) ==
    /\ rpc[r] = "rewriting"
    /\ BumpVersion(r)
    /\ signed' = [signed EXCEPT ![r] = credential']
    /\ Goto(r, "sweeping")
    /\ UNCHANGED <<active, token, kind, presented, session, handed, closed>>

\* Mutants of SweepTokens: the old sessions are left as they are; and
\* revokeAllSessions is called, though the password was written with its bump.
SweepNothing(r) ==
    /\ rpc[r] = "sweeping"
    /\ closed' = [closed EXCEPT ![r] = Settled]
    /\ Goto(r, "issuing")
    /\ UNCHANGED <<accountVars, token, localVars, handed, earlier>>
SweepAndBump(r) ==
    /\ rpc[r] = "sweeping"
    /\ RevokeOpen(r)
    /\ credential' = credential + 1
    /\ Goto(r, "issuing")
    /\ UNCHANGED <<active, localVars, handed, earlier>>

SweepTokens(r) ==
    /\ rpc[r] = "sweeping"
    /\ RevokeOpen(r)
    /\ Goto(r, "issuing")
    /\ UNCHANGED <<accountVars, localVars, handed, earlier>>

-----------------------------------------------------------------------------
(***************************************************************************)
(* What another administrator does to the account: UsersService.           *)
(***************************************************************************)

\* setStatus reads the account; the status it already has answers at once.
ReadToSetStatus(r) ==
    /\ \E wanted \in BOOLEAN :
        Start(r, "setStatus", IF wanted = active THEN "done"
                              ELSE IF wanted THEN "activating" ELSE "deactivating")
    /\ UNCHANGED <<accountVars, token, presented, signed, session, historyVars>>

SaveActive(r) ==
    /\ rpc[r] \in {"activating", "deactivating"}
    /\ active' = (rpc[r] = "activating")
    /\ Goto(r, IF active' THEN "done" ELSE "ending")
    /\ UNCHANGED <<credential, token, localVars, historyVars>>

\* resetPassword reads the account, makes a temporary password and saves it.
ReadToReset(r) ==
    /\ Start(r, "resetPassword", "resetting")
    /\ UNCHANGED <<accountVars, token, presented, signed, session, historyVars>>

SaveTemporary(r) ==
    /\ rpc[r] = "resetting"
    /\ Goto(r, "ending")
    /\ UNCHANGED <<accountVars, token, localVars, historyVars>>

\* update with another role: the sessions stay, the access tokens do not.
ReadToChangeRole(r) ==
    /\ Start(r, "changeRole", "promoting")
    /\ UNCHANGED <<accountVars, token, presented, signed, session, historyVars>>

SaveRole(r) ==
    /\ rpc[r] = "promoting"
    /\ Goto(r, "bumping")
    /\ UNCHANGED <<accountVars, token, localVars, historyVars>>

\* The lifetime of a token ends, and the database sweeps it away.
Expire(t) ==
    /\ token[t] \in {"open", "revoked"}
    /\ token' = [token EXCEPT ![t] = "expired"]
    /\ UNCHANGED <<accountVars, rpc, localVars, historyVars>>

-----------------------------------------------------------------------------
Step(r) ==
    \/ Login(r) \/ Issue(r) \/ Claim(r) \/ ClaimFails(r) \/ CheckReuse(r)
    \/ ReadOwner(r) \/ RevokeAll(r) \/ Bump(r) \/ Logout(r) \/ LogoutAll(r)
    \/ EnterChange(r) \/ VerifyCurrent(r) \/ WritePassword(r) \/ SweepTokens(r)
    \/ ReadToSetStatus(r) \/ SaveActive(r) \/ ReadToReset(r) \/ SaveTemporary(r)
    \/ ReadToChangeRole(r) \/ SaveRole(r) \/ Expire(r)

Next == \E r \in Runs : Step(r)

Spec == Init /\ [][Next]_vars

-----------------------------------------------------------------------------
(***************************************************************************)
(* Properties.                                                             *)
(***************************************************************************)

\* Rotation keeps a session to one open refresh token, however many refreshes
\* present the same one: a single claim revokes it and goes on.
OneOpenTokenPerSession ==
    \A t, u \in Open : session[t] = session[u] => t = u

\* A session that a logout, a logout everywhere, a reuse or a change of
\* password closed is never continued; the only sessions they do not close are
\* those a refresh was carrying at that instant.
ClosedStaysClosed ==
    \A x \in Runs, t \in Open : session[t] \notin closed[x]

\* An access token signed with what was read before a bump is refused from
\* that bump on, though it is issued after it and though bumps overlap.
OldAccessIsRefused ==
    \A x \in Runs : \A a \in earlier[x] : ~Accepted(a)

\* No access token stops working by accident: on an active account, one that
\* is refused was overtaken by the bump of another run.
RefusedForAReason ==
    \A a \in handed : active /\ ~Accepted(a) => \E x \in Runs \ {a} : a \in earlier[x]

-----------------------------------------------------------------------------
(***************************************************************************)
(* The inductive invariant behind the four of them.                        *)
(***************************************************************************)

\* The runs that hold a session: its open token, or the right to issue one.
Carries(r) ==
    \/ token[r] = "open"
    \/ rpc[r] \in {"reading", "issuing", "verifying", "rewriting", "sweeping"}

IssuedAtTheEnd ==
    \A r \in Runs : rpc[r] # "done" => token[r] = None /\ r \notin handed

NewSessionIsNew ==
    \A r \in Runs : token[r] = None =>
        /\ \A q \in Runs : session[q] = r => q = r
        /\ \A x \in Runs : r \notin closed[x]

ChangeOpensItsOwn ==
    \A r \in Runs : rpc[r] \in {"verifying", "rewriting", "sweeping"} => session[r] = r

OneCarrier ==
    \A q, r \in Runs : Carries(q) /\ Carries(r) /\ session[q] = session[r] => q = r

NoCarrierOfClosed == \A x, r \in Runs : Carries(r) => session[r] \notin closed[x]

ReadIsNotAhead == \A r \in Runs : signed[r] <= credential

BumpedIsBehind ==
    \A x \in Runs : \A a \in earlier[x] :
        a \in Signing /\ signed[a] < credential /\ a # x

BehindWasBumped ==
    \A a \in Signing : signed[a] = credential \/ \E x \in Runs : a \in earlier[x]

\* What every step of every run keeps: a session has one holder, a closed one
\* has none, and the version an access token is signed with is the account's
\* until a bump says otherwise.
SessionInv ==
    /\ IssuedAtTheEnd
    /\ NewSessionIsNew
    /\ ChangeOpensItsOwn
    /\ OneCarrier
    /\ NoCarrierOfClosed
    /\ ReadIsNotAhead
    /\ BumpedIsBehind
    /\ BehindWasBumped
=============================================================================
