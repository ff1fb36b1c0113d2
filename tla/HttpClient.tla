----------------------------- MODULE HttpClient -----------------------------
(***************************************************************************)
(* The one way the storefront talks to the API (frontend/src/lib/http and  *)
(* features/auth), for one scope: calls in parallel, an access token that  *)
(* runs out for all of them at once, and one renewal they share.           *)
(*                                                                         *)
(* Each TAB has a copy of the session in memory and its own map of running *)
(* renewals.  The server is what Sessions promises of it: a session is a   *)
(* chain of pairs of tokens, a refresh token is taken once, and one that   *)
(* comes again ends every session of its owner.  A pair is named by its    *)
(* chain and its place in it.                                              *)
(*                                                                         *)
(* The browser is one that keeps no cross-site cookie, the case for which  *)
(* session-store.ts keeps the pair itself.  Left out: the logout route,    *)
(* which the store does not call; a reload, which takes the pair that was  *)
(* saved last; and the answers that are neither 401 nor a success.         *)
(***************************************************************************)
EXTENDS Integers, FiniteSets

CONSTANTS
    Tabs,
    Calls,          \* calls of the pages, each one apiRequest
    TabOf,          \* the tab of each call
    Users,
    First,          \* the user signed in at the start, in every tab
    Losses,         \* whether the network may lose a call or a renewal
    None, Refused,  \* no user or no pair; what the server answers instead of one
    SignIns,        \* bound: times somebody signs in again
    Expiries        \* bound: times the access tokens of a chain run out

ASSUME HttpAssumption ==
    /\ TabOf \in [Calls -> Tabs]
    /\ First \in Users
    /\ Losses \in BOOLEAN
    /\ SignIns \in Nat /\ Expiries \in Nat

Chains == 0..SignIns
Pairs == [chain : Chains, place : Nat]
ASSUME NamesAssumption ==
    None # Refused /\ None \notin Users /\ None \notin Pairs /\ Refused \notin Pairs

VARIABLES
    (***********************************************************************)
    (* The server.                                                         *)
    (***********************************************************************)
    owner,      \* whose each chain is, None before it is opened
    open,       \* the place of the refresh token each chain has open
    expired,    \* places of each chain whose access token ran out
    ended,      \* chains that a reuse ended
    stray,      \* renewals the server may yet receive, and nobody waits for
    (***********************************************************************)
    (* The tabs: SessionState, and the running renewal.                    *)
    (***********************************************************************)
    user,
    tokens,
    renewal,    \* where the renewal of each tab is
    sent,       \* the refresh token it sent
    reply,      \* what the server answered it
    (***********************************************************************)
    (* The calls.                                                          *)
    (***********************************************************************)
    cpc,        \* where each call is
    used,       \* the access token it went out with
    (***********************************************************************)
    (* History variable.                                                   *)
    (***********************************************************************)
    unheard     \* whether a renewal went out whose answer did not come

serverVars == <<owner, open, expired, ended, stray>>
tabVars == <<user, tokens, renewal, sent, reply>>
vars == <<serverVars, tabVars, cpc, used, unheard>>

-----------------------------------------------------------------------------
CallSteps == {"idle", "first", "unauthorized", "waiting", "again", "second",
              "ok", "failed", "lost"}

TypeOK ==
    /\ owner \in [Chains -> Users \cup {None}]
    /\ open \in [Chains -> Nat]
    /\ expired \in [Chains -> 0..Expiries]
    /\ ended \subseteq Chains
    /\ stray \subseteq Pairs
    /\ user \in [Tabs -> Users \cup {None}]
    /\ tokens \in [Tabs -> Pairs \cup {None}]
    /\ renewal \in [Tabs -> {"none", "asked", "answered"}]
    /\ sent \in [Tabs -> Pairs \cup {None}]
    /\ reply \in [Tabs -> Pairs \cup {None, Refused}]
    /\ cpc \in [Calls -> CallSteps]
    /\ used \in [Calls -> Pairs \cup {None}]
    /\ unheard \in BOOLEAN

Init ==
    /\ owner = [k \in Chains |-> IF k = 0 THEN First ELSE None]
    /\ open = [k \in Chains |-> 0]
    /\ expired = [k \in Chains |-> 0]
    /\ ended = {}
    /\ stray = {}
    /\ user = [t \in Tabs |-> First]
    /\ tokens = [t \in Tabs |-> [chain |-> 0, place |-> 0]]
    /\ renewal = [t \in Tabs |-> "none"]
    /\ sent = [t \in Tabs |-> None]
    /\ reply = [t \in Tabs |-> None]
    /\ cpc = [c \in Calls |-> "idle"]
    /\ used = [c \in Calls |-> None]
    /\ unheard = FALSE

Goto(c, step) == cpc' = [cpc EXCEPT ![c] = step]

\* The token a call went out with is of no use once it was compared.
Forget(c) == used' = [used EXCEPT ![c] = None]

\* The renewal of a tab is off the map.
EndRenewal(t) ==
    /\ renewal' = [renewal EXCEPT ![t] = "none"]
    /\ sent' = [sent EXCEPT ![t] = None]
    /\ reply' = [reply EXCEPT ![t] = None]

\* Everyone who awaits it goes on.
Resume(t, step) ==
    cpc' = [c \in Calls |-> IF TabOf[c] = t /\ cpc[c] = "waiting" THEN step ELSE cpc[c]]

-----------------------------------------------------------------------------
(***************************************************************************)
(* The server, as Sessions has it.                                         *)
(***************************************************************************)

Accepted(p) == p # None /\ p.chain \notin ended /\ p.place >= expired[p.chain]

\* A token that comes in: the open one is exchanged for the next pair, one that
\* was used before ends every session of its owner.
Exchange(p) ==
    IF p.chain \notin ended /\ p.place = open[p.chain]
    THEN /\ open' = [open EXCEPT ![p.chain] = @ + 1]
         /\ UNCHANGED ended
    ELSE /\ ended' = ended \cup {k \in Chains : owner[k] = owner[p.chain]}
         /\ UNCHANGED open

ServeRenewal(t) ==
    /\ renewal[t] = "asked"
    /\ Exchange(sent[t])
    /\ reply' = [reply EXCEPT ![t] = IF ended' = ended /\ open' # open
                                     THEN [sent[t] EXCEPT !.place = @ + 1] ELSE Refused]
    /\ renewal' = [renewal EXCEPT ![t] = "answered"]
    /\ UNCHANGED <<owner, expired, stray, user, tokens, sent, cpc, used, unheard>>

ServeStray(p) ==
    /\ p \in stray
    /\ Exchange(p)
    /\ stray' = stray \ {p}
    /\ UNCHANGED <<owner, expired, tabVars, cpc, used, unheard>>

\* The lifetime of the oldest access token of a chain that still had one ends.
Expire(k) ==
    /\ owner[k] # None
    /\ expired[k] <= open[k] /\ expired[k] < Expiries
    /\ expired' = [expired EXCEPT ![k] = @ + 1]
    /\ UNCHANGED <<owner, open, ended, stray, tabVars, cpc, used, unheard>>

-----------------------------------------------------------------------------
(***************************************************************************)
(* apiRequest.                                                             *)
(***************************************************************************)

\* send: the token is read when the attempt goes out, the second one included.
Send(c) ==
    /\ \/ cpc[c] = "idle" /\ Goto(c, "first")
       \/ cpc[c] = "again" /\ Goto(c, "second")
    /\ used' = [used EXCEPT ![c] = tokens[TabOf[c]]]
    /\ UNCHANGED <<serverVars, tabVars, unheard>>

Serve(c) ==
    /\ \/ /\ cpc[c] \in {"first", "second"} /\ Accepted(used[c])
          /\ Goto(c, "ok") /\ Forget(c)
       \/ /\ cpc[c] = "first" /\ ~Accepted(used[c])
          /\ Goto(c, "unauthorized") /\ UNCHANGED used
       \/ /\ cpc[c] = "second" /\ ~Accepted(used[c])
          /\ Goto(c, "failed") /\ Forget(c)
    /\ UNCHANGED <<serverVars, tabVars, unheard>>

\* NetworkError: the attempt is over, and nothing is tried again.
CallLost(c) ==
    /\ Losses
    /\ cpc[c] \in {"first", "second"}
    /\ Forget(c)
    /\ Goto(c, "lost")
    /\ UNCHANGED <<serverVars, tabVars, unheard>>

\* renewSession: no session, no renewal.
NothingToRenew(c) ==
    /\ cpc[c] = "unauthorized"
    /\ tokens[TabOf[c]] = None
    /\ Forget(c)
    /\ Goto(c, "failed")
    /\ UNCHANGED <<serverVars, tabVars, unheard>>

Outdated(c) ==
    /\ cpc[c] = "unauthorized"
    /\ tokens[TabOf[c]] # None
    /\ used[c] = None \/ tokens[TabOf[c]] = used[c]

\* Mutants of JoinRenewal and AlreadyRenewed: every call asks for a renewal of
\* its own; and one that comes late asks for another.
AsksItsOwn(c) ==
    /\ Outdated(c)
    /\ renewal[TabOf[c]] # "none"
    /\ Exchange(tokens[TabOf[c]])
    /\ Forget(c)
    /\ Goto(c, "waiting")
    /\ UNCHANGED <<owner, expired, stray, tabVars, unheard>>
RenewsAgain(c) ==
    /\ cpc[c] = "unauthorized"
    /\ tokens[TabOf[c]] # None
    /\ used[c] # None /\ tokens[TabOf[c]] # used[c]
    /\ renewal[TabOf[c]] = "none"
    /\ renewal' = [renewal EXCEPT ![TabOf[c]] = "asked"]
    /\ sent' = [sent EXCEPT ![TabOf[c]] = tokens[TabOf[c]]]
    /\ Forget(c)
    /\ Goto(c, "waiting")
    /\ UNCHANGED <<serverVars, user, tokens, reply, unheard>>

\* renewSession: the token this call used is not the current one any more.
AlreadyRenewed(c) ==
    /\ cpc[c] = "unauthorized"
    /\ tokens[TabOf[c]] # None
    /\ used[c] # None /\ tokens[TabOf[c]] # used[c]
    /\ Forget(c)
    /\ Goto(c, "again")
    /\ UNCHANGED <<serverVars, tabVars, unheard>>

\* renewSession: one is running, and its answer will do.
JoinRenewal(c) ==
    /\ Outdated(c)
    /\ renewal[TabOf[c]] # "none"
    /\ Forget(c)
    /\ Goto(c, "waiting")
    /\ UNCHANGED <<serverVars, tabVars, unheard>>

\* renewSession and refresh, down to the request that goes out.
StartRenewal(c) ==
    /\ Outdated(c)
    /\ renewal[TabOf[c]] = "none"
    /\ renewal' = [renewal EXCEPT ![TabOf[c]] = "asked"]
    /\ sent' = [sent EXCEPT ![TabOf[c]] = tokens[TabOf[c]]]
    /\ Forget(c)
    /\ Goto(c, "waiting")
    /\ UNCHANGED <<serverVars, user, tokens, reply, unheard>>

-----------------------------------------------------------------------------
(***************************************************************************)
(* refresh, once the request is over.                                      *)
(***************************************************************************)

\* The new pair is written whatever the tab holds by now.
Renewed(t) ==
    /\ renewal[t] = "answered" /\ reply[t] # Refused
    /\ tokens' = [tokens EXCEPT ![t] = reply[t]]
    /\ EndRenewal(t)
    /\ Resume(t, "again")
    /\ UNCHANGED <<serverVars, user, used, unheard>>

\* The renewal was refused: the local session falls with it.
Cleared(t) ==
    /\ renewal[t] = "answered" /\ reply[t] = Refused
    /\ user' = [user EXCEPT ![t] = None]
    /\ tokens' = [tokens EXCEPT ![t] = None]
    /\ EndRenewal(t)
    /\ Resume(t, "failed")
    /\ UNCHANGED <<serverVars, used, unheard>>

\* Mutants of RenewalLost: the session falls with the network; and nobody tells
\* the calls that wait.
LostAndCleared(t) ==
    /\ Losses /\ renewal[t] # "none"
    /\ user' = [user EXCEPT ![t] = None]
    /\ tokens' = [tokens EXCEPT ![t] = None]
    /\ EndRenewal(t)
    /\ Resume(t, "failed")
    /\ unheard' = TRUE
    /\ UNCHANGED <<serverVars, used>>
LostUnnoticed(t) ==
    /\ Losses /\ renewal[t] # "none"
    /\ EndRenewal(t)
    /\ unheard' = TRUE
    /\ UNCHANGED <<serverVars, user, tokens, cpc, used>>

\* The network failed or the timeout came: before the server had the request,
\* while it still may, or after it had answered.
RenewalLost(t) ==
    /\ Losses
    /\ \/ renewal[t] # "none" /\ UNCHANGED stray
       \/ renewal[t] = "asked" /\ stray' = stray \cup {sent[t]}
    /\ EndRenewal(t)
    /\ Resume(t, "failed")
    /\ unheard' = TRUE
    /\ UNCHANGED <<owner, open, expired, ended, user, tokens, used>>

-----------------------------------------------------------------------------
(***************************************************************************)
(* The people at the browser.                                              *)
(***************************************************************************)

SignOut(t) ==
    /\ SignIns > 0
    /\ user[t] # None
    /\ user' = [user EXCEPT ![t] = None]
    /\ tokens' = [tokens EXCEPT ![t] = None]
    /\ UNCHANGED <<serverVars, renewal, sent, reply, cpc, used, unheard>>

\* useStartSession: the login answered.
SignIn(t) ==
    /\ user[t] = None
    /\ \E k \in Chains, u \in Users :
        /\ owner[k] = None /\ \A j \in 0..(k - 1) : owner[j] # None
        /\ owner' = [owner EXCEPT ![k] = u]
        /\ user' = [user EXCEPT ![t] = u]
        /\ tokens' = [tokens EXCEPT ![t] = [chain |-> k, place |-> 0]]
    /\ UNCHANGED <<open, expired, ended, stray, renewal, sent, reply, cpc, used, unheard>>

-----------------------------------------------------------------------------
CallStep(c) ==
    \/ Send(c) \/ Serve(c) \/ CallLost(c) \/ NothingToRenew(c) \/ AlreadyRenewed(c)
    \/ JoinRenewal(c) \/ StartRenewal(c)

TabStep(t) ==
    \/ ServeRenewal(t) \/ Renewed(t) \/ Cleared(t) \/ RenewalLost(t)
    \/ SignOut(t) \/ SignIn(t)

Next ==
    \/ \E c \in Calls : CallStep(c)
    \/ \E t \in Tabs : TabStep(t)
    \/ \E k \in Chains : Expire(k)
    \/ \E p \in stray : ServeStray(p)

\* A call that started goes on, and a renewal is answered or times out: every
\* fetch has an AbortSignal.timeout.
Fairness ==
    /\ \A c \in Calls : WF_vars(cpc[c] # "idle" /\ CallStep(c))
    /\ \A t \in Tabs : WF_vars(ServeRenewal(t) \/ Renewed(t) \/ Cleared(t) \/ RenewalLost(t))

Spec == Init /\ [][Next]_vars
FairSpec == Spec /\ Fairness

-----------------------------------------------------------------------------
(***************************************************************************)
(* Properties.                                                             *)
(***************************************************************************)

\* However many calls of a tab meet the expiry together, and whoever signs out
\* and in meanwhile, no refresh token is sent twice: the server ends a session
\* only after a renewal whose answer was lost.
NobodyIsThrownOut == ended # {} => unheard

\* The storefront asks for a new pair only when the server no longer takes the
\* access token of the one it has, never once more for a call that comes back
\* late.  The exception is a call that went out before there was a session.
RenewedForCause ==
    [][\A t \in Tabs : renewal[t] = "none" /\ renewal'[t] = "asked" =>
        \/ ~Accepted(sent'[t])
        \/ \E c \in Calls : cpc[c] = "unauthorized" /\ cpc'[c] = "waiting" /\ used[c] = None]_vars

\* A tab gives up its session only when somebody signs out, or when the server
\* has ended the one it tried to renew: a network that fails in the middle of a
\* renewal signs nobody out.
KeptUntilRefused ==
    [][\A t \in Tabs : tokens[t] # None /\ tokens'[t] = None =>
        SignOut(t) \/ (sent[t] # None /\ sent[t].chain \in ended)]_vars

\* Every call ends, the ones that share another's renewal included.
CallsEnd == \A c \in Calls : cpc[c] = "first" ~> cpc[c] \in {"ok", "failed", "lost"}

-----------------------------------------------------------------------------
(***************************************************************************)
(* What the repository says of itself, and the code does not do.           *)
(***************************************************************************)

\* client.spec.ts: the shared renewal is what keeps the session of someone with
\* two tabs open from falling by itself.
TwoTabsLiveTogether == ended = {}

\* client.ts: when the network falls in the middle of a renewal the session
\* stands, and the next call tries again.
LossIsForgiven == ended = {}

\* session-store.ts and use-account.ts: the user and the pair come and go
\* together, so what is sent is sent as the one who is signed in.
UserAndPairTogether ==
    \A t \in Tabs :
        IF user[t] = None THEN tokens[t] = None
        ELSE tokens[t] # None /\ owner[tokens[t].chain] = user[t]
=============================================================================
