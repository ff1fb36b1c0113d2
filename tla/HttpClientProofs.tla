-------------------------- MODULE HttpClientProofs --------------------------
(***************************************************************************)
(* The session the tabs of a page keep, for any number of calls, of        *)
(* expiries, of sign-ins and, but for NobodyIsThrownOut, of tabs.          *)
(***************************************************************************)
EXTENDS HttpClient, TLAPS

-----------------------------------------------------------------------------
(***************************************************************************)
(* Types, and what a renewal holds at each of its steps.                   *)
(***************************************************************************)

\* A renewal under way has a pair it sent, and one that was answered an answer;
\* a refused one tried a chain that has ended.
RenewalFits ==
    \A t \in Tabs :
        /\ renewal[t] # "none" => sent[t] \in Pairs
        /\ renewal[t] = "answered" =>
            /\ reply[t] \in Pairs \cup {Refused}
            /\ reply[t] = Refused => sent[t].chain \in ended

\* A call that was refused had an access token the server does not take, and
\* will not take again.
RefusedFits == \A c \in Calls : cpc[c] = "unauthorized" => ~Accepted(used[c])

Fits == TypeOK /\ RenewalFits /\ RefusedFits

\* A token that comes in opens the next place or ends its own chain
\* (RefreshTokenService.rotate).
LEMMA ExchangeOpensOrEnds ==
    ASSUME TypeOK, NEW p \in Pairs, Exchange(p)
    PROVE  /\ open' \in [Chains -> Nat] /\ ended' \subseteq Chains /\ ended \subseteq ended'
           /\ \/ /\ p.chain \notin ended /\ p.place = open[p.chain] /\ ended' = ended
                 /\ open' # open /\ open' = [open EXCEPT ![p.chain] = @ + 1]
              \/ /\ p.chain \in ended' /\ open' = open
                 /\ p.chain \in ended \/ p.place # open[p.chain]
<1> p.chain \in Chains /\ p.place \in Nat
  BY DEF Pairs
<1>1. CASE p.chain \notin ended /\ p.place = open[p.chain]
  <2>1. open' = [open EXCEPT ![p.chain] = @ + 1] /\ ended' = ended
    BY <1>1 DEF Exchange
  <2>2. open'[p.chain] = open[p.chain] + 1 /\ open[p.chain] \in Nat
    BY <2>1 DEF TypeOK
  <2>3. open' # open
    BY <2>2
  <2>4. open' \in [Chains -> Nat]
    BY <2>1, <2>2 DEF TypeOK
  <2> QED BY <1>1, <2>1, <2>3, <2>4 DEF TypeOK
<1>2. CASE ~(p.chain \notin ended /\ p.place = open[p.chain])
  BY <1>2 DEF Exchange, TypeOK
<1> QED BY <1>1, <1>2

\* What the server refused stays refused, since nothing brings back a session or
\* the life of a token.
LEMMA RefusedStays ==
    ASSUME TypeOK, RefusedFits, used' = used, ended \subseteq ended',
           \A k \in Chains : expired'[k] \in Nat /\ expired'[k] >= expired[k],
           \A c \in Calls : cpc'[c] = "unauthorized" => cpc[c] = "unauthorized"
    PROVE  RefusedFits'
<1> SUFFICES ASSUME NEW c \in Calls, cpc'[c] = "unauthorized" PROVE ~Accepted(used[c])'
  BY DEF RefusedFits
<1>1. ~Accepted(used[c]) /\ used'[c] = used[c] /\ used[c] \in Pairs \cup {None}
  BY DEF RefusedFits, TypeOK
<1>2. CASE used[c] = None
  BY <1>1, <1>2 DEF Accepted
<1>3. CASE used[c] \in Pairs
  <2>1. used[c].chain \in Chains /\ used[c].place \in Nat
    BY <1>3 DEF Pairs
  <2>2. expired[used[c].chain] \in Nat
    BY <2>1, HttpAssumption DEF TypeOK, HttpAssumption
  <2> QED BY <1>1, <2>1, <2>2 DEF Accepted
<1> QED BY <1>1, <1>2, <1>3

\* A call that takes a step keeps the types (apiRequest).
LEMMA CallFits ==
    ASSUME Fits, HttpAssumption, NamesAssumption, NEW c \in Calls, CallStep(c) PROVE Fits'
<1> USE HttpAssumption, NamesAssumption DEF HttpAssumption
<1>0. TabOf[c] \in Tabs
  OBVIOUS
<1>1. /\ UNCHANGED <<serverVars, user, tokens, reply>>
      /\ \/ UNCHANGED <<renewal, sent>>
         \/ /\ renewal' = [renewal EXCEPT ![TabOf[c]] = "asked"]
            /\ sent' = [sent EXCEPT ![TabOf[c]] = tokens[TabOf[c]]]
            /\ tokens[TabOf[c]] # None
      /\ unheard' = unheard
  BY DEF CallStep, Send, Serve, CallLost, NothingToRenew, AlreadyRenewed, JoinRenewal,
         StartRenewal, Outdated, serverVars, tabVars
<1>2. /\ used' \in [Calls -> Pairs \cup {None}] /\ cpc' \in [Calls -> CallSteps]
      /\ \A d \in Calls : cpc'[d] = "unauthorized" =>
            \/ d = c /\ used'[d] = used[d] /\ ~Accepted(used[d])
            \/ d # c /\ used'[d] = used[d] /\ cpc[d] = "unauthorized"
  <2>1. CASE Send(c)
    BY <1>0, <2>1 DEF Send, Goto, Fits, TypeOK, CallSteps
  <2>2. CASE Serve(c)
    BY <2>2 DEF Serve, Goto, Forget, Fits, TypeOK, CallSteps
  <2>3. CASE CallLost(c)
    BY <2>3 DEF CallLost, Goto, Forget, Fits, TypeOK, CallSteps
  <2>4. CASE NothingToRenew(c) \/ AlreadyRenewed(c)
    BY <2>4 DEF NothingToRenew, AlreadyRenewed, Goto, Forget, Fits, TypeOK, CallSteps
  <2>5. CASE JoinRenewal(c) \/ StartRenewal(c)
    BY <2>5 DEF JoinRenewal, StartRenewal, Goto, Forget, Fits, TypeOK, CallSteps
  <2> QED BY <2>1, <2>2, <2>3, <2>4, <2>5 DEF CallStep
<1>3. TypeOK'
  BY <1>0, <1>1, <1>2 DEF Fits, TypeOK, serverVars
<1>4. RenewalFits'
  <2>1. CASE UNCHANGED <<renewal, sent>>
    BY <1>1, <2>1 DEF Fits, RenewalFits, serverVars
  <2>2. CASE /\ renewal' = [renewal EXCEPT ![TabOf[c]] = "asked"]
             /\ sent' = [sent EXCEPT ![TabOf[c]] = tokens[TabOf[c]]]
             /\ tokens[TabOf[c]] # None
    <3> SUFFICES ASSUME NEW t \in Tabs
                 PROVE  /\ renewal'[t] # "none" => sent'[t] \in Pairs
                        /\ renewal'[t] = "answered" =>
                            /\ reply'[t] \in Pairs \cup {Refused}
                            /\ reply'[t] = Refused => sent'[t].chain \in ended'
      BY DEF RenewalFits
    <3> QED BY <1>0, <1>1, <2>2 DEF Fits, TypeOK, RenewalFits, serverVars
  <2> QED BY <1>1, <2>1, <2>2
<1>5. RefusedFits'
  <2> SUFFICES ASSUME NEW d \in Calls, cpc'[d] = "unauthorized"
               PROVE  ~Accepted(used[d])'
    BY DEF RefusedFits
  <2>1. used'[d] = used[d] /\ ~Accepted(used[d])
    BY <1>2 DEF Fits, RefusedFits
  <2> QED BY <1>1, <2>1 DEF Accepted, serverVars
<1> QED BY <1>3, <1>4, <1>5 DEF Fits

\* Those who await a renewal go on, and nobody is refused by its end.
LEMMA ResumeFits ==
    ASSUME TypeOK, NEW t \in Tabs, NEW step \in {"again", "failed"}, Resume(t, step)
    PROVE  /\ cpc' \in [Calls -> CallSteps]
           /\ \A c \in Calls : cpc'[c] = "unauthorized" => cpc[c] = "unauthorized"
  BY DEF TypeOK, Resume, CallSteps

\* A renewal that is over leaves the map of its tab, and the other tabs alone.
LEMMA EndFits ==
    ASSUME Fits, NEW t \in Tabs, EndRenewal(t), ended' = ended
    PROVE  /\ renewal' \in [Tabs -> {"none", "asked", "answered"}]
           /\ sent' \in [Tabs -> Pairs \cup {None}]
           /\ reply' \in [Tabs -> Pairs \cup {None, Refused}]
           /\ RenewalFits'
  BY DEF Fits, TypeOK, RenewalFits, EndRenewal

\* The server's answer to a renewal (ServeRenewal).
LEMMA ServeRenewalFits ==
    ASSUME Fits, HttpAssumption, NamesAssumption, NEW t \in Tabs, ServeRenewal(t)
    PROVE  Fits'
<1> DEFINE p == sent[t]
           next == [p EXCEPT !.place = @ + 1]
<1>1. p \in Pairs /\ next \in Pairs
  BY DEF ServeRenewal, Fits, RenewalFits, Pairs
<1>2. /\ open' \in [Chains -> Nat] /\ ended' \subseteq Chains /\ ended \subseteq ended'
      /\ \/ ended' = ended /\ open' # open
         \/ p.chain \in ended' /\ open' = open
  BY <1>1, ExchangeOpensOrEnds DEF ServeRenewal, Fits
<1>3. /\ \/ reply' = [reply EXCEPT ![t] = next]
         \/ reply' = [reply EXCEPT ![t] = Refused] /\ p.chain \in ended'
      /\ renewal' = [renewal EXCEPT ![t] = "answered"]
      /\ UNCHANGED <<owner, expired, stray, user, tokens, sent, cpc, used, unheard>>
  BY <1>2 DEF ServeRenewal
<1>4. TypeOK'
  BY <1>1, <1>2, <1>3 DEF Fits, TypeOK
<1>5. RenewalFits'
  <2> SUFFICES ASSUME NEW s \in Tabs
               PROVE  /\ renewal'[s] # "none" => sent'[s] \in Pairs
                      /\ renewal'[s] = "answered" =>
                          /\ reply'[s] \in Pairs \cup {Refused}
                          /\ reply'[s] = Refused => sent'[s].chain \in ended'
    BY DEF RenewalFits
  <2>1. CASE s = t
    <3>1. reply'[t] = next \/ (reply'[t] = Refused /\ p.chain \in ended')
      BY <1>3 DEF Fits, TypeOK
    <3>2. sent'[t] = p
      BY <1>3
    <3> QED BY <1>1, <2>1, <3>1, <3>2, NamesAssumption DEF NamesAssumption
  <2>2. CASE s # t
    BY <1>2, <1>3, <2>2 DEF Fits, TypeOK, RenewalFits
  <2> QED BY <2>1, <2>2
<1>6. RefusedFits'
  <2>1. \A k \in Chains : expired'[k] \in Nat /\ expired'[k] >= expired[k]
    BY <1>3, HttpAssumption DEF Fits, TypeOK, HttpAssumption
  <2> QED BY <1>2, <1>3, <2>1, RefusedStays DEF Fits
<1> QED BY <1>4, <1>5, <1>6 DEF Fits

\* The other steps of a tab: the end of a renewal, and who signs out and in.
LEMMA TabFits ==
    ASSUME Fits, HttpAssumption, NamesAssumption, NEW t \in Tabs, TabStep(t) PROVE Fits'
<1>0. \A k \in Chains : expired[k] \in Nat /\ expired[k] >= expired[k]
  BY HttpAssumption DEF Fits, TypeOK, HttpAssumption
<1>1. CASE Renewed(t)
  <2>1. reply[t] \in Pairs
    BY <1>1 DEF Renewed, Fits, RenewalFits
  <2>2. TypeOK' /\ RenewalFits'
    BY <1>1, <2>1, EndFits, ResumeFits DEF Renewed, Fits, TypeOK, serverVars
  <2>3. RefusedFits'
    BY <1>0, <1>1, ResumeFits, RefusedStays DEF Renewed, Fits, serverVars
  <2> QED BY <2>2, <2>3 DEF Fits
<1>2. CASE Cleared(t)
  <2>1. TypeOK' /\ RenewalFits'
    BY <1>2, EndFits, ResumeFits DEF Cleared, Fits, TypeOK, serverVars
  <2>2. RefusedFits'
    BY <1>0, <1>2, ResumeFits, RefusedStays DEF Cleared, Fits, serverVars
  <2> QED BY <2>1, <2>2 DEF Fits
<1>3. CASE RenewalLost(t)
  <2>1. stray' \subseteq Pairs
    BY <1>3 DEF RenewalLost, Fits, TypeOK, RenewalFits
  <2>2. TypeOK' /\ RenewalFits'
    BY <1>3, <2>1, EndFits, ResumeFits DEF RenewalLost, Fits, TypeOK
  <2>3. RefusedFits'
    BY <1>0, <1>3, ResumeFits, RefusedStays DEF RenewalLost, Fits
  <2> QED BY <2>2, <2>3 DEF Fits
<1>4. CASE SignOut(t)
  <2>1. TypeOK' /\ RenewalFits'
    BY <1>4 DEF SignOut, Fits, TypeOK, RenewalFits, serverVars
  <2>2. RefusedFits'
    BY <1>0, <1>4, RefusedStays DEF SignOut, Fits, serverVars
  <2> QED BY <2>1, <2>2 DEF Fits
<1>5. CASE SignIn(t)
  <2> PICK k \in Chains, u \in Users :
        /\ owner' = [owner EXCEPT ![k] = u]
        /\ user' = [user EXCEPT ![t] = u]
        /\ tokens' = [tokens EXCEPT ![t] = [chain |-> k, place |-> 0]]
    BY <1>5 DEF SignIn
  <2>1. TypeOK' /\ RenewalFits'
    BY <1>5 DEF SignIn, Fits, TypeOK, RenewalFits, Pairs
  <2>2. RefusedFits'
    BY <1>0, <1>5, RefusedStays DEF SignIn, Fits
  <2> QED BY <2>1, <2>2 DEF Fits
<1> QED BY <1>1, <1>2, <1>3, <1>4, <1>5, ServeRenewalFits DEF TabStep

\* The end of a token's life, and a request the server receives late.
LEMMA ServerFits ==
    ASSUME Fits, HttpAssumption, NamesAssumption,
           \/ \E k \in Chains : Expire(k)
           \/ \E p \in stray : ServeStray(p)
    PROVE  Fits'
<1>0. \A k \in Chains : expired[k] \in Nat /\ expired[k] >= expired[k]
  BY HttpAssumption DEF Fits, TypeOK, HttpAssumption
<1>1. ASSUME NEW k \in Chains, Expire(k) PROVE Fits'
  <2>1. /\ expired' = [expired EXCEPT ![k] = @ + 1] /\ expired[k] < Expiries
        /\ UNCHANGED <<owner, open, ended, stray, tabVars, cpc, used, unheard>>
    BY <1>1 DEF Expire
  <2>2. expired' \in [Chains -> 0..Expiries]
    BY <2>1, HttpAssumption DEF Fits, TypeOK, HttpAssumption
  <2>3. TypeOK' /\ RenewalFits'
    BY <2>1, <2>2 DEF Fits, TypeOK, RenewalFits, tabVars
  <2>4. \A j \in Chains : expired'[j] \in Nat /\ expired'[j] >= expired[j]
    BY <1>0, <2>1 DEF Fits, TypeOK
  <2>5. RefusedFits'
    BY <2>1, <2>4, RefusedStays DEF Fits
  <2> QED BY <2>3, <2>5 DEF Fits
<1>2. ASSUME NEW p \in stray, ServeStray(p) PROVE Fits'
  <2>1. p \in Pairs
    BY DEF Fits, TypeOK
  <2>2. open' \in [Chains -> Nat] /\ ended' \subseteq Chains /\ ended \subseteq ended'
    BY <1>2, <2>1, ExchangeOpensOrEnds DEF ServeStray, Fits
  <2>3. TypeOK' /\ RenewalFits'
    BY <1>2, <2>2 DEF ServeStray, Fits, TypeOK, RenewalFits, tabVars
  <2>4. RefusedFits'
    BY <1>0, <1>2, <2>2, RefusedStays DEF ServeStray, Fits
  <2> QED BY <2>3, <2>4 DEF Fits
<1> QED BY <1>1, <1>2

\* Every step keeps them.
LEMMA StepFits == ASSUME Fits, [Next]_vars PROVE Fits'
<1>1. CASE UNCHANGED vars
  BY <1>1 DEF vars, serverVars, tabVars, Fits, TypeOK, RenewalFits, RefusedFits, Accepted
<1>2. CASE Next
  BY <1>2, HttpAssumption, NamesAssumption, CallFits, TabFits, ServerFits DEF Next
<1> QED BY <1>1, <1>2

\* A page always holds what its types say, and a refused call an access token
\* that stays refused, for any number of tabs and of calls.
THEOREM PagesTyped == Spec => []Fits
<1>1. Init => Fits
  <2> SUFFICES ASSUME Init PROVE Fits
    OBVIOUS
  <2>1. 0 \in Nat /\ 0 \in 0..Expiries /\ [chain |-> 0, place |-> 0] \in Pairs
    BY HttpAssumption DEF HttpAssumption, Chains, Pairs
  <2>2. /\ owner \in [Chains -> Users \cup {None}] /\ open \in [Chains -> Nat]
        /\ expired \in [Chains -> 0..Expiries]
    BY <2>1, HttpAssumption DEF Init, HttpAssumption
  <2>3. /\ user \in [Tabs -> Users \cup {None}]
        /\ tokens \in [Tabs -> Pairs \cup {None}]
    BY <2>1, HttpAssumption DEF Init, HttpAssumption
  <2>4. TypeOK
    BY <2>2, <2>3 DEF Init, TypeOK, CallSteps
  <2>5. RenewalFits /\ RefusedFits
    BY DEF Init, RenewalFits, RefusedFits
  <2> QED BY <2>4, <2>5 DEF Fits
<1> QED BY <1>1, StepFits, PTL DEF Spec

-----------------------------------------------------------------------------
(***************************************************************************)
(* What the tabs may do with their session.                                *)
(***************************************************************************)

\* A renewal starts with an access token the server does not take (renewSession),
\* for any number of tabs and of calls; or for a call that had none.
THEOREM RenewalHasACause == Spec => RenewedForCause
<1>1. ASSUME Fits, [Next]_vars, NEW t \in Tabs, renewal[t] = "none", renewal'[t] = "asked"
      PROVE  \/ ~Accepted(sent'[t])
             \/ \E c \in Calls :
                   cpc[c] = "unauthorized" /\ cpc'[c] = "waiting" /\ used[c] = None
  <2>1. PICK c \in Calls : StartRenewal(c)
    BY <1>1 DEF Next, CallStep, TabStep, vars, serverVars, tabVars, Fits, TypeOK, Expire, ServeStray,
       Send, Serve, CallLost, NothingToRenew, AlreadyRenewed, JoinRenewal,
       ServeRenewal, Renewed, Cleared, RenewalLost, EndRenewal, SignOut, SignIn
  <2>2. TabOf[c] = t /\ sent'[t] = tokens[t]
    BY <1>1, <2>1, HttpAssumption DEF StartRenewal, Fits, TypeOK, HttpAssumption
  <2>3. cpc[c] = "unauthorized" /\ cpc'[c] = "waiting"
    BY <1>1, <2>1 DEF StartRenewal, Outdated, Goto, Fits, TypeOK
  <2>4. CASE used[c] = None
    BY <2>3, <2>4
  <2>5. CASE tokens[t] = used[c]
    BY <1>1, <2>2, <2>3, <2>5 DEF Fits, RefusedFits
  <2> QED BY <2>1, <2>2, <2>4, <2>5 DEF StartRenewal, Outdated
<1>2. Fits /\ [Next]_vars =>
        [\A t \in Tabs : renewal[t] = "none" /\ renewal'[t] = "asked" =>
            \/ ~Accepted(sent'[t])
            \/ \E c \in Calls :
                  cpc[c] = "unauthorized" /\ cpc'[c] = "waiting" /\ used[c] = None]_vars
  BY <1>1
<1> QED BY <1>2, PagesTyped, PTL DEF Spec, RenewedForCause

\* A tab gives up its session only when somebody signs out or the server has
\* ended it (refresh), for any number of tabs and whatever is lost.
THEOREM SessionSurvivesTheNetwork == Spec => KeptUntilRefused
<1>1. ASSUME Fits, [Next]_vars, NEW t \in Tabs, tokens[t] # None, tokens'[t] = None
      PROVE  SignOut(t) \/ (sent[t] # None /\ sent[t].chain \in ended)
  <2>1. PICK s \in Tabs : SignOut(s) \/ Cleared(s) \/ Renewed(s) \/ SignIn(s)
    BY <1>1 DEF Next, CallStep, TabStep, vars, serverVars, tabVars, Expire, ServeStray,
       Send, Serve, CallLost, NothingToRenew, AlreadyRenewed, JoinRenewal, StartRenewal,
       ServeRenewal, RenewalLost
  <2>2. s = t
    BY <1>1, <2>1 DEF SignOut, Cleared, Renewed, SignIn, Fits, TypeOK
  <2>3. CASE SignOut(s)
    BY <2>2, <2>3
  <2>4. CASE Cleared(s)
    BY <1>1, <2>2, <2>4, NamesAssumption DEF Cleared, Fits, RenewalFits, NamesAssumption
  <2>5. CASE Renewed(s)
    <3>1. reply[s] \in Pairs
      BY <1>1, <2>5 DEF Renewed, Fits, RenewalFits
    <3>2. tokens'[s] = reply[s]
      BY <1>1, <2>5 DEF Renewed, Fits, TypeOK
    <3> QED BY <1>1, <2>2, <3>1, <3>2, NamesAssumption DEF NamesAssumption
  <2>6. CASE SignIn(s)
    <3>1. \E k \in Chains : tokens'[s] = [chain |-> k, place |-> 0]
      BY <1>1, <2>6 DEF SignIn, Fits, TypeOK
    <3>2. tokens'[s] \in Pairs
      BY <3>1 DEF Pairs
    <3> QED BY <1>1, <2>2, <3>2, NamesAssumption DEF NamesAssumption
  <2> QED BY <2>1, <2>3, <2>4, <2>5, <2>6
<1>2. Fits /\ [Next]_vars =>
        [\A t \in Tabs : tokens[t] # None /\ tokens'[t] = None =>
            SignOut(t) \/ (sent[t] # None /\ sent[t].chain \in ended)]_vars
  BY <1>1
<1> QED BY <1>2, PagesTyped, PTL DEF Spec, KeptUntilRefused

-----------------------------------------------------------------------------
(***************************************************************************)
(* One tab sends every refresh token once, as long as it hears the answer. *)
(***************************************************************************)

\* A chain nobody opened is new, and what a tab holds or sent, or the server may
\* yet receive, is of one that somebody did.
Opened(p) == p # None => owner[p.chain] # None
ChainsFit ==
    /\ \A k \in Chains : owner[k] = None => open[k] = 0
    /\ \A t \in Tabs : /\ Opened(tokens[t]) /\ Opened(sent[t])
                       /\ reply[t] \in Pairs => owner[reply[t].chain] # None
    /\ \A p \in stray : owner[p.chain] # None

\* The pair t holds is the one its chain has open, unless it was exchanged and
\* the answer is on its way; so is the one a renewal goes out with.
InStep(t) ==
    /\ tokens[t] # None =>
        \/ tokens[t].place = open[tokens[t].chain]
        \/ renewal[t] = "answered" /\ tokens[t] = sent[t]
    /\ renewal[t] = "asked" => sent[t].place = open[sent[t].chain]
    /\ renewal[t] = "answered" =>
        /\ reply[t] # Refused
        /\ reply[t].place = open[reply[t].chain]

Heard == ~unheard => ended = {} /\ stray = {} /\ \A t \in Tabs : InStep(t)

TabInv == ChainsFit /\ Heard

\* Steps of calls take no token from the server.
LEMMA CallKeepsStep ==
    ASSUME Fits, TabInv, NEW c \in Calls, CallStep(c) PROVE TabInv'
<1>0. TabOf[c] \in Tabs
  BY HttpAssumption DEF HttpAssumption
<1>1. /\ UNCHANGED <<serverVars, user, tokens, reply>> /\ unheard' = unheard
      /\ \/ UNCHANGED <<renewal, sent>>
         \/ /\ renewal[TabOf[c]] = "none" /\ tokens[TabOf[c]] # None
            /\ renewal' = [renewal EXCEPT ![TabOf[c]] = "asked"]
            /\ sent' = [sent EXCEPT ![TabOf[c]] = tokens[TabOf[c]]]
  BY DEF CallStep, Send, Serve, CallLost, NothingToRenew, AlreadyRenewed, JoinRenewal,
         StartRenewal, Outdated, serverVars, tabVars
<1>2. CASE UNCHANGED <<renewal, sent>>
  BY <1>1, <1>2 DEF TabInv, ChainsFit, Opened, Heard, InStep, serverVars
<1>3. CASE /\ renewal[TabOf[c]] = "none" /\ tokens[TabOf[c]] # None
           /\ renewal' = [renewal EXCEPT ![TabOf[c]] = "asked"]
           /\ sent' = [sent EXCEPT ![TabOf[c]] = tokens[TabOf[c]]]
  <2>1. \A t \in Tabs : /\ t # TabOf[c] => sent'[t] = sent[t] /\ renewal'[t] = renewal[t]
                        /\ t = TabOf[c] => sent'[t] = tokens[t] /\ renewal'[t] = "asked"
    BY <1>0, <1>3 DEF Fits, TypeOK
  <2>2. ChainsFit'
    BY <1>1, <2>1 DEF TabInv, ChainsFit, Opened, serverVars
  <2>3. ASSUME NEW t \in Tabs, InStep(t) PROVE InStep(t)'
    BY <1>1, <1>3, <2>1, <2>3 DEF InStep, serverVars
  <2> QED BY <1>1, <2>2, <2>3 DEF TabInv, Heard, serverVars
<1> QED BY <1>1, <1>2, <1>3

\* The one tab there is: its renewals, and who signs out and in.
LEMMA TabKeepsStep ==
    ASSUME Fits, TabInv, NEW t, Tabs = {t}, TabStep(t) PROVE TabInv'
<1>1. CASE ServeRenewal(t)
  <2> DEFINE p == sent[t]
  <2>1. p \in Pairs /\ Exchange(p) /\ renewal[t] = "asked"
    BY <1>1 DEF ServeRenewal, Fits, RenewalFits
  <2>2. p.chain \in Chains /\ p.place \in Nat /\ p # None
    BY <2>1, NamesAssumption DEF Pairs, NamesAssumption
  <2>3. /\ UNCHANGED <<owner, expired, stray, user, tokens, sent, cpc, used, unheard>>
        /\ renewal'[t] = "answered" /\ open' \in [Chains -> Nat]
        /\ reply'[t] \in {Refused, [p EXCEPT !.place = @ + 1]}
    BY <1>1, <2>1, ExchangeOpensOrEnds DEF ServeRenewal, Fits, TypeOK
  <2>4. ChainsFit'
    <3>1. owner[p.chain] # None
      BY <2>2 DEF TabInv, ChainsFit, Opened
    <3>2. \A k \in Chains : k # p.chain => open'[k] = open[k]
      BY <2>1, <2>2, ExchangeOpensOrEnds DEF Fits, TypeOK
    <3>3. reply'[t] \in Pairs => reply'[t].chain = p.chain
      BY <2>1, <2>3, NamesAssumption DEF NamesAssumption, Pairs
    <3> QED BY <2>3, <3>1, <3>2, <3>3 DEF TabInv, ChainsFit, Opened
  <2>5. ASSUME ~unheard PROVE ended' = {} /\ stray' = {} /\ InStep(t)'
    <3>1. ended = {} /\ stray = {} /\ p.place = open[p.chain] /\ InStep(t)
      BY <2>1, <2>5 DEF TabInv, Heard, InStep
    <3>2. ended' = {} /\ open' # open /\ open' = [open EXCEPT ![p.chain] = @ + 1]
      BY <2>1, <3>1, ExchangeOpensOrEnds DEF Fits
    <3>3. reply'[t] = [p EXCEPT !.place = @ + 1]
      BY <1>1, <3>1, <3>2 DEF ServeRenewal, Fits, TypeOK
    <3>4. reply'[t] \in Pairs /\ reply'[t].chain = p.chain /\ reply'[t].place = p.place + 1
      BY <2>1, <3>3 DEF Pairs
    <3>5. reply'[t] # Refused
      BY <3>4, NamesAssumption DEF NamesAssumption
    <3>6. reply'[t].place = open'[reply'[t].chain]
      BY <2>2, <3>1, <3>2, <3>4 DEF Fits, TypeOK
    <3>7. tokens'[t] # None => \/ tokens'[t].place = open'[tokens'[t].chain]
                               \/ tokens'[t] = sent'[t]
      <4>1. SUFFICES ASSUME tokens[t] # None, tokens[t] # p
                     PROVE  tokens[t].place = open'[tokens[t].chain]
        BY <2>3
      <4>2. tokens[t] \in Pairs /\ tokens[t].place = open[tokens[t].chain]
        BY <2>1, <3>1, <4>1 DEF InStep, Fits, TypeOK
      <4>3. tokens[t].chain # p.chain
        BY <2>1, <3>1, <4>1, <4>2 DEF Pairs
      <4> QED BY <2>2, <3>2, <4>2, <4>3 DEF Fits, TypeOK, Pairs
    <3> QED BY <2>3, <3>1, <3>2, <3>5, <3>6, <3>7 DEF InStep
  <2> QED BY <2>3, <2>4, <2>5 DEF TabInv, Heard
<1>2. CASE Renewed(t)
  <2>1. /\ tokens'[t] = reply[t] /\ renewal'[t] = "none" /\ sent'[t] = None /\ reply'[t] = None
        /\ UNCHANGED <<serverVars, user, used, unheard>>
    BY <1>2 DEF Renewed, EndRenewal, Fits, TypeOK
  <2>2. reply[t] \in Pairs /\ renewal[t] = "answered"
    BY <1>2 DEF Renewed, Fits, RenewalFits
  <2> QED
    BY <2>1, <2>2, NamesAssumption
    DEF NamesAssumption, TabInv, ChainsFit, Opened, Heard, InStep, serverVars
<1>3. CASE Cleared(t) \/ SignOut(t)
  <2>1. /\ tokens'[t] = None /\ UNCHANGED <<serverVars, used, unheard>>
        /\ \/ renewal'[t] = "none" /\ sent'[t] = None /\ reply'[t] = None
           \/ UNCHANGED <<renewal, sent, reply>>
    BY <1>3 DEF Cleared, SignOut, EndRenewal, Fits, TypeOK
  <2> QED
    BY <2>1, NamesAssumption
    DEF NamesAssumption, TabInv, ChainsFit, Opened, Heard, InStep, serverVars
<1>4. CASE RenewalLost(t)
  <2>1. /\ unheard' = TRUE /\ UNCHANGED <<owner, open, tokens>>
        /\ sent'[t] = None /\ reply'[t] = None
    BY <1>4 DEF RenewalLost, EndRenewal, Fits, TypeOK
  <2>2. \A p \in stray' : p \in stray \/ (p = sent[t] /\ p # None)
    BY <1>4, NamesAssumption DEF RenewalLost, Fits, RenewalFits, NamesAssumption
  <2> QED
    BY <2>1, <2>2, NamesAssumption DEF NamesAssumption, TabInv, ChainsFit, Opened, Heard
<1>5. CASE SignIn(t)
  <2> PICK k \in Chains, u \in Users :
        /\ owner[k] = None /\ owner' = [owner EXCEPT ![k] = u]
        /\ tokens' = [tokens EXCEPT ![t] = [chain |-> k, place |-> 0]]
    BY <1>5 DEF SignIn
  <2>1. /\ UNCHANGED <<open, ended, stray, renewal, sent, reply, unheard>>
        /\ tokens'[t].chain = k /\ tokens'[t].place = 0 /\ open[k] = 0 /\ owner'[k] # None
    BY <1>5, NamesAssumption DEF SignIn, Fits, TypeOK, TabInv, ChainsFit, NamesAssumption
  <2>2. \A j \in Chains : j # k => owner'[j] = owner[j]
    BY DEF Fits, TypeOK
  <2>3. ChainsFit'
    BY <2>1, <2>2 DEF TabInv, ChainsFit, Opened, Fits, TypeOK, Pairs
  <2>4. Heard'
    BY <2>1, <2>2 DEF TabInv, Heard, InStep, Fits, TypeOK, RenewalFits, Pairs
  <2> QED BY <2>3, <2>4 DEF TabInv
<1> QED BY <1>1, <1>2, <1>3, <1>4, <1>5 DEF TabStep

\* In a browser with one tab no refresh token is sent twice, however many calls
\* meet the expiry together and whoever signs out and in meanwhile: nobody is
\* thrown out before the answer of a renewal is lost.
THEOREM OneTabIsNotThrownOut ==
    ASSUME NEW a, Tabs = {a} PROVE Spec => []NobodyIsThrownOut
<1>1. Init => TabInv
  <2> SUFFICES ASSUME Init PROVE TabInv
    OBVIOUS
  <2>1. 0 \in Chains /\ First # None
    BY HttpAssumption, NamesAssumption DEF HttpAssumption, NamesAssumption, Chains
  <2>2. tokens[a].chain = 0 /\ tokens[a].place = 0
    BY DEF Init
  <2> QED
    BY <2>1, <2>2, NamesAssumption
    DEF NamesAssumption, Init, TabInv, ChainsFit, Opened, Heard, InStep
<1>2. Fits /\ TabInv /\ [Next]_vars => TabInv'
  <2> SUFFICES ASSUME Fits, TabInv, [Next]_vars PROVE TabInv'
    OBVIOUS
  <2>1. ASSUME NEW c \in Calls, CallStep(c) PROVE TabInv'
    BY <2>1, CallKeepsStep
  <2>2. ASSUME NEW t \in Tabs, TabStep(t) PROVE TabInv'
    BY <2>2, TabKeepsStep
  <2>3. ASSUME NEW k \in Chains, Expire(k) PROVE TabInv'
    BY <2>3 DEF Expire, tabVars, TabInv, ChainsFit, Opened, Heard, InStep
  <2>4. ASSUME NEW p \in stray, ServeStray(p) PROVE TabInv'
    <3>1. unheard /\ unheard' = unheard /\ UNCHANGED <<owner, tokens, sent, reply>>
      BY <2>4 DEF ServeStray, tabVars, TabInv, Heard
    <3>2. p \in Pairs /\ p.chain \in Chains /\ owner[p.chain] # None /\ Exchange(p)
      BY <2>4 DEF Fits, TypeOK, Pairs, ServeStray, TabInv, ChainsFit
    <3>3. \A k \in Chains : k # p.chain => open'[k] = open[k]
      BY <3>2, ExchangeOpensOrEnds DEF Fits, TypeOK
    <3>4. stray' \subseteq stray
      BY <2>4 DEF ServeStray
    <3> QED BY <3>1, <3>2, <3>3, <3>4 DEF TabInv, ChainsFit, Opened, Heard
  <2>5. CASE UNCHANGED vars
    BY <2>5 DEF vars, serverVars, tabVars, TabInv, ChainsFit, Opened, Heard, InStep
  <2> QED BY <2>1, <2>2, <2>3, <2>4, <2>5 DEF Next
<1>3. TabInv => NobodyIsThrownOut
  BY DEF TabInv, Heard, NobodyIsThrownOut
<1> QED BY <1>1, <1>2, <1>3, PagesTyped, PTL DEF Spec
=============================================================================
