------------------------ MODULE PasswordResetProofs ------------------------
(***************************************************************************)
(* The safety properties of Sessions and of PasswordReset, which extends   *)
(* it: for any number of invocations on the account, of asks for a link    *)
(* and of resets.  The first half is about Sessions alone.                 *)
(***************************************************************************)
EXTENDS PasswordReset, TLAPS


\* The types the steps rely on; the bound TypeOK puts on the version is TLC's.
Typed ==
    /\ active \in BOOLEAN
    /\ credential \in Nat
    /\ token \in [Runs -> {None, "open", "revoked", "expired"}]
    /\ rpc \in [Runs -> RunSteps]
    /\ kind \in [Runs -> Kinds]
    /\ presented \in [Runs -> Runs \cup {None}]
    /\ signed \in [Runs -> Nat]
    /\ session \in [Runs -> Runs \cup {None}]
    /\ handed \subseteq Runs
    /\ earlier \in [Runs -> SUBSET Runs]
    /\ closed \in [Runs -> SUBSET (Runs \cup {None})]

\* A step of a run keeps the types.
LEMMA StepTyped ==
    ASSUME Typed, NEW r \in Runs, Step(r)
    PROVE  Typed'
<1> USE DEF Typed, RunSteps, Kinds, accountVars, localVars, historyVars
<1>1. CASE Login(r)
  BY <1>1 DEF Login, Start, Goto
<1>2. CASE Issue(r)
  BY <1>2 DEF Issue, Start, Goto
<1>3. CASE Claim(r)
  BY <1>3 DEF Claim, Open, Start, Goto
<1>4. CASE ClaimFails(r)
  BY <1>4 DEF ClaimFails, Open, Start, Goto
<1>5. CASE CheckReuse(r)
  BY <1>5 DEF CheckReuse, Start, Goto
<1>6. CASE ReadOwner(r)
  BY <1>6 DEF ReadOwner, Start, Goto
<1>7. CASE RevokeAll(r)
  BY <1>7 DEF RevokeAll, RevokeOpen, Settled, InFlight, Start, Goto
<1>8. CASE Bump(r)
  BY <1>8 DEF Bump, BumpVersion, Signing, Start, Goto
<1>9. CASE Logout(r)
  BY <1>9 DEF Logout, Open, Start, Goto
<1>10. CASE LogoutAll(r)
  BY <1>10 DEF LogoutAll, Start, Goto
<1>11. CASE EnterChange(r)
  BY <1>11 DEF EnterChange, Start, Goto
<1>12. CASE VerifyCurrent(r)
  BY <1>12 DEF VerifyCurrent, Start, Goto
<1>13. CASE WritePassword(r)
  BY <1>13 DEF WritePassword, BumpVersion, Signing, Start, Goto
<1>14. CASE SweepTokens(r)
  BY <1>14 DEF SweepTokens, RevokeOpen, Settled, InFlight, Start, Goto
<1>15. CASE ReadToSetStatus(r)
  BY <1>15 DEF ReadToSetStatus, Start, Goto
<1>16. CASE SaveActive(r)
  BY <1>16 DEF SaveActive, Start, Goto
<1>17. CASE ReadToReset(r)
  BY <1>17 DEF ReadToReset, Start, Goto
<1>18. CASE SaveTemporary(r)
  BY <1>18 DEF SaveTemporary, Start, Goto
<1>19. CASE ReadToChangeRole(r)
  BY <1>19 DEF ReadToChangeRole, Start, Goto
<1>20. CASE SaveRole(r)
  BY <1>20 DEF SaveRole, Start, Goto
<1>21. CASE Expire(r)
  BY <1>21 DEF Expire, Start, Goto
<1> QED
  BY <1>1, <1>2, <1>3, <1>4, <1>5, <1>6, <1>7, <1>8, <1>9, <1>10,
     <1>11, <1>12, <1>13, <1>14, <1>15, <1>16, <1>17, <1>18, <1>19, <1>20,
     <1>21 DEF Step

\* Every reachable state is well typed, whatever the runs on the account.
THEOREM SessionsTyped == Spec => []Typed
<1>1. Init => Typed
  BY DEF Init, Typed, RunSteps, Kinds
<1>2. Typed /\ [Next]_vars => Typed'
  <2>1. CASE UNCHANGED vars
    BY <2>1 DEF vars, accountVars, localVars, historyVars, Typed
  <2> QED
    BY <2>1, StepTyped DEF Next
<1> QED
  BY <1>1, <1>2, PTL DEF Spec

\* A step keeps every part of the inductive invariant.
LEMMA StepKeepsInv ==
    ASSUME Typed, Typed', SessionInv, NEW r \in Runs, Step(r)
    PROVE  SessionInv'
<1> USE NoneAssumption
    DEF Typed, SessionInv, IssuedAtTheEnd, NewSessionIsNew, ChangeOpensItsOwn, OneCarrier,
        NoCarrierOfClosed, ReadIsNotAhead, BumpedIsBehind, BehindWasBumped,
        Carries, Signing, Start, Goto, accountVars, localVars, historyVars
<1>1. CASE Login(r)
  BY <1>1 DEF Login
<1>2. CASE Issue(r)
  BY <1>2 DEF Issue
<1>3. CASE Claim(r)
  <2> USE <1>3 DEF Claim, None, Open
  <2>1. NewSessionIsNew'
    OBVIOUS
  <2>2. OneCarrier'
    OBVIOUS
  <2>3. NoCarrierOfClosed'
    OBVIOUS
  <2>4. (/\ IssuedAtTheEnd
        /\ ChangeOpensItsOwn
        /\ ReadIsNotAhead
        /\ BumpedIsBehind
        /\ BehindWasBumped)'
    OBVIOUS
  <2> QED
    BY <2>1, <2>2, <2>3, <2>4
<1>4. CASE ClaimFails(r)
  BY <1>4 DEF ClaimFails, Open
<1>5. CASE CheckReuse(r)
  BY <1>5 DEF CheckReuse
<1>6. CASE ReadOwner(r)
  BY <1>6 DEF ReadOwner
<1>7. CASE RevokeAll(r)
  <2> USE <1>7 DEF RevokeAll, None, RevokeOpen, Settled, InFlight
  <2>1. NewSessionIsNew'
    OBVIOUS
  <2>2. NoCarrierOfClosed'
    OBVIOUS
  <2>3. (/\ IssuedAtTheEnd
        /\ ChangeOpensItsOwn
        /\ OneCarrier
        /\ ReadIsNotAhead
        /\ BumpedIsBehind
        /\ BehindWasBumped)'
    OBVIOUS
  <2> QED
    BY <2>1, <2>2, <2>3
<1>8. CASE Bump(r)
  <2> USE <1>8 DEF Bump, BumpVersion
  <2>1. BumpedIsBehind'
    OBVIOUS
  <2>2. BehindWasBumped'
    OBVIOUS
  <2>3. (/\ IssuedAtTheEnd
        /\ NewSessionIsNew
        /\ ChangeOpensItsOwn
        /\ OneCarrier
        /\ NoCarrierOfClosed
        /\ ReadIsNotAhead)'
    OBVIOUS
  <2> QED
    BY <2>1, <2>2, <2>3
<1>9. CASE Logout(r)
  <2> USE <1>9 DEF Logout, None, Open
  <2>1. NewSessionIsNew'
    OBVIOUS
  <2>2. NoCarrierOfClosed'
    OBVIOUS
  <2>3. (/\ IssuedAtTheEnd
        /\ ChangeOpensItsOwn
        /\ OneCarrier
        /\ ReadIsNotAhead
        /\ BumpedIsBehind
        /\ BehindWasBumped)'
    OBVIOUS
  <2> QED
    BY <2>1, <2>2, <2>3
<1>10. CASE LogoutAll(r)
  BY <1>10 DEF LogoutAll
<1>11. CASE EnterChange(r)
  BY <1>11 DEF EnterChange
<1>12. CASE VerifyCurrent(r)
  BY <1>12 DEF VerifyCurrent
<1>13. CASE WritePassword(r)
  <2> USE <1>13 DEF WritePassword, BumpVersion
  <2>1. BumpedIsBehind'
    OBVIOUS
  <2>2. BehindWasBumped'
    OBVIOUS
  <2>3. (/\ IssuedAtTheEnd
        /\ NewSessionIsNew
        /\ ChangeOpensItsOwn
        /\ OneCarrier
        /\ NoCarrierOfClosed
        /\ ReadIsNotAhead)'
    OBVIOUS
  <2> QED
    BY <2>1, <2>2, <2>3
<1>14. CASE SweepTokens(r)
  <2> USE <1>14 DEF SweepTokens, None, RevokeOpen, Settled, InFlight
  <2>1. NewSessionIsNew'
    OBVIOUS
  <2>2. NoCarrierOfClosed'
    OBVIOUS
  <2>3. (/\ IssuedAtTheEnd
        /\ ChangeOpensItsOwn
        /\ OneCarrier
        /\ ReadIsNotAhead
        /\ BumpedIsBehind
        /\ BehindWasBumped)'
    OBVIOUS
  <2> QED
    BY <2>1, <2>2, <2>3
<1>15. CASE ReadToSetStatus(r)
  BY <1>15 DEF ReadToSetStatus
<1>16. CASE SaveActive(r)
  BY <1>16 DEF SaveActive
<1>17. CASE ReadToReset(r)
  BY <1>17 DEF ReadToReset
<1>18. CASE SaveTemporary(r)
  BY <1>18 DEF SaveTemporary
<1>19. CASE ReadToChangeRole(r)
  BY <1>19 DEF ReadToChangeRole
<1>20. CASE SaveRole(r)
  BY <1>20 DEF SaveRole
<1>21. CASE Expire(r)
  BY <1>21 DEF Expire, None
<1> QED
  BY <1>1, <1>2, <1>3, <1>4, <1>5, <1>6, <1>7, <1>8, <1>9, <1>10, <1>11, <1>12,
     <1>13, <1>14, <1>15, <1>16, <1>17, <1>18, <1>19, <1>20, <1>21 DEF Step

\* Every reachable state satisfies the inductive invariant of Sessions.
THEOREM SessionsAccounted == Spec => []SessionInv
<1>1. Init => SessionInv
  BY NoneAssumption DEF None, Init, SessionInv, Signing, Carries, IssuedAtTheEnd, NewSessionIsNew,
     ChangeOpensItsOwn, OneCarrier, NoCarrierOfClosed, ReadIsNotAhead, BumpedIsBehind,
     BehindWasBumped
<1>2. Typed /\ Typed' /\ SessionInv /\ [Next]_vars => SessionInv'
  <2> SUFFICES ASSUME Typed, Typed', SessionInv, [Next]_vars PROVE SessionInv'
    OBVIOUS
  <2>1. CASE Next
    BY <2>1, StepKeepsInv DEF Next
  <2>2. CASE UNCHANGED vars
    BY <2>2 DEF vars, accountVars, localVars, historyVars, SessionInv, Signing, Carries,
       IssuedAtTheEnd, NewSessionIsNew, ChangeOpensItsOwn, OneCarrier, NoCarrierOfClosed,
       ReadIsNotAhead, BumpedIsBehind, BehindWasBumped
  <2> QED
    BY <2>1, <2>2
<1> QED
  BY <1>1, <1>2, SessionsTyped, PTL DEF Spec

\* A session never has two open refresh tokens, however many refreshes and
\* revocations overlap.
THEOREM RotationIsExclusive == Spec => []OneOpenTokenPerSession
<1>1. SessionInv => OneOpenTokenPerSession
  BY DEF SessionInv, OneCarrier, Carries, OneOpenTokenPerSession, Open
<1> QED
  BY <1>1, SessionsAccounted, PTL

\* No run continues a session that a logout or a revocation closed.
THEOREM ClosedForGood == Spec => []ClosedStaysClosed
<1>1. SessionInv => ClosedStaysClosed
  BY DEF SessionInv, NoCarrierOfClosed, Carries, ClosedStaysClosed, Open
<1> QED
  BY <1>1, SessionsAccounted, PTL

\* An access token is refused from the first bump after its signature
\* (JwtStrategy.validate), for any number of runs.
THEOREM AccessFollowsVersion == Spec => []OldAccessIsRefused
<1>1. Typed /\ SessionInv => OldAccessIsRefused
  BY DEF Typed, SessionInv, BumpedIsBehind, OldAccessIsRefused, Accepted
<1> QED
  BY <1>1, SessionsTyped, SessionsAccounted, PTL

\* It is refused only then, while the account is active: nobody is thrown out
\* without a reason.
THEOREM RefusalHasAReason == Spec => []RefusedForAReason
<1>1. Typed /\ SessionInv => RefusedForAReason
  BY DEF Typed, SessionInv, BumpedIsBehind, BehindWasBumped, RefusedForAReason, Accepted, Signing
<1> QED
  BY <1>1, SessionsTyped, SessionsAccounted, PTL

-----------------------------------------------------------------------------
(***************************************************************************)
(* PasswordReset.                                                          *)
(***************************************************************************)
\* The types the steps rely on; the bound on attempts is TLC's.
LinksTyped ==
    /\ link \in [Asks -> {None, "open", "used", "gone"}]
    /\ late \subseteq Asks
    /\ attempts \in [Asks -> Nat]
    /\ apc \in [Asks -> {"idle", "closing", "creating", "done"}]
    /\ zpc \in [Resets -> {"idle", "counting", "owning", "claiming", "setting",
                           "sweeping", "done", "refused"}]
    /\ shown \in [Resets -> Asks \cup {None}]
    /\ older \in [Asks -> SUBSET Asks]
    /\ wrong \in [Asks -> Nat]
CustomerTyped ==
    /\ Typed
    /\ password \in Runs \cup Resets \cup {None}
    /\ under \in [Runs -> Runs \cup Resets \cup {None}]
    /\ swept \subseteq Runs \cup {None}

-----------------------------------------------------------------------------
(***************************************************************************)
(* Types.                                                                  *)
(***************************************************************************)

\* Every step of a customer's run is a step of Sessions.
LEMMA CustomerIsSession ==
    ASSUME NEW r \in Runs, CustomerStep(r)
    PROVE  Step(r)
    BY DEF CustomerStep, ReadsCustomer, LeavesCustomer, Step

LEMMA NextCustomerTyped ==
    ASSUME CustomerTyped, [ResetNext]_allVars
    PROVE  CustomerTyped'
<1> USE DEF CustomerTyped
<1>1. ASSUME NEW r \in Runs, CustomerStep(r) PROVE CustomerTyped'
  <2>1. Typed'
    BY <1>1, CustomerIsSession, StepTyped
  <2> QED
    BY <1>1, <2>1 DEF CustomerStep
<1>2. ASSUME NEW f \in Asks, AskStep(f) PROVE CustomerTyped'
  BY <1>2 DEF AskStep, FindCustomer, CloseOlder, CreateLink, LinkExpires, Typed,
     vars, accountVars, localVars, historyVars
<1>3. ASSUME NEW x \in Resets, ResetStep(x) PROVE CustomerTyped'
  <2> USE DEF Typed, vars, accountVars, localVars, historyVars
  <2>1. CASE FindLink(x) \/ WrongToken(x) \/ CountAttempt(x) \/ FindOwner(x) \/ ClaimLink(x)
    BY <2>1 DEF FindLink, WrongToken, CountAttempt, FindOwner, ClaimLink
  <2>2. CASE SetPassword(x)
    BY <2>2 DEF SetPassword
  <2>3. CASE SweepSessions(x)
    BY <2>3 DEF SweepSessions, Settled, InFlight
  <2> QED
    BY <1>3, <2>1, <2>2, <2>3 DEF ResetStep
<1>4. CASE UNCHANGED allVars
  BY <1>4 DEF allVars, resetVars, Typed, vars, accountVars, localVars, historyVars
<1> QED
  BY <1>1, <1>2, <1>3, <1>4 DEF ResetNext

\* Counting once more leaves a count, whichever link it is for.
LEMMA CountedTyped ==
    ASSUME NEW a \in [Asks -> Nat], NEW g, NEW b
    PROVE  [a EXCEPT ![g] = IF b THEN @ ELSE @ + 1] \in [Asks -> Nat]
<1>1. CASE g \in Asks
  <2>1. (IF b THEN a[g] ELSE a[g] + 1) \in Nat
    BY <1>1
  <2> QED
    BY <1>1, <2>1, Zenon
<1>2. CASE g \notin Asks
  BY <1>2, Zenon
<1> QED
  BY <1>1, <1>2

LEMMA NextLinksTyped ==
    ASSUME LinksTyped, [ResetNext]_allVars
    PROVE  LinksTyped'
<1> USE DEF LinksTyped, linkVars, AskGoto, ResetGoto
<1>1. ASSUME NEW r \in Runs, CustomerStep(r) PROVE LinksTyped'
  BY <1>1 DEF CustomerStep
<1>2. ASSUME NEW f \in Asks, AskStep(f) PROVE LinksTyped'
  BY <1>2 DEF AskStep, FindCustomer, CloseOlder, CreateLink, LinkExpires
<1>3. ASSUME NEW x \in Resets, ResetStep(x) PROVE LinksTyped'
  <2>1. CASE FindLink(x)
    BY <2>1 DEF FindLink
  <2>2. CASE CountAttempt(x)
    <3>1. attempts' \in [Asks -> Nat]
      BY <2>2, Zenon, CountedTyped DEF CountAttempt
    <3> QED
      BY <2>2, <3>1 DEF CountAttempt
  <2>3. CASE FindOwner(x) \/ ClaimLink(x) \/ SetPassword(x) \/ SweepSessions(x)
    BY <2>3 DEF FindOwner, ClaimLink, SetPassword, SweepSessions
  <2>4. CASE WrongToken(x)
    BY <2>4 DEF WrongToken
  <2> QED
    BY <1>3, <2>1, <2>2, <2>3, <2>4 DEF ResetStep
<1>4. CASE UNCHANGED allVars
  BY <1>4 DEF allVars, resetVars
<1> QED
  BY <1>1, <1>2, <1>3, <1>4 DEF ResetNext

LEMMA ResetInitTyped == ResetInit => LinksTyped /\ CustomerTyped
    BY DEF ResetInit, LinksTyped, CustomerTyped, Init, Typed, RunSteps, Kinds

\* Links, customer and sessions are well typed in every reachable state.
LEMMA AllTyped == ResetSpec => [](LinksTyped /\ CustomerTyped)
<1>1. LinksTyped /\ CustomerTyped /\ [ResetNext]_allVars => (LinksTyped /\ CustomerTyped)'
  BY NextLinksTyped, NextCustomerTyped
<1> QED
  BY <1>1, ResetInitTyped, PTL DEF ResetSpec

\* Every reachable state of the links and of the customer is well typed.
THEOREM ResetTyped == ResetSpec => []ResetTypeOK
<1>1. LinksTyped /\ CustomerTyped => ResetTypeOK
  BY DEF LinksTyped, CustomerTyped, ResetTypeOK
<1> QED
  BY <1>1, AllTyped, PTL

-----------------------------------------------------------------------------
(***************************************************************************)
(* Links.                                                                  *)
(***************************************************************************)

\* A step of an ask keeps the accounts of the links: what it closes is older,
\* and what it creates was not there.
LEMMA AskKeepsLinks ==
    ASSUME LinksTyped, LinksInv, NEW f \in Asks, AskStep(f)
    PROVE  LinksInv'
<1> USE DEF LinksTyped, LinksInv, LinkSetsOnePassword, OlderLinkIsDead, AskGoto, linkVars, None
<1>1. CASE FindCustomer(f)
  BY <1>1 DEF FindCustomer
<1>2. CASE CloseOlder(f)
  BY <1>2 DEF CloseOlder
<1>3. CASE CreateLink(f)
  BY <1>3 DEF CreateLink
<1>4. CASE LinkExpires(f)
  BY <1>4 DEF LinkExpires
<1> QED
  BY <1>1, <1>2, <1>3, <1>4 DEF AskStep

\* A step of a reset keeps them: the claim of a link ends it, and no other step
\* opens or closes one.
LEMMA ResetKeepsLinks ==
    ASSUME LinksTyped, LinksTyped', LinksInv, NEW x \in Resets, ResetStep(x)
    PROVE  LinksInv'
<1> USE ResetAssumption
    DEF LinksTyped, LinksInv, LinkSetsOnePassword, OlderLinkIsDead, ResetGoto, linkVars, None
<1>1. CASE FindLink(x)
  BY <1>1 DEF FindLink, Works
<1>2. CASE CountAttempt(x)
  BY <1>2 DEF CountAttempt
<1>3. CASE FindOwner(x)
  BY <1>3 DEF FindOwner
<1>4. CASE ClaimLink(x)
  BY <1>4 DEF ClaimLink
<1>5. CASE SetPassword(x)
  BY <1>5 DEF SetPassword
<1>6. CASE SweepSessions(x)
  BY <1>6 DEF SweepSessions
<1>7. CASE WrongToken(x)
  BY <1>7 DEF WrongToken
<1> QED
  BY <1>1, <1>2, <1>3, <1>4, <1>5, <1>6, <1>7 DEF ResetStep

LEMMA NextLinks ==
    ASSUME LinksTyped, LinksTyped', LinksInv, [ResetNext]_allVars
    PROVE  LinksInv'
<1>1. ASSUME NEW r \in Runs, CustomerStep(r) PROVE LinksInv'
  BY <1>1 DEF CustomerStep, linkVars, LinksInv, LinkSetsOnePassword, OlderLinkIsDead
<1>2. CASE UNCHANGED allVars
  BY <1>2 DEF allVars, resetVars, linkVars, LinksInv, LinkSetsOnePassword, OlderLinkIsDead
<1> QED
  BY <1>1, <1>2, AskKeepsLinks, ResetKeepsLinks DEF ResetNext

\* The accounts of the links hold in every reachable state.
LEMMA LinksKept == ResetSpec => [](LinksTyped /\ LinksInv)
<1>1. ResetInit => LinksInv
  BY DEF ResetInit, LinksInv, LinkSetsOnePassword, OlderLinkIsDead, None
<1>2. LinksTyped /\ LinksTyped' /\ LinksInv /\ [ResetNext]_allVars => LinksInv'
  BY NextLinks
<1> QED
  BY <1>1, <1>2, AllTyped, PTL DEF ResetSpec

\* A link sets one password at most, for any number of clicks and asks.
THEOREM LinksAccounted == ResetSpec => []LinkSetsOnePassword
<1>1. LinksInv => LinkSetsOnePassword
  BY DEF LinksInv
<1> QED
  BY <1>1, LinksKept, PTL

\* A second request for a link puts the first one out of use, for any number of
\* links and of clicks (PasswordResetService.request).
THEOREM LaterLinkEndsTheOlder == ResetSpec => []OlderLinkIsDead
<1>1. LinksInv => OlderLinkIsDead
  BY DEF LinksInv
<1> QED
  BY <1>1, LinksKept, PTL

\* Only the claim takes a reset to the write of a password, and it finds its
\* link open.
LEMMA ClaimFindsOpen ==
    ASSUME LinksTyped, NEW x \in Resets, [ResetNext]_allVars,
           zpc[x] = "claiming", zpc'[x] = "setting"
    PROVE  link[shown[x]] = "open"
<1> USE DEF LinksTyped, AskGoto, ResetGoto
<1>0. zpc' # zpc
  OBVIOUS
<1>1. ASSUME NEW r \in Runs, CustomerStep(r) PROVE FALSE
  BY <1>0, <1>1 DEF CustomerStep
<1>2. ASSUME NEW f \in Asks, AskStep(f) PROVE FALSE
  BY <1>0, <1>2 DEF AskStep, FindCustomer, CloseOlder, CreateLink, LinkExpires
<1>3. ASSUME NEW y \in Resets, ResetStep(y) PROVE link[shown[x]] = "open"
  <2>1. CASE FindLink(y) \/ WrongToken(y) \/ CountAttempt(y) \/ FindOwner(y)
    BY <2>1 DEF FindLink, WrongToken, CountAttempt, FindOwner
  <2>2. CASE ClaimLink(y)
    BY <2>2 DEF ClaimLink
  <2>3. CASE SetPassword(y) \/ SweepSessions(y)
    BY <2>3 DEF SetPassword, SweepSessions
  <2> QED
    BY <1>3, <2>1, <2>2, <2>3 DEF ResetStep
<1>4. CASE UNCHANGED allVars
  BY <1>4 DEF allVars, resetVars
<1> QED
  BY <1>1, <1>2, <1>3, <1>4 DEF ResetNext

\* From the closing of the older links on, no reset of one of them goes on to
\* the write of a password, however many it had found working, for any number
\* of asks and resets (the filter of the claim against openRequest).
THEOREM NewAskOvertakesResets == ResetSpec => NewAskStopsOlderResets
<1>1. LinksTyped /\ LinksInv /\ [ResetNext]_allVars =>
        [\A x \in Resets, f \in Asks :
            /\ shown[x] \in older[f]
            /\ apc[f] = "creating" \/ link[f] # None
            => ~(zpc[x] = "claiming" /\ zpc'[x] = "setting")]_allVars
  <2> SUFFICES ASSUME LinksTyped, LinksInv, [ResetNext]_allVars,
                      NEW x \in Resets, NEW f \in Asks, shown[x] \in older[f],
                      apc[f] = "creating" \/ link[f] # None,
                      zpc[x] = "claiming", zpc'[x] = "setting"
               PROVE  FALSE
    OBVIOUS
  <2>1. link[shown[x]] = "open"
    BY ClaimFindsOpen
  <2>2. link[shown[x]] # "open"
    BY DEF LinksInv, OlderLinkIsDead
  <2> QED
    BY <2>1, <2>2
<1> QED
  BY <1>1, LinksKept, PTL DEF ResetSpec, NewAskStopsOlderResets

-----------------------------------------------------------------------------
(***************************************************************************)
(* The sessions of the customer.                                           *)
(***************************************************************************)

\* A step of a run keeps what CustomerInv says: what it signs with is what it
\* read, and the session it carries was carried before or is new.
LEMMA RunKeepsCustomer ==
    ASSUME CustomerTyped, CustomerTyped', CustomerInv, NEW r \in Runs, CustomerStep(r)
    PROVE  CustomerInv'
<1> USE NoneAssumption
    DEF CustomerTyped, Typed, CustomerInv, IssuedAtTheEnd, ChangeOpensItsOwn,
        ReadIsNotAhead, Carries, Signing,
        Start, Goto, accountVars, localVars, historyVars
<1>s. swept' = swept
  BY DEF CustomerStep
<1>1. CASE ReadsCustomer(r) /\ under' = [under EXCEPT ![r] = password] /\ password' = password
  <2>1. CASE Login(r)
    BY <1>1, <1>s, <2>1 DEF Login
  <2>2. CASE ReadOwner(r)
    BY <1>1, <1>s, <2>2 DEF ReadOwner
  <2> QED
    BY <1>1, <2>1, <2>2 DEF ReadsCustomer
<1>2. CASE WritePassword(r) /\ password' = r /\ under' = [under EXCEPT ![r] = r]
  BY <1>2, <1>s DEF WritePassword, BumpVersion
<1>3. CASE LeavesCustomer(r) /\ password' = password /\ under' = under
  <2> USE <1>3, <1>s
  <2>1. CASE Issue(r)
    BY <2>1 DEF Issue
  <2>2. CASE Claim(r)
    BY <2>2 DEF Claim, Open, None
  <2>3. CASE ClaimFails(r) \/ CheckReuse(r)
    BY <2>3 DEF ClaimFails, CheckReuse
  <2>4. CASE RevokeAll(r)
    BY <2>4 DEF RevokeAll, RevokeOpen, None
  <2>5. CASE Bump(r)
    BY <2>5 DEF Bump, BumpVersion
  <2>6. CASE EnterChange(r)
    BY <2>6 DEF EnterChange
  <2>7. CASE VerifyCurrent(r)
    BY <2>7 DEF VerifyCurrent
  <2>8. CASE SweepTokens(r)
    BY <2>8 DEF SweepTokens, RevokeOpen, None
  <2>9. CASE Expire(r)
    BY <2>9 DEF Expire, None
  <2> QED
    BY <2>1, <2>2, <2>3, <2>4, <2>5, <2>6, <2>7, <2>8, <2>9 DEF LeavesCustomer
<1> QED
  BY <1>1, <1>2, <1>3 DEF CustomerStep

\* A reset overtakes with its version what was read before it, and sweeps only
\* sessions nobody carries.
LEMMA ResetKeepsCustomer ==
    ASSUME CustomerTyped, CustomerTyped', CustomerInv, NEW x \in Resets, ResetStep(x)
    PROVE  CustomerInv'
<1> USE NoneAssumption
    DEF CustomerTyped, Typed, CustomerInv, IssuedAtTheEnd, ChangeOpensItsOwn,
        ReadIsNotAhead, Carries, Signing,
        vars, accountVars, localVars, historyVars
<1>1. CASE FindLink(x) \/ WrongToken(x) \/ CountAttempt(x) \/ FindOwner(x) \/ ClaimLink(x)
  BY <1>1 DEF FindLink, WrongToken, CountAttempt, FindOwner, ClaimLink
<1>2. CASE SetPassword(x)
  BY <1>2 DEF SetPassword
<1>3. CASE SweepSessions(x)
  <2> USE <1>3 DEF SweepSessions
  <2>1. ASSUME NEW r \in Runs, token'[r] = None PROVE r \notin swept'
    BY <2>1 DEF Settled, None
  <2>2. ASSUME NEW r \in Runs, Carries(r)' PROVE session'[r] \notin swept'
    BY <2>2 DEF Settled, InFlight, None
  <2>3. IssuedAtTheEnd' /\ ChangeOpensItsOwn'
    BY DEF None
  <2>4. \A r, q \in Runs : token'[r] = None /\ session'[q] = r => q = r
    BY DEF None
  <2>5. ReadIsNotAhead'
    OBVIOUS
  <2>6. \A a \in Signing' : signed'[a] = credential' => under'[a] = password'
    OBVIOUS
  <2> HIDE DEF IssuedAtTheEnd, ChangeOpensItsOwn,
     ReadIsNotAhead, Carries, Signing, SweepSessions
  <2> QED
    BY <2>1, <2>2, <2>3, <2>4, <2>5, <2>6
<1> QED
  BY <1>1, <1>2, <1>3 DEF ResetStep

LEMMA NextCustomerKept ==
    ASSUME CustomerTyped, CustomerTyped', CustomerInv, [ResetNext]_allVars
    PROVE  CustomerInv'
<1>1. ASSUME NEW f \in Asks, AskStep(f) PROVE CustomerInv'
  BY <1>1 DEF AskStep, FindCustomer, CloseOlder, CreateLink, LinkExpires, vars, accountVars,
     localVars, historyVars, CustomerInv, IssuedAtTheEnd, ChangeOpensItsOwn,
     ReadIsNotAhead, Carries, Signing
<1>2. CASE UNCHANGED allVars
  BY <1>2 DEF allVars, resetVars, vars, accountVars, localVars, historyVars,
     CustomerInv, IssuedAtTheEnd, ChangeOpensItsOwn,
     ReadIsNotAhead, Carries, Signing
<1> QED
  BY <1>1, <1>2, RunKeepsCustomer, ResetKeepsCustomer DEF ResetNext

\* An access token ends with the write that sets another password, and a session
\* that a reset swept is never continued, for any number of runs.
THEOREM SessionsFollowThePassword ==
    ResetSpec => [](AccessEndsWithThePassword /\ SweptStaysSwept)
<1>1. ResetInit => CustomerInv
  BY NoneAssumption DEF ResetInit, Init, CustomerInv, IssuedAtTheEnd, ChangeOpensItsOwn,
     ReadIsNotAhead, Carries,
     Signing, None
<1>2. CustomerTyped /\ CustomerTyped' /\ CustomerInv /\ [ResetNext]_allVars => CustomerInv'
  BY NextCustomerKept
<1>3. CustomerTyped /\ CustomerInv => AccessEndsWithThePassword /\ SweptStaysSwept
  BY DEF CustomerTyped, Typed, CustomerInv, AccessEndsWithThePassword, SweptStaysSwept, Accepted,
     Signing, Open, Carries
<1> QED
  BY <1>1, <1>2, <1>3, AllTyped, PTL DEF ResetSpec

\* A session that a reset of the password swept is continued by no renewal,
\* for any number of runs.
THEOREM SweptForGood == ResetSpec => []SweptStaysSwept
  BY SessionsFollowThePassword, PTL
=============================================================================
