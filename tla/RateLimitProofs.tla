-------------------------- MODULE RateLimitProofs --------------------------
(***************************************************************************)
(* The places that the calls of one key are given, for any number of       *)
(* calls, any limit and any horizon.                                       *)
(***************************************************************************)
EXTENDS RateLimit, FiniteSetTheorems, FunctionTheorems, TLAPS

\* The types the steps rely on; the bounds of TypeOK are TLC's.
Typed ==
    /\ clock \in Nat
    /\ count \in Nat
    /\ expires \in Nat
    /\ cpc \in [Calls -> {"idle", "counting", "upserting", "inserting", "sharing", "done"}]
    /\ now \in [Calls -> Nat]
    /\ totalHits \in [Calls -> Nat]
    /\ until \in [Calls -> Nat]
    /\ opening \in Nat
    /\ counted \in [Calls -> Nat]
    /\ collided \subseteq Calls

\* Every reachable state is well typed.
THEOREM RateLimitTyped == Spec => []Typed
<1> USE RateAssumption DEF Typed
<1>1. Init => Typed
  BY DEF Init
<1>2. Typed /\ [Next]_vars => Typed'
  <2> SUFFICES ASSUME Typed, [Next]_vars PROVE Typed'
    OBVIOUS
  <2> USE DEF Goto, Exists, localVars, historyVars
  <2>1. ASSUME NEW c \in Calls, Call(c) PROVE Typed'
    <3>1. CASE Arrive(c)
      BY <3>1 DEF Arrive
    <3>2. CASE CountIn(c)
      BY <3>2 DEF CountIn, InWindow, Answer
    <3>3. CASE NoWindow(c)
      BY <3>3 DEF NoWindow, InWindow
    <3>4. CASE Reopen(c)
      BY <3>4 DEF Reopen, Opens, Answer
    <3>5. CASE FindNone(c)
      BY <3>5 DEF FindNone
    <3>6. CASE Insert(c)
      BY <3>6 DEF Insert, Opens, Answer
    <3>7. CASE Collide(c)
      BY <3>7 DEF Collide
    <3>8. CASE Share(c)
      BY <3>8 DEF Share, Answer
    <3>9. CASE ShareNone(c)
      BY <3>9 DEF ShareNone
    <3> QED
      BY <2>1, <3>1, <3>2, <3>3, <3>4, <3>5, <3>6, <3>7, <3>8, <3>9 DEF Call
  <2>2. CASE Tick
    BY <2>2 DEF Tick
  <2>3. CASE Sweep
    BY <2>3 DEF Sweep
  <2>4. CASE UNCHANGED vars
    BY <2>4 DEF vars
  <2> QED
    BY <2>1, <2>2, <2>3, <2>4 DEF Next
<1> QED
  BY <1>1, <1>2, PTL DEF Spec

\* The invariant behind the places holds in every reachable state.
THEOREM PlacesAccounted == Spec => [](PlacesInv /\ OpenedBefore)
<1> USE RateAssumption DEF Typed, PlacesInv, OpenedBefore
<1>1. Init => PlacesInv /\ OpenedBefore
  BY DEF Init, Exists
<1>2. Typed /\ PlacesInv /\ OpenedBefore /\ [Next]_vars => (PlacesInv /\ OpenedBefore)'
  <2> SUFFICES ASSUME Typed, PlacesInv, OpenedBefore, [Next]_vars
               PROVE  (PlacesInv /\ OpenedBefore)'
    OBVIOUS
  <2> USE DEF Goto, Exists, localVars, historyVars
  <2>1. ASSUME NEW c \in Calls, Call(c) PROVE (PlacesInv /\ OpenedBefore)'
    <3>1. CASE Arrive(c)
      BY <3>1 DEF Arrive
    <3>2. CASE CountIn(c)
      BY <3>2 DEF CountIn, InWindow, Answer
    <3>3. CASE NoWindow(c)
      BY <3>3 DEF NoWindow, InWindow
    <3>4. CASE Reopen(c)
      BY <3>4 DEF Reopen, Opens, Answer
    <3>5. CASE FindNone(c)
      BY <3>5 DEF FindNone
    <3>6. CASE Insert(c)
      BY <3>6 DEF Insert, Opens, Answer
    <3>7. CASE Collide(c)
      BY <3>7 DEF Collide
    <3>8. CASE Share(c)
      BY <3>8 DEF Share, Answer
    <3>9. CASE ShareNone(c)
      BY <3>9 DEF ShareNone
    <3> QED
      BY <2>1, <3>1, <3>2, <3>3, <3>4, <3>5, <3>6, <3>7, <3>8, <3>9 DEF Call
  <2>2. CASE Tick
    BY <2>2 DEF Tick
  <2>3. CASE Sweep
    BY <2>3 DEF Sweep
  <2>4. CASE UNCHANGED vars
    BY <2>4 DEF vars
  <2> QED
    BY <2>1, <2>2, <2>3, <2>4 DEF Next
<1> QED
  BY <1>1, <1>2, RateLimitTyped, PTL DEF Spec

\* No two calls of one opening are given the same place, however their updates
\* and upserts overlap: the counter never counts two calls as one.
THEOREM PlacesNeverShared == Spec => []PlacesAreDistinct
<1>1. PlacesInv => PlacesAreDistinct
  BY DEF PlacesInv, PlacesAreDistinct
<1> QED
  BY <1>1, PlacesAccounted, PTL

-----------------------------------------------------------------------------
(***************************************************************************)
(* What a refused call is told.                                            *)
(***************************************************************************)

\* A step of a call keeps RetryInv: an opening is new, and a call is counted in
\* a window that ends after the time it read, or after a collision.
LEMMA CallKeepsRetry ==
    ASSUME Typed, PlacesInv, OpenedBefore, RetryInv, NEW c \in Calls, Call(c)
    PROVE  RetryInv'
<1> USE RateAssumption DEF Typed, PlacesInv, OpenedBefore, RetryInv, Goto, Exists, localVars,
                           historyVars
<1>1. CASE Arrive(c)
  BY <1>1 DEF Arrive
<1>2. CASE CountIn(c)
  BY <1>2 DEF CountIn, InWindow, Answer
<1>3. CASE NoWindow(c)
  BY <1>3 DEF NoWindow, InWindow
<1>4. CASE Reopen(c)
  BY <1>4 DEF Reopen, Opens, Answer
<1>5. CASE FindNone(c)
  BY <1>5 DEF FindNone
<1>6. CASE Insert(c)
  BY <1>6 DEF Insert, Opens, Answer
<1>7. CASE Collide(c)
  BY <1>7 DEF Collide
<1>8. CASE Share(c)
  BY <1>8 DEF Share, Answer
<1>9. CASE ShareNone(c)
  BY <1>9 DEF ShareNone
<1> QED
  BY <1>1, <1>2, <1>3, <1>4, <1>5, <1>6, <1>7, <1>8, <1>9 DEF Call

LEMMA NextKeepsRetry ==
    ASSUME Typed, PlacesInv, OpenedBefore, RetryInv, [Next]_vars
    PROVE  RetryInv'
<1>1. CASE Tick \/ Sweep \/ UNCHANGED vars
  BY <1>1 DEF Tick, Sweep, vars, Typed, RetryInv, Exists, localVars, historyVars
<1> QED
  BY <1>1, CallKeepsRetry DEF Next

\* Who comes back at the time a refusal told it is counted in another window,
\* for any number of calls, any limit and any length of the window, however the
\* updates, the upserts and the sweep overlap.
THEOREM RefusedIsToldTheTruth == Spec => []RetryAfterIsHonest
<1>1. Init => RetryInv
  BY DEF Init, RetryInv, Exists
<1>2. RetryInv /\ Typed => RetryAfterIsHonest
  BY RateAssumption DEF RetryInv, Typed, RetryAfterIsHonest, Blocked
<1> QED
  BY <1>1, <1>2, NextKeepsRetry, RateLimitTyped, PlacesAccounted, PTL DEF Spec

-----------------------------------------------------------------------------
(***************************************************************************)
(* Who is refused.                                                         *)
(***************************************************************************)

\* An answer gives the next place of the opening, or the first of a new one.
LEMMA AnswerKeepsRefusals ==
    ASSUME Typed, PlacesInv, RefusalInv, NEW c \in Calls, cpc[c] # "done", Answer(c),
           \/ Exists /\ opening > 0 /\ count' = count + 1 /\ opening' = opening
           \/ count' = 1 /\ opening' = opening + 1
    PROVE  RefusalInv'
<1> USE DEF Typed
<1>1. counted[c] = 0
  BY DEF PlacesInv
<1>2. /\ counted'[c] = opening' /\ totalHits'[c] = count' /\ opening' > 0 /\ count' > 0
      /\ \A d \in Calls \ {c} : counted'[d] = counted[d] /\ totalHits'[d] = totalHits[d]
  BY DEF Answer
<1> DEFINE Given(n, o) == \A p \in 1..n : \E d \in Calls : counted'[d] = o /\ totalHits'[d] = p
<1>3. \A n, o : o > 0 /\ Below(n, o) => Given(n, o)
  BY <1>1, <1>2 DEF Below
<1>4. Given(count', opening')
  <2>1. CASE Exists /\ opening > 0 /\ count' = count + 1 /\ opening' = opening
    <3>1. Given(count, opening)
      BY <1>3, <2>1 DEF RefusalInv
    <3> QED
      BY <1>2, <2>1, <3>1
  <2>2. CASE count' = 1 /\ opening' = opening + 1
    BY <1>2, <2>2
  <2> QED
    BY <2>1, <2>2
<1>5. ASSUME NEW d \in Calls, counted'[d] > 0
      PROVE  totalHits'[d] > 0 /\ Given(totalHits'[d], counted'[d])
  <2>1. CASE d = c
    BY <1>2, <1>4, <2>1
  <2>2. CASE d # c
    <3>1. totalHits[d] > 0 /\ Below(totalHits[d], counted[d]) /\ counted[d] > 0
      BY <1>2, <1>5, <2>2 DEF RefusalInv
    <3>2. Given(totalHits[d], counted[d])
      BY <1>3, <3>1
    <3> QED
      BY <1>2, <2>2, <3>1, <3>2
  <2> QED
    BY <2>1, <2>2
<1> QED
  BY <1>4, <1>5 DEF RefusalInv, Below

LEMMA NextKeepsRefusals ==
    ASSUME Typed, PlacesInv, OpenedBefore, RefusalInv, [Next]_vars
    PROVE  RefusalInv'
<1>1. ASSUME NEW c \in Calls, CountIn(c) \/ Share(c) \/ Reopen(c) \/ Insert(c) PROVE RefusalInv'
  BY <1>1, AnswerKeepsRefusals DEF CountIn, InWindow, Share, Reopen, Insert, Opens, OpenedBefore
<1>2. ASSUME NEW c \in Calls, Arrive(c) \/ NoWindow(c) \/ FindNone(c) \/ Collide(c)
      PROVE  RefusalInv'
  BY <1>2 DEF Arrive, NoWindow, FindNone, Collide, RefusalInv, Below, Exists, localVars,
     historyVars
<1>3. ASSUME NEW c \in Calls, ShareNone(c) PROVE RefusalInv'
  <2>1. /\ counted[c] = 0 /\ UNCHANGED <<count, opening, counted>>
        /\ \A d \in Calls \ {c} : totalHits'[d] = totalHits[d]
    BY <1>3 DEF ShareNone, PlacesInv, Typed, historyVars
  <2> DEFINE Given(n, o) == \A p \in 1..n : \E d \in Calls : counted'[d] = o /\ totalHits'[d] = p
  <2>2. \A n, o : o > 0 /\ Below(n, o) => Given(n, o)
    BY <2>1 DEF Below
  <2>3. ASSUME NEW d \in Calls, counted'[d] > 0
        PROVE  totalHits'[d] > 0 /\ Given(totalHits'[d], counted'[d])
    BY <2>1, <2>2, <2>3 DEF RefusalInv, Typed
  <2>4. Exists' => Given(count', opening')
    BY <2>1, <2>2 DEF RefusalInv, OpenedBefore, Exists, Typed
  <2> QED
    BY <2>3, <2>4 DEF RefusalInv, Below
<1>4. CASE Tick \/ Sweep \/ UNCHANGED vars
  BY <1>4 DEF Tick, Sweep, vars, Typed, RefusalInv, Below, Exists, localVars, historyVars
<1> QED
  BY <1>1, <1>2, <1>3, <1>4 DEF Next, Call

\* Behind a refusal there is one call for each place up to the limit.
LEMMA RefusalIsDue ==
    ASSUME Typed, PlacesInv, RetryInv, RefusalInv
    PROVE  RefusedAreOverLimit
<1> USE RateAssumption DEF Typed
<1> SUFFICES ASSUME NEW c \in Calls, Blocked(c)
             PROVE  Cardinality(AdmittedIn(counted[c])) = Limit
  BY DEF RefusedAreOverLimit
<1> DEFINE o == counted[c]
           Passed == AdmittedIn(o)
           Place == [d \in Passed |-> totalHits[d]]
<1>1. o > 0
  BY DEF Blocked, RetryInv
<1>2. Below(Limit, o)
  <2>1. Below(totalHits[c], o) /\ totalHits[c] > Limit
    BY <1>1 DEF RefusalInv, Blocked
  <2> QED
    BY <2>1 DEF Below
<1>3. \A d \in Passed : d \in Calls /\ counted[d] = o /\ totalHits[d] \in 1..Limit
  BY <1>1 DEF AdmittedIn, Admitted, RefusalInv
<1>4. \A p \in 1..Limit : \E d \in Passed : totalHits[d] = p
  <2> SUFFICES ASSUME NEW p \in 1..Limit PROVE \E d \in Passed : totalHits[d] = p
    OBVIOUS
  <2>1. PICK d \in Calls : counted[d] = o /\ totalHits[d] = p
    BY <1>2 DEF Below
  <2>2. d \in Passed
    BY <1>1, <2>1 DEF AdmittedIn, Admitted, PlacesInv
  <2> QED
    BY <2>1, <2>2
<1>5. Place \in Bijection(Passed, 1..Limit)
  <2>1. Place \in [Passed -> 1..Limit]
    BY <1>3
  <2>2. \A d, e \in Passed : Place[d] = Place[e] => d = e
    BY <1>1, <1>3 DEF PlacesInv
  <2> QED
    BY <1>4, <2>1, <2>2 DEF Bijection, Injection, Surjection, IsInjective
<1>6. IsFiniteSet(1..Limit) /\ Cardinality(1..Limit) = Limit
  <2>1. 1 \in Int /\ Limit \in Int /\ ~(1 > Limit) /\ Limit - 1 + 1 = Limit
    OBVIOUS
  <2> QED
    BY <2>1, FS_Interval
<1>7. ExistsBijection(1..Limit, Passed)
  BY <1>5, Fun_ExistsBijSymmetric DEF ExistsBijection
<1> QED
  BY <1>6, <1>7, FS_Bijection

\* Nobody is refused before as many calls as the limit passed in the same
\* window, for any number of calls and any limit.
THEOREM RefusedForTheLimit == Spec => []RefusedAreOverLimit
<1>1. Init => RetryInv /\ RefusalInv
  BY DEF Init, RetryInv, RefusalInv, Exists
<1> QED
  BY <1>1, RefusalIsDue, NextKeepsRetry, NextKeepsRefusals, RateLimitTyped, PlacesAccounted, PTL
  DEF Spec
=============================================================================
