---------------------------- MODULE OrdersProofs ----------------------------
(***************************************************************************)
(* Theorems of Orders, for every number of variants, checkouts, requests   *)
(* and units, and for every set of faults unless a theorem says otherwise. *)
(***************************************************************************)
EXTENDS OrdersInvariant, FiniteSetTheorems, TLAPS

USE NotesAssumption, AttemptsAssumption DEF None, CANCELLED, PENDING_CONTACT

-----------------------------------------------------------------------------
(***************************************************************************)
(* Types.                                                                  *)
(***************************************************************************)

LEMMA InitTyped == Init => Typed
<1> SUFFICES ASSUME Init PROVE Typed
    OBVIOUS
<1> USE DEF Init
<1>1. TypeOK
    BY StockAssumption, QuantityAssumption, SMT
    DEF TypeOK, EmptyCart, Statuses, CheckoutSteps, RequestSteps
<1>2. RequestTyped
    BY DEF RequestTyped
<1> QED
    BY <1>1, <1>2 DEF Typed, StepTyped, Frozen

LEMMA CheckoutTyped ==
    ASSUME StepTyped, NEW o \in Checkouts, CheckoutStep(o)
    PROVE  StepTyped'
<1> USE QuantityAssumption
    DEF StepTyped, TypeOK, RequestTyped, Exists, Statuses, CheckoutSteps,
        documents, catalogue, requestVars, historyVars, checkoutVars
<1>1. CASE Quote(o)
  <2>1. PICK w \in Carts :
            /\ cart' = [cart EXCEPT ![o] = w]
            /\ \/ /\ cpc' = [cpc EXCEPT ![o] = "taking"]
                  /\ left' = [left EXCEPT ![o] = {v \in Variants : w[v] > 0}]
                  /\ lenient' = [lenient EXCEPT ![o] = backorder]
               \/ /\ cpc' = [cpc EXCEPT ![o] = "refused"]
                  /\ UNCHANGED <<left, lenient>>
    BY <1>1 DEF Quote
  <2>2. w \in [Variants -> 0..MaxQuantity] /\ {v \in Variants : w[v] > 0} \in SUBSET Variants
    BY DEF Carts
  <2>3. UNCHANGED <<documents, tries, requestVars, historyVars>>
    BY <1>1 DEF Quote
  <2>4. cart' \in [Checkouts -> [Variants -> 0..MaxQuantity]]
    BY <2>1, <2>2
  <2>5. cpc' \in [Checkouts -> CheckoutSteps] /\ cpc'[o] \in {"taking", "refused"}
    <3>1. cpc \in [Checkouts -> CheckoutSteps]
      OBVIOUS
    <3>2. \E x \in {"taking", "refused"} : cpc' = [cpc EXCEPT ![o] = x]
      BY <2>1
    <3> HIDE DEF StepTyped, TypeOK
    <3> QED
      BY <3>1, <3>2
  <2>6. left' \in [Checkouts -> SUBSET Variants]
    <3>1. left \in [Checkouts -> SUBSET Variants]
      OBVIOUS
    <3> HIDE DEF StepTyped, TypeOK
    <3> QED
      BY <2>1, <2>2, <3>1
  <2>7. lenient' \in [Checkouts -> SUBSET Variants]
    <3>1. lenient \in [Checkouts -> SUBSET Variants] /\ backorder \in SUBSET Variants
      OBVIOUS
    <3> HIDE DEF StepTyped, TypeOK
    <3> QED
      BY <2>1, <3>1
  <2>8. TypeOK'
    BY <2>3, <2>4, <2>5, <2>6, <2>7
  <2>9. RequestTyped'
    BY <2>3
  <2>10. \A p \in Checkouts :
            /\ cpc'[p] = "saving" => tries'[p] < ORDER_CODE_ATTEMPTS
            /\ cpc'[p] \in {"idle", "taking"} => tries'[p] = 0
    BY <1>1, <2>1, <2>3, <2>5 DEF Quote
  <2> QED
    BY <2>8, <2>9, <2>10
<1>2. ASSUME NEW v \in Variants, TakeLine(o, v)
      PROVE  StepTyped'
    BY <1>2, SMT DEF TakeLine
<1>3. ASSUME NEW v \in Variants, TakeRefused(o, v)
      PROVE  StepTyped'
    BY <1>3, SMT DEF TakeRefused, Lines
<1>4. CASE TakeThrows(o)
    BY <1>4, SMT DEF TakeThrows
<1>5. ASSUME NEW v \in Variants, UndoLine(o, v)
      PROVE  StepTyped'
    BY <1>5, SMT DEF UndoLine, ReturnUnits
<1>6. ASSUME NEW v \in Variants, UndoLineFails(o, v)
      PROVE  StepTyped'
    BY <1>6, SMT DEF UndoLineFails
<1>7. CASE Save(o)
    BY <1>7, SMT DEF Save
<1>8. CASE CodeCollides(o)
  <2>1. tries' \in [Checkouts -> 0..ORDER_CODE_ATTEMPTS]
    <3>1. tries \in [Checkouts -> 0..ORDER_CODE_ATTEMPTS] /\ tries[o] < ORDER_CODE_ATTEMPTS
      BY <1>8 DEF CodeCollides
    <3>2. tries' = [tries EXCEPT ![o] = @ + 1]
      BY <1>8 DEF CodeCollides
    <3> HIDE DEF StepTyped, TypeOK
    <3> QED
      BY <3>1, <3>2
  <2>2. CASE UNCHANGED <<cpc, left>> /\ tries[o] + 1 < ORDER_CODE_ATTEMPTS
    <3>1. TypeOK'
      BY <1>8, <2>1, <2>2 DEF CodeCollides
    <3> QED
      BY <1>8, <2>2, <3>1, SMT DEF CodeCollides
  <2>3. CASE StartUndo(o)
    <3>1. Lines(o) \in SUBSET Variants
      BY DEF Lines
    <3> QED
      BY <1>8, <2>1, <2>3, <3>1, SMT DEF CodeCollides, StartUndo
  <2> QED
    BY <1>8, <2>2, <2>3 DEF CodeCollides
<1>9. CASE SaveThrows(o)
    BY <1>9, SMT DEF SaveThrows, StartUndo, Lines
<1>10. CASE SaveAnswerLost(o)
    BY <1>10, SMT DEF SaveAnswerLost, StartUndo, Lines
<1>11. CASE CheckoutDies(o)
    BY <1>11, SMT DEF CheckoutDies
<1> QED
    BY <1>1, <1>2, <1>3, <1>4, <1>5, <1>6, <1>7, <1>8, <1>9, <1>10, <1>11
    DEF CheckoutStep

LEMMA RequestStepTyped ==
    ASSUME StepTyped, NEW r \in Requests, RequestStep(r)
    PROVE  StepTyped'
<1> USE TargetsAssumption
    DEF StepTyped, TypeOK, RequestTyped, Exists, Statuses, RequestSteps,
        documents, catalogue, requestVars, historyVars, checkoutVars
<1>1. CASE ReadForStatus(r)
    BY <1>1, SMT DEF ReadForStatus
<1>2. CASE Move(r)
  <2>1. wanted[r] \in Statuses /\ target[r] \in Checkouts
    BY <1>2 DEF Move
  <2>2. TypeOK'
    BY <1>2, <2>1, SMT DEF Move
  <2> QED
    BY <1>2, <2>1, <2>2, SMT DEF Move
<1>3. CASE Claim(r)
  <2>1. target[r] \in Checkouts /\ Lines(target[r]) \in SUBSET Variants
    BY <1>3 DEF Claim, Lines
  <2>2. CASE status[target[r]] = CANCELLED
    <3>1. /\ ppc' = [ppc EXCEPT ![r] = "auditing"]
          /\ UNCHANGED <<status, claimants, moved, due>>
      BY <1>3, <2>2 DEF Claim
    <3> QED
      BY <1>3, <3>1, SMT DEF Claim
  <2>3. CASE status[target[r]] # CANCELLED
    <3>1. /\ status' = [status EXCEPT ![target[r]] = CANCELLED]
          /\ claimants' = [claimants EXCEPT ![target[r]] = @ \cup {r}]
          /\ due' = [due EXCEPT ![r] = Lines(target[r])]
          /\ moved' = moved \cup {r}
          /\ ppc' = [ppc EXCEPT ![r] = "restoring"]
      BY <1>3, <2>3 DEF Claim
    <3>2. TypeOK'
      BY <1>3, <2>1, <3>1 DEF Claim
    <3> QED
      BY <1>3, <2>1, <3>1, <3>2, SMT DEF Claim
  <2> QED
    BY <2>2, <2>3
<1>4. ASSUME NEW v \in Variants, RestoreLine(r, v)
      PROVE  StepTyped'
    BY <1>4, SMT DEF RestoreLine, ReturnUnits
<1>5. ASSUME NEW v \in Variants, RestoreLineFails(r, v)
      PROVE  StepTyped'
    BY <1>5, SMT DEF RestoreLineFails
<1>6. CASE Audit(r)
    BY <1>6, SMT DEF Audit
<1>7. CASE ReadForNotes(r)
    BY <1>7, SMT DEF ReadForNotes
<1>8. CASE SaveNotes(r)
    BY <1>8, SMT DEF SaveNotes
<1>9. CASE RequestDies(r)
    BY <1>9, SMT DEF RequestDies
<1> QED
    BY <1>1, <1>2, <1>3, <1>4, <1>5, <1>6, <1>7, <1>8, <1>9
    DEF RequestStep

LEMMA NextStepTyped == StepTyped /\ [Next]_vars => StepTyped'
<1> SUFFICES ASSUME StepTyped, [Next]_vars PROVE StepTyped'
    OBVIOUS
<1>1. CASE \E o \in Checkouts : CheckoutStep(o)
    BY <1>1, CheckoutTyped
<1>2. CASE \E r \in Requests : RequestStep(r)
    BY <1>2, RequestStepTyped
<1>3. CASE UNCHANGED vars
    BY <1>3 DEF vars, documents, checkoutVars, requestVars, historyVars, StepTyped, TypeOK,
                RequestTyped, Exists
<1> QED
    BY <1>1, <1>2, <1>3 DEF Next

\* Only the quote writes the flags it read, and no step here writes the catalogue.
LEMMA NextLenient ==
    ASSUME [Next]_vars
    PROVE  lenient' = lenient \/ \E o \in Checkouts : Quote(o)
<1> USE DEF documents, catalogue, checkoutVars, requestVars, historyVars
<1>1. ASSUME NEW o \in Checkouts, CheckoutStep(o), ~Quote(o)
      PROVE  lenient' = lenient
    BY <1>1, Zenon DEF CheckoutStep, TakeLine, TakeRefused, TakeThrows, UndoLine,
       UndoLineFails, Save, CodeCollides, SaveThrows, SaveAnswerLost, CheckoutDies
<1>2. ASSUME NEW r \in Requests, RequestStep(r)
      PROVE  lenient' = lenient
    BY <1>2, Zenon DEF RequestStep, ReadForStatus, Move, Claim, RestoreLine, RestoreLineFails,
       Audit, ReadForNotes, SaveNotes, RequestDies
<1> QED
    BY <1>1, <1>2 DEF Next, vars

LEMMA NextKeepsCatalogue == [Next]_vars => UNCHANGED catalogue
<1> SUFFICES ASSUME [Next]_vars PROVE UNCHANGED catalogue
    OBVIOUS
<1> USE DEF documents, catalogue, checkoutVars, requestVars, historyVars
<1>1. ASSUME NEW o \in Checkouts, CheckoutStep(o) PROVE UNCHANGED catalogue
    BY <1>1, Zenon DEF CheckoutStep, Quote, TakeLine, TakeRefused, TakeThrows, UndoLine,
       UndoLineFails, Save, CodeCollides, SaveThrows, SaveAnswerLost, CheckoutDies
<1>2. ASSUME NEW r \in Requests, RequestStep(r) PROVE UNCHANGED catalogue
    BY <1>2, Zenon DEF RequestStep, ReadForStatus, Move, Claim, RestoreLine, RestoreLineFails,
       Audit, ReadForNotes, SaveNotes, RequestDies
<1> QED
    BY <1>1, <1>2 DEF Next, vars

LEMMA NextFrozen == StepTyped /\ Frozen /\ [Next]_vars => Frozen'
<1> SUFFICES ASSUME StepTyped, Frozen, [Next]_vars PROVE Frozen'
    OBVIOUS
<1>1. backorder' = backorder /\ listed' = listed
    BY NextKeepsCatalogue DEF catalogue
<1>2. CASE lenient' = lenient
    BY <1>1, <1>2 DEF Frozen
<1>3. ASSUME NEW o \in Checkouts, Quote(o) PROVE Frozen'
  <2>1. lenient' = lenient \/ lenient' = [lenient EXCEPT ![o] = backorder]
    BY <1>3 DEF Quote
  <2>2. lenient \in [Checkouts -> SUBSET Variants]
    BY DEF StepTyped, TypeOK
  <2> QED
    BY <1>1, <2>1, <2>2 DEF Frozen
<1> QED
    BY <1>2, <1>3, NextLenient

LEMMA NextTyped == Typed /\ [Next]_vars => Typed'
    BY NextStepTyped, NextFrozen DEF Typed

\* Every variable keeps its type, and what a request read always fits the write
\* it is about to make: no request acts on an order that does not exist.
THEOREM TypeCorrect == Spec => []Typed
<1>1. QED
    BY InitTyped, NextTyped, PTL DEF Spec

-----------------------------------------------------------------------------
(***************************************************************************)
(* No unit is sold twice.                                                  *)
(***************************************************************************)

\* Only three calls write a stock; every other step leaves the shelf alone.
LEMMA NextStock ==
    ASSUME [Next]_vars
    PROVE  \/ stock' = stock
           \/ \E o \in Checkouts, v \in Variants : TakeLine(o, v) \/ UndoLine(o, v)
           \/ \E r \in Requests, v \in Variants : RestoreLine(r, v)
<1> USE DEF documents, catalogue, checkoutVars, requestVars, historyVars
<1>1. ASSUME NEW o \in Checkouts, CheckoutStep(o),
             \A v \in Variants : ~TakeLine(o, v) /\ ~UndoLine(o, v)
      PROVE  stock' = stock
    BY <1>1, Zenon DEF CheckoutStep, Quote, TakeRefused, TakeThrows,
       UndoLineFails, Save, CodeCollides, SaveThrows, SaveAnswerLost, CheckoutDies
<1>2. ASSUME NEW r \in Requests, RequestStep(r),
             \A v \in Variants : ~RestoreLine(r, v)
      PROVE  stock' = stock
    BY <1>2, Zenon DEF RequestStep, ReadForStatus, Move, Claim, RestoreLineFails,
       Audit, ReadForNotes, SaveNotes, RequestDies
<1> QED
    BY <1>1, <1>2 DEF Next, vars

LEMMA NextNoOversell == Typed /\ NoOversell /\ [Next]_vars => NoOversell'
<1> SUFFICES ASSUME Typed, NoOversell, [Next]_vars,
                    NEW x \in Variants, x \notin backorder
             PROVE  stock'[x] >= 0
    BY NextKeepsCatalogue DEF NoOversell, catalogue
<1>1. stock \in [Variants -> Int] /\ stock[x] >= 0
    BY DEF Typed, StepTyped, Frozen, TypeOK, NoOversell
<1>2. CASE stock' = stock
    BY <1>1, <1>2
<1>3. ASSUME NEW o \in Checkouts, NEW v \in Variants, TakeLine(o, v)
      PROVE  stock'[x] >= 0
  <2>1. cart[o][v] \in Nat /\ x \notin lenient[o]
    BY QuantityAssumption DEF Typed, StepTyped, Frozen, TypeOK
  <2> QED
    BY <1>1, <1>3, <2>1, SMT DEF TakeLine, CanTake
<1>4. ASSUME NEW o \in Checkouts, NEW v \in Variants, UndoLine(o, v)
      PROVE  stock'[x] >= 0
  <2>1. cart[o][v] \in Nat
    BY QuantityAssumption DEF Typed, StepTyped, Frozen, TypeOK
  <2> QED
    BY <1>1, <1>4, <2>1, SMT DEF UndoLine, ReturnUnits
<1>5. ASSUME NEW r \in Requests, NEW v \in Variants, RestoreLine(r, v)
      PROVE  stock'[x] >= 0
  <2>1. cart[target[r]][v] \in Nat
    BY <1>5, QuantityAssumption DEF Typed, StepTyped, Frozen, TypeOK, RequestTyped, RestoreLine
  <2> QED
    BY <1>1, <1>5, <2>1, SMT DEF RestoreLine, ReturnUnits
<1> QED
    BY <1>2, <1>3, <1>4, <1>5, NextStock

\* No interleaving of any number of checkouts, cancellations and failures, the
\* lost answer included, sells a unit of a variant that the shelf does not have.
THEOREM NeverOversold == Spec => []NoOversell
<1>1. Init => NoOversell
    BY StockAssumption DEF Init, NoOversell
<1>2. Typed /\ Typed' /\ NoOversell /\ [Next]_vars => NoOversell'
    BY NextNoOversell
<1> QED
    BY <1>1, <1>2, TypeCorrect, PTL DEF Spec

-----------------------------------------------------------------------------
(***************************************************************************)
(* The accounts: what each checkout and each order has off the shelf.      *)
(* They assume that an answered save is the only one that landed.          *)
(***************************************************************************)

NoLostAnswer == "saveAnswer" \notin Faults

LEMMA CheckoutAccounts ==
    ASSUME NoLostAnswer, StepTyped, StepTyped', Accounts, NEW o \in Checkouts, CheckoutStep(o)
    PROVE  Accounts'
<1> USE DEF Accounts, CheckoutAccount, ClaimAccount, RestorersClaimed, Live, Exists, Lines,
            documents, catalogue, requestVars, historyVars, checkoutVars
<1>t. /\ cpc \in [Checkouts -> CheckoutSteps] /\ cart \in [Checkouts -> [Variants -> 0..MaxQuantity]]
      /\ left \in [Checkouts -> SUBSET Variants] /\ out \in [Checkouts -> SUBSET Variants]
      /\ status \in [Checkouts -> Statuses \cup {None}]
      /\ \A r \in Requests : ppc[r] # "idle" => target[r] \in Checkouts /\ Exists(target[r])
    BY DEF StepTyped, TypeOK, RequestTyped
<1>1. CASE Quote(o)
  <2>1. cpc[o] = "idle" /\ UNCHANGED <<status, out, claimants, revived, ppc, target, due>>
    BY <1>1 DEF Quote
  <2>2. \A p \in Checkouts \ {o} : cpc'[p] = cpc[p] /\ cart'[p] = cart[p] /\ left'[p] = left[p]
    BY <1>1, <1>t DEF Quote
  <2>3. \/ cpc'[o] = "refused" /\ left'[o] = left[o]
        \/ cpc'[o] = "taking" /\ left'[o] = {v \in Variants : cart'[o][v] > 0}
    BY <1>1, <1>t, SMT DEF Quote, CheckoutSteps
  <2>4. left[o] = {} /\ out[o] = {} /\ status[o] = None
    BY <2>1
  <2>5. \A p \in Checkouts : CheckoutAccount(p)'
    BY <2>1, <2>2, <2>3, <2>4
  <2>6. \A p \in Checkouts \ revived' : ClaimAccount(p)'
    BY <2>1, <2>2, <2>4
  <2> QED
    BY <2>1, <2>5, <2>6
<1>2. ASSUME NEW v \in Variants, TakeLine(o, v)
      PROVE  Accounts'
    BY <1>2, <1>t, SMT DEF TakeLine
<1>3. ASSUME NEW v \in Variants, TakeRefused(o, v)
      PROVE  Accounts'
    BY <1>3, <1>t, SMT DEF TakeRefused
<1>4. CASE TakeThrows(o)
    BY <1>4, <1>t, SMT DEF TakeThrows
<1>5. ASSUME NEW v \in Variants, UndoLine(o, v)
      PROVE  Accounts'
    BY <1>5, <1>t, SMT DEF UndoLine, ReturnUnits
<1>6. ASSUME NEW v \in Variants, UndoLineFails(o, v)
      PROVE  Accounts'
    BY <1>6, <1>t, SMT DEF UndoLineFails
<1>7. CASE Save(o)
    BY <1>7, <1>t, SMT DEF Save
<1>8. CASE CodeCollides(o)
    BY <1>8, <1>t, SMT DEF CodeCollides, StartUndo
<1>9. CASE SaveThrows(o)
    BY <1>9, <1>t, SMT DEF SaveThrows, StartUndo
<1>10. CASE CheckoutDies(o)
    BY <1>10, <1>t, SMT DEF CheckoutDies
<1> QED
    BY <1>1, <1>2, <1>3, <1>4, <1>5, <1>6, <1>7, <1>8, <1>9, <1>10
    DEF CheckoutStep, SaveAnswerLost, NoLostAnswer

LEMMA RequestAccounts ==
    ASSUME StepTyped, StepTyped', Accounts, NEW r \in Requests, RequestStep(r)
    PROVE  Accounts'
<1> USE DEF Accounts, CheckoutAccount, ClaimAccount, RestorersClaimed, Live, Exists, Lines,
            documents, catalogue, requestVars, historyVars, checkoutVars
<1>t. /\ ppc \in [Requests -> RequestSteps] /\ target \in [Requests -> Checkouts \cup {None}]
      /\ due \in [Requests -> SUBSET Variants] /\ out \in [Checkouts -> SUBSET Variants]
      /\ status \in [Checkouts -> Statuses \cup {None}]
      /\ claimants \in [Checkouts -> SUBSET Requests] /\ revived \subseteq Checkouts
      /\ \A q \in Requests : ppc[q] # "idle" => target[q] \in Checkouts /\ Exists(target[q])
      /\ ppc[r] = "moving" => wanted[r] \in Statuses \ {CANCELLED}
    BY DEF StepTyped, TypeOK, RequestTyped
<1>1. CASE ReadForStatus(r)
    BY <1>1, <1>t, SMT DEF ReadForStatus
<1>2. CASE Move(r)
  <2> DEFINE o == target[r]
  <2>1. o \in Checkouts /\ status[o] # None /\ ppc[r] = "moving"
    BY <1>2, <1>t DEF Move
  <2>2. /\ UNCHANGED <<cpc, cart, left, out, claimants, target, due>>
        /\ \A p \in Checkouts \ {o} : status'[p] = status[p]
        /\ status'[o] \notin {None, CANCELLED}
        /\ \A q \in Requests \ {r} : ppc'[q] = ppc[q]
        /\ ppc'[r] = "auditing"
        /\ revived' = IF status[o] = CANCELLED THEN revived \cup {o} ELSE revived
    BY <1>2, <1>t, <2>1, SMT DEF Move, Statuses
  <2> HIDE DEF o
  <2>3. \A p \in Checkouts : CheckoutAccount(p)'
    BY <2>1, <2>2
  <2>4. \A p \in Checkouts \ revived' : ClaimAccount(p)'
    BY <2>1, <2>2, <1>t
  <2>5. RestorersClaimed'
    BY <2>2
  <2> QED
    BY <2>3, <2>4, <2>5
<1>3. CASE Claim(r)
  <2> DEFINE o == target[r]
  <2>1. o \in Checkouts /\ status[o] # None /\ ppc[r] = "claiming"
    BY <1>3, <1>t DEF Claim
  <2>2. CASE status[o] = CANCELLED
    BY <1>3, <1>t, <2>2, SMT DEF Claim
  <2>3. CASE status[o] # CANCELLED
    <3>1. /\ UNCHANGED <<cpc, cart, left, out, target, revived>>
          /\ \A p \in Checkouts \ {o} : status'[p] = status[p] /\ claimants'[p] = claimants[p]
          /\ status'[o] = CANCELLED /\ claimants'[o] = claimants[o] \cup {r}
          /\ \A q \in Requests \ {r} : ppc'[q] = ppc[q] /\ due'[q] = due[q]
          /\ ppc'[r] = "restoring" /\ due'[r] = Lines(o)
      BY <1>3, <1>t, <2>1, <2>3, SMT DEF Claim
    <3>2. \A p \in Checkouts \ revived : r \notin claimants[p]
      BY <2>1
    <3>3. o \notin revived => claimants[o] = {} /\ out[o] = Lines(o)
      BY <2>1, <2>3
    <3>4. o = target[r]
      OBVIOUS
    <3> HIDE DEF o
    <3>5. \A p \in Checkouts : CheckoutAccount(p)'
      BY <2>1, <3>1
    <3>6. \A p \in Checkouts \ revived' : ClaimAccount(p)'
      BY <2>1, <3>1, <3>2, <3>3, <3>4, <1>t
    <3>7. RestorersClaimed'
      BY <2>1, <3>1, <3>4, <1>t
    <3> QED
      BY <3>5, <3>6, <3>7
  <2> QED
    BY <2>2, <2>3
<1>4. ASSUME NEW v \in Variants, RestoreLine(r, v)
      PROVE  Accounts'
    BY <1>4, <1>t, SMT DEF RestoreLine, ReturnUnits
<1>5. ASSUME NEW v \in Variants, RestoreLineFails(r, v)
      PROVE  Accounts'
    BY <1>5, <1>t, SMT DEF RestoreLineFails
<1>6. CASE Audit(r)
    BY <1>6, <1>t, SMT DEF Audit
<1>7. CASE ReadForNotes(r)
    BY <1>7, <1>t, SMT DEF ReadForNotes
<1>8. CASE SaveNotes(r)
    BY <1>8, <1>t, SMT DEF SaveNotes
<1>9. CASE RequestDies(r)
    BY <1>9, <1>t, SMT DEF RequestDies
<1> QED
    BY <1>1, <1>2, <1>3, <1>4, <1>5, <1>6, <1>7, <1>8, <1>9
    DEF RequestStep

-----------------------------------------------------------------------------
(***************************************************************************)
(* Counting units.                                                         *)
(***************************************************************************)

\* The units of x that the lines O keep, for any lines O.
UnitsIn(O, x) ==
    {u \in Checkouts \X (1..MaxQuantity) : x \in O[u[1]] /\ u[2] <= cart[u[1]][x]}

UnitCount(O, x) == Cardinality(UnitsIn(O, x))

LEMMA UnitsFinite == \A O, x : IsFiniteSet(UnitsIn(O, x))
<1> TAKE O, x
<1>1. IsFiniteSet(Checkouts \X (1..MaxQuantity))
  <2>1. IsFiniteSet(1..MaxQuantity)
    BY QuantityAssumption, FS_Interval
  <2> HIDE DEF UnitsIn
  <2> QED
    BY <2>1, CheckoutsAssumption, FS_Product, Zenon
<1>2. UnitsIn(O, x) \in SUBSET (Checkouts \X (1..MaxQuantity))
    BY DEF UnitsIn
<1> QED
    BY <1>1, <1>2, FS_Subset

\* The lines O2 are the lines O1 and the line v of o.
OneMoreLine(O1, O2, o, v) ==
    /\ v \notin O1[o]
    /\ O2[o] = O1[o] \cup {v}
    /\ \A p \in Checkouts \ {o} : O2[p] = O1[p]

\* One more line of o weighs its quantity, and no other variant.
LEMMA LineWeighs ==
    ASSUME TypeOK, NEW O1, NEW O2, NEW o \in Checkouts, NEW v \in Variants,
           OneMoreLine(O1, O2, o, v)
    PROVE  /\ UnitCount(O2, v) = UnitCount(O1, v) + cart[o][v]
           /\ \A x : x # v => UnitCount(O2, x) = UnitCount(O1, x)
<1> DEFINE new == {o} \X (1..cart[o][v])
<1>1. cart[o][v] \in 0..MaxQuantity /\ MaxQuantity \in Nat
    BY QuantityAssumption DEF TypeOK
<1>2. IsFiniteSet(UnitsIn(O1, v)) /\ Cardinality(UnitsIn(O1, v)) \in Nat
    BY UnitsFinite, FS_CardinalityType
<1>3. UnitsIn(O2, v) = UnitsIn(O1, v) \cup new
    BY <1>1, SMT DEF UnitsIn, OneMoreLine
<1>4. UnitsIn(O1, v) \cap new = {}
    BY SMT DEF UnitsIn, OneMoreLine
<1>5. IsFiniteSet(1..cart[o][v]) /\ Cardinality(1..cart[o][v]) = cart[o][v]
  <2>1. 1 \in Int /\ cart[o][v] \in Int /\ cart[o][v] >= 0
    BY <1>1
  <2>2. Cardinality(1..cart[o][v]) = IF 1 > cart[o][v] THEN 0 ELSE cart[o][v] - 1 + 1
    BY <2>1, FS_Interval, Zenon
  <2>3. IsFiniteSet(1..cart[o][v])
    BY <2>1, FS_Interval, Zenon
  <2> QED
    BY <2>1, <2>2, <2>3
<1>6. IsFiniteSet({o}) /\ Cardinality({o}) = 1
    BY FS_Singleton
<1>7. IsFiniteSet(new) /\ Cardinality(new) = 1 * cart[o][v]
  <2>1. /\ IsFiniteSet({o} \X (1..cart[o][v]))
        /\ Cardinality({o} \X (1..cart[o][v])) = Cardinality({o}) * Cardinality(1..cart[o][v])
    BY <1>5, <1>6, FS_Product, Zenon
  <2> QED
    BY <1>5, <1>6, <2>1
<1>8. Cardinality({}) = 0
    BY FS_EmptySet
<1> HIDE DEF new
<1>9. Cardinality(UnitsIn(O1, v) \cup new) =
        Cardinality(UnitsIn(O1, v)) + Cardinality(new) - Cardinality({})
    BY <1>2, <1>4, <1>7, FS_Union
<1>10. UnitCount(O2, v) = UnitCount(O1, v) + cart[o][v]
    BY <1>1, <1>2, <1>3, <1>7, <1>8, <1>9 DEF UnitCount
<1>11. ASSUME NEW x, x # v PROVE UnitCount(O2, x) = UnitCount(O1, x)
  <2>1. UnitsIn(O2, x) = UnitsIn(O1, x)
    BY <1>11, SMT DEF UnitsIn, OneMoreLine
  <2> QED
    BY <2>1 DEF UnitCount
<1> QED
    BY <1>10, <1>11

\* Counts are natural numbers: an order holds finitely many units.
LEMMA UnitsCounted == \A O, x : UnitCount(O, x) \in Nat
    BY UnitsFinite, FS_CardinalityType DEF UnitCount

-----------------------------------------------------------------------------
(***************************************************************************)
(* Every unit is in one place.                                             *)
(***************************************************************************)

\* The units of x, wherever they are.
UnitsOf(x) == stock[x] + Cardinality(HeldUnits(x))

Balanced == \A v \in Variants : UnitsOf(v) = InitialStock[v]

\* Only the quote changes a cart, and only before anything is taken.
LEMMA NextCarts ==
    ASSUME [Next]_vars
    PROVE  cart' = cart \/ \E o \in Checkouts : Quote(o)
<1> USE DEF documents, catalogue, checkoutVars, requestVars, historyVars
<1>1. ASSUME NEW o \in Checkouts, CheckoutStep(o), ~Quote(o)
      PROVE  cart' = cart
    BY <1>1, Zenon DEF CheckoutStep, TakeLine, TakeRefused, TakeThrows, UndoLine,
       UndoLineFails, Save, CodeCollides, SaveThrows, SaveAnswerLost, CheckoutDies
<1>2. ASSUME NEW r \in Requests, RequestStep(r)
      PROVE  cart' = cart
    BY <1>2, Zenon DEF RequestStep, ReadForStatus, Move, Claim, RestoreLine, RestoreLineFails,
       Audit, ReadForNotes, SaveNotes, RequestDies
<1> QED
    BY <1>1, <1>2 DEF Next, vars

\* The lines that are out change only where the shelf does.
LEMMA NextOut ==
    ASSUME [Next]_vars
    PROVE  \/ out' = out /\ stock' = stock
           \/ \E o \in Checkouts, v \in Variants : TakeLine(o, v) \/ UndoLine(o, v)
           \/ \E r \in Requests, v \in Variants : RestoreLine(r, v)
<1> USE DEF documents, catalogue, checkoutVars, requestVars, historyVars
<1>1. ASSUME NEW o \in Checkouts, CheckoutStep(o),
             \A v \in Variants : ~TakeLine(o, v) /\ ~UndoLine(o, v)
      PROVE  out' = out /\ stock' = stock
    BY <1>1, Zenon DEF CheckoutStep, Quote, TakeRefused, TakeThrows,
       UndoLineFails, Save, CodeCollides, SaveThrows, SaveAnswerLost, CheckoutDies
<1>2. ASSUME NEW r \in Requests, RequestStep(r),
             \A v \in Variants : ~RestoreLine(r, v)
      PROVE  out' = out /\ stock' = stock
    BY <1>2, Zenon DEF RequestStep, ReadForStatus, Move, Claim, RestoreLineFails,
       Audit, ReadForNotes, SaveNotes, RequestDies
<1> QED
    BY <1>1, <1>2 DEF Next, vars

\* Returning a line that is out moves its units from the order to the shelf; a
\* line whose variant is gone from the catalogue stays where it is.
LEMMA ReturnKeepsUnits ==
    ASSUME StepTyped, cart' = cart, NEW o \in Checkouts, NEW v \in out[o], ReturnUnits(o, v),
           NEW x \in Variants
    PROVE  UnitsOf(x)' = UnitsOf(x)
<1>1. stock \in [Variants -> Int] /\ out \in [Checkouts -> SUBSET Variants]
      /\ v \in Variants /\ TypeOK /\ cart[o][v] \in Int
    BY DEF StepTyped, TypeOK
<1>2. CASE v \notin listed
  <2>1. stock' = stock /\ out' = out
    BY <1>1, <1>2 DEF ReturnUnits
  <2> QED
    BY <2>1 DEF UnitsOf, HeldUnits
<1>3. CASE v \in listed
  <2>1. /\ stock'[x] = stock[x] + (IF x = v THEN cart[o][v] ELSE 0)
        /\ v \notin out'[o] /\ out[o] = out'[o] \cup {v}
        /\ \A p \in Checkouts \ {o} : out[p] = out'[p]
    BY <1>1, <1>3, SMT DEF ReturnUnits
  <2>2. PICK before, after : before = out' /\ after = out
    OBVIOUS
  <2>3. OneMoreLine(before, after, o, v)
    BY <2>1, <2>2 DEF OneMoreLine
  <2>4. /\ UnitCount(after, v) = UnitCount(before, v) + cart[o][v]
        /\ x # v => UnitCount(after, x) = UnitCount(before, x)
    BY <1>1, <2>3, LineWeighs
  <2>5. /\ Cardinality(HeldUnits(x)) = UnitCount(after, x)
        /\ Cardinality(HeldUnits(x)') = UnitCount(before, x)
    BY <2>2 DEF HeldUnits, UnitCount, UnitsIn
  <2> QED
    BY <1>1, <2>1, <2>4, <2>5, UnitsCounted DEF UnitsOf
<1> QED
    BY <1>2, <1>3

\* Taking a line moves its units from the shelf to the checkout.
LEMMA TakeKeepsUnits ==
    ASSUME StepTyped, Accounts, NEW o \in Checkouts, NEW v \in Variants, TakeLine(o, v),
           NEW x \in Variants
    PROVE  UnitsOf(x)' = UnitsOf(x)
<1>1. stock \in [Variants -> Int] /\ out \in [Checkouts -> SUBSET Variants]
      /\ TypeOK /\ cart[o][v] \in Int
    BY DEF StepTyped, TypeOK
<1>2. v \notin out[o] /\ cart' = cart
    BY DEF TakeLine, Accounts, CheckoutAccount
<1>3. /\ stock'[x] = stock[x] - (IF x = v THEN cart[o][v] ELSE 0)
      /\ out'[o] = out[o] \cup {v}
      /\ \A p \in Checkouts \ {o} : out'[p] = out[p]
    BY <1>1, SMT DEF TakeLine
<1>4. PICK before, after : before = out /\ after = out'
    OBVIOUS
<1>5. OneMoreLine(before, after, o, v)
    BY <1>2, <1>3, <1>4 DEF OneMoreLine
<1>6. /\ UnitCount(after, v) = UnitCount(before, v) + cart[o][v]
      /\ x # v => UnitCount(after, x) = UnitCount(before, x)
    BY <1>1, <1>5, LineWeighs
<1>7. /\ Cardinality(HeldUnits(x)) = UnitCount(before, x)
      /\ Cardinality(HeldUnits(x)') = UnitCount(after, x)
    BY <1>2, <1>4 DEF HeldUnits, UnitCount, UnitsIn
<1> QED
    BY <1>1, <1>3, <1>6, <1>7, UnitsCounted DEF UnitsOf

\* No step of a checkout or a request adds a unit or loses one.
LEMMA NextKeepsUnits ==
    ASSUME StepTyped, Accounts, revived = {}, [Next]_vars, NEW x \in Variants
    PROVE  UnitsOf(x)' = UnitsOf(x)
<1>1. CASE \E o \in Checkouts : Quote(o)
  <2>1. PICK o \in Checkouts : Quote(o)
    BY <1>1
  <2>2. out[o] = {} /\ out' = out /\ stock' = stock /\ out \in [Checkouts -> SUBSET Variants]
    BY <2>1 DEF Quote, Accounts, CheckoutAccount, historyVars, documents, StepTyped, TypeOK
  <2>3. \A p \in Checkouts \ {o} : cart'[p] = cart[p]
    BY <2>1, SMT DEF Quote, StepTyped, TypeOK
  <2>4. HeldUnits(x)' = HeldUnits(x)
    BY <2>2, <2>3, SMT DEF HeldUnits
  <2> QED
    BY <2>2, <2>4 DEF UnitsOf
<1>2. CASE cart' = cart /\ out' = out /\ stock' = stock
    BY <1>2 DEF UnitsOf, HeldUnits
<1>3. ASSUME NEW o \in Checkouts, NEW v \in Variants, TakeLine(o, v)
      PROVE  UnitsOf(x)' = UnitsOf(x)
    BY <1>3, TakeKeepsUnits
<1>4. ASSUME NEW o \in Checkouts, NEW v \in Variants, UndoLine(o, v)
      PROVE  UnitsOf(x)' = UnitsOf(x)
  <2>1. v \in out[o] /\ cart' = cart /\ ReturnUnits(o, v)
    BY <1>4 DEF UndoLine, Accounts, CheckoutAccount
  <2> QED
    BY <2>1, ReturnKeepsUnits
<1>5. ASSUME NEW r \in Requests, NEW v \in Variants, RestoreLine(r, v)
      PROVE  UnitsOf(x)' = UnitsOf(x)
  <2>1. target[r] \in Checkouts /\ v \in due[r] /\ ppc[r] = "restoring"
    BY <1>5 DEF RestoreLine, StepTyped, RequestTyped
  <2>2. v \in out[target[r]] /\ cart' = cart /\ ReturnUnits(target[r], v)
    BY <1>5, <2>1 DEF RestoreLine, Accounts, ClaimAccount, RestorersClaimed, checkoutVars
  <2> QED
    BY <2>1, <2>2, ReturnKeepsUnits
<1> QED
    BY <1>1, <1>2, <1>3, <1>4, <1>5, NextCarts, NextOut

LEMMA RevivedGrows == [Next]_vars => revived \subseteq revived'
<1> SUFFICES ASSUME [Next]_vars PROVE revived \subseteq revived'
    OBVIOUS
<1> USE DEF documents, catalogue, checkoutVars, requestVars, historyVars
<1>1. ASSUME NEW o \in Checkouts, CheckoutStep(o) PROVE revived' = revived
    BY <1>1, Zenon DEF CheckoutStep, Quote, TakeLine, TakeRefused, TakeThrows, UndoLine,
       UndoLineFails, Save, CodeCollides, SaveThrows, SaveAnswerLost, CheckoutDies
<1>2. ASSUME NEW r \in Requests, RequestStep(r), ~Move(r) PROVE revived' = revived
    BY <1>2, Zenon DEF RequestStep, ReadForStatus, Claim, RestoreLine, RestoreLineFails,
       Audit, ReadForNotes, SaveNotes, RequestDies
<1>3. ASSUME NEW r \in Requests, Move(r) PROVE revived \subseteq revived'
    BY <1>3 DEF Move
<1> QED
    BY <1>1, <1>2, <1>3 DEF Next, vars

\* Four calls write a status, and none of them removes it: an order stays.
LEMMA OrdersStay ==
    ASSUME StepTyped, [Next]_vars, NEW o \in Checkouts, Exists(o)
    PROVE  Exists(o)'
<1>t. status \in [Checkouts -> Statuses \cup {None}] /\ status[o] # None
    BY DEF StepTyped, TypeOK, Exists
<1> SUFFICES status'[o] # None
    BY DEF Exists
<1>1. ASSUME NEW p \in Checkouts, CheckoutStep(p), ~Save(p), ~SaveAnswerLost(p)
      PROVE  status' = status
    BY <1>1, Zenon DEF CheckoutStep, Quote, TakeLine, TakeRefused, TakeThrows, UndoLine,
       UndoLineFails, CodeCollides, SaveThrows, CheckoutDies, documents
<1>2. ASSUME NEW r \in Requests, RequestStep(r), ~Move(r), ~Claim(r)
      PROVE  status' = status
    BY <1>2, Zenon DEF RequestStep, ReadForStatus, RestoreLine, RestoreLineFails,
       Audit, ReadForNotes, SaveNotes, RequestDies, documents
<1>3. ASSUME NEW p \in Checkouts, Save(p) \/ SaveAnswerLost(p) PROVE status'[o] # None
  <2>1. status' = [status EXCEPT ![p] = PENDING_CONTACT]
    BY <1>3 DEF Save, SaveAnswerLost
  <2> QED
    BY <1>t, <2>1
<1>4. ASSUME NEW r \in Requests, Move(r) PROVE status'[o] # None
  <2>1. wanted[r] \in Statuses /\ status' = [status EXCEPT ![target[r]] = wanted[r]]
    BY <1>4 DEF Move, StepTyped, RequestTyped
  <2> QED
    BY <1>t, <2>1 DEF Statuses
<1>5. ASSUME NEW r \in Requests, Claim(r) PROVE status'[o] # None
    BY <1>t, <1>5 DEF Claim
<1> QED
    BY <1>t, <1>1, <1>2, <1>3, <1>4, <1>5 DEF Next, vars, documents

-----------------------------------------------------------------------------
(***************************************************************************)
(* Nothing is left behind.                                                 *)
(***************************************************************************)

SafeReturns == Faults \cap {"increment", "crash"} = {}

LEMMA CheckoutLosesNothing ==
    ASSUME NoLostAnswer, SafeReturns, Typed, Accounts, \A p \in Checkouts : NothingLost(p),
           NEW o \in Checkouts, CheckoutStep(o)
    PROVE  \A p \in Checkouts : NothingLost(p)'
<1> USE DEF NothingLost, CheckoutAccount, Exists,
            documents, catalogue, requestVars, historyVars, checkoutVars
<1>t. /\ cpc \in [Checkouts -> CheckoutSteps] /\ listed = Variants
      /\ left \in [Checkouts -> SUBSET Variants] /\ out \in [Checkouts -> SUBSET Variants]
      /\ status \in [Checkouts -> Statuses \cup {None}]
      /\ \A p \in Checkouts : CheckoutAccount(p)
    BY DEF Typed, StepTyped, Frozen, TypeOK, Accounts
<1>1. CASE Quote(o)
  <2>1. /\ cpc[o] = "idle" /\ UNCHANGED <<status, out, claimants, revived, ppc, due>>
        /\ \A p \in Checkouts \ {o} : cpc'[p] = cpc[p] /\ left'[p] = left[p]
        /\ cpc'[o] \in {"taking", "refused"}
    BY <1>1, <1>t, SMT DEF Quote, CheckoutSteps
  <2> QED
    BY <2>1, <1>t
<1>2. ASSUME NEW v \in Variants, TakeLine(o, v)
      PROVE  \A p \in Checkouts : NothingLost(p)'
  <2>1. /\ UNCHANGED <<status, claimants, revived, ppc, due>>
        /\ \A p \in Checkouts \ {o} : cpc'[p] = cpc[p] /\ left'[p] = left[p] /\ out'[p] = out[p]
        /\ cpc[o] = "taking" /\ cpc'[o] \in {"taking", "saving"}
    BY <1>2, <1>t, SMT DEF TakeLine, CheckoutSteps
  <2>2. \A p \in Checkouts \ {o} : NothingLost(p)'
    BY <2>1
  <2>3. status[o] = None
    BY <2>1, <1>t
  <2>4. NothingLost(o)'
    BY <2>1, <2>3, <1>t
  <2> QED
    BY <2>2, <2>4
<1>3. ASSUME NEW v \in Variants, TakeRefused(o, v)
      PROVE  \A p \in Checkouts : NothingLost(p)'
    BY <1>3, <1>t, SMT DEF TakeRefused, Lines
<1>4. CASE TakeThrows(o)
    BY <1>4, <1>t, SMT DEF TakeThrows
<1>5. ASSUME NEW v \in Variants, UndoLine(o, v)
      PROVE  \A p \in Checkouts : NothingLost(p)'
  <2>1. /\ UNCHANGED <<status, claimants, revived, ppc, due>>
        /\ \A p \in Checkouts \ {o} : cpc'[p] = cpc[p] /\ left'[p] = left[p] /\ out'[p] = out[p]
        /\ cpc[o] = "undoing" /\ cpc'[o] = IF left[o] = {v} THEN "refused" ELSE "undoing"
        /\ left'[o] = left[o] \ {v} /\ out'[o] = out[o] \ {v}
    BY <1>5, <1>t, SMT DEF UndoLine, ReturnUnits, CheckoutSteps
  <2>2. \A p \in Checkouts \ {o} : NothingLost(p)'
    BY <2>1
  <2>3. status[o] = None
    BY <2>1, <1>t
  <2>4. NothingLost(o)'
    BY <2>1, <2>3, <1>t
  <2> QED
    BY <2>2, <2>4
<1>6. CASE Save(o)
    BY <1>6, <1>t, SMT DEF Save
<1>7. CASE CodeCollides(o)
  <2>1. CASE UNCHANGED <<cpc, left>>
    BY <1>7, <2>1, <1>t DEF CodeCollides
  <2>2. CASE StartUndo(o)
    BY <1>7, <2>2, <1>t, SMT DEF CodeCollides, StartUndo, Lines
  <2> QED
    BY <1>7, <2>1, <2>2 DEF CodeCollides
<1>8. CASE SaveThrows(o)
    BY <1>8, <1>t, SMT DEF SaveThrows, StartUndo, Lines
<1> QED
    BY <1>1, <1>2, <1>3, <1>4, <1>5, <1>6, <1>7, <1>8
    DEF CheckoutStep, UndoLineFails, CheckoutDies, SaveAnswerLost, NoLostAnswer, SafeReturns

LEMMA RequestLosesNothing ==
    ASSUME SafeReturns, Typed, Accounts, \A p \in Checkouts : NothingLost(p),
           NEW r \in Requests, RequestStep(r)
    PROVE  \A p \in Checkouts : NothingLost(p)'
<1> USE DEF NothingLost, documents, catalogue, requestVars, historyVars, checkoutVars
<1>t. /\ ppc \in [Requests -> RequestSteps] /\ listed = Variants
      /\ due \in [Requests -> SUBSET Variants] /\ out \in [Checkouts -> SUBSET Variants]
      /\ status \in [Checkouts -> Statuses \cup {None}]
      /\ claimants \in [Checkouts -> SUBSET Requests]
      /\ \A q \in Requests : ppc[q] # "idle" => target[q] \in Checkouts /\ Exists(target[q])
      /\ ppc[r] = "moving" => wanted[r] \in Statuses \ {CANCELLED}
      /\ \A p \in Checkouts \ revived : ClaimAccount(p)
      /\ \A p \in Checkouts : CheckoutAccount(p)
      /\ RestorersClaimed
    BY DEF Typed, StepTyped, Frozen, TypeOK, RequestTyped, Accounts
<1>1. CASE ReadForStatus(r)
    BY <1>1, <1>t, SMT DEF ReadForStatus, ClaimAccount
<1>2. CASE Move(r)
    BY <1>2, <1>t, SMT DEF Move, ClaimAccount, CheckoutAccount, Exists
<1>3. CASE Claim(r)
    BY <1>3, <1>t, SMT DEF Claim, ClaimAccount, CheckoutAccount, Exists, Live
<1>4. ASSUME NEW v \in Variants, RestoreLine(r, v)
      PROVE  \A p \in Checkouts : NothingLost(p)'
  <2>o. PICK o \in Checkouts : o = target[r]
    BY <1>4, <1>t DEF RestoreLine
  <2>1. Exists(o) /\ ppc[r] = "restoring" /\ r \in claimants[o]
    BY <1>4, <1>t, <2>o DEF RestoreLine, RestorersClaimed
  <2>2. /\ UNCHANGED <<cpc, left, status, claimants, revived>>
        /\ \A q \in Requests \ {r} : ppc'[q] = ppc[q] /\ due'[q] = due[q]
        /\ \A p \in Checkouts \ {o} : out'[p] = out[p]
        /\ ppc'[r] = IF due[r] = {v} THEN "auditing" ELSE "restoring"
        /\ due'[r] = due[r] \ {v} /\ out'[o] = out[o] \ {v}
    BY <1>4, <1>t, <2>o, <2>1, SMT DEF RestoreLine, ReturnUnits
  <2>3. \A p \in Checkouts \ {o} : p \notin revived => r \notin claimants[p]
    BY <2>o, <2>1, <1>t DEF ClaimAccount
  <2>4. cpc[o] = "placed" /\ (o \notin revived => \A q \in claimants[o] : q = r)
    BY <2>1, <1>t DEF ClaimAccount, CheckoutAccount
  <2>5. \A p \in Checkouts \ {o} : NothingLost(p)'
    <3> SUFFICES ASSUME NEW p \in Checkouts \ {o} PROVE NothingLost(p)'
      OBVIOUS
    <3>1. UNCHANGED <<cpc[p], left[p], out[p], status[p], claimants[p], revived>>
      BY <2>2
    <3>2. p \notin revived => \A q \in claimants[p] : ppc'[q] = ppc[q] /\ due'[q] = due[q]
      BY <2>2, <2>3, <1>t
    <3> QED
      BY <3>1, <3>2
  <2>6. NothingLost(o)'
    BY <2>1, <2>2, <2>4, <1>t
  <2> QED
    BY <2>5, <2>6
<1>5. CASE Audit(r)
    BY <1>5, <1>t, SMT DEF Audit
<1>6. CASE ReadForNotes(r)
    BY <1>6, <1>t, SMT DEF ReadForNotes, ClaimAccount
<1>7. CASE SaveNotes(r)
    BY <1>7, <1>t, SMT DEF SaveNotes
<1> QED
    BY <1>1, <1>2, <1>3, <1>4, <1>5, <1>6, <1>7
    DEF RequestStep, RestoreLineFails, RequestDies, SafeReturns

-----------------------------------------------------------------------------
(***************************************************************************)
(* The theorems.                                                           *)
(***************************************************************************)

LEMMA InitIInv == Init => IInv
<1> SUFFICES ASSUME Init PROVE IInv
    OBVIOUS
<1>1. Typed
    BY InitTyped
<1>2. Accounts
    BY DEF Init, Accounts, CheckoutAccount, ClaimAccount, RestorersClaimed, Exists, Live
<1>3. Balanced
  <2>1. \A v : HeldUnits(v) = {}
    BY DEF Init, HeldUnits
  <2>2. Cardinality({}) = 0
    BY FS_EmptySet
  <2>3. \A v \in Variants : stock[v] = InitialStock[v] /\ InitialStock[v] \in Nat
    BY StockAssumption DEF Init
  <2> QED
    BY <2>1, <2>2, <2>3 DEF Balanced, UnitsOf
<1>4. \A o \in Checkouts : NothingLost(o)
    BY DEF Init, NothingLost
<1> QED
    BY <1>1, <1>2, <1>3, <1>4 DEF IInv, EveryUnitInOnePlace, Balanced, UnitsOf

\* The accounts do not depend on the catalogue: Catalog keeps them too.
LEMMA NextAccounts ==
    ASSUME NoLostAnswer, StepTyped, Accounts, [Next]_vars
    PROVE  Accounts'
<1>1. StepTyped'
    BY NextStepTyped
<1>2. CASE \E o \in Checkouts : CheckoutStep(o)
    BY <1>1, <1>2, CheckoutAccounts
<1>3. CASE \E r \in Requests : RequestStep(r)
    BY <1>1, <1>3, RequestAccounts
<1>4. CASE UNCHANGED vars
    BY <1>4 DEF vars, documents, checkoutVars, requestVars, historyVars, Accounts,
       CheckoutAccount, ClaimAccount, RestorersClaimed, Exists, Live, Lines
<1> QED
    BY <1>2, <1>3, <1>4 DEF Next

LEMMA NextIInv ==
    ASSUME NoLostAnswer, IInv, [Next]_vars
    PROVE  IInv'
<1> USE DEF IInv
<1>1. Typed'
    BY NextTyped
<1>2. Accounts'
    BY NextAccounts DEF Typed
<1>3. EveryUnitInOnePlace'
  <2> SUFFICES ASSUME revived' = {} PROVE Balanced'
    BY DEF EveryUnitInOnePlace, Balanced, UnitsOf
  <2>1. revived = {}
    BY RevivedGrows
  <2>2. Balanced
    BY <2>1 DEF EveryUnitInOnePlace, Balanced, UnitsOf
  <2>3. \A v \in Variants : UnitsOf(v)' = UnitsOf(v)
    BY <2>1, NextKeepsUnits DEF Typed
  <2> QED
    BY <2>2, <2>3 DEF Balanced
<1>4. SafeReturns => \A o \in Checkouts : NothingLost(o)'
  <2> SUFFICES ASSUME SafeReturns PROVE \A o \in Checkouts : NothingLost(o)'
    OBVIOUS
  <2>1. \A o \in Checkouts : NothingLost(o)
    BY DEF SafeReturns
  <2>2. CASE \E o \in Checkouts : CheckoutStep(o)
    BY <2>1, <2>2, CheckoutLosesNothing
  <2>3. CASE \E r \in Requests : RequestStep(r)
    BY <2>1, <2>3, RequestLosesNothing
  <2>4. CASE UNCHANGED vars
    BY <2>1, <2>4 DEF vars, documents, checkoutVars, requestVars, historyVars, NothingLost
  <2> QED
    BY <2>2, <2>3, <2>4 DEF Next
<1> QED
    BY <1>1, <1>2, <1>3, <1>4 DEF SafeReturns

\* The accounts are kept by every step of every invocation.
THEOREM AccountsKept ==
    ASSUME NoLostAnswer
    PROVE  Spec => []IInv
<1>1. Init => IInv
    BY InitIInv
<1>2. IInv /\ [Next]_vars => IInv'
    BY NextIInv
<1> QED
    BY <1>1, <1>2, PTL DEF Spec

\* Whatever the number of concurrent carts, cancellations and failures, no unit
\* is invented or mislaid while no status move lands on a cancelled order.
THEOREM UnitsConserved ==
    ASSUME NoLostAnswer
    PROVE  Spec => []EveryUnitInOnePlace
<1>1. IInv => EveryUnitInOnePlace
    BY DEF IInv
<1> QED
    BY <1>1, AccountsKept, PTL

\* Every order still to be served has all of its lines reserved.
THEOREM LiveOrdersReserved ==
    ASSUME NoLostAnswer
    PROVE  Spec => []LiveOrderHoldsItsLines
<1>1. IInv => LiveOrderHoldsItsLines
    BY DEF IInv, Accounts, ClaimAccount, LiveOrderHoldsItsLines
<1> QED
    BY <1>1, AccountsKept, PTL

\* Of any number of concurrent cancellations of an order, one returns its stock.
THEOREM ReturnedByOne ==
    ASSUME NoLostAnswer
    PROVE  Spec => []OneReturnPerOrder
<1>1. IInv => OneReturnPerOrder
  <2> SUFFICES ASSUME IInv, NEW o \in Checkouts \ revived
               PROVE  Cardinality(claimants[o]) <= 1
    BY DEF OneReturnPerOrder
  <2>1. \A r1, r2 \in claimants[o] : r1 = r2
    BY DEF IInv, Accounts, ClaimAccount
  <2>2. claimants[o] = {} \/ \E r : claimants[o] = {r}
    BY <2>1
  <2>3. CASE claimants[o] = {}
    BY <2>3, FS_EmptySet
  <2>4. ASSUME NEW r, claimants[o] = {r}
        PROVE  Cardinality(claimants[o]) <= 1
    BY <2>4, FS_Singleton
  <2> QED
    BY <2>2, <2>3, <2>4
<1> QED
    BY <1>1, AccountsKept, PTL

\* Refused checkouts and finished cancellations keep nothing off the shelf, as
\* long as no call that returns a line fails.
THEOREM NothingIsLeftBehind ==
    ASSUME NoLostAnswer
    PROVE  Spec => []NothingLeftBehind
<1>1. IInv => NothingLeftBehind
    BY DEF IInv, NothingLost, NothingLeftBehind
<1> QED
    BY <1>1, AccountsKept, PTL

-----------------------------------------------------------------------------
(***************************************************************************)
(* The refinement of StockLedger, for the behaviours of OrderlySpec.       *)
(***************************************************************************)

Held == [o \in Checkouts |-> HeldBy(o)]
Phase == [o \in Checkouts |-> PhaseOf(o)]

\* What a step of an orderly behaviour starts from.
Orderly == Typed /\ Accounts /\ revived = {} /\ revived' = {}

\* Types and accounts of the state, as the steps below use them.
LEMMA OrderlyState ==
    ASSUME Orderly
    PROVE  /\ stock \in [Variants -> Int] /\ listed = Variants
           /\ status \in [Checkouts -> Statuses \cup {None}]
           /\ cpc \in [Checkouts -> CheckoutSteps]
           /\ cart \in [Checkouts -> [Variants -> 0..MaxQuantity]]
           /\ out \in [Checkouts -> SUBSET Variants]
           /\ \A o \in Checkouts : CheckoutAccount(o) /\ ClaimAccount(o)
           /\ \A o \in Checkouts : lenient[o] \subseteq backorder
BY DEF Orderly, Typed, StepTyped, Frozen, TypeOK, Accounts

\* Where a variable a holder's units depend on stays, its units stay.
LEMMA HeldStays ==
    ASSUME UNCHANGED <<cart, out>>
    PROVE  Held' = Held
BY DEF Held, HeldBy

\* A checkout that moves within a phase moves nobody.
LEMMA PhaseMoves ==
    ASSUME Orderly, NEW o \in Checkouts, NEW p,
           \A x \in Checkouts \ {o} : PhaseOf(x)' = PhaseOf(x),
           PhaseOf(o)' = p
    PROVE  Phase' = [Phase EXCEPT ![o] = p]
BY DEF Phase

\* The same, when it stays within the phase.
LEMMA PhaseStays ==
    ASSUME \A x \in Checkouts : PhaseOf(x)' = PhaseOf(x)
    PROVE  Phase' = Phase
BY DEF Phase

\* A line taken is gathered.
LEMMA TakeGathers ==
    ASSUME Orderly, NEW o \in Checkouts, NEW v \in Variants, TakeLine(o, v)
    PROVE  Ledger!Gather(o, v)
<1> USE OrderlyState DEF CheckoutAccount, Exists
<1>1. /\ cpc[o] = "taking" /\ status[o] = None /\ v \in Lines(o) /\ v \notin out[o]
      /\ CanTake(o, v)
    BY DEF TakeLine
<1>2. PhaseOf(o) = "open" /\ HeldBy(o)[v] = 0
    BY <1>1 DEF PhaseOf, HeldBy
<1>3. cart[o][v] \in 1..MaxQuantity
    BY <1>1, QuantityAssumption DEF Lines
<1>4. v \in backorder \/ cart[o][v] <= stock[v]
    BY <1>1, <1>3 DEF CanTake
<1>5. stock' = [stock EXCEPT ![v] = @ - cart[o][v]] /\ UNCHANGED <<backorder, cart>>
    BY DEF TakeLine, catalogue
<1>6. Held' = [Held EXCEPT ![o][v] = cart[o][v]]
  <2>1. out' = [out EXCEPT ![o] = @ \cup {v}]
      BY DEF TakeLine
  <2>2. \A x \in Checkouts \ {o} : HeldBy(x)' = HeldBy(x)
      BY <1>5, <2>1 DEF HeldBy
  <2>3. HeldBy(o)' = [HeldBy(o) EXCEPT ![v] = cart[o][v]]
      BY <1>5, <2>1 DEF HeldBy
  <2> QED
      BY <2>2, <2>3 DEF Held
<1>7. Phase' = Phase
  <2>1. \A x \in Checkouts : PhaseOf(x)' = PhaseOf(x)
      BY <1>1 DEF PhaseOf, TakeLine, CheckoutSteps
  <2> QED
      BY <2>1, PhaseStays
<1> QED
    BY <1>2, <1>3, <1>4, <1>5, <1>6, <1>7 DEF Ledger!Gather, Held, Phase

\* A line put back is handed back, whoever puts it back.
LEMMA ReturnHandsBack ==
    ASSUME Orderly, NEW o \in Checkouts, NEW v \in out[o], ReturnUnits(o, v),
           PhaseOf(o) = "closed", Phase' = Phase, UNCHANGED <<backorder, cart>>
    PROVE  Ledger!HandBack(o, v)
<1> USE OrderlyState
<1>1. v \in Variants /\ v \in Lines(o)
    BY DEF CheckoutAccount
<1>2. HeldBy(o)[v] = cart[o][v] /\ HeldBy(o)[v] > 0
    BY <1>1 DEF HeldBy, Lines
<1>3. /\ stock' = [stock EXCEPT ![v] = @ + cart[o][v]]
      /\ out' = [out EXCEPT ![o] = @ \ {v}]
    BY <1>1 DEF ReturnUnits
<1>4. Held' = [Held EXCEPT ![o][v] = 0]
  <2>1. \A x \in Checkouts \ {o} : HeldBy(x)' = HeldBy(x)
      BY <1>3 DEF HeldBy
  <2>2. HeldBy(o)' = [HeldBy(o) EXCEPT ![v] = 0]
      BY <1>1, <1>3 DEF HeldBy
  <2> QED
      BY <2>1, <2>2 DEF Held
<1> QED
    BY <1>2, <1>3, <1>4 DEF Ledger!HandBack, Held, Phase

\* A step of a checkout is a step of its holder, or moves nobody.
LEMMA CheckoutKeepsLedger ==
    ASSUME NoLostAnswer, Orderly, NEW o \in Checkouts, CheckoutStep(o)
    PROVE  [Ledger!LedgerNext]_Ledger!ledger
<1> USE OrderlyState DEF CheckoutAccount, Exists
<1> DEFINE Promised == Ledger!Promise(o)
           Closed == Ledger!Close(o)
           Stays == UNCHANGED <<stock, Held, Phase, backorder>>
<1>0. Promised \/ Closed \/ Stays => [Ledger!LedgerNext]_Ledger!ledger
    BY DEF Ledger!LedgerNext, Ledger!ledger, Held, Phase
\* A step that touches no unit and leaves the other checkouts alone.
<1>m. ASSUME UNCHANGED <<stock, cart, out, backorder, status>>,
             \A x \in Checkouts \ {o} : cpc'[x] = cpc[x]
      PROVE  /\ PhaseOf(o)' = PhaseOf(o) => Stays
             /\ PhaseOf(o) = "open" /\ PhaseOf(o)' = "closed" => Closed
  <2>1. Held' = Held
      BY <1>m, HeldStays
  <2>2. \A x \in Checkouts \ {o} : PhaseOf(x)' = PhaseOf(x)
      BY <1>m DEF PhaseOf
  <2>3. ASSUME PhaseOf(o)' = PhaseOf(o) PROVE Stays
    <3>1. Phase' = Phase
        BY <2>2, <2>3, PhaseStays
    <3> QED
        BY <2>1, <3>1, <1>m
  <2>4. ASSUME PhaseOf(o) = "open", PhaseOf(o)' = "closed" PROVE Closed
    <3>1. Phase' = [Phase EXCEPT ![o] = "closed"]
        BY <2>2, <2>4, PhaseMoves
    <3> QED
        BY <2>1, <2>4, <3>1, <1>m DEF Ledger!Close, Held, Phase
  <2> QED
      BY <2>3, <2>4
<1>1. CASE Quote(o)
  <2>1. /\ cpc[o] = "idle" /\ out[o] = {} /\ cpc'[o] \in {"taking", "refused"}
        /\ UNCHANGED <<stock, backorder, out, status>>
        /\ \A x \in Checkouts \ {o} : cpc'[x] = cpc[x] /\ cart'[x] = cart[x]
      BY <1>1 DEF Quote, documents, historyVars, CheckoutSteps
  <2>2. Held' = Held
    <3>1. \A x \in Checkouts : HeldBy(x)' = HeldBy(x)
        BY <2>1 DEF HeldBy
    <3> QED
        BY <3>1 DEF Held
  <2>3. \A x \in Checkouts \ {o} : PhaseOf(x)' = PhaseOf(x)
      BY <2>1 DEF PhaseOf
  <2>4. PhaseOf(o) = "open"
      BY <2>1 DEF PhaseOf
  <2>5. CASE cpc'[o] = "taking"
    <3>1. Phase' = Phase
        BY <2>1, <2>3, <2>4, <2>5, PhaseStays DEF PhaseOf
    <3> QED
        BY <1>0, <2>1, <2>2, <3>1
  <2>6. CASE cpc'[o] = "refused"
    <3>1. PhaseOf(o)' = "closed"
        BY <2>1, <2>6 DEF PhaseOf
    <3>2. Phase' = [Phase EXCEPT ![o] = "closed"]
        BY <2>3, <3>1, PhaseMoves
    <3> QED
        BY <1>0, <2>1, <2>2, <2>4, <3>2 DEF Ledger!Close, Held, Phase
  <2> QED
      BY <2>1, <2>5, <2>6
<1>2. ASSUME NEW v \in Variants, TakeLine(o, v)
      PROVE  [Ledger!LedgerNext]_Ledger!ledger
    BY <1>2, TakeGathers DEF Ledger!LedgerNext
<1>3. ASSUME NEW v \in Variants, TakeRefused(o, v)
      PROVE  [Ledger!LedgerNext]_Ledger!ledger
  <2>1. PhaseOf(o) = "open" /\ PhaseOf(o)' = "closed"
      BY <1>3 DEF TakeRefused, PhaseOf, documents
  <2> QED
      BY <1>0, <1>3, <1>m, <2>1 DEF TakeRefused, documents, historyVars
<1>4. CASE TakeThrows(o)
  <2>1. PhaseOf(o) = "open" /\ PhaseOf(o)' = "closed"
      BY <1>4 DEF TakeThrows, PhaseOf, documents
  <2> QED
      BY <1>0, <1>4, <1>m, <2>1 DEF TakeThrows, documents, historyVars
<1>5. ASSUME NEW v \in Variants, UndoLine(o, v)
      PROVE  [Ledger!LedgerNext]_Ledger!ledger
  <2>1. cpc[o] = "undoing" /\ status[o] = None /\ v \in out[o] /\ PhaseOf(o) = "closed"
      BY <1>5 DEF UndoLine, PhaseOf
  <2>2. \A x \in Checkouts : PhaseOf(x)' = PhaseOf(x)
      BY <1>5, <2>1 DEF UndoLine, PhaseOf
  <2>3. Ledger!HandBack(o, v)
      BY <1>5, <2>1, <2>2, PhaseStays, ReturnHandsBack DEF UndoLine, catalogue
  <2> QED
      BY <2>3 DEF Ledger!LedgerNext
<1>6. ASSUME NEW v \in Variants, UndoLineFails(o, v)
      PROVE  [Ledger!LedgerNext]_Ledger!ledger
  <2>1. PhaseOf(o)' = PhaseOf(o)
      BY <1>6 DEF UndoLineFails, PhaseOf, documents
  <2> QED
      BY <1>0, <1>6, <1>m, <2>1 DEF UndoLineFails, documents, historyVars
<1>7. CASE Save(o)
  <2>1. /\ PhaseOf(o) = "open" /\ PhaseOf(o)' = "live"
        /\ \A x \in Checkouts \ {o} : PhaseOf(x)' = PhaseOf(x)
      BY <1>7 DEF Save, PhaseOf
  <2>2. Phase' = [Phase EXCEPT ![o] = "live"]
      BY <2>1, PhaseMoves
  <2>3. Held' = Held
      BY <1>7, HeldStays DEF Save, historyVars
  <2>4. Promised
      BY <1>7, <2>1, <2>2, <2>3 DEF Save, catalogue, Ledger!Promise, Held, Phase
  <2> QED
      BY <1>0, <2>4
<1>8. CASE CodeCollides(o)
  <2>1. PhaseOf(o)' = PhaseOf(o) \/ (PhaseOf(o) = "open" /\ PhaseOf(o)' = "closed")
      BY <1>8 DEF CodeCollides, StartUndo, PhaseOf, documents
  <2> QED
      BY <1>0, <1>8, <1>m, <2>1 DEF CodeCollides, StartUndo, documents, historyVars
<1>9. CASE SaveThrows(o)
  <2>1. PhaseOf(o) = "open" /\ PhaseOf(o)' = "closed"
      BY <1>9 DEF SaveThrows, StartUndo, PhaseOf, documents
  <2> QED
      BY <1>0, <1>9, <1>m, <2>1 DEF SaveThrows, StartUndo, documents, historyVars
<1>10. CASE CheckoutDies(o)
  <2>1. PhaseOf(o)' = PhaseOf(o) \/ (PhaseOf(o) = "open" /\ PhaseOf(o)' = "closed")
      BY <1>10 DEF CheckoutDies, PhaseOf, documents
  <2> QED
      BY <1>0, <1>10, <1>m, <2>1 DEF CheckoutDies, documents, historyVars
<1> QED
    BY <1>1, <1>2, <1>3, <1>4, <1>5, <1>6, <1>7, <1>8, <1>9, <1>10
    DEF CheckoutStep, SaveAnswerLost, NoLostAnswer

\* A step of the panel closes an order, hands a line back, or moves nobody.
LEMMA RequestKeepsLedger ==
    ASSUME Orderly, NEW r \in Requests, RequestStep(r)
    PROVE  [Ledger!LedgerNext]_Ledger!ledger
<1> USE OrderlyState DEF Exists
<1> DEFINE o == target[r]
           Stays == UNCHANGED <<stock, Held, Phase, backorder>>
<1>0. Stays => [Ledger!LedgerNext]_Ledger!ledger
    BY DEF Ledger!ledger, Held, Phase
<1>q. ASSUME UNCHANGED <<stock, backorder, status, cpc, cart, out>>
      PROVE  [Ledger!LedgerNext]_Ledger!ledger
  <2>1. Held' = Held /\ Phase' = Phase
      BY <1>q, HeldStays, PhaseStays DEF PhaseOf
  <2> QED
      BY <1>0, <1>q, <2>1
<1>t. ppc[r] # "idle" => o \in Checkouts /\ status[o] # None
    BY DEF Orderly, Typed, StepTyped, RequestTyped
<1>1. CASE ReadForStatus(r) \/ Audit(r) \/ ReadForNotes(r) \/ SaveNotes(r) \/ RequestDies(r)
    BY <1>1, <1>q DEF ReadForStatus, Audit, ReadForNotes, SaveNotes, RequestDies,
       documents, catalogue, checkoutVars, historyVars
<1>2. ASSUME NEW v \in Variants, RestoreLineFails(r, v)
      PROVE  [Ledger!LedgerNext]_Ledger!ledger
    BY <1>2, <1>q DEF RestoreLineFails, documents, checkoutVars, historyVars
<1>3. CASE Move(r)
  <2>1. o \in Checkouts /\ status[o] # None /\ wanted[r] \in Statuses \ {CANCELLED}
      BY <1>3, <1>t DEF Move, Orderly, Typed, StepTyped, RequestTyped
  <2>2. status[o] # CANCELLED
      BY <1>3, <2>1 DEF Move, Orderly
  <2>3. \A x \in Checkouts : PhaseOf(x)' = PhaseOf(x)
      BY <1>3, <2>1, <2>2 DEF Move, PhaseOf, Statuses, checkoutVars
  <2> QED
      BY <1>0, <1>3, <2>3, PhaseStays, HeldStays DEF Move, catalogue, checkoutVars
<1>4. CASE Claim(r)
  <2>1. /\ o \in Checkouts /\ status[o] # None
        /\ UNCHANGED <<stock, backorder, cpc, cart, out, target>>
      BY <1>4, <1>t DEF Claim, catalogue, checkoutVars
  <2>2. CASE status[o] = CANCELLED
      BY <1>4, <1>q, <2>1, <2>2 DEF Claim
  <2>3. ASSUME NEW c \in Checkouts, c = o, status[c] # CANCELLED
        PROVE  [Ledger!LedgerNext]_Ledger!ledger
    <3>1. status' = [status EXCEPT ![c] = CANCELLED]
        BY <1>4, <2>3 DEF Claim
    <3>2. PhaseOf(c) = "live" /\ PhaseOf(c)' = "closed"
        BY <2>1, <2>3, <3>1 DEF PhaseOf
    <3>3. \A x \in Checkouts \ {c} : PhaseOf(x)' = PhaseOf(x)
        BY <2>1, <3>1 DEF PhaseOf
    <3>4. Phase' = [Phase EXCEPT ![c] = "closed"]
        BY <3>2, <3>3, PhaseMoves
    <3>5. Ledger!Close(c)
        BY <2>1, <3>2, <3>4, HeldStays DEF Ledger!Close, Held, Phase
    <3> QED
        BY <3>5 DEF Ledger!LedgerNext
  <2> QED
      BY <2>1, <2>2, <2>3
<1>5. ASSUME NEW v \in Variants, RestoreLine(r, v)
      PROVE  [Ledger!LedgerNext]_Ledger!ledger
  <2>1. o \in Checkouts /\ status[o] # None /\ r \in claimants[o]
      BY <1>5, <1>t DEF RestoreLine, Orderly, Accounts, RestorersClaimed
  <2>2. v \in out[o] /\ PhaseOf(o) = "closed"
      BY <1>5, <2>1 DEF RestoreLine, ClaimAccount, Live, PhaseOf
  <2>3. Phase' = Phase
      BY <1>5, PhaseStays DEF RestoreLine, PhaseOf, checkoutVars
  <2>4. Ledger!HandBack(o, v)
      BY <1>5, <2>1, <2>2, <2>3, ReturnHandsBack DEF RestoreLine, catalogue, checkoutVars
  <2> QED
      BY <2>1, <2>2, <2>4 DEF Ledger!LedgerNext
<1> QED
    BY <1>1, <1>2, <1>3, <1>4, <1>5 DEF RequestStep

\* A step that leaves no order revived is a step of the ledger.
LEMMA OrderlyStepKeepsLedger ==
    ASSUME NoLostAnswer, IInv, revived = {}, [Next]_vars, revived' = {}
    PROVE  [Ledger!LedgerNext]_Ledger!ledger
<1>1. CASE UNCHANGED vars
    BY <1>1 DEF vars, documents, checkoutVars, historyVars, Ledger!ledger, HeldBy, PhaseOf
<1>2. CASE Next
  <2>1. Orderly
      BY DEF IInv, Orderly
  <2> QED
      BY <1>2, <2>1, CheckoutKeepsLedger, RequestKeepsLedger DEF Next
<1> QED
    BY <1>1, <1>2

\* No step takes an order out of the revived.
LEMMA RevivedStays == ASSUME [Next]_vars, revived' = {} PROVE revived = {}
<1> USE DEF documents, catalogue, checkoutVars, requestVars, historyVars
<1>1. ASSUME NEW o \in Checkouts, CheckoutStep(o) PROVE revived' = revived
    BY <1>1, Zenon DEF CheckoutStep, Quote, TakeLine, TakeRefused, TakeThrows, UndoLine,
       UndoLineFails, Save, CodeCollides, SaveThrows, SaveAnswerLost, CheckoutDies
<1>2. ASSUME NEW r \in Requests, RequestStep(r), ~Move(r) PROVE revived' = revived
    BY <1>2, Zenon DEF RequestStep, ReadForStatus, Claim, RestoreLine, RestoreLineFails,
       Audit, ReadForNotes, SaveNotes, RequestDies
<1>3. ASSUME NEW r \in Requests, Move(r) PROVE revived \subseteq revived'
    BY <1>3 DEF Move
<1> QED
    BY <1>1, <1>2, <1>3 DEF Next, vars

LEMMA LedgerStarts == Init => Ledger!LedgerInit
    BY StockAssumption DEF Init, Ledger!LedgerInit, HeldBy, PhaseOf

\* While no answer of a save is lost, every step of any interleaving of
\* checkouts and requests, with the failures of their calls, is a step of the
\* one atomic ledger or moves no unit, up to the first status move that lands
\* on a cancelled order (order-stock.service.ts and orders.service.ts against
\* StockLedger).
THEOREM OrdersKeepLedger ==
    ASSUME NoLostAnswer
    PROVE  Spec => KeepsLedger
<1>1. IInv /\ [Next]_vars => [revived' = {} => Ledger!LedgerNext]_Ledger!ledger
    BY OrderlyStepKeepsLedger, RevivedStays
<1> QED
    BY <1>1, LedgerStarts, AccountsKept, PTL DEF Spec, KeepsLedger

\* The part of the system in which no status move lands on a cancelled order
\* implements StockLedger: its behaviours are behaviours of the ledger.
THEOREM OrderlyImplementsLedger ==
    ASSUME NoLostAnswer
    PROVE  OrderlySpec => Ledger!LedgerSpec
<1>1. IInv /\ revived = {} /\ [Next /\ revived' = {}]_vars => [Ledger!LedgerNext]_Ledger!ledger
  <2> SUFFICES ASSUME IInv, revived = {}, [Next /\ revived' = {}]_vars
               PROVE  [Ledger!LedgerNext]_Ledger!ledger
      OBVIOUS
  <2>1. [Next]_vars /\ revived' = {}
      BY DEF vars, historyVars
  <2> QED
      BY <2>1, OrderlyStepKeepsLedger
<1>2. Init => revived = {}
    BY DEF Init
<1>3. revived = {} /\ [Next /\ revived' = {}]_vars => (revived = {})'
    BY DEF vars, historyVars
<1>4. [Next /\ revived' = {}]_vars => [Next]_vars
    OBVIOUS
<1> QED
    BY <1>1, <1>2, <1>3, <1>4, LedgerStarts, AccountsKept, PTL
    DEF OrderlySpec, Spec, Ledger!LedgerSpec
=============================================================================
