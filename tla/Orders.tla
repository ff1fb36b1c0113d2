------------------------------- MODULE Orders -------------------------------
(***************************************************************************)
(* The life of an order and of the units it takes off the shelf            *)
(* (backend/src/modules/orders).  The API is serverless: any number of     *)
(* invocations run at once over one MongoDB, without transactions and      *)
(* without optimistic concurrency, and each can die between two round      *)
(* trips.  So every call to the database is one action, atomic on the one  *)
(* document it touches, and between two of them anything may happen.       *)
(*                                                                         *)
(*   - a CHECKOUT is one run of OrdersService.create: quote the cart, take *)
(*     the stock line by line, save the order, and give the lines back     *)
(*     when a line or the save fails.  A checkout and the order document   *)
(*     it may produce share one name.                                      *)
(*   - a REQUEST is one run of a panel route on a saved order: setStatus   *)
(*     (a plain move, or a cancellation that returns the stock) or         *)
(*     setNotes.                                                           *)
(*                                                                         *)
(* A variant here is the pair product/variant a line points to.  The cart  *)
(* has been merged (mergeLines), so it holds a variant at most once and is *)
(* a function to quantities.  The order of the lines is the customer's:    *)
(* the loops below visit them in any order.                                *)
(***************************************************************************)
EXTENDS Integers, FiniteSets

CONSTANTS
    Variants,       \* product/variant pairs in the catalogue
    Checkouts,      \* runs of OrdersService.create, and the orders they save
    Requests,       \* runs of a panel route on an order
    MaxQuantity,    \* most units of a variant in a line (MAX_LINE_QUANTITY)
    InitialStock,   \* units on the shelf at the start
    Targets,        \* the statuses the panel asks for
    Notes,          \* internal notes, the empty one included
    NoNote,         \* the empty note an order is born with
    ORDER_CODE_ATTEMPTS,    \* order codes drawn before giving up, 3 in the code
    Faults          \* which failures of a call the environment may produce

None == "NONE"

PENDING_CONTACT == "PENDING_CONTACT"
CANCELLED == "CANCELLED"

Statuses == {PENDING_CONTACT, "CONFIRMED", "PREPARING", "SHIPPED",
             "DELIVERED", CANCELLED}

(***************************************************************************)
(* The failures the code has a path for, or visibly none:                  *)
(*   decrement   the update that takes a line throws                       *)
(*   increment   the update that returns a line throws                     *)
(*   save        the save of the order throws, nothing written             *)
(*   saveAnswer  the save is applied and its answer is lost                *)
(*   crash       the invocation is killed between two calls                *)
(***************************************************************************)
AllFaults == {"decrement", "increment", "save", "saveAnswer", "crash"}

ASSUME VariantsAssumption == IsFiniteSet(Variants)
ASSUME CheckoutsAssumption == IsFiniteSet(Checkouts)
ASSUME QuantityAssumption == MaxQuantity \in Nat \ {0}
ASSUME StockAssumption == InitialStock \in [Variants -> Nat]
ASSUME TargetsAssumption == Targets \subseteq Statuses
ASSUME NotesAssumption == NoNote \in Notes
ASSUME AttemptsAssumption == ORDER_CODE_ATTEMPTS \in Nat \ {0}
ASSUME FaultsAssumption == Faults \subseteq AllFaults
ASSUME NamesAssumption == None \notin Checkouts

VARIABLES
    (***********************************************************************)
    (* Documents of the database.                                          *)
    (***********************************************************************)
    stock,          \* products.variants.stock
    listed,         \* variants that exist in the products collection
    active,         \* variants with isActive set
    shown,          \* variants of the products with isActive set
    backorder,      \* variants with allowBackorder set
    status,         \* orders.status, None while there is no such document
    notes,          \* orders.notes
    trail,          \* requests that wrote an entry in the audit trail
    (***********************************************************************)
    (* Local state of the checkouts.                                       *)
    (***********************************************************************)
    cpc,            \* where each checkout is
    cart,           \* quantity of each variant in the quoted cart
    lenient,        \* lines whose quote carried allowBackorder
    left,           \* lines the running loop (take or giveBack) has not visited
    tries,          \* order codes already drawn
    (***********************************************************************)
    (* Local state of the panel requests.                                  *)
    (***********************************************************************)
    ppc,            \* where each request is
    target,         \* the order document it read
    wanted,         \* the status, or the note, it was asked to write
    due,            \* lines a cancellation has not returned yet
    (***********************************************************************)
    (* History variables: no line of the code keeps them.                  *)
    (***********************************************************************)
    out,            \* lines of each checkout whose units are off the shelf
    claimants,      \* requests that won the right to return an order's stock
    revived,        \* orders a plain status move brought back from CANCELLED
    moved           \* requests whose write changed the status of an order

documents == <<stock, listed, active, shown, backorder, status, notes, trail>>
catalogue == <<listed, active, shown, backorder>>
checkoutVars == <<cpc, cart, lenient, left, tries>>
requestVars == <<ppc, target, wanted, due>>
historyVars == <<out, claimants, revived, moved>>
vars == <<documents, checkoutVars, requestVars, historyVars>>

-----------------------------------------------------------------------------
(***************************************************************************)
(* Types and initial state.                                                *)
(***************************************************************************)

Carts == {w \in [Variants -> 0..MaxQuantity] : \E v \in Variants : w[v] > 0}
EmptyCart == [v \in Variants |-> 0]

CheckoutSteps == {"idle", "taking", "saving", "undoing",
                  "placed", "refused", "failed", "dead"}
RequestSteps == {"idle", "moving", "claiming", "noting", "restoring",
                 "auditing", "done", "dead"}

TypeOK ==
    /\ stock \in [Variants -> Int]
    /\ listed \subseteq Variants
    /\ active \subseteq Variants
    /\ shown \subseteq Variants
    /\ backorder \subseteq Variants
    /\ status \in [Checkouts -> Statuses \cup {None}]
    /\ notes \in [Checkouts -> Notes]
    /\ trail \subseteq Requests
    /\ cpc \in [Checkouts -> CheckoutSteps]
    /\ cart \in [Checkouts -> [Variants -> 0..MaxQuantity]]
    /\ lenient \in [Checkouts -> SUBSET Variants]
    /\ left \in [Checkouts -> SUBSET Variants]
    /\ tries \in [Checkouts -> 0..ORDER_CODE_ATTEMPTS]
    /\ ppc \in [Requests -> RequestSteps]
    /\ target \in [Requests -> Checkouts \cup {None}]
    /\ wanted \in [Requests -> Statuses \cup Notes \cup {None}]
    /\ due \in [Requests -> SUBSET Variants]
    /\ out \in [Checkouts -> SUBSET Variants]
    /\ claimants \in [Checkouts -> SUBSET Requests]
    /\ revived \subseteq Checkouts
    /\ moved \subseteq Requests

Init ==
    /\ stock = InitialStock
    /\ listed = Variants
    /\ active = Variants
    /\ shown = Variants
    /\ backorder \in SUBSET Variants
    /\ status = [o \in Checkouts |-> None]
    /\ notes = [o \in Checkouts |-> NoNote]
    /\ trail = {}
    /\ cpc = [o \in Checkouts |-> "idle"]
    /\ cart = [o \in Checkouts |-> EmptyCart]
    /\ lenient = [o \in Checkouts |-> {}]
    /\ left = [o \in Checkouts |-> {}]
    /\ tries = [o \in Checkouts |-> 0]
    /\ ppc = [r \in Requests |-> "idle"]
    /\ target = [r \in Requests |-> None]
    /\ wanted = [r \in Requests |-> None]
    /\ due = [r \in Requests |-> {}]
    /\ out = [o \in Checkouts |-> {}]
    /\ claimants = [o \in Checkouts |-> {}]
    /\ revived = {}
    /\ moved = {}

Lines(o) == {v \in Variants : cart[o][v] > 0}
Exists(o) == status[o] # None

-----------------------------------------------------------------------------
(***************************************************************************)
(* The stock of one line: OrderStockService.                               *)
(***************************************************************************)

\* Mutant of CanTake: the update filters by variant only.
CanTakeUnchecked(o, v) == v \in listed

\* The filter of the update in decrement: the variant is there and, unless
\* the quote said it sells on backorder, has the units.
CanTake(o, v) ==
    /\ v \in listed
    /\ v \in lenient[o] \/ stock[v] >= cart[o][v]

\* increment: $inc on the variant that matches; none matches once the variant
\* is gone from the catalogue (see Catalog), and then nothing is written.
ReturnUnits(o, v) ==
    /\ stock' = [stock EXCEPT ![v] = IF v \in listed THEN @ + cart[o][v] ELSE @]
    /\ out' = [out EXCEPT ![o] = IF v \in listed THEN @ \ {v} ELSE @]

-----------------------------------------------------------------------------
(***************************************************************************)
(* A checkout.                                                             *)
(***************************************************************************)

\* The quote is one read of the catalogue: a line is available when the
\* product and the variant are for sale and the variant has the units, or sells
\* on backorder.
Available(w, v) ==
    /\ v \in listed \cap active \cap shown
    /\ v \in backorder \/ stock[v] >= w[v]

\* cart.quote and assertQuoteHolds: the total and the payment may also have
\* changed since the customer saw them, so a cart may be refused whatever the
\* stock is; it goes on only when every line is available.
Quote(o) ==
    /\ cpc[o] = "idle"
    /\ \E w \in Carts :
        /\ cart' = [cart EXCEPT ![o] = w]
        /\ \/ /\ \A v \in Variants : w[v] > 0 => Available(w, v)
              /\ cpc' = [cpc EXCEPT ![o] = "taking"]
              /\ left' = [left EXCEPT ![o] = {v \in Variants : w[v] > 0}]
              /\ lenient' = [lenient EXCEPT ![o] = backorder]
           \/ /\ cpc' = [cpc EXCEPT ![o] = "refused"]
              /\ UNCHANGED <<left, lenient>>
    /\ UNCHANGED <<documents, tries, requestVars, historyVars>>

\* OrderStockService.take, one line: the conditional $inc applied.
TakeLine(o, v) ==
    /\ cpc[o] = "taking"
    /\ v \in left[o]
    /\ CanTake(o, v)
    /\ stock' = [stock EXCEPT ![v] = @ - cart[o][v]]
    /\ out' = [out EXCEPT ![o] = @ \cup {v}]
    /\ left' = [left EXCEPT ![o] = @ \ {v}]
    /\ cpc' = [cpc EXCEPT ![o] = IF left[o] = {v} THEN "saving" ELSE @]
    /\ UNCHANGED <<catalogue, status, notes, trail, cart, lenient, tries,
                   requestVars, claimants, revived, moved>>

\* Mutants of TakeRefused: answer at once, skip the line, or wait while a cart
\* that may still give the unit back has it.
TakeRefusedOutright(o, v) ==
    /\ cpc[o] = "taking" /\ v \in left[o] /\ ~CanTake(o, v)
    /\ left' = [left EXCEPT ![o] = {}]
    /\ cpc' = [cpc EXCEPT ![o] = "refused"]
    /\ UNCHANGED <<documents, cart, lenient, tries, requestVars, historyVars>>
TakeSkipped(o, v) ==
    /\ cpc[o] = "taking" /\ v \in left[o] /\ ~CanTake(o, v)
    /\ left' = [left EXCEPT ![o] = @ \ {v}]
    /\ cpc' = [cpc EXCEPT ![o] = IF left[o] = {v} THEN "saving" ELSE @]
    /\ UNCHANGED <<documents, cart, lenient, tries, requestVars, historyVars>>
TakeWaitsForCart(o, v) ==
    /\ cpc[o] = "taking" /\ v \in left[o] /\ ~CanTake(o, v)
    /\ \A p \in Checkouts : v \in out[p] => cpc[p] \notin {"taking", "saving", "undoing"}
    /\ left' = [left EXCEPT ![o] = Lines(o) \ @]
    /\ cpc' = [cpc EXCEPT ![o] = IF left[o] = Lines(o) THEN "refused" ELSE "undoing"]
    /\ UNCHANGED <<documents, cart, lenient, tries, requestVars, historyVars>>

\* The line was not there any more: give back what the loop had taken, then
\* answer 409.
TakeRefused(o, v) ==
    /\ cpc[o] = "taking"
    /\ v \in left[o]
    /\ ~CanTake(o, v)
    /\ left' = [left EXCEPT ![o] = Lines(o) \ @]
    /\ cpc' = [cpc EXCEPT ![o] =
                 IF left[o] = Lines(o) THEN "refused" ELSE "undoing"]
    /\ UNCHANGED <<documents, cart, lenient, tries, requestVars, historyVars>>

\* decrement itself throws.  The call to stock.take is outside the try of
\* create and take has none: the lines already taken stay out.
TakeThrows(o) ==
    /\ "decrement" \in Faults
    /\ cpc[o] = "taking"
    /\ cpc' = [cpc EXCEPT ![o] = "failed"]
    /\ UNCHANGED <<documents, cart, lenient, left, tries, requestVars, historyVars>>

\* OrderStockService.giveBack, one line, for an order that will not exist.
UndoLine(o, v) ==
    /\ cpc[o] = "undoing"
    /\ v \in left[o]
    /\ ReturnUnits(o, v)
    /\ left' = [left EXCEPT ![o] = @ \ {v}]
    /\ cpc' = [cpc EXCEPT ![o] = IF left[o] = {v} THEN "refused" ELSE @]
    /\ UNCHANGED <<catalogue, status, notes, trail, cart, lenient, tries,
                   requestVars, claimants, revived, moved>>

\* increment throws: logged and passed over.
UndoLineFails(o, v) ==
    /\ "increment" \in Faults
    /\ cpc[o] = "undoing"
    /\ v \in left[o]
    /\ left' = [left EXCEPT ![o] = @ \ {v}]
    /\ cpc' = [cpc EXCEPT ![o] = IF left[o] = {v} THEN "refused" ELSE @]
    /\ UNCHANGED <<documents, cart, lenient, tries, requestVars, historyVars>>

\* persist: the document is written with the lines of the quote.
Save(o) ==
    /\ cpc[o] = "saving"
    /\ status' = [status EXCEPT ![o] = PENDING_CONTACT]
    /\ cpc' = [cpc EXCEPT ![o] = "placed"]
    /\ UNCHANGED <<stock, catalogue, notes, trail, cart, lenient, left, tries,
                   requestVars, historyVars>>

StartUndo(o) ==
    /\ cpc' = [cpc EXCEPT ![o] = "undoing"]
    /\ left' = [left EXCEPT ![o] = Lines(o)]

\* The code drawn belongs to another order: draw again, and give up after the
\* last attempt.
CodeCollides(o) ==
    /\ cpc[o] = "saving"
    /\ tries' = [tries EXCEPT ![o] = @ + 1]
    /\ \/ /\ tries[o] + 1 < ORDER_CODE_ATTEMPTS
          /\ UNCHANGED <<cpc, left>>
       \/ /\ tries[o] + 1 = ORDER_CODE_ATTEMPTS
          /\ StartUndo(o)
    /\ UNCHANGED <<documents, cart, lenient, requestVars, historyVars>>

SaveThrows(o) ==
    /\ "save" \in Faults
    /\ cpc[o] = "saving"
    /\ StartUndo(o)
    /\ UNCHANGED <<documents, cart, lenient, tries, requestVars, historyVars>>

\* The write landed and its answer did not: create cannot tell, and undoes.
SaveAnswerLost(o) ==
    /\ "saveAnswer" \in Faults
    /\ cpc[o] = "saving"
    /\ status' = [status EXCEPT ![o] = PENDING_CONTACT]
    /\ StartUndo(o)
    /\ UNCHANGED <<stock, catalogue, notes, trail, cart, lenient, tries,
                   requestVars, historyVars>>

CheckoutDies(o) ==
    /\ "crash" \in Faults
    /\ cpc[o] \in {"taking", "saving", "undoing"}
    /\ cpc' = [cpc EXCEPT ![o] = "dead"]
    /\ UNCHANGED <<documents, cart, lenient, left, tries, requestVars, historyVars>>

-----------------------------------------------------------------------------
(***************************************************************************)
(* A request of the panel.                                                 *)
(***************************************************************************)

\* setStatus reads the order: the same status answers at once, a cancelled
\* order answers 409, and what was read decides which write follows.
ReadForStatus(r) ==
    /\ ppc[r] = "idle"
    /\ \E o \in Checkouts, s \in Targets :
        /\ Exists(o)
        /\ target' = [target EXCEPT ![r] = o]
        /\ wanted' = [wanted EXCEPT ![r] = s]
        /\ ppc' = [ppc EXCEPT ![r] =
                     CASE s = status[o] -> "done"
                       [] s # status[o] /\ status[o] = CANCELLED -> "done"
                       [] s # status[o] /\ status[o] # CANCELLED ->
                            IF s = CANCELLED THEN "claiming" ELSE "moving"]
    /\ UNCHANGED <<documents, checkoutVars, due, historyVars>>

\* moveTo: save() writes the modified path with only the _id in its filter,
\* whatever the status has become since the read.
Move(r) ==
    /\ ppc[r] = "moving"
    /\ LET o == target[r] IN
        /\ status' = [status EXCEPT ![o] = wanted[r]]
        /\ revived' = IF status[o] = CANCELLED THEN revived \cup {o} ELSE revived
        /\ moved' = IF status[o] = wanted[r] THEN moved ELSE moved \cup {r}
    /\ ppc' = [ppc EXCEPT ![r] = "auditing"]
    /\ UNCHANGED <<stock, catalogue, notes, trail, checkoutVars, target, wanted,
                   due, out, claimants>>

\* Mutant of Claim: the update filters by _id only.
ClaimUnfiltered(r) ==
    /\ ppc[r] = "claiming"
    /\ LET o == target[r] IN
        /\ status' = [status EXCEPT ![o] = CANCELLED]
        /\ claimants' = [claimants EXCEPT ![o] = @ \cup {r}]
        /\ due' = [due EXCEPT ![r] = Lines(o)]
    /\ moved' = moved \cup {r}
    /\ ppc' = [ppc EXCEPT ![r] = "restoring"]
    /\ UNCHANGED <<stock, catalogue, notes, trail, checkoutVars, target, wanted,
                   out, revived>>

\* cancel: the update whose filter asks for any other status.  Whoever applies
\* it returns the stock; whoever does not reads the order again and answers.
Claim(r) ==
    /\ ppc[r] = "claiming"
    /\ LET o == target[r] IN
        \/ /\ status[o] # CANCELLED
           /\ status' = [status EXCEPT ![o] = CANCELLED]
           /\ claimants' = [claimants EXCEPT ![o] = @ \cup {r}]
           /\ moved' = moved \cup {r}
           /\ due' = [due EXCEPT ![r] = Lines(o)]
           /\ ppc' = [ppc EXCEPT ![r] = "restoring"]
        \/ /\ status[o] = CANCELLED
           /\ ppc' = [ppc EXCEPT ![r] = "auditing"]
           /\ UNCHANGED <<status, claimants, moved, due>>
    /\ UNCHANGED <<stock, catalogue, notes, trail, checkoutVars, target, wanted,
                   out, revived>>

\* Mutant of RestoreLine: the loop stops when the order is not cancelled any more.
RestoreWhileCancelled(r, v) ==
    /\ ppc[r] = "restoring"
    /\ v \in due[r]
    /\ \/ /\ status[target[r]] = CANCELLED
          /\ ReturnUnits(target[r], v)
          /\ due' = [due EXCEPT ![r] = @ \ {v}]
       \/ /\ status[target[r]] # CANCELLED
          /\ due' = [due EXCEPT ![r] = {}]
          /\ UNCHANGED <<stock, out>>
    /\ ppc' = [ppc EXCEPT ![r] = IF due'[r] = {} THEN "auditing" ELSE @]
    /\ UNCHANGED <<catalogue, status, notes, trail, checkoutVars, target, wanted,
                   claimants, revived, moved>>

\* giveBack, one line of the cancelled order.
RestoreLine(r, v) ==
    /\ ppc[r] = "restoring"
    /\ v \in due[r]
    /\ ReturnUnits(target[r], v)
    /\ due' = [due EXCEPT ![r] = @ \ {v}]
    /\ ppc' = [ppc EXCEPT ![r] = IF due[r] = {v} THEN "auditing" ELSE @]
    /\ UNCHANGED <<catalogue, status, notes, trail, checkoutVars, target, wanted,
                   claimants, revived, moved>>

RestoreLineFails(r, v) ==
    /\ "increment" \in Faults
    /\ ppc[r] = "restoring"
    /\ v \in due[r]
    /\ due' = [due EXCEPT ![r] = @ \ {v}]
    /\ ppc' = [ppc EXCEPT ![r] = IF due[r] = {v} THEN "auditing" ELSE @]
    /\ UNCHANGED <<documents, checkoutVars, target, wanted, historyVars>>

\* The entry of the trail, written after the status whatever cancel found.
Audit(r) ==
    /\ ppc[r] = "auditing"
    /\ trail' = trail \cup {r}
    /\ ppc' = [ppc EXCEPT ![r] = "done"]
    /\ UNCHANGED <<stock, catalogue, status, notes, checkoutVars, target, wanted,
                   due, historyVars>>

\* setNotes reads the order, and its save writes the notes alone.
ReadForNotes(r) ==
    /\ ppc[r] = "idle"
    /\ \E o \in Checkouts, n \in Notes :
        /\ Exists(o)
        /\ target' = [target EXCEPT ![r] = o]
        /\ wanted' = [wanted EXCEPT ![r] = n]
    /\ ppc' = [ppc EXCEPT ![r] = "noting"]
    /\ UNCHANGED <<documents, checkoutVars, due, historyVars>>

SaveNotes(r) ==
    /\ ppc[r] = "noting"
    /\ notes' = [notes EXCEPT ![target[r]] = wanted[r]]
    /\ ppc' = [ppc EXCEPT ![r] = "done"]
    /\ UNCHANGED <<stock, catalogue, status, trail, checkoutVars, target, wanted,
                   due, historyVars>>

RequestDies(r) ==
    /\ "crash" \in Faults
    /\ ppc[r] \in {"moving", "claiming", "noting", "restoring", "auditing"}
    /\ ppc' = [ppc EXCEPT ![r] = "dead"]
    /\ UNCHANGED <<documents, checkoutVars, target, wanted, due, historyVars>>

-----------------------------------------------------------------------------
CheckoutStep(o) ==
    \/ Quote(o) \/ TakeThrows(o) \/ Save(o) \/ CodeCollides(o) \/ SaveThrows(o)
    \/ SaveAnswerLost(o) \/ CheckoutDies(o)
    \/ \E v \in Variants :
        TakeLine(o, v) \/ TakeRefused(o, v) \/ UndoLine(o, v) \/ UndoLineFails(o, v)

RequestStep(r) ==
    \/ ReadForStatus(r) \/ Move(r) \/ Claim(r) \/ Audit(r)
    \/ ReadForNotes(r) \/ SaveNotes(r) \/ RequestDies(r)
    \/ \E v \in Variants : RestoreLine(r, v) \/ RestoreLineFails(r, v)

Next ==
    \/ \E o \in Checkouts : CheckoutStep(o)
    \/ \E r \in Requests : RequestStep(r)

Spec == Init /\ [][Next]_vars

\* An invocation that is not killed runs to its answer: every call it has
\* issued returns.  Nobody is obliged to start a checkout or a request.
CheckoutProgress(o) ==
    cpc[o] # "idle" /\ CheckoutStep(o) /\ cpc'[o] # "dead"
RequestProgress(r) ==
    ppc[r] # "idle" /\ RequestStep(r) /\ ppc'[r] # "dead"

FairSpec ==
    /\ Spec
    /\ \A o \in Checkouts : WF_vars(CheckoutProgress(o))
    /\ \A r \in Requests : WF_vars(RequestProgress(r))

\* The behaviours in which no status move lands on a cancelled order.  The code
\* does not exclude the others (see CancelledIsFinal): this is the part of the
\* system that refines StockLedger.
OrderlySpec == Init /\ [][Next /\ revived' = {}]_vars

-----------------------------------------------------------------------------
(***************************************************************************)
(* Safety.                                                                 *)
(***************************************************************************)

Live(o) == status[o] \notin {None, CANCELLED}

\* The units of v that some order keeps off the shelf, one element each.
HeldUnits(v) ==
    {u \in Checkouts \X (1..MaxQuantity) : v \in out[u[1]] /\ u[2] <= cart[u[1]][v]}

\* No unit is sold twice: whatever the interleaving of checkouts, cancellations
\* and failures, the shelf never owes a unit of a variant that does not sell on
\* backorder (the class comment of order-stock.service.ts: what separates this
\* store from selling the same unit twice).
NoOversell == \A v \in Variants \ backorder : stock[v] >= 0

\* Every unit is in exactly one place: on the shelf, or held by one order or by
\* one checkout on its way.  Nothing is invented by a second return and nothing
\* disappears, as long as no status move has landed on a cancelled order.
EveryUnitInOnePlace ==
    revived = {} =>
        \A v \in Variants : stock[v] + Cardinality(HeldUnits(v)) = InitialStock[v]

\* An order the store is still to serve has every line of it off the shelf: the
\* save comes after the whole take, and nothing returns a line of a live order.
LiveOrderHoldsItsLines ==
    \A o \in Checkouts \ revived : Live(o) => out[o] = Lines(o)

\* A checkout that was answered with a refusal keeps nothing, and a cancelled
\* order keeps nothing once its cancellation is over, unless the call that
\* returns a line failed or was killed (the safe side of the error, says the
\* comment of cancel).
NothingLeftBehind ==
    Faults \cap {"increment", "crash"} = {} =>
        \A o \in Checkouts \ revived :
            /\ cpc[o] = "refused" => out[o] = {}
            /\ status[o] = CANCELLED
                    /\ (\A r \in claimants[o] : ppc[r] # "restoring")
               => out[o] = {}

\* Two cancellations of one order, however they interleave, do not both return
\* its stock: at most one request ever wins the claim.
OneReturnPerOrder ==
    \A o \in Checkouts \ revived : Cardinality(claimants[o]) <= 1

-----------------------------------------------------------------------------
(***************************************************************************)
(* The orders module keeps a stock ledger.  A checkout is open until its   *)
(* order is saved, live while the order is to be served, and closed once   *)
(* it is refused, abandoned or cancelled.                                  *)
(***************************************************************************)

HeldBy(o) == [v \in Variants |-> IF v \in out[o] THEN cart[o][v] ELSE 0]

PhaseOf(o) ==
    IF status[o] = None
    THEN IF cpc[o] \in {"idle", "taking", "saving"} THEN "open" ELSE "closed"
    ELSE IF status[o] = CANCELLED THEN "closed" ELSE "live"

Ledger == INSTANCE StockLedger WITH
    Items <- Variants,
    Holders <- Checkouts,
    MaxUnits <- MaxQuantity,
    unlimited <- backorder,
    shelf <- stock,
    held <- [o \in Checkouts |-> HeldBy(o)],
    phase <- [o \in Checkouts |-> PhaseOf(o)]

\* Behind every interleaving of round trips there is one atomic ledger: a line
\* leaves the shelf once and only if it is there, comes back once and whole,
\* and never comes back from an order the store is still to serve.  Every step
\* is a step of the ledger, or moves no unit, until a status move lands on a
\* cancelled order.
KeepsLedger ==
    /\ Ledger!LedgerInit
    /\ [][revived' = {} => Ledger!LedgerNext]_Ledger!ledger

-----------------------------------------------------------------------------
(***************************************************************************)
(* Liveness, under FairSpec.                                               *)
(***************************************************************************)

\* A cart that passed the quote ends in an order or in a refusal, and a refusal
\* ends with its lines back on the shelf: two carts that want each other's last
\* units both give way instead of waiting.
CheckoutIsAnswered ==
    \A o \in Checkouts :
        cpc[o] = "taking" ~> cpc[o] = "placed" \/ (cpc[o] = "refused" /\ out[o] = {})

\* The units of a cancelled order come back, whatever another request does to it
\* meanwhile: cancel it too, or move it on from an older reading.
CancelledStockComesBack ==
    \A o \in Checkouts : status[o] = CANCELLED ~> out[o] = {}

-----------------------------------------------------------------------------
(***************************************************************************)
(* What the repository says of itself, and the code does not do.           *)
(***************************************************************************)

\* orders.constants.ts: cancelling is the end of the line.
CancelledIsFinal ==
    [][\A o \in Checkouts : status[o] = CANCELLED => status'[o] = CANCELLED]_vars

\* order.schema.ts: marked on cancellation so that the stock is not returned
\* twice.
StockReturnedOnce == \A o \in Checkouts : Cardinality(claimants[o]) <= 1

\* orders.service.ts: the trail is written after the change and never records
\* an action that did not happen.
TrailTellsWhatHappened == trail \subseteq moved

\* order-stock.service.ts: take undoes everything when a line fails, so that a
\* refused order never walks away with stock.
FailedTakeKeepsNothing == \A o \in Checkouts : cpc[o] = "failed" => out[o] = {}
=============================================================================
