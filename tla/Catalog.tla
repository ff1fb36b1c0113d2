------------------------------ MODULE Catalog ------------------------------
(***************************************************************************)
(* Product edits beside checkouts and cancellations                        *)
(* (backend/src/modules/products).  The units that Orders moves with one   *)
(* $inc per line live inside the product document, which a PATCH of the    *)
(* panel reads, merges and writes back with its whole list of variants.    *)
(*                                                                         *)
(* An EDIT is one run of ProductsService.update, setStatus or remove:      *)
(* reading the product, asking the orders which variants were sold, and    *)
(* writing are three round trips, and any step of Orders may come between  *)
(* them.  An edit that is killed is one that takes no further step.        *)
(*                                                                         *)
(* Left out: variants an edit creates.  They have an _id no order and no   *)
(* snapshot can hold.  The fields nothing here depends on (name, price,    *)
(* photos, SKU) only decide whether an unchanged list is written at all.   *)
(***************************************************************************)
EXTENDS Orders

CONSTANTS
    Edits,          \* runs of a panel route on a product
    Products,
    ProductOf,      \* the product each variant belongs to
    Patches         \* the bodies the panel may send, see PatchesAssumption

Switch == {"same", "on", "off"}

\* lists: the body carries the list of variants; keeps: the variants in it;
\* stock, backorder, active: the fields given, by variant (the others are
\* omitted); shown: what it says of the product's isActive.
ASSUME PatchesAssumption ==
    /\ Patches # {}
    /\ \A t \in Patches :
           /\ t.lists \in BOOLEAN /\ t.keeps \subseteq Variants /\ t.shown \in Switch
           /\ \A f \in {t.stock, t.backorder, t.active} : DOMAIN f \subseteq t.keeps
           /\ \A v \in DOMAIN t.stock : t.stock[v] \in Nat
           /\ \A v \in DOMAIN t.backorder : t.backorder[v] \in BOOLEAN
           /\ \A v \in DOMAIN t.active : t.active[v] \in BOOLEAN
ASSUME ProductOfAssumption == ProductOf \in [Variants -> Products]

VARIABLES
    gone,       \* products deleted
    epc,        \* where each edit is
    edited,     \* the product it read
    patch,      \* the body it was sent
    snap,       \* the variants as it read them
    sold,       \* the variants the orders answered were sold
    (***********************************************************************)
    (* History variables: no line of the code keeps them.                  *)
    (***********************************************************************)
    looked,     \* orders that existed when the edit asked
    lentOnce,   \* variants that have ever sold on backorder
    adjusted,   \* units the panel has added to each variant, by typing a stock
    crossed     \* variants whose stock an edit wrote back though it had moved

editVars == <<gone, epc, edited, patch, snap, sold, looked, lentOnce, adjusted, crossed>>
catalogVars == <<vars, editVars>>

-----------------------------------------------------------------------------
Mine(e) == {v \in Variants : ProductOf[v] = edited[e]}

EditSteps == {"idle", "checking", "saving", "counting", "deleting",
              "done", "refused", "invalid", "notFound"}

Snapshot == [listed |-> listed, active |-> active, backorder |-> backorder, stock |-> stock]
Snapshots == [listed : SUBSET Variants, active : SUBSET Variants,
              backorder : SUBSET Variants, stock : [Variants -> Int]]

CatalogTypeOK ==
    /\ TypeOK
    /\ gone \subseteq Products
    /\ epc \in [Edits -> EditSteps]
    /\ edited \in [Edits -> Products \cup {None}]
    /\ patch \in [Edits -> Patches]
    /\ snap \in [Edits -> Snapshots]
    /\ sold \in [Edits -> SUBSET Variants]
    /\ looked \in [Edits -> SUBSET Checkouts]
    /\ lentOnce \subseteq Variants
    /\ adjusted \in [Variants -> Int]
    /\ crossed \subseteq Variants

\* What an idle edit holds is never looked at.
CatalogInit ==
    /\ Init
    /\ gone = {}
    /\ epc = [e \in Edits |-> "idle"]
    /\ edited = [e \in Edits |-> None]
    /\ patch = [e \in Edits |-> CHOOSE t \in Patches : TRUE]
    /\ snap = [e \in Edits |-> Snapshot]
    /\ sold = [e \in Edits |-> {}]
    /\ looked = [e \in Edits |-> {}]
    /\ lentOnce = backorder
    /\ adjusted = [v \in Variants |-> 0]
    /\ crossed = {}

-----------------------------------------------------------------------------
(***************************************************************************)
(* update and setStatus.                                                   *)
(***************************************************************************)

ReadProduct(e) ==
    /\ epc[e] = "idle"
    /\ \E p \in Products \ gone : edited' = [edited EXCEPT ![e] = p]
    /\ snap' = [snap EXCEPT ![e] = Snapshot]

ReadForEdit(e) ==
    /\ ReadProduct(e)
    /\ \E t \in Patches :
        /\ patch' = [patch EXCEPT ![e] = t]
        /\ epc' = [epc EXCEPT ![e] = IF t.lists THEN "checking" ELSE "saving"]
    /\ UNCHANGED <<vars, gone, sold, looked, lentOnce, adjusted, crossed>>

\* setStatus answers at once when isActive is already what it was asked.
ReadForSwitch(e) ==
    /\ ReadProduct(e)
    /\ \E t \in Patches :
        /\ ~t.lists /\ t.shown # "same"
        /\ patch' = [patch EXCEPT ![e] = t]
        /\ epc' = [epc EXCEPT ![e] =
                     IF (t.shown = "on") = (\E v \in shown : ProductOf[v] = edited'[e])
                     THEN "done" ELSE "saving"]
    /\ UNCHANGED <<vars, gone, sold, looked, lentOnce, adjusted, crossed>>

\* Mutant of SoldIn: the question leaves the cancelled orders out.
SoldInLive(vs) == {v \in vs : \E o \in Checkouts : Live(o) /\ v \in Lines(o)}

\* The orders with any of these variants, whatever their status.
SoldIn(vs) == {v \in vs : \E o \in Checkouts : Exists(o) /\ v \in Lines(o)}

\* diffVariants asks which variants were sold, then refuses an id that is not
\* of this product.
CheckSold(e) ==
    /\ epc[e] = "checking"
    /\ LET mine == Mine(e) \cap snap[e].listed IN
        /\ sold' = [sold EXCEPT ![e] = SoldIn(mine)]
        /\ epc' = [epc EXCEPT ![e] =
                     IF patch[e].keeps \subseteq mine THEN "saving" ELSE "refused"]
    /\ looked' = [looked EXCEPT ![e] = {o \in Checkouts : Exists(o)}]
    /\ UNCHANGED <<vars, gone, edited, patch, snap, lentOnce, adjusted, crossed>>

\* planVariants: what is in the list is updated, what is not is retired when it
\* was sold and dropped when it was not.
Retired(e) == sold[e] \ patch[e].keeps
Kept(e) == patch[e].keeps \cup Retired(e)

\* Mutant of StockAfter: an omitted stock goes back to the default of a new
\* variant.
StockAfterDefaults(e, v) == IF v \in DOMAIN patch[e].stock THEN patch[e].stock[v] ELSE 0

\* merge: a field the list gives replaces what was read; a field it omits is
\* what was read.
StockAfter(e, v) ==
    IF v \in DOMAIN patch[e].stock THEN patch[e].stock[v] ELSE snap[e].stock[v]
FlagAfter(e, given, read) ==
    {v \in Kept(e) : IF v \in DOMAIN given THEN given[v] ELSE v \in read}
BackorderAfter(e) == FlagAfter(e, patch[e].backorder, snap[e].backorder)
ActiveAfter(e) == FlagAfter(e, patch[e].active, snap[e].active) \ Retired(e)

\* Mongoose writes a list that differs from the one it read.
ListDiffers(e) ==
    LET mine == Mine(e) \cap snap[e].listed IN
    \/ Kept(e) # mine
    \/ BackorderAfter(e) # mine \cap snap[e].backorder
    \/ ActiveAfter(e) # mine \cap snap[e].active
    \/ \E v \in Kept(e) : StockAfter(e, v) # snap[e].stock[v]

\* The schema takes no stock below zero, and save() validates the document it
\* read along with what was changed.
Valid(e) ==
    IF patch[e].lists
    THEN \A v \in Kept(e) : StockAfter(e, v) >= 0
    ELSE \A v \in Mine(e) \cap snap[e].listed : snap[e].stock[v] >= 0

WriteVariants(e) ==
    /\ listed' = (listed \ Mine(e)) \cup Kept(e)
    /\ active' = (active \ Mine(e)) \cup ActiveAfter(e)
    /\ backorder' = (backorder \ Mine(e)) \cup BackorderAfter(e)
    /\ stock' = [v \in Variants |-> IF v \in Kept(e) THEN StockAfter(e, v) ELSE stock[v]]
    /\ lentOnce' = lentOnce \cup BackorderAfter(e)
    /\ adjusted' = [v \in Variants |->
                      IF v \in DOMAIN patch[e].stock
                      THEN adjusted[v] + patch[e].stock[v] - stock[v] ELSE adjusted[v]]
    /\ crossed' = crossed \cup
                    {v \in Kept(e) \ DOMAIN patch[e].stock : stock[v] # snap[e].stock[v]}

SaveEdit(e) ==
    /\ epc[e] = "saving"
    /\ edited[e] \notin gone
    /\ Valid(e)
    /\ \/ patch[e].lists /\ WriteVariants(e)
       \/ /\ ~patch[e].lists \/ ~ListDiffers(e)
          /\ UNCHANGED <<listed, active, backorder, stock, lentOnce, adjusted, crossed>>
    /\ shown' = CASE patch[e].shown = "on" -> shown \cup Mine(e)
                  [] patch[e].shown = "off" -> shown \ Mine(e)
                  [] patch[e].shown = "same" -> shown
    /\ epc' = [epc EXCEPT ![e] = "done"]
    /\ UNCHANGED <<status, notes, trail, checkoutVars, requestVars, historyVars,
                   gone, edited, patch, snap, sold, looked>>

\* The save that answers an error: a document that is not valid, or not there.
SaveEditFails(e) ==
    /\ epc[e] = "saving"
    /\ ~Valid(e) \/ edited[e] \in gone
    /\ epc' = [epc EXCEPT ![e] = IF Valid(e) THEN "notFound" ELSE "invalid"]
    /\ UNCHANGED <<vars, gone, edited, patch, snap, sold, looked, lentOnce, adjusted, crossed>>

-----------------------------------------------------------------------------
(***************************************************************************)
(* remove.                                                                 *)
(***************************************************************************)

ReadToRemove(e) ==
    /\ ReadProduct(e)
    /\ epc' = [epc EXCEPT ![e] = "counting"]
    /\ UNCHANGED <<vars, gone, patch, sold, looked, lentOnce, adjusted, crossed>>

CountOrders(e) ==
    /\ epc[e] = "counting"
    /\ epc' = [epc EXCEPT ![e] =
                 IF SoldIn(Mine(e) \cap snap[e].listed) = {} THEN "deleting" ELSE "refused"]
    /\ looked' = [looked EXCEPT ![e] = {o \in Checkouts : Exists(o)}]
    /\ UNCHANGED <<vars, gone, edited, patch, snap, sold, lentOnce, adjusted, crossed>>

DeleteProduct(e) ==
    /\ epc[e] = "deleting"
    /\ gone' = gone \cup {edited[e]}
    /\ listed' = listed \ Mine(e)
    /\ epc' = [epc EXCEPT ![e] = "done"]
    /\ UNCHANGED <<stock, active, shown, backorder, status, notes, trail,
                   checkoutVars, requestVars, historyVars,
                   edited, patch, snap, sold, looked, lentOnce, adjusted, crossed>>

-----------------------------------------------------------------------------
EditStep(e) ==
    \/ ReadForEdit(e) \/ ReadForSwitch(e) \/ CheckSold(e) \/ SaveEdit(e) \/ SaveEditFails(e)
    \/ ReadToRemove(e) \/ CountOrders(e) \/ DeleteProduct(e)

CatalogNext ==
    \/ Next /\ UNCHANGED editVars
    \/ \E e \in Edits : EditStep(e)

CatalogSpec == CatalogInit /\ [][CatalogNext]_catalogVars

-----------------------------------------------------------------------------
(***************************************************************************)
(* Properties.                                                             *)
(***************************************************************************)

\* A variant that was never sold on backorder is never owed, however the stale
\* lists of the panel and the updates of the checkouts fall on each other.
NeverLentNeverOwed ==
    \A v \in Variants \ lentOnce : stock[v] >= 0

\* A list written back over stock that moved is the only way a unit appears or
\* disappears: elsewhere every unit is on the shelf or held, give or take what
\* the panel typed.
UnitsAddUpWithEdits ==
    revived = {} =>
        \A v \in Variants \ crossed :
            stock[v] + Cardinality(HeldUnits(v)) = InitialStock[v] + adjusted[v]

\* An edit never takes from the catalogue a variant of an order that was there
\* when it asked, cancelled orders included: their cancellation may still be
\* returning units to it.
OrdersSeenKeepTheirVariants ==
    [][\A e \in Edits : epc'[e] # epc[e] =>
        \A o \in looked[e] : Lines(o) \cap listed \subseteq listed']_catalogVars

\* Why: what an edit may write back never was below zero, and every flag that
\* anyone holds was once on.
LentAccount ==
    /\ NeverLentNeverOwed
    /\ \A e \in Edits : \A v \in Variants \ lentOnce : snap[e].stock[v] >= 0
    /\ backorder \subseteq lentOnce
    /\ \A e \in Edits : snap[e].backorder \subseteq lentOnce
    /\ \A o \in Checkouts : lenient[o] \subseteq lentOnce

-----------------------------------------------------------------------------
(***************************************************************************)
(* What the repository says of itself, and the code does not do.           *)
(***************************************************************************)

\* products.service.ts, merge: an omitted field stays as it is.
OmittedStockStays ==
    [][\A e \in Edits : epc[e] = "saving" /\ epc'[e] = "done" =>
        \A v \in listed \cap listed' :
            v \in DOMAIN patch[e].stock \/ stock'[v] = stock[v]]_catalogVars

\* variants.diff.ts: a variant some order points to is retired and never
\* deleted, since deleting it breaks the return of stock of a cancellation.
OrderedVariantsStay == \A o \in Checkouts : Exists(o) => Lines(o) \subseteq listed

\* order-stock.service.ts: the negative stock of a sale on backorder is right
\* information and not a defect, so no edit is refused because of it.
BackorderIsNoDefect == \A e \in Edits : epc[e] # "invalid"
=============================================================================
