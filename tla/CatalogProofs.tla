--------------------------- MODULE CatalogProofs ---------------------------
(***************************************************************************)
(* Theorems of Catalog: types, the shelf and the variants of the orders    *)
(* under product edits, for any catalogue, any bodies the panel may send,  *)
(* and any number of edits, checkouts and requests unless a theorem says   *)
(* otherwise.                                                              *)
(***************************************************************************)
EXTENDS Catalog, OrdersProofs

USE PatchesAssumption, ProductOfAssumption

\* The types, and that an edit on its way has a product.
EditTyped ==
    /\ gone \subseteq Products
    /\ epc \in [Edits -> EditSteps]
    /\ edited \in [Edits -> Products \cup {None}]
    /\ patch \in [Edits -> Patches]
    /\ snap \in [Edits -> Snapshots]
    /\ sold \in [Edits -> SUBSET Variants]
    /\ looked \in [Edits -> SUBSET Checkouts]
    /\ lentOnce \subseteq Variants
    /\ adjusted \in [Variants -> Int]
    /\ crossed \subseteq Variants
    /\ \A e \in Edits : epc[e] # "idle" => edited[e] \in Products

AllTyped == StepTyped /\ EditTyped

-----------------------------------------------------------------------------
(***************************************************************************)
(* Types.                                                                  *)
(***************************************************************************)

LEMMA SnapshotTyped == StepTyped => Snapshot \in Snapshots
    BY DEF StepTyped, TypeOK, Snapshot, Snapshots

LEMMA CatalogInitTyped == CatalogInit => AllTyped
<1> SUFFICES ASSUME CatalogInit PROVE AllTyped
    OBVIOUS
<1>1. StepTyped
    BY InitTyped DEF Typed, CatalogInit
<1>2. (CHOOSE t \in Patches : TRUE) \in Patches
    OBVIOUS
<1>3. lentOnce \subseteq Variants
    BY <1>1 DEF CatalogInit, StepTyped, TypeOK
<1> QED
    BY <1>1, <1>2, <1>3, SnapshotTyped DEF CatalogInit, AllTyped, EditTyped, EditSteps

\* A list of variants that an edit writes is well typed, whatever it read and
\* whatever the body says.
LEMMA WriteTyped ==
    ASSUME AllTyped, NEW e \in Edits, WriteVariants(e)
    PROVE  /\ listed' \subseteq Variants /\ active' \subseteq Variants
           /\ backorder' \subseteq Variants /\ lentOnce' \subseteq Variants
           /\ stock' \in [Variants -> Int]
           /\ adjusted' \in [Variants -> Int] /\ crossed' \subseteq Variants
<1>1. /\ patch[e] \in Patches /\ snap[e] \in Snapshots /\ sold[e] \subseteq Variants
      /\ stock \in [Variants -> Int] /\ adjusted \in [Variants -> Int]
      /\ listed \subseteq Variants /\ active \subseteq Variants /\ backorder \subseteq Variants
      /\ lentOnce \subseteq Variants /\ crossed \subseteq Variants
    BY DEF AllTyped, StepTyped, EditTyped, TypeOK
<1>2. patch[e].keeps \subseteq Variants /\ Kept(e) \subseteq Variants
    BY <1>1 DEF Kept, Retired
<1>3. BackorderAfter(e) \subseteq Variants /\ ActiveAfter(e) \subseteq Variants
    BY <1>2 DEF BackorderAfter, ActiveAfter, FlagAfter
<1>4. \A v \in DOMAIN patch[e].stock : patch[e].stock[v] \in Nat
    BY <1>1
<1>5. \A v \in Variants : StockAfter(e, v) \in Int
    BY <1>1, <1>4 DEF StockAfter, Snapshots
<1>6. stock' \in [Variants -> Int]
    BY <1>1, <1>5 DEF WriteVariants
<1>7. adjusted' \in [Variants -> Int]
    BY <1>1, <1>4 DEF WriteVariants
<1> QED
    BY <1>1, <1>2, <1>3, <1>6, <1>7 DEF WriteVariants

LEMMA EditStepTyped ==
    ASSUME AllTyped, NEW e \in Edits, EditStep(e)
    PROVE  AllTyped'
<1> USE DEF AllTyped, EditTyped, EditSteps, ReadProduct
<1>s. Snapshot \in Snapshots
    BY SnapshotTyped
<1>v. vars' = vars => StepTyped'
    BY DEF vars, documents, checkoutVars, requestVars, historyVars, StepTyped, TypeOK,
           RequestTyped, Exists
<1>1. CASE ReadForEdit(e)
    BY <1>1, <1>s, <1>v DEF ReadForEdit
<1>2. CASE ReadForSwitch(e)
    BY <1>2, <1>s, <1>v DEF ReadForSwitch
<1>3. CASE CheckSold(e)
  <2>1. SoldIn(Mine(e) \cap snap[e].listed) \subseteq Variants
    BY DEF SoldIn, Mine
  <2> QED
    BY <1>3, <1>v, <2>1 DEF CheckSold
<1>4. CASE SaveEdit(e)
  <2>1. /\ listed' \subseteq Variants /\ active' \subseteq Variants
        /\ backorder' \subseteq Variants /\ lentOnce' \subseteq Variants
        /\ stock' \in [Variants -> Int]
        /\ adjusted' \in [Variants -> Int] /\ crossed' \subseteq Variants
    BY <1>4, WriteTyped DEF SaveEdit, StepTyped, TypeOK
  <2>2. shown' \subseteq Variants
    BY <1>4 DEF SaveEdit, Mine, StepTyped, TypeOK, Switch
  <2>3. StepTyped'
    BY <1>4, <2>1, <2>2 DEF SaveEdit, StepTyped, TypeOK, RequestTyped, Exists,
       checkoutVars, requestVars, historyVars
  <2>4. epc' \in [Edits -> EditSteps] /\ \A f \in Edits : epc'[f] # "idle" => edited[f] \in Products
    BY <1>4 DEF SaveEdit
  <2>5. UNCHANGED <<gone, edited, patch, snap, sold, looked>>
    BY <1>4 DEF SaveEdit
  <2> QED
    BY <2>1, <2>3, <2>4, <2>5
<1>5. CASE SaveEditFails(e)
    BY <1>5, <1>v DEF SaveEditFails
<1>6. CASE ReadToRemove(e)
    BY <1>6, <1>s, <1>v DEF ReadToRemove
<1>7. CASE CountOrders(e)
    BY <1>7, <1>v DEF CountOrders
<1>8. CASE DeleteProduct(e)
  <2>1. StepTyped'
    BY <1>8 DEF DeleteProduct, StepTyped, TypeOK, RequestTyped, Exists,
       checkoutVars, requestVars, historyVars
  <2> QED
    BY <1>8, <2>1 DEF DeleteProduct
<1> QED
    BY <1>1, <1>2, <1>3, <1>4, <1>5, <1>6, <1>7, <1>8 DEF EditStep

LEMMA CatalogNextTyped == AllTyped /\ [CatalogNext]_catalogVars => AllTyped'
<1> SUFFICES ASSUME AllTyped, [CatalogNext]_catalogVars PROVE AllTyped'
    OBVIOUS
<1>1. CASE [Next]_vars /\ UNCHANGED editVars
    BY <1>1, NextStepTyped DEF AllTyped, EditTyped, editVars
<1>2. CASE \E e \in Edits : EditStep(e)
    BY <1>2, EditStepTyped
<1> QED
    BY <1>1, <1>2 DEF CatalogNext, catalogVars

\* Product edits and checkouts keep every variable of both well typed.
THEOREM CatalogTypeCorrect == CatalogSpec => []CatalogTypeOK
<1>1. AllTyped => CatalogTypeOK
    BY DEF AllTyped, StepTyped, EditTyped, CatalogTypeOK
<1>2. CatalogSpec => []AllTyped
    BY CatalogInitTyped, CatalogNextTyped, PTL DEF CatalogSpec
<1> QED
    BY <1>1, <1>2, PTL

-----------------------------------------------------------------------------
(***************************************************************************)
(* A variant that was never lent is never owed.                            *)
(***************************************************************************)

\* A checkout takes units of a variant that is not lent only when they are
\* there, and every other step of Orders gives units back.
LEMMA NextLent ==
    ASSUME AllTyped, LentAccount, [Next]_vars, UNCHANGED editVars
    PROVE  LentAccount'
<1>1. backorder' = backorder
    BY NextKeepsCatalogue DEF catalogue
<1>2. lentOnce' = lentOnce /\ snap' = snap
    BY DEF editVars
<1>3. \A o \in Checkouts : lenient'[o] \subseteq lentOnce
  <2>1. ASSUME NEW p \in Checkouts, Quote(p)
        PROVE  lenient' = lenient \/ lenient' = [lenient EXCEPT ![p] = backorder]
    BY <2>1 DEF Quote
  <2> QED
    BY <2>1, NextLenient DEF LentAccount, AllTyped, StepTyped, TypeOK
<1>4. ASSUME NEW x \in Variants, x \notin lentOnce
      PROVE  stock'[x] >= 0
  <2>1. stock \in [Variants -> Int] /\ stock[x] >= 0
    BY <1>4 DEF AllTyped, StepTyped, TypeOK, LentAccount, NeverLentNeverOwed
  <2>2. ASSUME NEW o \in Checkouts, NEW v \in Variants, TakeLine(o, v)
        PROVE  stock'[x] >= 0
    <3>1. cart[o][v] \in Nat /\ x \notin lenient[o]
      BY <1>4, QuantityAssumption DEF AllTyped, StepTyped, TypeOK, LentAccount
    <3> QED
      BY <2>1, <2>2, <3>1, SMT DEF TakeLine, CanTake
  <2>3. ASSUME NEW o \in Checkouts, NEW v \in Variants, UndoLine(o, v)
        PROVE  stock'[x] >= 0
    <3>1. cart[o][v] \in Nat
      BY QuantityAssumption DEF AllTyped, StepTyped, TypeOK
    <3> QED
      BY <2>1, <2>3, <3>1, SMT DEF UndoLine, ReturnUnits
  <2>4. ASSUME NEW r \in Requests, NEW v \in Variants, RestoreLine(r, v)
        PROVE  stock'[x] >= 0
    <3>1. cart[target[r]][v] \in Nat
      BY <2>4, QuantityAssumption DEF AllTyped, StepTyped, TypeOK, RequestTyped, RestoreLine
    <3> QED
      BY <2>1, <2>4, <3>1, SMT DEF RestoreLine, ReturnUnits
  <2> QED
    BY <2>1, <2>2, <2>3, <2>4, NextStock
<1> QED
    BY <1>1, <1>2, <1>3, <1>4 DEF LentAccount, NeverLentNeverOwed

\* An edit writes back what it read or what the panel typed, and neither was
\* below zero for a variant that was never lent.
LEMMA EditLent ==
    ASSUME AllTyped, LentAccount, NEW e \in Edits, EditStep(e)
    PROVE  LentAccount'
<1>t. /\ snap \in [Edits -> Snapshots] /\ patch \in [Edits -> Patches]
      /\ stock \in [Variants -> Int]
    BY DEF AllTyped, StepTyped, EditTyped, TypeOK
<1>1. CASE ReadProduct(e) /\ UNCHANGED <<vars, lentOnce>>
  <2>1. snap' = [snap EXCEPT ![e] = Snapshot]
    BY <1>1 DEF ReadProduct
  <2>2. /\ UNCHANGED <<stock, backorder, lenient, lentOnce>>
        /\ Snapshot.stock = stock /\ Snapshot.backorder = backorder
    BY <1>1 DEF vars, documents, checkoutVars, Snapshot
  <2> QED
    BY <1>t, <2>1, <2>2 DEF LentAccount, NeverLentNeverOwed
<1>2. CASE UNCHANGED <<stock, backorder, lenient, lentOnce, snap>>
    BY <1>2 DEF LentAccount, NeverLentNeverOwed
<1>3. CASE SaveEdit(e) /\ WriteVariants(e)
  <2>1. lenient' = lenient /\ snap' = snap
    BY <1>3 DEF SaveEdit, checkoutVars
  <2>2. /\ lentOnce' = lentOnce \cup BackorderAfter(e)
        /\ backorder' = (backorder \ Mine(e)) \cup BackorderAfter(e)
        /\ stock' = [v \in Variants |-> IF v \in Kept(e) THEN StockAfter(e, v) ELSE stock[v]]
    BY <1>3 DEF WriteVariants
  <2>3. ASSUME NEW x \in Variants, x \notin lentOnce
        PROVE  stock'[x] >= 0
    <3>1. stock[x] >= 0 /\ snap[e].stock[x] >= 0
      BY <2>3 DEF LentAccount, NeverLentNeverOwed
    <3>2. x \in DOMAIN patch[e].stock => patch[e].stock[x] >= 0
      BY <1>t
    <3> QED
      BY <2>2, <3>1, <3>2 DEF StockAfter
  <2> QED
    BY <2>1, <2>2, <2>3 DEF LentAccount, NeverLentNeverOwed
<1> QED
  <2>1. ReadForEdit(e) \/ ReadForSwitch(e) \/ ReadToRemove(e)
            => ReadProduct(e) /\ UNCHANGED <<vars, lentOnce>>
    BY DEF ReadForEdit, ReadForSwitch, ReadToRemove
  <2>2. CheckSold(e) \/ SaveEditFails(e) \/ CountOrders(e) \/ DeleteProduct(e)
            => UNCHANGED <<stock, backorder, lenient, lentOnce, snap>>
    BY DEF CheckSold, SaveEditFails, CountOrders, DeleteProduct, vars, documents, checkoutVars
  <2>3. SaveEdit(e) /\ ~WriteVariants(e)
            => UNCHANGED <<stock, backorder, lenient, lentOnce, snap>>
    BY DEF SaveEdit, checkoutVars
  <2> QED
    BY <1>1, <1>2, <1>3, <2>1, <2>2, <2>3 DEF EditStep

\* A variant that never sold on backorder is never owed, whatever stale lists
\* the panel writes back between the steps of any number of checkouts.
THEOREM NeverOwedUnlessLent == CatalogSpec => []NeverLentNeverOwed
<1>1. CatalogSpec => []AllTyped
    BY CatalogInitTyped, CatalogNextTyped, PTL DEF CatalogSpec
<1>2. CatalogInit => LentAccount
    BY StockAssumption DEF CatalogInit, Init, LentAccount, NeverLentNeverOwed, Snapshot
<1>3. AllTyped /\ LentAccount /\ [CatalogNext]_catalogVars => LentAccount'
  <2> SUFFICES ASSUME AllTyped, LentAccount, [CatalogNext]_catalogVars PROVE LentAccount'
    OBVIOUS
  <2>1. CASE [Next]_vars /\ UNCHANGED editVars
    BY <2>1, NextLent
  <2>2. CASE \E e \in Edits : EditStep(e)
    BY <2>2, EditLent
  <2> QED
    BY <2>1, <2>2 DEF CatalogNext, catalogVars
<1>4. LentAccount => NeverLentNeverOwed
    BY DEF LentAccount
<1> QED
    BY <1>1, <1>2, <1>3, <1>4, PTL DEF CatalogSpec

-----------------------------------------------------------------------------
(***************************************************************************)
(* Where units can appear or disappear.                                    *)
(***************************************************************************)

\* The sum of each variant, while no status move lands on a cancelled order.
EditedBalance ==
    \A v \in Variants \ crossed : UnitsOf(v) = InitialStock[v] + adjusted[v]

\* An edit writes no order, no step of a checkout and none of a request.
LEMMA EditLeavesOrders ==
    ASSUME NEW e \in Edits, EditStep(e)
    PROVE  UNCHANGED <<status, checkoutVars, requestVars, historyVars>>
BY DEF EditStep, ReadForEdit, ReadForSwitch, CheckSold, SaveEdit, SaveEditFails, ReadToRemove,
   CountOrders, DeleteProduct, vars, documents

\* So the accounts of Orders hold beside the edits of the panel.
LEMMA CatalogNextAccounts ==
    ASSUME NoLostAnswer, AllTyped, Accounts, [CatalogNext]_catalogVars
    PROVE  Accounts'
<1>1. CASE [Next]_vars
    BY <1>1, NextAccounts DEF AllTyped
<1>2. ASSUME NEW e \in Edits, EditStep(e) PROVE Accounts'
  <2>1. UNCHANGED <<status, checkoutVars, requestVars, historyVars>>
    BY <1>2, EditLeavesOrders
  <2> QED
    BY <2>1 DEF checkoutVars, requestVars, historyVars, Accounts, CheckoutAccount,
       ClaimAccount, RestorersClaimed, Exists, Live, Lines
<1> QED
    BY <1>1, <1>2 DEF CatalogNext, catalogVars

\* An edit that writes a list changes the sum of a variant by what the panel
\* typed for it, and marks the variants it wrote back over another stock.
LEMMA WriteBalanced ==
    ASSUME AllTyped, EditedBalance, NEW e \in Edits, WriteVariants(e), cart' = cart, out' = out
    PROVE  EditedBalance'
<1> SUFFICES ASSUME NEW x \in Variants, x \notin crossed'
             PROVE  UnitsOf(x)' = InitialStock[x] + adjusted'[x]
    BY DEF EditedBalance
<1>1. /\ patch[e] \in Patches /\ snap[e] \in Snapshots
      /\ stock[x] \in Int /\ adjusted[x] \in Int /\ InitialStock[x] \in Int
    BY StockAssumption DEF AllTyped, StepTyped, EditTyped, TypeOK
<1>2. x \notin crossed /\ UnitsOf(x) = InitialStock[x] + adjusted[x]
    BY DEF WriteVariants, EditedBalance
<1>3. Cardinality(HeldUnits(x))' = Cardinality(HeldUnits(x))
    BY DEF HeldUnits
<1>4. Cardinality(HeldUnits(x)) \in Nat
  <2>1. HeldUnits(x) = UnitsIn(out, x)
    BY DEF HeldUnits, UnitsIn
  <2> QED
    BY <2>1, UnitsFinite, FS_CardinalityType
<1>5. CASE x \in DOMAIN patch[e].stock
  <2>1. x \in Kept(e) /\ patch[e].stock[x] \in Nat
    BY <1>1, <1>5 DEF Kept
  <2>2. stock'[x] = patch[e].stock[x] /\ adjusted'[x] = adjusted[x] + patch[e].stock[x] - stock[x]
    BY <1>5, <2>1 DEF WriteVariants, StockAfter
  <2> QED
    BY <1>1, <1>2, <1>3, <1>4, <2>1, <2>2 DEF UnitsOf
<1>6. CASE x \notin DOMAIN patch[e].stock
  <2>1. x \in Kept(e) => stock[x] = snap[e].stock[x]
    BY <1>6 DEF WriteVariants
  <2>2. stock'[x] = stock[x] /\ adjusted'[x] = adjusted[x]
    BY <1>6, <2>1 DEF WriteVariants, StockAfter
  <2> QED
    BY <1>1, <1>2, <1>3, <1>4, <2>2 DEF UnitsOf
<1> QED
    BY <1>5, <1>6

\* The sum of each variant holds beside orders and edits.
LEMMA CatalogNextBalanced ==
    ASSUME AllTyped, Accounts, revived = {}, EditedBalance, [CatalogNext]_catalogVars
    PROVE  EditedBalance'
<1>1. CASE [Next]_vars /\ UNCHANGED editVars
  <2>1. \A v \in Variants : UnitsOf(v)' = UnitsOf(v)
    BY <1>1, NextKeepsUnits DEF AllTyped
  <2> QED
    BY <1>1, <2>1 DEF EditedBalance, editVars
<1>2. ASSUME NEW e \in Edits, EditStep(e) PROVE EditedBalance'
  <2>1. cart' = cart /\ out' = out
    BY <1>2, EditLeavesOrders DEF checkoutVars, historyVars
  <2>2. CASE UNCHANGED <<stock, adjusted, crossed>>
    BY <2>1, <2>2 DEF EditedBalance, UnitsOf, HeldUnits
  <2>3. CASE WriteVariants(e)
    BY <2>1, <2>3, WriteBalanced
  <2>4. WriteVariants(e) \/ UNCHANGED <<stock, adjusted, crossed>>
    BY <1>2 DEF EditStep, ReadForEdit, ReadForSwitch, CheckSold, SaveEdit, SaveEditFails,
       ReadToRemove, CountOrders, DeleteProduct, vars, documents
  <2> QED
    BY <2>2, <2>3, <2>4
<1> QED
    BY <1>1, <1>2 DEF CatalogNext, catalogVars

\* A stale list written back over a stock that moved is the only way a unit
\* appears or disappears, for any number of edits, checkouts and requests, while
\* no answer of a save is lost and no status move lands on a cancelled order
\* (products.service.ts beside order-stock.service.ts).
THEOREM OnlyStaleListsLoseUnits ==
    ASSUME NoLostAnswer
    PROVE  CatalogSpec => []UnitsAddUpWithEdits
<1> DEFINE Inv == Accounts /\ (revived = {} => EditedBalance)
<1>1. CatalogSpec => []AllTyped
    BY CatalogInitTyped, CatalogNextTyped, PTL DEF CatalogSpec
<1>2. CatalogInit => Inv
  <2> SUFFICES ASSUME CatalogInit PROVE Inv
    OBVIOUS
  <2>1. IInv
    BY InitIInv DEF CatalogInit
  <2>2. \A v \in Variants : UnitsOf(v) = InitialStock[v] /\ InitialStock[v] \in Nat
    BY <2>1, StockAssumption DEF CatalogInit, Init, IInv, EveryUnitInOnePlace, UnitsOf
  <2> QED
    BY <2>1, <2>2 DEF IInv, CatalogInit, EditedBalance
<1>3. AllTyped /\ Inv /\ [CatalogNext]_catalogVars => Inv'
  <2> SUFFICES ASSUME AllTyped, Inv, [CatalogNext]_catalogVars PROVE Inv'
    OBVIOUS
  <2>1. Accounts'
    BY CatalogNextAccounts
  <2>2. revived \subseteq revived'
    <3>1. CASE [Next]_vars
      BY <3>1, RevivedGrows
    <3>2. CASE \E e \in Edits : EditStep(e)
      BY <3>2, EditLeavesOrders DEF historyVars
    <3> QED
      BY <3>1, <3>2 DEF CatalogNext, catalogVars
  <2> QED
    BY <2>1, <2>2, CatalogNextBalanced
<1>4. Inv => UnitsAddUpWithEdits
    BY DEF UnitsAddUpWithEdits, EditedBalance, UnitsOf
<1> QED
    BY <1>1, <1>2, <1>3, <1>4, PTL DEF CatalogSpec

-----------------------------------------------------------------------------
(***************************************************************************)
(* An edit and the orders it saw, while edits do not overlap.              *)
(***************************************************************************)

\* The edits that are between their read and their write, and the panel that
\* never has two of them.
UnderWay == {e \in Edits : epc[e] \in {"checking", "saving", "counting", "deleting"}}
OneAtATime == \A e, o \in UnderWay : e = o

\* What an edit under way has read is what there is, and the orders it saw have none
\* of the variants it is about to drop.
SeenInv(e) ==
    /\ epc[e] \in {"checking", "saving", "counting", "deleting"} => snap[e].listed = listed
    /\ \A o \in looked[e] : Exists(o)
    /\ epc[e] = "saving" /\ patch[e].lists =>
         \A o \in looked[e] : Lines(o) \cap Mine(e) \cap listed \subseteq sold[e]
    /\ epc[e] = "deleting" =>
         \A o \in looked[e] : Lines(o) \cap Mine(e) \cap listed = {}

\* Orders do not touch the catalogue, and the cart of an order is as it was.
LEMMA NextSeen ==
    ASSUME AllTyped, Accounts, NEW e \in Edits, SeenInv(e), [Next]_vars, UNCHANGED editVars
    PROVE  SeenInv(e)'
<1>1. listed' = listed /\ UNCHANGED <<epc, edited, patch, snap, sold, looked>>
    BY NextKeepsCatalogue DEF catalogue, editVars
<1>2. \A o \in looked[e] : o \in Checkouts /\ Exists(o)
    BY DEF SeenInv, AllTyped, EditTyped
<1>3. \A o \in looked[e] : Exists(o)'
    BY <1>2, OrdersStay DEF AllTyped
<1>4. ASSUME NEW o \in looked[e] PROVE Lines(o)' = Lines(o)
  <2>1. CASE cart' = cart
    BY <2>1 DEF Lines
  <2>2. ASSUME NEW p \in Checkouts, Quote(p) PROVE Lines(o)' = Lines(o)
    <3>1. o # p
      BY <1>2, <2>2 DEF Quote, Accounts, CheckoutAccount
    <3>2. cart'[o] = cart[o]
      BY <1>2, <2>2, <3>1 DEF Quote, AllTyped, StepTyped, TypeOK
    <3> QED
      BY <3>2 DEF Lines
  <2> QED
    BY <2>1, <2>2, NextCarts
<1>5. Mine(e)' = Mine(e)
    BY <1>1 DEF Mine
<1> QED
    BY <1>1, <1>3, <1>4, <1>5 DEF SeenInv

\* No step of the edit drops a variant of an order it saw, and what it holds
\* stays true of the catalogue.
LEMMA EditSeen ==
    ASSUME AllTyped, NEW e \in Edits, SeenInv(e), EditStep(e)
    PROVE  /\ SeenInv(e)'
           /\ \A o \in looked[e] : Lines(o) \cap listed \subseteq listed'
<1>o. UNCHANGED <<status, cart>>
    BY EditLeavesOrders DEF checkoutVars
<1>l. \A o : Lines(o)' = Lines(o) /\ Exists(o)' = Exists(o)
    BY <1>o DEF Lines, Exists
<1>t. /\ epc \in [Edits -> EditSteps] /\ snap \in [Edits -> Snapshots]
      /\ patch \in [Edits -> Patches] /\ edited \in [Edits -> Products \cup {None}]
      /\ sold \in [Edits -> SUBSET Variants] /\ looked \in [Edits -> SUBSET Checkouts]
      /\ listed \subseteq Variants
    BY DEF AllTyped, EditTyped, StepTyped, TypeOK
<1>1. CASE ReadForEdit(e) \/ ReadForSwitch(e) \/ ReadToRemove(e)
  <2>1. UNCHANGED <<listed, looked>> /\ snap' = [snap EXCEPT ![e] = Snapshot]
    BY <1>1 DEF ReadForEdit, ReadForSwitch, ReadToRemove, ReadProduct, vars, documents
  <2>2. snap'[e].listed = listed
    BY <1>t, <2>1 DEF Snapshot
  <2>3. epc'[e] # "deleting" /\ ~(epc'[e] = "saving" /\ patch'[e].lists)
    <3>1. CASE ReadForEdit(e)
      BY <1>t, <3>1 DEF ReadForEdit
    <3>2. CASE ReadForSwitch(e)
      BY <1>t, <3>2 DEF ReadForSwitch
    <3>3. CASE ReadToRemove(e)
      BY <1>t, <3>3 DEF ReadToRemove
    <3> QED
      BY <1>1, <3>1, <3>2, <3>3
  <2> QED
    BY <2>1, <2>2, <2>3, <1>l DEF SeenInv
<1>2. CASE CheckSold(e)
  <2>1. /\ epc[e] = "checking" /\ UNCHANGED <<listed, snap, patch, edited>>
        /\ sold'[e] = SoldIn(Mine(e) \cap snap[e].listed)
        /\ looked'[e] = {o \in Checkouts : Exists(o)}
        /\ epc'[e] \in {"saving", "refused"}
    BY <1>2, <1>t DEF CheckSold, vars, documents, catalogue
  <2>2. snap[e].listed = listed /\ Mine(e)' = Mine(e)
    BY <2>1 DEF SeenInv, Mine
  <2>3. \A o \in looked'[e] : Lines(o) \cap Mine(e) \cap listed \subseteq sold'[e]
    BY <2>1, <2>2 DEF SoldIn, Mine
  <2> QED
    BY <2>1, <2>2, <2>3, <1>l DEF SeenInv
<1>3. CASE CountOrders(e)
  <2>1. /\ epc[e] = "counting" /\ UNCHANGED <<listed, snap, patch, edited>>
        /\ looked'[e] = {o \in Checkouts : Exists(o)}
        /\ epc'[e] = IF SoldIn(Mine(e) \cap snap[e].listed) = {} THEN "deleting" ELSE "refused"
    BY <1>3, <1>t DEF CountOrders, vars, documents, catalogue
  <2>2. snap[e].listed = listed /\ Mine(e)' = Mine(e)
    BY <2>1 DEF SeenInv, Mine
  <2>3. epc'[e] = "deleting" => \A o \in looked'[e] : Lines(o) \cap Mine(e) \cap listed = {}
    BY <2>1, <2>2 DEF SoldIn
  <2> QED
    BY <2>1, <2>2, <2>3, <1>l DEF SeenInv
<1>4. CASE SaveEdit(e)
  <2>1. epc[e] = "saving" /\ epc'[e] = "done" /\ looked' = looked
    BY <1>4, <1>t DEF SaveEdit
  <2>2. ASSUME NEW o \in looked[e] PROVE Lines(o) \cap listed \subseteq listed'
    <3>1. CASE listed' = listed
      BY <3>1
    <3>2. CASE patch[e].lists /\ WriteVariants(e)
      <4>1. Lines(o) \cap Mine(e) \cap listed \subseteq sold[e]
        BY <2>1, <3>2 DEF SeenInv
      <4>2. listed' = (listed \ Mine(e)) \cup Kept(e) /\ sold[e] \subseteq Kept(e)
        BY <3>2 DEF WriteVariants, Kept, Retired
      <4> QED
        BY <4>1, <4>2
    <3> QED
      BY <1>4, <3>1, <3>2 DEF SaveEdit
  <2> QED
    BY <2>1, <2>2, <1>l DEF SeenInv
<1>5. CASE SaveEditFails(e)
  <2>1. epc'[e] \in {"notFound", "invalid"} /\ UNCHANGED <<listed, looked>>
    BY <1>5, <1>t DEF SaveEditFails, vars, documents, catalogue
  <2> QED
    BY <2>1, <1>l DEF SeenInv
<1>6. CASE DeleteProduct(e)
  <2>1. /\ epc[e] = "deleting" /\ epc'[e] = "done" /\ looked' = looked
        /\ listed' = listed \ Mine(e)
    BY <1>6, <1>t DEF DeleteProduct
  <2>2. \A o \in looked[e] : Lines(o) \cap Mine(e) \cap listed = {}
    BY <2>1 DEF SeenInv
  <2> QED
    BY <2>1, <2>2, <1>l DEF SeenInv
<1> QED
    BY <1>1, <1>2, <1>3, <1>4, <1>5, <1>6 DEF EditStep

\* A step of an edit moves no other edit.
LEMMA EditMovesOnlyItself ==
    ASSUME AllTyped, NEW e \in Edits, NEW o \in Edits, o # e, EditStep(e)
    PROVE  /\ epc'[o] = epc[o] /\ snap'[o] = snap[o] /\ patch'[o] = patch[o]
           /\ edited'[o] = edited[o] /\ sold'[o] = sold[o] /\ looked'[o] = looked[o]
<1>t. /\ epc \in [Edits -> EditSteps] /\ snap \in [Edits -> Snapshots]
      /\ patch \in [Edits -> Patches] /\ edited \in [Edits -> Products \cup {None}]
      /\ sold \in [Edits -> SUBSET Variants] /\ looked \in [Edits -> SUBSET Checkouts]
    BY DEF AllTyped, EditTyped
<1>1. CASE ReadForEdit(e) \/ ReadForSwitch(e) \/ ReadToRemove(e)
    BY <1>t, <1>1 DEF ReadForEdit, ReadForSwitch, ReadToRemove, ReadProduct
<1>2. CASE CheckSold(e) \/ CountOrders(e)
    BY <1>t, <1>2 DEF CheckSold, CountOrders
<1>3. CASE SaveEdit(e) \/ SaveEditFails(e) \/ DeleteProduct(e)
    BY <1>t, <1>3 DEF SaveEdit, SaveEditFails, DeleteProduct
<1> QED
    BY <1>1, <1>2, <1>3 DEF EditStep

\* Nor does it disturb what another edit knows, one that is not under way itself
\* whenever this one writes.
LEMMA OtherSeen ==
    ASSUME AllTyped, OneAtATime, NEW e \in Edits, NEW o \in Edits, o # e,
           SeenInv(o), EditStep(e)
    PROVE  SeenInv(o)'
<1>o. UNCHANGED <<status, cart>>
    BY EditLeavesOrders DEF checkoutVars
<1>l. \A c : Lines(c)' = Lines(c) /\ Exists(c)' = Exists(c)
    BY <1>o DEF Lines, Exists
<1>s. /\ epc'[o] = epc[o] /\ snap'[o] = snap[o] /\ patch'[o] = patch[o]
      /\ edited'[o] = edited[o] /\ sold'[o] = sold[o] /\ looked'[o] = looked[o]
    BY EditMovesOnlyItself
<1>m. Mine(o)' = Mine(o)
    BY <1>s DEF Mine
<1>1. CASE listed' = listed
    BY <1>l, <1>s, <1>m, <1>1 DEF SeenInv
<1>2. CASE listed' # listed
  <2>1. epc[e] \in {"saving", "deleting"}
    BY <1>2 DEF EditStep, ReadForEdit, ReadForSwitch, ReadToRemove, ReadProduct, CheckSold,
                CountOrders, SaveEdit, SaveEditFails, DeleteProduct, vars, documents, catalogue
  <2>2. epc[o] \notin {"checking", "saving", "counting", "deleting"}
    BY <2>1 DEF OneAtATime, UnderWay
  <2> QED
    BY <1>l, <1>s, <2>2 DEF SeenInv
<1> QED
    BY <1>1, <1>2

\* While the panel makes its edits one at a time (any number of them, the next
\* read only after the last is saved, refused or failed), none of them takes
\* from the catalogue a variant of an order that existed when it asked, with any
\* number of checkouts and cancellations around it.  Edits that overlap can:
\* one writes a variant back that another has dropped, and a third, which read
\* in between, leaves it out unasked.
THEOREM EditsOneByOneKeepSeenVariants ==
    ASSUME NoLostAnswer
    PROVE  CatalogSpec /\ []OneAtATime => OrdersSeenKeepTheirVariants
<1> DEFINE Inv == Accounts /\ \A e \in Edits : SeenInv(e)
<1>1. CatalogSpec => []AllTyped
    BY CatalogInitTyped, CatalogNextTyped, PTL DEF CatalogSpec
<1>2. CatalogInit => Inv
  <2> SUFFICES ASSUME CatalogInit PROVE Inv
    OBVIOUS
  <2>1. Accounts
    BY InitIInv DEF CatalogInit, IInv
  <2> QED
    BY <2>1 DEF CatalogInit, SeenInv
<1>3. AllTyped /\ OneAtATime /\ Inv /\ [CatalogNext]_catalogVars => Inv'
  <2> SUFFICES ASSUME AllTyped, OneAtATime, Inv, [CatalogNext]_catalogVars PROVE Inv'
    OBVIOUS
  <2>1. Accounts'
    BY CatalogNextAccounts
  <2>2. ASSUME NEW o \in Edits PROVE SeenInv(o)'
    <3>1. CASE [Next]_vars /\ UNCHANGED editVars
      BY <3>1, NextSeen
    <3>2. ASSUME NEW e \in Edits, EditStep(e) PROVE SeenInv(o)'
      <4>1. CASE e = o
        BY <3>2, <4>1, EditSeen
      <4>2. CASE e # o
        BY <3>2, <4>2, OtherSeen
      <4> QED
        BY <4>1, <4>2
    <3> QED
      BY <3>1, <3>2 DEF CatalogNext, catalogVars
  <2> QED
    BY <2>1, <2>2
<1>4. AllTyped /\ Inv /\ [CatalogNext]_catalogVars =>
        [\A e \in Edits : epc'[e] # epc[e] =>
            \A o \in looked[e] : Lines(o) \cap listed \subseteq listed']_catalogVars
  <2> SUFFICES ASSUME AllTyped, Inv, CatalogNext, NEW e \in Edits, epc'[e] # epc[e]
               PROVE  \A o \in looked[e] : Lines(o) \cap listed \subseteq listed'
    OBVIOUS
  <2>1. PICK m \in Edits : EditStep(m)
    BY DEF CatalogNext, editVars
  <2>2. e = m
    BY <2>1, EditMovesOnlyItself
  <2> QED
    BY <2>1, <2>2, EditSeen
<1> QED
    BY <1>1, <1>2, <1>3, <1>4, PTL DEF CatalogSpec, OrdersSeenKeepTheirVariants
=============================================================================
