----------------------------- MODULE Storefront -----------------------------
(***************************************************************************)
(* The bag of one browser and the checkout that turns it into an order     *)
(* (frontend/src/features/cart, features/checkout, pages/checkout), with   *)
(* the server it asks (POST /cart/quote, POST /orders).                    *)
(*                                                                         *)
(* The bag lives in the browser.  When its customer signs out it is put    *)
(* away under her name, and joined with the bag of the next visit when she *)
(* signs in.  The checkout page shows a quote, sends the order with the    *)
(* total it showed, and empties the bag when the answer comes.  An answer  *)
(* is waited for by nobody else: the customer may edit the bag, sign out   *)
(* or leave the page meanwhile, and come back.                             *)
(*                                                                         *)
(* The take of the stock is one step here: Orders has its interleavings.   *)
(* Left out: the choice of instalments, the address and the contact, the   *)
(* tab that opens WhatsApp, the list of placed orders, the price notice,   *)
(* other tabs of the same browser.                                         *)
(***************************************************************************)
EXTENDS Pricing, FiniteSets

CONSTANTS
    Items, Customers,
    Ways,            \* the delivery and payment a customer may choose
    FirstCatalog, Rules, StoreMinimum,
    FirstLines,         \* the bag the browser kept
    FirstStash,         \* the ones put away in it
    Deals,              \* what the shop may change: an item, its price, if it is sold
    Requests,           \* the orders sent, as numbers: 1..n
    MAX_LINE_QUANTITY, MAX_CART_LINES,
    MaxPicks,           \* changes of the bag by hand
    MaxVisits,          \* times the checkout is opened
    MaxLogins, MaxShopChanges,
    Faulty,             \* requests and answers may be lost
    None

ASSUME CapsArePositive == MAX_LINE_QUANTITY \in Nat \ {0} /\ MAX_CART_LINES \in Nat \ {0}

\* What the browser kept was sanitized: whole quantities within the cap.
Bags == [Items -> 0..MAX_LINE_QUANTITY]
ASSUME KeptFits ==
    /\ IsFiniteSet(Items) /\ IsFiniteSet(Customers) /\ None \notin Customers
    /\ FirstLines \in Bags /\ FirstStash \in [Customers -> Bags]

ASSUME RequestsAreNumbers == IsFiniteSet(Requests) /\ Requests \subseteq Nat \ {0}
ASSUME BoundsAreNatural == {MaxPicks, MaxVisits, MaxLogins, MaxShopChanges} \subseteq Nat

\* Prices and fees are whole cents, discounts whole percents.
Sold == [product : {FirstCatalog[i].product : i \in Items},
         categories : {FirstCatalog[i].categories : i \in Items},
         price : Nat, stock : Int, active : BOOLEAN, backorder : BOOLEAN]
Minimums == Nat \cup {NoMinimum}
Offers == [city : [pickup : BOOLEAN, fee : Nat, least : Minimums], pix : 0..100]
ASSUME ShopFits ==
    /\ FirstCatalog \in [Items -> Sold] /\ StoreMinimum \in Minimums
    /\ \A r \in Rules : r.min \in Nat /\ r.off \in 0..100
    /\ \A d \in Deals : d.item \in Items /\ d.price \in Nat /\ d.active \in BOOLEAN
    /\ Ways \subseteq Offers /\ None \notin Ways

VARIABLES
    catalog,            \* what the server sells
    lines, stash, user, \* the bag, the ones put away, who is signed in
    choice,             \* the delivery and payment chosen, None before that
    page,               \* the visit of the checkout that is on the screen, 0 if none
    settled,            \* the lines 400 ms after the last change
    shown,              \* the total on the screen, which may be of older lines
    sent,               \* the requests: body, visit, and how far each one is
    inFlight,           \* the guard against the second click
    last,               \* the request a retry repeats, 0 when there is none
    conflict,           \* the 409 waiting for a decision
    submitted,          \* the total the modal calls "the one you saw"
    picks, visits, logins, changes,     \* how many are left
    (***********************************************************************)
    (* History variables: no line of the code keeps them.                  *)
    (***********************************************************************)
    wanted,     \* units picked and not put back by hand
    bought,     \* units of the orders whose answer arrived
    disturbed,  \* the bag is not the one of a request under way
    harmed,     \* an answer came to such a bag, or a limit cut a joined one
    missed      \* the page did not see the end of one of its orders: the answer was
                \* lost, or the page left with a request under way

bagVars == <<lines, stash, user, picks, logins, wanted>>
pageVars == <<choice, page, settled, shown, visits>>
orderVars == <<sent, inFlight, last, conflict, submitted, bought>>
vars == <<catalog, changes, bagVars, pageVars, orderVars, disturbed, harmed, missed>>

NoLines == [i \in Items |-> 0]
DefaultChoice == [city |-> [pickup |-> TRUE, fee |-> 0, least |-> NoMinimum], pix |-> 0]

PutAway(i) == Total([c \in Customers |-> stash[c][i]])

CapQuantity(n) == IF n > MAX_LINE_QUANTITY THEN MAX_LINE_QUANTITY ELSE n

\* The stored bag is the base and keeps all its lines; of the others as many as
\* the limit leaves room for.
MergeCartLines(base, incoming) ==
    LET joined == [i \in Items |-> CapQuantity(base[i] + incoming[i])]
        room == MAX_CART_LINES - Cardinality(LinesOf(base))
    IN  {[i \in Items |-> IF i \in LinesOf(base) \cup kept THEN joined[i] ELSE 0] :
            kept \in {k \in SUBSET (LinesOf(incoming) \ LinesOf(base)) :
                \/ k = LinesOf(incoming) \ LinesOf(base) /\ Cardinality(k) <= room
                \/ Cardinality(k) = room}}

QuoteOf(bag, chosen) ==
    Quote(bag, IF chosen = None THEN DefaultChoice ELSE chosen, catalog, Rules, StoreMinimum)

\* How far a request is: on its way, answered by the server, over.
UnderWay == {r \in Requests : sent[r].at \in {"server", "created", "conflict", "refused"}}
Made == {r \in Requests : sent[r].made}

Unused == [at |-> "unused", lines |-> NoLines, choice |-> None, expected |-> 0,
           visit |-> 0, seen |-> 0, made |-> FALSE, total |-> 0, gone |-> {}, reason |-> None]

Init ==
    /\ catalog = FirstCatalog
    /\ lines = FirstLines /\ stash = FirstStash /\ user = None
    /\ choice = None /\ page = 0
    /\ settled = NoLines /\ shown = None
    /\ sent = [r \in Requests |-> Unused]
    /\ inFlight = FALSE /\ last = 0 /\ conflict = None /\ submitted = 0
    /\ picks = MaxPicks /\ visits = MaxVisits /\ logins = MaxLogins
    /\ changes = MaxShopChanges
    /\ wanted = [i \in Items |-> lines[i] + PutAway(i)] /\ bought = NoLines
    /\ disturbed = FALSE /\ harmed = FALSE /\ missed = FALSE

-----------------------------------------------------------------------------
(***************************************************************************)
(* The bag.                                                                *)
(***************************************************************************)
\* What a change of the bag does to the screens: the quote is asked again once
\* the lines settle, and an empty bag has no checkout.
Leave ==
    /\ page' = 0
    /\ settled' = NoLines /\ shown' = None
    /\ inFlight' = FALSE /\ last' = 0 /\ conflict' = None /\ submitted' = 0

StayOrLeave ==
    IF page # 0 /\ LinesOf(lines') = {}
    THEN Leave
    ELSE UNCHANGED <<page, settled, shown, inFlight, last, conflict, submitted>>

Disturb == disturbed' = (disturbed \/ (UnderWay # {} /\ lines' # lines))

AddLine(i) ==
    /\ picks > 0 /\ conflict = None
    /\ lines[i] > 0 \/ Cardinality(LinesOf(lines)) < MAX_CART_LINES
    /\ lines' = [lines EXCEPT ![i] = CapQuantity(@ + 1)]
    /\ lines' # lines
    /\ wanted' = [wanted EXCEPT ![i] = @ + 1]
    /\ picks' = picks - 1
    /\ Disturb
    /\ UNCHANGED <<catalog, changes, stash, user, logins, pageVars, orderVars, harmed, missed>>

\* Zero removes the line.
SetQuantity(i, n) ==
    /\ picks > 0 /\ conflict = None
    /\ lines[i] > 0 /\ n # lines[i]
    /\ lines' = [lines EXCEPT ![i] = IF n <= 0 THEN 0 ELSE CapQuantity(n)]
    /\ wanted' = [wanted EXCEPT ![i] = @ + lines'[i] - lines[i]]
    /\ picks' = picks - 1
    /\ Disturb
    /\ StayOrLeave
    /\ missed' = (missed \/ (page # page' /\ UnderWay # {}))
    /\ UNCHANGED <<catalog, changes, stash, user, logins, choice, visits, sent, bought, harmed>>

(***************************************************************************)
(* watchCustomerCart.                                                      *)
(***************************************************************************)
\* A bag that stays put away after it was joined.
StashKept(c) == stash

StashCleared(c) == [stash EXCEPT ![c] = NoLines]

Cut(base, incoming) ==
    \/ \E i \in Items : base[i] + incoming[i] > MAX_LINE_QUANTITY
    \/ Cardinality(LinesOf(base) \cup LinesOf(incoming)) > MAX_CART_LINES

Login(c) ==
    /\ user = None /\ logins > 0
    /\ user' = c
    /\ lines' \in MergeCartLines(stash[c], lines)
    /\ stash' = StashCleared(c)
    /\ harmed' = (harmed \/ Cut(stash[c], lines))
    /\ logins' = logins - 1
    /\ Disturb
    /\ UNCHANGED <<catalog, changes, picks, wanted, pageVars, orderVars, missed>>

\* By hand, or by the HTTP client when the session could not be renewed.
Logout ==
    /\ user # None
    /\ user' = None
    /\ stash' = [stash EXCEPT ![user] = lines]
    /\ lines' = NoLines
    /\ Disturb
    /\ StayOrLeave
    /\ missed' = (missed \/ UnderWay # {})
    /\ UNCHANGED <<catalog, changes, picks, logins, wanted, choice, visits, sent, bought, harmed>>

-----------------------------------------------------------------------------
(***************************************************************************)
(* The checkout page and its quote.                                        *)
(***************************************************************************)
OpenCheckout ==
    /\ page = 0 /\ visits > 0 /\ LinesOf(lines) # {}
    /\ page' = MaxVisits - visits + 1
    /\ visits' = visits - 1
    /\ settled' = lines
    /\ shown' = None
    /\ inFlight' = FALSE /\ last' = 0 /\ conflict' = None /\ submitted' = 0
    /\ UNCHANGED <<catalog, changes, bagVars, choice, sent, bought, disturbed, harmed, missed>>

LeaveCheckout ==
    /\ page # 0
    /\ Leave
    /\ missed' = (missed \/ UnderWay # {})
    /\ UNCHANGED <<catalog, changes, bagVars, choice, visits, sent, bought, disturbed, harmed>>

\* The steps before the review, and the "change" of each block of it.
Choose(c) ==
    /\ page # 0 /\ choice # c /\ conflict = None
    /\ choice' = c
    /\ UNCHANGED <<catalog, changes, bagVars, page, settled, shown, visits, orderVars, disturbed,
                   harmed, missed>>

LinesSettle ==
    /\ page # 0 /\ settled # lines
    /\ settled' = lines
    /\ UNCHANGED <<catalog, changes, bagVars, choice, page, shown, visits, orderVars, disturbed,
                   harmed, missed>>

\* The older quote stays on the screen until this one comes.
QuoteArrives ==
    /\ page # 0 /\ LinesOf(settled) # {}
    /\ shown' = QuoteOf(settled, choice).total
    /\ UNCHANGED <<catalog, changes, bagVars, choice, page, settled, visits, orderVars, disturbed,
                   harmed, missed>>

-----------------------------------------------------------------------------
(***************************************************************************)
(* useCreateOrder.                                                         *)
(***************************************************************************)
IsNext(r) ==
    /\ sent[r].at = "unused"
    /\ \A o \in Requests : sent[o].at = "unused" => r <= o

\* What is sent: the body, and what the customer had before her eyes.
Body(bag, chosen, total, eyes) ==
    [Unused EXCEPT !.at = "server", !.lines = bag, !.choice = chosen, !.expected = total,
                   !.visit = page, !.seen = eyes]

\* A click that does not ask whether another is being answered.
SendAgain(r, body) ==
    /\ IsNext(r)
    /\ inFlight' = TRUE
    /\ last' = r
    /\ sent' = [sent EXCEPT ![r] = body]
    /\ disturbed' = (body.lines # lines \/ (disturbed /\ UnderWay # {}))

Send(r, body) ==
    /\ IsNext(r)
    /\ ~inFlight
    /\ inFlight' = TRUE
    /\ last' = r
    /\ sent' = [sent EXCEPT ![r] = body]
    /\ disturbed' = (body.lines # lines \/ (disturbed /\ UnderWay # {}))

\* The button at the end of the review.  Neither the running quote nor the
\* unsettled lines hold it back.
Finish(r) ==
    /\ page # 0 /\ choice # None /\ conflict = None
    /\ shown # None /\ LinesOf(settled) # {}
    /\ Send(r, Body(settled, choice, shown, shown))
    /\ submitted' = shown
    /\ UNCHANGED <<catalog, changes, bagVars, pageVars, conflict, bought, harmed, missed>>

AcceptConflict(r) ==
    /\ page # 0 /\ conflict # None /\ conflict.reason = "total"
    /\ Send(r, Body(sent[last].lines, sent[last].choice, conflict.total, conflict.total))
    /\ conflict' = None
    /\ UNCHANGED <<catalog, changes, bagVars, pageVars, submitted, bought, harmed, missed>>

DismissConflict ==
    /\ page # 0 /\ conflict # None
    /\ conflict' = None
    /\ UNCHANGED <<catalog, changes, bagVars, pageVars, sent, inFlight, last, submitted, bought,
                   disturbed, harmed, missed>>

\* Exactly the lines the server marked.
RemoveUnavailable ==
    /\ page # 0 /\ conflict # None /\ conflict.reason = "items"
    /\ lines' = [i \in Items |-> IF i \in conflict.gone THEN 0 ELSE lines[i]]
    /\ wanted' = [i \in Items |-> wanted[i] + lines'[i] - lines[i]]
    /\ IF LinesOf(lines') = {}
       THEN Leave
       ELSE /\ conflict' = None
            /\ UNCHANGED <<page, settled, shown, inFlight, last, submitted>>
    /\ Disturb
    /\ UNCHANGED <<catalog, changes, stash, user, picks, logins, choice, visits, sent, bought,
                   harmed, missed>>

\* The same body, byte for byte, after a failure that was no conflict.
Retry(r) ==
    /\ page # 0 /\ last # 0 /\ sent[last].at = "failed"
    /\ Send(r, Body(sent[last].lines, sent[last].choice, sent[last].expected, sent[last].seen))
    /\ UNCHANGED <<catalog, changes, bagVars, pageVars, conflict, submitted, bought, harmed, missed>>

-----------------------------------------------------------------------------
(***************************************************************************)
(* The server (OrdersService.create) and its answers.                      *)
(***************************************************************************)
\* A server that takes whatever total the screen had.
TotalTrusted(r, quote) == TRUE

TotalHolds(r, quote) == quote.total = sent[r].expected

\* The stock of what is sold to order may go below zero.
Taken(bag) == [i \in Items |-> [catalog[i] EXCEPT !.stock = @ - bag[i]]]

Receive(r) ==
    /\ sent[r].at = "server"
    /\ LET quote == QuoteOf(sent[r].lines, sent[r].choice)
           reason == IF quote.gone # {} THEN "items" ELSE "total"
       IN  IF quote.gone = {} /\ TotalHolds(r, quote)
           THEN /\ sent' = [sent EXCEPT ![r].at = "created", ![r].made = TRUE,
                                        ![r].total = quote.total]
                /\ catalog' = Taken(sent[r].lines)
           ELSE /\ sent' = [sent EXCEPT ![r].at = "conflict", ![r].reason = reason,
                                        ![r].total = quote.total, ![r].gone = quote.gone]
                /\ UNCHANGED catalog
    /\ UNCHANGED <<changes, bagVars, pageVars, inFlight, last, conflict, submitted, bought,
                   disturbed, harmed, missed>>

\* The request does not arrive, or the answer to an order that was made does not.
GoesWrong(r) ==
    /\ Faulty
    /\ sent[r].at \in {"server", "created"}
    /\ sent' = [sent EXCEPT ![r].at = "refused"]
    /\ missed' = (missed \/ sent[r].at = "created")
    /\ UNCHANGED <<catalog, changes, bagVars, pageVars, inFlight, last, conflict, submitted,
                   bought, disturbed, harmed>>

\* What a page still needs of a request that was answered: the body, to repeat it.
Answered(r) ==
    [sent[r] EXCEPT !.at = "done", !.visit = 0, !.reason = None, !.gone = {},
                    !.total = IF sent[r].made THEN @ ELSE 0]

\* The order exists: the bag is emptied, the checkout starts over, and the page
\* of the order opens, wherever the customer is by now.
AnswerCreated(r) ==
    /\ sent[r].at = "created"
    /\ sent' = [sent EXCEPT ![r] = Answered(r)]
    /\ lines' = NoLines
    /\ choice' = None
    /\ Leave
    /\ bought' = [i \in Items |-> bought[i] + sent[r].lines[i]]
    /\ harmed' = (harmed \/ disturbed)
    /\ disturbed' = (UnderWay \ {r} # {})
    /\ UNCHANGED <<catalog, changes, stash, user, picks, logins, wanted, visits, missed>>

\* The other answers reach the page that asked, if it is still there.
AnswerRefused(r) ==
    /\ sent[r].at \in {"conflict", "refused"}
    /\ sent' = [sent EXCEPT ![r] = [Answered(r) EXCEPT
                    !.at = IF sent[r].at = "conflict" THEN "done" ELSE "failed"]]
    /\ IF sent[r].visit = page
       THEN /\ inFlight' = FALSE
            /\ conflict' = IF sent[r].at = "refused" THEN conflict
                           ELSE [reason |-> sent[r].reason, total |-> sent[r].total,
                                 gone |-> sent[r].gone]
       ELSE UNCHANGED <<inFlight, conflict>>
    /\ UNCHANGED <<catalog, changes, bagVars, pageVars, last, submitted, bought, disturbed,
                   harmed, missed>>

\* A price is changed, or an item leaves the shop.
ShopChanges ==
    /\ changes > 0
    /\ changes' = changes - 1
    /\ \E d \in Deals :
        catalog' = [catalog EXCEPT ![d.item].price = d.price, ![d.item].active = d.active]
    /\ catalog' # catalog
    /\ UNCHANGED <<bagVars, pageVars, orderVars, disturbed, harmed, missed>>

-----------------------------------------------------------------------------
Bag ==
    \/ \E i \in Items : AddLine(i) \/ \E n \in 0..MAX_LINE_QUANTITY : SetQuantity(i, n)
    \/ \E c \in Customers : Login(c)
    \/ Logout

Checkout ==
    \/ OpenCheckout \/ LeaveCheckout
    \/ \E c \in Ways : Choose(c)
    \/ LinesSettle \/ QuoteArrives
    \/ \E r \in Requests : Finish(r) \/ AcceptConflict(r) \/ Retry(r)
    \/ DismissConflict \/ RemoveUnavailable

Server ==
    \/ \E r \in Requests : Receive(r) \/ GoesWrong(r) \/ AnswerCreated(r) \/ AnswerRefused(r)
    \/ ShopChanges

Next == Bag \/ Checkout \/ Server

Spec == Init /\ [][Next]_vars

-----------------------------------------------------------------------------
(***************************************************************************)
(* Properties.                                                             *)
(***************************************************************************)
\* Every unit that was picked is in the bag, put away under one name, or in an
\* order: signing in and out, buying and coming back neither double nor lose it
\* (cart-session.ts), while the bag is left alone between the click and the
\* answer and no limit is reached.
UnitsAreKept ==
    ~harmed => \A i \in Items : lines[i] + PutAway(i) + bought[i] = wanted[i]

\* The orders have no more units than were picked: two clicks, a conflict that is
\* accepted, a retry make one order of a bag, as long as no answer is lost and
\* nobody leaves the page before it comes (useCreateOrder).
NothingOrderedTwice ==
    ~missed /\ ~harmed /\ ~disturbed =>
        \A i \in Items : Total([r \in Made |-> sent[r].lines[i]]) <= wanted[i]

\* An order costs what the customer had before her eyes when she confirmed it,
\* though the quote on the screen may be of older lines or of older prices.
ChargedWhatWasSeen == \A r \in Made : sent[r].total = sent[r].seen

\* The best of the rules that count for so many units, by its definition.
BestOff(i, units) ==
    LET offs == {r.off : r \in {o \in RulesFor(i, catalog, Rules) : o.min <= units}} \cup {0}
    IN  CHOOSE o \in offs : \A p \in offs : p <= o

\* Whatever is in the bag and in the shop: a line that fell out weighs on no other
\* line, not even by its units; each line has the best single rule for the units
\* of its product; and "so much is missing" is exactly what is missing.
PricesHold ==
    \A c \in Ways :
        LET quote == QuoteOf(lines, c)
            without == [i \in Items |-> IF i \in quote.gone THEN 0 ELSE lines[i]]
            delivery(goods) == DeliveryFee(c.city, goods, StoreMinimum)
        IN  /\ quote = [QuoteOf(without, c) EXCEPT !.gone = quote.gone]
            /\ \A i \in LinesOf(without) :
                 LET units == Total([o \in {l \in Items : catalog[l].product = catalog[i].product}
                                        |-> without[o]])
                     gross == catalog[i].price * lines[i]
                 IN  LineTotal(i, lines, catalog, Rules)
                        = gross - Rounded(gross * BestOff(i, units), 100)
            /\ quote.delivery.missing > 0 =>
                 /\ delivery(quote.goods + quote.delivery.missing).fee = 0
                 /\ delivery(quote.goods + quote.delivery.missing - 1).fee = c.city.fee

\* The first of the same without its escapes.  It breaks: the answer empties the
\* bag as it is by then, with what was added after the click, and the bag put away
\* at a sign-out keeps the lines that the order has.
PickedIsNeverLost ==
    \A i \in Items : lines[i] + PutAway(i) + bought[i] = wanted[i]

\* The second without its escapes.  It breaks: a retry after a lost answer, or a
\* second visit of the page while the first one's order is under way.
OneOrderPerBag ==
    \A i \in Items : Total([r \in Made |-> sent[r].lines[i]]) <= wanted[i]

\* "Os itens, a entrega e o pagamento saem do mesmo input que gerou a cotação"
\* (checkout-page.tsx).  It breaks: the total is of the quote on the screen, which
\* may be of the lines or of the choice before (in a shop where no price changes).
OrderIsOfTheQuote == [][\A r \in Requests : Finish(r) => shown = QuoteOf(settled, choice).total]_vars

\* "O modal compara o que o cliente viu com o que o servidor calculou": it breaks
\* at the second conflict in a row, which is compared with the first total.
ModalComparesWhatWasSeen == conflict # None => submitted = sent[last].seen
=============================================================================
