------------------------------ MODULE Pricing ------------------------------
(***************************************************************************)
(* What a bag costs: POST /cart/quote as a function                        *)
(* (backend/src/modules/cart/cart-lines.ts, cart-quote.service.ts,         *)
(* products/quantity-discount.ts, delivery/delivery-fee.ts).               *)
(*                                                                         *)
(* A bag is a function from every item (a variant of a product) to the     *)
(* units of it, 0 when it has no line: mergeLines leaves one line per      *)
(* variant.  A catalogue gives each item its product, its price, its stock *)
(* and whether it can be bought; a discount rule names a product or a      *)
(* category.  Names, pictures, labels and warnings are left out.           *)
(***************************************************************************)
EXTENDS Installments, FiniteSetsExt

\* A minimum for free delivery that is not set: null in the code.
NoMinimum == -1

\* The items the bag has a line for.
LinesOf(bag) == {i \in DOMAIN bag : bag[i] > 0}

\* A line is for sale when its product and variant are active and the stock has
\* it, or the variant is sold to order.
ForSale(bag, i, catalog) ==
    /\ catalog[i].active
    /\ catalog[i].backorder \/ catalog[i].stock >= bag[i]

Gone(bag, catalog) == {i \in LinesOf(bag) : ~ForSale(bag, i, catalog)}

\* The sum of a function on a finite set: reduce((sum, x) => sum + f(x), 0).
Total(f) == MapThenSumSet(LAMBDA x : f[x], DOMAIN f)

-----------------------------------------------------------------------------
\* The rules that count for an item, by its product or by a category of it.
RulesFor(i, catalog, rules) ==
    {r \in rules : r.product = catalog[i].product \/ r.category \in catalog[i].categories}

\* The ladder: of the rules with one minimum the best, without the steps that
\* are no better than an earlier one.
LadderOf(i, catalog, rules) ==
    LET applied == RulesFor(i, catalog, rules)
    IN  {[min |-> r.min, off |-> r.off] : r \in
            {b \in applied : /\ b.off > 0
                             /\ \A o \in applied : o.min <= b.min =>
                                    o.off < b.off \/ (o.min = b.min /\ o.off = b.off)}}

\* The last step the quantity reaches.
PercentFor(ladder, quantity) ==
    LET reached == {t \in ladder : t.min <= quantity}
    IN  IF reached = {} THEN 0
        ELSE (CHOOSE t \in reached : \A o \in reached : o.min <= t.min).off

\* Every line of the product, the ones that fell out included.
UnitsOfAllLines(i, bag, catalog) ==
    Total([o \in {l \in LinesOf(bag) : catalog[l].product = catalog[i].product} |-> bag[o]])

\* "Take 3" counts the product: the units of its lines that are for sale.
UnitsOf(i, bag, catalog) ==
    LET sold == LinesOf(bag) \ Gone(bag, catalog)
    IN  Total([o \in {l \in sold : catalog[l].product = catalog[i].product} |-> bag[o]])

LineGross(i, bag, catalog) == catalog[i].price * bag[i]

LineTotal(i, bag, catalog, rules) ==
    LET gross == LineGross(i, bag, catalog)
    IN  gross - Rounded(gross * PercentFor(LadderOf(i, catalog, rules), UnitsOf(i, bag, catalog)), 100)

Subtotal(bag, catalog, rules) ==
    Total([i \in LinesOf(bag) \ Gone(bag, catalog) |-> LineTotal(i, bag, catalog, rules)])

-----------------------------------------------------------------------------
\* A city's own minimum takes the place of the store's, also when the store's
\* is the better one.
FreeFrom(city, store) == IF city.least # NoMinimum THEN city.least ELSE store

\* What the delivery costs, and how much is missing for it to cost nothing.
DeliveryFee(city, subtotal, store) ==
    LET least == FreeFrom(city, store)
    IN  IF city.pickup \/ city.fee = 0 \/ (least # NoMinimum /\ subtotal >= least)
        THEN [fee |-> 0, missing |-> 0]
        ELSE [fee |-> city.fee,
              missing |-> IF least = NoMinimum THEN 0 ELSE least - subtotal]

\* The quote: choice is the delivery and the way of paying.
Quote(bag, choice, catalog, rules, store) ==
    LET goods == Subtotal(bag, catalog, rules)
        delivery == DeliveryFee(choice.city, goods, store)
        pix == PixQuote(goods, delivery.fee, choice.pix)
    IN  [goods |-> goods, delivery |-> delivery, gone |-> Gone(bag, catalog),
         total |-> pix.total]
=============================================================================
