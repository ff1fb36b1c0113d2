---------------------------- MODULE Installments ----------------------------
(***************************************************************************)
(* What a card purchase costs in instalments                               *)
(* (backend/src/modules/payments/installments.ts, and its copy in          *)
(* frontend/src/features/payments/installments.ts).                        *)
(*                                                                         *)
(* Money is in whole cents and a fee in hundredths of a percent: 16,66% is *)
(* 1666.  A table of fees is a function on the numbers of instalments it   *)
(* has a line for, so that "no fee for 11x" and "no charge in 11x" differ. *)
(* The one division the code does in floating point, the gross-up, is done *)
(* here exactly.                                                           *)
(***************************************************************************)
EXTENDS Integers

Least(a, b) == IF a <= b THEN a ELSE b

\* The whole of 100%, in hundredths of a percent.
Whole == 10000

\* Math.round(a / b) of a natural a and a positive b: halves go up.
Rounded(a, b) == (2 * a + b) \div (2 * b)

\* The fee put on top of the price instead of under it.
GrossUpByAdding(net, fee) == Rounded(net * (Whole + fee), Whole)

\* What is charged for the store to be left with net.
GrossUp(net, fee) ==
    IF fee <= 0 \/ fee >= Whole THEN net ELSE Rounded(net * Whole, Whole - fee)

\* What is left of a charge once the fee is taken.
NetOf(charged, fee) ==
    IF fee <= 0 \/ fee >= Whole THEN charged ELSE Rounded(charged * (Whole - fee), Whole)

-----------------------------------------------------------------------------
\* The rules: the most instalments, how many of them the store absorbs the
\* fee of, the fees, and the least an instalment may be.
HasFee(n, rules) == n <= rules.free \/ n \in DOMAIN rules.fees
FeeOf(n, rules) == IF n <= rules.free THEN 0 ELSE rules.fees[n]
Charged(total, n, rules) == GrossUp(total, FeeOf(n, rules))

\* The first instalment carries the cents the division leaves.
OptionOf(charged, n, interest) ==
    LET each == charged \div n
    IN  [number |-> n, each |-> each, first |-> charged - each * (n - 1),
         total |-> charged, interest |-> interest]

OptionFor(total, n, rules) == OptionOf(Charged(total, n, rules), n, FeeOf(n, rules) > 0)

Offered(total, n, rules) ==
    /\ HasFee(n, rules)
    /\ n > 1 => Charged(total, n, rules) \div n >= rules.least

InstallmentOptions(total, rules) ==
    {OptionFor(total, n, rules) : n \in {i \in 1..rules.max : Offered(total, i, rules)}}

\* The limit of the interest-free without the limit of the purchase.
BestOfTheFree(total, card) ==
    LET counts == {n \in 2..card.free : total \div n >= card.least}
    IN  IF counts = {} THEN 0 ELSE CHOOSE n \in counts : \A i \in counts : i <= n

\* The "up to 3x without interest" of the shop window: the largest number of
\* instalments the store absorbs, 0 when there is none above one.
BestInterestFree(total, card) ==
    LET counts == {n \in 2..Least(card.free, card.max) : total \div n >= card.least}
    IN  IF counts = {} THEN 0 ELSE CHOOSE n \in counts : \A i \in counts : i <= n

-----------------------------------------------------------------------------
\* The discount of a PIX payment: on the goods, never on the delivery.
PixQuote(subtotal, delivery, percent) ==
    LET discount == Rounded(subtotal * percent, 100)
    IN  [discount |-> discount, total |-> subtotal - discount + delivery]
=============================================================================
