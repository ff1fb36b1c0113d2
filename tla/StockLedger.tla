---------------------------- MODULE StockLedger ----------------------------
(***************************************************************************)
(* What the orders module promises about units, with no checkout steps, no *)
(* panel requests and no database: a shelf and, for each holder, the units *)
(* it keeps.  A holder gathers units while it is "open", owes them to a    *)
(* customer while it is "live", and from "closed" can only hand back, each *)
(* line once, all of its units at a time.                                  *)
(***************************************************************************)
EXTENDS Integers

CONSTANTS Items, Holders, MaxUnits

VARIABLES
    shelf,      \* units of each item on the shelf
    held,       \* units of each item that each holder keeps
    phase,      \* open, live or closed
    unlimited   \* items that sell without stock, decided elsewhere

ledger == <<shelf, held, phase, unlimited>>

LedgerInit ==
    /\ shelf \in [Items -> Nat]
    /\ held = [h \in Holders |-> [i \in Items |-> 0]]
    /\ phase = [h \in Holders |-> "open"]
    /\ unlimited \subseteq Items

\* Units leave the shelf only for a holder that has none of that item yet, and
\* only if the shelf has them or the item sells without stock.
Gather(h, i) ==
    /\ phase[h] = "open"
    /\ held[h][i] = 0
    /\ \E n \in 1..MaxUnits :
        /\ i \in unlimited \/ n <= shelf[i]
        /\ shelf' = [shelf EXCEPT ![i] = @ - n]
        /\ held' = [held EXCEPT ![h][i] = n]
    /\ UNCHANGED <<phase, unlimited>>

Promise(h) ==
    /\ phase[h] = "open"
    /\ phase' = [phase EXCEPT ![h] = "live"]
    /\ UNCHANGED <<shelf, held, unlimited>>

Close(h) ==
    /\ phase[h] \in {"open", "live"}
    /\ phase' = [phase EXCEPT ![h] = "closed"]
    /\ UNCHANGED <<shelf, held, unlimited>>

\* What a closed holder returns is what it took, and then it has none.
HandBack(h, i) ==
    /\ phase[h] = "closed"
    /\ held[h][i] > 0
    /\ shelf' = [shelf EXCEPT ![i] = @ + held[h][i]]
    /\ held' = [held EXCEPT ![h][i] = 0]
    /\ UNCHANGED <<phase, unlimited>>

LedgerNext ==
    \E h \in Holders :
        \/ Promise(h) \/ Close(h)
        \/ \E i \in Items : Gather(h, i) \/ HandBack(h, i)

LedgerSpec == LedgerInit /\ [][LedgerNext]_ledger
=============================================================================
