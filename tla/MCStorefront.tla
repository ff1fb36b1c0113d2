---------------------------- MODULE MCStorefront ----------------------------
(* Storefront on a small instance: two sizes of a perfume with a discount    *)
(* for two units and a better one for three, one of them scarce, and a shop  *)
(* that delivers or is called at.                                            *)
EXTENDS Storefront, TLC

CONSTANTS small, large

Loja ==
    (small :> [product |-> "perfume", categories |-> {"ready"}, price |-> 1995, stock |-> 2,
               active |-> TRUE, backorder |-> FALSE])
    @@ (large :> [product |-> "perfume", categories |-> {"ready"}, price |-> 4990, stock |-> 0,
                  active |-> TRUE, backorder |-> TRUE])

Regras ==
    { [product |-> "perfume", category |-> None, min |-> 2, off |-> 10],
      [product |-> None, category |-> "ready", min |-> 2, off |-> 5],
      [product |-> None, category |-> "ready", min |-> 3, off |-> 15],
      [product |-> "perfume", category |-> None, min |-> 4, off |-> 12] }

Sacola == (small :> 1) @@ (large :> 0)
Vazia == [i \in Items |-> 0]
Guardada == [c \in Customers |-> (small :> 1) @@ (large :> 1)]
Nada == [c \in Customers |-> Vazia]
Mudancas == { [item |-> small, price |-> 2500, active |-> TRUE],
              [item |-> small, price |-> 1995, active |-> FALSE] }
Aumentos == {[item |-> small, price |-> p, active |-> TRUE] : p \in {2500, 2600}}

City == [pickup |-> FALSE, fee |-> 700, least |-> 9000]
Formas == {[city |-> City, pix |-> 5]}
=============================================================================
