----------------------------- MODULE MCCatalog -----------------------------
(* Catalog on small instances: one product with two variants.              *)
EXTENDS Catalog, TLC

CONSTANTS v1, v2

Shelf == (v1 :> 1) @@ (v2 :> 1)
OneProduct == (v1 :> "p") @@ (v2 :> "p")
Nothing == [v \in {} |-> 0]
Body(lists, keeps) ==
    [lists |-> lists, keeps |-> keeps, stock |-> Nothing, backorder |-> Nothing,
     active |-> Nothing, shown |-> "same"]

\* Prices only; one variant dropped; a stock typed and the flags turned; the
\* product switched off.
Bodies ==
    { Body(TRUE, {v1, v2}),
      Body(TRUE, {v2}),
      [Body(TRUE, {v1, v2}) EXCEPT !.stock = v1 :> 2, !.backorder = v2 :> TRUE],
      [Body(TRUE, {v1, v2}) EXCEPT !.backorder = (v1 :> FALSE) @@ (v2 :> FALSE),
                                   !.active = v1 :> FALSE],
      [Body(FALSE, {}) EXCEPT !.shown = "off"],
      [Body(FALSE, {}) EXCEPT !.shown = "on"] }
Symmetric == Permutations(Checkouts) \cup Permutations(Requests) \cup Permutations(Edits)
=============================================================================
