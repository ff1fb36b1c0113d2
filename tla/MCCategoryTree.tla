--------------------------- MODULE MCCategoryTree ---------------------------
(* CategoryTree on small instances: two roots and a child of one of them   *)
(* to begin with, five categories in all, four addresses, one product, and *)
(* files of up to three lines.                                             *)
EXTENDS CategoryTree, TLC

CONSTANTS c1, c2, c3, c4, c5, p1, r1, r2

Category(s, p) == [parent |-> p, active |-> TRUE, slug |-> s, old |-> <<>>]
Tree == (c1 :> Category("a", None)) @@ (c2 :> Category("b", None)) @@ (c3 :> Category("c", c2))
Shelf == p1 :> [cats |-> {c1}, active |-> FALSE]

Bodies ==
    { [parent |-> c1, slug |-> "d", name |-> "a", active |-> TRUE],
      [parent |-> None, slug |-> None, name |-> "a", active |-> TRUE] }

\* Moves, changes of address, the switch, and a move with a new address.
Patch(parent, slug, active) == [parent |-> parent, slug |-> slug, active |-> active]
Patches ==
    {Patch(p, Same, Same) : p \in {c1, c2, None}} \cup
    {Patch(Same, s, Same) : s \in {"a", "c", "d"}} \cup
    {Patch(Same, Same, FALSE), Patch(c1, "d", Same)}

\* A child before its root, a root that becomes a child, a child that becomes
\* a root and one that stands under itself, a category given twice, with a
\* child to come, and a file with products alone.
Row(s, p) == [slug |-> s, parent |-> p]
Fill(ss) == [product |-> p1, slugs |-> ss]
Lists ==
    { [categories |-> <<Row("d", "a"), Row("a", None)>>, products |-> <<Fill({"a", "d"})>>],
      [categories |-> <<Row("a", "b"), Row("d", "c")>>, products |-> <<Fill({})>>],
      [categories |-> <<Row("d", "b"), Row("b", "a")>>, products |-> <<Fill({"b"})>>],
      [categories |-> <<Row("c", None), Row("d", "c"), Row("b", "b")>>, products |-> <<Fill({"d"})>>],
      [categories |-> <<Row("d", None), Row("d", "b"), Row("c", "d")>>, products |-> <<>>],
      [categories |-> <<>>, products |-> <<Fill({"a"}), Fill({})>>] }

Names == "a" :> <<"a", "d">>
Symmetric == Permutations(Requests)
=============================================================================
