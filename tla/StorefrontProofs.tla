-------------------------- MODULE StorefrontProofs --------------------------
(***************************************************************************)
(* Proofs about the bag and the checkout, for any catalogue, any discount  *)
(* rules, any number of items, customers, orders and visits, and answers   *)
(* that are lost or come late.                                             *)
(*                                                                         *)
(* The properties add up: units of a bag, lines of an order, cents of a    *)
(* quote.  The first part is what a sum on a finite set is, by the least   *)
(* set a statement about sums would fail on.  The second is the arithmetic *)
(* of a quote (Pricing).  The third is the checkout: what is under way,    *)
(* what was answered, and what each step does to both.                     *)
(***************************************************************************)
EXTENDS Storefront, FiniteSetTheorems, WellFoundedInduction, TLAPS

-----------------------------------------------------------------------------
(***************************************************************************)
(* Sums on a finite set (reduce((sum, x) => sum + f(x), 0)).               *)
(***************************************************************************)
\* The element the fold of the library takes first, the function it builds on
\* the subsets, and the sum.
One(s) == CHOOSE x \in s : TRUE
Adds(g, f, S) ==
    g = [s \in SUBSET S |-> IF s = {} THEN 0 ELSE f[One(s)] + g[s \ {One(s)}]]
SumOn(f, S) == (CHOOSE g : Adds(g, f, S))[S]

(* Total, by which the model adds, is that sum (Total of Pricing).         *)
LEMMA TotalIsSumOn == ASSUME NEW f PROVE Total(f) = SumOn(f, DOMAIN f)
BY DEF Total, MapThenSumSet, MapThenFoldSet, SumOn, Adds, One

(* Among sets within a finite set there is one without a smaller among     *)
(* them: what stands for induction on the terms of a sum.                  *)
LEMMA SmallestSet ==
    ASSUME NEW S, IsFiniteSet(S), NEW T, T \subseteq SUBSET S, T # {}
    PROVE  \E t \in T : \A u \in T : u \subseteq t => u = t
<1>1. T \subseteq FiniteSubsetsOf(S)
  BY FS_FiniteSubsetsOfFinite
<1>2. PICK t \in T : \A u \in T : ~(<<u, t>> \in StrictSubsetOrdering(S))
  BY <1>1, FS_StrictSubsetOrderingWellFounded, WFMin
<1> QED BY <1>2, <1>1 DEF StrictSubsetOrdering, FiniteSubsetsOf

(* What is taken first is a term of the sum.                               *)
LEMMA OneOf == ASSUME NEW s, s # {} PROVE One(s) \in s
BY DEF One

(* How the fold adds one term to the sum of the others.                    *)
LEMMA AddsAt ==
    ASSUME NEW g, NEW f, NEW S, Adds(g, f, S), NEW s \in SUBSET S
    PROVE  g[s] = IF s = {} THEN 0 ELSE f[One(s)] + g[s \ {One(s)}]
BY DEF Adds

(* The sum does not depend on the larger set it is part of.                *)
LEMMA AddsAgree ==
    ASSUME NEW f, NEW S, NEW T, IsFiniteSet(S), NEW g, NEW h,
           Adds(g, f, S), Adds(h, f, T), S \subseteq T
    PROVE  g[S] = h[S]
<1> DEFINE Wrong == {s \in SUBSET S : g[s] # h[s]}
<1> SUFFICES ASSUME Wrong # {} PROVE FALSE
  OBVIOUS
<1>0. Wrong \subseteq SUBSET S
  OBVIOUS
<1>1. PICK s \in Wrong : \A u \in Wrong : u \subseteq s => u = s
  <2> HIDE DEF Wrong
  <2> QED BY <1>0, SmallestSet
<1>2. s # {}
  BY <1>1, AddsAt
<1>3. One(s) \in s
  BY <1>2, OneOf
<1>4. s \ {One(s)} \notin Wrong
  BY <1>1, <1>3
<1>5. g[s \ {One(s)}] = h[s \ {One(s)}]
  BY <1>4, <1>1
<1>6. s \in SUBSET S /\ s \in SUBSET T
  BY <1>1
<1>7. g[s] = f[One(s)] + g[s \ {One(s)}]
  BY <1>2, <1>6, AddsAt
<1>8. h[s] = f[One(s)] + h[s \ {One(s)}]
  BY <1>2, <1>6, AddsAt
<1> QED BY <1>1, <1>5, <1>7, <1>8

(* There is such a fold for every finite set.                              *)
LEMMA AddsExists ==
    ASSUME NEW f, NEW S, IsFiniteSet(S) PROVE \E g : Adds(g, f, S)
<1> DEFINE Wrong == {s \in SUBSET S : ~ \E g : Adds(g, f, s)}
<1> SUFFICES ASSUME Wrong # {} PROVE FALSE
  OBVIOUS
<1>0. Wrong \subseteq SUBSET S
  OBVIOUS
<1>1. PICK s \in Wrong : \A u \in Wrong : u \subseteq s => u = s
  <2> HIDE DEF Wrong
  <2> QED BY <1>0, SmallestSet
<1>6. s \in SUBSET S /\ IsFiniteSet(s)
  BY <1>1, FS_Subset
<1>2. ASSUME NEW u \in SUBSET s, u # s PROVE Adds(CHOOSE g : Adds(g, f, u), f, u)
  BY <1>6, <1>1, <1>2
<1> DEFINE G(u) == SumOn(f, u)
           new == [u \in SUBSET s |-> IF u = {} THEN 0
                                      ELSE f[One(u)] + G(u \ {One(u)})]
<1>3. ASSUME NEW u \in SUBSET s, u # s, u # {} PROVE G(u) = f[One(u)] + G(u \ {One(u)})
  <2> DEFINE g == CHOOSE k : Adds(k, f, u)
             v == u \ {One(u)}
             h == CHOOSE k : Adds(k, f, v)
  <2>1. Adds(g, f, u)
    BY <1>2, <1>3
  <2>2. v \in SUBSET s /\ v # s /\ v \subseteq u /\ IsFiniteSet(v)
    BY <1>3, OneOf, <1>6, FS_Subset
  <2>3. Adds(h, f, v)
    BY <2>2, <1>2
  <2> HIDE DEF g, h
  <2>4. h[v] = g[v]
    BY <2>1, <2>2, <2>3, AddsAgree
  <2>5. g[u] = f[One(u)] + g[v]
    BY <2>1, <1>3, AddsAt
  <2> QED BY <2>4, <2>5 DEF SumOn, g, h
<1>4. ASSUME NEW u \in SUBSET s, u # s PROVE new[u] = G(u)
  <2>1. CASE u = {}
    BY <1>2, <2>1, <1>4, AddsAt DEF SumOn
  <2>2. CASE u # {}
    BY <1>3, <2>2, <1>4
  <2> QED BY <2>1, <2>2
<1>5. Adds(new, f, s)
  <2>1. ASSUME NEW u \in SUBSET s, u # {} PROVE new[u \ {One(u)}] = G(u \ {One(u)})
    <3>1. u \ {One(u)} \in SUBSET s /\ u \ {One(u)} # s
      BY <2>1, OneOf
    <3> QED BY <3>1, <1>4
  <2> HIDE DEF G
  <2>2. new = [u \in SUBSET s |-> IF u = {} THEN 0
                                      ELSE f[One(u)] + new[u \ {One(u)}]]
    BY <2>1
  <2> QED BY <2>2 DEF Adds
<1> QED BY <1>1, <1>5

(* So the one that SumOn chooses is one.                                   *)
LEMMA SumOnAdds ==
    ASSUME NEW f, NEW S, IsFiniteSet(S) PROVE Adds(CHOOSE g : Adds(g, f, S), f, S)
BY AddsExists

(* A sum of no terms is nothing (the bag without lines).                   *)
LEMMA SumOnEmpty == ASSUME NEW f PROVE SumOn(f, {}) = 0
<1>1. IsFiniteSet({})
  BY FS_EmptySet
<1> QED BY <1>1, SumOnAdds, AddsAt DEF SumOn

(* A sum is its first term and the sum of the rest.                        *)
LEMMA SumOnOne ==
    ASSUME NEW f, NEW S, IsFiniteSet(S), S # {}
    PROVE  SumOn(f, S) = f[One(S)] + SumOn(f, S \ {One(S)})
<1> DEFINE g == CHOOSE k : Adds(k, f, S)
           T == S \ {One(S)}
           h == CHOOSE k : Adds(k, f, T)
<1>0. IsFiniteSet(T) /\ T \subseteq S
  BY FS_Subset
<1>1. Adds(g, f, S) /\ Adds(h, f, T)
  BY <1>0, SumOnAdds
<1> HIDE DEF g, h
<1>2. h[T] = g[T]
  BY <1>1, <1>0, AddsAgree
<1>3. g[S] = f[One(S)] + g[T]
  BY <1>1, AddsAt
<1> QED BY <1>2, <1>3 DEF SumOn, g, h

(* A sum of whole numbers is one.                                          *)
LEMMA SumOnInt ==
    ASSUME NEW f, NEW S, IsFiniteSet(S), \A x \in S : f[x] \in Int
    PROVE  SumOn(f, S) \in Int
<1> DEFINE Wrong == {s \in SUBSET S : SumOn(f, s) \notin Int}
<1> SUFFICES ASSUME Wrong # {} PROVE FALSE
  OBVIOUS
<1>0. Wrong \subseteq SUBSET S
  OBVIOUS
<1>1. PICK s \in Wrong : \A u \in Wrong : u \subseteq s => u = s
  <2> HIDE DEF Wrong
  <2> QED BY <1>0, SmallestSet
<1>2. s # {}
  <2> SUFFICES ASSUME s = {} PROVE FALSE
    OBVIOUS
  <2>1. SumOn(f, s) = 0
    BY SumOnEmpty
  <2> QED BY <1>1, <2>1
<1>3. One(s) \in s
  BY <1>2, OneOf
<1>4. SumOn(f, s \ {One(s)}) \in Int
  BY <1>1, <1>3
<1>5. SumOn(f, s) = f[One(s)] + SumOn(f, s \ {One(s)})
  BY <1>1, <1>2, SumOnOne, FS_Subset
<1> QED BY <1>1, <1>3, <1>4, <1>5

(* Any term may be taken out first: the order of the lines does not matter *)
(* (sumItems).                                                             *)
LEMMA SumOnAny ==
    ASSUME NEW f, NEW S, IsFiniteSet(S), \A x \in S : f[x] \in Int
    PROVE  \A x \in S : SumOn(f, S) = f[x] + SumOn(f, S \ {x})
<1> DEFINE Wrong == {s \in SUBSET S : \E x \in s : SumOn(f, s) # f[x] + SumOn(f, s \ {x})}
<1> SUFFICES ASSUME Wrong # {} PROVE FALSE
  OBVIOUS
<1>0. Wrong \subseteq SUBSET S
  OBVIOUS
<1>1. PICK s \in Wrong : \A u \in Wrong : u \subseteq s => u = s
  <2> HIDE DEF Wrong
  <2> QED BY <1>0, SmallestSet
<1>2. PICK x \in s : SumOn(f, s) # f[x] + SumOn(f, s \ {x})
  BY <1>1
<1>3. One(s) \in s /\ s \in SUBSET S /\ IsFiniteSet(s)
  BY <1>1, <1>2, OneOf, FS_Subset
<1>4. SumOn(f, s) = f[One(s)] + SumOn(f, s \ {One(s)})
  BY <1>3, SumOnOne
<1>5. x # One(s)
  BY <1>2, <1>4
<1>11. ASSUME NEW y \in s, NEW z \in s \ {y}
       PROVE  SumOn(f, s \ {y}) = f[z] + SumOn(f, (s \ {y}) \ {z})
  <2>1. s \ {y} \notin Wrong
    BY <1>1, <1>11
  <2> QED BY <2>1, <1>3, <1>11
<1>6. SumOn(f, s \ {One(s)}) = f[x] + SumOn(f, (s \ {One(s)}) \ {x})
  BY <1>11, <1>3, <1>5
<1>7. SumOn(f, s \ {x}) = f[One(s)] + SumOn(f, (s \ {x}) \ {One(s)})
  BY <1>11, <1>3, <1>5
<1>8. (s \ {x}) \ {One(s)} = (s \ {One(s)}) \ {x}
  OBVIOUS
<1>9. SumOn(f, (s \ {One(s)}) \ {x}) \in Int
  BY <1>3, SumOnInt, FS_Subset
<1>10. f[x] \in Int /\ f[One(s)] \in Int
  BY <1>3
<1> DEFINE rest == SumOn(f, (s \ {One(s)}) \ {x})
<1>12. SumOn(f, s) = f[One(s)] + (f[x] + rest)
  BY <1>4, <1>6
<1>13. SumOn(f, s \ {x}) = f[One(s)] + rest
  BY <1>7, <1>8
<1> HIDE DEF rest, Wrong
<1> QED BY <1>2, <1>9, <1>10, <1>12, <1>13 DEF rest
(* Equal terms make equal sums.                                            *)
LEMMA SumOnSame ==
    ASSUME NEW f, NEW g, NEW S, IsFiniteSet(S), \A x \in S : f[x] = g[x]
    PROVE  SumOn(f, S) = SumOn(g, S)
<1> DEFINE Wrong == {s \in SUBSET S : SumOn(f, s) # SumOn(g, s)}
<1> SUFFICES ASSUME Wrong # {} PROVE FALSE
  OBVIOUS
<1>0. Wrong \subseteq SUBSET S
  OBVIOUS
<1>1. PICK s \in Wrong : \A u \in Wrong : u \subseteq s => u = s
  <2> HIDE DEF Wrong
  <2> QED BY <1>0, SmallestSet
<1>2. s # {}
  <2> SUFFICES ASSUME s = {} PROVE FALSE
    OBVIOUS
  <2>1. SumOn(f, s) = 0 /\ SumOn(g, s) = 0
    BY SumOnEmpty
  <2> QED BY <1>1, <2>1
<1>3. One(s) \in s /\ s \in SUBSET S /\ IsFiniteSet(s)
  BY <1>1, <1>2, OneOf, FS_Subset
<1>4. SumOn(f, s \ {One(s)}) = SumOn(g, s \ {One(s)})
  BY <1>1, <1>3
<1>5. /\ SumOn(f, s) = f[One(s)] + SumOn(f, s \ {One(s)})
      /\ SumOn(g, s) = g[One(s)] + SumOn(g, s \ {One(s)})
  BY <1>2, <1>3, SumOnOne
<1> QED BY <1>1, <1>3, <1>4, <1>5

(* Terms that are nothing do not count: a sum over the lines of a bag is   *)
(* the sum over all the items of the shop.                                 *)
LEMMA SumOnDropsZeros ==
    ASSUME NEW f, NEW S, NEW T, IsFiniteSet(S), T \subseteq S,
           \A x \in S : f[x] \in Int, \A x \in S \ T : f[x] = 0
    PROVE  SumOn(f, S) = SumOn(f, T)
<1> DEFINE Wrong == {s \in SUBSET (S \ T) : SumOn(f, T \cup s) # SumOn(f, T)}
<1>a. S = T \cup (S \ T) /\ IsFiniteSet(S \ T)
  BY FS_Subset
<1> SUFFICES ASSUME Wrong # {} PROVE FALSE
  <2> Wrong = {}
    OBVIOUS
  <2> QED BY <1>a
<1>0. Wrong \subseteq SUBSET (S \ T)
  OBVIOUS
<1>1. PICK s \in Wrong : \A u \in Wrong : u \subseteq s => u = s
  <2> HIDE DEF Wrong
  <2> QED BY <1>0, <1>a, SmallestSet
<1>2. PICK x \in s : TRUE
  <2> SUFFICES ASSUME s = {} PROVE FALSE
    OBVIOUS
  <2>1. T \cup s = T
    OBVIOUS
  <2> QED BY <1>1, <2>1
<1>3. T \cup s \subseteq S /\ IsFiniteSet(T \cup s) /\ x \in T \cup s /\ x \in S \ T
  BY <1>1, <1>2, FS_Subset
<1>4. (T \cup s) \ {x} = T \cup (s \ {x})
  BY <1>1, <1>2
<1>5. SumOn(f, T \cup (s \ {x})) = SumOn(f, T)
  <2>1. s \ {x} \in SUBSET (S \ T) /\ s \ {x} \subseteq s /\ s \ {x} # s
    BY <1>1, <1>2
  <2>2. s \ {x} \notin Wrong
    BY <1>1, <2>1
  <2> QED BY <2>1, <2>2
<1>6. SumOn(f, T \cup s) = f[x] + SumOn(f, T \cup (s \ {x}))
  BY <1>3, <1>4, SumOnAny
<1>7. SumOn(f, T) \in Int /\ f[x] = 0
  BY <1>3, FS_Subset, SumOnInt
<1> QED BY <1>1, <1>5, <1>6, <1>7

(* A sum of naturals is one, and no less than a term of it.                *)
LEMMA SumOnNat ==
    ASSUME NEW f, NEW S, IsFiniteSet(S), \A x \in S : f[x] \in Nat
    PROVE  SumOn(f, S) \in Nat
<1> DEFINE Wrong == {s \in SUBSET S : SumOn(f, s) \notin Nat}
<1> SUFFICES ASSUME Wrong # {} PROVE FALSE
  OBVIOUS
<1>0. Wrong \subseteq SUBSET S
  OBVIOUS
<1>1. PICK s \in Wrong : \A u \in Wrong : u \subseteq s => u = s
  <2> HIDE DEF Wrong
  <2> QED BY <1>0, SmallestSet
<1>2. s # {}
  <2> SUFFICES ASSUME s = {} PROVE FALSE
    OBVIOUS
  <2>1. SumOn(f, s) = 0
    BY SumOnEmpty
  <2> QED BY <1>1, <2>1
<1>3. One(s) \in s /\ IsFiniteSet(s)
  BY <1>1, <1>2, OneOf, FS_Subset
<1>4. SumOn(f, s \ {One(s)}) \in Nat
  BY <1>1, <1>3
<1>5. SumOn(f, s) = f[One(s)] + SumOn(f, s \ {One(s)})
  BY <1>2, <1>3, SumOnOne
<1> QED BY <1>1, <1>3, <1>4, <1>5

(* The same facts of Total, which takes its terms from its domain.         *)
LEMMA TotalNat ==
    ASSUME NEW S, IsFiniteSet(S), NEW f \in [S -> Nat] PROVE Total(f) \in Nat
BY TotalIsSumOn, SumOnNat

(* ... where the terms may be negative.                                    *)
LEMMA TotalInt ==
    ASSUME NEW S, IsFiniteSet(S), NEW f \in [S -> Int] PROVE Total(f) \in Int
BY TotalIsSumOn, SumOnInt

(* A term more (an order that is made, a bag that is put away).            *)
LEMMA TotalGrows ==
    ASSUME NEW S, IsFiniteSet(S), NEW x, x \notin S, NEW f \in [S \cup {x} -> Int],
           NEW g \in [S -> Int], \A y \in S : f[y] = g[y]
    PROVE  Total(f) = Total(g) + f[x]
<1>1. IsFiniteSet(S \cup {x}) /\ (S \cup {x}) \ {x} = S
  BY FS_AddElement
<1>2. SumOn(f, S \cup {x}) = f[x] + SumOn(f, S)
  BY <1>1, SumOnAny
<1>3. SumOn(f, S) = SumOn(g, S)
  BY SumOnSame
<1>4. SumOn(g, S) \in Int /\ f[x] \in Int
  BY SumOnInt
<1> QED BY <1>2, <1>3, <1>4, TotalIsSumOn

(* One term changed.                                                       *)
LEMMA TotalChanges ==
    ASSUME NEW S, IsFiniteSet(S), NEW x \in S, NEW f \in [S -> Int], NEW g \in [S -> Int],
           \A y \in S \ {x} : f[y] = g[y]
    PROVE  Total(g) = Total(f) - f[x] + g[x]
<1>1. IsFiniteSet(S \ {x})
  BY FS_Subset
<1>2. SumOn(f, S) = f[x] + SumOn(f, S \ {x}) /\ SumOn(g, S) = g[x] + SumOn(g, S \ {x})
  BY SumOnAny
<1>3. SumOn(f, S \ {x}) = SumOn(g, S \ {x})
  BY <1>1, SumOnSame
<1>4. SumOn(f, S \ {x}) \in Int /\ f[x] \in Int /\ g[x] \in Int
  BY <1>1, SumOnInt
<1> QED BY <1>2, <1>3, <1>4, TotalIsSumOn

(* Terms that are nothing left out.                                        *)
LEMMA TotalDropsZeros ==
    ASSUME NEW S, NEW T, IsFiniteSet(S), T \subseteq S, NEW f \in [S -> Int],
           NEW g \in [T -> Int], \A x \in T : f[x] = g[x], \A x \in S \ T : f[x] = 0
    PROVE  Total(f) = Total(g)
<1>1. SumOn(f, S) = SumOn(f, T)
  BY SumOnDropsZeros
<1>2. SumOn(f, T) = SumOn(g, T)
  BY FS_Subset, SumOnSame
<1> QED BY <1>1, <1>2, TotalIsSumOn

-----------------------------------------------------------------------------
(***************************************************************************)
(* The arithmetic of a quote (Pricing).                                    *)
(***************************************************************************)
(* A set of naturals has a least (the earliest step of a ladder).          *)
LEMMA LeastOfAll ==
    ASSUME NEW S, S \subseteq Nat, S # {} PROVE \E x \in S : \A y \in S : x <= y
<1>1. PICK n \in S : TRUE
  OBVIOUS
<1> DEFINE upTo == {0..x : x \in {y \in S : y <= n}}
<1>2. upTo \subseteq SUBSET (0..n) /\ upTo # {}
  <2>1. \A y \in S : y <= n => 0..y \subseteq 0..n
    BY <1>1
  <2> QED BY <1>1, <2>1
<1>3. IsFiniteSet(0..n)
  BY <1>1, FS_Interval
<1>4. PICK t \in upTo : \A u \in upTo : u \subseteq t => u = t
  <2> DEFINE all == 0..n
  <2> HIDE DEF upTo, all
  <2>1. IsFiniteSet(all)
    BY <1>3 DEF all
  <2>2. upTo \subseteq SUBSET all
    BY <1>2 DEF all
  <2>3. upTo # {}
    BY <1>2
  <2> QED BY <2>1, <2>2, <2>3, SmallestSet
<1>5. PICK x \in S : x <= n /\ t = 0..x
  BY <1>4
<1>6. ASSUME NEW y \in S, y < x PROVE FALSE
  <2>1. 0..y \in upTo
    BY <1>1, <1>5, <1>6
  <2>2. 0..y \subseteq 0..x /\ x \in 0..x /\ x \notin 0..y
    BY <1>5, <1>6
  <2> QED BY <1>4, <1>5, <2>1, <2>2
<1>7. \A y \in S : x <= y
  BY <1>6
<1> QED BY <1>5, <1>7

(* A set of numbers below a bound has a greatest (the best discount).      *)
LEMMA Greatest ==
    ASSUME NEW S, S \subseteq Int, S # {}, NEW b \in Int, \A x \in S : x <= b
    PROVE  \E x \in S : \A y \in S : y <= x
<1> DEFINE D == {b - x : x \in S}
<1>1. D \subseteq Nat
  <2> SUFFICES ASSUME NEW x \in S PROVE b - x \in Nat
    OBVIOUS
  <2>1. x \in Int /\ x <= b
    OBVIOUS
  <2> QED BY <2>1
<1>2. D # {}
  OBVIOUS
<1>3. PICK d \in D : \A e \in D : d <= e
  <2> HIDE DEF D
  <2> QED BY <1>1, <1>2, LeastOfAll
<1>5. PICK x \in S : d = b - x
  BY <1>3
<1>6. ASSUME NEW y \in S PROVE y <= x
  <2>1. b - y \in D
    OBVIOUS
  <2>2. b - x <= b - y
    BY <1>3, <1>5, <2>1
  <2> QED BY <2>2, <1>5
<1> QED BY <1>5, <1>6

(* A discount rule as the shop keeps it.                                   *)
RuleFits(r) == r.min \in Nat /\ r.off \in 0..100

(* The best rule for so many units: the last step the ladder reaches is    *)
(* the greatest of the percents that count (discountTiersFor,              *)
(* discountPercentFor).                                                    *)
LEMMA LadderGivesTheBest ==
    ASSUME NEW i, NEW shop, NEW rules, \A r \in rules : RuleFits(r), NEW units \in Int,
           NEW offs, offs = {r.off : r \in {o \in RulesFor(i, shop, rules) : o.min <= units}} \cup {0}
    PROVE  /\ PercentFor(LadderOf(i, shop, rules), units) \in 0..100
           /\ PercentFor(LadderOf(i, shop, rules), units) \in offs
           /\ \A p \in offs : p <= PercentFor(LadderOf(i, shop, rules), units)
<1> DEFINE applied == RulesFor(i, shop, rules)
           counted == {o \in applied : o.min <= units}
           ladder == LadderOf(i, shop, rules)
           reached == {t \in ladder : t.min <= units}
<1>0. \A r \in applied : RuleFits(r)
  BY DEF RulesFor
<1>1. ladder = {[min |-> r.min, off |-> r.off] : r \in
            {b \in applied : /\ b.off > 0
                             /\ \A o \in applied : o.min <= b.min =>
                                    o.off < b.off \/ (o.min = b.min /\ o.off = b.off)}}
  BY DEF LadderOf
<1>2. PercentFor(ladder, units) =
        IF reached = {} THEN 0
        ELSE (CHOOSE t \in reached : \A o \in reached : o.min <= t.min).off
  BY DEF PercentFor
<1>3. offs = {r.off : r \in counted} \cup {0}
  OBVIOUS
<1> HIDE DEF applied, ladder
<1>4. offs \subseteq 0..100
  BY <1>0, <1>3 DEF RuleFits
<1>5. PICK best \in offs : \A p \in offs : p <= best
  <2>1. offs \subseteq Int /\ offs # {} /\ \A p \in offs : p <= 100
    BY <1>3, <1>4
  <2> DEFINE most == 100
  <2>2. most \in Int /\ \A p \in offs : p <= most
    BY <2>1
  <2> HIDE DEF counted, most
  <2> QED BY <2>1, <2>2, Greatest
<1>6. ASSUME best > 0 PROVE \E t \in reached : t.off = best /\ t.min \in Nat
  <2> DEFINE mins == {r.min : r \in {o \in counted : o.off = best}}
  <2>1. mins \subseteq Nat /\ mins # {}
    BY <1>0, <1>3, <1>6, <1>5 DEF RuleFits
  <2>2. PICK m \in mins : \A n \in mins : m <= n
    BY <2>1, LeastOfAll
  <2>3. PICK b \in counted : b.off = best /\ b.min = m
    BY <2>2
  <2>4. ASSUME NEW o \in applied, o.min <= b.min
        PROVE  o.off < b.off \/ (o.min = b.min /\ o.off = b.off)
    <3>1. RuleFits(o) /\ RuleFits(b) /\ b.min <= units
      BY <1>0, <2>3, <2>4
    <3>2. o \in counted
      BY <2>4, <3>1 DEF RuleFits
    <3>3. o.off <= best
      BY <3>2, <1>3, <1>5
    <3>4. o.off = best => b.min <= o.min
      BY <3>2, <2>2, <2>3
    <3> QED BY <2>3, <2>4, <3>1, <3>3, <3>4 DEF RuleFits
  <2>5. [min |-> b.min, off |-> b.off] \in ladder
    BY <1>1, <1>6, <2>3, <2>4
  <2>6. b.min \in Nat /\ b.min <= units
    BY <1>0, <2>3 DEF RuleFits
  <2> QED BY <2>3, <2>5, <2>6
<1>7. CASE reached = {}
  <2>1. best = 0
    BY <1>4, <1>5, <1>6, <1>7
  <2>2. PercentFor(ladder, units) = 0
    BY <1>2, <1>7
  <2> QED BY <1>4, <1>5, <2>1, <2>2 DEF ladder
<1>8. CASE reached # {}
  <2> DEFINE top == CHOOSE t \in reached : \A o \in reached : o.min <= t.min
  <2>1. \A t \in reached : \E a \in applied :
            /\ t.min = a.min /\ t.off = a.off /\ a.off > 0 /\ a \in counted
            /\ \A o \in applied : o.min <= a.min =>
                    o.off < a.off \/ (o.min = a.min /\ o.off = a.off)
    BY <1>1
  <2>2. {t.min : t \in reached} \subseteq Nat
    BY <1>0, <2>1 DEF RuleFits
  <2>3. PICK m \in {t.min : t \in reached} : \A n \in {t.min : t \in reached} : n <= m
    <3> DEFINE mins == {t.min : t \in reached}
    <3>1. \A n \in mins : n <= units
      OBVIOUS
    <3>2. mins \subseteq Int /\ mins # {}
      BY <1>8, <2>2
    <3> HIDE DEF mins
    <3>3. \E m \in mins : \A n \in mins : n <= m
      BY <3>1, <3>2, Greatest
    <3> QED BY <3>3 DEF mins
  <2>4. top \in reached /\ \A o \in reached : o.min <= top.min
    <3>1. \E t \in reached : \A o \in reached : o.min <= t.min
      BY <2>3
    <3> HIDE DEF reached
    <3> QED BY <3>1
  <2>5. PICK a \in applied : /\ top.min = a.min /\ top.off = a.off /\ a.off > 0 /\ a \in counted
                             /\ \A o \in applied : o.min <= a.min =>
                                    o.off < a.off \/ (o.min = a.min /\ o.off = a.off)
    BY <2>1, <2>4
  <2>6. top.off \in offs /\ top.off \in 0..100 /\ best \in 0..100
    BY <1>3, <1>4, <2>5
  <2>7. best > 0
    BY <1>5, <2>5, <2>6
  <2>8. PICK t \in reached : t.off = best /\ t.min \in Nat
    BY <1>6, <2>7
  <2>9. PICK b \in applied : t.min = b.min /\ t.off = b.off
    BY <2>1, <2>8
  <2>10. b.min <= a.min
    BY <2>4, <2>5, <2>8, <2>9
  <2>11. b.off <= a.off
    <3>1. b.off \in Int /\ a.off \in Int
      BY <1>0 DEF RuleFits
    <3>2. b.off < a.off \/ b.off = a.off
      BY <2>5, <2>10
    <3> QED BY <3>1, <3>2
  <2>12. top.off = best
    <3>1. best <= top.off
      BY <2>5, <2>8, <2>9, <2>11
    <3>2. top.off <= best
      BY <1>5, <2>6
    <3> QED BY <3>1, <3>2, <2>6
  <2>13. PercentFor(ladder, units) = top.off
    BY <1>2, <1>8
  <2> HIDE DEF top, reached
  <2> QED BY <1>4, <1>5, <2>12, <2>13 DEF ladder
<1> QED BY <1>7, <1>8

(* Rounding to cents gives cents (Math.round).                             *)
LEMMA RoundedInt == ASSUME NEW a \in Int, NEW b \in Nat \ {0} PROVE Rounded(a, b) \in Int
<1>1. 2 * a + b \in Int /\ 2 * b \in Int /\ 2 * b > 0
  OBVIOUS
<1> QED BY <1>1 DEF Rounded

\* The rules of the shop, and any bag of whole units.
ShopOpen == catalog \in [Items -> Sold]
BagFits(bag) == bag \in [Items -> Nat]

(* The rules the shop has are rules as Pricing takes them (ShopFits).      *)
LEMMA RulesFit == \A r \in Rules : RuleFits(r)
BY ShopFits DEF ShopFits, RuleFits

(* The lines of a bag are items of the shop, and finitely many.            *)
LEMMA LinesAreItems ==
    ASSUME NEW bag, BagFits(bag)
    PROVE  /\ LinesOf(bag) = {i \in Items : bag[i] > 0} /\ IsFiniteSet(LinesOf(bag))
           /\ Gone(bag, catalog) \subseteq LinesOf(bag)
<1>1. LinesOf(bag) = {i \in Items : bag[i] > 0} /\ LinesOf(bag) \subseteq Items
  BY DEF LinesOf, BagFits
<1> QED BY <1>1, KeptFits, FS_Subset DEF KeptFits, Gone

(* The units a discount counts are a number (unitsByProduct).              *)
LEMMA UnitsAreNumbers ==
    ASSUME NEW bag, BagFits(bag), NEW i PROVE UnitsOf(i, bag, catalog) \in Nat
<1> DEFINE same == {l \in LinesOf(bag) \ Gone(bag, catalog) :
                        catalog[l].product = catalog[i].product}
           units == [o \in same |-> bag[o]]
<1>1. same \subseteq Items /\ IsFiniteSet(same)
  BY LinesAreItems, FS_Subset
<1>2. units \in [same -> Nat]
  BY <1>1 DEF BagFits
<1>3. UnitsOf(i, bag, catalog) = Total(units)
  BY DEF UnitsOf
<1> HIDE DEF same, units
<1> QED BY <1>1, <1>2, <1>3, TotalNat

(* What a line costs is a number of cents (priceLines).                    *)
LEMMA LineTotalInt ==
    ASSUME ShopOpen, NEW bag, BagFits(bag), NEW i \in Items
    PROVE  LineTotal(i, bag, catalog, Rules) \in Int
<1> DEFINE gross == catalog[i].price * bag[i]
           percent == PercentFor(LadderOf(i, catalog, Rules), UnitsOf(i, bag, catalog))
<1>1. gross \in Int
  <2>1. catalog[i].price \in Nat /\ bag[i] \in Nat
    BY DEF ShopOpen, Sold, BagFits
  <2> QED BY <2>1
<1>2. percent \in Int
  <2> DEFINE units == UnitsOf(i, bag, catalog)
             offs == {r.off : r \in {o \in RulesFor(i, catalog, Rules) : o.min <= units}} \cup {0}
  <2>1. units \in Int
    BY UnitsAreNumbers
  <2> HIDE DEF units
  <2>2. PercentFor(LadderOf(i, catalog, Rules), units) \in 0..100
    BY <2>1, RulesFit, LadderGivesTheBest
  <2> QED BY <2>2 DEF units
<1>3. LineTotal(i, bag, catalog, Rules) = gross - Rounded(gross * percent, 100)
  BY DEF LineTotal, LineGross
<1> HIDE DEF gross, percent
<1>4. gross * percent \in Int
  BY <1>1, <1>2
<1> QED BY <1>1, <1>3, <1>4, RoundedInt

(* The goods of a bag add up to cents (subtotal of the quote).             *)
LEMMA SubtotalInt ==
    ASSUME ShopOpen, NEW bag, BagFits(bag) PROVE Subtotal(bag, catalog, Rules) \in Int
<1> DEFINE kept == LinesOf(bag) \ Gone(bag, catalog)
           costs == [i \in kept |-> LineTotal(i, bag, catalog, Rules)]
<1>1. kept \subseteq Items /\ IsFiniteSet(kept)
  BY LinesAreItems, FS_Subset
<1>2. costs \in [kept -> Int]
  BY <1>1, LineTotalInt
<1>3. Subtotal(bag, catalog, Rules) = Total(costs)
  BY DEF Subtotal
<1> HIDE DEF kept, costs
<1> QED BY <1>1, <1>2, <1>3, TotalInt

\* The way of buying a quote is made for.
ChoiceOf(chosen) == IF chosen = None THEN DefaultChoice ELSE chosen

(* A choice is an offer of the shop, the one of a guest included.          *)
LEMMA ChoiceFits == ASSUME NEW c \in Ways \cup {None} PROVE ChoiceOf(c) \in Offers
BY ShopFits DEF ShopFits, ChoiceOf, DefaultChoice, Offers, Minimums

(* A quote is made of whole cents, and what fell out was in the bag        *)
(* (CartQuoteService.quote).                                               *)
LEMMA QuoteFits ==
    ASSUME ShopOpen, NEW bag, BagFits(bag), NEW c \in Ways \cup {None}
    PROVE  /\ QuoteOf(bag, c).total \in Int /\ QuoteOf(bag, c).goods \in Int
           /\ QuoteOf(bag, c).goods = Subtotal(bag, catalog, Rules)
           /\ QuoteOf(bag, c).gone = Gone(bag, catalog)
           /\ QuoteOf(bag, c).gone \in SUBSET Items
<1> DEFINE goods == Subtotal(bag, catalog, Rules)
           chosen == ChoiceOf(c)
           delivery == DeliveryFee(chosen.city, goods, StoreMinimum)
<1>1. goods \in Int
  BY SubtotalInt
<1>2. chosen \in Offers
  BY ChoiceFits
<1>3. delivery.fee \in Nat
  BY <1>2 DEF DeliveryFee, Offers
<1>4. QuoteOf(bag, c) = [goods |-> goods, delivery |-> delivery, gone |-> Gone(bag, catalog),
                         total |-> PixQuote(goods, delivery.fee, chosen.pix).total]
  BY DEF QuoteOf, Quote, ChoiceOf
<1> HIDE DEF goods, chosen, delivery
<1>5. PixQuote(goods, delivery.fee, chosen.pix).total \in Int
  <2>1. chosen.pix \in Int
    BY <1>2 DEF Offers
  <2>2. goods * chosen.pix \in Int
    BY <1>1, <2>1
  <2>3. Rounded(goods * chosen.pix, 100) \in Int
    BY <2>2, RoundedInt
  <2> QED BY <1>1, <1>3, <2>3 DEF PixQuote
<1>6. Gone(bag, catalog) \subseteq Items
  BY LinesAreItems
<1> QED BY <1>1, <1>4, <1>5, <1>6 DEF goods

\* The bag without the lines that fell out.
Without(bag) == [i \in Items |-> IF i \in Gone(bag, catalog) THEN 0 ELSE bag[i]]

(* What is left is what was for sale, with the same units.                 *)
LEMMA WithoutKeepsTheRest ==
    ASSUME NEW bag, BagFits(bag)
    PROVE  /\ BagFits(Without(bag)) /\ Gone(Without(bag), catalog) = {}
           /\ LinesOf(Without(bag)) = LinesOf(bag) \ Gone(bag, catalog)
           /\ \A i \in LinesOf(Without(bag)) : i \in Items /\ Without(bag)[i] = bag[i]
<1>1. BagFits(Without(bag))
  BY DEF BagFits, Without
<1>2. LinesOf(Without(bag)) = LinesOf(bag) \ Gone(bag, catalog)
  <2>1. LinesOf(Without(bag)) = {i \in Items : Without(bag)[i] > 0}
    BY <1>1, LinesAreItems
  <2>2. LinesOf(bag) = {i \in Items : bag[i] > 0}
    BY LinesAreItems
  <2>3. \A i \in Items : Without(bag)[i] > 0 <=> i \notin Gone(bag, catalog) /\ bag[i] > 0
    BY DEF Without
  <2> HIDE DEF Without
  <2> QED BY <2>1, <2>2, <2>3
<1>3. \A i \in LinesOf(Without(bag)) : i \in Items /\ Without(bag)[i] = bag[i]
  BY <1>2, LinesAreItems DEF Without
<1>4. \A i \in LinesOf(Without(bag)) : ForSale(bag, i, catalog)
  BY <1>2 DEF Gone
<1>5. \A i \in LinesOf(Without(bag)) : ForSale(Without(bag), i, catalog)
  BY <1>3, <1>4 DEF ForSale
<1>6. Gone(Without(bag), catalog) = {}
  BY <1>5 DEF Gone
<1> QED BY <1>1, <1>2, <1>3, <1>6

(* So every other line keeps its price: a line that fell out lends its     *)
(* units to no discount (unitsByProduct counts lines for sale).            *)
LEMMA WithoutCostsTheSame ==
    ASSUME NEW bag, BagFits(bag)
    PROVE  /\ \A i \in LinesOf(Without(bag)) : LineTotal(i, Without(bag), catalog, Rules)
                                                = LineTotal(i, bag, catalog, Rules)
           /\ Subtotal(Without(bag), catalog, Rules) = Subtotal(bag, catalog, Rules)
<1> DEFINE rest == Without(bag)
           kept == LinesOf(bag) \ Gone(bag, catalog)
<1>1. LinesOf(rest) \ Gone(rest, catalog) = kept /\ LinesOf(rest) = kept
  BY WithoutKeepsTheRest
<1>2. \A i \in kept : rest[i] = bag[i]
  BY WithoutKeepsTheRest
<1> HIDE DEF rest, kept
<1>3. ASSUME NEW i \in kept PROVE LineTotal(i, rest, catalog, Rules) = LineTotal(i, bag, catalog, Rules)
  <2> DEFINE same == {l \in kept : catalog[l].product = catalog[i].product}
  <2>1. [o \in same |-> rest[o]] = [o \in same |-> bag[o]]
    BY <1>2
  <2>2. UnitsOf(i, rest, catalog) = Total([o \in same |-> rest[o]])
    BY <1>1 DEF UnitsOf
  <2>3. UnitsOf(i, bag, catalog) = Total([o \in same |-> bag[o]])
    BY DEF UnitsOf, kept
  <2>4. UnitsOf(i, rest, catalog) = UnitsOf(i, bag, catalog)
    BY <2>1, <2>2, <2>3
  <2>5. LineGross(i, rest, catalog) = LineGross(i, bag, catalog)
    BY <1>2, <1>3 DEF LineGross
  <2> QED BY <2>4, <2>5 DEF LineTotal
<1>4. Subtotal(rest, catalog, Rules) = Subtotal(bag, catalog, Rules)
  <2>1. [i \in kept |-> LineTotal(i, rest, catalog, Rules)]
            = [i \in kept |-> LineTotal(i, bag, catalog, Rules)]
    BY <1>3
  <2>2. Subtotal(rest, catalog, Rules) = Total([i \in kept |-> LineTotal(i, rest, catalog, Rules)])
    BY <1>1 DEF Subtotal
  <2>3. Subtotal(bag, catalog, Rules) = Total([i \in kept |-> LineTotal(i, bag, catalog, Rules)])
    BY DEF Subtotal, kept
  <2> QED BY <2>1, <2>2, <2>3
<1> QED BY <1>1, <1>3, <1>4 DEF rest

(* The best rule by its definition is the one the ladder gives.            *)
LEMMA BestOffIsOfTheLadder ==
    ASSUME NEW i, NEW units \in Int
    PROVE  BestOff(i, units) = PercentFor(LadderOf(i, catalog, Rules), units)
<1> DEFINE offs == {r.off : r \in {o \in RulesFor(i, catalog, Rules) : o.min <= units}} \cup {0}
           best == PercentFor(LadderOf(i, catalog, Rules), units)
           found == CHOOSE o \in offs : \A p \in offs : p <= o
<1>1. best \in 0..100 /\ best \in offs /\ \A p \in offs : p <= best
  BY RulesFit, LadderGivesTheBest
<1>2. BestOff(i, units) = found
  BY DEF BestOff
<1>3. offs \subseteq Int
  BY RulesFit DEF RulesFor, RuleFits
<1> HIDE DEF offs, best
<1>4. found \in offs /\ \A p \in offs : p <= found
  BY <1>1
<1>5. found <= best /\ best <= found /\ found \in Int /\ best \in Int
  BY <1>1, <1>3, <1>4
<1>6. found = best
  BY <1>5
<1> QED BY <1>2, <1>6 DEF best

(* The units of a product over the whole shop are the units a quote        *)
(* counts: what is not in the bag adds nothing.                            *)
LEMMA UnitsOverTheShop ==
    ASSUME NEW bag, BagFits(bag), NEW i
    PROVE  Total([o \in {l \in Items : catalog[l].product = catalog[i].product} |-> Without(bag)[o]])
                = UnitsOf(i, bag, catalog)
<1> DEFINE every == {l \in Items : catalog[l].product = catalog[i].product}
           same == {l \in LinesOf(bag) \ Gone(bag, catalog) :
                        catalog[l].product = catalog[i].product}
           all == [o \in every |-> Without(bag)[o]]
           sold == [o \in same |-> bag[o]]
<1>1. IsFiniteSet(every) /\ every \subseteq Items
  BY KeptFits, FS_Subset DEF KeptFits
<1>2. LinesOf(bag) = {o \in Items : bag[o] > 0}
  BY LinesAreItems
<1>3. same \subseteq every
  BY <1>2
<1>4. all \in [every -> Int] /\ sold \in [same -> Int]
  BY <1>1, <1>3, WithoutKeepsTheRest DEF BagFits
<1>5. \A x \in same : all[x] = sold[x]
  BY <1>3, WithoutKeepsTheRest
<1>6. \A x \in every \ same : all[x] = 0
  BY <1>2 DEF Without, BagFits
<1>7. UnitsOf(i, bag, catalog) = Total(sold)
  BY DEF UnitsOf
<1> HIDE DEF every, same, all, sold
<1>8. Total(all) = Total(sold)
  BY <1>1, <1>3, <1>4, <1>5, <1>6, TotalDropsZeros
<1> QED BY <1>7, <1>8 DEF all, every

(* "So much is missing": with it the delivery is free, with a cent less it *)
(* is not (deliveryFeeFor).                                                *)
LEMMA MissingIsExact ==
    ASSUME NEW city \in [pickup : BOOLEAN, fee : Nat, least : Minimums], NEW goods \in Int,
           DeliveryFee(city, goods, StoreMinimum).missing > 0
    PROVE  LET missing == DeliveryFee(city, goods, StoreMinimum).missing
           IN  /\ DeliveryFee(city, goods + missing, StoreMinimum).fee = 0
               /\ DeliveryFee(city, goods + missing - 1, StoreMinimum).fee = city.fee
<1> DEFINE least == FreeFrom(city, StoreMinimum)
<1>1. least \in Int
  BY ShopFits DEF ShopFits, FreeFrom, Minimums, NoMinimum
<1>2. ~(city.pickup \/ city.fee = 0 \/ (least # NoMinimum /\ goods >= least))
  BY DEF DeliveryFee
<1>3. DeliveryFee(city, goods, StoreMinimum).missing = least - goods /\ least # NoMinimum
  BY <1>2 DEF DeliveryFee
<1> HIDE DEF least
<1>4. goods + (least - goods) = least /\ goods + (least - goods) - 1 = least - 1
  BY <1>1
<1>5. DeliveryFee(city, least, StoreMinimum).fee = 0
  BY <1>1, <1>3 DEF DeliveryFee, least
<1>6. DeliveryFee(city, least - 1, StoreMinimum).fee = city.fee
  <2>1. ~(least - 1 >= least)
    BY <1>1
  <2> QED BY <1>2, <2>1 DEF DeliveryFee, least
<1> QED BY <1>3, <1>4, <1>5, <1>6

\* What PricesHold says of one quote and of the bag without what fell out.
PricesHoldFor(c, quote, without) ==
    LET delivery(goods) == DeliveryFee(c.city, goods, StoreMinimum)
    IN  /\ quote = [QuoteOf(without, c) EXCEPT !.gone = quote.gone]
        /\ \A i \in LinesOf(without) :
             LET units == Total([o \in {l \in Items : catalog[l].product = catalog[i].product}
                                    |-> without[o]])
                 gross == catalog[i].price * lines[i]
             IN  LineTotal(i, lines, catalog, Rules)
                    = gross - Rounded(gross * BestOff(i, units), 100)
        /\ quote.delivery.missing > 0 =>
             /\ delivery(quote.goods + quote.delivery.missing).fee = 0
             /\ delivery(quote.goods + quote.delivery.missing - 1).fee = c.city.fee

(* All the parts of PricesHold, of any whole bag in any open shop.         *)
LEMMA AnyBagPricesHold == ASSUME ShopOpen, BagFits(lines) PROVE PricesHold
<1> SUFFICES ASSUME NEW c \in Ways
             PROVE  PricesHoldFor(c, QuoteOf(lines, c),
                        [i \in Items |-> IF i \in QuoteOf(lines, c).gone THEN 0 ELSE lines[i]])
  BY DEF PricesHold, PricesHoldFor
<1> DEFINE quote == QuoteOf(lines, c)
           rest == Without(lines)
<1>0. c # None /\ c \in Offers /\ ChoiceOf(c) = c
  BY ShopFits DEF ShopFits, ChoiceOf
<1>1. /\ quote.gone = Gone(lines, catalog) /\ quote.goods = Subtotal(lines, catalog, Rules)
      /\ quote.goods \in Int
  BY QuoteFits
<1>2. rest = [i \in Items |-> IF i \in quote.gone THEN 0 ELSE lines[i]]
  BY <1>1 DEF Without
<1>3. quote = [goods |-> Subtotal(lines, catalog, Rules),
               delivery |-> DeliveryFee(c.city, Subtotal(lines, catalog, Rules), StoreMinimum),
               gone |-> Gone(lines, catalog),
               total |-> PixQuote(Subtotal(lines, catalog, Rules),
                            DeliveryFee(c.city, Subtotal(lines, catalog, Rules), StoreMinimum).fee,
                            c.pix).total]
  BY <1>0 DEF QuoteOf, Quote
<1>4. quote = [QuoteOf(rest, c) EXCEPT !.gone = quote.gone]
  <2>1. QuoteOf(rest, c)
            = [goods |-> Subtotal(rest, catalog, Rules),
               delivery |-> DeliveryFee(c.city, Subtotal(rest, catalog, Rules), StoreMinimum),
               gone |-> Gone(rest, catalog),
               total |-> PixQuote(Subtotal(rest, catalog, Rules),
                            DeliveryFee(c.city, Subtotal(rest, catalog, Rules), StoreMinimum).fee,
                            c.pix).total]
    BY <1>0 DEF QuoteOf, Quote
  <2>2. Subtotal(rest, catalog, Rules) = Subtotal(lines, catalog, Rules)
    BY WithoutCostsTheSame
  <2> HIDE DEF quote, rest
  <2> QED BY <1>1, <1>3, <2>1, <2>2
<1>5. ASSUME NEW i \in LinesOf(rest)
      PROVE  LET units == Total([o \in {l \in Items : catalog[l].product = catalog[i].product}
                                    |-> rest[o]])
                 gross == catalog[i].price * lines[i]
             IN  LineTotal(i, lines, catalog, Rules)
                    = gross - Rounded(gross * BestOff(i, units), 100)
  <2> DEFINE units == UnitsOf(i, lines, catalog)
  <2>1. Total([o \in {l \in Items : catalog[l].product = catalog[i].product} |-> rest[o]]) = units
    BY UnitsOverTheShop
  <2>2. units \in Int
    BY UnitsAreNumbers
  <2> HIDE DEF units
  <2>3. BestOff(i, units) = PercentFor(LadderOf(i, catalog, Rules), units)
    BY <2>2, BestOffIsOfTheLadder
  <2> QED BY <2>1, <2>3 DEF LineTotal, LineGross, units
<1>6. ASSUME quote.delivery.missing > 0
      PROVE  /\ DeliveryFee(c.city, quote.goods + quote.delivery.missing, StoreMinimum).fee = 0
             /\ DeliveryFee(c.city, quote.goods + quote.delivery.missing - 1, StoreMinimum).fee
                    = c.city.fee
  <2>1. quote.delivery = DeliveryFee(c.city, quote.goods, StoreMinimum)
    BY <1>1, <1>3
  <2>2. c.city \in [pickup : BOOLEAN, fee : Nat, least : Minimums]
    BY <1>0 DEF Offers
  <2> HIDE DEF quote
  <2> QED BY <1>1, <1>6, <2>1, <2>2, MissingIsExact
<1> HIDE DEF quote, rest
<1>7. PricesHoldFor(c, quote, rest)
  BY <1>4, <1>5, <1>6 DEF PricesHoldFor
<1> QED BY <1>2, <1>7 DEF quote

-----------------------------------------------------------------------------
(***************************************************************************)
(* The checkout.                                                           *)
(***************************************************************************)
Reasons == {"items", "total", None}
Bodies == [at : {"unused", "server", "created", "conflict", "refused", "done", "failed"},
           lines : Bags, choice : Ways \cup {None}, expected : Int, visit : Nat, seen : Int,
           made : BOOLEAN, total : Int, gone : SUBSET Items, reason : Reasons]
Conflicts == [reason : Reasons, total : Int, gone : SUBSET Items]

Types ==
    /\ catalog \in [Items -> Sold] /\ changes \in Nat
    /\ lines \in Bags /\ stash \in [Customers -> Bags] /\ user \in Customers \cup {None}
    /\ {picks, logins} \subseteq Nat
    /\ choice \in Ways \cup {None} /\ settled \in Bags /\ shown \in Int \cup {None}
    /\ visits \in 0..MaxVisits /\ page \in 0..(MaxVisits - visits)
    /\ sent \in [Requests -> Bodies]
    /\ inFlight \in BOOLEAN /\ last \in Requests \cup {0}
    /\ conflict \in Conflicts \cup {None} /\ submitted \in Int
    /\ wanted \in [Items -> Int] /\ bought \in [Items -> Nat]
    /\ disturbed \in BOOLEAN /\ harmed \in BOOLEAN /\ missed \in BOOLEAN

\* A request under way is of a visit that took place, and the page it belongs to
\* knows which request it repeats: an answer that comes to a later visit, or to
\* none, is nobody's conflict.
VisitsFit ==
    /\ \A r \in UnderWay : /\ sent[r].visit \in 1..(MaxVisits - visits)
                           /\ sent[r].visit = page => last # 0
    /\ conflict # None => last # 0 /\ page # 0

\* What an order costs is what was expected of it, which is what was seen.
SeenAndCharged ==
    \A r \in Requests :
        /\ sent[r].expected = sent[r].seen
        /\ sent[r].at \in {"unused", "server"} => ~sent[r].made
        /\ sent[r].at = "created" => sent[r].made
        /\ sent[r].made => sent[r].total = sent[r].seen

\* The bag of a customer who is signed in is in one place, and what is under way
\* is the bag as it is, until it is disturbed.
Kept ==
    /\ user # None => stash[user] = NoLines
    /\ ~disturbed => \A r \in UnderWay : sent[r].lines = lines
    /\ UnitsAreKept

\* While the page sees the end of its orders there is one of them at a time.
OneAtATime ==
    ~missed =>
        /\ \A r \in UnderWay : r = last /\ inFlight /\ page # 0 /\ sent[r].visit = page
        /\ conflict # None => ~inFlight /\ sent[last].at = "done"

\* The orders whose answer arrived are the ones that were bought.
Closed == {r \in Made : sent[r].at # "created"}
Ledger == ~missed => \A i \in Items : Total([r \in Closed |-> sent[r].lines[i]]) = bought[i]

ShopInv == Types /\ VisitsFit /\ SeenAndCharged /\ Kept /\ OneAtATime /\ Ledger

(* What is sent is a body, on its way, of no order yet (useCreateOrder).   *)
LEMMA BodyFits ==
    ASSUME Types, NEW bag \in Bags, NEW chosen \in Ways \cup {None}, NEW total \in Int,
           NEW eyes \in Int
    PROVE  LET body == Body(bag, chosen, total, eyes)
           IN  /\ body \in Bodies /\ body.at = "server" /\ ~body.made
               /\ body.lines = bag /\ body.expected = total /\ body.seen = eyes
               /\ body.visit = page
<1>1. page \in Nat
  BY BoundsAreNatural DEF Types, BoundsAreNatural
<1>2. NoLines \in Bags
  BY CapsArePositive DEF NoLines, Bags, CapsArePositive
<1> HIDE DEF Bags
<1>3. Unused \in Bodies /\ ~Unused.made
  BY <1>2 DEF Unused, Bodies, Reasons
<1> QED BY <1>1, <1>3 DEF Body, Bodies

(* The caps keep a quantity a quantity of a line (capQuantity).            *)
LEMMA CapFits == ASSUME NEW n \in Nat PROVE CapQuantity(n) \in 0..MAX_LINE_QUANTITY
BY CapsArePositive DEF CapQuantity, CapsArePositive

(* A joined bag is a bag (mergeCartLines).                                 *)
LEMMA MergedFits ==
    ASSUME NEW base \in Bags, NEW incoming \in Bags, NEW bag \in MergeCartLines(base, incoming)
    PROVE  bag \in Bags
<1>1. \A i \in Items : base[i] + incoming[i] \in Nat
  BY DEF Bags
<1>2. \A i \in Items : CapQuantity(base[i] + incoming[i]) \in 0..MAX_LINE_QUANTITY
  BY <1>1, CapFits
<1>3. 0 \in 0..MAX_LINE_QUANTITY
  BY CapsArePositive DEF CapsArePositive
<1>4. \E kept \in SUBSET (LinesOf(incoming) \ LinesOf(base)) :
        bag = [i \in Items |-> IF i \in LinesOf(base) \cup kept
                               THEN CapQuantity(base[i] + incoming[i]) ELSE 0]
  BY DEF MergeCartLines
<1> QED BY <1>2, <1>3, <1>4 DEF Bags

(* The emptied bag is one, and has no line (clearCart).                    *)
LEMMA NoLinesFits == NoLines \in Bags /\ LinesOf(NoLines) = {}
BY CapsArePositive DEF NoLines, Bags, LinesOf, CapsArePositive

(* A change of the bag leaves the screens as they were or closes them.     *)
LEMMA LeavingFits ==
    ASSUME Types, visits' = visits, Leave \/ StayOrLeave
    PROVE  /\ page' \in 0..(MaxVisits - visits) /\ settled' \in Bags
           /\ shown' \in Int \cup {None} /\ inFlight' \in BOOLEAN
           /\ last' \in Requests \cup {0} /\ conflict' \in Conflicts \cup {None}
           /\ submitted' \in Int
<1>1. 0 \in 0..(MaxVisits - visits)
  BY BoundsAreNatural DEF Types, BoundsAreNatural
<1>2. CASE Leave
  <2>1. /\ page' = 0 /\ settled' = NoLines /\ shown' = None /\ inFlight' = FALSE
        /\ last' = 0 /\ conflict' = None /\ submitted' = 0
    BY <1>2 DEF Leave
  <2>2. page' \in 0..(MaxVisits - visits)
    BY <1>1, <2>1
  <2>3. settled' \in Bags
    BY <2>1, NoLinesFits
  <2>4. shown' \in Int \cup {None} /\ conflict' \in Conflicts \cup {None}
    BY <2>1
  <2>5. inFlight' \in BOOLEAN
    BY <2>1
  <2>6. submitted' \in Int /\ last' \in Requests \cup {0}
    BY <2>1
  <2> QED BY <2>2, <2>3, <2>4, <2>5, <2>6
<1>3. CASE ~Leave
  <2>1. UNCHANGED <<page, settled, shown, inFlight, last, conflict, submitted>>
    BY <1>3 DEF StayOrLeave
  <2> QED BY <2>1 DEF Types
<1> QED BY <1>2, <1>3

(* The bag has its types after each step of it (AddLine to Logout).        *)
LEMMA BagTypes == ASSUME Types, Bag PROVE Types'
<1> USE DEF bagVars, pageVars, orderVars
<1>0. MAX_LINE_QUANTITY \in Nat /\ MAX_LINE_QUANTITY > 0
  BY CapsArePositive DEF CapsArePositive
<1>1. ASSUME NEW i \in Items, AddLine(i) PROVE Types'
  <2>1. lines[i] + 1 \in Nat
    BY DEF Types, Bags
  <2>2. CapQuantity(lines[i] + 1) \in 0..MAX_LINE_QUANTITY
    BY <2>1, CapFits
  <2>3. lines' \in Bags
    BY <1>1, <2>2 DEF AddLine, Types, Bags
  <2>4. wanted' \in [Items -> Int]
    BY <1>1 DEF AddLine, Types
  <2>5. picks' \in Nat /\ disturbed' \in BOOLEAN
    BY <1>1 DEF AddLine, Types, Disturb
  <2> QED BY <1>1, <2>3, <2>4, <2>5 DEF AddLine, Types
<1>2. ASSUME NEW i \in Items, NEW n \in 0..MAX_LINE_QUANTITY, SetQuantity(i, n) PROVE Types'
  <2>1. CapQuantity(n) \in 0..MAX_LINE_QUANTITY /\ 0 \in 0..MAX_LINE_QUANTITY
    BY <1>0, CapFits
  <2>2. lines' \in Bags
    BY <1>2, <2>1 DEF SetQuantity, Types, Bags
  <2>3. lines'[i] \in Int /\ lines[i] \in Int
    BY <2>2 DEF Types, Bags
  <2>4. wanted' \in [Items -> Int]
    BY <1>2, <2>3 DEF SetQuantity, Types
  <2>5. picks' \in Nat /\ disturbed' \in BOOLEAN /\ missed' \in BOOLEAN
    BY <1>2 DEF SetQuantity, Types, Disturb
  <2>6. visits' = visits /\ StayOrLeave
    BY <1>2 DEF SetQuantity
  <2> QED BY <1>2, <2>2, <2>4, <2>5, <2>6, LeavingFits DEF SetQuantity, Types
<1>3. ASSUME NEW c \in Customers, Login(c) PROVE Types'
  <2>1. stash[c] \in Bags /\ lines \in Bags /\ lines' \in MergeCartLines(stash[c], lines)
    BY <1>3 DEF Login, Types
  <2>2. lines' \in Bags
    BY <2>1, MergedFits
  <2>3. stash' \in [Customers -> Bags]
    BY <1>3, NoLinesFits DEF Login, StashCleared, Types
  <2>4. logins' \in Nat /\ disturbed' \in BOOLEAN /\ harmed' \in BOOLEAN
    BY <1>3 DEF Login, Types, Disturb
  <2> QED BY <1>3, <2>2, <2>3, <2>4 DEF Login, Types
<1>4. ASSUME Logout PROVE Types'
  <2>1. stash' \in [Customers -> Bags] /\ lines' \in Bags
    BY <1>4, NoLinesFits DEF Logout, Types
  <2>2. disturbed' \in BOOLEAN /\ missed' \in BOOLEAN
    BY <1>4 DEF Logout, Types, Disturb
  <2>3. visits' = visits /\ StayOrLeave
    BY <1>4 DEF Logout
  <2> QED BY <1>4, <2>1, <2>2, <2>3, LeavingFits DEF Logout, Types
<1> QED BY <1>1, <1>2, <1>3, <1>4 DEF Bag

(* A request that is sent is a body of its types.                          *)
LEMMA SendTypes ==
    ASSUME Types, NEW r \in Requests, NEW body \in Bodies, Send(r, body)
    PROVE  /\ sent' \in [Requests -> Bodies] /\ inFlight' \in BOOLEAN
           /\ last' \in Requests \cup {0} /\ disturbed' \in BOOLEAN
BY DEF Send, Types

(* The checkout has its types after each step of it.                       *)
LEMMA CheckoutTypes == ASSUME Types, VisitsFit, Checkout PROVE Types'
<1> USE DEF bagVars, pageVars, orderVars
<1>0. MaxVisits \in Nat
  BY BoundsAreNatural DEF BoundsAreNatural
<1>1. ASSUME OpenCheckout PROVE Types'
  <2>1. visits \in 0..MaxVisits /\ visits > 0
    BY <1>1 DEF OpenCheckout, Types
  <2>2. visits' = visits - 1 /\ page' = MaxVisits - visits + 1
    BY <1>1 DEF OpenCheckout
  <2>3. visits' \in 0..MaxVisits /\ page' \in 0..(MaxVisits - visits')
    BY <1>0, <2>1, <2>2
  <2>4. shown' \in Int \cup {None} /\ conflict' \in Conflicts \cup {None}
    BY <1>1 DEF OpenCheckout
  <2>5. inFlight' \in BOOLEAN
    BY <1>1 DEF OpenCheckout
  <2>6. submitted' \in Int /\ last' \in Requests \cup {0}
    BY <1>1 DEF OpenCheckout
  <2>7. settled' \in Bags
    BY <1>1 DEF OpenCheckout, Types
  <2> QED BY <1>1, <2>3, <2>4, <2>5, <2>6, <2>7 DEF OpenCheckout, Types
<1>2. ASSUME LeaveCheckout PROVE Types'
  <2>1. visits' = visits /\ Leave /\ missed' \in BOOLEAN
    BY <1>2 DEF LeaveCheckout, Types
  <2> QED BY <1>2, <2>1, LeavingFits DEF LeaveCheckout, Types
<1>3. ASSUME NEW c \in Ways, Choose(c) PROVE Types'
  BY <1>3 DEF Choose, Types
<1>4. ASSUME LinesSettle PROVE Types'
  BY <1>4 DEF LinesSettle, Types
<1>5. ASSUME QuoteArrives PROVE Types'
  <2>1. BagFits(settled) /\ ShopOpen
    BY DEF Types, BagFits, Bags, ShopOpen
  <2>2. QuoteOf(settled, choice).total \in Int
    BY <2>1, QuoteFits DEF Types
  <2> QED BY <1>5, <2>2 DEF QuoteArrives, Types
<1>6. ASSUME NEW r \in Requests, Finish(r) PROVE Types'
  <2>1. shown \in Int /\ settled \in Bags /\ choice \in Ways \cup {None}
    BY <1>6 DEF Finish, Types
  <2>2. Body(settled, choice, shown, shown) \in Bodies
    BY <2>1, BodyFits
  <2>3. Send(r, Body(settled, choice, shown, shown))
    BY <1>6 DEF Finish
  <2> QED BY <1>6, <2>1, <2>2, <2>3, SendTypes DEF Finish, Types
<1>7. ASSUME NEW r \in Requests, AcceptConflict(r) PROVE Types'
  <2>1. last \in Requests /\ conflict \in Conflicts
    BY <1>7 DEF AcceptConflict, Types, VisitsFit
  <2>2. /\ sent[last].lines \in Bags /\ sent[last].choice \in Ways \cup {None}
        /\ conflict.total \in Int
    BY <2>1 DEF Types, Bodies, Conflicts
  <2> DEFINE body == Body(sent[last].lines, sent[last].choice, conflict.total, conflict.total)
  <2>3. body \in Bodies
    BY <2>2, BodyFits
  <2>4. Send(r, body)
    BY <1>7 DEF AcceptConflict
  <2> HIDE DEF body
  <2> QED BY <1>7, <2>3, <2>4, SendTypes DEF AcceptConflict, Types
<1>8. ASSUME NEW r \in Requests, Retry(r) PROVE Types'
  <2>1. last \in Requests
    BY <1>8 DEF Retry, Types
  <2>2. /\ sent[last].lines \in Bags /\ sent[last].choice \in Ways \cup {None}
        /\ sent[last].expected \in Int /\ sent[last].seen \in Int
    BY <2>1 DEF Types, Bodies
  <2> DEFINE body == Body(sent[last].lines, sent[last].choice, sent[last].expected,
                          sent[last].seen)
  <2>3. body \in Bodies
    BY <2>2, BodyFits
  <2>4. Send(r, body)
    BY <1>8 DEF Retry
  <2> HIDE DEF body
  <2> QED BY <1>8, <2>3, <2>4, SendTypes DEF Retry, Types
<1>9. ASSUME DismissConflict PROVE Types'
  BY <1>9 DEF DismissConflict, Types
<1>10. ASSUME RemoveUnavailable PROVE Types'
  <2>1. \A i \in Items : lines[i] \in 0..MAX_LINE_QUANTITY /\ 0 \in 0..MAX_LINE_QUANTITY
    BY CapsArePositive DEF Types, Bags, CapsArePositive
  <2>2. lines' \in Bags
    BY <1>10, <2>1 DEF RemoveUnavailable, Bags
  <2>3. wanted' \in [Items -> Int]
    <3>1. \A i \in Items : lines'[i] \in Int /\ lines[i] \in Int /\ wanted[i] \in Int
      BY <2>2 DEF Types, Bags
    <3> QED BY <1>10, <3>1 DEF RemoveUnavailable
  <2>4. disturbed' \in BOOLEAN
    BY <1>10 DEF RemoveUnavailable, Types, Disturb
  <2>5. CASE LinesOf(lines') = {}
    <3>1. Leave /\ visits' = visits
      BY <1>10, <2>5 DEF RemoveUnavailable
    <3> QED BY <1>10, <2>2, <2>3, <2>4, <3>1, LeavingFits DEF RemoveUnavailable, Types
  <2>6. CASE LinesOf(lines') # {}
    BY <1>10, <2>2, <2>3, <2>4, <2>6 DEF RemoveUnavailable, Types
  <2> QED BY <2>5, <2>6
<1> QED BY <1>1, <1>2, <1>3, <1>4, <1>5, <1>6, <1>7, <1>8, <1>9, <1>10 DEF Checkout

(* What is kept of a request that was answered.                            *)
LEMMA AnsweredFits ==
    ASSUME Types, NEW r \in Requests
    PROVE  /\ Answered(r) \in Bodies /\ Answered(r).at = "done"
           /\ Answered(r).lines = sent[r].lines /\ Answered(r).made = sent[r].made
           /\ Answered(r).expected = sent[r].expected /\ Answered(r).seen = sent[r].seen
           /\ sent[r].made => Answered(r).total = sent[r].total
<1>1. sent[r] \in Bodies
  BY DEF Types
<1>2. sent[r].total \in Int /\ None \in Reasons
  BY <1>1 DEF Bodies, Reasons
<1> HIDE DEF Bags, Reasons
<1>3. Answered(r) \in Bodies
  <2> DEFINE t == IF sent[r].made THEN sent[r].total ELSE 0
  <2>1. t \in Int
    BY <1>2
  <2>2. Answered(r) = [sent[r] EXCEPT !.at = "done", !.visit = 0, !.reason = None, !.gone = {},
                                      !.total = t]
    BY DEF Answered
  <2>3. ASSUME NEW b \in Bodies, NEW n \in Int
        PROVE  [b EXCEPT !.at = "done", !.visit = 0, !.reason = None, !.gone = {},
                         !.total = n] \in Bodies
    BY <1>2, <2>3 DEF Bodies
  <2> HIDE DEF t, Bodies
  <2> QED BY <1>1, <2>1, <2>2, <2>3
<1>4. /\ Answered(r).at = "done" /\ Answered(r).lines = sent[r].lines
      /\ Answered(r).made = sent[r].made
      /\ Answered(r).expected = sent[r].expected /\ Answered(r).seen = sent[r].seen
  BY <1>1 DEF Answered, Bodies
<1>5. sent[r].made => Answered(r).total = sent[r].total
  BY <1>1 DEF Answered, Bodies
<1> QED BY <1>3, <1>4, <1>5

(* The server and its answers keep the types.                              *)
LEMMA ServerTypes == ASSUME Types, VisitsFit, Server PROVE Types'
<1> USE DEF bagVars, pageVars, orderVars
<1>0. \A r \in Requests : sent[r] \in Bodies
  BY DEF Types
<1>1. ASSUME NEW r \in Requests, Receive(r) PROVE Types'
  <2> DEFINE quote == QuoteOf(sent[r].lines, sent[r].choice)
  <2>1. sent[r].lines \in Bags /\ sent[r].choice \in Ways \cup {None}
    BY <1>0 DEF Bodies
  <2>2. quote.total \in Int /\ quote.gone \in SUBSET Items
    <3>1. BagFits(sent[r].lines) /\ ShopOpen
      BY <2>1 DEF Types, BagFits, Bags, ShopOpen
    <3> QED BY <2>1, <3>1, QuoteFits
  <2> HIDE DEF quote
  <2>3. CASE quote.gone = {} /\ TotalHolds(r, quote)
    <3>1. /\ sent' = [sent EXCEPT ![r].at = "created", ![r].made = TRUE,
                                  ![r].total = quote.total]
          /\ catalog' = Taken(sent[r].lines)
      BY <1>1, <2>3 DEF Receive, quote
    <3>2. sent' \in [Requests -> Bodies]
      <4> DEFINE b == [sent[r] EXCEPT !.at = "created", !.made = TRUE, !.total = quote.total]
      <4>1. sent[r] \in Bodies
        BY <1>0
      <4> HIDE DEF Bags, Reasons
      <4>2. b \in Bodies
        BY <4>1, <2>2 DEF Bodies
      <4>3. sent' = [sent EXCEPT ![r] = b]
        BY <3>1 DEF Types
      <4> HIDE DEF b
      <4> QED BY <4>2, <4>3 DEF Types
    <3>3. catalog' \in [Items -> Sold]
      <4>1. ASSUME NEW i \in Items PROVE [catalog[i] EXCEPT !.stock = @ - sent[r].lines[i]] \in Sold
        <5>1. catalog[i] \in Sold /\ sent[r].lines[i] \in Nat
          BY <2>1 DEF Types, Bags
        <5>2. catalog[i].stock - sent[r].lines[i] \in Int
          BY <5>1 DEF Sold
        <5> QED BY <5>1, <5>2 DEF Sold
      <4> QED BY <3>1, <4>1 DEF Taken
    <3> QED BY <1>1, <3>2, <3>3 DEF Receive, Types
  <2>4. CASE ~(quote.gone = {} /\ TotalHolds(r, quote))
    <3> DEFINE reason == IF quote.gone # {} THEN "items" ELSE "total"
    <3>1. /\ sent' = [sent EXCEPT ![r].at = "conflict", ![r].reason = reason,
                                  ![r].total = quote.total, ![r].gone = quote.gone]
          /\ UNCHANGED catalog
      BY <1>1, <2>4 DEF Receive, quote
    <3>2. reason \in Reasons
      BY DEF Reasons
    <3> HIDE DEF reason
    <3>3. sent' \in [Requests -> Bodies]
      <4> DEFINE b == [sent[r] EXCEPT !.at = "conflict", !.reason = reason,
                                      !.total = quote.total, !.gone = quote.gone]
      <4>1. sent[r] \in Bodies
        BY <1>0
      <4> HIDE DEF Bags, Reasons
      <4>2. b \in Bodies
        BY <4>1, <2>2, <3>2 DEF Bodies
      <4>3. sent' = [sent EXCEPT ![r] = b]
        BY <3>1 DEF Types
      <4> HIDE DEF b
      <4> QED BY <4>2, <4>3 DEF Types
    <3> QED BY <1>1, <3>1, <3>3 DEF Receive, Types
  <2> QED BY <2>3, <2>4
<1>2. ASSUME NEW r \in Requests, GoesWrong(r) PROVE Types'
  <2>1. sent' \in [Requests -> Bodies]
    BY <1>0, <1>2 DEF GoesWrong, Types, Bodies
  <2> QED BY <1>2, <2>1 DEF GoesWrong, Types
<1>3. ASSUME NEW r \in Requests, AnswerCreated(r) PROVE Types'
  <2>1. sent' \in [Requests -> Bodies]
    BY <1>3, AnsweredFits DEF AnswerCreated, Types
  <2>2. bought' \in [Items -> Nat]
    <3>1. \A i \in Items : bought[i] \in Nat /\ sent[r].lines[i] \in Nat
      BY <1>0 DEF Types, Bodies, Bags
    <3> QED BY <1>3, <3>1 DEF AnswerCreated
  <2>3. Leave /\ visits' = visits /\ harmed' \in BOOLEAN /\ disturbed' \in BOOLEAN
    BY <1>3 DEF AnswerCreated, Types
  <2> QED BY <1>3, <2>1, <2>2, <2>3, LeavingFits, NoLinesFits DEF AnswerCreated, Types
<1>4. ASSUME NEW r \in Requests, AnswerRefused(r) PROVE Types'
  <2>1. sent' \in [Requests -> Bodies]
    <3>1. Answered(r) \in Bodies
      BY AnsweredFits
    <3> HIDE DEF Bags
    <3> QED BY <1>4, <3>1 DEF AnswerRefused, Types, Bodies
  <2>2. inFlight' \in BOOLEAN /\ conflict' \in Conflicts \cup {None}
    <3>1. [reason |-> sent[r].reason, total |-> sent[r].total, gone |-> sent[r].gone] \in Conflicts
      BY <1>0 DEF Bodies, Conflicts
    <3> QED BY <1>4, <3>1 DEF AnswerRefused, Types
  <2> QED BY <1>4, <2>1, <2>2 DEF AnswerRefused, Types
<1>5. ASSUME ShopChanges PROVE Types'
  <2>1. PICK d \in Deals : catalog' = [catalog EXCEPT ![d.item].price = d.price,
                                                      ![d.item].active = d.active]
    BY <1>5 DEF ShopChanges
  <2>2. d.item \in Items /\ d.price \in Nat /\ d.active \in BOOLEAN
    BY ShopFits DEF ShopFits
  <2>3. catalog' \in [Items -> Sold]
    BY <2>1, <2>2 DEF Types, Sold
  <2> QED BY <1>5, <2>3 DEF ShopChanges, Types
<1> QED BY <1>1, <1>2, <1>3, <1>4, <1>5 DEF Server

(* Every step keeps the types.                                             *)
LEMMA TypesKept == ASSUME Types, VisitsFit, [Next]_vars PROVE Types'
<1>1. CASE UNCHANGED vars
  BY <1>1 DEF vars, bagVars, pageVars, orderVars, Types
<1> QED BY <1>1, BagTypes, CheckoutTypes, ServerTypes DEF Next

(***************************************************************************)
(* What the steps do to the requests and to the page, whatever they do to  *)
(* the rest.                                                               *)
(***************************************************************************)
\* The steps of the screen and of the shop that leave the bag and the requests.
Still ==
    /\ UNCHANGED <<lines, stash, user, page, visits, sent, inFlight, last, wanted, bought,
                   disturbed, harmed, missed>>
    /\ conflict' \in {conflict, None}

Moves ==
    \/ \E i \in Items : AddLine(i) \/ \E n \in 0..MAX_LINE_QUANTITY : SetQuantity(i, n)
    \/ \E c \in Customers : Login(c)
    \/ Logout \/ RemoveUnavailable \/ OpenCheckout \/ LeaveCheckout

Sends(r) == Finish(r) \/ AcceptConflict(r) \/ Retry(r)
Advances(r) == Receive(r) \/ GoesWrong(r)

(* Every step is one of these.                                             *)
LEMMA KindsOfSteps ==
    ASSUME [Next]_vars
    PROVE  \/ Still \/ Moves
           \/ \E r \in Requests : Sends(r) \/ Advances(r) \/ AnswerCreated(r) \/ AnswerRefused(r)
<1> USE DEF bagVars, pageVars, orderVars
<1>1. CASE UNCHANGED vars
  BY <1>1 DEF vars, Still
<1>2. CASE \E c \in Ways : Choose(c)
  BY <1>2 DEF Choose, Still
<1>3. CASE LinesSettle
  BY <1>3 DEF LinesSettle, Still
<1>4. CASE QuoteArrives
  BY <1>4 DEF QuoteArrives, Still
<1>5. CASE DismissConflict
  BY <1>5 DEF DismissConflict, Still
<1>6. CASE ShopChanges
  BY <1>6 DEF ShopChanges, Still
<1> HIDE DEF bagVars, pageVars, orderVars
<1> QED BY <1>1, <1>2, <1>3, <1>4, <1>5, <1>6 DEF Next, Bag, Checkout, Server, Moves, Sends, Advances

(* A request is sent with the total that was seen, from a page that is     *)
(* open, when no other is being answered (useCreateOrder).                 *)
LEMMA Sending ==
    ASSUME Types, VisitsFit, SeenAndCharged, NEW r \in Requests, Sends(r)
    PROVE  /\ sent'[r].at = "server" /\ ~sent'[r].made /\ sent'[r].expected = sent'[r].seen
           /\ sent'[r].visit = page /\ page # 0
           /\ ~disturbed' => sent'[r].lines = lines /\ (~disturbed \/ UnderWay = {})
           /\ ~inFlight /\ inFlight' /\ last' = r
           /\ \A o \in Requests \ {r} : sent'[o] = sent[o]
           /\ UnderWay' = UnderWay \cup {r} /\ Made' = Made /\ Closed' = Closed
           /\ r \notin UnderWay /\ r \notin Made
           /\ conflict' = None \/ (conflict' = conflict /\ sent[last].at = "failed")
           /\ UNCHANGED <<lines, stash, user, page, visits, wanted, bought, harmed, missed>>
<1> USE DEF bagVars, pageVars, orderVars
<1>1. \E bag \in Bags, chosen \in Ways \cup {None}, total \in Int :
            Send(r, Body(bag, chosen, total, total)) /\ page # 0
  <2>1. CASE Finish(r)
    <3>1. shown \in Int /\ settled \in Bags /\ choice \in Ways \cup {None}
      BY <2>1 DEF Finish, Types
    <3> QED BY <2>1, <3>1 DEF Finish
  <2>2. CASE AcceptConflict(r)
    <3>1. last \in Requests /\ conflict \in Conflicts
      BY <2>2 DEF AcceptConflict, Types, VisitsFit
    <3>2. /\ sent[last].lines \in Bags /\ sent[last].choice \in Ways \cup {None}
          /\ conflict.total \in Int
      BY <3>1 DEF Types, Bodies, Conflicts
    <3> QED BY <2>2, <3>2 DEF AcceptConflict
  <2>3. CASE Retry(r)
    <3>1. last \in Requests
      BY <2>3 DEF Retry, Types
    <3>2. /\ sent[last].lines \in Bags /\ sent[last].choice \in Ways \cup {None}
          /\ sent[last].expected \in Int /\ sent[last].seen = sent[last].expected
      BY <3>1 DEF Types, Bodies, SeenAndCharged
    <3> QED BY <2>3, <3>2 DEF Retry
  <2> QED BY <2>1, <2>2, <2>3 DEF Sends
<1>2. PICK bag \in Bags, chosen \in Ways \cup {None}, total \in Int :
            Send(r, Body(bag, chosen, total, total)) /\ page # 0
  BY <1>1
<1> DEFINE body == Body(bag, chosen, total, total)
<1>3. /\ body.at = "server" /\ ~body.made /\ body.lines = bag /\ body.expected = total
      /\ body.seen = total /\ body.visit = page
  BY <1>2, BodyFits
<1> HIDE DEF body
<1>4. /\ sent[r].at = "unused" /\ ~inFlight /\ inFlight' = TRUE /\ last' = r
      /\ sent' = [sent EXCEPT ![r] = body]
      /\ disturbed' = (body.lines # lines \/ (disturbed /\ UnderWay # {}))
  BY <1>2 DEF Send, IsNext, body
<1>5. sent'[r] = body /\ \A o \in Requests \ {r} : sent'[o] = sent[o]
  BY <1>4 DEF Types
<1>6. UnderWay' = UnderWay \cup {r} /\ r \notin UnderWay
  BY <1>3, <1>4, <1>5 DEF UnderWay
<1>7. ~sent[r].made
  BY <1>4 DEF SeenAndCharged
<1>8. Made' = Made /\ r \notin Made
  BY <1>3, <1>5, <1>7 DEF Made
<1>9. Closed' = Closed
  BY <1>5, <1>8 DEF Closed, Made
<1>10. conflict' = None \/ (conflict' = conflict /\ sent[last].at = "failed")
  BY DEF Sends, Finish, AcceptConflict, Retry
<1>11. UNCHANGED <<lines, stash, user, page, visits, wanted, bought, harmed, missed>>
  BY DEF Sends, Finish, AcceptConflict, Retry
<1> QED BY <1>2, <1>3, <1>4, <1>5, <1>6, <1>8, <1>9, <1>10, <1>11

(* The server, and what the network does, move one request on and touch no *)
(* screen and no bag (OrdersService.create).                               *)
LEMMA Advancing ==
    ASSUME Types, SeenAndCharged, NEW r \in Requests, Advances(r)
    PROVE  /\ UnderWay' = UnderWay /\ r \in UnderWay
           /\ \A o \in Requests : /\ sent'[o].lines = sent[o].lines
                                  /\ sent'[o].visit = sent[o].visit
                                  /\ sent'[o].expected = sent[o].expected
                                  /\ sent'[o].seen = sent[o].seen
           /\ \A o \in Requests \ {r} : sent'[o] = sent[o]
           /\ sent'[r].at \in {"created", "conflict", "refused"}
           /\ \/ /\ sent[r].at = "server" /\ sent'[r].at = "created" /\ sent'[r].made
                 /\ sent'[r].total = sent[r].expected
              \/ /\ sent[r].at = "server" /\ sent'[r].at # "created" /\ ~sent'[r].made
              \/ /\ sent[r].at = "created" /\ sent'[r].at # "created" /\ sent'[r].made
                 /\ sent'[r].total = sent[r].total /\ missed'
           /\ missed => missed'
           /\ UNCHANGED <<lines, stash, user, page, visits, inFlight, last, conflict, wanted,
                          bought, disturbed, harmed>>
<1> USE DEF bagVars, pageVars
<1>0. sent[r] \in Bodies
  BY DEF Types
<1>1. CASE Receive(r)
  <2> DEFINE quote == QuoteOf(sent[r].lines, sent[r].choice)
             reason == IF quote.gone # {} THEN "items" ELSE "total"
  <2>1. \/ /\ sent' = [sent EXCEPT ![r].at = "created", ![r].made = TRUE,
                                   ![r].total = quote.total]
           /\ TotalHolds(r, quote)
        \/ sent' = [sent EXCEPT ![r].at = "conflict", ![r].reason = reason,
                                ![r].total = quote.total, ![r].gone = quote.gone]
    BY <1>1 DEF Receive
  <2> HIDE DEF quote, reason
  <2>2. /\ \A o \in Requests \ {r} : sent'[o] = sent[o]
        /\ sent'[r].lines = sent[r].lines /\ sent'[r].visit = sent[r].visit
        /\ sent'[r].expected = sent[r].expected /\ sent'[r].seen = sent[r].seen
    BY <1>0, <2>1 DEF Types, Bodies
  <2>3. \/ sent'[r].at = "created" /\ sent'[r].made /\ sent'[r].total = sent[r].expected
        \/ sent'[r].at = "conflict" /\ sent'[r].made = sent[r].made
    BY <1>0, <2>1 DEF Types, Bodies, TotalHolds
  <2>4. sent[r].at = "server" /\ ~sent[r].made
    BY <1>1 DEF Receive, SeenAndCharged
  <2>5. UnderWay' = UnderWay /\ r \in UnderWay
    BY <2>2, <2>3, <2>4 DEF UnderWay
  <2>6. UNCHANGED <<lines, stash, user, page, visits, inFlight, last, conflict, wanted,
                    bought, disturbed, harmed, missed>>
    BY <1>1 DEF Receive
  <2> QED BY <2>2, <2>3, <2>4, <2>5, <2>6
<1>2. CASE GoesWrong(r)
  <2>1. /\ sent' = [sent EXCEPT ![r].at = "refused"] /\ sent[r].at \in {"server", "created"}
        /\ missed' = (missed \/ sent[r].at = "created")
    BY <1>2 DEF GoesWrong
  <2>2. /\ \A o \in Requests \ {r} : sent'[o] = sent[o]
        /\ sent'[r].lines = sent[r].lines /\ sent'[r].visit = sent[r].visit
        /\ sent'[r].expected = sent[r].expected /\ sent'[r].seen = sent[r].seen
        /\ sent'[r].at = "refused" /\ sent'[r].made = sent[r].made
        /\ sent'[r].total = sent[r].total
    BY <1>0, <2>1 DEF Types, Bodies
  <2>3. UnderWay' = UnderWay /\ r \in UnderWay
    BY <2>1, <2>2 DEF UnderWay
  <2>4. sent[r].at = "server" => ~sent[r].made
    BY DEF SeenAndCharged
  <2>5. sent[r].at = "created" => sent[r].made
    BY DEF SeenAndCharged
  <2>6. UNCHANGED <<lines, stash, user, page, visits, inFlight, last, conflict, wanted,
                    bought, disturbed, harmed>>
    BY <1>2 DEF GoesWrong
  <2> QED BY <2>1, <2>2, <2>3, <2>4, <2>5, <2>6
<1> QED BY <1>1, <1>2 DEF Advances

(* An answer takes one request out of what is under way and leaves its     *)
(* body as it was (AnswerCreated, AnswerRefused).                          *)
LEMMA Answering ==
    ASSUME Types, NEW r \in Requests, AnswerCreated(r) \/ AnswerRefused(r)
    PROVE  /\ r \in UnderWay /\ UnderWay' = UnderWay \ {r}
           /\ \A o \in Requests \ {r} : sent'[o] = sent[o]
           /\ sent'[r].lines = sent[r].lines /\ sent'[r].expected = sent[r].expected
           /\ sent'[r].seen = sent[r].seen /\ sent'[r].made = sent[r].made
           /\ sent[r].made => sent'[r].total = sent[r].total
           /\ sent'[r].at = IF sent[r].at = "refused" THEN "failed" ELSE "done"
           /\ missed' = missed /\ visits' = visits
<1>0. sent[r] \in Bodies /\ Answered(r) \in Bodies
  BY AnsweredFits DEF Types
<1>1. CASE AnswerCreated(r)
  <2>1. sent[r].at = "created" /\ sent' = [sent EXCEPT ![r] = Answered(r)]
    BY <1>1 DEF AnswerCreated
  <2>2. sent'[r] = Answered(r) /\ \A o \in Requests \ {r} : sent'[o] = sent[o]
    BY <2>1 DEF Types
  <2>3. r \in UnderWay /\ UnderWay' = UnderWay \ {r}
    BY <2>1, <2>2, AnsweredFits DEF UnderWay
  <2>4. missed' = missed /\ visits' = visits
    BY <1>1 DEF AnswerCreated
  <2> QED BY <2>1, <2>2, <2>3, <2>4, AnsweredFits
<1>2. CASE AnswerRefused(r)
  <2> DEFINE b == [Answered(r) EXCEPT !.at = IF sent[r].at = "conflict" THEN "done" ELSE "failed"]
  <2>1. sent[r].at \in {"conflict", "refused"} /\ sent' = [sent EXCEPT ![r] = b]
    BY <1>2 DEF AnswerRefused
  <2>2. /\ b.lines = sent[r].lines /\ b.expected = sent[r].expected /\ b.seen = sent[r].seen
        /\ b.made = sent[r].made /\ (sent[r].made => b.total = sent[r].total)
        /\ b.at = IF sent[r].at = "conflict" THEN "done" ELSE "failed"
    BY <1>0, AnsweredFits DEF Bodies
  <2> HIDE DEF b
  <2>3. sent'[r] = b /\ \A o \in Requests \ {r} : sent'[o] = sent[o]
    BY <2>1 DEF Types
  <2>4. r \in UnderWay /\ UnderWay' = UnderWay \ {r}
    BY <2>1, <2>2, <2>3 DEF UnderWay
  <2>5. missed' = missed /\ visits' = visits
    BY <1>2 DEF AnswerRefused, pageVars
  <2> QED BY <2>1, <2>2, <2>3, <2>4, <2>5
<1> QED BY <1>1, <1>2

(* A change of the bag, or of the page, leaves the requests; it keeps the  *)
(* page as it is, closes it, or opens the next visit (setQuantity and the  *)
(* others, the guards of the checkout page).                               *)
LEMMA Moving ==
    ASSUME Types, Moves
    PROVE  /\ UNCHANGED <<sent, bought>>
           /\ UnderWay' = UnderWay /\ Made' = Made /\ Closed' = Closed
           /\ missed => missed'
           /\ \/ UNCHANGED <<page, visits, last, inFlight>> /\ conflict' \in {conflict, None}
              \/ /\ Leave /\ visits' = visits
                 /\ missed' \/ UnderWay = {} \/ conflict # None
              \/ OpenCheckout
<1> USE DEF bagVars, pageVars, orderVars
<1>0. ASSUME UNCHANGED sent PROVE UnderWay' = UnderWay /\ Made' = Made /\ Closed' = Closed
  BY <1>0 DEF UnderWay, Made, Closed
<1>1. ASSUME NEW i \in Items, AddLine(i)
      PROVE  /\ UNCHANGED <<sent, bought, missed, page, visits, last, inFlight, conflict>>
  BY <1>1 DEF AddLine
<1>2. ASSUME NEW i \in Items, NEW n \in 0..MAX_LINE_QUANTITY, SetQuantity(i, n)
      PROVE  /\ UNCHANGED <<sent, bought, visits>> /\ (missed => missed')
             /\ \/ UNCHANGED <<page, last, inFlight, conflict>>
                \/ Leave /\ (missed' \/ UnderWay = {})
  <2>1. /\ UNCHANGED <<sent, bought, visits>> /\ StayOrLeave
        /\ missed' = (missed \/ (page # page' /\ UnderWay # {}))
    BY <1>2 DEF SetQuantity
  <2>2. CASE page # 0 /\ LinesOf(lines') = {}
    BY <2>1, <2>2 DEF StayOrLeave, Leave
  <2>3. CASE ~(page # 0 /\ LinesOf(lines') = {})
    BY <2>1, <2>3 DEF StayOrLeave
  <2> QED BY <2>2, <2>3
<1>3. ASSUME NEW c \in Customers, Login(c)
      PROVE  /\ UNCHANGED <<sent, bought, missed, page, visits, last, inFlight, conflict>>
  BY <1>3 DEF Login
<1>4. ASSUME Logout
      PROVE  /\ UNCHANGED <<sent, bought, visits>> /\ (missed => missed')
             /\ \/ UNCHANGED <<page, last, inFlight, conflict>>
                \/ Leave /\ (missed' \/ UnderWay = {})
  BY <1>4 DEF Logout, StayOrLeave
<1>5. ASSUME RemoveUnavailable
      PROVE  /\ UNCHANGED <<sent, bought, visits, missed>>
             /\ \/ UNCHANGED <<page, last, inFlight>> /\ conflict' = None
                \/ Leave /\ conflict # None
  BY <1>5 DEF RemoveUnavailable
<1>6. ASSUME OpenCheckout PROVE UNCHANGED <<sent, bought, missed>>
  BY <1>6 DEF OpenCheckout
<1>7. ASSUME LeaveCheckout
      PROVE  /\ UNCHANGED <<sent, bought, visits>> /\ (missed => missed')
             /\ Leave /\ (missed' \/ UnderWay = {})
  BY <1>7 DEF LeaveCheckout
<1> HIDE DEF bagVars, pageVars, orderVars
<1> QED BY <1>0, <1>1, <1>2, <1>3, <1>4, <1>5, <1>6, <1>7 DEF Moves

(***************************************************************************)
(* Each part of the invariant, step by step.                               *)
(***************************************************************************)
(* What an answer says reaches the visit that asked for it, or nobody.     *)
LEMMA VisitsKept ==
    ASSUME Types, VisitsFit, SeenAndCharged, [Next]_vars PROVE VisitsFit'
<1>0. MaxVisits \in Nat /\ visits \in 0..MaxVisits /\ page \in 0..(MaxVisits - visits)
  BY BoundsAreNatural DEF BoundsAreNatural, Types
<1>1. CASE Still
  <2>1. UnderWay' = UnderWay
    BY <1>1 DEF Still, UnderWay
  <2> QED BY <1>1, <2>1 DEF Still, VisitsFit
<1>2. CASE Moves
  <2>1. UnderWay' = UnderWay /\ UNCHANGED sent
    BY <1>2, Moving
  <2>2. CASE UNCHANGED <<page, visits, last, inFlight>> /\ conflict' \in {conflict, None}
    BY <2>1, <2>2 DEF VisitsFit
  <2>3. CASE Leave /\ visits' = visits
    BY <1>0, <2>1, <2>3 DEF VisitsFit, Leave
  <2>4. CASE OpenCheckout
    <3>1. /\ visits > 0 /\ visits' = visits - 1 /\ page' = MaxVisits - visits + 1
          /\ conflict' = None
      BY <2>4 DEF OpenCheckout
    <3>2. \A r \in UnderWay : sent[r].visit \in 1..(MaxVisits - visits)
      BY DEF VisitsFit
    <3>3. \A r \in UnderWay : sent[r].visit \in 1..(MaxVisits - visits') /\ sent[r].visit # page'
      BY <1>0, <3>1, <3>2
    <3> QED BY <2>1, <3>1, <3>3 DEF VisitsFit
  <2> QED BY <1>2, <2>2, <2>3, <2>4, Moving
<1>3. ASSUME NEW r \in Requests, Sends(r) PROVE VisitsFit'
  <2>1. r # 0
    BY RequestsAreNumbers DEF RequestsAreNumbers
  <2>2. /\ last' = r /\ page' = page /\ visits' = visits /\ page # 0
        /\ UnderWay' = UnderWay \cup {r} /\ sent'[r].visit = page
        /\ \A o \in Requests \ {r} : sent'[o] = sent[o]
    BY <1>3, Sending
  <2>3. ASSUME NEW o \in UnderWay \cup {r} PROVE sent'[o].visit \in 1..(MaxVisits - visits)
    <3>1. CASE o = r
      BY <1>0, <2>2, <3>1
    <3>2. CASE o # r
      BY <2>2, <2>3, <3>2 DEF VisitsFit, UnderWay
    <3> QED BY <3>1, <3>2
  <2> QED BY <2>1, <2>2, <2>3 DEF VisitsFit
<1>4. ASSUME NEW r \in Requests, Advances(r) PROVE VisitsFit'
  <2>1. \A o \in UnderWay : o \in Requests
    BY DEF UnderWay
  <2> QED BY <1>4, <2>1, Advancing DEF VisitsFit
<1>5. ASSUME NEW r \in Requests, AnswerCreated(r) PROVE VisitsFit'
  <2>1. Leave /\ UnderWay' = UnderWay \ {r} /\ visits' = visits
        /\ \A o \in Requests \ {r} : sent'[o] = sent[o]
    BY <1>5, Answering DEF AnswerCreated
  <2>2. \A o \in UnderWay' : sent'[o].visit \in 1..(MaxVisits - visits)
    BY <2>1 DEF VisitsFit, UnderWay
  <2>3. page' = 0 /\ conflict' = None
    BY <2>1 DEF Leave
  <2> QED BY <1>0, <2>1, <2>2, <2>3 DEF VisitsFit
<1>6. ASSUME NEW r \in Requests, AnswerRefused(r) PROVE VisitsFit'
  <2>1. r \in UnderWay /\ UnderWay' = UnderWay \ {r} /\ visits' = visits
        /\ \A o \in Requests \ {r} : sent'[o] = sent[o]
    BY <1>6, Answering
  <2>2. UNCHANGED <<page, last>>
    BY <1>6 DEF AnswerRefused, pageVars
  <2>3. \A o \in UnderWay' : /\ sent'[o].visit \in 1..(MaxVisits - visits)
                             /\ sent'[o].visit = page => last # 0
    BY <2>1 DEF VisitsFit, UnderWay
  <2>4. conflict' # None => last # 0 /\ page # 0
    <3>1. CASE sent[r].visit = page
      BY <1>0, <2>1, <3>1 DEF VisitsFit
    <3>2. CASE sent[r].visit # page
      BY <1>6, <3>2 DEF VisitsFit, AnswerRefused
    <3> QED BY <3>1, <3>2
  <2> QED BY <2>1, <2>2, <2>3, <2>4 DEF VisitsFit
<1> QED BY <1>1, <1>2, <1>3, <1>4, <1>5, <1>6, KindsOfSteps

(* A made order costs what was seen, whoever sent it and however often.    *)
LEMMA ChargesKept ==
    ASSUME Types, VisitsFit, SeenAndCharged, [Next]_vars PROVE SeenAndCharged'
<1>1. CASE UNCHANGED sent
  BY <1>1 DEF SeenAndCharged
<1>2. ASSUME NEW r \in Requests, Sends(r) PROVE SeenAndCharged'
  <2> SUFFICES ASSUME NEW o \in Requests
               PROVE  /\ sent'[o].expected = sent'[o].seen
                      /\ sent'[o].at \in {"unused", "server"} => ~sent'[o].made
                      /\ sent'[o].at = "created" => sent'[o].made
                      /\ sent'[o].made => sent'[o].total = sent'[o].seen
    BY DEF SeenAndCharged
  <2>1. CASE o = r
    BY <1>2, <2>1, Sending
  <2>2. CASE o # r
    BY <1>2, <2>2, Sending DEF SeenAndCharged
  <2> QED BY <2>1, <2>2
<1>3. ASSUME NEW r \in Requests, Advances(r) PROVE SeenAndCharged'
  <2> SUFFICES ASSUME NEW o \in Requests
               PROVE  /\ sent'[o].expected = sent'[o].seen
                      /\ sent'[o].at \in {"unused", "server"} => ~sent'[o].made
                      /\ sent'[o].at = "created" => sent'[o].made
                      /\ sent'[o].made => sent'[o].total = sent'[o].seen
    BY DEF SeenAndCharged
  <2>1. CASE o = r
    BY <1>3, <2>1, Advancing DEF SeenAndCharged
  <2>2. CASE o # r
    BY <1>3, <2>2, Advancing DEF SeenAndCharged
  <2> QED BY <2>1, <2>2
<1>4. ASSUME NEW r \in Requests, AnswerCreated(r) \/ AnswerRefused(r) PROVE SeenAndCharged'
  <2> SUFFICES ASSUME NEW o \in Requests
               PROVE  /\ sent'[o].expected = sent'[o].seen
                      /\ sent'[o].at \in {"unused", "server"} => ~sent'[o].made
                      /\ sent'[o].at = "created" => sent'[o].made
                      /\ sent'[o].made => sent'[o].total = sent'[o].seen
    BY DEF SeenAndCharged
  <2>1. CASE o = r
    BY <1>4, <2>1, Answering DEF SeenAndCharged
  <2>2. CASE o # r
    BY <1>4, <2>2, Answering DEF SeenAndCharged
  <2> QED BY <2>1, <2>2
<1> QED BY <1>1, <1>2, <1>3, <1>4, KindsOfSteps, Moving DEF Still

(* Every order costs what was seen: the second part of the invariant says  *)
(* it (ChargedWhatWasSeen).                                                *)
LEMMA ChargesAreSeen == SeenAndCharged => ChargedWhatWasSeen
BY DEF SeenAndCharged, ChargedWhatWasSeen, Made

(* One order at a time, as long as the page sees the end of each.          *)
LEMMA OneAtATimeKept ==
    ASSUME Types, VisitsFit, SeenAndCharged, OneAtATime, [Next]_vars PROVE OneAtATime'
<1> SUFFICES ASSUME ~missed'
             PROVE  /\ \A r \in UnderWay' : /\ r = last' /\ inFlight' /\ page' # 0
                                            /\ sent'[r].visit = page'
                    /\ conflict' # None => ~inFlight' /\ sent'[last'].at = "done"
  BY DEF OneAtATime
<1>1. CASE Still
  <2>1. UnderWay' = UnderWay
    BY <1>1 DEF Still, UnderWay
  <2> QED BY <1>1, <2>1 DEF Still, OneAtATime
<1>2. CASE Moves
  <2>1. UnderWay' = UnderWay /\ UNCHANGED sent /\ ~missed
    BY <1>2, Moving
  <2>2. CASE UNCHANGED <<page, visits, last, inFlight>> /\ conflict' \in {conflict, None}
    BY <2>1, <2>2 DEF OneAtATime
  <2>3. CASE Leave /\ (UnderWay = {} \/ conflict # None)
    <3>1. UnderWay = {}
      BY <2>1, <2>3 DEF OneAtATime
    <3> QED BY <2>1, <2>3, <3>1 DEF Leave
  <2>4. CASE OpenCheckout
    <3>1. page = 0 /\ conflict' = None
      BY <2>4 DEF OpenCheckout
    <3>2. UnderWay = {}
      BY <2>1, <3>1 DEF OneAtATime
    <3> QED BY <2>1, <3>1, <3>2
  <2> QED BY <1>2, <2>2, <2>3, <2>4, Moving
<1>3. ASSUME NEW r \in Requests, Sends(r)
      PROVE  /\ \A o \in UnderWay' : /\ o = last' /\ inFlight' /\ page' # 0
                                     /\ sent'[o].visit = page'
             /\ conflict' # None => ~inFlight' /\ sent'[last'].at = "done"
  <2>1. ~missed /\ ~inFlight
    BY <1>3, Sending
  <2>2. UnderWay = {}
    BY <2>1 DEF OneAtATime
  <2>3. conflict' = None
    BY <1>3, <2>1, Sending DEF OneAtATime
  <2> QED BY <1>3, <2>2, <2>3, Sending
<1>4. ASSUME NEW r \in Requests, Advances(r)
      PROVE  /\ \A o \in UnderWay' : /\ o = last' /\ inFlight' /\ page' # 0
                                     /\ sent'[o].visit = page'
             /\ conflict' # None => ~inFlight' /\ sent'[last'].at = "done"
  <2>1. ~missed /\ UnderWay' = UnderWay /\ r \in UnderWay /\ \A o \in UnderWay : o \in Requests
    BY <1>4, Advancing DEF UnderWay
  <2>2. inFlight
    BY <2>1 DEF OneAtATime
  <2> QED BY <1>4, <2>1, <2>2, Advancing DEF OneAtATime
<1>5. ASSUME NEW r \in Requests, AnswerCreated(r) \/ AnswerRefused(r)
      PROVE  /\ \A o \in UnderWay' : /\ o = last' /\ inFlight' /\ page' # 0
                                     /\ sent'[o].visit = page'
             /\ conflict' # None => ~inFlight' /\ sent'[last'].at = "done"
  <2>1. ~missed /\ r \in UnderWay /\ UnderWay' = UnderWay \ {r}
    BY <1>5, Answering
  <2>2. r = last /\ inFlight /\ sent[r].visit = page /\ conflict = None
    BY <2>1 DEF OneAtATime
  <2>3. UnderWay' = {}
    BY <2>1, <2>2 DEF OneAtATime
  <2>4. CASE AnswerCreated(r)
    BY <2>3, <2>4 DEF AnswerCreated, Leave
  <2>5. CASE AnswerRefused(r)
    <3>1. /\ inFlight' = FALSE /\ last' = last
          /\ sent[r].at = "refused" => conflict' = None
      BY <2>2, <2>5 DEF AnswerRefused
    <3>2. sent[r].at # "refused" => sent'[r].at = "done"
      BY <1>5, Answering
    <3> QED BY <2>2, <2>3, <3>1, <3>2
  <2> QED BY <1>5, <2>4, <2>5
<1> QED BY <1>1, <1>2, <1>3, <1>4, <1>5, KindsOfSteps

(* What is put away is a number of units.                                  *)
LEMMA PutAwayNat == ASSUME Types, NEW i \in Items PROVE PutAway(i) \in Nat
<1> DEFINE units == [c \in Customers |-> stash[c][i]]
<1>1. units \in [Customers -> Nat]
  BY DEF Types, Bags
<1>2. PutAway(i) = Total(units)
  BY DEF PutAway
<1> HIDE DEF units
<1> QED BY <1>1, <1>2, KeptFits, TotalNat DEF KeptFits

(* Putting a bag away under one name, or taking it from there, changes     *)
(* what is put away by just that bag (watchCustomerCart).                  *)
LEMMA PutAwayChanges ==
    ASSUME Types, NEW c \in Customers, NEW bag \in Bags, stash' = [stash EXCEPT ![c] = bag],
           NEW i \in Items
    PROVE  PutAway(i)' = PutAway(i) - stash[c][i] + bag[i]
<1> DEFINE before == [d \in Customers |-> stash[d][i]]
           after == [d \in Customers |-> stash'[d][i]]
<1>1. before \in [Customers -> Int]
  BY DEF Types, Bags
<1>2. stash' \in [Customers -> Bags]
  BY DEF Types
<1>3. after \in [Customers -> Int]
  BY <1>2 DEF Bags
<1>4. before[c] = stash[c][i] /\ after[c] = bag[i] /\ \A d \in Customers \ {c} : before[d] = after[d]
  BY DEF Types
<1>5. PutAway(i) = Total(before) /\ PutAway(i)' = Total(after)
  BY DEF PutAway
<1> HIDE DEF before, after
<1>6. Total(after) = Total(before) - before[c] + after[c]
  BY <1>1, <1>3, <1>4, KeptFits, TotalChanges DEF KeptFits
<1> QED BY <1>4, <1>5, <1>6

(* Where no limit cuts, the joined bag has every unit of both: there is    *)
(* room for all the lines of the second (mergeCartLines).                  *)
LEMMA UncutMergeKeepsAll ==
    ASSUME NEW base \in Bags, NEW incoming \in Bags, ~Cut(base, incoming),
           NEW bag \in MergeCartLines(base, incoming), NEW i \in Items
    PROVE  bag[i] = base[i] + incoming[i]
<1> DEFINE new == LinesOf(incoming) \ LinesOf(base)
           room == MAX_CART_LINES - Cardinality(LinesOf(base))
<1>1. /\ IsFiniteSet(LinesOf(base)) /\ IsFiniteSet(LinesOf(incoming))
      /\ \A j \in Items : j \notin LinesOf(base) => base[j] = 0
      /\ \A j \in Items : j \notin LinesOf(incoming) => incoming[j] = 0
  <2>1. BagFits(base) /\ BagFits(incoming)
    BY DEF Bags, BagFits
  <2> QED BY <2>1, LinesAreItems DEF BagFits
<1>2. /\ base[i] + incoming[i] <= MAX_LINE_QUANTITY
      /\ Cardinality(LinesOf(base) \cup LinesOf(incoming)) <= MAX_CART_LINES
  <2>1. /\ ~(base[i] + incoming[i] > MAX_LINE_QUANTITY)
        /\ ~(Cardinality(LinesOf(base) \cup LinesOf(incoming)) > MAX_CART_LINES)
    BY DEF Cut
  <2>2. MAX_LINE_QUANTITY \in Nat /\ MAX_CART_LINES \in Nat
    BY CapsArePositive DEF CapsArePositive
  <2>3. base[i] \in Nat /\ incoming[i] \in Nat
    BY DEF Bags
  <2>4. Cardinality(LinesOf(base) \cup LinesOf(incoming)) \in Nat
    BY <1>1, FS_Union, FS_CardinalityType
  <2> QED BY <2>1, <2>2, <2>3, <2>4
<1>3. IsFiniteSet(new) /\ Cardinality(new) \in Nat /\ Cardinality(LinesOf(base)) \in Nat
  BY <1>1, FS_Subset, FS_CardinalityType
<1>4. Cardinality(new) <= room
  <2>1. LinesOf(base) \cup LinesOf(incoming) = LinesOf(base) \cup new
        /\ LinesOf(base) \cap new = {}
    OBVIOUS
  <2>2. Cardinality(LinesOf(base) \cup new) = Cardinality(LinesOf(base)) + Cardinality(new)
    <3> HIDE DEF new
    <3>1. /\ Cardinality(LinesOf(base) \cup new)
                = Cardinality(LinesOf(base)) + Cardinality(new) - Cardinality(LinesOf(base) \cap new)
      BY <1>1, <1>3, FS_Union
    <3>2. Cardinality(LinesOf(base) \cap new) = 0
      BY <2>1, FS_EmptySet
    <3> QED BY <1>3, <3>1, <3>2
  <2>3. MAX_CART_LINES \in Nat
    BY CapsArePositive DEF CapsArePositive
  <2>4. Cardinality(LinesOf(base) \cup new) <= MAX_CART_LINES
    BY <1>2, <2>1
  <2> HIDE DEF new
  <2>5. Cardinality(LinesOf(base)) + Cardinality(new) <= MAX_CART_LINES
    BY <2>2, <2>4
  <2> QED BY <1>3, <2>3, <2>5
<1>5. PICK kept \in SUBSET new :
        /\ kept = new \/ Cardinality(kept) = room
        /\ bag = [j \in Items |-> IF j \in LinesOf(base) \cup kept
                                  THEN CapQuantity(base[j] + incoming[j]) ELSE 0]
  BY DEF MergeCartLines
<1>6. kept = new
  <2> SUFFICES ASSUME kept # new PROVE FALSE
    OBVIOUS
  <2>1. Cardinality(kept) = room
    BY <1>5
  <2> HIDE DEF new, room
  <2>2. Cardinality(kept) < Cardinality(new) /\ Cardinality(kept) \in Nat
    <3>1. IsFiniteSet(kept) /\ Cardinality(kept) <= Cardinality(new)
          /\ (Cardinality(new) = Cardinality(kept) => new = kept)
      BY <1>3, FS_Subset
    <3>2. Cardinality(kept) \in Nat
      BY <3>1, FS_CardinalityType
    <3> QED BY <1>3, <3>1, <3>2
  <2> QED BY <1>3, <1>4, <2>1, <2>2
<1>7. CapQuantity(base[i] + incoming[i]) = base[i] + incoming[i]
  <2>1. ~(base[i] + incoming[i] > MAX_LINE_QUANTITY)
    BY <1>2, CapsArePositive DEF CapsArePositive, Bags
  <2> QED BY <2>1 DEF CapQuantity
<1>8. CASE i \in LinesOf(base) \cup LinesOf(incoming)
  BY <1>5, <1>6, <1>7, <1>8
<1>9. CASE i \notin LinesOf(base) \cup LinesOf(incoming)
  BY <1>1, <1>5, <1>6, <1>9
<1> QED BY <1>8, <1>9

(* A bag that changes while a request is under way is disturbed.           *)
LEMMA DisturbedWhenChanged ==
    ASSUME Kept, Disturb, UnderWay' = UnderWay, sent' = sent, disturbed \in BOOLEAN
    PROVE  ~disturbed' => \A r \in UnderWay' : sent'[r].lines = lines'
BY DEF Disturb, Kept

(* Every unit is kept by a change of the bag (cart-slice.ts,               *)
(* cart-session.ts).                                                       *)
LEMMA KeptByMoves == ASSUME Types, Types', Kept, Moves PROVE Kept'
<1> USE DEF bagVars, pageVars, orderVars
<1>0. /\ UnderWay' = UnderWay /\ UNCHANGED <<sent, bought>>
      /\ disturbed \in BOOLEAN /\ harmed \in BOOLEAN
  BY Moving DEF Types
<1>n. ASSUME NEW j \in Items
      PROVE  /\ lines[j] \in Nat /\ lines'[j] \in Nat /\ PutAway(j) \in Nat
             /\ bought[j] \in Nat /\ wanted[j] \in Int
  BY PutAwayNat DEF Types, Bags
<1>s. ASSUME UNCHANGED stash, NEW j \in Items PROVE PutAway(j)' = PutAway(j)
  BY <1>s DEF PutAway
<1>1. ASSUME NEW i \in Items, AddLine(i) PROVE Kept'
  <2>1. /\ lines' = [lines EXCEPT ![i] = CapQuantity(lines[i] + 1)] /\ lines' # lines
        /\ wanted' = [wanted EXCEPT ![i] = @ + 1]
        /\ UNCHANGED <<stash, user, harmed>> /\ Disturb
    BY <1>1 DEF AddLine
  <2>2. CapQuantity(lines[i] + 1) = lines[i] + 1
    <3>1. lines[i] \in Nat /\ lines[i] <= MAX_LINE_QUANTITY /\ MAX_LINE_QUANTITY \in Nat
      BY CapsArePositive DEF Types, Bags, CapsArePositive
    <3>2. CapQuantity(lines[i] + 1) # lines[i]
      BY <2>1 DEF Types, Bags
    <3> QED BY <3>1, <3>2 DEF CapQuantity
  <2>3. ASSUME ~harmed', NEW j \in Items
        PROVE  lines'[j] + PutAway(j)' + bought'[j] = wanted'[j]
    <3>1. lines[j] + PutAway(j) + bought[j] = wanted[j]
      BY <2>1, <2>3 DEF Kept, UnitsAreKept
    <3>2. PutAway(j)' = PutAway(j) /\ bought'[j] = bought[j]
      BY <1>0, <1>s, <2>1
    <3>3. CASE j = i
      <4>1. lines'[i] = lines[i] + 1 /\ wanted'[i] = wanted[i] + 1
        BY <2>1, <2>2 DEF Types, Bags
      <4> QED BY <1>n, <3>1, <3>2, <3>3, <4>1
    <3>4. CASE j # i
      <4>1. lines'[j] = lines[j] /\ wanted'[j] = wanted[j]
        BY <2>1, <3>4 DEF Types, Bags
      <4> QED BY <3>1, <3>2, <4>1
    <3> QED BY <3>3, <3>4
  <2>4. ~disturbed' => \A r \in UnderWay' : sent'[r].lines = lines'
    BY <1>0, <2>1, DisturbedWhenChanged
  <2> QED BY <2>1, <2>3, <2>4 DEF Kept, UnitsAreKept
<1>2. ASSUME NEW i \in Items, NEW n \in 0..MAX_LINE_QUANTITY, SetQuantity(i, n) PROVE Kept'
  <2>1. /\ lines' = [lines EXCEPT ![i] = IF n <= 0 THEN 0 ELSE CapQuantity(n)]
        /\ wanted' = [wanted EXCEPT ![i] = @ + lines'[i] - lines[i]]
        /\ UNCHANGED <<stash, user, harmed>> /\ Disturb
    BY <1>2 DEF SetQuantity
  <2>3. ASSUME ~harmed', NEW j \in Items
        PROVE  lines'[j] + PutAway(j)' + bought'[j] = wanted'[j]
    <3>1. lines[j] + PutAway(j) + bought[j] = wanted[j]
      BY <2>1, <2>3 DEF Kept, UnitsAreKept
    <3>2. PutAway(j)' = PutAway(j) /\ bought'[j] = bought[j]
      BY <1>0, <1>s, <2>1
    <3>3. CASE j = i
      <4>1. wanted'[i] = wanted[i] + lines'[i] - lines[i]
        BY <2>1 DEF Types
      <4> QED BY <1>n, <3>1, <3>2, <3>3, <4>1
    <3>4. CASE j # i
      <4>1. lines'[j] = lines[j] /\ wanted'[j] = wanted[j]
        BY <2>1, <3>4 DEF Types, Bags
      <4> QED BY <3>1, <3>2, <4>1
    <3> QED BY <3>3, <3>4
  <2>4. ~disturbed' => \A r \in UnderWay' : sent'[r].lines = lines'
    BY <1>0, <2>1, DisturbedWhenChanged
  <2> QED BY <2>1, <2>3, <2>4 DEF Kept, UnitsAreKept
<1>3. ASSUME NEW c \in Customers, Login(c) PROVE Kept'
  <2>1. /\ user' = c /\ lines' \in MergeCartLines(stash[c], lines)
        /\ stash' = [stash EXCEPT ![c] = NoLines]
        /\ harmed' = (harmed \/ Cut(stash[c], lines)) /\ UNCHANGED wanted /\ Disturb
    BY <1>3 DEF Login, StashCleared
  <2>2. ASSUME ~harmed', NEW j \in Items
        PROVE  lines'[j] + PutAway(j)' + bought'[j] = wanted'[j]
    <3>1. lines[j] + PutAway(j) + bought[j] = wanted[j]
      BY <2>1, <2>2 DEF Kept, UnitsAreKept
    <3>2. stash[c] \in Bags /\ lines \in Bags /\ ~Cut(stash[c], lines)
      BY <2>1, <2>2 DEF Types
    <3>3. lines'[j] = stash[c][j] + lines[j]
      BY <2>1, <3>2, UncutMergeKeepsAll
    <3>4. PutAway(j)' = PutAway(j) - stash[c][j] + NoLines[j] /\ NoLines[j] = 0
      BY <2>1, NoLinesFits, PutAwayChanges DEF NoLines
    <3>5. stash[c][j] \in Nat
      BY <3>2 DEF Bags
    <3> QED BY <1>0, <1>n, <2>1, <3>1, <3>3, <3>4, <3>5
  <2>3. ~disturbed' => \A r \in UnderWay' : sent'[r].lines = lines'
    BY <1>0, <2>1, DisturbedWhenChanged
  <2>4. stash'[user'] = NoLines
    BY <2>1 DEF Types
  <2> QED BY <2>2, <2>3, <2>4 DEF Kept, UnitsAreKept
<1>4. ASSUME Logout PROVE Kept'
  <2>1. /\ user # None /\ user' = None /\ stash' = [stash EXCEPT ![user] = lines]
        /\ lines' = NoLines /\ UNCHANGED <<wanted, harmed>> /\ Disturb
    BY <1>4 DEF Logout
  <2>2. ASSUME ~harmed', NEW j \in Items
        PROVE  lines'[j] + PutAway(j)' + bought'[j] = wanted'[j]
    <3>1. lines[j] + PutAway(j) + bought[j] = wanted[j]
      BY <2>1, <2>2 DEF Kept, UnitsAreKept
    <3>2. user \in Customers /\ lines \in Bags /\ stash[user] = NoLines /\ NoLines[j] = 0
      BY <2>1 DEF Types, Kept, NoLines
    <3>3. PutAway(j)' = PutAway(j) - stash[user][j] + lines[j]
      BY <2>1, <3>2, PutAwayChanges
    <3> QED BY <1>0, <1>n, <2>1, <3>1, <3>2, <3>3
  <2>3. ~disturbed' => \A r \in UnderWay' : sent'[r].lines = lines'
    BY <1>0, <2>1, DisturbedWhenChanged
  <2> QED BY <2>1, <2>2, <2>3 DEF Kept, UnitsAreKept
<1>5. ASSUME RemoveUnavailable PROVE Kept'
  <2>1. /\ wanted' = [i \in Items |-> wanted[i] + lines'[i] - lines[i]]
        /\ UNCHANGED <<stash, user, harmed>> /\ Disturb
    BY <1>5 DEF RemoveUnavailable
  <2>2. ASSUME ~harmed', NEW j \in Items
        PROVE  lines'[j] + PutAway(j)' + bought'[j] = wanted'[j]
    <3>1. lines[j] + PutAway(j) + bought[j] = wanted[j]
      BY <2>1, <2>2 DEF Kept, UnitsAreKept
    <3>2. PutAway(j)' = PutAway(j) /\ bought'[j] = bought[j]
      BY <1>0, <1>s, <2>1
    <3>3. wanted'[j] = wanted[j] + lines'[j] - lines[j]
      BY <2>1
    <3> QED BY <1>n, <3>1, <3>2, <3>3
  <2>3. ~disturbed' => \A r \in UnderWay' : sent'[r].lines = lines'
    BY <1>0, <2>1, DisturbedWhenChanged
  <2> QED BY <2>1, <2>2, <2>3 DEF Kept, UnitsAreKept
<1>6. ASSUME OpenCheckout \/ LeaveCheckout PROVE Kept'
  <2>1. UNCHANGED <<lines, stash, user, wanted, disturbed, harmed>>
    BY <1>6 DEF OpenCheckout, LeaveCheckout
  <2> QED BY <1>0, <1>s, <2>1 DEF Kept, UnitsAreKept
<1> HIDE DEF bagVars, pageVars, orderVars
<1> QED BY <1>1, <1>2, <1>3, <1>4, <1>5, <1>6 DEF Moves

(* Every unit is kept by every step: an answer takes the bag it was asked  *)
(* with, which is the bag as it is unless it was disturbed.                *)
LEMMA KeptKept ==
    ASSUME Types, Types', VisitsFit, SeenAndCharged, Kept, [Next]_vars PROVE Kept'
<1>n. ASSUME NEW j \in Items
      PROVE  /\ lines[j] \in Nat /\ PutAway(j) \in Nat /\ bought[j] \in Nat /\ wanted[j] \in Int
  BY PutAwayNat DEF Types, Bags
<1>s. ASSUME UNCHANGED stash, NEW j \in Items PROVE PutAway(j)' = PutAway(j)
  BY <1>s DEF PutAway
<1>u. ASSUME UNCHANGED <<lines, stash, wanted, bought, harmed>> PROVE UnitsAreKept'
  BY <1>s, <1>u DEF Kept, UnitsAreKept
<1>1. CASE Still
  <2>1. UnderWay' = UnderWay
    BY <1>1 DEF Still, UnderWay
  <2>2. UnitsAreKept'
    BY <1>1, <1>u DEF Still
  <2> QED BY <1>1, <2>1, <2>2 DEF Still, Kept
<1>2. CASE Moves
  BY <1>2, KeptByMoves
<1>3. ASSUME NEW r \in Requests, Sends(r) PROVE Kept'
  <2>1. UnitsAreKept'
    BY <1>3, <1>u, Sending
  <2>2. ASSUME ~disturbed', NEW o \in UnderWay' PROVE sent'[o].lines = lines'
    <3>1. /\ UnderWay' = UnderWay \cup {r} /\ sent'[r].lines = lines /\ lines' = lines
          /\ ~disturbed \/ UnderWay = {}
          /\ \A p \in Requests \ {r} : sent'[p] = sent[p]
      BY <1>3, <2>2, Sending
    <3>2. CASE o = r
      BY <3>1, <3>2
    <3>3. CASE o # r
      BY <2>2, <3>1, <3>3 DEF Kept, UnderWay
    <3> QED BY <3>2, <3>3
  <2> QED BY <1>3, <2>1, <2>2, Sending DEF Kept
<1>4. ASSUME NEW r \in Requests, Advances(r) PROVE Kept'
  <2>1. UnitsAreKept'
    BY <1>4, <1>u, Advancing
  <2>2. ~disturbed' => \A o \in UnderWay' : sent'[o].lines = lines'
    BY <1>4, Advancing DEF Kept, UnderWay
  <2> QED BY <1>4, <2>1, <2>2, Advancing DEF Kept
<1>5. ASSUME NEW r \in Requests, AnswerCreated(r) PROVE Kept'
  <2>1. /\ lines' = NoLines /\ UNCHANGED <<stash, user, wanted>>
        /\ bought' = [i \in Items |-> bought[i] + sent[r].lines[i]]
        /\ harmed' = (harmed \/ disturbed) /\ disturbed' = (UnderWay \ {r} # {})
    BY <1>5 DEF AnswerCreated, bagVars
  <2>2. r \in UnderWay /\ UnderWay' = UnderWay \ {r}
    BY <1>5, Answering
  <2>3. ASSUME ~harmed', NEW j \in Items
        PROVE  lines'[j] + PutAway(j)' + bought'[j] = wanted'[j]
    <3>1. lines[j] + PutAway(j) + bought[j] = wanted[j] /\ sent[r].lines = lines
      BY <2>1, <2>2, <2>3 DEF Kept, UnitsAreKept
    <3>2. PutAway(j)' = PutAway(j) /\ lines'[j] = 0 /\ bought'[j] = bought[j] + lines[j]
      BY <1>s, <2>1, <3>1 DEF NoLines
    <3> QED BY <1>n, <2>1, <3>1, <3>2
  <2> QED BY <2>1, <2>2, <2>3 DEF Kept, UnitsAreKept
<1>6. ASSUME NEW r \in Requests, AnswerRefused(r) PROVE Kept'
  <2>1. UNCHANGED <<lines, stash, user, wanted, bought, harmed, disturbed>>
    BY <1>6 DEF AnswerRefused, bagVars
  <2>2. UnderWay' = UnderWay \ {r} /\ \A o \in Requests \ {r} : sent'[o] = sent[o]
    BY <1>6, Answering
  <2>3. ~disturbed' => \A o \in UnderWay' : sent'[o].lines = lines'
    BY <2>1, <2>2 DEF Kept, UnderWay
  <2>4. UnitsAreKept'
    BY <1>u, <2>1
  <2> QED BY <2>1, <2>3, <2>4 DEF Kept
<1> QED BY <1>1, <1>2, <1>3, <1>4, <1>5, <1>6, KindsOfSteps

(* What the answered orders have is what was bought (clearCart on the      *)
(* answer, and nowhere else).                                              *)
LEMMA LedgerKept ==
    ASSUME Types, Types', VisitsFit, SeenAndCharged, Ledger, [Next]_vars PROVE Ledger'
<1> SUFFICES ASSUME ~missed', NEW i \in Items
             PROVE  Total([r \in Closed' |-> sent'[r].lines[i]]) = bought'[i]
  BY DEF Ledger
<1> DEFINE before == [r \in Closed |-> sent[r].lines[i]]
           after == [r \in Closed' |-> sent'[r].lines[i]]
<1>0. Closed \subseteq Requests /\ IsFiniteSet(Closed)
  BY RequestsAreNumbers, FS_Subset DEF Closed, Made, RequestsAreNumbers
<1>a. ASSUME ~missed PROVE Total(before) = bought[i]
  BY <1>a DEF Ledger
<1>b. ASSUME ~missed, Closed' = Closed, bought' = bought,
             \A r \in Closed : sent'[r].lines = sent[r].lines
      PROVE  Total(after) = bought'[i]
  <2>1. after = before
    BY <1>b
  <2> HIDE DEF before, after
  <2> QED BY <1>a, <1>b, <2>1
<1>1. CASE Still \/ Moves
  <2>1. Closed' = Closed /\ UNCHANGED <<sent, bought>> /\ ~missed
    BY <1>1, Moving DEF Still, Closed, Made
  <2> HIDE DEF before, after
  <2>2. Total(after) = bought'[i]
    BY <1>b, <2>1
  <2> QED BY <2>2 DEF after
<1>2. ASSUME NEW r \in Requests, Sends(r) PROVE Total(after) = bought'[i]
  <2>1. /\ Closed' = Closed /\ bought' = bought /\ ~missed /\ r \notin Made
        /\ \A o \in Requests \ {r} : sent'[o] = sent[o]
    BY <1>2, Sending
  <2>2. \A o \in Closed : sent'[o].lines = sent[o].lines
    BY <2>1 DEF Closed, Made
  <2> HIDE DEF before, after
  <2> QED BY <1>b, <2>1, <2>2
<1>3. ASSUME NEW r \in Requests, Advances(r) PROVE Total(after) = bought'[i]
  <2>1. /\ ~missed /\ bought' = bought /\ \A o \in Requests : sent'[o].lines = sent[o].lines
        /\ \A o \in Requests \ {r} : sent'[o] = sent[o]
    BY <1>3, Advancing
  <2>2. r \notin Closed /\ r \notin Closed'
    BY <1>3, Advancing DEF Closed, Made, SeenAndCharged
  <2>3. Closed' = Closed
    BY <2>1, <2>2 DEF Closed, Made
  <2>4. \A o \in Closed : sent'[o].lines = sent[o].lines
    BY <1>0, <2>1
  <2> HIDE DEF before, after
  <2> QED BY <1>b, <2>1, <2>3, <2>4
<1>4. ASSUME NEW r \in Requests, AnswerRefused(r) PROVE Total(after) = bought'[i]
  <2>1. /\ ~missed /\ bought' = bought
        /\ \A o \in Requests \ {r} : sent'[o] = sent[o]
        /\ sent'[r].lines = sent[r].lines /\ sent'[r].made = sent[r].made
        /\ sent'[r].at \in {"done", "failed"}
    BY <1>4, Answering DEF AnswerRefused
  <2>2. sent[r].at # "created"
    BY <1>4 DEF AnswerRefused
  <2>3. Closed' = Closed
    BY <2>1, <2>2 DEF Closed, Made
  <2>4. \A o \in Closed : sent'[o].lines = sent[o].lines
    BY <1>0, <2>1
  <2> HIDE DEF before, after
  <2> QED BY <1>b, <2>1, <2>3, <2>4
<1>5. ASSUME NEW r \in Requests, AnswerCreated(r) PROVE Total(after) = bought'[i]
  <2>1. /\ ~missed /\ bought' = [j \in Items |-> bought[j] + sent[r].lines[j]]
        /\ \A o \in Requests \ {r} : sent'[o] = sent[o]
        /\ sent'[r].lines = sent[r].lines /\ sent'[r].made = sent[r].made
        /\ sent'[r].at = "done" /\ sent[r].at = "created"
    BY <1>5, Answering DEF AnswerCreated
  <2>2. sent[r].made
    BY <2>1 DEF SeenAndCharged
  <2>3. Closed' = Closed \cup {r} /\ r \notin Closed
    BY <2>1, <2>2 DEF Closed, Made
  <2>4. \A o \in Requests : sent[o].lines[i] \in Int
    BY DEF Types, Bodies, Bags
  <2>5. before \in [Closed -> Int]
    BY <1>0, <2>4
  <2>6. after \in [Closed \cup {r} -> Int]
    BY <1>0, <2>1, <2>3, <2>4
  <2>7. \A o \in Closed : after[o] = before[o]
    BY <1>0, <2>1, <2>3
  <2>8. after[r] = sent[r].lines[i]
    BY <2>1, <2>3
  <2> HIDE DEF before, after
  <2>9. Total(after) = Total(before) + after[r]
    BY <1>0, <2>3, <2>5, <2>6, <2>7, TotalGrows
  <2> QED BY <1>a, <2>1, <2>8, <2>9
<1> QED BY <1>1, <1>2, <1>3, <1>4, <1>5, KindsOfSteps

(* So the orders have no more than was picked: the answered ones what was  *)
(* bought, the one that may be under way what is in the bag                *)
(* (NothingOrderedTwice, useCreateOrder).                                  *)
LEMMA NoMoreThanPicked ==
    ASSUME Types, Kept, OneAtATime, Ledger PROVE NothingOrderedTwice
<1> SUFFICES ASSUME ~missed, ~harmed, ~disturbed, NEW i \in Items
             PROVE  Total([r \in Made |-> sent[r].lines[i]]) <= wanted[i]
  BY DEF NothingOrderedTwice
<1> DEFINE closed == [r \in Closed |-> sent[r].lines[i]]
           made == [r \in Made |-> sent[r].lines[i]]
<1>1. Closed \subseteq Requests /\ IsFiniteSet(Closed) /\ Made \subseteq Requests
  BY RequestsAreNumbers, FS_Subset DEF Closed, Made, RequestsAreNumbers
<1>2. Total(closed) = bought[i] /\ lines[i] + PutAway(i) + bought[i] = wanted[i]
  BY DEF Ledger, Kept, UnitsAreKept
<1>3. /\ lines[i] \in Nat /\ PutAway(i) \in Nat /\ bought[i] \in Nat /\ wanted[i] \in Int
      /\ \A o \in Requests : sent[o].lines[i] \in Int
  BY PutAwayNat DEF Types, Bags, Bodies
<1>4. CASE Made = Closed
  <2>1. made = closed
    BY <1>4
  <2> HIDE DEF closed, made
  <2>2. Total(made) <= wanted[i]
    BY <1>2, <1>3, <2>1
  <2> QED BY <2>2 DEF made
<1>5. CASE Made # Closed
  <2>1. PICK r \in Made : sent[r].at = "created"
    BY <1>5 DEF Closed
  <2>2. r \in Requests /\ r \in UnderWay /\ r \notin Closed
    BY <2>1 DEF Made, UnderWay, Closed
  <2>3. \A o \in Made : sent[o].at = "created" => o = r
    BY <2>2 DEF OneAtATime, UnderWay, Made
  <2>4. Made = Closed \cup {r}
    BY <2>1, <2>3 DEF Closed
  <2>5. sent[r].lines[i] = lines[i]
    BY <2>2 DEF Kept
  <2>6. closed \in [Closed -> Int] /\ made \in [Closed \cup {r} -> Int]
    BY <1>1, <1>3, <2>4
  <2>7. made[r] = lines[i] /\ \A o \in Closed : made[o] = closed[o]
    BY <2>4, <2>5
  <2> HIDE DEF closed, made
  <2>8. Total(made) = Total(closed) + made[r]
    BY <1>1, <2>2, <2>6, <2>7, TotalGrows
  <2>9. Total(made) <= wanted[i]
    BY <1>2, <1>3, <2>7, <2>8
  <2> QED BY <2>9 DEF made
<1> QED BY <1>4, <1>5

-----------------------------------------------------------------------------
(* The initial states have the invariant (Init).                           *)
LEMMA ShopInit == Init => ShopInv
<1> SUFFICES ASSUME Init PROVE ShopInv
  OBVIOUS
<1> USE DEF Init
<1>1. Types
  <2>1. Unused \in Bodies
    <3> HIDE DEF Bags
    <3> QED BY NoLinesFits DEF Unused, Bodies, Reasons
  <2>2. sent \in [Requests -> Bodies]
    BY <2>1
  <2>3. wanted \in [Items -> Int]
    <3>1. ASSUME NEW i \in Items PROVE lines[i] + PutAway(i) \in Int
      <4> DEFINE units == [c \in Customers |-> stash[c][i]]
      <4>1. units \in [Customers -> Nat]
        BY KeptFits DEF KeptFits, Bags
      <4>2. PutAway(i) = Total(units)
        BY DEF PutAway
      <4> HIDE DEF units
      <4>3. PutAway(i) \in Nat
        BY <4>1, <4>2, KeptFits, TotalNat DEF KeptFits
      <4>4. lines[i] \in Nat
        BY KeptFits DEF KeptFits, Bags
      <4> QED BY <4>3, <4>4
    <3>2. wanted = [i \in Items |-> lines[i] + PutAway(i)]
      OBVIOUS
    <3> QED BY <3>1, <3>2
  <2>4. bought \in [Items -> Nat]
    BY DEF NoLines
  <2>5. catalog \in [Items -> Sold]
    BY ShopFits DEF ShopFits
  <2>6. lines \in Bags /\ stash \in [Customers -> Bags] /\ settled \in Bags
    BY KeptFits, NoLinesFits DEF KeptFits
  <2>7. {picks, logins} \subseteq Nat /\ changes \in Nat
    BY BoundsAreNatural DEF BoundsAreNatural
  <2>8. visits \in 0..MaxVisits /\ page \in 0..(MaxVisits - visits)
    BY BoundsAreNatural DEF BoundsAreNatural
  <2>9. user \in Customers \cup {None} /\ choice \in Ways \cup {None} /\ shown \in Int \cup {None}
        /\ conflict \in Conflicts \cup {None}
    OBVIOUS
  <2>10. inFlight \in BOOLEAN /\ disturbed \in BOOLEAN /\ harmed \in BOOLEAN /\ missed \in BOOLEAN
    OBVIOUS
  <2>11. last \in Requests \cup {0} /\ submitted \in Int
    OBVIOUS
  <2> QED BY <2>2, <2>3, <2>4, <2>5, <2>6, <2>7, <2>8, <2>9, <2>10, <2>11 DEF Types
<1>2. UnderWay = {} /\ Made = {} /\ Closed = {}
  BY DEF UnderWay, Made, Closed, Unused
<1>3. VisitsFit /\ OneAtATime
  BY <1>2 DEF VisitsFit, OneAtATime
<1>4. SeenAndCharged
  BY DEF SeenAndCharged, Unused
<1>5. Kept
  <2>1. ASSUME NEW i \in Items PROVE lines[i] + PutAway(i) + bought[i] = wanted[i]
    <3>1. wanted[i] = lines[i] + PutAway(i) /\ bought[i] = 0
      BY DEF NoLines
    <3>2. lines[i] \in Nat /\ PutAway(i) \in Nat
      BY <1>1, PutAwayNat DEF Types, Bags
    <3> QED BY <3>1, <3>2
  <2> QED BY <1>2, <2>1 DEF Kept, UnitsAreKept
<1>6. Ledger
  <2>1. ASSUME NEW i \in Items PROVE Total([r \in Closed |-> sent[r].lines[i]]) = bought[i]
    <3> DEFINE none == [r \in Closed |-> sent[r].lines[i]]
    <3>1. DOMAIN none = {}
      BY <1>2
    <3>2. Total(none) = SumOn(none, DOMAIN none)
      <4> HIDE DEF none
      <4> QED BY TotalIsSumOn
    <3>3. SumOn(none, {}) = 0
      BY SumOnEmpty
    <3>4. bought[i] = 0
      BY DEF NoLines
    <3> QED BY <3>1, <3>2, <3>3, <3>4
  <2> QED BY <2>1 DEF Ledger
<1> QED BY <1>1, <1>3, <1>4, <1>5, <1>6 DEF ShopInv

(* Every step keeps the invariant.                                         *)
LEMMA ShopStep == ShopInv /\ [Next]_vars => ShopInv'
BY TypesKept, VisitsKept, ChargesKept, KeptKept, OneAtATimeKept, LedgerKept DEF ShopInv

(* In every reachable state the bag, the checkout and the server agree on  *)
(* what is under way and on what was bought.                               *)
THEOREM ShopHolds == Spec => []ShopInv
<1>1. Init => ShopInv
  BY ShopInit
<1>2. ShopInv /\ [Next]_vars => ShopInv'
  BY ShopStep
<1> QED BY <1>1, <1>2, PTL DEF Spec

(* Everything the browser and the server keep has its type in every        *)
(* reachable state: quantities within the cap, whole cents, a page that    *)
(* was opened, requests that are bodies.                                   *)
THEOREM ShopTypes == Spec => []Types
<1>1. ShopInv => Types
  BY DEF ShopInv
<1> QED BY <1>1, ShopHolds, PTL

(* Every unit that was picked is in the bag, put away or in an order, for  *)
(* any bags, customers and orders, as long as nothing changed the bag      *)
(* between a click and its answer and no limit cut a joined bag            *)
(* (UnitsAreKept, cart-session.ts).                                        *)
THEOREM UnitsKept == Spec => []UnitsAreKept
<1>1. ShopInv => UnitsAreKept
  BY DEF ShopInv, Kept
<1> QED BY <1>1, ShopHolds, PTL

(* Two clicks, accepted conflicts and retries make one order of a bag, for *)
(* any number of requests (NothingOrderedTwice, useCreateOrder).           *)
THEOREM OrderedOnce == Spec => []NothingOrderedTwice
<1>1. ShopInv => NothingOrderedTwice
  BY NoMoreThanPicked DEF ShopInv
<1> QED BY <1>1, ShopHolds, PTL

(* An order costs what was on the screen when it was confirmed             *)
(* (ChargedWhatWasSeen, assertExpectedTotal).                              *)
THEOREM ChargedAsSeen == Spec => []ChargedWhatWasSeen
<1>1. ShopInv => ChargedWhatWasSeen
  BY ChargesAreSeen DEF ShopInv
<1> QED BY <1>1, ShopHolds, PTL

(* The arithmetic of the quote, for any catalogue and any rules: lines     *)
(* that fell out weigh on no other, the ladder gives the best rule, and    *)
(* what is missing for a free delivery is exact (PricesHold).              *)
THEOREM QuotesHold == Spec => []PricesHold
<1>1. ShopInv => PricesHold
  <2> SUFFICES ASSUME ShopInv PROVE PricesHold
    OBVIOUS
  <2>1. ShopOpen /\ BagFits(lines)
    BY DEF ShopInv, Types, ShopOpen, BagFits, Bags
  <2> QED BY <2>1, AnyBagPricesHold
<1> QED BY <1>1, ShopHolds, PTL
=============================================================================
