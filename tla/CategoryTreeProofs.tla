------------------------ MODULE CategoryTreeProofs ------------------------
(***************************************************************************)
(* Proofs about CategoryTree, for any categories, products, requests and   *)
(* files to import.                                                        *)
(*                                                                         *)
(* Shape says which fields each record has, at each stage.  DeadInv is why *)
(* no product keeps a category that is gone: everything under way that     *)
(* holds categories holds ones that exist, and one about to go is held by  *)
(* no product.  TreeInv is why the tree has one level: what every request, *)
(* and the import, has checked of the tree still holds when it writes,     *)
(* unless a change of the tree overlapped it, which Lowers notes.  LinkInv *)
(* is why a printed address leads to its category: a history holds, by     *)
(* age, the addresses given up, and a request that asked for an address    *)
(* still goes by the truth when it writes it, unless the address is        *)
(* excused.  FileInv is why an undisturbed import places its file: every   *)
(* line it is done with stands where the line says.                        *)
(***************************************************************************)
EXTENDS CategoryTree, SequenceTheorems, WellFoundedInduction, TLAPS
-----------------------------------------------------------------------------
(***************************************************************************)
(* Only, on a sequence of any length.                                      *)
(***************************************************************************)
Below == {p \in Nat \X Nat : p[1] < p[2]}

(* A set of naturals has a least: what stands for induction on the length  *)
(* of a sequence.                                                          *)
LEMMA LeastOfAll ==
    ASSUME NEW N, N \subseteq Nat, N # {} PROVE \E x \in N : \A y \in N : x <= y
<1>1. IsWellFoundedOn(Below, Nat)
  BY NatLessThanWellFounded DEF OpToRel, Below
<1>2. PICK x \in N : \A y \in N : ~(<<y, x>> \in Below)
  BY <1>1, WFMin
<1>3. ASSUME NEW y \in N PROVE x <= y
  <2>1. x \in Nat /\ y \in Nat /\ ~(y < x)
    BY <1>2 DEF Below
  <2> QED BY <2>1
<1> QED BY <1>2, <1>3

\* g holds, for each length up to n, what is kept of the beginning of q.
Filters(g, q, S, n) ==
    g = [i \in 0..n |-> IF i = 0 THEN <<>>
                        ELSE IF q[i] \in S THEN Append(g[i - 1], q[i]) ELSE g[i - 1]]

(* There is such a function for every length.                              *)
LEMMA FilterExists == ASSUME NEW q, NEW S, NEW n \in Nat PROVE \E g : Filters(g, q, S, n)
<1> DEFINE Wrong == {m \in Nat : ~\E g : Filters(g, q, S, m)}
<1> SUFFICES ASSUME Wrong # {} PROVE FALSE
  OBVIOUS
<1>1. PICK m \in Wrong : \A k \in Wrong : m <= k
  <2>1. Wrong \subseteq Nat
    OBVIOUS
  <2> HIDE DEF Wrong
  <2> QED BY <2>1, LeastOfAll
<1>2. m \in Nat /\ ~\E g : Filters(g, q, S, m)
  BY <1>1
<1>3. CASE m = 0
  <2> DEFINE g == [i \in 0..m |-> <<>>]
  <2>1. Filters(g, q, S, m)
    BY <1>3 DEF Filters
  <2> QED BY <1>2, <2>1
<1>4. CASE m # 0
  <2>1. m - 1 \in Nat /\ m - 1 < m
    BY <1>2, <1>4
  <2>2. m - 1 \notin Wrong
    BY <1>1, <1>2, <2>1
  <2>3. PICK g : Filters(g, q, S, m - 1)
    BY <2>1, <2>2
  <2> HIDE DEF Wrong
  <2> DEFINE At1(h, i) == IF i = 0 THEN <<>>
                          ELSE IF q[i] \in S THEN Append(h[i - 1], q[i]) ELSE h[i - 1]
             new == [i \in 0..m |-> At1(g, i)]
  <2>4. \A i \in 0..(m - 1) : g[i] = At1(g, i)
    <3>1. g = [i \in 0..(m - 1) |-> At1(g, i)]
      BY <2>3 DEF Filters
    <3> HIDE DEF At1
    <3> QED BY <3>1
  <2>5. \A i \in 0..(m - 1) : new[i] = g[i]
    <3> HIDE DEF At1
    <3> QED BY <1>2, <2>4
  <2>6. \A i \in 0..m : At1(g, i) = At1(new, i)
    <3> HIDE DEF new
    <3>1. ASSUME NEW i \in 0..m, i # 0 PROVE new[i - 1] = g[i - 1]
      BY <1>2, <2>5, <3>1
    <3> QED BY <3>1
  <2>7. new = [i \in 0..m |-> At1(new, i)]
    <3> HIDE DEF At1
    <3> QED BY <2>6
  <2>8. Filters(new, q, S, m)
    <3> HIDE DEF new
    <3> QED BY <2>7 DEF Filters
  <2> QED BY <1>2, <2>8
<1> QED BY <1>3, <1>4

(* Only is the last of what such a function holds.                         *)
LEMMA OnlyFilters ==
    ASSUME NEW q, NEW S, Len(q) \in Nat
    PROVE  \E g : Filters(g, q, S, Len(q)) /\ Only(q, S) = g[Len(q)]
<1> DEFINE g == CHOOSE h : Filters(h, q, S, Len(q))
<1>1. Filters(g, q, S, Len(q))
  BY FilterExists
<1>2. Only(q, S) = g[Len(q)]
  BY DEF Only, Filters
<1> QED BY <1>1, <1>2

\* What f keeps of the first n elements of q: those in S, none further from
\* the end than it was, and none twice when q has none twice.
KeptOf(f, q, S, n) ==
    /\ \A j \in 1..Len(f) : f[j] \in S /\ \E i \in 1..n : f[j] = q[i]
    /\ \A i \in 1..n : q[i] \in S => \E j \in 1..Len(f) : f[j] = q[i] /\ Len(f) + i <= n + j
    /\ (\A i, k \in 1..Len(q) : q[i] = q[k] => i = k) =>
            \A j, l \in 1..Len(f) : f[j] = f[l] => j = l

(* Nothing is kept of nothing.                                             *)
LEMMA KeptNone == ASSUME NEW q, NEW S PROVE KeptOf(<<>>, q, S, 0)
BY DEF KeptOf

(* One more element that is left out.                                      *)
LEMMA KeptSkips ==
    ASSUME NEW A, NEW q \in Seq(A), NEW S, NEW n \in 1..Len(q), NEW f \in Seq(A),
           KeptOf(f, q, S, n - 1), q[n] \notin S
    PROVE  KeptOf(f, q, S, n)
<1>1. n \in Nat /\ n - 1 \in Nat /\ Len(f) \in Nat /\ Len(q) \in Nat
  OBVIOUS
<1>2. \A i \in 1..n : i \in 1..(n - 1) \/ i = n
  OBVIOUS
<1>3. \A j \in 1..Len(f) : f[j] \in S /\ \E i \in 1..n : f[j] = q[i]
  BY <1>1 DEF KeptOf
<1>4. ASSUME NEW i \in 1..n, q[i] \in S
      PROVE  \E j \in 1..Len(f) : f[j] = q[i] /\ Len(f) + i <= n + j
  <2>1. PICK j \in 1..Len(f) : f[j] = q[i] /\ Len(f) + i <= (n - 1) + j
    BY <1>2, <1>4 DEF KeptOf
  <2> QED BY <1>1, <2>1
<1> QED BY <1>3, <1>4 DEF KeptOf

(* One more that is kept.                                                  *)
LEMMA KeptTakes ==
    ASSUME NEW A, NEW q \in Seq(A), NEW S, NEW n \in 1..Len(q), NEW f \in Seq(A),
           KeptOf(f, q, S, n - 1), q[n] \in S
    PROVE  KeptOf(Append(f, q[n]), q, S, n)
<1> DEFINE g == Append(f, q[n])
<1>1. n \in Nat /\ n - 1 \in Nat /\ Len(f) \in Nat /\ Len(q) \in Nat /\ n <= Len(q)
  OBVIOUS
<1>2. /\ Len(g) = Len(f) + 1
      /\ \A j \in 1..Len(f) : g[j] = f[j]
      /\ g[Len(f) + 1] = q[n]
  OBVIOUS
<1> HIDE DEF g
<1>3. /\ \A i \in 1..n : i \in 1..(n - 1) \/ i = n
      /\ \A j \in 1..Len(g) : j \in 1..Len(f) \/ j = Len(f) + 1
      /\ n \in 1..n /\ Len(f) + 1 \in 1..Len(g)
  BY <1>1, <1>2
<1>4. ASSUME NEW j \in 1..Len(g) PROVE g[j] \in S /\ \E i \in 1..n : g[j] = q[i]
  <2>1. CASE j = Len(f) + 1
    BY <1>2, <1>3, <2>1
  <2>2. CASE j \in 1..Len(f)
    <3>1. PICK i \in 1..(n - 1) : f[j] = q[i]
      BY <2>2 DEF KeptOf
    <3>2. f[j] \in S /\ i \in 1..n
      BY <1>1, <2>2 DEF KeptOf
    <3> QED BY <1>2, <2>2, <3>1, <3>2
  <2> QED BY <1>3, <2>1, <2>2
<1>5. ASSUME NEW i \in 1..n, q[i] \in S
      PROVE  \E j \in 1..Len(g) : g[j] = q[i] /\ Len(g) + i <= n + j
  <2>1. CASE i = n
    <3>1. Len(g) + i <= n + (Len(f) + 1)
      BY <1>1, <1>2, <2>1
    <3> QED BY <1>2, <1>3, <2>1, <3>1
  <2>2. CASE i \in 1..(n - 1)
    <3>1. PICK j \in 1..Len(f) : f[j] = q[i] /\ Len(f) + i <= (n - 1) + j
      BY <1>5, <2>2 DEF KeptOf
    <3>2. j \in 1..Len(g) /\ Len(g) + i <= n + j /\ g[j] = q[i]
      BY <1>1, <1>2, <3>1
    <3> QED BY <3>2
  <2> QED BY <1>3, <2>1, <2>2
<1>6. ASSUME \A i, k \in 1..Len(q) : q[i] = q[k] => i = k,
             NEW j \in 1..Len(g), NEW l \in 1..Len(g), g[j] = g[l]
      PROVE  j = l
  <2>1. ASSUME NEW a \in 1..Len(f) PROVE f[a] # q[n]
    <3>1. PICK i \in 1..(n - 1) : f[a] = q[i]
      BY <2>1 DEF KeptOf
    <3>2. i \in 1..Len(q) /\ i # n
      BY <1>1
    <3> QED BY <1>6, <3>1, <3>2
  <2>2. CASE j \in 1..Len(f) /\ l \in 1..Len(f)
    BY <1>2, <1>6, <2>2 DEF KeptOf
  <2>3. CASE j \in 1..Len(f) /\ l = Len(f) + 1
    BY <1>2, <1>6, <2>1, <2>3
  <2>4. CASE l \in 1..Len(f) /\ j = Len(f) + 1
    BY <1>2, <1>6, <2>1, <2>4
  <2> QED BY <1>3, <2>2, <2>3, <2>4
<1> QED BY <1>4, <1>5, <1>6 DEF KeptOf, g

(* What Only returns: a sequence that keeps all of the elements in S and   *)
(* nothing else, in their places from the end or nearer to it.             *)
LEMMA OnlyKeeps ==
    ASSUME NEW A, NEW q \in Seq(A), NEW S
    PROVE  Only(q, S) \in Seq(A) /\ KeptOf(Only(q, S), q, S, Len(q))
<1>1. Len(q) \in Nat
  OBVIOUS
<1>2. PICK g : Filters(g, q, S, Len(q)) /\ Only(q, S) = g[Len(q)]
  BY <1>1, OnlyFilters
<1>3. \A i \in 0..Len(q) : g[i] = IF i = 0 THEN <<>>
                                  ELSE IF q[i] \in S THEN Append(g[i - 1], q[i]) ELSE g[i - 1]
  BY <1>2 DEF Filters
<1> DEFINE Wrong == {n \in 0..Len(q) : ~(g[n] \in Seq(A) /\ KeptOf(g[n], q, S, n))}
<1>4. ASSUME Wrong # {} PROVE FALSE
  <2>1. PICK n \in Wrong : \A k \in Wrong : n <= k
    <3>1. Wrong \subseteq Nat
      BY <1>1
    <3> HIDE DEF Wrong
    <3> QED BY <1>4, <3>1, LeastOfAll
  <2>2. n \in 0..Len(q) /\ n \in Nat
    BY <1>1
  <2>3. CASE n = 0
    <3>1. g[n] = <<>>
      BY <1>3, <2>2, <2>3
    <3>2. g[n] \in Seq(A)
      BY <3>1
    <3> QED BY <2>1, <2>3, <3>1, <3>2, KeptNone
  <2>4. CASE n # 0
    <3>1. n - 1 \in 0..Len(q) /\ n \in 1..Len(q) /\ ~(n <= n - 1)
      BY <1>1, <2>2, <2>4
    <3>2. n - 1 \notin Wrong
      BY <2>1, <3>1
    <3>3. g[n - 1] \in Seq(A) /\ KeptOf(g[n - 1], q, S, n - 1)
      BY <3>1, <3>2
    <3>4. g[n] = IF q[n] \in S THEN Append(g[n - 1], q[n]) ELSE g[n - 1]
      BY <1>3, <2>2, <2>4
    <3>5. ~(g[n] \in Seq(A) /\ KeptOf(g[n], q, S, n))
      BY <2>1
    <3> HIDE DEF Wrong
    <3>6. CASE q[n] \in S
      <4>1. g[n] = Append(g[n - 1], q[n]) /\ q[n] \in A
        BY <3>1, <3>4, <3>6
      <4>2. g[n] \in Seq(A)
        BY <3>3, <4>1
      <4> QED BY <3>1, <3>3, <3>5, <3>6, <4>1, <4>2, KeptTakes
    <3>7. CASE q[n] \notin S
      BY <3>1, <3>3, <3>4, <3>5, <3>7, KeptSkips
    <3> QED BY <3>6, <3>7
  <2> QED BY <2>3, <2>4
<1>5. Len(q) \in 0..Len(q)
  BY <1>1
<1> QED BY <1>2, <1>4, <1>5

(* The lines of a file in the order of the import: each of them once, and  *)
(* those without a parent before the others (importCategories).            *)
LEMMA InOrderLines ==
    ASSUME NEW f \in Files
    PROVE  LET l == InOrder(f) IN
           /\ l \in Seq(ToSet(f.categories)) /\ (f.categories # <<>> => l # <<>>)
           /\ NamesOnce(f) => \A i, j \in DOMAIN l : l[i].slug = l[j].slug => i = j
           /\ \A i \in DOMAIN l : l[i] \in ToSet(f.categories) /\ l[i].slug \in Slugs
           /\ \A e \in ToSet(f.categories) : \E i \in DOMAIN l : l[i] = e
           /\ \A i, j \in DOMAIN l : l[i].parent # None /\ l[j].parent = None => j < i
<1> DEFINE q == f.categories
           A == ToSet(q)
           roots == {e \in A : e.parent = None}
           a == Only(q, roots)
           b == Only(q, A \ roots)
           l == InOrder(f)
<1>1. q \in Seq(A) /\ \A i \in DOMAIN q : q[i].slug \in Slugs
  BY FilesHaveLines
<1>2. NamesOnce(f) => \A i, j \in DOMAIN q : q[i].slug = q[j].slug => i = j
  BY DEF NamesOnce
<1>3. DOMAIN q = 1..Len(q) /\ A = {q[i] : i \in 1..Len(q)} /\ Len(q) \in Nat
  BY <1>1 DEF ToSet
<1>4. l = a \o b
  BY DEF InOrder
<1> HIDE DEF l
<1>5. /\ a \in Seq(A) /\ KeptOf(a, q, roots, Len(q))
      /\ b \in Seq(A) /\ KeptOf(b, q, A \ roots, Len(q))
  <2> HIDE DEF roots, A
  <2> QED BY <1>1, OnlyKeeps
<1> HIDE DEF a, b
<1>6. NamesOnce(f) => \A i, j \in 1..Len(q) : q[i] = q[j] => i = j
  BY <1>2, <1>3
<1>7. /\ \A j \in 1..Len(a) : a[j] \in roots
      /\ \A j \in 1..Len(b) : b[j] \in A \ roots
      /\ NamesOnce(f) => /\ \A j, k \in 1..Len(a) : a[j] = a[k] => j = k
                         /\ \A j, k \in 1..Len(b) : b[j] = b[k] => j = k
  <2> HIDE DEF roots, A
  <2> QED BY <1>5, <1>6 DEF KeptOf
<1>8. /\ \A e \in roots : \E j \in 1..Len(a) : a[j] = e
      /\ \A e \in A \ roots : \E j \in 1..Len(b) : b[j] = e
  <2>1. \A e \in A : \E i \in 1..Len(q) : q[i] = e
    BY <1>3
  <2>2. roots \subseteq A
    OBVIOUS
  <2> DEFINE rest == A \ roots
  <2>3. rest \subseteq A /\ KeptOf(b, q, rest, Len(q))
    BY <1>5
  <2> HIDE DEF roots, rest, A
  <2>4. \A e \in roots : \E j \in 1..Len(a) : a[j] = e
    <3> SUFFICES ASSUME NEW e \in roots PROVE \E j \in 1..Len(a) : a[j] = e
      OBVIOUS
    <3>1. PICK i \in 1..Len(q) : q[i] = e
      BY <2>1, <2>2
    <3> QED BY <1>5, <3>1 DEF KeptOf
  <2>5. \A e \in rest : \E j \in 1..Len(b) : b[j] = e
    BY <2>1, <2>3 DEF KeptOf
  <2> QED BY <2>4, <2>5 DEF rest
<1>9. /\ l \in Seq(A) /\ Len(l) = Len(a) + Len(b) /\ DOMAIN l = 1..Len(l)
      /\ \A j \in 1..Len(a) : l[j] = a[j]
      /\ \A j \in 1..Len(b) : l[Len(a) + j] = b[j]
      /\ Len(a) \in Nat /\ Len(b) \in Nat
  <2> HIDE DEF A
  <2>1. l \in Seq(A) /\ Len(l) = Len(a) + Len(b) /\ Len(a) \in Nat /\ Len(b) \in Nat
    BY <1>4, <1>5
  <2>2. DOMAIN l = 1..Len(l)
    BY <2>1
  <2>3. \A j \in 1..Len(a) : l[j] = a[j]
    BY <1>4, <1>5
  <2>4. \A j \in 1..Len(b) : l[Len(a) + j] = b[j]
    BY <1>4, <1>5
  <2> QED BY <2>1, <2>2, <2>3, <2>4
<1>10. ASSUME NEW i \in DOMAIN l
       PROVE  \/ i \in 1..Len(a) /\ l[i] = a[i] /\ l[i] \in roots
              \/ /\ i - Len(a) \in 1..Len(b) /\ i > Len(a)
                 /\ l[i] = b[i - Len(a)] /\ l[i] \in A \ roots
  <2>1. CASE i \in 1..Len(a)
    BY <1>7, <1>9, <2>1
  <2>2. CASE i \notin 1..Len(a)
    <3>1. i - Len(a) \in 1..Len(b) /\ i > Len(a) /\ Len(a) + (i - Len(a)) = i
      BY <1>9, <2>2
    <3> QED BY <1>7, <1>9, <3>1
  <2> QED BY <2>1, <2>2
<1>11. ASSUME NamesOnce(f), NEW i \in DOMAIN l, NEW j \in DOMAIN l, l[i] = l[j] PROVE i = j
  <2>1. i \in Nat /\ j \in Nat
    BY <1>9
  <2> HIDE DEF roots, A
  <2>2. CASE i \in 1..Len(a) /\ l[i] = a[i] /\ l[i] \in roots
    <3>1. j \in 1..Len(a) /\ l[j] = a[j]
      BY <1>10, <1>11, <2>2
    <3> QED BY <1>7, <1>11, <2>2, <3>1
  <2>3. CASE /\ i - Len(a) \in 1..Len(b) /\ l[i] = b[i - Len(a)] /\ l[i] \in A \ roots
    <3>1. j - Len(a) \in 1..Len(b) /\ l[j] = b[j - Len(a)]
      BY <1>10, <1>11, <2>3
    <3>2. i - Len(a) = j - Len(a)
      BY <1>7, <1>11, <2>3, <3>1
    <3> QED BY <1>9, <2>1, <3>2
  <2> QED BY <1>10, <2>2, <2>3
<1>12. ASSUME NamesOnce(f), NEW d \in A, NEW e \in A, d.slug = e.slug PROVE d = e
  BY <1>2, <1>3, <1>12
<1>13. \A i \in DOMAIN l : l[i] \in A
  BY <1>10
<1>14. NamesOnce(f) => \A i, j \in DOMAIN l : l[i].slug = l[j].slug => i = j
  BY <1>11, <1>12, <1>13
<1>15. \A e \in A : e.slug \in Slugs
  BY <1>1, <1>3
<1>16. ASSUME NEW e \in A PROVE \E i \in DOMAIN l : l[i] = e
  <2>1. CASE e \in roots
    <3>1. PICK j \in 1..Len(a) : a[j] = e
      BY <1>8, <2>1
    <3>2. j \in DOMAIN l /\ l[j] = a[j]
      BY <1>9
    <3> QED BY <3>1, <3>2
  <2>2. CASE e \in A \ roots
    <3>1. PICK j \in 1..Len(b) : b[j] = e
      BY <1>8, <2>2
    <3>2. Len(a) + j \in DOMAIN l /\ l[Len(a) + j] = b[j]
      BY <1>9
    <3> QED BY <3>1, <3>2
  <2> QED BY <2>1, <2>2
<1>17. ASSUME q # <<>> PROVE l # <<>>
  <2>1. q[1] \in A
    BY <1>1, <1>3, <1>17
  <2> QED BY <1>16, <2>1
<1>18. ASSUME NEW i \in DOMAIN l, NEW j \in DOMAIN l, l[i].parent # None, l[j].parent = None
       PROVE  j < i
  <2>1. l[i] \notin roots /\ l[j] \in roots
    BY <1>13, <1>18
  <2>2. i > Len(a) /\ j \in 1..Len(a)
    BY <1>10, <2>1
  <2>3. i \in Nat
    BY <1>9
  <2> QED BY <1>9, <2>2, <2>3
<1> QED BY <1>9, <1>13, <1>14, <1>15, <1>16, <1>17, <1>18 DEF l
-----------------------------------------------------------------------------
Removing == {"count", "pull", "delete"}
Placing == {"parent", "children", "slug", "name", "write"}

\* What the record of a request has, by the stage it is at.
JobShape ==
    /\ DOMAIN job = Requests
    /\ \A r \in Requests :
        /\ job[r].at \in {"idle", "fill"} \cup Removing \cup Placing
        /\ job[r].at = "idle" => DOMAIN job[r] = {"at"}
        /\ job[r].at \in Removing => DOMAIN job[r] = {"kind", "id", "at", "left"}
        /\ job[r].at \in Placing =>
              DOMAIN job[r] = {"kind", "id", "want", "copy", "shifted", "at"}
        /\ job[r].at = "fill" => DOMAIN job[r] = {"kind", "id", "at", "want", "copy"}

ImpShape ==
    /\ imp.at \in {"idle", "parent", "stored", "save", "product", "saveProduct"}
    /\ imp.at = "idle" => DOMAIN imp = {"at"}
    /\ imp.at # "idle" =>
        DOMAIN imp = {"at", "file", "lines", "n", "parent", "stored", "was", "ids", "roots",
                      "failed", "disturbed"}

DataShape ==
    /\ live \subseteq Ids /\ unborn \subseteq Ids /\ live \cap unborn = {}
    /\ DOMAIN doc = Ids
    /\ \A c \in Ids : DOMAIN doc[c] = {"parent", "active", "slug", "old"}
    /\ DOMAIN products = Products
    /\ \A p \in Products : DOMAIN products[p] = {"cats", "active"}

Shape == JobShape /\ ImpShape /\ DataShape

(* The initial states have the shape (Init).                               *)
LEMMA ShapeInit == Init => Shape
BY FirstFits DEF Init, Shape, JobShape, ImpShape, DataShape, Idle, Blank, Removing, Placing

(* A request that is finished keeps the shape of the requests.             *)
LEMMA FinishShape == ASSUME JobShape, NEW r \in Requests, Finish(r) PROVE JobShape'
BY DEF JobShape, Finish, Idle, Removing, Placing

(* So does one that goes on to a stage with the same record.              *)
LEMMA GotoShape ==
    ASSUME JobShape, NEW r \in Requests, NEW where, Goto(r, where),
           \/ job[r].at \in Removing /\ where \in Removing
           \/ job[r].at \in Placing /\ where \in Placing
    PROVE  JobShape'
BY DEF JobShape, Goto, Removing, Placing
(* Marking the requests that looked at the addresses keeps the shape.      *)
LEMMA ShiftShape ==
    ASSUME JobShape, NEW r \in Requests, job' = Shift([job EXCEPT ![r] = Idle])
    PROVE  JobShape'
<1> DEFINE j == [job EXCEPT ![r] = Idle]
<1>1. /\ DOMAIN j = Requests
      /\ \A q \in Requests : j[q] = IF q = r THEN Idle ELSE job[q]
  BY DEF JobShape
<1> HIDE DEF j
<1>2. /\ DOMAIN job' = Requests
      /\ \A q \in Requests : \/ job'[q] = j[q]
                             \/ /\ j[q].at \in {"name", "write"}
                                /\ job'[q] = [j[q] EXCEPT !.shifted = TRUE]
  BY DEF Shift, j
<1>3. ASSUME NEW q \in Requests, j[q].at \in {"name", "write"},
             job'[q] = [j[q] EXCEPT !.shifted = TRUE]
      PROVE  DOMAIN job'[q] = DOMAIN j[q] /\ job'[q].at = j[q].at
  BY <1>1, <1>3 DEF JobShape, Placing, Idle
<1>4. ASSUME NEW q \in Requests
      PROVE  DOMAIN job'[q] = DOMAIN j[q] /\ job'[q].at = j[q].at
  BY <1>2, <1>3
<1>5. ASSUME NEW q \in Requests
      PROVE  \/ DOMAIN j[q] = {"at"} /\ j[q].at = "idle"
             \/ DOMAIN j[q] = DOMAIN job[q] /\ j[q].at = job[q].at
  BY <1>1 DEF Idle
<1>6. ASSUME NEW q \in Requests
      PROVE  \/ DOMAIN job'[q] = {"at"} /\ job'[q].at = "idle"
             \/ DOMAIN job'[q] = DOMAIN job[q] /\ job'[q].at = job[q].at
  BY <1>4, <1>5
<1> QED BY <1>2, <1>6 DEF JobShape, Removing, Placing

(* Every step of the panel keeps the shape of the requests (Panel).        *)
LEMMA PanelShape == ASSUME JobShape, NEW r \in Requests, Panel(r) PROVE JobShape'
<1>1. ASSUME NEW w \in NewCategories, Create(r, w) PROVE JobShape'
  BY <1>1 DEF Create, AddressStage, JobShape, Placing, Removing
<1>2. ASSUME NEW c \in live, NEW w \in Changes, Update(r, c, w) PROVE JobShape'
  BY <1>2 DEF Update, AddressStage, JobShape, Placing, Removing
<1>3. CASE CheckParent(r)
  BY <1>3, FinishShape, GotoShape DEF CheckParent, Checking, AddressStage, Placing
<1>4. CASE CheckChildren(r)
  BY <1>4, FinishShape, GotoShape DEF CheckChildren, Checking, AddressStage, Placing
<1>5. CASE CheckSlug(r)
  BY <1>5, FinishShape, GotoShape DEF CheckSlug, Checking, Placing
<1>6. CASE NameIt(r)
  <2>1. PICK s : job' = [job EXCEPT ![r].at = "write", ![r].want.slug = s, ![r].shifted = TRUE]
    BY <1>6 DEF NameIt
  <2>2. job[r].at = "name"
    BY <1>6 DEF NameIt, Checking
  <2> QED BY <2>1, <2>2 DEF JobShape, Placing, Removing
<1>7. CASE Insert(r)
  BY <1>7, FinishShape, ShiftShape DEF Insert
<1>8. CASE Save(r)
  BY <1>8, FinishShape, ShiftShape DEF Save
<1>9. ASSUME NEW c \in live, RemoveCategory(r, c) PROVE JobShape'
  BY <1>9 DEF RemoveCategory, JobShape, Placing, Removing
<1>10. ASSUME NEW what, Count(r, what) PROVE JobShape'
  <2>1. job[r].at = "count"
    BY <1>10 DEF Count, Checking
  <2>2. CASE Finish(r)
    BY <2>2, FinishShape
  <2>3. CASE job' = [job EXCEPT ![r].left = @ \ {what},
                               ![r].at = IF job[r].left = {what} THEN "pull" ELSE "count"]
    BY <2>1, <2>3 DEF JobShape, Placing, Removing
  <2> QED BY <1>10, <2>2, <2>3 DEF Count
<1>11. CASE Pull(r)
  BY <1>11, GotoShape DEF Pull, Removing
<1>12. CASE Delete(r)
  BY <1>12, FinishShape DEF Delete
<1>13. ASSUME NEW p \in Products, NEW cs, NEW on, EditProduct(r, p, cs, on) PROVE JobShape'
  BY <1>13 DEF EditProduct, JobShape, Placing, Removing
<1>14. CASE SaveProduct(r)
  BY <1>14, FinishShape DEF SaveProduct
<1> QED BY <1>1, <1>2, <1>3, <1>4, <1>5, <1>6, <1>7, <1>8, <1>9, <1>10, <1>11, <1>12, <1>13,
           <1>14 DEF Panel
-----------------------------------------------------------------------------
\* All of the import but the note that it was disturbed.
SameImport ==
    /\ imp'.at = imp.at
    /\ DOMAIN imp' = DOMAIN imp
    /\ imp.at # "idle" =>
        /\ imp'.ids = imp.ids /\ imp'.roots = imp.roots /\ imp'.parent = imp.parent
        /\ imp'.stored = imp.stored /\ imp'.was = imp.was /\ imp'.n = imp.n
        /\ imp'.lines = imp.lines /\ imp'.file = imp.file

(* A step of the panel at most notes that it disturbed the import.         *)
LEMMA PanelLeavesImport ==
    ASSUME ImpShape, NEW r \in Requests, Panel(r) PROVE SameImport
<1>1. imp' = imp \/ imp' = Disturbed
  BY DEF Panel, Start, Create, Update, Checking, CheckParent, CheckChildren, CheckSlug, NameIt,
         Insert, Save, RemoveCategory, Count, Pull, Delete, EditProduct, SaveProduct
<1>2. CASE imp' = imp
  BY <1>2 DEF SameImport
<1>3. CASE imp' = Disturbed /\ imp.at # "idle"
  BY <1>3 DEF SameImport, Disturbed, ImpShape
<1> QED BY <1>1, <1>2, <1>3 DEF Disturbed

(* Every step of the import keeps the shape of its record.                 *)
LEMMA ImporterShape == ASSUME ImpShape, Importer PROVE ImpShape'
<1> USE DEF ImpShape
<1> DEFINE Fields == {"at", "file", "lines", "n", "parent", "stored", "was", "ids", "roots",
                      "failed", "disturbed"}
<1>1. ASSUME NEW i, DOMAIN i = Fields
      PROVE  DOMAIN Next1(i) = Fields /\ Next1(i).at \in {"parent", "product"}
  BY <1>1 DEF Next1
<1>2. ASSUME imp.at # "idle", Fail PROVE ImpShape'
  <2>1. DOMAIN [imp EXCEPT !.failed = @ \cup {Entry.slug}] = Fields
    BY <1>2
  <2> QED BY <1>1, <1>2, <2>1 DEF Fail
<1>3. ASSUME imp.at # "idle", NEW c, Done(c) PROVE ImpShape'
  <2> DEFINE s == Entry.slug
             i == [imp EXCEPT
                    !.ids = [t \in DOMAIN imp.ids \cup {s} |-> IF t = s THEN c ELSE imp.ids[t]],
                    !.roots = IF imp.parent = None THEN @ \cup {s} ELSE @]
  <2>1. DOMAIN i = Fields
    BY <1>3
  <2>2. imp' = Next1(i)
    BY <1>3 DEF Done
  <2> HIDE DEF i
  <2> QED BY <1>1, <2>1, <2>2
<1>4. ASSUME NEW f \in Files, Import(f) PROVE ImpShape'
  BY <1>4 DEF Import
<1>5. CASE ImportParent
  BY <1>2, <1>5 DEF ImportParent, Importing
<1>6. CASE ImportStored
  BY <1>6 DEF ImportStored, Importing
<1>7. CASE ImportNew
  BY <1>2, <1>3, <1>7 DEF ImportNew, Importing
<1>8. CASE ImportStill
  BY <1>2, <1>3, <1>8 DEF ImportStill, Importing
<1>9. CASE ImportProduct
  <2>1. CASE imp' = Idle
    BY <2>1 DEF Idle
  <2>2. CASE imp' = [imp EXCEPT !.n = @ + 1]
    BY <1>9, <2>2 DEF ImportProduct
  <2>3. ASSUME NEW w, imp' = [imp EXCEPT !.at = "saveProduct", !.was = w] PROVE ImpShape'
    BY <1>9, <2>3 DEF ImportProduct
  <2> QED BY <1>9, <2>1, <2>2, <2>3 DEF ImportProduct
<1>10. CASE ImportSaveProduct
  BY <1>10 DEF ImportSaveProduct
<1> QED BY <1>4, <1>5, <1>6, <1>7, <1>8, <1>9, <1>10 DEF Importer

(* Every step keeps the documents records, and what was never stored apart *)
(* from what is.                                                           *)
LEMMA DataShapeKept == ASSUME Shape, Next PROVE DataShape'
<1> USE DEF Shape, DataShape, treeVars
<1>1. ASSUME NEW r \in Requests, Insert(r) PROVE DataShape'
  BY <1>1 DEF Insert, Blank
<1>2. ASSUME NEW r \in Requests, Save(r) PROVE DataShape'
  <2>1. CASE doc' = doc
    BY <1>2, <2>1 DEF Save
  <2>2. CASE doc' = [doc EXCEPT ![job[r].id] = Written(job[r].id, job[r].want, job[r].copy)]
    <3>1. UNCHANGED <<live, unborn, products>>
      BY <1>2 DEF Save
    <3>2. job[r].id \in live => DOMAIN Written(job[r].id, job[r].want, job[r].copy) =
                                   {"parent", "active", "slug", "old"}
      BY DEF Written
    <3> QED BY <1>2, <2>2, <3>1, <3>2 DEF Save, Refused
  <2> QED BY <1>2, <2>1, <2>2 DEF Save
<1>3. ASSUME NEW r \in Requests, Pull(r) PROVE DataShape'
  BY <1>3 DEF Pull
<1>4. ASSUME NEW r \in Requests, Delete(r) PROVE DataShape'
  BY <1>4 DEF Delete, Blank
<1>5. ASSUME NEW r \in Requests, SaveProduct(r) PROVE DataShape'
  BY <1>5 DEF SaveProduct, Filled
<1>6. ASSUME ImportNew PROVE DataShape'
  BY <1>6 DEF ImportNew, Importing, Blank
<1>7. ASSUME ImportStill PROVE DataShape'
  BY <1>7 DEF ImportStill, Importing
<1>8. ASSUME ImportSaveProduct PROVE DataShape'
  BY <1>8 DEF ImportSaveProduct, Filled
<1>9. ASSUME UNCHANGED <<live, unborn, doc, products>> PROVE DataShape'
  BY <1>9
<1>10. ASSUME NEW r \in Requests, Panel(r) PROVE DataShape'
  BY <1>1, <1>2, <1>3, <1>4, <1>5, <1>9, <1>10 DEF Panel, Start, Create, Update, Checking,
     CheckParent, CheckChildren, CheckSlug, NameIt, RemoveCategory, Count, EditProduct
<1>11. ASSUME Importer PROVE DataShape'
  BY <1>6, <1>7, <1>8, <1>9, <1>11 DEF Importer, Import, Importing, ImportParent, ImportStored,
     ImportProduct
<1> QED BY <1>10, <1>11 DEF Next

(* Every step keeps the shape of all the records (Next).                   *)
LEMMA ShapeKept == Shape /\ [Next]_vars => Shape'
<1> SUFFICES ASSUME Shape, [Next]_vars PROVE Shape'
  OBVIOUS
<1>1. CASE UNCHANGED vars
  BY <1>1, Zenon DEF Shape, JobShape, ImpShape, DataShape, vars, treeVars
<1>2. ASSUME NEW r \in Requests, Panel(r) PROVE JobShape' /\ ImpShape'
  BY <1>2, PanelShape, PanelLeavesImport DEF Shape, SameImport, ImpShape
<1>3. ASSUME Importer PROVE JobShape' /\ ImpShape'
  <2>1. job' = job
    BY <1>3 DEF Importer, Import, Importing, ImportParent, ImportStored, ImportNew, ImportStill,
                ImportProduct, ImportSaveProduct
  <2>2. JobShape'
    BY <2>1, Zenon DEF Shape, JobShape
  <2> QED BY <1>3, <2>2, ImporterShape DEF Shape
<1> QED BY <1>1, <1>2, <1>3, DataShapeKept DEF Next, Shape
-----------------------------------------------------------------------------
(***************************************************************************)
(* Products and the categories that exist.                                 *)
(***************************************************************************)
ProductsLive == \A p \in Products : products[p].cats \subseteq live
FillsLive == \A r \in Requests : job[r].at = "fill" => job[r].want.cats \subseteq live
ImportLive == imp.at # "idle" => \A s \in DOMAIN imp.ids : imp.ids[s] \in live
GoneUnused ==
    \A r \in Requests : job[r].at = "delete" =>
        \A p \in Products : job[r].id \notin products[p].cats

\* A product of the file is only saved with categories of the map.
LineKnown ==
    imp.at = "saveProduct" => imp.file.products[imp.n].slugs \subseteq DOMAIN imp.ids

References == ProductsLive /\ FillsLive /\ ImportLive /\ GoneUnused
DeadInv == LineKnown /\ (~deadClash => References)

\* The requests that hold categories are the ones there were.
QuietJobs == \A r \in Requests : job'[r].at \in {"fill", "delete"} => job'[r] = job[r]

(* What is under way keeps its references when the categories only grow,   *)
(* the products are left alone and the requests that hold categories are   *)
(* the ones there were.                                                    *)
LEMMA QuietStep ==
    ASSUME Shape, DeadInv, QuietJobs, SameImport, live \subseteq live', UNCHANGED products,
           deadClash => deadClash'
    PROVE  DeadInv'
<1>1. LineKnown'
  BY DEF DeadInv, LineKnown, SameImport
<1>2. ASSUME ~deadClash' PROVE References'
  BY <1>2 DEF DeadInv, References, ProductsLive, FillsLive, ImportLive, GoneUnused, QuietJobs,
              SameImport
<1> QED BY <1>1, <1>2 DEF DeadInv

(* A request that is finished holds no categories.                         *)
LEMMA FinishIsQuiet == ASSUME Shape, NEW r \in Requests, Finish(r) PROVE QuietJobs
BY DEF Shape, JobShape, Finish, Idle, QuietJobs

(* The same of a request that goes on to a check.                          *)
LEMMA GotoIsQuiet ==
    ASSUME Shape, NEW r \in Requests, NEW where, Goto(r, where), where \in Placing PROVE QuietJobs
BY DEF Shape, JobShape, Goto, QuietJobs, Placing, Removing

(* Marking the requests that looked at the addresses changes none that     *)
(* holds categories.                                                       *)
LEMMA ShiftIsQuiet ==
    ASSUME Shape, NEW r \in Requests, job' = Shift([job EXCEPT ![r] = Idle])
    PROVE  QuietJobs
<1> DEFINE j == [job EXCEPT ![r] = Idle]
<1>1. \A q \in Requests : j[q] = IF q = r THEN Idle ELSE job[q]
  BY DEF Shape, JobShape
<1> HIDE DEF j
<1>2. \A q \in Requests : \/ job'[q] = j[q]
                         \/ /\ j[q].at \in {"name", "write"}
                            /\ job'[q] = [j[q] EXCEPT !.shifted = TRUE]
  BY DEF Shift, j
<1>3. ASSUME NEW q \in Requests, j[q].at \in {"name", "write"},
             job'[q] = [j[q] EXCEPT !.shifted = TRUE]
      PROVE  job'[q].at = j[q].at
  BY <1>1, <1>3 DEF Shape, JobShape, Placing, Idle
<1>4. ASSUME NEW q \in Requests, job'[q] = j[q], job'[q].at \in {"fill", "delete"}
      PROVE  job'[q] = job[q]
  BY <1>1, <1>4 DEF Idle
<1> QED BY <1>2, <1>3, <1>4 DEF QuietJobs

(* The steps that place a category, or check one that is to be removed,    *)
(* leave the products alone and take no category away.                     *)
LEMMA PlacingIsQuiet ==
    ASSUME Shape, DeadInv, NEW r \in Requests, Panel(r),
           \/ \E w \in NewCategories : Create(r, w)
           \/ \E c \in live, w \in Changes : Update(r, c, w)
           \/ CheckParent(r) \/ CheckChildren(r) \/ CheckSlug(r) \/ NameIt(r)
           \/ Insert(r) \/ Save(r)
           \/ \E c \in live : RemoveCategory(r, c)
           \/ \E what \in {"children", "products"} : Count(r, what)
    PROVE  DeadInv'
<1> USE DEF Start, Checking, treeVars, history
<1>1. ASSUME NEW w \in NewCategories, Create(r, w)
      PROVE  QuietJobs /\ live \subseteq live' /\ UNCHANGED <<products, deadClash>>
  BY <1>1 DEF Create, AddressStage, QuietJobs, Shape, JobShape
<1>2. ASSUME NEW c \in live, NEW w \in Changes, Update(r, c, w)
      PROVE  QuietJobs /\ live \subseteq live' /\ UNCHANGED <<products, deadClash>>
  BY <1>2 DEF Update, AddressStage, QuietJobs, Shape, JobShape
<1>3. ASSUME CheckParent(r)
      PROVE  QuietJobs /\ live \subseteq live' /\ UNCHANGED <<products, deadClash>>
  BY <1>3, FinishIsQuiet, GotoIsQuiet DEF CheckParent, AddressStage, Placing
<1>4. ASSUME CheckChildren(r)
      PROVE  QuietJobs /\ live \subseteq live' /\ UNCHANGED <<products, deadClash>>
  BY <1>4, FinishIsQuiet, GotoIsQuiet DEF CheckChildren, AddressStage, Placing
<1>5. ASSUME CheckSlug(r)
      PROVE  QuietJobs /\ live \subseteq live' /\ UNCHANGED <<products, deadClash>>
  BY <1>5, FinishIsQuiet, GotoIsQuiet DEF CheckSlug, Placing
<1>6. ASSUME NameIt(r)
      PROVE  QuietJobs /\ live \subseteq live' /\ UNCHANGED <<products, deadClash>>
  <2>1. PICK s : job' = [job EXCEPT ![r].at = "write", ![r].want.slug = s, ![r].shifted = TRUE]
    BY <1>6 DEF NameIt
  <2>2. DOMAIN job = Requests /\ "at" \in DOMAIN job[r]
    BY <1>6 DEF NameIt, Shape, JobShape, Placing
  <2>3. job'[r].at = "write" /\ \A q \in Requests \ {r} : job'[q] = job[q]
    BY <2>1, <2>2
  <2>4. QuietJobs
    BY <2>3 DEF QuietJobs
  <2> QED BY <1>6, <2>4 DEF NameIt
<1>7. ASSUME Insert(r)
      PROVE  QuietJobs /\ live \subseteq live' /\ UNCHANGED <<products, deadClash>>
  BY <1>7, FinishIsQuiet, ShiftIsQuiet DEF Insert
<1>8. ASSUME Save(r)
      PROVE  QuietJobs /\ live \subseteq live' /\ UNCHANGED <<products, deadClash>>
  BY <1>8, FinishIsQuiet, ShiftIsQuiet DEF Save
<1>9. ASSUME NEW c \in live, RemoveCategory(r, c)
      PROVE  QuietJobs /\ live \subseteq live' /\ UNCHANGED <<products, deadClash>>
  BY <1>9 DEF RemoveCategory, QuietJobs, Shape, JobShape
<1>10. ASSUME NEW what, Count(r, what)
      PROVE  QuietJobs /\ live \subseteq live' /\ UNCHANGED <<products, deadClash>>
  <2>1. CASE Finish(r)
    BY <1>10, <2>1, FinishIsQuiet DEF Count
  <2>2. CASE job' = [job EXCEPT ![r].left = @ \ {what},
                               ![r].at = IF job[r].left = {what} THEN "pull" ELSE "count"]
    <3>1. DOMAIN job = Requests /\ "at" \in DOMAIN job[r]
      BY <1>10 DEF Count, Shape, JobShape, Removing
    <3>2. job'[r].at \in {"pull", "count"} /\ \A q \in Requests \ {r} : job'[q] = job[q]
      BY <2>2, <3>1
    <3>3. QuietJobs
      BY <3>2 DEF QuietJobs
    <3> QED BY <1>10, <3>3 DEF Count
  <2> QED BY <1>10, <2>1, <2>2 DEF Count
<1>11. SameImport
  BY PanelLeavesImport DEF Shape
<1>12. QuietJobs /\ live \subseteq live' /\ UNCHANGED <<products, deadClash>>
  BY <1>1, <1>2, <1>3, <1>4, <1>5, <1>6, <1>7, <1>8, <1>9, <1>10
<1> QED BY <1>11, <1>12, QuietStep

(* The $pull takes the category out of every product before the document   *)
(* goes.                                                                   *)
LEMMA PullKeepsReferences ==
    ASSUME Shape, DeadInv, NEW r \in Requests, Pull(r) PROVE DeadInv'
<1> USE DEF Shape, DataShape, JobShape, Removing, treeVars, history
<1>1. UNCHANGED <<live, imp, deadClash>>
  BY DEF Pull
<1>2. \A p \in Products : products'[p].cats = products[p].cats \ {job[r].id}
  BY DEF Pull
<1>3. /\ job'[r].at = "delete" /\ job'[r].id = job[r].id
      /\ \A q \in Requests : q # r => job'[q] = job[q]
  <2>1. /\ DOMAIN job = Requests /\ {"at", "id"} \subseteq DOMAIN job[r]
        /\ job' = [job EXCEPT ![r].at = "delete"]
    BY DEF Pull, Goto
  <2>2. job'[r] = [job[r] EXCEPT !.at = "delete"] /\ \A q \in Requests : q # r => job'[q] = job[q]
    BY <2>1
  <2>3. job'[r].at = "delete" /\ job'[r].id = job[r].id
    BY <2>1, <2>2
  <2> QED BY <2>2, <2>3
<1>4. LineKnown'
  BY <1>1 DEF DeadInv, LineKnown
<1>5. ASSUME ~deadClash PROVE ProductsLive' /\ FillsLive' /\ ImportLive'
  BY <1>1, <1>2, <1>3, <1>5 DEF DeadInv, References, ProductsLive, FillsLive, ImportLive
<1>6. ASSUME ~deadClash PROVE GoneUnused'
  BY <1>2, <1>3, <1>6 DEF DeadInv, References, GoneUnused
<1> QED BY <1>1, <1>4, <1>5, <1>6 DEF DeadInv, References

(* A removal that overlapped no filling of categories takes away one that  *)
(* nobody holds.                                                           *)
LEMMA DeleteKeepsReferences ==
    ASSUME Shape, DeadInv, NEW r \in Requests, Delete(r) PROVE DeadInv'
<1> USE DEF Shape, JobShape
<1>1. SameImport
  BY PanelLeavesImport DEF Panel
<1>2. /\ live' = live \ {job[r].id} /\ UNCHANGED products /\ job[r].at = "delete"
      /\ Finish(r)
  BY DEF Delete
<1>3. LineKnown'
  BY <1>1 DEF DeadInv, LineKnown, SameImport
<1>4. ASSUME ~deadClash' PROVE References'
  <2>1. /\ References
        /\ \A q \in Requests : job[q].at = "fill" => job[r].id \notin job[q].want.cats
        /\ imp.at # "idle" => \A s \in DOMAIN imp.ids : imp.ids[s] # job[r].id
    BY <1>4 DEF Delete, DeadInv, Fills
  <2>2. QuietJobs
    BY <1>2, FinishIsQuiet
  <2>3. ProductsLive' /\ GoneUnused'
    BY <1>2, <2>1, <2>2 DEF References, ProductsLive, GoneUnused, QuietJobs
  <2>4. FillsLive' /\ ImportLive'
    BY <1>1, <1>2, <2>1, <2>2 DEF References, FillsLive, ImportLive, QuietJobs, SameImport
  <2> QED BY <2>3, <2>4 DEF References
<1> QED BY <1>3, <1>4 DEF DeadInv

(* A product that takes categories of the database takes none that is      *)
(* about to go, or the removal is noted as overlapping.                    *)
LEMMA FilledKeepsReferences ==
    ASSUME Shape, References, NEW p \in Products, NEW cs, cs \subseteq live, ~AboutToGo(cs),
           \/ products'[p].cats = cs \/ products'[p].cats = products[p].cats,
           \A q \in Products \ {p} : products'[q] = products[q],
           live' = live, QuietJobs
    PROVE  ProductsLive' /\ GoneUnused' /\ FillsLive'
<1>1. ProductsLive' /\ FillsLive'
  BY DEF References, ProductsLive, FillsLive, QuietJobs
<1>2. GoneUnused'
  BY DEF References, GoneUnused, QuietJobs, AboutToGo
<1> QED BY <1>1, <1>2

(* The saving of a product (SaveProduct).                                  *)
LEMMA SaveProductKeepsReferences ==
    ASSUME Shape, DeadInv, NEW r \in Requests, SaveProduct(r) PROVE DeadInv'
<1> DEFINE p == job[r].id
           w == job[r].want
<1>1. SameImport
  BY PanelLeavesImport DEF Panel, Shape
<1>2. live' = live /\ QuietJobs
  BY FinishIsQuiet DEF SaveProduct, treeVars
<1>3. LineKnown'
  BY <1>1 DEF DeadInv, LineKnown, SameImport
<1>4. ASSUME ~deadClash' PROVE References'
  <2>1. References
    BY <1>4 DEF SaveProduct, DeadInv
  <2>2. ImportLive'
    BY <1>1, <1>2, <2>1 DEF References, ImportLive, SameImport
  <2>3. CASE \A q \in Products : products'[q] = products[q]
    BY <1>2, <2>1, <2>2, <2>3 DEF References, ProductsLive, FillsLive, GoneUnused, QuietJobs
  <2>4. CASE /\ products' = [products EXCEPT ![p] = [Filled(p, w.cats, job[r].copy) EXCEPT
                                !.active = IF w.active = job[r].copy.active THEN @ ELSE w.active]]
             /\ ~AboutToGo(w.cats)
    <3>1. w.cats \subseteq live
      BY <2>1 DEF SaveProduct, References, FillsLive
    <3>2. CASE p \notin Products
      <4>1. \A q \in Products : products'[q] = products[q]
        BY <2>4, <3>2 DEF Shape, DataShape
      <4> QED BY <2>3, <4>1
    <3>3. CASE p \in Products
      <4>1. \/ products'[p].cats = w.cats \/ products'[p].cats = products[p].cats
        BY <2>4, <3>3 DEF Filled, Shape, DataShape
      <4>2. \A q \in Products \ {p} : products'[q] = products[q]
        BY <2>4 DEF Shape, DataShape
      <4>3. ProductsLive' /\ GoneUnused' /\ FillsLive'
        BY <1>2, <2>1, <2>4, <3>1, <3>3, <4>1, <4>2, FilledKeepsReferences
      <4> QED BY <2>2, <4>3 DEF References
    <3> QED BY <3>2, <3>3
  <2> QED BY <1>4, <2>3, <2>4 DEF SaveProduct
<1> QED BY <1>3, <1>4 DEF DeadInv

(* Every step of the panel keeps the references (Panel).                   *)
LEMMA PanelKeepsReferences ==
    ASSUME Shape, DeadInv, NEW r \in Requests, Panel(r) PROVE DeadInv'
<1>1. ASSUME NEW p \in Products, NEW cs \in SUBSET live, NEW on, EditProduct(r, p, cs, on),
             SameImport
      PROVE  DeadInv'
  <2>1. UNCHANGED <<live, products, deadClash>>
    BY <1>1 DEF EditProduct, Start, treeVars, history
  <2>2. /\ job'[r].at = "fill" /\ job'[r].want.cats \subseteq live
        /\ \A q \in Requests : q # r => job'[q] = job[q]
    <3>1. DOMAIN job = Requests
      BY DEF Shape, JobShape
    <3>2. job'[r].at = "fill" /\ job'[r].want.cats = cs
      BY <1>1, <3>1 DEF EditProduct
    <3>3. \A q \in Requests : q # r => job'[q] = job[q]
      BY <1>1, <3>1 DEF EditProduct
    <3> QED BY <1>1, <3>2, <3>3
  <2>3. LineKnown'
    BY <1>1 DEF DeadInv, LineKnown, SameImport
  <2>4. ASSUME ~deadClash PROVE References'
    BY <1>1, <2>1, <2>2, <2>4 DEF DeadInv, References, ProductsLive, FillsLive, GoneUnused,
                                  ImportLive, SameImport
  <2> QED BY <2>1, <2>3, <2>4 DEF DeadInv
<1>2. SameImport
  BY PanelLeavesImport DEF Shape
<1> QED BY <1>1, <1>2, PlacingIsQuiet, PullKeepsReferences, DeleteKeepsReferences,
           SaveProductKeepsReferences DEF Panel

-----------------------------------------------------------------------------
(* A line that is over, done or not: the next one starts with no parent.   *)
LEMMA FailLine ==
    ASSUME Shape, imp.at # "idle", Fail
    PROVE  /\ imp'.ids = imp.ids /\ imp'.roots = imp.roots /\ imp'.lines = imp.lines
           /\ imp'.at \in {"parent", "product"}
           /\ imp'.at = "parent" =>
                /\ imp'.n = imp.n + 1 /\ imp.n < Len(imp.lines)
                /\ imp'.parent = None /\ imp'.stored = None
<1> DEFINE i == [imp EXCEPT !.failed = @ \cup {Entry.slug}]
<1>1. /\ DOMAIN i = DOMAIN imp /\ i.ids = imp.ids /\ i.roots = imp.roots /\ i.lines = imp.lines
      /\ i.n = imp.n
  BY DEF Shape, ImpShape
<1> HIDE DEF i
<1>2. imp' = Next1(i)
  BY DEF Fail, i
<1> QED BY <1>1, <1>2 DEF Next1, Shape, ImpShape

(* A line that is done enters the map, and the roots if it is one.         *)
LEMMA DoneLine ==
    ASSUME Shape, imp.at # "idle", NEW c, Done(c)
    PROVE  /\ imp'.ids = [t \in DOMAIN imp.ids \cup {Entry.slug} |->
                            IF t = Entry.slug THEN c ELSE imp.ids[t]]
           /\ imp'.roots = (IF imp.parent = None THEN imp.roots \cup {Entry.slug} ELSE imp.roots)
           /\ imp'.lines = imp.lines
           /\ imp'.at \in {"parent", "product"}
           /\ imp'.at = "parent" =>
                /\ imp'.n = imp.n + 1 /\ imp.n < Len(imp.lines)
                /\ imp'.parent = None /\ imp'.stored = None
<1> DEFINE s == Entry.slug
           m == [t \in DOMAIN imp.ids \cup {s} |-> IF t = s THEN c ELSE imp.ids[t]]
           R == IF imp.parent = None THEN imp.roots \cup {s} ELSE imp.roots
           i == [imp EXCEPT !.ids = m, !.roots = R]
<1>1. /\ DOMAIN i = DOMAIN imp /\ i.ids = m /\ i.roots = R /\ i.lines = imp.lines /\ i.n = imp.n
  BY DEF Shape, ImpShape
<1>2. imp' = Next1(i)
  BY DEF Done
<1> HIDE DEF i, m, R
<1>3. /\ imp'.ids = m /\ imp'.roots = R /\ imp'.lines = imp.lines
      /\ imp'.at \in {"parent", "product"}
      /\ imp'.at = "parent" =>
           /\ imp'.n = imp.n + 1 /\ imp.n < Len(imp.lines)
           /\ imp'.parent = None /\ imp'.stored = None
  BY <1>1, <1>2 DEF Next1, Shape, ImpShape
<1> QED BY <1>3 DEF m, R

(* A line that is done puts a category of the database in the map.         *)
LEMMA DoneIsLive ==
    ASSUME Shape, imp.at # "idle", NEW c, Done(c), c \in live', live \subseteq live', ImportLive
    PROVE  ImportLive'
<1>1. /\ imp'.at \in {"parent", "product"}
      /\ imp'.ids = [t \in DOMAIN imp.ids \cup {Entry.slug} |->
                       IF t = Entry.slug THEN c ELSE imp.ids[t]]
  BY DoneLine
<1>2. ASSUME NEW t \in DOMAIN imp'.ids PROVE imp'.ids[t] \in live'
  BY <1>1, <1>2 DEF ImportLive
<1> QED BY <1>1, <1>2 DEF ImportLive

(* Every step of the import keeps the references (Importer).               *)
LEMMA ImporterKeepsReferences == ASSUME Shape, DeadInv, Importer PROVE DeadInv'
<1> USE DEF Shape, treeVars, history
<1>0. job' = job
  BY DEF Importer, Import, Importing, ImportParent, ImportStored, ImportNew, ImportStill,
         ImportProduct, ImportSaveProduct
\* What a step has to say of the map and of the products.
<1>1. ASSUME live \subseteq live', UNCHANGED products, deadClash => deadClash',
             imp'.at # "saveProduct",
             ~deadClash /\ ImportLive => ImportLive'
      PROVE  DeadInv'
  BY <1>0, <1>1 DEF DeadInv, LineKnown, References, ProductsLive, FillsLive, GoneUnused
<1>2. ASSUME NEW f \in Files, Import(f) PROVE DeadInv'
  <2>1. imp'.at \in {"parent", "product"} /\ ImportLive'
    BY <1>2 DEF Import, ImportLive
  <2> QED BY <1>1, <1>2, <2>1 DEF Import
<1>3. CASE ImportParent
  <2>1. imp.at = "parent" /\ UNCHANGED <<live, products, deadClash>>
    BY <1>3 DEF ImportParent, Importing
  <2>2. imp'.at # "saveProduct" /\ imp'.ids = imp.ids
    BY <1>3, <2>1, FailLine DEF ImportParent, ImpShape
  <2> QED BY <1>1, <2>1, <2>2 DEF ImportLive
<1>4. CASE ImportStored
  <2>1. imp.at = "stored" /\ UNCHANGED <<live, products, deadClash>>
    BY <1>4 DEF ImportStored, Importing
  <2>2. imp'.at # "saveProduct" /\ imp'.ids = imp.ids
    BY <1>4, <2>1 DEF ImportStored, ImpShape
  <2> QED BY <1>1, <2>1, <2>2 DEF ImportLive
<1>5. CASE ImportNew
  <2>1. imp.at = "save" /\ live \subseteq live' /\ UNCHANGED <<products, deadClash>>
    BY <1>5 DEF ImportNew, Importing
  <2>2. CASE Fail /\ live' = live
    BY <1>1, <2>1, <2>2, FailLine DEF ImportLive
  <2>3. ASSUME NEW c, Done(c), c \in live' PROVE DeadInv'
    BY <1>1, <2>1, <2>3, DoneIsLive, DoneLine
  <2> QED BY <1>5, <2>2, <2>3 DEF ImportNew
<1>6. CASE ImportStill
  <2>1. imp.at = "save" /\ UNCHANGED <<live, products, deadClash>>
    BY <1>6 DEF ImportStill, Importing
  <2>2. CASE Fail
    BY <1>1, <2>1, <2>2, FailLine DEF ImportLive
  <2>3. ASSUME NEW c, Done(c), c \in live PROVE DeadInv'
    BY <1>1, <2>1, <2>3, DoneIsLive, DoneLine
  <2> QED BY <1>6, <2>2, <2>3 DEF ImportStill
<1>7. CASE ImportProduct
  <2>1. UNCHANGED <<live, products, deadClash>>
    BY <1>7 DEF ImportProduct
  <2>2. CASE imp' = Idle
    BY <1>1, <2>1, <2>2 DEF Idle, ImportLive
  <2>3. CASE imp' = [imp EXCEPT !.n = @ + 1]
    <3>1. imp'.at = imp.at /\ imp.at = "product" /\ imp'.ids = imp.ids
      BY <1>7, <2>3 DEF ImportProduct, ImpShape
    <3> QED BY <1>1, <2>1, <3>1 DEF ImportLive
  <2>4. ASSUME NEW was, imp' = [imp EXCEPT !.at = "saveProduct", !.was = was],
               imp.file.products[imp.n].slugs \subseteq DOMAIN imp.ids
        PROVE  DeadInv'
    <3>1. imp'.ids = imp.ids /\ imp'.file = imp.file /\ imp'.n = imp.n /\ imp.at = "product"
      BY <1>7, <2>4 DEF ImportProduct, ImpShape
    <3>2. LineKnown'
      BY <2>4, <3>1 DEF LineKnown
    <3>3. ImportLive => ImportLive'
      BY <2>1, <3>1 DEF ImportLive
    <3> QED BY <1>0, <2>1, <3>2, <3>3 DEF DeadInv, References, ProductsLive, FillsLive, GoneUnused
  <2> QED BY <1>7, <2>2, <2>3, <2>4 DEF ImportProduct
<1>8. CASE ImportSaveProduct
  <2> DEFINE line == imp.file.products[imp.n]
             p == line.product
             cs == IF line.slugs = {} THEN imp.was.cats ELSE {imp.ids[s] : s \in line.slugs}
  <2>1. /\ imp.at = "saveProduct" /\ live' = live /\ imp'.at = "product" /\ imp'.ids = imp.ids
        /\ deadClash => deadClash'
    BY <1>8 DEF ImportSaveProduct, ImpShape
  <2>2. LineKnown'
    BY <2>1 DEF LineKnown
  <2>3. ASSUME ~deadClash' PROVE References'
    <3>1. References
      BY <2>1, <2>3 DEF DeadInv
    <3>2. ImportLive'
      BY <2>1, <3>1 DEF References, ImportLive
    <3>3. CASE \A q \in Products : products'[q] = products[q]
      BY <1>0, <2>1, <3>1, <3>2, <3>3 DEF References, ProductsLive, FillsLive, GoneUnused
    <3>4. CASE products' = [products EXCEPT ![p] = Filled(p, cs, imp.was)] /\ ~AboutToGo(cs)
      <4>1. CASE p \notin Products \/ Filled(p, cs, imp.was) = products[p]
        <5>1. \A q \in Products : products'[q] = products[q]
          BY <3>4, <4>1 DEF DataShape
        <5> QED BY <3>3, <5>1
      <4>2. CASE p \in Products /\ Filled(p, cs, imp.was) # products[p]
        <5>1. line.slugs # {}
          BY <4>2 DEF Filled
        <5>2. cs \subseteq live
          BY <2>1, <3>1, <5>1 DEF DeadInv, LineKnown, References, ImportLive
        <5>3. products'[p].cats = cs /\ \A q \in Products \ {p} : products'[q] = products[q]
          BY <3>4, <4>2 DEF Filled, DataShape
        <5>4. QuietJobs
          BY <1>0 DEF QuietJobs
        <5>5. ProductsLive' /\ GoneUnused' /\ FillsLive'
          BY <2>1, <3>1, <3>4, <4>2, <5>2, <5>3, <5>4, FilledKeepsReferences
        <5> QED BY <3>2, <5>5 DEF References
      <4> QED BY <4>1, <4>2
    <3> QED BY <1>8, <2>3, <3>3, <3>4 DEF ImportSaveProduct
  <2> QED BY <2>2, <2>3 DEF DeadInv
<1> QED BY <1>2, <1>3, <1>4, <1>5, <1>6, <1>7, <1>8 DEF Importer

(* The references are kept always (Next).                                  *)
THEOREM ReferencesInvariant == Spec => [](Shape /\ DeadInv)
<1>1. Init => Shape /\ DeadInv
  <2>1. ASSUME Init PROVE DeadInv
    BY <2>1, FirstFits DEF Init, DeadInv, LineKnown, References, ProductsLive, FillsLive,
                           ImportLive, GoneUnused, Idle
  <2> QED BY <2>1, ShapeInit
<1>2. Shape /\ DeadInv /\ [Next]_vars => (Shape /\ DeadInv)'
  <2> SUFFICES ASSUME Shape, DeadInv, [Next]_vars PROVE DeadInv'
    BY ShapeKept
  <2>1. CASE UNCHANGED vars
    BY <2>1, Zenon DEF vars, treeVars, history, DeadInv, LineKnown, References, ProductsLive,
                FillsLive, ImportLive, GoneUnused
  <2> QED BY <2>1, PanelKeepsReferences, ImporterKeepsReferences DEF Next
<1> QED BY <1>1, <1>2, PTL DEF Spec

(* No product is left with a category that does not exist, for any         *)
(* categories, requests and files, unless its categories were being saved  *)
(* around a removal (categories.service.ts, remove).                       *)
THEOREM NoProductIsLeftBehind == Spec => []NoDeadReference
<1>1. DeadInv => NoDeadReference
  BY DEF DeadInv, References, ProductsLive, NoDeadReference
<1> QED BY <1>1, ReferencesInvariant, PTL
-----------------------------------------------------------------------------
(***************************************************************************)
(* The tree has one level.                                                 *)
(***************************************************************************)
\* What a body says of the place, and that no category is put under itself.
WantsPlaces ==
    \A r \in Requests :
        /\ job[r].at \in Placing =>
            /\ job[r].kind \in {"create", "update"}
            /\ "parent" \in DOMAIN job[r].want
            /\ job[r].want.parent \in Ids \cup {None, Same}
            /\ job[r].kind = "create" => job[r].want.parent \in Ids \cup {None}
            /\ job[r].kind = "update" => job[r].id \in Ids /\ job[r].want.parent # job[r].id
        /\ job[r].at \in Removing => job[r].id \in Ids

\* The line an import is at comes after those it has done.
Reading == imp.at \in {"parent", "stored", "save"}
LinesDone ==
    Reading =>
        /\ imp.n \in 1..Len(imp.lines) /\ Len(imp.lines) \in Nat
        /\ \A s \in DOMAIN imp.ids : \E i \in 1..(imp.n - 1) : imp.lines[i].slug = s
        /\ imp.at = "parent" => imp.parent = None
        /\ imp.at # "save" => imp.stored = None

\* What each request has checked still holds.
Checked(r) ==
    job[r].at \in Placing \ {"parent"} /\ job[r].want.parent \in Ids =>
        /\ IsRoot(job[r].want.parent)
        /\ job[r].at # "children" /\ job[r].kind = "update" => Children(job[r].id) = {}
Emptied(r) ==
    \/ job[r].at = "count" /\ "children" \notin job[r].left
    \/ job[r].at \in {"pull", "delete"}
    => Children(job[r].id) = {}

\* And what the import goes by.
Ground ==
    /\ imp.at # "idle" =>
        /\ imp.roots \subseteq DOMAIN imp.ids
        /\ \A s \in imp.roots : IsRoot(imp.ids[s])
        /\ \A s \in DOMAIN imp.ids : imp.ids[s] \in live /\ doc[imp.ids[s]].slug = s
    /\ imp.at \in {"stored", "save"} /\ imp.parent # None => IsRoot(imp.parent)
    /\ imp.at = "save" /\ imp.stored # None =>
        /\ imp.stored \in live /\ doc[imp.stored].slug = Entry.slug
        /\ doc[imp.stored].parent = imp.was

Level == \A c \in live : doc[c].parent # None => IsRoot(doc[c].parent)

Calm == ~treeClash /\ ~nested
OneTree == Level /\ (\A r \in Requests : Checked(r) /\ Emptied(r)) /\ Ground
TreeInv == WantsPlaces /\ LinesDone /\ (Calm => OneTree)
-----------------------------------------------------------------------------
\* A request stands where it stood, for what it was for.
SameRequest(q) ==
    /\ job'[q].at = job[q].at
    /\ job[q].at \in Placing =>
        job'[q].kind = job[q].kind /\ job'[q].id = job[q].id /\ job'[q].want = job[q].want
    /\ job[q].at \in Removing => job'[q].id = job[q].id /\ job'[q].left = job[q].left

(* A request that ends leaves the others where they are.                   *)
LEMMA FinishLeavesOthers ==
    ASSUME Shape, NEW r \in Requests, Finish(r)
    PROVE  job'[r].at = "idle" /\ \A q \in Requests : q # r => SameRequest(q)
<1>1. job'[r] = Idle /\ \A q \in Requests : q # r => job'[q] = job[q]
  BY DEF Finish, Shape, JobShape
<1> QED BY <1>1 DEF SameRequest, Idle

(* So does one that ends with a change of address.                         *)
LEMMA ShiftLeavesOthers ==
    ASSUME Shape, NEW r \in Requests, job' = Shift([job EXCEPT ![r] = Idle])
    PROVE  job'[r].at = "idle" /\ \A q \in Requests : q # r => SameRequest(q)
<1> DEFINE j == [job EXCEPT ![r] = Idle]
<1>1. j[r] = Idle /\ \A q \in Requests : q # r => j[q] = job[q]
  BY DEF Shape, JobShape
<1> HIDE DEF j
<1>2. \A q \in Requests : \/ job'[q] = j[q]
                         \/ /\ j[q].at \in {"name", "write"}
                            /\ job'[q] = [j[q] EXCEPT !.shifted = TRUE]
  BY DEF Shift, j
<1>3. job'[r].at = "idle"
  <2>1. j[r].at = "idle"
    BY <1>1 DEF Idle
  <2> QED BY <1>2, <2>1
<1>4. ASSUME NEW q \in Requests, q # r, job[q].at \in {"name", "write"},
             job'[q] = [job[q] EXCEPT !.shifted = TRUE]
      PROVE  SameRequest(q)
  <2>1. DOMAIN job[q] = {"kind", "id", "want", "copy", "shifted", "at"}
    BY <1>4 DEF Shape, JobShape, Placing
  <2>2. /\ job'[q].at = job[q].at /\ job'[q].kind = job[q].kind /\ job'[q].id = job[q].id
        /\ job'[q].want = job[q].want
    BY <1>4, <2>1
  <2>3. job[q].at \notin Removing
    BY <1>4 DEF Removing
  <2> QED BY <2>2, <2>3 DEF SameRequest
<1>5. ASSUME NEW q \in Requests, q # r PROVE SameRequest(q)
  <2>1. CASE job'[q] = job[q]
    BY <2>1 DEF SameRequest
  <2> QED BY <1>1, <1>2, <1>4, <1>5, <2>1
<1> QED BY <1>3, <1>5

(* A step of a check changes its own request only.                         *)
LEMMA GotoLeavesOthers ==
    ASSUME Shape, NEW r \in Requests, NEW where, Goto(r, where), job[r].at # "idle"
    PROVE  /\ \A q \in Requests : q # r => SameRequest(q)
           /\ job'[r].at = where
           /\ job[r].at \in Placing =>
                /\ job'[r].kind = job[r].kind /\ job'[r].id = job[r].id
                /\ job'[r].want = job[r].want
           /\ job[r].at \in Removing => job'[r].id = job[r].id
<1>1. /\ job'[r] = [job[r] EXCEPT !.at = where]
      /\ \A q \in Requests : q # r => job'[q] = job[q]
  BY DEF Goto, Shape, JobShape
<1>2. \A q \in Requests : q # r => SameRequest(q)
  BY <1>1 DEF SameRequest
<1>3. job'[r].at = where
  BY <1>1 DEF Shape, JobShape, Placing, Removing
<1>4. job[r].at \in Placing =>
        job'[r].kind = job[r].kind /\ job'[r].id = job[r].id /\ job'[r].want = job[r].want
  BY <1>1 DEF Shape, JobShape
<1>5. job[r].at \in Removing => job'[r].id = job[r].id
  BY <1>1 DEF Shape, JobShape
<1> QED BY <1>2, <1>3, <1>4, <1>5

(* The hook that names a category touches its request only, and not the    *)
(* place it asks for.                                                      *)
LEMMA NameLeavesOthers ==
    ASSUME Shape, WantsPlaces, NEW r \in Requests, NameIt(r)
    PROVE  /\ \A q \in Requests : q # r => SameRequest(q)
           /\ job'[r].at = "write" /\ job[r].at = "name"
           /\ job'[r].kind = job[r].kind /\ job'[r].id = job[r].id
           /\ "parent" \in DOMAIN job'[r].want /\ job'[r].want.parent = job[r].want.parent
<1>1. PICK s : job' = [job EXCEPT ![r].at = "write", ![r].want.slug = s, ![r].shifted = TRUE]
  BY DEF NameIt
<1>2. /\ DOMAIN job = Requests /\ job[r].at = "name" /\ "parent" \in DOMAIN job[r].want
      /\ DOMAIN job[r] = {"kind", "id", "want", "copy", "shifted", "at"}
  BY DEF NameIt, Checking, Shape, JobShape, Placing, WantsPlaces
<1>3. \A q \in Requests : q # r => job'[q] = job[q]
  BY <1>1, <1>2
<1>4. job'[r].at = "write" /\ job'[r].kind = job[r].kind /\ job'[r].id = job[r].id
  BY <1>1, <1>2
<1>5. job'[r].want = [job[r].want EXCEPT !.slug = s]
  BY <1>1, <1>2
<1>6. "parent" \in DOMAIN job'[r].want /\ job'[r].want.parent = job[r].want.parent
  BY <1>2, <1>5
<1> QED BY <1>2, <1>3, <1>4, <1>6 DEF SameRequest

(* A count that finds nothing is taken off its request only.               *)
LEMMA CountLeavesOthers ==
    ASSUME Shape, NEW r \in Requests, job[r].at = "count", NEW what,
           job' = [job EXCEPT ![r].left = @ \ {what},
                              ![r].at = IF job[r].left = {what} THEN "pull" ELSE "count"]
    PROVE  /\ \A q \in Requests : q # r => SameRequest(q)
           /\ job'[r].at = IF job[r].left = {what} THEN "pull" ELSE "count"
           /\ job'[r].id = job[r].id /\ job'[r].left = job[r].left \ {what}
<1>1. /\ DOMAIN job = Requests /\ DOMAIN job[r] = {"kind", "id", "at", "left"}
  BY DEF Shape, JobShape, Removing
<1>2. \A q \in Requests : q # r => job'[q] = job[q]
  BY <1>1
<1>3. /\ job'[r].at = IF job[r].left = {what} THEN "pull" ELSE "count"
      /\ job'[r].id = job[r].id /\ job'[r].left = job[r].left \ {what}
  BY <1>1
<1> QED BY <1>2, <1>3 DEF SameRequest

(* A request that begins takes its own slot only.                          *)
LEMMA StartLeavesOthers ==
    ASSUME Shape, NEW r \in Requests, NEW j, job' = [job EXCEPT ![r] = j]
    PROVE  job'[r] = j /\ \A q \in Requests : q # r => SameRequest(q)
<1>1. job'[r] = j /\ \A q \in Requests : q # r => job'[q] = job[q]
  BY DEF Shape, JobShape
<1> QED BY <1>1 DEF SameRequest
(* What a body says of the place never changes on its way (Panel).         *)
LEMMA WantsPlacesKept ==
    ASSUME Shape, WantsPlaces, NEW r \in Requests, Panel(r) PROVE WantsPlaces'
<1> USE DEF Placing, Removing
<1> DEFINE Wants(q) ==
            /\ job'[q].at \in Placing =>
                /\ job'[q].kind \in {"create", "update"}
                /\ "parent" \in DOMAIN job'[q].want
                /\ job'[q].want.parent \in Ids \cup {None, Same}
                /\ job'[q].kind = "create" => job'[q].want.parent \in Ids \cup {None}
                /\ job'[q].kind = "update" =>
                        job'[q].id \in Ids /\ job'[q].want.parent # job'[q].id
            /\ job'[q].at \in Removing => job'[q].id \in Ids
<1>0. ASSUME \A q \in Requests : q # r => SameRequest(q), Wants(r) PROVE WantsPlaces'
  BY <1>0 DEF WantsPlaces, SameRequest
<1>1. ASSUME NEW w \in NewCategories, Create(r, w) PROVE WantsPlaces'
  <2> DEFINE j == [kind |-> "create", id |-> None, want |-> w, copy |-> Blank, shifted |-> FALSE,
                   at |-> IF w.parent \in Ids THEN "parent" ELSE AddressStage(w, None)]
  <2>1. job' = [job EXCEPT ![r] = j]
    BY <1>1 DEF Create
  <2>2. j.kind = "create" /\ j.want = w /\ j.at \in Placing
    BY DEF AddressStage
  <2> HIDE DEF j
  <2>3. job'[r] = j /\ \A q \in Requests : q # r => SameRequest(q)
    BY <2>1, StartLeavesOthers
  <2> QED BY <1>0, <2>2, <2>3, BodiesPlace
<1>2. ASSUME NEW c \in live, NEW w \in Changes, Update(r, c, w) PROVE WantsPlaces'
  <2> DEFINE j == [kind |-> "update", id |-> c, want |-> w, copy |-> doc[c], shifted |-> FALSE,
                   at |-> IF w.parent \in Ids THEN "parent" ELSE AddressStage(w, doc[c].slug)]
  <2>1. job' = [job EXCEPT ![r] = j] /\ c \in Ids /\ w.parent # c
    BY <1>2 DEF Update, Shape, DataShape
  <2>2. j.kind = "update" /\ j.want = w /\ j.id = c /\ j.at \in Placing
    BY DEF AddressStage
  <2> HIDE DEF j
  <2>3. job'[r] = j /\ \A q \in Requests : q # r => SameRequest(q)
    BY <2>1, StartLeavesOthers
  <2> QED BY <1>0, <2>1, <2>2, <2>3, BodiesPlace
<1>3. ASSUME Finish(r) PROVE WantsPlaces'
  BY <1>0, <1>3, FinishLeavesOthers DEF Placing
<1>4. ASSUME NEW where \in Placing, Goto(r, where), job[r].at \in Placing PROVE WantsPlaces'
  BY <1>0, <1>4, GotoLeavesOthers DEF WantsPlaces, Placing
<1>5. CASE CheckParent(r)
  BY <1>3, <1>4, <1>5 DEF CheckParent, Checking, AddressStage
<1>6. CASE CheckChildren(r)
  BY <1>3, <1>4, <1>6 DEF CheckChildren, Checking, AddressStage
<1>7. CASE CheckSlug(r)
  BY <1>3, <1>4, <1>7 DEF CheckSlug, Checking, Placing
<1>8. CASE NameIt(r)
  BY <1>0, <1>8, NameLeavesOthers DEF WantsPlaces, Placing
<1>9. ASSUME job' = Shift([job EXCEPT ![r] = Idle]) PROVE WantsPlaces'
  BY <1>0, <1>9, ShiftLeavesOthers DEF Placing
<1>10. CASE Insert(r)
  BY <1>3, <1>9, <1>10 DEF Insert
<1>11. CASE Save(r)
  BY <1>3, <1>9, <1>11 DEF Save
<1>12. ASSUME NEW c \in live, RemoveCategory(r, c) PROVE WantsPlaces'
  <2> DEFINE j == [kind |-> "remove", id |-> c, at |-> "count", left |-> {"children", "products"}]
  <2>1. job' = [job EXCEPT ![r] = j] /\ c \in Ids
    BY <1>12 DEF RemoveCategory, Shape, DataShape
  <2>2. j.at = "count" /\ j.id = c
    OBVIOUS
  <2> HIDE DEF j
  <2>3. job'[r] = j /\ \A q \in Requests : q # r => SameRequest(q)
    BY <2>1, StartLeavesOthers
  <2> QED BY <1>0, <2>1, <2>2, <2>3
<1>13. ASSUME NEW what, Count(r, what) PROVE WantsPlaces'
  <2>1. CASE job' = [job EXCEPT ![r].left = @ \ {what},
                               ![r].at = IF job[r].left = {what} THEN "pull" ELSE "count"]
    <3>1. job[r].at = "count"
      BY <1>13 DEF Count, Checking
    <3>2. /\ job'[r].at \in {"pull", "count"} /\ job'[r].id = job[r].id
          /\ \A q \in Requests : q # r => SameRequest(q)
      BY <2>1, <3>1, CountLeavesOthers
    <3> QED BY <1>0, <3>1, <3>2 DEF WantsPlaces
  <2> QED BY <1>3, <1>13, <2>1 DEF Count
<1>14. CASE Pull(r)
  BY <1>0, <1>14, GotoLeavesOthers DEF Pull, WantsPlaces
<1>15. CASE Delete(r)
  BY <1>3, <1>15 DEF Delete
<1>16. ASSUME NEW p \in Products, NEW cs, NEW on, EditProduct(r, p, cs, on) PROVE WantsPlaces'
  <2> DEFINE j == [kind |-> "product", id |-> p, at |-> "fill",
                   want |-> [cats |-> cs, active |-> on], copy |-> products[p]]
  <2>1. job' = [job EXCEPT ![r] = j]
    BY <1>16 DEF EditProduct
  <2>2. j.at = "fill"
    OBVIOUS
  <2> HIDE DEF j
  <2>3. job'[r] = j /\ \A q \in Requests : q # r => SameRequest(q)
    BY <2>1, StartLeavesOthers
  <2> QED BY <1>0, <2>2, <2>3 DEF Placing
<1>17. CASE SaveProduct(r)
  BY <1>3, <1>17 DEF SaveProduct
<1> QED BY <1>1, <1>2, <1>5, <1>6, <1>7, <1>8, <1>10, <1>11, <1>12, <1>13, <1>14, <1>15, <1>16,
           <1>17 DEF Panel
-----------------------------------------------------------------------------
(* A step that changes no category keeps what was checked, if the request  *)
(* that took it claims no more than it looked at.                          *)
LEMMA TreeQuiet ==
    ASSUME Shape, TreeInv, NEW r \in Requests, SameImport,
           UNCHANGED <<live, doc, treeClash, nested>>,
           \A q \in Requests : q # r => SameRequest(q),
           Calm /\ OneTree => Checked(r)' /\ Emptied(r)'
    PROVE  (Calm => OneTree)'
<1> SUFFICES ASSUME Calm, OneTree PROVE OneTree'
  BY DEF TreeInv, Calm
<1>1. Level' /\ \A c : IsRoot(c)' = IsRoot(c) /\ Children(c)' = Children(c)
  BY DEF OneTree, Level, IsRoot, Children
<1>2. Ground'
  BY <1>1 DEF OneTree, Ground, SameImport, Shape, ImpShape, Entry
<1>3. ASSUME NEW q \in Requests PROVE Checked(q)' /\ Emptied(q)'
  <2>1. CASE q = r
    BY <2>1
  <2>2. CASE q # r
    <3>1. SameRequest(q) /\ Checked(q) /\ Emptied(q)
      BY <2>2 DEF OneTree
    <3> QED BY <1>1, <3>1 DEF SameRequest, Checked, Emptied, Removing
  <2> QED BY <2>1, <2>2
<1> QED BY <1>1, <1>2, <1>3 DEF OneTree

(* A request that is finished claims nothing.                              *)
LEMMA TreeQuietFinish ==
    ASSUME Shape, TreeInv, NEW r \in Requests, SameImport,
           UNCHANGED <<live, doc, treeClash, nested>>, Finish(r)
    PROVE  (Calm => OneTree)'
<1>1. job'[r].at = "idle" /\ \A q \in Requests : q # r => SameRequest(q)
  BY FinishLeavesOthers
<1>2. Checked(r)' /\ Emptied(r)'
  BY <1>1 DEF Checked, Emptied, Placing
<1> QED BY <1>1, <1>2, TreeQuiet

(* The checks of a body, of a removal, and the products, change no         *)
(* category.                                                               *)
LEMMA ChecksKeepTree ==
    ASSUME Shape, TreeInv, NEW r \in Requests, Panel(r),
           \/ \E w \in NewCategories : Create(r, w)
           \/ \E c \in live, w \in Changes : Update(r, c, w)
           \/ CheckParent(r) \/ CheckChildren(r) \/ CheckSlug(r) \/ NameIt(r)
           \/ \E c \in live : RemoveCategory(r, c)
           \/ \E what \in {"children", "products"} : Count(r, what)
           \/ Pull(r)
           \/ \E p \in Products, cs \in SUBSET live, on \in BOOLEAN : EditProduct(r, p, cs, on)
           \/ SaveProduct(r)
    PROVE  (Calm => OneTree)'
<1>0. SameImport /\ UNCHANGED <<live, doc, treeClash, nested>>
  BY PanelLeavesImport DEF Shape, Start, Create, Update, Checking, CheckParent, CheckChildren,
     CheckSlug, NameIt, RemoveCategory, Count, Pull, EditProduct, SaveProduct, treeVars, history
<1>1. ASSUME NEW w \in NewCategories, Create(r, w) PROVE (Calm => OneTree)'
  <2> DEFINE j == [kind |-> "create", id |-> None, want |-> w, copy |-> Blank, shifted |-> FALSE,
                   at |-> IF w.parent \in Ids THEN "parent" ELSE AddressStage(w, None)]
  <2>1. job' = [job EXCEPT ![r] = j]
    BY <1>1 DEF Create
  <2>2. /\ j.want = w /\ j.at \in Placing
        /\ w.parent \in Ids => j.at = "parent"
    BY DEF AddressStage, Placing
  <2> HIDE DEF j
  <2>3. job'[r] = j /\ \A q \in Requests : q # r => SameRequest(q)
    BY <2>1, StartLeavesOthers
  <2>4. Checked(r)' /\ Emptied(r)'
    BY <2>2, <2>3 DEF Checked, Emptied, Placing
  <2> QED BY <1>0, <2>3, <2>4, TreeQuiet
<1>2. ASSUME NEW c \in live, NEW w \in Changes, Update(r, c, w) PROVE (Calm => OneTree)'
  <2> DEFINE j == [kind |-> "update", id |-> c, want |-> w, copy |-> doc[c], shifted |-> FALSE,
                   at |-> IF w.parent \in Ids THEN "parent" ELSE AddressStage(w, doc[c].slug)]
  <2>1. job' = [job EXCEPT ![r] = j]
    BY <1>2 DEF Update
  <2>2. /\ j.want = w /\ j.at \in Placing
        /\ w.parent \in Ids => j.at = "parent"
    BY DEF AddressStage, Placing
  <2> HIDE DEF j
  <2>3. job'[r] = j /\ \A q \in Requests : q # r => SameRequest(q)
    BY <2>1, StartLeavesOthers
  <2>4. Checked(r)' /\ Emptied(r)'
    BY <2>2, <2>3 DEF Checked, Emptied, Placing
  <2> QED BY <1>0, <2>3, <2>4, TreeQuiet
<1>3. ASSUME Finish(r) PROVE (Calm => OneTree)'
  BY <1>0, <1>3, TreeQuietFinish
\* A check that passes: what the next stage claims has been looked at.
<1>4. ASSUME NEW where, Goto(r, where), where \in Placing, job[r].at \in Placing,
             Calm /\ OneTree /\ job[r].want.parent \in Ids /\ where # "parent" =>
                /\ IsRoot(job[r].want.parent)
                /\ where # "children" /\ job[r].kind = "update" => Children(job[r].id) = {}
      PROVE  (Calm => OneTree)'
  <2>1. /\ job'[r].at = where /\ job'[r].kind = job[r].kind /\ job'[r].id = job[r].id
        /\ job'[r].want = job[r].want /\ \A q \in Requests : q # r => SameRequest(q)
    BY <1>4, GotoLeavesOthers DEF Placing
  <2>2. Emptied(r)'
    BY <1>4, <2>1 DEF Emptied, Placing
  <2>3. Calm /\ OneTree => Checked(r)'
    BY <1>0, <1>4, <2>1 DEF Checked, IsRoot, Children
  <2> QED BY <1>0, <2>1, <2>2, <2>3, TreeQuiet
<1>5. CASE CheckParent(r)
  <2>1. CASE Goto(r, IF job[r].kind = "update" THEN "children"
                     ELSE AddressStage(job[r].want, None)) /\ IsRoot(job[r].want.parent)
    <3>1. job[r].at \in Placing
      BY <1>5 DEF CheckParent, Checking, Placing
    <3>2. CASE job[r].kind = "update"
      BY <1>4, <2>1, <3>1, <3>2 DEF Placing
    <3>3. CASE job[r].kind # "update"
      BY <1>4, <2>1, <3>1, <3>3 DEF Placing, AddressStage
    <3> QED BY <3>2, <3>3
  <2> QED BY <1>3, <1>5, <2>1 DEF CheckParent
<1>6. CASE CheckChildren(r)
  <2>1. CASE Goto(r, AddressStage(job[r].want, job[r].copy.slug)) /\ Children(job[r].id) = {}
    <3>1. job[r].at = "children"
      BY <1>6 DEF CheckChildren, Checking
    <3>2. OneTree /\ job[r].want.parent \in Ids => IsRoot(job[r].want.parent)
      BY <3>1 DEF OneTree, Checked, Placing
    <3>3. AddressStage(job[r].want, job[r].copy.slug) \in {"name", "slug", "write"}
      BY DEF AddressStage
    <3> QED BY <1>4, <2>1, <3>1, <3>2, <3>3 DEF Placing
  <2> QED BY <1>3, <1>6, <2>1 DEF CheckChildren
<1>7. CASE CheckSlug(r)
  <2>1. CASE Goto(r, "write")
    <3>1. job[r].at = "slug"
      BY <1>7 DEF CheckSlug, Checking
    <3> QED BY <1>4, <2>1, <3>1 DEF OneTree, Checked, Placing
  <2> QED BY <1>3, <1>7, <2>1 DEF CheckSlug
<1>8. CASE NameIt(r)
  <2>1. /\ \A q \in Requests : q # r => SameRequest(q)
        /\ job'[r].at = "write" /\ job[r].at = "name"
        /\ job'[r].kind = job[r].kind /\ job'[r].id = job[r].id
        /\ job'[r].want.parent = job[r].want.parent
    BY <1>8, NameLeavesOthers DEF TreeInv
  <2>2. Calm /\ OneTree => Checked(r)' /\ Emptied(r)'
    BY <1>0, <2>1 DEF OneTree, Checked, Emptied, IsRoot, Children, Placing
  <2> QED BY <1>0, <2>1, <2>2, TreeQuiet
<1>9. ASSUME NEW c \in live, RemoveCategory(r, c) PROVE (Calm => OneTree)'
  <2> DEFINE j == [kind |-> "remove", id |-> c, at |-> "count", left |-> {"children", "products"}]
  <2>1. job' = [job EXCEPT ![r] = j]
    BY <1>9 DEF RemoveCategory
  <2>2. j.at = "count" /\ "children" \in j.left
    OBVIOUS
  <2> HIDE DEF j
  <2>3. job'[r] = j /\ \A q \in Requests : q # r => SameRequest(q)
    BY <2>1, StartLeavesOthers
  <2>4. Checked(r)' /\ Emptied(r)'
    BY <2>2, <2>3 DEF Checked, Emptied, Placing
  <2> QED BY <1>0, <2>3, <2>4, TreeQuiet
<1>10. ASSUME NEW what \in {"children", "products"}, Count(r, what) PROVE (Calm => OneTree)'
  <2>1. CASE /\ job' = [job EXCEPT ![r].left = @ \ {what},
                                ![r].at = IF job[r].left = {what} THEN "pull" ELSE "count"]
             /\ what = "children" => Children(job[r].id) = {}
    <3>1. job[r].at = "count" /\ what \in job[r].left
      BY <1>10 DEF Count, Checking
    <3>2. /\ \A q \in Requests : q # r => SameRequest(q)
          /\ job'[r].at = IF job[r].left = {what} THEN "pull" ELSE "count"
          /\ job'[r].id = job[r].id /\ job'[r].left = job[r].left \ {what}
      BY <2>1, <3>1, CountLeavesOthers
    <3>3. OneTree /\ "children" \notin job[r].left => Children(job[r].id) = {}
      BY <3>1 DEF OneTree, Emptied
    <3>4. OneTree /\ "children" \notin job'[r].left => Children(job'[r].id) = {}
      BY <2>1, <3>2, <3>3
    <3>5. /\ job'[r].at \in {"pull", "count"}
          /\ job'[r].at = "pull" => "children" \notin job'[r].left
      BY <3>2
    <3>6. Calm /\ OneTree => Checked(r)' /\ Emptied(r)'
      BY <1>0, <3>4, <3>5 DEF Checked, Emptied, Children, Placing
    <3> QED BY <1>0, <3>2, <3>6, TreeQuiet
  <2> QED BY <1>3, <1>10, <2>1 DEF Count
<1>11. CASE Pull(r)
  <2>1. job[r].at = "pull" /\ Goto(r, "delete")
    BY <1>11 DEF Pull
  <2>2. /\ \A q \in Requests : q # r => SameRequest(q)
        /\ job'[r].at = "delete" /\ job'[r].id = job[r].id
    BY <2>1, GotoLeavesOthers DEF Removing
  <2>3. Calm /\ OneTree => Checked(r)' /\ Emptied(r)'
    BY <1>0, <2>1, <2>2 DEF OneTree, Checked, Emptied, Children, Placing
  <2> QED BY <1>0, <2>2, <2>3, TreeQuiet
<1>12. ASSUME NEW p \in Products, NEW cs, NEW on, EditProduct(r, p, cs, on)
       PROVE  (Calm => OneTree)'
  <2> DEFINE j == [kind |-> "product", id |-> p, at |-> "fill",
                   want |-> [cats |-> cs, active |-> on], copy |-> products[p]]
  <2>1. job' = [job EXCEPT ![r] = j]
    BY <1>12 DEF EditProduct
  <2>2. j.at = "fill"
    OBVIOUS
  <2> HIDE DEF j
  <2>3. job'[r] = j /\ \A q \in Requests : q # r => SameRequest(q)
    BY <2>1, StartLeavesOthers
  <2>4. Checked(r)' /\ Emptied(r)'
    BY <2>2, <2>3 DEF Checked, Emptied, Placing
  <2> QED BY <1>0, <2>3, <2>4, TreeQuiet
<1>13. CASE SaveProduct(r)
  BY <1>3, <1>13 DEF SaveProduct
<1> QED BY <1>1, <1>2, <1>5, <1>6, <1>7, <1>8, <1>9, <1>10, <1>11, <1>12, <1>13
-----------------------------------------------------------------------------
\* A step that puts no category under another, nor takes one away.
Gentle ==
    \A c \in Ids : /\ IsRoot(c) => IsRoot(c)'
                   /\ Children(c)' \subseteq Children(c)

(* A request that puts a category under another, or takes one away, does   *)
(* so while nobody else goes by the tree, or the clash is noted.           *)
LEMMA NobodyLowers ==
    ASSUME Shape, WantsPlaces, NEW q \in Requests, ~Lowers(q), SameRequest(q)
    PROVE  Checked(q)' /\ Emptied(q)'
<1>1. job[q].at \in Placing => job[q].kind \in {"create", "update"}
  BY DEF WantsPlaces
<1>2. Checked(q)'
  BY <1>1 DEF Checked, Lowers, SameRequest, Placing
<1>3. Emptied(q)'
  <2>1. ~(job[q].at \in Removing)
    BY DEF Lowers, Removing
  <2> QED BY <2>1 DEF Emptied, SameRequest, Removing
<1> QED BY <1>2, <1>3

(* What a request has checked is kept by a gentle step.                    *)
LEMMA GentleKeepsChecks ==
    ASSUME WantsPlaces, NEW q \in Requests, SameRequest(q), Gentle, Checked(q), Emptied(q)
    PROVE  Checked(q)' /\ Emptied(q)'
<1>1. Checked(q)'
  BY DEF Checked, SameRequest, Gentle, WantsPlaces
<1>2. Emptied(q)'
  BY DEF Emptied, SameRequest, Gentle, Removing, WantsPlaces
<1> QED BY <1>1, <1>2

(* A change of the tree by the panel: the others and the import had        *)
(* nothing to lose, or the clash is noted.                                 *)
LEMMA TreeStep ==
    ASSUME Shape, TreeInv, NEW r \in Requests, SameImport, job'[r].at = "idle",
           \A q \in Requests : q # r => SameRequest(q),
           nested' = nested, TreeChange(r, TRUE) \/ (TreeChange(r, FALSE) /\ Gentle),
           Calm /\ OneTree => Level'
    PROVE  (Calm => OneTree)'
<1> SUFFICES ASSUME Calm' PROVE OneTree'
  BY DEF Calm
<1>1. Calm /\ OneTree /\ ~ImportLowers /\ (Gentle \/ \A q \in Requests \ {r} : ~Lowers(q))
  BY DEF Calm, TreeChange, TreeInv
<1>2. Level'
  BY <1>1
<1>3. Ground'
  BY <1>1 DEF OneTree, Ground, ImportLowers, SameImport
<1>4. ASSUME NEW q \in Requests PROVE Checked(q)' /\ Emptied(q)'
  <2>1. CASE q = r
    BY <2>1 DEF Checked, Emptied, Placing
  <2>2. CASE q # r /\ ~Lowers(q)
    BY <1>1, <2>2, NobodyLowers DEF TreeInv
  <2>3. CASE q # r /\ Gentle
    BY <1>1, <2>3, GentleKeepsChecks DEF OneTree, TreeInv
  <2> QED BY <1>1, <2>1, <2>2, <2>3
<1> QED BY <1>2, <1>3, <1>4 DEF OneTree

(* A new category goes under a root, or under none (Insert).               *)
LEMMA InsertKeepsTree ==
    ASSUME Shape, TreeInv, NEW r \in Requests, Insert(r) PROVE (Calm => OneTree)'
<1>0. SameImport
  BY PanelLeavesImport DEF Panel, Shape
<1> DEFINE w == job[r].want
<1>1. CASE Finish(r) /\ UNCHANGED <<treeVars, history>>
  BY <1>0, <1>1, TreeQuietFinish DEF treeVars, history
<1>2. ASSUME NEW c \in unborn, live' = live \cup {c},
             doc' = [doc EXCEPT ![c] = [Blank EXCEPT !.parent = w.parent, !.active = w.active,
                                                     !.slug = w.slug]],
             TreeChange(r, w.parent \in Ids), nested' = nested,
             job' = Shift([job EXCEPT ![r] = Idle])
      PROVE  (Calm => OneTree)'
  <2>1. /\ doc'[c].parent = w.parent
        /\ \A d \in Ids : d # c => doc'[d] = doc[d]
        /\ c \notin live /\ c \in Ids
    BY <1>2 DEF Shape, DataShape, Blank
  <2>2. job[r].at = "write" /\ job[r].kind = "create" /\ w.parent \in Ids \cup {None}
    BY DEF Insert, TreeInv, WantsPlaces, Placing
  <2>3. \A d \in live : doc[d].parent = None => d \in live' /\ doc'[d].parent = None
    BY <1>2, <2>1 DEF Shape, DataShape
  <2>4. ASSUME w.parent \notin Ids PROVE Gentle
    <3>1. ASSUME NEW d \in Ids, NEW x \in Children(d)' PROVE x \in Children(d)
      <4>1. x # c
        BY <2>1, <2>2, <2>4, <3>1, FirstFits DEF Children
      <4> QED BY <1>2, <2>1, <3>1, <4>1 DEF Children, Shape, DataShape
    <3> QED BY <2>3, <3>1 DEF Gentle, IsRoot
  <2>5. ASSUME Calm, OneTree PROVE Level'
    <3>1. w.parent \in Ids => IsRoot(w.parent)
      BY <2>2, <2>5 DEF OneTree, Checked, Placing
    <3>2. ASSUME NEW x \in live', doc'[x].parent # None
          PROVE  doc'[x].parent \in live' /\ doc'[doc'[x].parent].parent = None
      <4>1. CASE x = c
        <5>1. w.parent \in live /\ doc[w.parent].parent = None
          BY <2>1, <2>2, <3>1, <3>2, <4>1 DEF IsRoot
        <5> QED BY <2>1, <2>3, <4>1, <5>1
      <4>2. CASE x # c
        <5>1. x \in live /\ doc'[x] = doc[x]
          BY <1>2, <2>1, <4>2 DEF Shape, DataShape
        <5>2. IsRoot(doc[x].parent)
          BY <2>5, <3>2, <5>1 DEF OneTree, Level
        <5> QED BY <2>3, <5>1, <5>2 DEF IsRoot
      <4> QED BY <4>1, <4>2
    <3> QED BY <3>2 DEF Level, IsRoot
  <2>6. job'[r].at = "idle" /\ \A q \in Requests : q # r => SameRequest(q)
    BY <1>2, ShiftLeavesOthers
  <2>7. TreeChange(r, TRUE) \/ (TreeChange(r, FALSE) /\ Gentle)
    BY <1>2, <2>4 DEF TreeChange
  <2> QED BY <1>0, <1>2, <2>5, <2>6, <2>7, TreeStep
<1> QED BY <1>1, <1>2 DEF Insert
(* A PATCH moves a category without children under a root, or leaves the   *)
(* roots as they are (Save).                                               *)
LEMMA SaveKeepsTree ==
    ASSUME Shape, TreeInv, NEW r \in Requests, Save(r) PROVE (Calm => OneTree)'
<1>0. SameImport
  BY PanelLeavesImport DEF Panel, Shape
<1> DEFINE w == job[r].want
           c == job[r].id
<1>1. CASE Finish(r) /\ UNCHANGED <<treeVars, history>>
  BY <1>0, <1>1, TreeQuietFinish DEF treeVars, history
<1>2. ASSUME c \in live, live' = live, doc' = [doc EXCEPT ![c] = Written(c, w, job[r].copy)],
             TreeChange(r, w.parent \in Ids), nested' = nested,
             Finish(r) \/ job' = Shift([job EXCEPT ![r] = Idle])
      PROVE  (Calm => OneTree)'
  <2>1. /\ job[r].at = "write" /\ job[r].kind = "update"
        /\ w.parent \in Ids \cup {None, Same} /\ w.parent # c
    BY DEF Save, TreeInv, WantsPlaces, Placing
  <2>2. c \in Ids /\ \A d \in Ids : d # c => doc'[d] = doc[d]
    BY <1>2 DEF Shape, DataShape
  <2>3. \/ doc'[c].parent = doc[c].parent
        \/ doc'[c].parent = w.parent /\ w.parent \in Ids \cup {None}
    BY <1>2, <2>1, <2>2 DEF Written, Shape, DataShape
  <2>4. job'[r].at = "idle" /\ \A q \in Requests : q # r => SameRequest(q)
    BY <1>2, FinishLeavesOthers, ShiftLeavesOthers
  <2>5. CASE doc'[c].parent \in {doc[c].parent, None}
    <3>1. \A d \in live : doc[d].parent = None => doc'[d].parent = None
      BY <2>2, <2>5 DEF Shape, DataShape
    <3>2. \A d \in live : doc'[d].parent # None => doc'[d].parent = doc[d].parent
      BY <2>2, <2>5 DEF Shape, DataShape
    <3>3. Gentle
      <4>1. ASSUME NEW d \in Ids, IsRoot(d) PROVE IsRoot(d)'
        BY <1>2, <3>1, <4>1 DEF IsRoot
      <4>2. ASSUME NEW d \in Ids, NEW x \in Children(d)' PROVE x \in Children(d)
        BY <1>2, <3>2, <4>2, FirstFits DEF Children
      <4> QED BY <4>1, <4>2 DEF Gentle
    <3>4. OneTree => Level'
      BY <1>2, <3>1, <3>2 DEF OneTree, Level, IsRoot
    <3>5. TreeChange(r, TRUE) \/ (TreeChange(r, FALSE) /\ Gentle)
      BY <1>2, <3>3 DEF TreeChange
    <3> QED BY <1>0, <1>2, <2>4, <3>4, <3>5, TreeStep
  <2>6. CASE doc'[c].parent = w.parent /\ w.parent \in Ids
    <3>1. ASSUME Calm, OneTree, NEW x \in live', doc'[x].parent # None
          PROVE  doc'[x].parent \in live' /\ doc'[doc'[x].parent].parent = None
      <4>1. /\ w.parent \in live /\ doc[w.parent].parent = None
            /\ \A d \in live : doc[d].parent # c
        BY <2>1, <2>6, <3>1 DEF OneTree, Checked, Placing, IsRoot, Children
      <4>2. CASE x = c
        BY <1>2, <2>1, <2>2, <2>6, <4>1, <4>2
      <4>3. CASE x # c
        <5>1. x \in live /\ doc'[x] = doc[x]
          BY <1>2, <2>2, <3>1, <4>3 DEF Shape, DataShape
        <5>2. doc[x].parent \in live /\ doc[doc[x].parent].parent = None
          BY <3>1, <5>1 DEF OneTree, Level, IsRoot
        <5> QED BY <1>2, <2>2, <4>1, <5>1, <5>2 DEF Shape, DataShape
      <4> QED BY <4>2, <4>3
    <3>2. Calm /\ OneTree => Level'
      BY <3>1 DEF Level, IsRoot
    <3>3. TreeChange(r, TRUE)
      BY <1>2, <2>6 DEF TreeChange
    <3> QED BY <1>0, <1>2, <2>4, <3>2, <3>3, TreeStep
  <2> QED BY <2>3, <2>5, <2>6
<1> QED BY <1>1, <1>2 DEF Save, Refused

(* What is removed has no children (Delete).                               *)
LEMMA DeleteKeepsTree ==
    ASSUME Shape, TreeInv, NEW r \in Requests, Delete(r) PROVE (Calm => OneTree)'
<1> DEFINE c == job[r].id
<1>0. SameImport
  BY PanelLeavesImport DEF Panel, Shape
<1>1. /\ job[r].at = "delete" /\ live' = live \ {c} /\ nested' = nested /\ TreeChange(r, TRUE)
      /\ doc' = [doc EXCEPT ![c] = Blank] /\ Finish(r)
  BY DEF Delete
<1>2. job'[r].at = "idle" /\ \A q \in Requests : q # r => SameRequest(q)
  BY <1>1, FinishLeavesOthers
<1>3. ASSUME OneTree, NEW x \in live', doc'[x].parent # None
      PROVE  doc'[x].parent \in live' /\ doc'[doc'[x].parent].parent = None
  <2>1. \A d \in live : doc[d].parent # c
    BY <1>1, <1>3 DEF OneTree, Emptied, Children
  <2>2. x \in live /\ \A d \in Ids : d # c => doc'[d] = doc[d]
    BY <1>1, <1>3 DEF Shape, DataShape
  <2>3. doc'[x] = doc[x]
    BY <1>1, <1>3, <2>2 DEF Shape, DataShape
  <2>4. doc[x].parent \in live /\ doc[doc[x].parent].parent = None
    BY <1>3, <2>2, <2>3 DEF OneTree, Level, IsRoot
  <2> QED BY <1>1, <2>1, <2>2, <2>3, <2>4 DEF Shape, DataShape
<1>4. OneTree => Level'
  BY <1>3 DEF Level, IsRoot
<1> QED BY <1>0, <1>1, <1>2, <1>4, TreeStep

-----------------------------------------------------------------------------
(* The products come after the categories, and add nothing to the map.     *)
LEMMA ProductsLine ==
    ASSUME Shape, ImportProduct \/ ImportSaveProduct
    PROVE  /\ imp'.at \in {"idle", "product", "saveProduct"} /\ imp.at # "idle"
           /\ imp'.at # "idle" => imp'.ids = imp.ids /\ imp'.roots = imp.roots
<1>1. CASE ImportSaveProduct
  BY <1>1 DEF ImportSaveProduct, Shape, ImpShape
<1>2. CASE ImportProduct
  <2>1. CASE imp' = Idle
    BY <1>2, <2>1 DEF ImportProduct, Idle
  <2>2. CASE imp' = [imp EXCEPT !.n = @ + 1]
    BY <1>2, <2>2 DEF ImportProduct, Shape, ImpShape
  <2>3. ASSUME NEW w, imp' = [imp EXCEPT !.at = "saveProduct", !.was = w]
        PROVE  imp'.at = "saveProduct" /\ imp'.ids = imp.ids /\ imp'.roots = imp.roots
    BY <1>2, <2>3 DEF ImportProduct, Shape, ImpShape
  <2> QED BY <1>2, <2>1, <2>2, <2>3 DEF ImportProduct
<1> QED BY <1>1, <1>2

(* The lines that are done stay behind the one the import is at.           *)
LEMMA LinesStayDone == ASSUME Shape, LinesDone, Importer PROVE LinesDone'
<1> USE DEF Reading
<1>1. ASSUME NEW f \in Files, Import(f) PROVE LinesDone'
  <2> DEFINE l == InOrder(f)
  <2>1. /\ imp'.lines = l /\ imp'.n = 1 /\ imp'.parent = None /\ imp'.stored = None
        /\ DOMAIN imp'.ids = {}
        /\ imp'.at = IF f.categories = <<>> THEN "product" ELSE "parent"
    BY <1>1 DEF Import
  <2>2. l \in Seq(ToSet(f.categories)) /\ (f.categories # <<>> => l # <<>>)
    BY InOrderLines
  <2> HIDE DEF l
  <2>3. Len(l) \in Nat /\ (f.categories # <<>> => 1 \in 1..Len(l))
    BY <2>2
  <2> QED BY <2>1, <2>3 DEF LinesDone
<1>2. ASSUME Reading, Fail PROVE LinesDone'
  <2>1. CASE imp'.at = "parent"
    <3>1. /\ imp'.ids = imp.ids /\ imp'.lines = imp.lines /\ imp'.n = imp.n + 1
          /\ imp.n < Len(imp.lines) /\ imp'.parent = None /\ imp'.stored = None
      BY <1>2, <2>1, FailLine
    <3>2. imp.n \in Nat /\ imp'.n - 1 = imp.n /\ 1..(imp.n - 1) \subseteq 1..imp.n
      BY <1>2, <3>1 DEF LinesDone
    <3>3. \A s \in DOMAIN imp'.ids : \E j \in 1..(imp'.n - 1) : imp'.lines[j].slug = s
      BY <1>2, <3>1, <3>2 DEF LinesDone
    <3>4. imp'.n \in 1..Len(imp'.lines)
      BY <1>2, <3>1 DEF LinesDone
    <3> QED BY <1>2, <2>1, <3>1, <3>3, <3>4 DEF LinesDone
  <2>2. CASE imp'.at = "product"
    BY <2>2 DEF LinesDone
  <2> QED BY <1>2, <2>1, <2>2, FailLine
<1>3. ASSUME Reading, NEW c, Done(c) PROVE LinesDone'
  <2>1. CASE imp'.at = "parent"
    <3>1. /\ DOMAIN imp'.ids = DOMAIN imp.ids \cup {imp.lines[imp.n].slug}
          /\ imp'.lines = imp.lines /\ imp'.n = imp.n + 1
          /\ imp.n < Len(imp.lines) /\ imp'.parent = None /\ imp'.stored = None
      BY <1>3, <2>1, DoneLine DEF Entry
    <3>2. ASSUME NEW s \in DOMAIN imp'.ids
          PROVE  \E i \in 1..(imp'.n - 1) : imp'.lines[i].slug = s
      BY <1>3, <3>1, <3>2 DEF LinesDone
    <3> QED BY <1>3, <3>1, <3>2 DEF LinesDone
  <2>2. CASE imp'.at = "product"
    BY <2>2 DEF LinesDone
  <2> QED BY <1>3, <2>1, <2>2, DoneLine
<1>4. CASE ImportParent
  <2>1. ASSUME NEW x, imp.at = "parent",
               \/ imp' = [imp EXCEPT !.at = "stored", !.parent = x]
               \/ imp' = [imp EXCEPT !.at = "stored"]
        PROVE  LinesDone'
    <3>1. /\ imp'.ids = imp.ids /\ imp'.lines = imp.lines /\ imp'.n = imp.n /\ imp'.at = "stored"
          /\ imp'.stored = imp.stored
      BY <2>1 DEF Shape, ImpShape
    <3> QED BY <2>1, <3>1 DEF LinesDone
  <2> QED BY <1>2, <1>4, <2>1 DEF ImportParent, Importing
<1>5. CASE ImportStored
  <2>1. /\ imp'.ids = imp.ids /\ imp'.lines = imp.lines /\ imp'.n = imp.n /\ imp'.at = "save"
        /\ imp.at = "stored"
    BY <1>5 DEF ImportStored, Importing, Shape, ImpShape
  <2> QED BY <2>1 DEF LinesDone
<1>6. CASE ImportNew
  BY <1>2, <1>3, <1>6 DEF ImportNew, Importing
<1>7. CASE ImportStill
  BY <1>2, <1>3, <1>7 DEF ImportStill, Importing
<1>8. ASSUME ImportProduct \/ ImportSaveProduct PROVE LinesDone'
  <2>1. ~Reading'
    BY <1>8, ProductsLine
  <2> QED BY <2>1 DEF LinesDone
<1> QED BY <1>1, <1>4, <1>5, <1>6, <1>7, <1>8 DEF Importer
-----------------------------------------------------------------------------
(* What the requests have checked survives a step of the import that is    *)
(* gentle, or that notes the clash.                                        *)
LEMMA ImportKeepsChecks ==
    ASSUME Shape, WantsPlaces, OneTree, job' = job,
           Gentle \/ \A q \in Requests : ~Lowers(q)
    PROVE  \A q \in Requests : Checked(q)' /\ Emptied(q)'
<1> SUFFICES ASSUME NEW q \in Requests PROVE Checked(q)' /\ Emptied(q)'
  OBVIOUS
<1>1. SameRequest(q) /\ Checked(q) /\ Emptied(q)
  BY DEF SameRequest, OneTree
<1> QED BY <1>1, GentleKeepsChecks, NobodyLowers

(* A line that puts c under its parent adds it to what the import goes by. *)
LEMMA DoneGround ==
    ASSUME Shape, LinesDone, Reading, Ground, NEW c, Done(c),
           c \in live', doc'[c].slug = Entry.slug, imp.parent = None => doc'[c].parent = None,
           Entry.slug \in imp.roots => doc'[c].parent = None,
           \A s \in DOMAIN imp.ids \ {Entry.slug} :
                /\ imp.ids[s] \in live' /\ doc'[imp.ids[s]].slug = s
                /\ s \in imp.roots => doc'[imp.ids[s]].parent = None
    PROVE  Ground'
<1> DEFINE e == Entry.slug
<1>1. imp.at # "idle" /\ imp.roots \subseteq DOMAIN imp.ids
  BY DEF Reading, Ground
<1>3. /\ imp'.ids = [t \in DOMAIN imp.ids \cup {e} |-> IF t = e THEN c ELSE imp.ids[t]]
      /\ imp'.roots = (IF imp.parent = None THEN imp.roots \cup {e} ELSE imp.roots)
      /\ imp'.at \in {"parent", "product"}
  BY <1>1, DoneLine
<1> HIDE DEF e
<1>4. imp'.roots \subseteq DOMAIN imp'.ids
  BY <1>1, <1>3
<1>5. ASSUME NEW s \in DOMAIN imp'.ids PROVE imp'.ids[s] \in live' /\ doc'[imp'.ids[s]].slug = s
  BY <1>3, <1>5 DEF e
<1>6. ASSUME NEW s \in imp'.roots PROVE doc'[imp'.ids[s]].parent = None
  <2>1. CASE s = e
    BY <1>1, <1>3, <1>6, <2>1 DEF e
  <2>2. CASE s # e
    BY <1>1, <1>3, <1>6, <2>2 DEF e
  <2> QED BY <2>1, <2>2
<1> QED BY <1>3, <1>4, <1>5, <1>6 DEF Ground, IsRoot

(* A line that fails, and a product, add nothing.                          *)
LEMMA StillGround ==
    ASSUME Ground, imp.at # "idle", UNCHANGED <<live, doc>>,
           imp'.at \in {"idle", "parent", "product", "saveProduct"},
           imp'.at # "idle" => imp'.ids = imp.ids /\ imp'.roots = imp.roots
    PROVE  Ground'
BY DEF Ground, IsRoot

(* A step of the import that changes no category keeps the tree.           *)
LEMMA ImportQuiet ==
    ASSUME Shape, TreeInv, job' = job, UNCHANGED <<live, doc, treeClash, nested>>,
           Calm /\ OneTree => Ground'
    PROVE  (Calm => OneTree)'
<1> SUFFICES ASSUME Calm, OneTree PROVE OneTree'
  BY DEF TreeInv, Calm
<1>1. Gentle /\ Level'
  BY DEF Gentle, Level, OneTree, IsRoot, Children
<1> QED BY <1>1, ImportKeepsChecks DEF OneTree, TreeInv

(* The new category of a line (ImportNew).                                 *)
LEMMA ImportNewKeepsTree ==
    ASSUME Shape, TreeInv, ImportNew, job' = job PROVE (Calm => OneTree)'
<1> DEFINE s == Entry.slug
<1>0. imp.at = "save" /\ imp.at # "idle" /\ Reading
  BY DEF ImportNew, Importing, Reading
<1>1. CASE Fail /\ UNCHANGED <<treeVars, history>>
  <2>1. OneTree => Ground'
    BY <1>0, <1>1, FailLine, StillGround DEF treeVars, OneTree
  <2> QED BY <1>1, <2>1, ImportQuiet DEF treeVars, history
<1>2. ASSUME NEW c \in unborn, s \notin Current, live' = live \cup {c},
             doc' = [doc EXCEPT ![c] = [Blank EXCEPT !.parent = imp.parent, !.active = TRUE,
                                                     !.slug = s]],
             Done(c), TreeChange(None, imp.parent \in Ids), nested' = nested
      PROVE  (Calm => OneTree)'
  <2> SUFFICES ASSUME Calm' PROVE OneTree'
    BY DEF Calm
  <2>1. Calm /\ OneTree /\ (imp.parent \in Ids => \A q \in Requests : ~Lowers(q))
    BY <1>2, FirstFits DEF Calm, TreeChange, TreeInv
  <2>2. /\ doc'[c].parent = imp.parent /\ doc'[c].slug = s
        /\ \A d \in Ids : d # c => doc'[d] = doc[d]
        /\ c \notin live /\ c \in Ids /\ c \in live'
    BY <1>2 DEF Shape, DataShape, Blank
  <2>3. \A d \in live : d \in live' /\ doc'[d] = doc[d]
    BY <1>2, <2>2 DEF Shape, DataShape
  <2>4. imp.parent # None => imp.parent \in live /\ doc[imp.parent].parent = None
    BY <1>0, <2>1 DEF OneTree, Ground, IsRoot
  <2>5. ASSUME imp.parent = None PROVE Gentle
    <3>1. ASSUME NEW d \in Ids, NEW x \in Children(d)' PROVE x \in Children(d)
      <4>1. x # c
        BY <2>2, <2>5, <3>1, FirstFits DEF Children
      <4> QED BY <1>2, <2>3, <3>1, <4>1 DEF Children
    <3>2. ASSUME NEW d \in Ids, IsRoot(d) PROVE IsRoot(d)'
      BY <2>3, <3>2 DEF IsRoot
    <3> QED BY <3>1, <3>2 DEF Gentle
  <2>6. Gentle \/ \A q \in Requests : ~Lowers(q)
    BY <2>1, <2>4, <2>5 DEF Shape, DataShape
  <2>7. Level'
    <3>1. ASSUME NEW x \in live', doc'[x].parent # None
          PROVE  doc'[x].parent \in live' /\ doc'[doc'[x].parent].parent = None
      <4>1. CASE x = c
        BY <2>2, <2>3, <2>4, <3>1, <4>1
      <4>2. CASE x # c
        <5>1. x \in live /\ doc'[x] = doc[x]
          BY <1>2, <2>3, <4>2
        <5>2. doc[x].parent \in live /\ doc[doc[x].parent].parent = None
          BY <2>1, <3>1, <5>1 DEF OneTree, Level, IsRoot
        <5> QED BY <2>3, <5>1, <5>2
      <4> QED BY <4>1, <4>2
    <3> QED BY <3>1 DEF Level, IsRoot
  <2>8. \A t \in DOMAIN imp.ids :
            /\ imp.ids[t] \in live' /\ doc'[imp.ids[t]].slug = t
            /\ t \in imp.roots => doc'[imp.ids[t]].parent = None
    BY <1>0, <2>1, <2>3 DEF OneTree, Ground, IsRoot
  <2>9. s \notin imp.roots
    BY <1>0, <1>2, <2>1 DEF OneTree, Ground, Current
  <2>10. Ground'
    BY <1>0, <1>2, <2>1, <2>2, <2>8, <2>9, DoneGround DEF OneTree, TreeInv
  <2> QED BY <2>1, <2>6, <2>7, <2>10, ImportKeepsChecks DEF OneTree, TreeInv
<1> QED BY <1>1, <1>2 DEF ImportNew

(* A line that finds its category (ImportStill).                           *)
LEMMA ImportStillKeepsTree ==
    ASSUME Shape, TreeInv, ImportStill, job' = job PROVE (Calm => OneTree)'
<1> DEFINE c == imp.stored
           moves == imp.parent \in Ids /\ imp.parent # imp.was
<1>0. imp.at = "save" /\ imp.at # "idle" /\ Reading /\ c # None
  BY DEF ImportStill, Importing, Reading
<1>1. CASE Fail /\ UNCHANGED <<treeVars, history>>
  <2>1. OneTree => Ground'
    BY <1>0, <1>1, FailLine, StillGround DEF treeVars, OneTree
  <2> QED BY <1>1, <2>1, ImportQuiet DEF treeVars, history
<1>2. ASSUME c \in live, live' = live, Done(c),
             doc' = IF imp.parent = imp.was THEN doc ELSE [doc EXCEPT ![c].parent = imp.parent],
             IF moves THEN TreeChange(None, TRUE) ELSE UNCHANGED treeClash,
             nested' = (nested \/ (moves /\ (Children(c) # {} \/ imp.parent = c))
                               \/ (imp.parent \in Ids /\ Entry.slug \in imp.roots))
      PROVE  (Calm => OneTree)'
  <2> SUFFICES ASSUME Calm' PROVE OneTree'
    BY DEF Calm
  <2>1. /\ Calm /\ OneTree
        /\ imp.parent \in Ids /\ imp.parent # imp.was =>
            /\ \A q \in Requests : ~Lowers(q)
            /\ Children(c) = {} /\ imp.parent # c
        /\ imp.parent \in Ids => Entry.slug \notin imp.roots
    <3>1. /\ ~nested /\ (moves => Children(c) = {} /\ imp.parent # c)
          /\ imp.parent \in Ids => Entry.slug \notin imp.roots
      BY <1>2 DEF Calm
    <3>2. ~treeClash /\ (moves => \A q \in Requests : ~Lowers(q))
      BY <1>2, FirstFits DEF Calm, TreeChange
    <3> QED BY <3>1, <3>2 DEF Calm, TreeInv
  <2>2. /\ doc[c].slug = Entry.slug /\ doc[c].parent = imp.was /\ c \in Ids
        /\ imp.parent # None => imp.parent \in live /\ doc[imp.parent].parent = None
    BY <1>0, <1>2, <2>1 DEF OneTree, Ground, IsRoot, Shape, DataShape
  <2>3. /\ doc'[c].parent = imp.parent /\ doc'[c].slug = Entry.slug
        /\ \A d \in Ids : d # c => doc'[d] = doc[d]
    BY <1>2, <2>2 DEF Shape, DataShape
  <2>4. CASE imp.parent \in Ids /\ imp.parent # imp.was
    <3>1. \A d \in live : doc[d].parent # c
      BY <2>1, <2>4 DEF Children
    <3>2. ASSUME NEW x \in live', doc'[x].parent # None
          PROVE  doc'[x].parent \in live' /\ doc'[doc'[x].parent].parent = None
      <4>1. CASE x = c
        BY <1>2, <2>1, <2>2, <2>3, <2>4, <3>2, <4>1
      <4>2. CASE x # c
        <5>1. x \in live /\ doc'[x] = doc[x]
          BY <1>2, <2>3, <4>2 DEF Shape, DataShape
        <5>2. doc[x].parent \in live /\ doc[doc[x].parent].parent = None
          BY <2>1, <3>2, <5>1 DEF OneTree, Level, IsRoot
        <5> QED BY <1>2, <2>3, <3>1, <5>1, <5>2 DEF Shape, DataShape
      <4> QED BY <4>1, <4>2
    <3>3. Level'
      BY <3>2 DEF Level, IsRoot
    <3>4. \A t \in DOMAIN imp.ids \ {Entry.slug} : imp.ids[t] # c
      BY <1>0, <2>1, <2>2 DEF OneTree, Ground
    <3>5. \A t \in DOMAIN imp.ids \ {Entry.slug} :
            /\ imp.ids[t] \in live' /\ doc'[imp.ids[t]].slug = t
            /\ t \in imp.roots => doc'[imp.ids[t]].parent = None
      BY <1>0, <1>2, <2>1, <2>3, <3>4 DEF OneTree, Ground, IsRoot, Shape, DataShape
    <3>6. Ground'
      BY <1>0, <1>2, <2>1, <2>2, <2>3, <2>4, <3>5, DoneGround DEF OneTree, TreeInv
    <3> QED BY <2>1, <2>4, <3>3, <3>6, ImportKeepsChecks DEF OneTree, TreeInv
  <2>5. CASE imp.parent \in {None, imp.was}
    <3>1. \A d \in live : /\ doc[d].parent = None => doc'[d].parent = None
                          /\ doc'[d].parent # None => doc'[d].parent = doc[d].parent
                          /\ doc'[d].slug = doc[d].slug
      BY <2>2, <2>3, <2>5 DEF Shape, DataShape
    <3>2. Gentle
      <4>1. ASSUME NEW d \in Ids, IsRoot(d) PROVE IsRoot(d)'
        BY <1>2, <3>1, <4>1 DEF IsRoot
      <4>2. ASSUME NEW d \in Ids, NEW x \in Children(d)' PROVE x \in Children(d)
        BY <1>2, <3>1, <4>2, FirstFits DEF Children
      <4> QED BY <4>1, <4>2 DEF Gentle
    <3>3. Level'
      BY <1>2, <2>1, <3>1 DEF OneTree, Level, IsRoot
    <3>4. \A t \in DOMAIN imp.ids :
            /\ imp.ids[t] \in live' /\ doc'[imp.ids[t]].slug = t
            /\ t \in imp.roots => doc'[imp.ids[t]].parent = None
      BY <1>0, <1>2, <2>1, <3>1 DEF OneTree, Ground, IsRoot
    <3>5. Entry.slug \in imp.roots => imp.parent = None
      BY <2>1, <2>2 DEF Shape, DataShape
    <3>6. Ground'
      BY <1>0, <1>2, <2>1, <2>2, <2>3, <3>4, <3>5, DoneGround DEF OneTree, TreeInv
    <3> QED BY <2>1, <3>2, <3>3, <3>6, ImportKeepsChecks DEF OneTree, TreeInv
  <2> QED BY <2>2, <2>4, <2>5 DEF Shape, DataShape
<1> QED BY <1>1, <1>2 DEF ImportStill, treeVars, history

(* Every step of the import keeps the tree (Importer).                     *)
LEMMA ImporterKeepsTree ==
    ASSUME Shape, TreeInv, Importer, job' = job PROVE (Calm => OneTree)'
<1>1. ASSUME NEW f \in Files, Import(f) PROVE (Calm => OneTree)'
  <2>1. /\ imp'.at \in {"parent", "product"} /\ DOMAIN imp'.ids = {} /\ imp'.roots = {}
        /\ UNCHANGED <<live, doc, treeClash, nested>>
    BY <1>1 DEF Import, treeVars, history
  <2>2. Ground'
    BY <2>1 DEF Ground
  <2> QED BY <2>1, <2>2, ImportQuiet
<1>2. ASSUME Fail, Reading, UNCHANGED <<live, doc, treeClash, nested>> PROVE (Calm => OneTree)'
  <2>1. OneTree => Ground'
    BY <1>2, FailLine, StillGround DEF OneTree, Reading
  <2> QED BY <1>2, <2>1, ImportQuiet
<1>3. CASE ImportParent
  <2>0. imp.at = "parent" /\ Reading /\ UNCHANGED <<live, doc, treeClash, nested>>
    BY <1>3 DEF ImportParent, Importing, Reading, treeVars, history
  <2>1. ASSUME NEW x, Calm /\ OneTree /\ x # None => IsRoot(x),
               \/ imp' = [imp EXCEPT !.at = "stored", !.parent = x]
               \/ imp' = [imp EXCEPT !.at = "stored"] /\ x = imp.parent
        PROVE  (Calm => OneTree)'
    <3>1. imp'.at = "stored" /\ imp'.ids = imp.ids /\ imp'.roots = imp.roots /\ imp'.parent = x
      BY <2>0, <2>1 DEF Shape, ImpShape
    <3>2. Calm /\ OneTree => Ground'
      BY <2>0, <2>1, <3>1 DEF OneTree, Ground, IsRoot
    <3> QED BY <2>0, <3>2, ImportQuiet
  <2>2. CASE imp' = [imp EXCEPT !.at = "stored"]
    BY <2>0, <2>1, <2>2 DEF TreeInv, LinesDone
  <2>3. ASSUME Entry.parent \in imp.roots,
               imp' = [imp EXCEPT !.at = "stored", !.parent = imp.ids[Entry.parent]]
        PROVE  (Calm => OneTree)'
    <3>1. OneTree => IsRoot(imp.ids[Entry.parent])
      BY <2>0, <2>3 DEF OneTree, Ground
    <3> QED BY <2>1, <2>3, <3>1
  <2>4. ASSUME NEW c, IsRoot(c), imp' = [imp EXCEPT !.at = "stored", !.parent = c]
        PROVE  (Calm => OneTree)'
    BY <2>1, <2>4
  <2> QED BY <1>2, <1>3, <2>0, <2>2, <2>3, <2>4 DEF ImportParent
<1>4. CASE ImportStored
  <2>0. imp.at = "stored" /\ UNCHANGED <<live, doc, treeClash, nested>>
    BY <1>4 DEF ImportStored, Importing, treeVars, history
  <2>1. CASE imp' = [imp EXCEPT !.at = "save"] /\ At(Entry.slug) = {}
    <3>1. /\ imp'.at = "save" /\ imp'.ids = imp.ids /\ imp'.roots = imp.roots
          /\ imp'.parent = imp.parent /\ imp'.stored = imp.stored
      BY <2>0, <2>1 DEF Shape, ImpShape
    <3>2. imp.stored = None
      BY <2>0 DEF TreeInv, LinesDone, Reading
    <3> QED BY <2>0, <3>1, <3>2, ImportQuiet DEF OneTree, Ground, IsRoot
  <2>2. ASSUME NEW c \in At(Entry.slug),
               imp' = [imp EXCEPT !.at = "save", !.stored = c, !.was = doc[c].parent]
        PROVE  (Calm => OneTree)'
    <3>1. /\ imp'.at = "save" /\ imp'.ids = imp.ids /\ imp'.roots = imp.roots
          /\ imp'.parent = imp.parent /\ imp'.stored = c /\ imp'.was = doc[c].parent
          /\ imp'.lines = imp.lines /\ imp'.n = imp.n
      BY <2>0, <2>2 DEF Shape, ImpShape
    <3>2. c \in live /\ doc[c].slug = Entry.slug /\ Entry' = Entry
      BY <2>2, <3>1 DEF At, Entry
    <3>3. OneTree => Ground'
      BY <2>0, <3>1, <3>2 DEF OneTree, Ground, IsRoot
    <3> QED BY <2>0, <3>3, ImportQuiet
  <2> QED BY <1>4, <2>1, <2>2 DEF ImportStored
<1>5. ASSUME ImportProduct \/ ImportSaveProduct PROVE (Calm => OneTree)'
  <2>1. UNCHANGED <<live, doc, treeClash, nested>>
    BY <1>5 DEF ImportProduct, ImportSaveProduct, treeVars, history
  <2>2. OneTree => Ground'
    BY <1>5, <2>1, ProductsLine, StillGround DEF OneTree
  <2> QED BY <2>1, <2>2, ImportQuiet
<1> QED BY <1>1, <1>3, <1>4, <1>5, ImportNewKeepsTree, ImportStillKeepsTree DEF Importer

(* TreeInv is inductive, and holds always (Next).                          *)
THEOREM TreeInvariant == Spec => [](Shape /\ TreeInv)
<1>1. Init => Shape /\ TreeInv
  <2>1. ASSUME Init PROVE TreeInv
    <3>1. WantsPlaces /\ LinesDone /\ Ground /\ \A r \in Requests : Checked(r) /\ Emptied(r)
      BY <2>1 DEF Init, WantsPlaces, LinesDone, Ground, Checked, Emptied, Reading, Idle, Placing,
                  Removing
    <3>2. Level
      BY <2>1, FirstFits DEF Init, Level, IsRoot
    <3> QED BY <3>1, <3>2 DEF TreeInv, OneTree
  <2> QED BY <2>1, ShapeInit
<1>2. Shape /\ TreeInv /\ [Next]_vars => (Shape /\ TreeInv)'
  <2> SUFFICES ASSUME Shape, TreeInv, [Next]_vars PROVE TreeInv'
    BY ShapeKept
  <2>1. CASE UNCHANGED vars
    BY <2>1, Zenon DEF vars, treeVars, history, TreeInv, WantsPlaces, LinesDone, Reading, Calm,
                OneTree, Level, Checked, Emptied, Ground, IsRoot, Children, Entry
  <2>2. ASSUME NEW r \in Requests, Panel(r) PROVE TreeInv'
    <3>1. WantsPlaces'
      BY <2>2, WantsPlacesKept DEF TreeInv
    <3>2. LinesDone'
      BY <2>2, PanelLeavesImport DEF Shape, SameImport, TreeInv, LinesDone, Reading
    <3>3. (Calm => OneTree)'
      BY <2>2, ChecksKeepTree, InsertKeepsTree, SaveKeepsTree, DeleteKeepsTree DEF Panel
    <3> QED BY <3>1, <3>2, <3>3 DEF TreeInv
  <2>3. CASE Importer
    <3>1. job' = job
      BY <2>3 DEF Importer, Import, Importing, ImportParent, ImportStored, ImportNew, ImportStill,
                  ImportProduct, ImportSaveProduct
    <3>2. WantsPlaces'
      BY <3>1 DEF TreeInv, WantsPlaces
    <3> QED BY <2>3, <3>1, <3>2, LinesStayDone, ImporterKeepsTree DEF TreeInv
  <2> QED BY <2>1, <2>2, <2>3 DEF Next
<1> QED BY <1>1, <1>2, PTL DEF Spec

(* A category has no parent or one that exists and has none, for any       *)
(* categories, requests and files, as long as no two changes of the tree   *)
(* overlapped and no import moved a category with children (resolveParent, *)
(* categories.service.ts).                                                 *)
THEOREM TreeStaysOneLevel == Spec => []OneLevel
<1>1. TreeInv => OneLevel
  BY DEF TreeInv, Calm, OneTree, Level, OneLevel
<1> QED BY <1>1, TreeInvariant, PTL
-----------------------------------------------------------------------------
(***************************************************************************)
(* Addresses.                                                              *)
(***************************************************************************)
Addressed == \A c \in live : doc[c].slug \in Slugs /\ doc[c].old \in Seq(Slugs)

\* The unique index.
OneEach == \A c, d \in live : c # d => doc[c].slug # doc[d].slug

\* Nobody has, or had, an address that somebody gave up.
Apart ==
    \A c, d \in live, s \in Slugs \ excused :
        c # d /\ s \in Retired(c) => s \notin Retired(d) \cup {doc[d].slug}

\* An address given up n changes ago is among the last n that were given up.
Recalled(c, s) ==
    \/ s = doc[c].slug
    \/ \E i \in DOMAIN doc[c].old : doc[c].old[i] = s /\ Len(doc[c].old) < i + age[c][s]

AgeShape ==
    /\ DOMAIN age = Ids
    /\ \A c \in Ids : age[c] \in [Slugs -> Nat]
    /\ \A c \in Ids \ live, s \in Slugs : age[c][s] > MaxHistory

\* What a request has of addresses, by its stage, and what it goes by.
Renames(r) == job[r].kind = "create" \/ job[r].want.slug \notin {Same, job[r].copy.slug}

BodyFits(r) ==
    LET j == job[r] IN
    /\ "slug" \in DOMAIN j.want
    /\ j.kind = "create" =>
        /\ j.id = None /\ j.at # "children"
        /\ j.want.slug \in Slugs \cup {None}
        /\ j.at \in {"slug", "write"} => j.want.slug \in Slugs
        /\ j.at = "name" => j.want.slug = None
        /\ j.want.slug = None => j.want.name \in DOMAIN Tried
    /\ j.kind = "update" =>
        /\ j.at # "name"
        /\ j.want.slug \in Slugs \cup {Same}
        /\ j.at = "slug" => j.want.slug \in Slugs
        /\ j.copy.slug \in Slugs /\ j.copy.old \in Seq(Slugs)

Asked(r) ==
    LET j == job[r] IN
    j.at = "write" /\ Renames(r) /\ ~j.shifted /\ j.want.slug \notin excused =>
        \A d \in live \ {j.id} : j.want.slug \notin Retired(d)

Requested == \A r \in Requests : job[r].at \in Placing => BodyFits(r) /\ Asked(r)

LinkInv ==
    /\ Addressed /\ OneEach /\ Apart /\ AgeShape /\ Requested
    /\ \A c \in live, s \in Slugs \ excused : age[c][s] <= MaxHistory => Recalled(c, s)

\* The part of LinkInv that is about the documents.
Links ==
    /\ Addressed /\ OneEach /\ Apart /\ AgeShape
    /\ \A c \in live, s \in Slugs \ excused : age[c][s] <= MaxHistory => Recalled(c, s)

\* The cut of rememberSlug (slice(-MAX_PREVIOUS_SLUGS)).
Latest(all) ==
    SubSeq(all, IF Len(all) > MaxHistory THEN Len(all) - MaxHistory + 1 ELSE 1, Len(all))

\* r is the end of the history, each address as far from the end as it was.
EndOf(r, all) ==
    /\ \A j \in 1..Len(r) : \E a \in 1..Len(all) : r[j] = all[a]
    /\ \A a \in 1..Len(all) : Len(all) < a + MaxHistory =>
         \E j \in 1..Len(r) : r[j] = all[a] /\ Len(r) + a = Len(all) + j

(* The cut keeps the end of the history, in its place.                     *)
LEMMA CutKeepsTheEnd ==
    ASSUME NEW A, NEW all \in Seq(A), NEW r, r = Latest(all)
    PROVE  r \in Seq(A) /\ EndOf(r, all)
<1> DEFINE n == Len(all)
           m == IF n > MaxHistory THEN n - MaxHistory + 1 ELSE 1
<1>1. n \in Nat /\ MaxHistory \in Nat /\ MaxHistory >= 1
  BY HistoryIsPositive
<1>2. m \in 1..(n + 1) /\ m \in Nat /\ m <= n + 1 /\ (n > 0 => m <= n)
  BY <1>1
<1>3. \A a \in 1..n : n < a + MaxHistory => m <= a
  BY <1>1
<1>4. /\ r \in Seq(A)
      /\ Len(r) = IF m <= n THEN n - m + 1 ELSE 0
      /\ \A i \in 1..(n - m + 1) : r[i] = all[m + i - 1]
  <2>1. \A i \in m..n : all[i] \in A
    BY <1>1, <1>2
  <2> HIDE DEF m
  <2> QED BY <1>1, <1>2, <2>1, SubSeqProperties DEF m, Latest
<1> HIDE DEF m, n
<1>5. ASSUME NEW j \in 1..Len(r) PROVE \E a \in 1..n : r[j] = all[a]
  <2>1. m <= n /\ Len(r) = n - m + 1
    BY <1>1, <1>2, <1>4, <1>5
  <2>2. j \in 1..(n - m + 1) /\ j \in Nat /\ 1 <= j /\ j <= n - m + 1
    BY <1>1, <1>2, <2>1
  <2>3. m + j - 1 \in 1..n
    BY <1>1, <1>2, <2>2
  <2> QED BY <1>4, <2>2, <2>3
<1>6. ASSUME NEW a \in 1..n, n < a + MaxHistory
      PROVE  \E j \in 1..Len(r) : r[j] = all[a] /\ Len(r) + a = n + j
  <2>1. m <= a /\ a \in Nat /\ a <= n
    BY <1>1, <1>3, <1>6
  <2> DEFINE j == a - m + 1
  <2>2. Len(r) = n - m + 1
    BY <1>1, <1>2, <1>4, <2>1
  <2>3. j \in 1..(n - m + 1) /\ m + j - 1 = a
    BY <1>1, <1>2, <2>1
  <2>4. Len(r) + a = n + j
    BY <1>1, <1>2, <2>1, <2>2
  <2> HIDE DEF j
  <2> QED BY <1>4, <2>2, <2>3, <2>4
<1> QED BY <1>4, <1>5, <1>6 DEF n, EndOf

(* rememberSlug keeps the address given up, and every other that was not   *)
(* too old, one place further at most.                                     *)
LEMMA RememberKeeps ==
    ASSUME NEW copy, copy.old \in Seq(Slugs), copy.slug \in Slugs, NEW s \in Slugs, s # copy.slug
    PROVE  LET r == Remember(copy, s) IN
           /\ r \in Seq(Slugs)
           /\ ToSet(r) \subseteq ToSet(copy.old) \cup {copy.slug}
           /\ \E j \in 1..Len(r) : r[j] = copy.slug /\ Len(r) = j
           /\ \A i \in 1..Len(copy.old), k \in Nat :
                /\ copy.old[i] \notin {s, copy.slug}
                /\ Len(copy.old) < i + k
                /\ k + 1 <= MaxHistory
                => \E j \in 1..Len(r) : r[j] = copy.old[i] /\ Len(r) < j + k + 1
<1> DEFINE q == copy.old
           g == copy.slug
           f == Only(q, Slugs \ {s, g})
           all == Append(f, g)
           r == Remember(copy, s)
<1>1. f \in Seq(Slugs) /\ KeptOf(f, q, Slugs \ {s, g}, Len(q))
  BY OnlyKeeps
<1>2. all \in Seq(Slugs) /\ Len(all) = Len(f) + 1 /\ all[Len(f) + 1] = g
      /\ \A j \in 1..Len(f) : all[j] = f[j]
  <2> HIDE DEF f
  <2> QED BY <1>1
<1>3. r = Latest(all)
  BY DEF Remember, Latest
<1> HIDE DEF f, all, r
<1>4. /\ r \in Seq(Slugs)
      /\ \A j \in 1..Len(r) : \E a \in 1..Len(all) : r[j] = all[a]
      /\ \A a \in 1..Len(all) : Len(all) < a + MaxHistory =>
            \E j \in 1..Len(r) : r[j] = all[a] /\ Len(r) + a = Len(all) + j
  <2>1. all \in Seq(Slugs)
    BY <1>2
  <2>2. r \in Seq(Slugs) /\ EndOf(r, all)
    BY <2>1, <1>3, CutKeepsTheEnd
  <2> QED BY <2>2 DEF EndOf
<1>5. /\ Len(f) \in Nat /\ Len(r) \in Nat /\ Len(q) \in Nat
      /\ MaxHistory \in Nat /\ MaxHistory >= 1
  BY <1>1, <1>4, HistoryIsPositive
<1>6. ToSet(r) \subseteq ToSet(q) \cup {g}
  <2>1. ASSUME NEW j \in 1..Len(r) PROVE r[j] \in ToSet(q) \cup {g}
    <3>1. PICK a \in 1..Len(all) : r[j] = all[a]
      BY <1>4
    <3>2. CASE a \in 1..Len(f)
      <4>1. PICK i \in 1..Len(q) : f[a] = q[i]
        BY <1>1, <3>2 DEF KeptOf
      <4> QED BY <1>2, <3>1, <3>2, <4>1 DEF ToSet
    <3>3. CASE a = Len(f) + 1
      BY <1>2, <3>1, <3>3
    <3> QED BY <1>2, <1>5, <3>2, <3>3
  <2>2. DOMAIN r = 1..Len(r)
    BY <1>4
  <2> HIDE DEF q, g
  <2> QED BY <2>1, <2>2 DEF ToSet
<1>7. \E j \in 1..Len(r) : r[j] = g /\ Len(r) = j
  <2>1. Len(f) + 1 \in 1..Len(all) /\ Len(all) < (Len(f) + 1) + MaxHistory
    BY <1>2, <1>5
  <2>2. PICK j \in 1..Len(r) : r[j] = all[Len(f) + 1] /\ Len(r) + (Len(f) + 1) = Len(all) + j
    BY <1>4, <2>1
  <2> QED BY <1>2, <1>5, <2>2
<1>8. ASSUME NEW i \in 1..Len(q), NEW k \in Nat, q[i] \notin {s, g}, Len(q) < i + k,
             k + 1 <= MaxHistory
      PROVE  \E j \in 1..Len(r) : r[j] = q[i] /\ Len(r) < j + k + 1
  <2>1. q[i] \in Slugs \ {s, g}
    BY <1>8
  <2>2. PICK a \in 1..Len(f) : f[a] = q[i] /\ Len(f) + i <= Len(q) + a
    BY <1>1, <2>1 DEF KeptOf
  <2>3. a \in 1..Len(all) /\ Len(all) < a + k + 1 /\ Len(all) < a + MaxHistory
    BY <1>2, <1>5, <1>8, <2>2
  <2>4. PICK j \in 1..Len(r) : r[j] = all[a] /\ Len(r) + a = Len(all) + j
    BY <1>4, <2>3
  <2>5. Len(r) < j + k + 1 /\ r[j] = q[i]
    BY <1>2, <1>5, <2>2, <2>3, <2>4
  <2> QED BY <2>5
<1> QED BY <1>4, <1>6, <1>7, <1>8 DEF r

(* The ages after a change of the address of c.                            *)
LEMMA AgedAt ==
    ASSUME AgeShape, NEW c \in Ids, NEW s \in Slugs, age' = Aged(c, s)
    PROVE  /\ DOMAIN age' = Ids
           /\ \A d \in Ids : age'[d] \in [Slugs -> Nat]
           /\ \A d \in Ids : d # c => age'[d] = age[d]
           /\ age'[c][s] = 0
           /\ \A t \in Slugs : t # s =>
                age'[c][t] = IF age[c][t] > MaxHistory THEN age[c][t] ELSE age[c][t] + 1
<1> DEFINE new == [t \in Slugs |-> IF t = s THEN 0
                                   ELSE IF age[c][t] > MaxHistory THEN age[c][t]
                                        ELSE age[c][t] + 1]
<1>1. \A t \in Slugs : age[c][t] \in Nat
  BY DEF AgeShape
<1>2. new \in [Slugs -> Nat]
  BY <1>1
<1>3. age' = [age EXCEPT ![c] = new]
  BY DEF Aged
<1> HIDE DEF new
<1>4. DOMAIN age' = Ids /\ age'[c] = new /\ \A d \in Ids : d # c => age'[d] = age[d]
  BY <1>3 DEF AgeShape
<1>5. \A d \in Ids : age'[d] \in [Slugs -> Nat]
  BY <1>2, <1>4 DEF AgeShape
<1> QED BY <1>4, <1>5 DEF new

(* A step that changes no address keeps what is known of them.             *)
LEMMA LinksStay ==
    ASSUME Shape, Links, live' = live, age' = age, excused' = excused,
           \A c \in live : doc'[c].slug = doc[c].slug /\ doc'[c].old = doc[c].old
    PROVE  Links'
<1>1. Addressed' /\ OneEach' /\ AgeShape'
  BY DEF Links, Addressed, OneEach, AgeShape
<1>2. \A c \in live : Retired(c)' = Retired(c)
  BY DEF Retired
<1>3. Apart'
  BY <1>2 DEF Links, Apart
<1>4. (\A c \in live, s \in Slugs \ excused : age[c][s] <= MaxHistory => Recalled(c, s))'
  <2>1. \A c \in live, s \in Slugs : Recalled(c, s)' = Recalled(c, s)
    BY DEF Recalled
  <2> QED BY <2>1 DEF Links
<1> QED BY <1>1, <1>3, <1>4 DEF Links

(* A new category has had no address yet, and takes one that is nobody's   *)
(* (Insert, ImportNew).                                                    *)
LEMMA LinksOfTheNew ==
    ASSUME Shape, Links, NEW c \in unborn, NEW s \in Slugs, s \notin Current, NEW D,
           D.slug = s, D.old = <<>>, live' = live \cup {c}, doc' = [doc EXCEPT ![c] = D],
           age' = Aged(c, s), excused \subseteq excused',
           s \in excused' \/ \A d \in live : s \notin Retired(d)
    PROVE  Links'
<1>1. c \in Ids /\ c \notin live /\ live \subseteq Ids
  BY DEF Shape, DataShape
<1>2. doc'[c] = D /\ \A d \in live : doc'[d] = doc[d]
  BY <1>1 DEF Shape, DataShape
<1>3. /\ \A d \in Ids : d # c => age'[d] = age[d]
      /\ DOMAIN age' = Ids /\ \A d \in Ids : age'[d] \in [Slugs -> Nat]
      /\ \A t \in Slugs : t # s => age'[c][t] > MaxHistory
  <2>1. AgeShape /\ \A t \in Slugs : age[c][t] > MaxHistory
    BY <1>1 DEF Links, AgeShape
  <2> QED BY <1>1, <2>1, AgedAt
<1>4. Retired(c)' = {} /\ \A d \in live : Retired(d)' = Retired(d)
  BY <1>2 DEF Retired, ToSet
<1>5. Addressed' /\ OneEach'
  <2>1. \A d \in live : doc[d].slug # s
    BY DEF Current
  <2>2. D.old \in Seq(Slugs)
    OBVIOUS
  <2>3. Addressed'
    BY <1>2, <2>2 DEF Links, Addressed
  <2>4. OneEach'
    BY <1>2, <2>1 DEF Links, OneEach
  <2> QED BY <2>3, <2>4
<1>6. AgeShape'
  <2>1. \A d \in Ids \ live', t \in Slugs : age'[d][t] > MaxHistory
    BY <1>3 DEF Links, AgeShape
  <2> QED BY <1>3, <2>1 DEF AgeShape
<1>7. Apart'
  <2>1. ASSUME NEW x \in live', NEW y \in live', NEW t \in Slugs \ excused', x # y, t \in Retired(x)'
        PROVE  t \notin Retired(y)' /\ t # doc'[y].slug
    <3>1. x \in live /\ t \in Retired(x) /\ t \notin excused
      BY <1>4, <2>1
    <3>2. CASE y = c
      BY <1>2, <1>4, <2>1, <3>1, <3>2
    <3>3. CASE y \in live
      BY <1>2, <1>4, <2>1, <3>1, <3>3 DEF Links, Apart
    <3> QED BY <3>2, <3>3
  <2> QED BY <2>1 DEF Apart
<1>8. ASSUME NEW d \in live', NEW t \in Slugs \ excused', age'[d][t] <= MaxHistory
      PROVE  Recalled(d, t)'
  <2>1. CASE d = c
    <3>1. ~(age'[c][t] > MaxHistory)
      BY <1>1, <1>3, <1>8, <2>1, HistoryIsPositive
    <3> QED BY <1>2, <1>3, <2>1, <3>1 DEF Recalled
  <2>2. CASE d # c
    <3>1. d \in live /\ age'[d] = age[d]
      BY <1>1, <1>3, <2>2
    <3>2. Recalled(d, t)
      BY <1>8, <3>1 DEF Links
    <3> QED BY <1>2, <3>1, <3>2 DEF Recalled
  <2> QED BY <2>1, <2>2
<1> QED BY <1>5, <1>6, <1>7, <1>8 DEF Links

(* A category that is removed takes its addresses with it (Delete).        *)
LEMMA LinksOfTheGone ==
    ASSUME Shape, Links, NEW c \in Ids, live' = live \ {c}, doc' = [doc EXCEPT ![c] = Blank],
           age' = [age EXCEPT ![c] = [s \in Slugs |-> MaxHistory + 1]], excused' = excused
    PROVE  Links'
<1>1. \A d \in live' : d \in live /\ doc'[d] = doc[d] /\ age'[d] = age[d]
  BY DEF Shape, DataShape, Links, AgeShape
<1>2. \A d \in live' : Retired(d)' = Retired(d) /\ \A t : Recalled(d, t)' = Recalled(d, t)
  BY <1>1 DEF Retired, Recalled
<1>3. Addressed' /\ OneEach' /\ Apart'
  BY <1>1, <1>2 DEF Links, Addressed, OneEach, Apart
<1>4. AgeShape'
  <2> DEFINE far == [s \in Slugs |-> MaxHistory + 1]
  <2>1. far \in [Slugs -> Nat] /\ \A s \in Slugs : far[s] > MaxHistory
    BY HistoryIsPositive
  <2> HIDE DEF far
  <2>2. DOMAIN age' = Ids /\ age'[c] = far /\ \A d \in Ids : d # c => age'[d] = age[d]
    BY DEF Links, AgeShape, far
  <2> QED BY <2>1, <2>2 DEF Links, AgeShape
<1>5. (\A d \in live, s \in Slugs \ excused : age[d][s] <= MaxHistory => Recalled(d, s))'
  BY <1>1, <1>2 DEF Links
<1> QED BY <1>3, <1>4, <1>5 DEF Links

(* A change of address: what the history written with it forgets, or gives *)
(* twice, is excused (Save).                                               *)
LEMMA LinksOfTheMoved ==
    ASSUME Shape, Links, NEW c \in live, NEW copy, copy.slug \in Slugs, copy.old \in Seq(Slugs),
           NEW s \in Slugs, s # copy.slug, \A d \in live \ {c} : doc[d].slug # s,
           live' = live, \A d \in live \ {c} : doc'[d] = doc[d],
           doc'[c].slug = s, doc'[c].old = Remember(copy, s), age' = Aged(c, s),
           excused \subseteq excused', Overrun(c, copy) \subseteq excused',
           s \in excused' \/ \A d \in live \ {c} : s \notin Retired(d)
    PROVE  Links'
<1> DEFINE r == Remember(copy, s)
<1>1. /\ r \in Seq(Slugs)
      /\ ToSet(r) \subseteq ToSet(copy.old) \cup {copy.slug}
      /\ \E j \in 1..Len(r) : r[j] = copy.slug /\ Len(r) = j
      /\ \A i \in 1..Len(copy.old), k \in Nat :
            /\ copy.old[i] \notin {s, copy.slug}
            /\ Len(copy.old) < i + k
            /\ k + 1 <= MaxHistory
            => \E j \in 1..Len(r) : r[j] = copy.old[i] /\ Len(r) < j + k + 1
  BY RememberKeeps
<1> HIDE DEF r
<1>2. c \in Ids /\ live \subseteq Ids /\ doc'[c].old = r
  BY DEF Shape, DataShape, r
<1>3. Retired(c)' = ToSet(r) /\ \A d \in live \ {c} : Retired(d)' = Retired(d)
  BY <1>2 DEF Retired
<1>4. /\ \A d \in Ids : d # c => age'[d] = age[d]
      /\ DOMAIN age' = Ids /\ \A d \in Ids : age'[d] \in [Slugs -> Nat]
      /\ \A t \in Slugs : t # s =>
            age'[c][t] = IF age[c][t] > MaxHistory THEN age[c][t] ELSE age[c][t] + 1
  BY <1>2, AgedAt DEF Links
<1>5. Addressed' /\ OneEach'
  BY <1>1, <1>2 DEF Links, Addressed, OneEach
<1>6. AgeShape'
  BY <1>2, <1>4 DEF Links, AgeShape
<1>7. ASSUME NEW t, t \notin excused', t \in Retired(c) \cup ToSet(copy.old) \cup {doc[c].slug, copy.slug}
      PROVE  doc[c].slug = copy.slug /\ doc[c].old = copy.old
  BY <1>7 DEF Overrun
<1>8. ASSUME NEW t \in Slugs \ excused', t \in ToSet(r)
      PROVE  t \in Retired(c) \cup {doc[c].slug}
  BY <1>1, <1>7, <1>8 DEF Retired
<1>9. Apart'
  <2>1. ASSUME NEW x \in live, NEW y \in live, NEW t \in Slugs \ excused', x # y, t \in Retired(x)'
        PROVE  t \notin Retired(y)' /\ t # doc'[y].slug
    <3>1. t \notin excused
      BY <2>1
    <3>2. CASE x = c
      <4>1. t \in Retired(c) \cup {doc[c].slug}
        BY <1>3, <1>8, <2>1, <3>2
      <4>2. doc'[y] = doc[y] /\ Retired(y)' = Retired(y)
        BY <1>3, <2>1, <3>2
      <4>3. CASE t \in Retired(c)
        BY <2>1, <3>1, <3>2, <4>2, <4>3 DEF Links, Apart
      <4>4. CASE t = doc[c].slug
        BY <2>1, <3>1, <3>2, <4>2, <4>4 DEF Links, Apart, OneEach
      <4> QED BY <4>1, <4>3, <4>4
    <3>3. CASE y = c
      <4>1. t \in Retired(x) /\ x # c
        BY <1>3, <2>1, <3>3
      <4>2. t # s
        BY <2>1, <4>1
      <4>3. t \notin Retired(c) \cup {doc[c].slug}
        BY <2>1, <3>1, <4>1 DEF Links, Apart
      <4> QED BY <1>3, <1>8, <2>1, <3>3, <4>2, <4>3
    <3>4. CASE x # c /\ y # c
      BY <1>3, <2>1, <3>1, <3>4 DEF Links, Apart
    <3> QED BY <3>2, <3>3, <3>4
  <2> QED BY <2>1 DEF Apart
<1>10. ASSUME NEW t \in Slugs \ excused', age'[c][t] <= MaxHistory, t # s PROVE Recalled(c, t)'
  <2>1. age[c][t] \in Nat /\ MaxHistory \in Nat
    BY <1>2, HistoryIsPositive DEF Links, AgeShape
  <2>2. age'[c][t] = age[c][t] + 1 /\ age[c][t] + 1 <= MaxHistory /\ age[c][t] <= MaxHistory
    BY <1>4, <1>10, <2>1
  <2>3. Recalled(c, t)
    BY <1>10, <2>2 DEF Links
  <2>4. t \in Retired(c) \cup {doc[c].slug}
    BY <2>3 DEF Recalled, Retired, ToSet
  <2>5. doc[c].slug = copy.slug /\ doc[c].old = copy.old
    BY <1>7, <1>10, <2>4
  <2>6. DOMAIN r = 1..Len(r) /\ Len(r) \in Nat
    BY <1>1
  <2>7. CASE t = copy.slug
    <3>1. PICK j \in 1..Len(r) : r[j] = copy.slug /\ Len(r) = j
      BY <1>1
    <3>2. Len(r) < j + age'[c][t]
      BY <2>1, <2>2, <2>6, <3>1
    <3> QED BY <1>2, <2>6, <2>7, <3>1, <3>2 DEF Recalled
  <2>8. CASE t # copy.slug
    <3>1. PICK i \in 1..Len(copy.old) :
             copy.old[i] = t /\ Len(copy.old) < i + age[c][t]
      BY <2>3, <2>5, <2>8 DEF Recalled
    <3>2. PICK j \in 1..Len(r) : r[j] = t /\ Len(r) < j + age[c][t] + 1
      BY <1>1, <1>10, <2>1, <2>2, <2>8, <3>1
    <3>3. Len(r) < j + age'[c][t]
      BY <2>1, <2>2, <2>6, <3>2
    <3> QED BY <1>2, <2>6, <3>2, <3>3 DEF Recalled
  <2> QED BY <2>7, <2>8
<1>11. ASSUME NEW d \in live, NEW t \in Slugs \ excused', age'[d][t] <= MaxHistory
       PROVE  Recalled(d, t)'
  <2>1. CASE d = c /\ t = s
    BY <2>1 DEF Recalled
  <2>2. CASE d = c /\ t # s
    BY <1>10, <1>11, <2>2
  <2>3. CASE d # c
    <3>1. age'[d] = age[d] /\ doc'[d] = doc[d]
      BY <1>2, <1>4, <2>3
    <3>2. Recalled(d, t)
      BY <1>11, <3>1 DEF Links
    <3> QED BY <3>1, <3>2 DEF Recalled
  <2> QED BY <2>1, <2>2, <2>3
<1> QED BY <1>5, <1>6, <1>9, <1>11 DEF Links

-----------------------------------------------------------------------------
\* A request has what it had, but for the note that the addresses changed.
SameBody(q) ==
    /\ job'[q].at = job[q].at /\ job'[q].kind = job[q].kind /\ job'[q].id = job[q].id
    /\ job'[q].want = job[q].want /\ job'[q].copy = job[q].copy
    /\ job[q].shifted => job'[q].shifted

(* A step of one request leaves the body of every other as it was; one     *)
(* that changes an address marks those that have looked.                   *)
LEMMA ShiftMarks ==
    ASSUME Shape, WantsPlaces, NEW r \in Requests, job' = Shift([job EXCEPT ![r] = Idle])
    PROVE  /\ job'[r].at = "idle"
           /\ \A q \in Requests : job'[q].at \in Placing =>
                q # r /\ SameBody(q) /\ (job'[q].at = "write" => job'[q].shifted)
<1> DEFINE j == [job EXCEPT ![r] = Idle]
<1>1. j[r] = Idle /\ \A q \in Requests : q # r => j[q] = job[q]
  BY DEF Shape, JobShape
<1> HIDE DEF j
<1>2. \A q \in Requests :
        job'[q] = IF j[q].at \in {"name", "write"} /\ j[q].kind \in {"create", "update"}
                  THEN [j[q] EXCEPT !.shifted = TRUE] ELSE j[q]
  BY DEF Shift, j
<1>3. job'[r].at = "idle"
  <2>1. j[r].at = "idle"
    BY <1>1 DEF Idle
  <2> QED BY <1>2, <2>1
<1>4. ASSUME NEW q \in Requests, job'[q].at \in Placing
      PROVE  q # r /\ SameBody(q) /\ (job'[q].at = "write" => job'[q].shifted)
  <2>1. q # r /\ j[q] = job[q]
    BY <1>1, <1>3, <1>4 DEF Placing
  <2>2. CASE job'[q] = [job[q] EXCEPT !.shifted = TRUE] /\ job[q].at \in {"name", "write"}
    <3>1. DOMAIN job[q] = {"kind", "id", "want", "copy", "shifted", "at"}
      BY <2>2 DEF Shape, JobShape, Placing
    <3>2. /\ job'[q].at = job[q].at /\ job'[q].kind = job[q].kind /\ job'[q].id = job[q].id
          /\ job'[q].want = job[q].want /\ job'[q].copy = job[q].copy
      BY <2>2, <3>1
    <3>3. job'[q].shifted
      BY <2>2, <3>1
    <3> QED BY <2>1, <3>2, <3>3 DEF SameBody
  <2>3. CASE job'[q] = job[q] /\ ~(job[q].at \in {"name", "write"} /\ job[q].kind \in {"create", "update"})
    <3>1. job[q].at # "write"
      BY <1>4, <2>3 DEF WantsPlaces
    <3> QED BY <2>1, <2>3, <3>1 DEF SameBody
  <2> QED BY <1>2, <2>1, <2>2, <2>3
<1> QED BY <1>3, <1>4

(* What the other requests go by stays true of a history that does not     *)
(* grow; where one grows, they are marked.                                 *)
LEMMA OthersStillAsk ==
    ASSUME Shape, Requested, NEW r \in Requests, excused \subseteq excused',
           \A q \in Requests \ {r} : job'[q].at \in Placing => SameBody(q),
           \/ \A d \in live' : \/ d \in live /\ doc'[d].old = doc[d].old
                               \/ doc'[d].old = <<>>
           \/ \A q \in Requests \ {r} : job'[q].at = "write" => job'[q].shifted,
           job'[r].at \in Placing => BodyFits(r)' /\ Asked(r)'
    PROVE  Requested'
<1> SUFFICES ASSUME NEW q \in Requests, q # r, job'[q].at \in Placing
             PROVE  BodyFits(q)' /\ Asked(q)'
  BY DEF Requested
<1>1. SameBody(q) /\ BodyFits(q) /\ Asked(q)
  BY DEF Requested, SameBody
<1>2. BodyFits(q)'
  BY <1>1 DEF BodyFits, SameBody
<1>3. ASSUME job'[q].at = "write", Renames(q)', ~job'[q].shifted, job'[q].want.slug \notin excused',
             NEW d \in live' \ {job'[q].id}
      PROVE  job'[q].want.slug \notin Retired(d)'
  <2>1. \/ d \in live /\ doc'[d].old = doc[d].old
        \/ doc'[d].old = <<>>
    BY <1>3
  <2>2. CASE doc'[d].old = <<>>
    BY <2>2 DEF Retired, ToSet
  <2>3. CASE d \in live /\ doc'[d].old = doc[d].old
    <3>1. job[q].want.slug \notin Retired(d)
      BY <1>1, <1>3, <2>3 DEF Asked, Renames, SameBody
    <3> QED BY <1>1, <2>3, <3>1 DEF Retired, SameBody
  <2> QED BY <2>1, <2>2, <2>3
<1>4. Asked(q)'
  BY <1>3 DEF Asked
<1> QED BY <1>2, <1>4

\* The steps of a request that change no category.
Quiet == UNCHANGED <<live, doc, age, excused>>

(* A step that changes no category, of a request that then goes by no more *)
(* than it has looked at.                                                  *)
LEMMA QuietAsk ==
    ASSUME Shape, LinkInv, NEW r \in Requests, Quiet,
           \A q \in Requests \ {r} : job'[q] = job[q],
           job'[r].at \in Placing => BodyFits(r)' /\ Asked(r)'
    PROVE  LinkInv'
<1>1. Links'
  BY LinksStay DEF Quiet, LinkInv, Links
<1>2. Requested'
  <2>1. \A q \in Requests \ {r} : SameBody(q)
    BY DEF SameBody
  <2>2. excused \subseteq excused' /\ \A d \in live' : d \in live /\ doc'[d].old = doc[d].old
    BY DEF Quiet
  <2>3. Requested
    BY DEF LinkInv
  <2> QED BY <2>1, <2>2, <2>3, OthersStillAsk
<1> QED BY <1>1, <1>2 DEF LinkInv, Links

(* A request that is finished goes by nothing.                             *)
LEMMA QuietFinish ==
    ASSUME Shape, LinkInv, NEW r \in Requests, Quiet, Finish(r) PROVE LinkInv'
<1>1. job'[r] = Idle /\ \A q \in Requests \ {r} : job'[q] = job[q]
  BY DEF Finish, Shape, JobShape
<1> QED BY <1>1, QuietAsk DEF Idle, Placing

(* A request that goes on from a check to another stage.                   *)
LEMMA GotoKeepsBody ==
    ASSUME Shape, NEW r \in Requests, NEW where, Goto(r, where), job[r].at \in Placing
    PROVE  /\ job'[r].at = where /\ job'[r].kind = job[r].kind /\ job'[r].id = job[r].id
           /\ job'[r].want = job[r].want /\ job'[r].copy = job[r].copy
           /\ job'[r].shifted = job[r].shifted
           /\ \A q \in Requests \ {r} : job'[q] = job[q]
<1>1. DOMAIN job[r] = {"kind", "id", "want", "copy", "shifted", "at"} /\ DOMAIN job = Requests
  BY DEF Shape, JobShape
<1>2. job'[r] = [job[r] EXCEPT !.at = where] /\ \A q \in Requests \ {r} : job'[q] = job[q]
  BY <1>1 DEF Goto
<1> QED BY <1>1, <1>2

(* What a body asks for next, and that it writes at once only an address   *)
(* it does not change (AddressStage).                                      *)
LEMMA StageAsks ==
    ASSUME Shape, LinkInv, WantsPlaces, NEW r \in Requests, Quiet, job[r].at \in {"parent", "children"},
           BodyFits(r), NEW where, Goto(r, where),
           \/ where = "children" /\ job[r].kind = "update"
           \/ /\ job[r].kind = "create"
              /\ where = AddressStage(job[r].want, None)
           \/ /\ job[r].kind = "update"
              /\ where = AddressStage(job[r].want, job[r].copy.slug)
    PROVE  LinkInv'
<1> DEFINE w == job[r].want
<1>1. /\ job'[r].at = where /\ job'[r].kind = job[r].kind /\ job'[r].id = job[r].id
      /\ job'[r].want = w /\ job'[r].copy = job[r].copy /\ job'[r].shifted = job[r].shifted
      /\ \A q \in Requests \ {r} : job'[q] = job[q]
  BY GotoKeepsBody DEF Placing
<1>2. CASE where = "children" /\ job[r].kind = "update"
  <2>1. BodyFits(r)'
    BY <1>1, <1>2 DEF BodyFits
  <2>2. Asked(r)'
    BY <1>1, <1>2 DEF Asked
  <2> QED BY <1>1, <2>1, <2>2, QuietAsk
<1>3. CASE job[r].kind = "create" /\ where = AddressStage(w, None)
  <2>1. where = IF w.slug = None THEN "name" ELSE "slug"
    BY <1>3, AddressesFit DEF AddressStage, BodyFits
  <2>2. BodyFits(r)'
    BY <1>1, <1>3, <2>1 DEF BodyFits
  <2>3. Asked(r)'
    BY <1>1, <2>1 DEF Asked
  <2> QED BY <1>1, <2>2, <2>3, QuietAsk
<1>4. CASE job[r].kind = "update" /\ where = AddressStage(w, job[r].copy.slug)
  <2>1. where = IF w.slug \notin {Same, job[r].copy.slug} THEN "slug" ELSE "write"
    BY <1>4, AddressesFit, BodiesPlace DEF AddressStage, BodyFits
  <2>2. BodyFits(r)'
    BY <1>1, <1>4, <2>1 DEF BodyFits
  <2>3. Asked(r)'
    BY <1>1, <1>4, <2>1 DEF Asked, Renames
  <2> QED BY <1>1, <2>2, <2>3, QuietAsk
<1> QED BY <1>2, <1>3, <1>4

(* A request that begins with a body.                                      *)
LEMMA BodyBegins ==
    ASSUME Shape, LinkInv, NEW r \in Requests,
           \/ \E w \in NewCategories : Create(r, w)
           \/ \E c \in live, w \in Changes : Update(r, c, w)
    PROVE  LinkInv'
<1>0. Quiet
  BY DEF Create, Update, Start, Quiet, treeVars
<1>1. ASSUME NEW w \in NewCategories, Create(r, w) PROVE LinkInv'
  <2> DEFINE j == [kind |-> "create", id |-> None, want |-> w, copy |-> Blank, shifted |-> FALSE,
                   at |-> IF w.parent \in Ids THEN "parent" ELSE AddressStage(w, None)]
  <2>1. job' = [job EXCEPT ![r] = j]
    BY <1>1 DEF Create
  <2>2. /\ "slug" \in DOMAIN w /\ w.slug \in Slugs \cup {None}
        /\ w.slug = None => w.name \in DOMAIN Tried
    BY AddressesFit
  <2>3. /\ j.kind = "create" /\ j.id = None /\ j.want = w
        /\ j.at \in {"parent", "name", "slug"}
        /\ (j.at = "name" <=> w.slug = None /\ j.at # "parent")
    BY <2>2, AddressesFit DEF AddressStage
  <2> HIDE DEF j
  <2>4. job'[r] = j /\ \A q \in Requests \ {r} : job'[q] = job[q]
    BY <2>1 DEF Shape, JobShape
  <2>5. BodyFits(r)'
    BY <2>2, <2>3, <2>4 DEF BodyFits
  <2>6. Asked(r)'
    BY <2>3, <2>4 DEF Asked
  <2> QED BY <1>0, <2>4, <2>5, <2>6, QuietAsk
<1>2. ASSUME NEW c \in live, NEW w \in Changes, Update(r, c, w) PROVE LinkInv'
  <2> DEFINE j == [kind |-> "update", id |-> c, want |-> w, copy |-> doc[c], shifted |-> FALSE,
                   at |-> IF w.parent \in Ids THEN "parent" ELSE AddressStage(w, doc[c].slug)]
  <2>1. job' = [job EXCEPT ![r] = j]
    BY <1>2 DEF Update
  <2>2. /\ "slug" \in DOMAIN w /\ w.slug \in Slugs \cup {Same}
        /\ doc[c].slug \in Slugs /\ doc[c].old \in Seq(Slugs)
    BY AddressesFit DEF LinkInv, Addressed
  <2>3. /\ j.kind = "update" /\ j.want = w /\ j.copy = doc[c]
        /\ j.at \in {"parent", "slug", "write"}
        /\ j.at = "slug" => w.slug \in Slugs
        /\ j.at = "write" => w.slug \in {Same, doc[c].slug}
    BY <2>2, AddressesFit, BodiesPlace DEF AddressStage
  <2> HIDE DEF j
  <2>4. job'[r] = j /\ \A q \in Requests \ {r} : job'[q] = job[q]
    BY <2>1 DEF Shape, JobShape
  <2>5. BodyFits(r)'
    BY <2>2, <2>3, <2>4 DEF BodyFits
  <2>6. Asked(r)'
    BY <2>3, <2>4 DEF Asked, Renames
  <2> QED BY <1>0, <2>4, <2>5, <2>6, QuietAsk
<1> QED BY <1>1, <1>2

(* The check of an address, and the name the hook finds.                   *)
LEMMA AddressIsAsked ==
    ASSUME Shape, LinkInv, WantsPlaces, NEW r \in Requests, CheckSlug(r) \/ NameIt(r)
    PROVE  LinkInv'
<1> DEFINE w == job[r].want
<1>0. Quiet
  BY DEF CheckSlug, NameIt, Checking, Quiet, treeVars
<1>1. CASE CheckSlug(r)
  <2> DEFINE s == w.slug
             having == {d \in live : s = doc[d].slug \/ s \in Retired(d)}
  <2>1. job[r].at = "slug" /\ BodyFits(r)
    BY <1>1 DEF CheckSlug, Checking, LinkInv, Requested, Placing
  <2>2. s \in Slugs /\ job[r].kind \in {"create", "update"}
    BY <2>1 DEF BodyFits, WantsPlaces, Placing
  <2>3. ASSUME having = {} \/ job[r].id \in having, Goto(r, "write") PROVE LinkInv'
    <3>1. /\ job'[r].at = "write" /\ job'[r].kind = job[r].kind /\ job'[r].id = job[r].id
          /\ job'[r].want = w /\ job'[r].copy = job[r].copy /\ job'[r].shifted = job[r].shifted
          /\ \A q \in Requests \ {r} : job'[q] = job[q]
      BY <2>1, <2>3, GotoKeepsBody DEF Placing
    <3>2. BodyFits(r)'
      BY <2>1, <2>2, <3>1 DEF BodyFits
    <3>3. ASSUME s \notin excused, NEW d \in live \ {job[r].id} PROVE s \notin Retired(d)
      <4>1. CASE having = {}
        BY <4>1
      <4>2. CASE job[r].id \in having
        BY <2>2, <3>3, <4>2 DEF LinkInv, Apart
      <4> QED BY <2>3, <4>1, <4>2
    <3>4. \A d \in live : Retired(d)' = Retired(d)
      BY <1>0 DEF Quiet, Retired
    <3>5. live' = live /\ excused' = excused
      BY <1>0 DEF Quiet
    <3>6. Asked(r)'
      BY <3>1, <3>3, <3>4, <3>5 DEF Asked
    <3> QED BY <1>0, <3>1, <3>2, <3>6, QuietAsk
  <2> QED BY <1>0, <1>1, <2>3, QuietFinish DEF CheckSlug
<1>2. CASE NameIt(r)
  <2>1. job[r].at = "name" /\ BodyFits(r)
    BY <1>2 DEF NameIt, Checking, LinkInv, Requested, Placing
  <2>2. job[r].kind = "create" /\ job[r].id = None /\ "slug" \in DOMAIN w
    BY <2>1 DEF BodyFits, WantsPlaces, Placing
  <2>3. PICK k \in DOMAIN Tried[w.name] :
            job' = [job EXCEPT ![r].at = "write", ![r].want.slug = Tried[w.name][k],
                               ![r].shifted = TRUE]
    BY <1>2 DEF NameIt
  <2> DEFINE s == Tried[w.name][k]
  <2>4. /\ DOMAIN job = Requests
        /\ DOMAIN job[r] = {"kind", "id", "want", "copy", "shifted", "at"}
    BY <2>1 DEF Shape, JobShape, Placing
  <2> HIDE DEF s
  <2>5. job' = [job EXCEPT ![r].at = "write", ![r].want.slug = s, ![r].shifted = TRUE]
    BY <2>3 DEF s
  <2>6. /\ job'[r].at = "write" /\ job'[r].kind = job[r].kind /\ job'[r].id = job[r].id
        /\ job'[r].want = [w EXCEPT !.slug = s]
        /\ \A q \in Requests \ {r} : job'[q] = job[q]
    BY <2>4, <2>5
  <2>7. job'[r].shifted
    BY <2>4, <2>5
  <2>8. "slug" \in DOMAIN job'[r].want /\ job'[r].want.slug = s
    BY <2>2, <2>6
  <2>9. job'[r].want.slug \in Slugs
    <3>1. w.name \in DOMAIN Tried
      BY <2>1, <2>2 DEF BodyFits
    <3> QED BY <2>3, <2>8, <3>1, AddressesFit DEF ToSet, s
  <2>10. BodyFits(r)'
    BY <2>2, <2>6, <2>8, <2>9, AddressesFit DEF BodyFits
  <2>11. Asked(r)'
    BY <2>7 DEF Asked
  <2> QED BY <1>0, <2>6, <2>10, <2>11, QuietAsk
<1> QED BY <1>1, <1>2

(* A new category from the panel (Insert).                                 *)
LEMMA InsertKeepsLinks ==
    ASSUME Shape, LinkInv, WantsPlaces, NEW r \in Requests, Insert(r) PROVE LinkInv'
<1> DEFINE w == job[r].want
           s == w.slug
<1>1. job[r].at = "write" /\ job[r].kind = "create"
  BY DEF Insert
<1>2. BodyFits(r) /\ Asked(r) /\ s \in Slugs /\ job[r].id = None
  BY <1>1 DEF LinkInv, Requested, BodyFits, Placing
<1>3. CASE Finish(r) /\ UNCHANGED treeVars
  BY <1>3, QuietFinish DEF Quiet, treeVars
<1>4. ASSUME NEW c \in unborn, s \notin Current, live' = live \cup {c},
             doc' = [doc EXCEPT ![c] = [Blank EXCEPT !.parent = w.parent, !.active = w.active,
                                                     !.slug = w.slug]],
             age' = Aged(c, w.slug),
             excused' = excused \cup
                    (IF job[r].shifted THEN {w.slug} \cap RetiredByOthers(c) ELSE {}),
             job' = Shift([job EXCEPT ![r] = Idle])
      PROVE  LinkInv'
  <2> DEFINE D == [Blank EXCEPT !.parent = w.parent, !.active = w.active, !.slug = w.slug]
  <2>1. D.slug = s /\ D.old = <<>>
    BY DEF Blank
  <2>2. c \notin live /\ c \in Ids /\ None \notin live
    BY FirstFits DEF Shape, DataShape
  <2>3. s \in excused' \/ \A d \in live : s \notin Retired(d)
    <3>1. CASE job[r].shifted
      BY <1>4, <2>2, <3>1 DEF RetiredByOthers
    <3>2. CASE ~job[r].shifted
      BY <1>1, <1>2, <1>4, <2>2, <3>2 DEF Asked, Renames
    <3> QED BY <3>1, <3>2
  <2>4. doc' = [doc EXCEPT ![c] = D] /\ age' = Aged(c, s) /\ excused \subseteq excused'
    BY <1>4
  <2> HIDE DEF D, s
  <2>5. Links'
    BY <1>2, <1>4, <2>1, <2>3, <2>4, LinksOfTheNew DEF LinkInv, Links
  <2>6. Requested'
    <3>1. /\ job'[r].at = "idle"
          /\ \A q \in Requests : job'[q].at \in Placing =>
                q # r /\ SameBody(q) /\ (job'[q].at = "write" => job'[q].shifted)
      BY <1>4, ShiftMarks
    <3>2. job'[r].at \notin Placing /\ Requested
      BY <3>1 DEF LinkInv
    <3>3. \A q \in Requests \ {r} : job'[q].at = "write" => job'[q].shifted
      BY <3>1 DEF Placing
    <3> QED BY <2>4, <3>1, <3>2, <3>3, OthersStillAsk
  <2> QED BY <2>5, <2>6 DEF LinkInv, Links
<1> QED BY <1>3, <1>4 DEF Insert

(* A PATCH that is saved (Save).                                           *)
LEMMA SaveKeepsLinks ==
    ASSUME Shape, LinkInv, WantsPlaces, NEW r \in Requests, Save(r) PROVE LinkInv'
<1> DEFINE w == job[r].want
           c == job[r].id
           copy == job[r].copy
           s == w.slug
<1>1. job[r].at = "write" /\ job[r].kind = "update"
  BY DEF Save
<1>2. /\ BodyFits(r) /\ Asked(r) /\ s \in Slugs \cup {Same}
      /\ copy.slug \in Slugs /\ copy.old \in Seq(Slugs)
  BY <1>1 DEF LinkInv, Requested, BodyFits, Placing
<1>3. CASE Finish(r) /\ UNCHANGED treeVars
  BY <1>3, QuietFinish DEF Quiet, treeVars
<1>4. ASSUME ~Refused(c, w, copy), doc' = [doc EXCEPT ![c] = Written(c, w, copy)], live' = live
      PROVE  /\ c \in live /\ \A d \in live \ {c} : doc'[d] = doc[d]
             /\ s \in {Same, copy.slug} => doc'[c].slug = doc[c].slug /\ doc'[c].old = doc[c].old
             /\ s \notin {Same, copy.slug} =>
                    /\ doc'[c].slug = s /\ doc'[c].old = Remember(copy, s)
                    /\ \A d \in live \ {c} : doc[d].slug # s
  <2>1. c \in live
    BY <1>4 DEF Refused
  <2>2. DOMAIN doc[c] = {"parent", "active", "slug", "old"} /\ c \in DOMAIN doc
    BY <2>1 DEF Shape, DataShape
  <2>3. doc'[c] = Written(c, w, copy) /\ \A d \in live \ {c} : doc'[d] = doc[d]
    BY <1>4, <2>2 DEF Shape, DataShape
  <2>4. CASE s \in {Same, copy.slug}
    BY <2>1, <2>2, <2>3, <2>4 DEF Written
  <2>5. CASE s \notin {Same, copy.slug}
    <3>1. doc'[c].slug = s /\ doc'[c].old = Remember(copy, s)
      BY <2>2, <2>3, <2>5 DEF Written
    <3>2. \A d \in live \ {c} : doc[d].slug # s
      BY <1>4, <2>5 DEF Refused
    <3> QED BY <2>1, <2>3, <2>5, <3>1, <3>2
  <2> QED BY <2>4, <2>5
<1>5. ASSUME ~Refused(c, w, copy), doc' = [doc EXCEPT ![c] = Written(c, w, copy)], live' = live,
             s \in {Same, copy.slug}, UNCHANGED <<age, excused>>, Finish(r)
      PROVE  LinkInv'
  <2>1. \A d \in live : doc'[d].slug = doc[d].slug /\ doc'[d].old = doc[d].old
    BY <1>4, <1>5
  <2>2. Links'
    BY <1>5, <2>1, LinksStay DEF LinkInv, Links
  <2>3. job'[r] = Idle /\ \A q \in Requests \ {r} : job'[q] = job[q]
    BY <1>5 DEF Finish, Shape, JobShape
  <2>4. job'[r].at \notin Placing /\ \A q \in Requests \ {r} : SameBody(q)
    BY <2>3 DEF Idle, Placing, SameBody
  <2>5. Requested'
    BY <1>5, <2>1, <2>4, OthersStillAsk DEF LinkInv
  <2> QED BY <2>2, <2>5 DEF LinkInv, Links
<1>6. ASSUME ~Refused(c, w, copy), doc' = [doc EXCEPT ![c] = Written(c, w, copy)], live' = live,
             s \notin {Same, copy.slug}, age' = Aged(c, w.slug),
             excused' = excused \cup Overrun(c, copy) \cup
                    (IF job[r].shifted THEN {w.slug} \cap RetiredByOthers(c) ELSE {}),
             job' = Shift([job EXCEPT ![r] = Idle])
      PROVE  LinkInv'
  <2>1. s \in Slugs /\ s # copy.slug
    BY <1>2, <1>6
  <2>2. /\ c \in live /\ \A d \in live \ {c} : doc'[d] = doc[d]
        /\ doc'[c].slug = s /\ doc'[c].old = Remember(copy, s)
        /\ \A d \in live \ {c} : doc[d].slug # s
    BY <1>4, <1>6
  <2>3. s \in excused' \/ \A d \in live \ {c} : s \notin Retired(d)
    <3>1. CASE job[r].shifted
      BY <1>6, <3>1 DEF RetiredByOthers
    <3>2. CASE ~job[r].shifted
      BY <1>1, <1>2, <1>6, <3>2 DEF Asked, Renames
    <3> QED BY <3>1, <3>2
  <2>4. excused \subseteq excused' /\ Overrun(c, copy) \subseteq excused' /\ age' = Aged(c, s)
    BY <1>6
  <2> HIDE DEF s, copy, c
  <2>5. Links'
    BY <1>2, <1>6, <2>1, <2>2, <2>3, <2>4, LinksOfTheMoved DEF LinkInv, Links
  <2>6. Requested'
    <3>1. /\ job'[r].at = "idle"
          /\ \A q \in Requests : job'[q].at \in Placing =>
                q # r /\ SameBody(q) /\ (job'[q].at = "write" => job'[q].shifted)
      BY <1>6, ShiftMarks
    <3>2. job'[r].at \notin Placing /\ Requested
      BY <3>1 DEF LinkInv, Placing
    <3>3. \A q \in Requests \ {r} : job'[q].at = "write" => job'[q].shifted
      BY <3>1 DEF Placing
    <3> QED BY <2>4, <3>1, <3>2, <3>3, OthersStillAsk
  <2> QED BY <2>5, <2>6 DEF LinkInv, Links
<1> QED BY <1>3, <1>5, <1>6 DEF Save

(* Every step of the panel keeps the addresses (Panel).                    *)
LEMMA PanelKeepsLinks ==
    ASSUME Shape, LinkInv, WantsPlaces, NEW r \in Requests, Panel(r) PROVE LinkInv'
<1>1. ASSUME \/ \E w \in NewCategories : Create(r, w)
             \/ \E c \in live, w \in Changes : Update(r, c, w)
      PROVE  LinkInv'
  BY <1>1, BodyBegins
<1>2. CASE CheckParent(r)
  <2>1. Quiet /\ job[r].at = "parent" /\ BodyFits(r) /\ job[r].kind \in {"create", "update"}
    BY <1>2 DEF CheckParent, Checking, Quiet, treeVars, LinkInv, Requested, Placing, WantsPlaces
  <2> QED BY <1>2, <2>1, QuietFinish, StageAsks DEF CheckParent
<1>3. CASE CheckChildren(r)
  <2>1. Quiet /\ job[r].at = "children" /\ BodyFits(r) /\ job[r].kind \in {"create", "update"}
    BY <1>3 DEF CheckChildren, Checking, Quiet, treeVars, LinkInv, Requested, Placing, WantsPlaces
  <2>2. job[r].kind = "update"
    BY <2>1 DEF BodyFits
  <2> QED BY <1>3, <2>1, <2>2, QuietFinish, StageAsks DEF CheckChildren
<1>4. CASE CheckSlug(r) \/ NameIt(r)
  BY <1>4, AddressIsAsked
<1>5. CASE Insert(r)
  BY <1>5, InsertKeepsLinks
<1>6. CASE Save(r)
  BY <1>6, SaveKeepsLinks
<1>7. ASSUME Quiet, \A q \in Requests \ {r} : job'[q] = job[q], job'[r].at \notin Placing
      PROVE  LinkInv'
  BY <1>7, QuietAsk
<1>8. ASSUME NEW c \in live, RemoveCategory(r, c) PROVE LinkInv'
  <2> DEFINE j == [kind |-> "remove", id |-> c, at |-> "count", left |-> {"children", "products"}]
  <2>1. job' = [job EXCEPT ![r] = j] /\ Quiet /\ j.at \notin Placing
    BY <1>8 DEF RemoveCategory, Start, Quiet, treeVars, Placing
  <2> HIDE DEF j
  <2>2. job'[r] = j /\ \A q \in Requests \ {r} : job'[q] = job[q]
    BY <2>1 DEF Shape, JobShape
  <2> QED BY <1>7, <2>1, <2>2
<1>9. ASSUME NEW what, Count(r, what) PROVE LinkInv'
  <2>1. Quiet /\ job[r].at = "count"
    BY <1>9 DEF Count, Checking, Quiet, treeVars
  <2>2. CASE Finish(r)
    BY <2>1, <2>2, QuietFinish
  <2>3. CASE job' = [job EXCEPT ![r].left = @ \ {what},
                               ![r].at = IF job[r].left = {what} THEN "pull" ELSE "count"]
    <3>1. /\ job'[r].at = IF job[r].left = {what} THEN "pull" ELSE "count"
      BY <2>1, <2>3, CountLeavesOthers
    <3>2. \A q \in Requests \ {r} : job'[q] = job[q]
      BY <2>3 DEF Shape, JobShape
    <3> QED BY <1>7, <2>1, <3>1, <3>2 DEF Placing
  <2> QED BY <1>9, <2>2, <2>3 DEF Count
<1>10. CASE Pull(r)
  <2>1. Quiet /\ Goto(r, "delete") /\ job[r].at = "pull"
    BY <1>10 DEF Pull, Quiet, treeVars
  <2>2. job'[r].at = "delete"
    BY <2>1, GotoLeavesOthers
  <2>3. \A q \in Requests \ {r} : job'[q] = job[q]
    BY <2>1 DEF Goto, Shape, JobShape
  <2> QED BY <1>7, <2>1, <2>2, <2>3 DEF Placing
<1>11. CASE Delete(r)
  <2> DEFINE c == job[r].id
  <2>1. /\ c \in Ids /\ live' = live \ {c} /\ doc' = [doc EXCEPT ![c] = Blank]
        /\ age' = [age EXCEPT ![c] = [s \in Slugs |-> MaxHistory + 1]] /\ excused' = excused
        /\ Finish(r)
    BY <1>11 DEF Delete, WantsPlaces, Removing
  <2> HIDE DEF c
  <2>2. Links'
    BY <2>1, LinksOfTheGone DEF LinkInv, Links
  <2>3. job'[r] = Idle /\ \A q \in Requests \ {r} : job'[q] = job[q]
    BY <2>1 DEF Finish, Shape, JobShape
  <2>4. job'[r].at \notin Placing /\ \A q \in Requests \ {r} : SameBody(q)
    BY <2>3 DEF Idle, Placing, SameBody
  <2>5. \A d \in live' : d \in live /\ doc'[d].old = doc[d].old
    BY <2>1 DEF Shape, DataShape
  <2>6. Requested'
    BY <2>1, <2>4, <2>5, OthersStillAsk DEF LinkInv
  <2> QED BY <2>2, <2>6 DEF LinkInv, Links
<1>12. ASSUME NEW p \in Products, NEW cs, NEW on, EditProduct(r, p, cs, on) PROVE LinkInv'
  <2> DEFINE j == [kind |-> "product", id |-> p, at |-> "fill",
                   want |-> [cats |-> cs, active |-> on], copy |-> products[p]]
  <2>1. job' = [job EXCEPT ![r] = j] /\ Quiet /\ j.at \notin Placing
    BY <1>12 DEF EditProduct, Start, Quiet, treeVars, Placing
  <2> HIDE DEF j
  <2>2. job'[r] = j /\ \A q \in Requests \ {r} : job'[q] = job[q]
    BY <2>1 DEF Shape, JobShape
  <2> QED BY <1>7, <2>1, <2>2
<1>13. CASE SaveProduct(r)
  BY <1>13, QuietFinish DEF SaveProduct, Quiet, treeVars
<1> QED BY <1>1, <1>2, <1>3, <1>4, <1>5, <1>6, <1>8, <1>9, <1>10, <1>11, <1>12, <1>13 DEF Panel

\* The lines an import reads are those of its file.
FileKnown == imp.at # "idle" => imp.file \in Files /\ imp.lines = InOrder(imp.file)

(* They stay so (Import sets them, and nothing else writes them).          *)
LEMMA FileStaysKnown == ASSUME Shape, FileKnown, Next PROVE FileKnown'
<1>1. ASSUME NEW r \in Requests, Panel(r) PROVE FileKnown'
  BY <1>1, PanelLeavesImport DEF Shape, SameImport, FileKnown
<1>2. ASSUME NEW f \in Files, Import(f) PROVE FileKnown'
  BY <1>2 DEF Import, FileKnown
<1>3. ASSUME imp.at # "idle", NEW i, imp' = Next1(i), DOMAIN i = DOMAIN imp,
             i.file = imp.file, i.lines = imp.lines
      PROVE  FileKnown'
  BY <1>3 DEF Next1, FileKnown, Shape, ImpShape
<1>4. ASSUME imp.at # "idle", Fail PROVE FileKnown'
  <2> DEFINE i == [imp EXCEPT !.failed = @ \cup {Entry.slug}]
  <2>1. DOMAIN i = DOMAIN imp /\ i.file = imp.file /\ i.lines = imp.lines
    BY <1>4 DEF Shape, ImpShape
  <2>2. imp' = Next1(i)
    BY <1>4 DEF Fail
  <2> HIDE DEF i
  <2> QED BY <1>3, <1>4, <2>1, <2>2
<1>5. ASSUME imp.at # "idle", NEW c, Done(c) PROVE FileKnown'
  <2> DEFINE i == [imp EXCEPT
                    !.ids = [t \in DOMAIN imp.ids \cup {Entry.slug} |->
                                IF t = Entry.slug THEN c ELSE imp.ids[t]],
                    !.roots = IF imp.parent = None THEN @ \cup {Entry.slug} ELSE @]
  <2>1. DOMAIN i = DOMAIN imp /\ i.file = imp.file /\ i.lines = imp.lines
    BY <1>5 DEF Shape, ImpShape
  <2>2. imp' = Next1(i)
    BY <1>5 DEF Done
  <2> HIDE DEF i
  <2> QED BY <1>3, <1>5, <2>1, <2>2
<1>6. ASSUME imp.at # "idle", imp' = Idle \/ (imp'.file = imp.file /\ imp'.lines = imp.lines)
      PROVE  FileKnown'
  BY <1>6 DEF FileKnown, Idle
<1>7. CASE ImportParent
  BY <1>4, <1>6, <1>7 DEF ImportParent, Importing, Shape, ImpShape
<1>8. CASE ImportStored
  BY <1>6, <1>8 DEF ImportStored, Importing, Shape, ImpShape
<1>9. CASE ImportNew
  BY <1>4, <1>5, <1>9 DEF ImportNew, Importing
<1>10. CASE ImportStill
  BY <1>4, <1>5, <1>10 DEF ImportStill, Importing
<1>11. CASE ImportProduct
  BY <1>6, <1>11 DEF ImportProduct, Shape, ImpShape
<1>12. CASE ImportSaveProduct
  BY <1>6, <1>12 DEF ImportSaveProduct, Shape, ImpShape
<1> QED BY <1>1, <1>2, <1>7, <1>8, <1>9, <1>10, <1>11, <1>12 DEF Next, Importer

(* Every step of the import keeps the addresses (Importer): it makes new   *)
(* categories of addresses nobody has, and changes no address.             *)
LEMMA ImporterKeepsLinks ==
    ASSUME Shape, LinkInv, TreeInv, FileKnown, Importer PROVE LinkInv'
<1>0. job' = job
  BY DEF Importer, Import, Importing, ImportParent, ImportStored, ImportNew, ImportStill,
         ImportProduct, ImportSaveProduct
<1>1. ASSUME Links', excused \subseteq excused',
             \A d \in live' : \/ d \in live /\ doc'[d].old = doc[d].old
                              \/ doc'[d].old = <<>>
      PROVE  LinkInv'
  <2>1. ASSUME NEW q \in Requests, job[q].at \in Placing PROVE BodyFits(q)' /\ Asked(q)'
    <3>1. BodyFits(q) /\ Asked(q)
      BY <2>1 DEF LinkInv, Requested
    <3>2. BodyFits(q)'
      BY <1>0, <3>1 DEF BodyFits
    <3>3. ASSUME job[q].at = "write", Renames(q), ~job[q].shifted,
                 job[q].want.slug \notin excused', NEW d \in live' \ {job[q].id}
          PROVE  job[q].want.slug \notin Retired(d)'
      BY <1>1, <3>1, <3>3 DEF Asked, Retired, ToSet
    <3>4. Asked(q)'
      BY <1>0, <3>3 DEF Asked, Renames
    <3> QED BY <3>2, <3>4
  <2>2. Requested'
    BY <1>0, <2>1 DEF Requested
  <2> QED BY <1>1, <2>2 DEF LinkInv, Links
<1>2. ASSUME UNCHANGED treeVars PROVE LinkInv'
  <2>1. Links'
    BY <1>2, LinksStay DEF LinkInv, Links, treeVars
  <2> QED BY <1>1, <1>2, <2>1 DEF treeVars
<1>3. CASE ImportNew
  <2> DEFINE s == Entry.slug
  <2>1. ASSUME NEW c \in unborn, s \notin Current, live' = live \cup {c},
               doc' = [doc EXCEPT ![c] = [Blank EXCEPT !.parent = imp.parent, !.active = TRUE,
                                                       !.slug = s]],
               age' = Aged(c, s), excused' = excused \cup ({s} \cap RetiredByOthers(c))
        PROVE  LinkInv'
    <3> DEFINE D == [Blank EXCEPT !.parent = imp.parent, !.active = TRUE, !.slug = s]
    <3>1. D.slug = s /\ D.old = <<>>
      BY DEF Blank
    <3>2. c \notin live /\ c \in Ids
      BY DEF Shape, DataShape
    <3>3. s \in Slugs
      <4>1. imp.at = "save" /\ imp.file \in Files /\ imp.lines = InOrder(imp.file)
        BY <1>3 DEF ImportNew, Importing, FileKnown
      <4>2. imp.n \in 1..Len(imp.lines)
        BY <4>1 DEF TreeInv, LinesDone, Reading
      <4>3. imp.n \in DOMAIN imp.lines
        <5>1. imp.lines \in Seq(ToSet(imp.file.categories))
          BY <4>1, InOrderLines
        <5> QED BY <4>2, <5>1
      <4> QED BY <4>1, <4>3, InOrderLines DEF Entry
    <3>4. s \in excused' \/ \A d \in live : s \notin Retired(d)
      BY <2>1, <3>2 DEF RetiredByOthers
    <3>5. doc' = [doc EXCEPT ![c] = D] /\ excused \subseteq excused'
      BY <2>1
    <3> HIDE DEF D, s
    <3>6. Links'
      BY <2>1, <3>1, <3>3, <3>4, <3>5, LinksOfTheNew DEF LinkInv, Links
    <3>7. \A d \in live' : \/ d \in live /\ doc'[d].old = doc[d].old
                           \/ doc'[d].old = <<>>
      BY <2>1, <3>1, <3>2, <3>5 DEF Shape, DataShape
    <3> QED BY <1>1, <3>5, <3>6, <3>7
  <2> QED BY <1>2, <1>3, <2>1 DEF ImportNew
<1>4. CASE ImportStill
  <2>1. ASSUME doc' = doc \/ doc' = [doc EXCEPT ![imp.stored].parent = imp.parent],
               UNCHANGED <<live, unborn, age, excused>>
        PROVE  LinkInv'
    <3>1. \A d \in live : doc'[d].slug = doc[d].slug /\ doc'[d].old = doc[d].old
      BY <2>1 DEF Shape, DataShape
    <3>2. Links'
      BY <2>1, <3>1, LinksStay DEF LinkInv, Links
    <3> QED BY <1>1, <2>1, <3>1, <3>2
  <2> QED BY <1>2, <1>4, <2>1 DEF ImportStill
<1>5. ASSUME NEW f \in Files, Import(f) PROVE LinkInv'
  BY <1>2, <1>5 DEF Import
<1>6. CASE ImportParent \/ ImportStored
  BY <1>2, <1>6 DEF ImportParent, ImportStored
<1>7. CASE ImportProduct \/ ImportSaveProduct
  BY <1>2, <1>7 DEF ImportProduct, ImportSaveProduct
<1> QED BY <1>3, <1>4, <1>5, <1>6, <1>7 DEF Importer

(* Whatever the categories, the addresses, the files and the requests: an  *)
(* address given up n changes ago is among the last n its category gave    *)
(* up, nobody else has or had it, and every request that is about to write *)
(* an address it checked still goes by the truth, unless the address was   *)
(* excused (rememberSlug, assertSlugIsFree, the unique index).             *)
THEOREM LinkInvariant == Spec => [](Shape /\ TreeInv /\ LinkInv /\ FileKnown)
<1>1. Init => LinkInv /\ FileKnown
  <2> SUFFICES ASSUME Init PROVE LinkInv /\ FileKnown
    OBVIOUS
  <2>1. /\ live = DOMAIN FirstTree /\ live \subseteq Ids
        /\ doc = [c \in Ids |-> IF c \in live THEN FirstTree[c] ELSE Blank]
        /\ excused = {} /\ job = [r \in Requests |-> Idle] /\ imp = Idle
        /\ age = [c \in Ids |-> [s \in Slugs |->
                IF c \in live /\ doc[c].slug = s THEN 0 ELSE MaxHistory + 1]]
    BY FirstFits DEF Init
  <2>2. \A c \in live : doc[c] = FirstTree[c]
    BY <2>1
  <2>3. Addressed
    BY <2>1, <2>2, AddressesFit DEF Addressed
  <2>4. ASSUME NEW c \in live, NEW d \in live, c # d
        PROVE  ({doc[c].slug} \cup ToSet(doc[c].old)) \cap ({doc[d].slug} \cup ToSet(doc[d].old)) = {}
    BY <2>1, <2>2, <2>4, AddressesFit
  <2>5. OneEach
    BY <2>4 DEF OneEach
  <2>6. Apart
    BY <2>4 DEF Apart, Retired
  <2>7. \A c \in Ids : \A s \in Slugs :
            age[c][s] = IF c \in live /\ doc[c].slug = s THEN 0 ELSE MaxHistory + 1
    BY <2>1
  <2>8. MaxHistory + 1 \in Nat /\ MaxHistory + 1 > MaxHistory /\ MaxHistory \in Nat
    BY HistoryIsPositive
  <2>9. AgeShape
    <3>1. \A c \in Ids : age[c] \in [Slugs -> Nat]
      BY <2>1, <2>8
    <3> QED BY <2>1, <2>7, <2>8, <3>1 DEF AgeShape
  <2>10. ASSUME NEW c \in live, NEW s \in Slugs, age[c][s] <= MaxHistory PROVE Recalled(c, s)
    <3>1. c \in Ids
      BY <2>1
    <3>2. doc[c].slug = s
      BY <2>7, <2>8, <2>10, <3>1
    <3> QED BY <3>2 DEF Recalled
  <2>11. Requested /\ FileKnown
    BY <2>1 DEF Requested, FileKnown, Idle, Placing
  <2> QED BY <2>3, <2>5, <2>6, <2>9, <2>10, <2>11 DEF LinkInv
<1>2. Shape /\ TreeInv /\ LinkInv /\ FileKnown /\ [Next]_vars => (LinkInv /\ FileKnown)'
  <2> SUFFICES ASSUME Shape, TreeInv, LinkInv, FileKnown, [Next]_vars PROVE (LinkInv /\ FileKnown)'
    OBVIOUS
  <2>1. CASE UNCHANGED vars
    <3>1. Links'
      BY <2>1, LinksStay DEF LinkInv, Links, vars, treeVars
    <3>2. Requested'
      <4>1. \A q \in Requests : BodyFits(q)' = BodyFits(q) /\ Asked(q)' = Asked(q)
        BY <2>1 DEF vars, treeVars, BodyFits, Asked, Renames, Retired
      <4> QED BY <2>1, <4>1 DEF LinkInv, Requested, vars
    <3>3. FileKnown'
      BY <2>1 DEF FileKnown, vars
    <3> QED BY <3>1, <3>2, <3>3 DEF LinkInv, Links
  <2>2. ASSUME NEW r \in Requests, Panel(r) PROVE LinkInv'
    BY <2>2, PanelKeepsLinks DEF TreeInv
  <2>3. ASSUME Importer PROVE LinkInv'
    BY <2>3, ImporterKeepsLinks
  <2> QED BY <2>1, <2>2, <2>3, FileStaysKnown DEF Next
<1> QED BY <1>1, <1>2, TreeInvariant, PTL DEF Spec

(* An address that was printed leads to its category, and to it alone, for *)
(* the MAX_PREVIOUS_SLUGS changes of address it is remembered for          *)
(* (LinksStillLead, findPublicBySlug, rememberSlug).  Of the categories on *)
(* the menu only, and not of an excused address: one the hook, an import   *)
(* or a request whose check was older than another change gave again, or   *)
(* one of a category two changes of whose address overlapped.              *)
THEOREM LinksAlwaysLead == Spec => []LinksStillLead
<1>1. Shape /\ LinkInv => LinksStillLead
  <2> SUFFICES ASSUME Shape, LinkInv, NEW c \in live, NEW s \in Slugs \ excused,
                      doc[c].active, age[c][s] <= MaxHistory
               PROVE  Answers(s) = {c}
    BY DEF LinksStillLead
  <2>1. Recalled(c, s)
    BY DEF LinkInv
  <2>2. CASE s = doc[c].slug
    BY <2>2 DEF Answers, LinkInv, OneEach
  <2>3. CASE s # doc[c].slug
    <3>1. s \in Retired(c)
      BY <2>1, <2>3 DEF Recalled, Retired, ToSet
    <3>2. \A d \in live : d # c => s \notin Retired(d) /\ s # doc[d].slug
      BY <3>1 DEF LinkInv, Apart
    <3> QED BY <2>3, <3>1, <3>2 DEF Answers
  <2> QED BY <2>2, <2>3
<1> QED BY <1>1, LinkInvariant, PTL

-----------------------------------------------------------------------------
(***************************************************************************)
(* The file of an import that nobody disturbs.                             *)
(***************************************************************************)
\* The lines it has done with.
Past == IF Reading THEN 1..(imp.n - 1) ELSE 1..Len(imp.lines)

\* The category stands where the line says.
Sits(c, e) ==
    /\ c \in live /\ doc[c].slug = e.slug
    /\ e.parent = None => doc[c].parent = None
    /\ e.parent # None => IsRoot(doc[c].parent) /\ doc[doc[c].parent].slug = e.parent

\* The line asks for a parent that is no root, of the file or of the store.
FailedRightly(e) ==
    /\ e.parent # None /\ ~HasRoot(imp.file, e.parent)
    /\ Mentions(imp.file, e.parent) \/ ~\E c \in At(e.parent) : IsRoot(c)

LinesPlaced ==
    /\ \A s \in DOMAIN imp.ids \cup imp.failed : \E i \in Past : imp.lines[i].slug = s
    /\ imp.failed \cap DOMAIN imp.ids = {} /\ imp.roots \subseteq DOMAIN imp.ids
    /\ \A i \in Past : LET e == imp.lines[i] IN
        /\ e.slug \in DOMAIN imp.ids \cup imp.failed
        /\ e.slug \in DOMAIN imp.ids =>
                Sits(imp.ids[e.slug], e) /\ (e.slug \in imp.roots <=> e.parent = None)
        /\ e.slug \in imp.failed => FailedRightly(e)

\* What the line under way goes by.
LineRead ==
    /\ imp.at \in {"stored", "save"} =>
        /\ imp.parent = None <=> Entry.parent = None
        /\ Entry.parent # None => IsRoot(imp.parent) /\ doc[imp.parent].slug = Entry.parent
    /\ imp.at = "save" =>
        /\ imp.stored = None => At(Entry.slug) = {}
        /\ imp.stored # None => /\ imp.stored \in At(Entry.slug)
                                /\ imp.was = doc[imp.stored].parent

Undisturbed == imp.at # "idle" /\ ~imp.disturbed /\ ~nested /\ NamesOnce(imp.file)
FileInv == Undisturbed => LinesPlaced /\ LineRead

\* The same after a step that leaves the file alone.
RootAfter(c) == c \in live' /\ doc'[c].parent = None

SitsAfter(c, e) ==
    /\ c \in live' /\ doc'[c].slug = e.slug
    /\ e.parent = None => doc'[c].parent = None
    /\ e.parent # None => RootAfter(doc'[c].parent) /\ doc'[doc'[c].parent].slug = e.parent

FailedAfter(e) ==
    /\ e.parent # None /\ ~HasRoot(imp.file, e.parent)
    /\ Mentions(imp.file, e.parent) \/ ~\E c \in live' : doc'[c].slug = e.parent /\ RootAfter(c)

\* The lines that were done stay where they were put.
DoneStay ==
    \A k \in Past : LET e == imp.lines[k] IN
        /\ e.slug \in DOMAIN imp.ids => SitsAfter(imp.ids[e.slug], e)
        /\ e.slug \in imp.failed => FailedAfter(e)

(* What is known of the lines an import reads.                             *)
LEMMA LinesKnown ==
    ASSUME FileKnown, imp.at # "idle"
    PROVE  LET l == imp.lines IN
           /\ DOMAIN l = 1..Len(l) /\ Len(l) \in Nat
           /\ NamesOnce(imp.file) => \A i, j \in 1..Len(l) : l[i].slug = l[j].slug => i = j
           /\ \A i \in 1..Len(l) : l[i] \in ToSet(imp.file.categories) /\ l[i].slug \in Slugs
           /\ \A e \in ToSet(imp.file.categories) : \E i \in 1..Len(l) : l[i] = e
           /\ \A i, j \in 1..Len(l) : l[i].parent # None /\ l[j].parent = None => j < i
<1> DEFINE l == imp.lines
<1>1. /\ l \in Seq(ToSet(imp.file.categories))
      /\ NamesOnce(imp.file) => \A i, j \in DOMAIN l : l[i].slug = l[j].slug => i = j
      /\ \A i \in DOMAIN l : l[i] \in ToSet(imp.file.categories) /\ l[i].slug \in Slugs
      /\ \A e \in ToSet(imp.file.categories) : \E i \in DOMAIN l : l[i] = e
      /\ \A i, j \in DOMAIN l : l[i].parent # None /\ l[j].parent = None => j < i
  BY InOrderLines DEF FileKnown
<1>2. DOMAIN l = 1..Len(l) /\ Len(l) \in Nat
  BY <1>1
<1> QED BY <1>1, <1>2

(* The file is as it was when neither the import nor the tree changes.     *)
LEMMA FileStays ==
    ASSUME FileInv, imp' = imp, live' = live, doc' = doc, nested' = nested PROVE FileInv'
<1>1. /\ \A c : IsRoot(c)' = IsRoot(c) /\ \A s : At(s)' = At(s)
      /\ Past' = Past /\ Undisturbed' = Undisturbed /\ Entry' = Entry
  BY DEF IsRoot, At, Past, Reading, Undisturbed, Entry
<1>2. \A c, e : Sits(c, e)' = Sits(c, e)
  BY <1>1 DEF Sits
<1>3. \A e : FailedRightly(e)' = FailedRightly(e)
  BY <1>1 DEF FailedRightly
<1>4. LinesPlaced' = LinesPlaced
  BY <1>1, <1>2, <1>3 DEF LinesPlaced
<1>5. LineRead' = LineRead
  BY <1>1 DEF LineRead
<1> QED BY <1>1, <1>4, <1>5 DEF FileInv

(* A step of the panel that touches a category disturbs the import.        *)
LEMMA PanelKeepsFile ==
    ASSUME Shape, FileInv, NEW r \in Requests, Panel(r) PROVE FileInv'
<1>1. \/ imp' = imp /\ live' = live /\ doc' = doc /\ nested' = nested
      \/ imp' = Disturbed
  BY DEF Panel, Start, Create, Update, Checking, CheckParent, CheckChildren, CheckSlug, NameIt,
         Insert, Save, RemoveCategory, Count, Pull, Delete, EditProduct, SaveProduct, treeVars,
         history
<1>2. CASE imp' = Disturbed
  BY <1>2 DEF Disturbed, Shape, ImpShape, FileInv, Undisturbed
<1> QED BY <1>1, <1>2, FileStays

(* After a line, the lines that are done are those before it and itself.   *)
LEMMA LineIsPast ==
    ASSUME Shape, LinesDone, Reading, NEW i, DOMAIN i = DOMAIN imp, i.lines = imp.lines,
           i.n = imp.n, imp' = Next1(i)
    PROVE  /\ imp'.ids = i.ids /\ imp'.roots = i.roots /\ imp'.failed = i.failed
           /\ imp'.lines = i.lines /\ imp'.file = i.file /\ imp'.disturbed = i.disturbed
           /\ imp'.at \in {"parent", "product"}
           /\ Past = 1..(imp.n - 1) /\ Past' = 1..imp.n
           /\ imp.n \in 1..Len(imp.lines) /\ \A k \in 1..imp.n : k \in Past \/ k = imp.n
           /\ Past \subseteq 1..imp.n
<1>1. DOMAIN i = {"at", "file", "lines", "n", "parent", "stored", "was", "ids", "roots",
                  "failed", "disturbed"}
  BY DEF Shape, ImpShape, Reading
<1>2. /\ imp'.ids = i.ids /\ imp'.roots = i.roots /\ imp'.failed = i.failed
      /\ imp'.lines = i.lines /\ imp'.file = i.file /\ imp'.disturbed = i.disturbed
  BY <1>1 DEF Next1
<1>3. /\ imp'.at = IF imp.n < Len(imp.lines) THEN "parent" ELSE "product"
      /\ imp'.n = IF imp.n < Len(imp.lines) THEN imp.n + 1 ELSE 1
  BY <1>1 DEF Next1
<1>4. imp.n \in 1..Len(imp.lines) /\ Len(imp.lines) \in Nat
  BY DEF LinesDone
<1>5. Past = 1..(imp.n - 1)
  BY DEF Past
<1>6. Past' = 1..imp.n
  <2>1. CASE imp.n < Len(imp.lines)
    <3>1. imp'.at = "parent" /\ imp'.n - 1 = imp.n
      BY <1>3, <1>4, <2>1
    <3> QED BY <3>1 DEF Past, Reading
  <2>2. CASE ~(imp.n < Len(imp.lines))
    <3>1. imp'.at = "product" /\ imp.n = Len(imp.lines)
      BY <1>3, <1>4, <2>2
    <3> QED BY <1>2, <3>1 DEF Past, Reading
  <2> QED BY <2>1, <2>2
<1>7. (\A k \in 1..imp.n : k \in Past \/ k = imp.n) /\ Past \subseteq 1..imp.n
  BY <1>4, <1>5
<1> QED BY <1>2, <1>3, <1>4, <1>5, <1>6, <1>7

(* A line that fails rightly.                                              *)
LEMMA FailPlaces ==
    ASSUME Shape, LinesDone, FileKnown, FileInv, Reading, Fail, live' = live, doc' = doc,
           nested' = nested, Undisturbed => FailedRightly(Entry)
    PROVE  FileInv'
<1> DEFINE s == Entry.slug
           i == [imp EXCEPT !.failed = @ \cup {s}]
<1>1. /\ DOMAIN i = DOMAIN imp /\ i.ids = imp.ids /\ i.roots = imp.roots /\ i.lines = imp.lines
      /\ i.n = imp.n /\ i.file = imp.file /\ i.disturbed = imp.disturbed
      /\ i.failed = imp.failed \cup {s}
  BY DEF Shape, ImpShape, Reading
<1>2. imp' = Next1(i)
  BY DEF Fail
<1> HIDE DEF i
<1>3. /\ imp'.ids = imp.ids /\ imp'.roots = imp.roots /\ imp'.failed = imp.failed \cup {s}
      /\ imp'.lines = imp.lines /\ imp'.file = imp.file /\ imp'.disturbed = imp.disturbed
      /\ imp'.at \in {"parent", "product"}
      /\ Past = 1..(imp.n - 1) /\ Past' = 1..imp.n
      /\ imp.n \in 1..Len(imp.lines) /\ \A k \in 1..imp.n : k \in Past \/ k = imp.n
      /\ Past \subseteq 1..imp.n
  BY <1>1, <1>2, LineIsPast
<1>4. \A c : IsRoot(c)' = IsRoot(c) /\ \A t : At(t)' = At(t)
  BY DEF IsRoot, At
<1>5. /\ \A c, e : Sits(c, e) => SitsAfter(c, e)
      /\ \A e : FailedRightly(e) => FailedAfter(e)
  BY <1>3, <1>4 DEF Sits, FailedRightly, SitsAfter, FailedAfter, IsRoot, RootAfter, At
<1> SUFFICES ASSUME Undisturbed, LinesPlaced PROVE LinesPlaced'
  BY <1>3 DEF FileInv, Undisturbed, LineRead, Reading
<1>6. imp.lines[imp.n] = Entry /\ imp.n \in 1..imp.n
  BY <1>3 DEF Entry
<1>7. s \notin DOMAIN imp.ids \cup imp.failed
  <2>1. \A k \in Past : imp.lines[k].slug # s
    <3>1. ASSUME NEW k \in Past, imp.lines[k].slug = s PROVE FALSE
      <4>1. k \in 1..(imp.n - 1) /\ k \in 1..Len(imp.lines) /\ k # imp.n
        BY <1>3, <3>1 DEF LinesDone
      <4>2. \A a, b \in 1..Len(imp.lines) : imp.lines[a].slug = imp.lines[b].slug => a = b
        BY LinesKnown DEF Reading, Undisturbed
      <4> QED BY <1>3, <1>6, <3>1, <4>1, <4>2
    <3> QED BY <3>1
  <2> QED BY <2>1 DEF LinesPlaced
<1>8. \A t \in DOMAIN imp'.ids \cup imp'.failed : \E k \in Past' : imp'.lines[k].slug = t
  BY <1>3, <1>6 DEF LinesPlaced
<1>9. imp'.failed \cap DOMAIN imp'.ids = {} /\ imp'.roots \subseteq DOMAIN imp'.ids
  BY <1>3, <1>7 DEF LinesPlaced
<1>10. ASSUME NEW k \in Past'
       PROVE  LET e == imp'.lines[k] IN
              /\ e.slug \in DOMAIN imp'.ids \cup imp'.failed
              /\ e.slug \in DOMAIN imp'.ids =>
                    SitsAfter(imp'.ids[e.slug], e) /\ (e.slug \in imp'.roots <=> e.parent = None)
              /\ e.slug \in imp'.failed => FailedAfter(e)
  <2>1. CASE k = imp.n
    BY <1>3, <1>5, <1>6, <1>7, <2>1
  <2>2. CASE k \in Past
    <3>1. imp.lines[k].slug # s
      <4>1. imp.lines[k].slug \in DOMAIN imp.ids \cup imp.failed
        BY <2>2 DEF LinesPlaced
      <4> QED BY <1>7, <4>1
    <3> QED BY <1>3, <1>5, <2>2, <3>1 DEF LinesPlaced
  <2> QED BY <1>3, <2>1, <2>2
<1>11. /\ \A c, e : SitsAfter(c, e) => Sits(c, e)'
       /\ \A e : FailedAfter(e) => FailedRightly(e)'
  BY <1>3 DEF Sits, FailedRightly, SitsAfter, FailedAfter, IsRoot, RootAfter, At
<1> HIDE DEF s
<1> QED BY <1>8, <1>9, <1>10, <1>11 DEF LinesPlaced

(* A line that is done, which leaves the others where they were.           *)
LEMMA DonePlaces ==
    ASSUME Shape, LinesDone, FileKnown, Reading, NamesOnce(imp.file), NEW c, Done(c), LinesPlaced,
           SitsAfter(c, Entry), imp.parent = None <=> Entry.parent = None,
           DoneStay
    PROVE  FileInv'
<1> DEFINE s == Entry.slug
           m == [t \in DOMAIN imp.ids \cup {s} |-> IF t = s THEN c ELSE imp.ids[t]]
           R == IF imp.parent = None THEN imp.roots \cup {s} ELSE imp.roots
           i == [imp EXCEPT !.ids = m, !.roots = R]
<1>1. /\ DOMAIN i = DOMAIN imp /\ i.ids = m /\ i.roots = R /\ i.lines = imp.lines
      /\ i.n = imp.n /\ i.file = imp.file /\ i.disturbed = imp.disturbed
      /\ i.failed = imp.failed
  BY DEF Shape, ImpShape, Reading
<1>2. imp' = Next1(i)
  BY DEF Done
<1> HIDE DEF i, m, R
<1>3. /\ imp'.ids = m /\ imp'.roots = R /\ imp'.failed = imp.failed
      /\ imp'.lines = imp.lines /\ imp'.file = imp.file /\ imp'.disturbed = imp.disturbed
      /\ imp'.at \in {"parent", "product"}
      /\ Past = 1..(imp.n - 1) /\ Past' = 1..imp.n
      /\ imp.n \in 1..Len(imp.lines) /\ \A k \in 1..imp.n : k \in Past \/ k = imp.n
      /\ Past \subseteq 1..imp.n
  BY <1>1, <1>2, LineIsPast
<1>4. LineRead'
  BY <1>3 DEF LineRead
<1>5. /\ DOMAIN m = DOMAIN imp.ids \cup {s} /\ m[s] = c
      /\ \A t \in DOMAIN imp.ids : t # s => m[t] = imp.ids[t]
      /\ R = IF imp.parent = None THEN imp.roots \cup {s} ELSE imp.roots
  BY DEF m, R
<1>6. imp.lines[imp.n] = Entry /\ imp.n \in 1..imp.n
  BY <1>3 DEF Entry
<1>7. s \notin DOMAIN imp.ids \cup imp.failed /\ s \notin imp.roots
  <2>1. \A k \in Past : imp.lines[k].slug # s
    <3>1. ASSUME NEW k \in Past, imp.lines[k].slug = s PROVE FALSE
      <4>1. k \in 1..(imp.n - 1) /\ k \in 1..Len(imp.lines) /\ k # imp.n
        BY <1>3, <3>1 DEF LinesDone
      <4>2. \A a, b \in 1..Len(imp.lines) : imp.lines[a].slug = imp.lines[b].slug => a = b
        BY LinesKnown DEF Reading, Undisturbed
      <4> QED BY <1>3, <1>6, <3>1, <4>1, <4>2
    <3> QED BY <3>1
  <2> QED BY <2>1 DEF LinesPlaced
<1>8. \A t \in DOMAIN imp'.ids \cup imp'.failed : \E k \in Past' : imp'.lines[k].slug = t
  BY <1>3, <1>5, <1>6 DEF LinesPlaced
<1>9. imp'.failed \cap DOMAIN imp'.ids = {} /\ imp'.roots \subseteq DOMAIN imp'.ids
  BY <1>3, <1>5, <1>7 DEF LinesPlaced
<1>10. ASSUME NEW k \in Past'
       PROVE  LET e == imp'.lines[k] IN
              /\ e.slug \in DOMAIN imp'.ids \cup imp'.failed
              /\ e.slug \in DOMAIN imp'.ids =>
                    SitsAfter(imp'.ids[e.slug], e) /\ (e.slug \in imp'.roots <=> e.parent = None)
              /\ e.slug \in imp'.failed => FailedAfter(e)
  <2>1. CASE k = imp.n
    <3>1. imp'.lines[k] = Entry /\ imp'.ids[s] = c /\ s \in DOMAIN imp'.ids /\ s \notin imp'.failed
      BY <1>3, <1>5, <1>6, <1>7, <2>1
    <3>2. s \in imp'.roots <=> Entry.parent = None
      BY <1>3, <1>5, <1>7
    <3> QED BY <3>1, <3>2
  <2>2. CASE k \in Past
    <3> DEFINE e == imp.lines[k]
    <3>1. e.slug \in DOMAIN imp.ids \cup imp.failed /\ imp'.lines[k] = e
      BY <1>3, <2>2 DEF LinesPlaced
    <3>2. e.slug # s
      BY <1>7, <3>1
    <3>3. ASSUME e.slug \in DOMAIN imp'.ids
          PROVE  SitsAfter(imp'.ids[e.slug], e) /\ (e.slug \in imp'.roots <=> e.parent = None)
      <4>1. e.slug \in DOMAIN imp.ids /\ imp'.ids[e.slug] = imp.ids[e.slug]
        BY <1>3, <1>5, <3>2, <3>3
      <4>2. SitsAfter(imp.ids[e.slug], e)
        BY <2>2, <4>1 DEF DoneStay
      <4>3. e.slug \in imp.roots <=> e.parent = None
        BY <2>2, <4>1 DEF LinesPlaced
      <4>4. e.slug \in imp'.roots <=> e.slug \in imp.roots
        BY <1>3, <1>5, <3>2
      <4> HIDE DEF e
      <4> QED BY <4>1, <4>2, <4>3, <4>4
    <3>4. e.slug \in imp'.failed => FailedAfter(e)
      BY <1>3, <2>2 DEF DoneStay
    <3>5. e.slug \in DOMAIN imp'.ids \cup imp'.failed
      BY <1>3, <1>5, <3>1
    <3> HIDE DEF e
    <3> QED BY <3>1, <3>3, <3>4, <3>5
  <2> QED BY <1>3, <2>1, <2>2
<1>11. /\ \A d, e : SitsAfter(d, e) => Sits(d, e)'
       /\ \A e : FailedAfter(e) => FailedRightly(e)'
  BY <1>3 DEF Sits, FailedRightly, SitsAfter, FailedAfter, IsRoot, RootAfter, At
<1>12. LinesPlaced'
  <2> HIDE DEF s
  <2> QED BY <1>8, <1>9, <1>10, <1>11 DEF LinesPlaced
<1> QED BY <1>4, <1>12 DEF FileInv

(* The lines that are done are where they were, in a step that writes no   *)
(* category and finishes no line.                                          *)
LEMMA LinesStay ==
    ASSUME LinesPlaced, live' = live, doc' = doc, Past' = Past, imp'.ids = imp.ids,
           imp'.roots = imp.roots, imp'.failed = imp.failed, imp'.lines = imp.lines,
           imp'.file = imp.file
    PROVE  LinesPlaced'
<1>1. /\ \A c, e : Sits(c, e) => SitsAfter(c, e)
      /\ \A e : FailedRightly(e) => FailedAfter(e)
  BY DEF Sits, FailedRightly, SitsAfter, FailedAfter, IsRoot, RootAfter, At
<1>2. /\ \A c, e : SitsAfter(c, e) => Sits(c, e)'
      /\ \A e : FailedAfter(e) => FailedRightly(e)'
  BY DEF Sits, FailedRightly, SitsAfter, FailedAfter, IsRoot, RootAfter, At
<1>3. \A t \in DOMAIN imp'.ids \cup imp'.failed : \E k \in Past' : imp'.lines[k].slug = t
  BY DEF LinesPlaced
<1>4. imp'.failed \cap DOMAIN imp'.ids = {} /\ imp'.roots \subseteq DOMAIN imp'.ids
  BY DEF LinesPlaced
<1>5. ASSUME NEW k \in Past'
      PROVE  LET e == imp'.lines[k] IN
             /\ e.slug \in DOMAIN imp'.ids \cup imp'.failed
             /\ e.slug \in DOMAIN imp'.ids =>
                   SitsAfter(imp'.ids[e.slug], e) /\ (e.slug \in imp'.roots <=> e.parent = None)
             /\ e.slug \in imp'.failed => FailedAfter(e)
  BY <1>1 DEF LinesPlaced
<1> QED BY <1>2, <1>3, <1>4, <1>5 DEF LinesPlaced

(* The line under way is a line of the file.                               *)
LEMMA LineIsKnown ==
    ASSUME LinesDone, FileKnown, Reading
    PROVE  /\ imp.n \in 1..Len(imp.lines) /\ Len(imp.lines) \in Nat
           /\ Entry = imp.lines[imp.n] /\ Entry \in ToSet(imp.file.categories)
           /\ Entry.slug \in Slugs /\ Past = 1..(imp.n - 1)
<1>1. imp.at # "idle" /\ imp.n \in 1..Len(imp.lines) /\ Len(imp.lines) \in Nat
  BY DEF Reading, LinesDone
<1> QED BY <1>1, LinesKnown DEF Entry, Past

(* A parent that failed, or is no root of the file, or is none of the      *)
(* store, is a reason to fail (resolveParent).                             *)
LEMMA ParentIsRightlyRefused ==
    ASSUME LinesDone, FileKnown, LinesPlaced, Reading, Entry.parent # None,
           \/ Entry.parent \in DOMAIN imp.ids /\ Entry.parent \notin imp.roots
           \/ /\ Entry.parent \notin DOMAIN imp.ids
              /\ ~\E c \in At(Entry.parent) : IsRoot(c)
    PROVE  FailedRightly(Entry)
<1> DEFINE p == Entry.parent
           l == imp.lines
<1>1. /\ imp.n \in 1..Len(l) /\ Len(l) \in Nat /\ Entry = l[imp.n] /\ Past = 1..(imp.n - 1)
  BY LineIsKnown
<1>2. /\ \A i \in 1..Len(l) : l[i] \in ToSet(imp.file.categories) /\ l[i].slug \in Slugs
      /\ \A e \in ToSet(imp.file.categories) : \E i \in 1..Len(l) : l[i] = e
      /\ \A i, j \in 1..Len(l) : l[i].parent # None /\ l[j].parent = None => j < i
  BY LinesKnown DEF Reading
<1> HIDE DEF l
<1>3. ASSUME NEW e \in ToSet(imp.file.categories), e.slug = p, e.parent = None
      PROVE  p \in imp.roots
  <2>1. PICK i \in 1..Len(l) : l[i] = e
    BY <1>2
  <2>2. i < imp.n
    BY <1>1, <1>2, <1>3, <2>1
  <2>3. i \in Past /\ imp.lines[i] = e
    BY <1>1, <2>1, <2>2 DEF l
  <2>4. p \in DOMAIN imp.ids \cup imp.failed
    BY <1>3, <2>3 DEF LinesPlaced
  <2>5. p \notin imp.failed
    BY <1>3, <2>3 DEF LinesPlaced, FailedRightly
  <2>6. p \in DOMAIN imp.ids
    BY <2>4, <2>5
  <2> QED BY <1>3, <2>3, <2>6 DEF LinesPlaced
<1>4. CASE p \in DOMAIN imp.ids /\ p \notin imp.roots
  <2>1. PICK i \in Past : imp.lines[i].slug = p
    BY <1>4 DEF LinesPlaced
  <2>2. i \in 1..Len(l)
    BY <1>1, <2>1
  <2>3. Mentions(imp.file, p)
    BY <1>2, <2>1, <2>2 DEF Mentions, l
  <2>4. ~HasRoot(imp.file, p)
    BY <1>3, <1>4 DEF HasRoot
  <2> QED BY <2>3, <2>4 DEF FailedRightly
<1>5. CASE p \notin DOMAIN imp.ids /\ ~\E c \in At(p) : IsRoot(c)
  <2>1. ~HasRoot(imp.file, p)
    BY <1>3, <1>5 DEF HasRoot, LinesPlaced
  <2> QED BY <1>5, <2>1 DEF FailedRightly
<1> QED BY <1>4, <1>5

(* The parent of the line is found where the file, or the store, has it.   *)
LEMMA ParentKeepsFile ==
    ASSUME Shape, LinesDone, FileKnown, FileInv, ImportParent PROVE FileInv'
<1> DEFINE p == Entry.parent
<1>1. /\ imp.at = "parent" /\ Reading /\ imp.parent = None
      /\ live' = live /\ doc' = doc /\ nested' = nested
  BY DEF ImportParent, Importing, Reading, treeVars, history, LinesDone
<1>2. ASSUME NEW x, (x = None) <=> (p = None),
             Undisturbed => (p # None => IsRoot(x) /\ doc[x].slug = p),
             imp'.at = "stored", imp'.parent = x, imp'.ids = imp.ids, imp'.roots = imp.roots,
             imp'.failed = imp.failed, imp'.lines = imp.lines, imp'.file = imp.file,
             imp'.n = imp.n, imp'.disturbed = imp.disturbed
      PROVE  FileInv'
  <2> SUFFICES ASSUME Undisturbed' PROVE LinesPlaced' /\ LineRead'
    BY DEF FileInv
  <2>1. Undisturbed /\ LinesPlaced
    BY <1>1, <1>2 DEF Undisturbed, FileInv
  <2>2. Past' = Past
    BY <1>1, <1>2 DEF Past, Reading
  <2>3. LinesPlaced'
    BY <1>1, <1>2, <2>1, <2>2, LinesStay
  <2>4. Entry' = Entry
    BY <1>2 DEF Entry
  <2>5. p # None => RootAfter(x) /\ doc'[x].slug = p
    BY <1>1, <1>2, <2>1 DEF IsRoot, RootAfter
  <2>6. imp'.parent = None <=> p = None
    BY <1>2
  <2>7. LineRead'
    BY <1>2, <2>4, <2>5, <2>6 DEF LineRead, IsRoot, RootAfter
  <2> QED BY <2>3, <2>7
<1>3. CASE p = None /\ imp' = [imp EXCEPT !.at = "stored"]
  BY <1>1, <1>2, <1>3 DEF Shape, ImpShape
<1>4. ASSUME p \in DOMAIN imp.ids, p \in imp.roots,
             imp' = [imp EXCEPT !.at = "stored", !.parent = imp.ids[p]], Undisturbed
      PROVE  p # None /\ imp.ids[p] # None /\ IsRoot(imp.ids[p]) /\ doc[imp.ids[p]].slug = p
  <2>0. LinesPlaced
    BY <1>4 DEF FileInv
  <2>1. PICK i \in Past : imp.lines[i].slug = p
    BY <1>4, <2>0 DEF LinesPlaced
  <2>2. /\ p \in Slugs
    <3>1. i \in 1..Len(imp.lines)
      BY <1>1, <2>1, LineIsKnown
    <3> QED BY <1>1, <2>1, <3>1, LinesKnown
  <2>3. Sits(imp.ids[p], imp.lines[i]) /\ imp.lines[i].parent = None
    BY <1>4, <2>0, <2>1 DEF LinesPlaced
  <2>4. imp.ids[p] \in live /\ doc[imp.ids[p]].parent = None /\ doc[imp.ids[p]].slug = p
    BY <2>1, <2>3 DEF Sits
  <2> QED BY <2>2, <2>4, AddressesFit, FirstFits DEF IsRoot, Shape, DataShape
<1>5. CASE p \in DOMAIN imp.ids /\ p \in imp.roots
           /\ imp' = [imp EXCEPT !.at = "stored", !.parent = imp.ids[p]]
  <2> DEFINE x == imp.ids[p]
  <2>1. imp' = [imp EXCEPT !.at = "stored", !.parent = x]
    BY <1>5
  <2>2. Undisturbed => (p # None /\ x # None /\ IsRoot(x) /\ doc[x].slug = p)
    BY <1>4, <1>5
  <2> HIDE DEF x
  <2>3. /\ imp'.at = "stored" /\ imp'.parent = x /\ imp'.ids = imp.ids /\ imp'.roots = imp.roots
        /\ imp'.failed = imp.failed /\ imp'.lines = imp.lines /\ imp'.file = imp.file
        /\ imp'.n = imp.n /\ imp'.disturbed = imp.disturbed
    BY <1>1, <2>1 DEF Shape, ImpShape
  <2>4. CASE Undisturbed
    BY <1>2, <2>2, <2>3, <2>4
  <2>5. CASE ~Undisturbed
    BY <1>1, <2>3, <2>5 DEF FileInv, Undisturbed
  <2> QED BY <2>4, <2>5
<1>6. ASSUME NEW c \in At(p), IsRoot(c), p # None,
             imp' = [imp EXCEPT !.at = "stored", !.parent = c]
      PROVE  FileInv'
  <2>1. c # None /\ doc[c].slug = p
    BY <1>6, FirstFits DEF At, Shape, DataShape
  <2>2. /\ imp'.at = "stored" /\ imp'.parent = c /\ imp'.ids = imp.ids /\ imp'.roots = imp.roots
        /\ imp'.failed = imp.failed /\ imp'.lines = imp.lines /\ imp'.file = imp.file
        /\ imp'.n = imp.n /\ imp'.disturbed = imp.disturbed
    BY <1>1, <1>6 DEF Shape, ImpShape
  <2> HIDE DEF p
  <2> QED BY <1>2, <1>6, <2>1, <2>2
<1>7. ASSUME Fail,
             \/ p \in DOMAIN imp.ids /\ p \notin imp.roots
             \/ p # None /\ p \notin DOMAIN imp.ids /\ ~\E c \in At(p) : IsRoot(c)
      PROVE  FileInv'
  <2>1. ASSUME Undisturbed PROVE FailedRightly(Entry)
    <3>0. LinesPlaced
      BY <2>1 DEF FileInv
    <3>1. CASE p \in DOMAIN imp.ids /\ p \notin imp.roots
      <4>1. PICK i \in Past : imp.lines[i].slug = p
        BY <3>0, <3>1 DEF LinesPlaced
      <4>2. i \in 1..Len(imp.lines)
        BY <1>1, <4>1, LineIsKnown
      <4>3. p # None
        BY <1>1, <4>1, <4>2, LinesKnown, AddressesFit
      <4> QED BY <1>1, <3>0, <3>1, <4>3, ParentIsRightlyRefused
    <3>2. CASE p # None /\ p \notin DOMAIN imp.ids /\ ~\E c \in At(p) : IsRoot(c)
      BY <1>1, <3>0, <3>2, ParentIsRightlyRefused
    <3> QED BY <1>7, <3>1, <3>2
  <2> QED BY <1>1, <1>7, <2>1, FailPlaces
<1> QED
  <2>1. \/ p = None /\ imp' = [imp EXCEPT !.at = "stored"]
        \/ p \in DOMAIN imp.ids /\ p \in imp.roots
              /\ imp' = [imp EXCEPT !.at = "stored", !.parent = imp.ids[p]]
        \/ p \in DOMAIN imp.ids /\ p \notin imp.roots /\ Fail
        \/ p # None /\ p \notin DOMAIN imp.ids /\ Fail /\ {c \in At(p) : IsRoot(c)} = {}
        \/ p # None /\ \E c \in At(p) :
              IsRoot(c) /\ imp' = [imp EXCEPT !.at = "stored", !.parent = c]
    BY DEF ImportParent
  <2> HIDE DEF p
  <2>2. {c \in At(p) : IsRoot(c)} = {} => ~\E c \in At(p) : IsRoot(c)
    OBVIOUS
  <2> QED BY <1>3, <1>5, <1>6, <1>7, <2>1, <2>2

(* The category that has the address of the line is read as it is.         *)
LEMMA StoredKeepsFile ==
    ASSUME Shape, LinesDone, FileKnown, FileInv, ImportStored PROVE FileInv'
<1>1. /\ imp.at = "stored" /\ Reading /\ imp.stored = None
      /\ live' = live /\ doc' = doc /\ nested' = nested
  BY DEF ImportStored, Importing, Reading, treeVars, history, LinesDone
<1>2. \/ At(Entry.slug) = {} /\ imp' = [imp EXCEPT !.at = "save"]
      \/ \E c \in At(Entry.slug) :
            imp' = [imp EXCEPT !.at = "save", !.stored = c, !.was = doc[c].parent]
  BY DEF ImportStored
<1>3. /\ imp'.at = "save" /\ imp'.parent = imp.parent /\ imp'.ids = imp.ids
      /\ imp'.roots = imp.roots /\ imp'.failed = imp.failed /\ imp'.lines = imp.lines
      /\ imp'.file = imp.file /\ imp'.n = imp.n /\ imp'.disturbed = imp.disturbed
      /\ \/ At(Entry.slug) = {} /\ imp'.stored = None
         \/ imp'.stored \in At(Entry.slug) /\ imp'.was = doc[imp'.stored].parent
  BY <1>1, <1>2 DEF Shape, ImpShape
<1>4. \A c \in At(Entry.slug) : c # None
  BY FirstFits DEF At, Shape, DataShape
<1> SUFFICES ASSUME Undisturbed' PROVE LinesPlaced' /\ LineRead'
  BY DEF FileInv
<1>5. Undisturbed /\ LinesPlaced /\ LineRead
  BY <1>1, <1>3 DEF Undisturbed, FileInv
<1>6. Past' = Past /\ Entry' = Entry /\ At(Entry.slug)' = At(Entry.slug)
  BY <1>1, <1>3 DEF Past, Reading, Entry, At
<1>7. LinesPlaced'
  BY <1>1, <1>3, <1>5, <1>6, LinesStay
<1>8. /\ imp.parent = None <=> Entry.parent = None
      /\ Entry.parent # None => IsRoot(imp.parent) /\ doc[imp.parent].slug = Entry.parent
  BY <1>1, <1>5 DEF LineRead
<1>9. LineRead'
  <2>1. /\ imp'.parent = None <=> Entry'.parent = None
        /\ Entry'.parent # None => RootAfter(imp'.parent) /\ doc'[imp'.parent].slug = Entry'.parent
    BY <1>1, <1>3, <1>6, <1>8 DEF IsRoot, RootAfter
  <2>2. /\ imp'.stored = None => At(Entry.slug) = {}
        /\ imp'.stored # None => /\ imp'.stored \in At(Entry.slug)
                                 /\ imp'.was = doc'[imp'.stored].parent
    BY <1>1, <1>3, <1>4
  <2> QED BY <1>6, <2>1, <2>2 DEF LineRead, IsRoot, RootAfter
<1> QED BY <1>7, <1>9

(* What a line that is being done has: its parent is a root that stays.    *)
LEMMA DoneRightly ==
    ASSUME Shape, LinesDone, FileKnown, Reading, NamesOnce(imp.file), LinesPlaced, NEW c, Done(c),
           imp.parent = None <=> Entry.parent = None,
           c \in live', doc'[c].slug = Entry.slug, doc'[c].parent = imp.parent,
           Entry.parent # None => RootAfter(imp.parent) /\ doc'[imp.parent].slug = Entry.parent,
           \A d \in live \ {c} : d \in live' /\ doc'[d] = doc[d],
           \A d \in live' : d \in live \/ d = c,
           c \in live => \/ doc[c].parent = imp.parent
                         \/ imp.parent = None
                         \/ Children(c) = {},
           c \in live => doc[c].slug = Entry.slug
    PROVE  FileInv'
<1> DEFINE s == Entry.slug
<1>1. SitsAfter(c, Entry)
  BY DEF SitsAfter
<1>2. s \notin DOMAIN imp.ids \cup imp.failed
  <2>1. ASSUME NEW k \in Past, imp.lines[k].slug = s PROVE FALSE
    <3>1. k \in 1..(imp.n - 1) /\ k \in 1..Len(imp.lines) /\ k # imp.n
      BY <2>1, LineIsKnown
    <3>2. Entry = imp.lines[imp.n] /\ imp.n \in 1..Len(imp.lines)
      BY LineIsKnown
    <3>3. \A i, j \in 1..Len(imp.lines) : imp.lines[i].slug = imp.lines[j].slug => i = j
      BY LinesKnown DEF Reading
    <3> QED BY <2>1, <3>1, <3>2, <3>3
  <2> QED BY <2>1 DEF LinesPlaced
<1>3. s \in Slugs /\ Mentions(imp.file, s)
  BY LineIsKnown DEF Mentions
<1>4. ASSUME NEW d, IsRoot(d), d # c \/ RootAfter(c)
      PROVE  RootAfter(d)
  BY <1>4 DEF IsRoot, RootAfter
<1>5. ASSUME NEW d, NEW e, Sits(d, e), e.slug # s
      PROVE  SitsAfter(d, e)
  <2>1. d \in live /\ d # c
    BY <1>5 DEF Sits
  <2>2. d \in live' /\ doc'[d] = doc[d]
    BY <2>1
  <2>3. CASE e.parent = None
    BY <1>5, <2>2, <2>3 DEF Sits, SitsAfter
  <2>4. CASE e.parent # None
    <3> DEFINE p == doc[d].parent
    <3>1. IsRoot(p) /\ doc[p].slug = e.parent
      BY <1>5, <2>4 DEF Sits
    <3>2. CASE p # c
      <4>1. RootAfter(p) /\ doc'[p] = doc[p]
        BY <1>4, <3>1, <3>2 DEF IsRoot
      <4> QED BY <1>5, <2>2, <2>4, <3>1, <4>1 DEF Sits, SitsAfter
    <3>3. CASE p = c
      <4>1. c \in live /\ doc[c].parent = None /\ d \in Children(c) /\ doc[c].slug = s
        BY <2>1, <3>1, <3>3 DEF IsRoot, Children
      <4>2. imp.parent = None
        BY <4>1
      <4>3. RootAfter(c) /\ doc'[c].slug = e.parent
        BY <3>1, <3>3, <4>1, <4>2 DEF RootAfter
      <4> QED BY <1>5, <2>2, <2>4, <3>3, <4>3 DEF Sits, SitsAfter
    <3> QED BY <3>2, <3>3
  <2> QED BY <2>3, <2>4
<1>6. ASSUME NEW e, FailedRightly(e) PROVE FailedAfter(e)
  <2>1. CASE Mentions(imp.file, e.parent)
    BY <1>6, <2>1 DEF FailedRightly, FailedAfter
  <2>2. CASE ~Mentions(imp.file, e.parent)
    <3>1. e.parent # s
      BY <1>3, <2>2
    <3>2. ASSUME NEW d \in live', doc'[d].slug = e.parent, RootAfter(d) PROVE FALSE
      <4>1. d # c /\ d \in live /\ doc'[d] = doc[d]
        BY <3>1, <3>2
      <4>2. d \in At(e.parent) /\ IsRoot(d)
        BY <3>2, <4>1 DEF At, IsRoot, RootAfter
      <4> QED BY <1>6, <2>2, <4>2 DEF FailedRightly
    <3> QED BY <1>6, <3>2 DEF FailedRightly, FailedAfter
  <2> QED BY <2>1, <2>2
<1>7. DoneStay
  <2>1. ASSUME NEW k \in Past
        PROVE  LET e == imp.lines[k] IN
               /\ e.slug \in DOMAIN imp.ids => SitsAfter(imp.ids[e.slug], e)
               /\ e.slug \in imp.failed => FailedAfter(e)
    <3> DEFINE e == imp.lines[k]
    <3>1. e.slug \in DOMAIN imp.ids => Sits(imp.ids[e.slug], e) /\ e.slug # s
      BY <1>2 DEF LinesPlaced
    <3>2. e.slug \in imp.failed => FailedRightly(e)
      BY DEF LinesPlaced
    <3> HIDE DEF e, s
    <3> QED BY <1>5, <1>6, <3>1, <3>2 DEF e
  <2> QED BY <2>1 DEF DoneStay
<1> QED BY <1>1, <1>7, DonePlaces

(* A new category stands where its line says (mergeCategory).              *)
LEMMA NewKeepsFile ==
    ASSUME Shape, LinesDone, FileKnown, FileInv, ImportNew PROVE FileInv'
<1>1. imp.at = "save" /\ Reading /\ imp.stored = None
  BY DEF ImportNew, Importing, Reading
<1>2. CASE Fail /\ UNCHANGED <<treeVars, history>> /\ Entry.slug \in Current
  <2>1. At(Entry.slug) # {}
    BY <1>2 DEF Current, At
  <2>2. ~Undisturbed
    BY <1>1, <2>1 DEF FileInv, LineRead
  <2> QED BY <1>1, <1>2, <2>2, FailPlaces DEF treeVars, history
<1>3. ASSUME NEW c \in unborn, live' = live \cup {c}, nested' = nested,
             doc' = [doc EXCEPT ![c] = [Blank EXCEPT !.parent = imp.parent, !.active = TRUE,
                                                     !.slug = Entry.slug]],
             Done(c)
      PROVE  FileInv'
  <2> DEFINE s == Entry.slug
             i == [imp EXCEPT
                !.ids = [t \in DOMAIN imp.ids \cup {s} |-> IF t = s THEN c ELSE imp.ids[t]],
                !.roots = IF imp.parent = None THEN @ \cup {s} ELSE @]
  <2>1. c \in Ids /\ c \notin live /\ DOMAIN doc = Ids
    BY DEF Shape, DataShape
  <2>2. doc'[c].parent = imp.parent /\ doc'[c].slug = s
    BY <1>3, <2>1 DEF Blank
  <2>3. \A d \in live : d \in live' /\ doc'[d] = doc[d]
    BY <1>3, <2>1
  <2>4. CASE ~Undisturbed
    <3>1. DOMAIN i = DOMAIN imp /\ i.lines = imp.lines /\ i.n = imp.n
          /\ i.disturbed = imp.disturbed /\ i.file = imp.file
      BY <1>1 DEF Shape, ImpShape
    <3>2. imp' = Next1(i)
      BY <1>3 DEF Done
    <3> HIDE DEF i
    <3>3. imp'.disturbed = imp.disturbed /\ imp'.file = imp.file
      BY <1>1, <3>1, <3>2, LineIsPast
    <3> QED BY <1>1, <1>3, <2>4, <3>3 DEF FileInv, Undisturbed, Reading
  <2>5. CASE Undisturbed
    <3>1. /\ LinesPlaced /\ NamesOnce(imp.file) /\ (imp.parent = None <=> Entry.parent = None)
          /\ Entry.parent # None => IsRoot(imp.parent) /\ doc[imp.parent].slug = Entry.parent
      BY <1>1, <2>5 DEF FileInv, LineRead, Undisturbed
    <3>2. Entry.parent # None => RootAfter(imp.parent) /\ doc'[imp.parent].slug = Entry.parent
      BY <2>3, <3>1 DEF IsRoot, RootAfter
    <3> QED BY <1>1, <1>3, <2>1, <2>2, <2>3, <3>1, <3>2, DoneRightly
  <2> QED BY <2>4, <2>5
<1> QED BY <1>2, <1>3 DEF ImportNew, history

(* A category that was there is put where its line says (mergeCategory).   *)
LEMMA StillKeepsFile ==
    ASSUME Shape, LinesDone, FileKnown, FileInv, ImportStill PROVE FileInv'
<1> DEFINE c == imp.stored
           s == Entry.slug
           i == [imp EXCEPT
                !.ids = [t \in DOMAIN imp.ids \cup {s} |-> IF t = s THEN c ELSE imp.ids[t]],
                !.roots = IF imp.parent = None THEN @ \cup {s} ELSE @]
<1>1. imp.at = "save" /\ Reading /\ c # None
  BY DEF ImportStill, Importing, Reading
<1>2. CASE Fail /\ UNCHANGED <<treeVars, history>> /\ c \notin live
  <2>1. ~Undisturbed
    BY <1>1, <1>2 DEF FileInv, LineRead, At
  <2> QED BY <1>1, <1>2, <2>1, FailPlaces DEF treeVars, history
<1>3. ASSUME c \in live, live' = live, Done(c),
             doc' = IF imp.parent = imp.was THEN doc ELSE [doc EXCEPT ![c].parent = imp.parent],
             nested => nested',
             imp.parent \in Ids /\ imp.parent # imp.was /\ ~nested' =>
                Children(c) = {} /\ imp.parent # c
      PROVE  FileInv'
  <2>1. imp'.disturbed = imp.disturbed /\ imp'.file = imp.file
    <3>1. DOMAIN i = DOMAIN imp /\ i.lines = imp.lines /\ i.n = imp.n
          /\ i.disturbed = imp.disturbed /\ i.file = imp.file
      BY <1>1 DEF Shape, ImpShape
    <3>2. imp' = Next1(i)
      BY <1>3 DEF Done
    <3> HIDE DEF i
    <3> QED BY <1>1, <3>1, <3>2, LineIsPast
  <2>2. CASE ~(Undisturbed /\ ~nested')
    <3>1. nested => nested'
      BY <1>3
    <3>2. ~Undisturbed'
      BY <1>1, <2>1, <2>2, <3>1 DEF Undisturbed, Reading
    <3> QED BY <3>2 DEF FileInv
  <2>3. CASE Undisturbed /\ ~nested'
    <3>1. /\ LinesPlaced /\ NamesOnce(imp.file) /\ (imp.parent = None <=> Entry.parent = None)
          /\ Entry.parent # None => IsRoot(imp.parent) /\ doc[imp.parent].slug = Entry.parent
          /\ doc[c].slug = s /\ imp.was = doc[c].parent
      BY <1>1, <2>3 DEF FileInv, LineRead, At, Undisturbed
    <3>2. c \in Ids /\ DOMAIN doc = Ids /\ DOMAIN doc[c] = {"parent", "active", "slug", "old"}
      BY <1>3 DEF Shape, DataShape
    <3>3. doc'[c].parent = imp.parent /\ doc'[c].slug = s
      BY <1>3, <3>1, <3>2
    <3>4. \A d \in live \ {c} : d \in live' /\ doc'[d] = doc[d]
      BY <1>3, <3>2 DEF Shape, DataShape
    <3>5. imp.parent # None => imp.parent \in Ids
      BY <3>1 DEF IsRoot, Shape, DataShape
    <3>6. doc[c].parent = imp.parent \/ imp.parent = None \/ Children(c) = {}
      BY <1>3, <2>3, <3>1, <3>5
    <3>7. Entry.parent # None => RootAfter(imp.parent) /\ doc'[imp.parent].slug = Entry.parent
      <4>1. CASE imp.parent = imp.was
        BY <1>3, <3>1, <4>1 DEF IsRoot, RootAfter
      <4>2. ASSUME imp.parent # imp.was, Entry.parent # None
            PROVE  RootAfter(imp.parent) /\ doc'[imp.parent].slug = Entry.parent
        <5>1. imp.parent # c
          BY <1>3, <2>3, <3>1, <3>5, <4>2
        <5>2. imp.parent \in live \ {c}
          BY <3>1, <4>2, <5>1 DEF IsRoot
        <5> QED BY <3>1, <3>4, <4>2, <5>2 DEF IsRoot, RootAfter
      <4> QED BY <4>1, <4>2
    <3> HIDE DEF c, i
    <3> QED BY <1>1, <1>3, <3>1, <3>3, <3>4, <3>6, <3>7, DoneRightly
  <2> QED BY <2>2, <2>3
<1> QED
  <2>1. c \in live => /\ live' = live /\ Done(c)
                      /\ doc' = IF imp.parent = imp.was THEN doc
                                ELSE [doc EXCEPT ![c].parent = imp.parent]
    BY DEF ImportStill
  <2>2. c \in live =>
          /\ nested => nested'
          /\ imp.parent \in Ids /\ imp.parent # imp.was /\ ~nested' =>
                Children(c) = {} /\ imp.parent # c
    BY Zenon DEF ImportStill
  <2>3. c \notin live => Fail /\ UNCHANGED <<treeVars, history>>
    BY DEF ImportStill
  <2> QED BY <1>2, <1>3, <2>1, <2>2, <2>3

(* Every step of the import keeps its file (Importer).                     *)
LEMMA ImporterKeepsFile ==
    ASSUME Shape, LinesDone, FileKnown, FileInv, Importer PROVE FileInv'
<1>1. ASSUME NEW f \in Files, Import(f) PROVE FileInv'
  <2>1. /\ imp'.at = IF f.categories = <<>> THEN "product" ELSE "parent"
        /\ imp'.n = 1 /\ imp'.lines = InOrder(f) /\ imp'.ids = [s \in {} |-> None]
        /\ imp'.roots = {} /\ imp'.failed = {}
    BY <1>1 DEF Import
  <2>2. Past' = {}
    <3>1. 1..(1 - 1) = {} /\ 1..Len(<<>>) = {}
      OBVIOUS
    <3>2. f.categories = <<>> => InOrder(f) = <<>>
      <4> DEFINE l == InOrder(f)
      <4>1. l \in Seq(ToSet(f.categories))
        BY InOrderLines
      <4> HIDE DEF l
      <4>2. ASSUME f.categories = <<>> PROVE l = <<>>
        <5>1. ToSet(f.categories) = {}
          BY <4>2 DEF ToSet
        <5>2. Len(l) \in Nat /\ \A k \in 1..Len(l) : l[k] \in {}
          BY <4>1, <5>1
        <5>3. Len(l) = 0
          BY <5>2
        <5> QED BY <4>1, <5>3
      <4> QED BY <4>2 DEF l
    <3>3. CASE f.categories = <<>>
      BY <2>1, <3>1, <3>2, <3>3 DEF Past, Reading
    <3>4. CASE f.categories # <<>>
      BY <2>1, <3>1, <3>4 DEF Past, Reading
    <3> QED BY <3>3, <3>4
  <2>3. LinesPlaced'
    BY <2>1, <2>2 DEF LinesPlaced
  <2> QED BY <2>1, <2>3 DEF FileInv, LineRead
<1>2. ASSUME ImportProduct \/ ImportSaveProduct PROVE FileInv'
  <2>1. /\ imp.at \in {"product", "saveProduct"} /\ live' = live /\ doc' = doc
        /\ nested' = nested
    BY <1>2 DEF ImportProduct, ImportSaveProduct, treeVars, history
  <2>2. \/ imp' = Idle
        \/ /\ imp'.at \in {"product", "saveProduct"} /\ imp'.ids = imp.ids
           /\ imp'.roots = imp.roots /\ imp'.failed = imp.failed /\ imp'.lines = imp.lines
           /\ imp'.file = imp.file /\ imp'.disturbed = imp.disturbed
    BY <1>2, <2>1 DEF ImportProduct, ImportSaveProduct, Shape, ImpShape
  <2>3. CASE imp' = Idle
    BY <2>3 DEF FileInv, Undisturbed, Idle
  <2>4. CASE imp' # Idle
    <3>1. Past' = Past
      BY <2>1, <2>2, <2>4 DEF Past, Reading
    <3>2. LinesPlaced => LinesPlaced'
      BY <2>1, <2>2, <2>4, <3>1, LinesStay
    <3>3. LineRead'
      BY <2>2, <2>4 DEF LineRead
    <3>4. Undisturbed' => Undisturbed
      BY <2>1, <2>2, <2>4 DEF Undisturbed
    <3> QED BY <3>2, <3>3, <3>4 DEF FileInv
  <2> QED BY <2>3, <2>4
<1> QED BY <1>1, <1>2, ParentKeepsFile, StoredKeepsFile, NewKeepsFile, StillKeepsFile DEF Importer

(* Whatever the categories, the files and the requests: an import nobody   *)
(* disturbs has put every line it is done with where the line says, or     *)
(* failed it rightly, and goes by a parent that is a root and has the      *)
(* address the line gives (importCategories, resolveParent).               *)
THEOREM FileInvariant == Spec => [](Shape /\ LinesDone /\ FileKnown /\ FileInv)
<1>1. Init => FileInv
  BY DEF Init, FileInv, Undisturbed, Idle
<1>2. Shape /\ LinesDone /\ FileKnown /\ FileInv /\ [Next]_vars => FileInv'
  <2> SUFFICES ASSUME Shape, LinesDone, FileKnown, FileInv, [Next]_vars PROVE FileInv'
    OBVIOUS
  <2>1. CASE UNCHANGED vars
    BY <2>1, FileStays DEF vars, treeVars, history
  <2> QED BY <2>1, PanelKeepsFile, ImporterKeepsFile DEF Next
<1>3. Shape /\ TreeInv /\ LinkInv /\ FileKnown => Shape /\ LinesDone /\ FileKnown
  BY DEF TreeInv
<1> QED BY <1>1, <1>2, <1>3, LinkInvariant, PTL DEF Spec

(* An undisturbed import puts every category of its file where the file    *)
(* says, whatever the order of its lines (FileIsPlaced).                   *)
THEOREM FileIsAlwaysPlaced == Spec => []FileIsPlaced
<1>1. Shape /\ FileKnown /\ FileInv => FileIsPlaced
  <2> SUFFICES ASSUME Shape, FileKnown, FileInv, imp.at \in {"product", "saveProduct"},
                      ~imp.disturbed, ~nested, NamesOnce(imp.file),
                      NEW e \in ToSet(imp.file.categories)
               PROVE  IF e.slug \in imp.failed
                      THEN /\ e.parent # None
                           /\ ~HasRoot(imp.file, e.parent)
                           /\ \/ Mentions(imp.file, e.parent)
                              \/ ~\E c \in At(e.parent) : IsRoot(c)
                      ELSE \E c \in At(e.slug) :
                              IF e.parent = None THEN IsRoot(c)
                              ELSE doc[c].parent \in At(e.parent) /\ IsRoot(doc[c].parent)
    BY DEF FileIsPlaced
  <2>1. LinesPlaced /\ Past = 1..Len(imp.lines) /\ imp.at # "idle"
    BY DEF FileInv, Undisturbed, Past, Reading
  <2>2. PICK k \in Past : imp.lines[k] = e
    BY <2>1, LinesKnown
  <2>3. CASE e.slug \in imp.failed
    BY <2>1, <2>2, <2>3 DEF LinesPlaced, FailedRightly
  <2>4. CASE e.slug \notin imp.failed
    <3>1. e.slug \in DOMAIN imp.ids /\ Sits(imp.ids[e.slug], e)
      BY <2>1, <2>2, <2>4 DEF LinesPlaced
    <3> QED BY <2>4, <3>1 DEF Sits, At, IsRoot
  <2> QED BY <2>3, <2>4
<1> QED BY <1>1, FileInvariant, PTL
=============================================================================
