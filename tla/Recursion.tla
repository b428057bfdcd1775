----------------------------- MODULE Recursion -----------------------------
(***************************************************************************)
(* Induction over the natural numbers, and the existence of functions      *)
(* defined by recursion, stated with sets and functions only: the          *)
(* hypotheses say something of a set T of numbers, or of a function `step',*)
(* and can therefore be instantiated by all provers.                       *)
(***************************************************************************)
EXTENDS Integers, WellFoundedInduction, TLAPS

(* A set of natural numbers has a least element.                           *)
LEMMA LeastElement ==
  ASSUME NEW T, T \subseteq Nat, T # {}
  PROVE  \E x \in T : \A y \in T : x <= y
<1>1. PICK x \in T : \A y \in T : ~(<<y, x>> \in OpToRel(<, Nat))
  BY NatLessThanWellFounded, WFMin, Zenon
<1>2. \A y \in T : ~(y < x)
  BY <1>1 DEF OpToRel
<1> QED BY <1>2

(* Induction: T is the set of the numbers with the property.               *)
LEMMA Induction ==
  ASSUME NEW T, T \subseteq Nat, 0 \in T, \A n \in T : n + 1 \in T
  PROVE  T = Nat
<1> SUFFICES ASSUME Nat \ T # {} PROVE FALSE
  OBVIOUS
<1>1. PICK x \in Nat \ T : \A y \in Nat \ T : x <= y
  BY LeastElement
<1>2. x # 0 /\ x - 1 \in Nat
  BY <1>1
<1>3. x - 1 \in T
  BY <1>1, <1>2
<1>4. (x - 1) + 1 = x
  BY <1>1
<1> QED BY <1>3, <1>4

(* Induction up to a bound.                                                *)
LEMMA BoundedInduction ==
  ASSUME NEW n \in Nat, NEW T, 0 \in T,
         \A k \in 0 .. n - 1 : k \in T => k + 1 \in T
  PROVE  \A k \in 0 .. n : k \in T
<1> DEFINE U == {k \in Nat : k <= n => k \in T}
<1>1. U \subseteq Nat /\ 0 \in U
  OBVIOUS
<1>2. \A k \in U : k + 1 \in U
  OBVIOUS
<1>3. U = Nat
  <2> HIDE DEF U
  <2> QED BY <1>1, <1>2, Induction
<1> QED BY <1>3

(* A function whose values up to n each depend on the one before exists.   *)
Iterates(r, n, base, step) == r[0] = base /\ \A k \in 1 .. n : r[k] = step[k][r[k - 1]]

LEMMA Iteration ==
  ASSUME NEW V, NEW n \in Nat, NEW base \in V, NEW step \in [1 .. n -> [V -> V]]
  PROVE  \E r \in [0 .. n -> V] : Iterates(r, n, base, step)
<1> DEFINE Upto(m, r) == r[0] = base /\ \A k \in 1 .. m : r[k] = step[k][r[k - 1]]
           T == {m \in Nat : \E r \in [0 .. m -> V] : Upto(m, r)}
<1>1. 0 \in T
  <2>1. [k \in 0 .. 0 |-> base] \in [0 .. 0 -> V] /\ 1 .. 0 = {}
    OBVIOUS
  <2>2. [k \in 0 .. 0 |-> base][0] = base
    OBVIOUS
  <2>3. Upto(0, [k \in 0 .. 0 |-> base])
    BY <2>1, <2>2
  <2> QED BY <2>1, <2>3
<1>2. ASSUME NEW m \in 0 .. n - 1, m \in T
      PROVE  m + 1 \in T
  <2>1. PICK r \in [0 .. m -> V] : Upto(m, r)
    BY <1>2
  <2> DEFINE s == [k \in 0 .. m + 1 |-> IF k = m + 1 THEN step[m + 1][r[m]] ELSE r[k]]
  <2>2. m + 1 \in 1 .. n /\ r[m] \in V
    OBVIOUS
  <2>3. s \in [0 .. m + 1 -> V]
    <3>1. step[m + 1][r[m]] \in V
      BY <2>2
    <3> QED BY <3>1
  <2>4. s[0] = base
    BY <2>1
  <2>5. ASSUME NEW k \in 1 .. m + 1
        PROVE  s[k] = step[k][s[k - 1]]
    <3>1. CASE k = m + 1
      BY <3>1
    <3>2. CASE k # m + 1
      <4>1. /\ k \in 1 .. m /\ k - 1 \in 0 .. m /\ k - 1 # m + 1
            /\ k \in 0 .. m + 1 /\ k - 1 \in 0 .. m + 1
        BY <3>2
      <4> QED BY <4>1, <2>1, <3>2
    <3> QED BY <3>1, <3>2
  <2>6. Upto(m + 1, s)
    <3> HIDE DEF s
    <3> QED BY <2>4, <2>5
  <2>7. \E t \in [0 .. m + 1 -> V] : Upto(m + 1, t)
    <3> HIDE DEF Upto, s
    <3> QED BY <2>3, <2>6
  <2>8. m + 1 \in Nat
    OBVIOUS
  <2> HIDE DEF Upto
  <2> QED BY <2>7, <2>8
<1>3. \A k \in 0 .. n : k \in T
  <2> HIDE DEF T
  <2> QED BY <1>1, <1>2, BoundedInduction
<1> QED BY <1>3 DEF Iterates

(* The partial sums of a row of numbers, as a function that each of its    *)
(* values defines by the one before, are what one expects.                 *)
SumsUpTo(n, f) ==
  CHOOSE g : g = [k \in 0 .. n |-> IF k = 0 THEN 0 ELSE g[k - 1] + f[k]]

LEMMA PartialSums ==
  ASSUME NEW n \in Nat, NEW f, \A k \in 1 .. n : f[k] \in Nat
  PROVE  /\ SumsUpTo(n, f) \in [0 .. n -> Nat] /\ SumsUpTo(n, f)[0] = 0
         /\ \A k \in 1 .. n : SumsUpTo(n, f)[k] = SumsUpTo(n, f)[k - 1] + f[k]
<1> DEFINE e == SumsUpTo(n, f)
<1> DEFINE Def(g) == g = [k \in 0 .. n |-> IF k = 0 THEN 0 ELSE g[k - 1] + f[k]]
           step == [k \in 1 .. n |-> [x \in Nat |-> x + f[k]]]
<1>1. step \in [1 .. n -> [Nat -> Nat]]
  OBVIOUS
<1>2. PICK r \in [0 .. n -> Nat] : Iterates(r, n, 0, step)
  <2> HIDE DEF step
  <2> QED BY <1>1, Iteration
<1>3. Def(r)
  <2>1. \A k \in 1 .. n : r[k] = r[k - 1] + f[k]
    <3>1. \A k \in 1 .. n : r[k - 1] \in Nat
      OBVIOUS
    <3> QED BY <1>2, <3>1 DEF Iterates
  <2> QED BY <1>2, <2>1 DEF Iterates
<1>4. Def(e)
  <2>1. e = CHOOSE g : Def(g)
    BY DEF SumsUpTo
  <2> HIDE DEF Def, e
  <2> QED BY <1>3, <2>1
<1> HIDE DEF e
<1>5. e[0] = 0 /\ \A k \in 1 .. n : e[k] = e[k - 1] + f[k]
  <2>1. e = [k \in 0 .. n |-> IF k = 0 THEN 0 ELSE e[k - 1] + f[k]]
    BY <1>4
  <2>2. 0 \in 0 .. n /\ \A k \in 1 .. n : k \in 0 .. n /\ k # 0
    OBVIOUS
  <2> QED BY ONLY <2>1, <2>2
<1> DEFINE T == {k \in Nat : e[k] \in Nat}
<1>6. ASSUME NEW k \in 0 .. n - 1, k \in T
      PROVE  k + 1 \in T
  <2>1. k + 1 \in 1 .. n /\ (k + 1) - 1 = k /\ k + 1 \in Nat
    OBVIOUS
  <2>2. e[k + 1] = e[k] + f[k + 1] /\ e[k] \in Nat /\ f[k + 1] \in Nat
    BY <1>5, <1>6, <2>1
  <2> QED BY <2>1, <2>2
<1>7. \A k \in 0 .. n : k \in T
  <2>1. 0 \in T
    BY <1>5
  <2> HIDE DEF T
  <2> QED BY <1>6, <2>1, BoundedInduction
<1>8. e = [k \in 0 .. n |-> e[k]]
  BY <1>4
<1> QED BY <1>5, <1>7, <1>8 DEF e

(* A function whose values depend on the one of a smaller argument exists: *)
(* recursion along the parents of a tree.                                  *)
Parents(n) == {p \in [1 .. n -> 0 .. n] : \A k \in 1 .. n : p[k] < k}
Follows(f, n, parent, base, step) ==
  f[0] = base /\ \A k \in 1 .. n : f[k] = step[k][f[parent[k]]]

LEMMA TreeRecursion ==
  ASSUME NEW V, NEW n \in Nat, NEW parent \in Parents(n),
         NEW base \in V, NEW step \in [1 .. n -> [V -> V]]
  PROVE  \E f \in [0 .. n -> V] : Follows(f, n, parent, base, step)
<1> USE DEF Parents
<1> DEFINE W == [0 .. n -> V]
           none == [j \in 0 .. n |-> base]
           set == [k \in 1 .. n |-> [g \in W |-> [g EXCEPT ![k] = step[k][g[parent[k]]]]]]
           Upto(g, k) == g[0] = base /\ \A j \in 1 .. k : g[j] = step[j][g[parent[j]]]
<1>1. none \in W
  OBVIOUS
<1>2. set \in [1 .. n -> [W -> W]]
  <2>1. ASSUME NEW k \in 1 .. n, NEW g \in W
        PROVE  [g EXCEPT ![k] = step[k][g[parent[k]]]] \in W
    <3>1. step[k] \in [V -> V] /\ g[parent[k]] \in V
      OBVIOUS
    <3>2. step[k][g[parent[k]]] \in V
      BY <3>1
    <3> QED BY <3>2
  <2> HIDE DEF W
  <2> QED BY <2>1
<1>3. PICK r \in [0 .. n -> W] : Iterates(r, n, none, set)
  <2> HIDE DEF W, none, set
  <2> QED BY <1>1, <1>2, Iteration
<1> DEFINE T == {k \in Nat : Upto(r[k], k)}
<1>4. 0 \in T
  BY <1>3 DEF Iterates
<1>5. ASSUME NEW k \in 0 .. n - 1, k \in T
      PROVE  k + 1 \in T
  <2> DEFINE g == r[k]  h == r[k + 1]
  <2>1. k + 1 \in 1 .. n /\ (k + 1) - 1 = k /\ k + 1 \in Nat /\ k \in 0 .. n
    OBVIOUS
  <2>2. g \in W
    BY <2>1
  <2>3. h = [g EXCEPT ![k + 1] = step[k + 1][g[parent[k + 1]]]]
    <3>1. h = set[k + 1][g]
      BY <1>3, <2>1 DEF Iterates
    <3> HIDE DEF g, h
    <3> QED BY <2>1, <2>2, <3>1
  <2>4. g[0] = base /\ \A j \in 1 .. k : g[j] = step[j][g[parent[j]]]
    BY <1>5
  <2> HIDE DEF g, h
  <2>5. h[0] = base /\ h[k + 1] = step[k + 1][g[parent[k + 1]]]
    BY <2>1, <2>2, <2>3, <2>4
  <2>6. \A j \in 0 .. k : h[j] = g[j]
    BY <2>1, <2>2, <2>3
  <2>7. ASSUME NEW j \in 1 .. k + 1
        PROVE  h[j] = step[j][h[parent[j]]]
    <3>1. j \in 1 .. n /\ parent[j] \in 0 .. k
      BY <2>1
    <3>2. h[parent[j]] = g[parent[j]]
      BY <2>6, <3>1
    <3>3. CASE j = k + 1
      BY <2>5, <3>2, <3>3
    <3>4. CASE j # k + 1
      <4>1. j \in 1 .. k /\ j \in 0 .. k
        BY <3>4
      <4> QED BY <2>4, <2>6, <3>2, <4>1
    <3> QED BY <3>3, <3>4
  <2> QED BY <2>1, <2>5, <2>7 DEF h
<1>6. n \in T
  <2>1. \A k \in 0 .. n : k \in T
    <3> HIDE DEF T
    <3> QED BY <1>4, <1>5, BoundedInduction
  <2> QED BY <2>1
<1>7. r[n] \in W
  OBVIOUS
<1> QED BY <1>6, <1>7 DEF Follows
=============================================================================
