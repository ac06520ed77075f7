----------------------------- MODULE Recursion -----------------------------
(***************************************************************************)
(* Induction on the naturals with a set in the place of the predicate, and *)
(* that a function defined by recursion over 0 .. N exists.                *)
(***************************************************************************)
EXTENDS Integers, WellFoundedInduction, TLAPS

\* A set of naturals that is not empty has a least element.
LEMMA LeastNat ==
  ASSUME NEW S \in SUBSET Nat, S # {}
  PROVE  \E n \in S : \A m \in S : n <= m
<1> DEFINE R == OpToRel(<, Nat)
<1>1. IsWellFoundedOn(R, Nat)
  BY NatLessThanWellFounded
<1>2. \A x, y \in Nat : x < y => <<x, y>> \in R
  BY DEF OpToRel
<1> HIDE DEF R
<1>3. \E x \in S : \A y \in S : <<y, x>> \notin R
  BY <1>1, WFMin
<1>4. PICK n \in S : \A m \in S : <<m, n>> \notin R
  BY <1>3
<1>5. \A m \in S : ~(m < n)
  BY <1>2, <1>4
<1> QED
  BY <1>5

\* A set with 0 and, with each of its elements below N, the next number, has all
\* the numbers up to N.
LEMMA UpTo ==
  ASSUME NEW N \in Nat, NEW S, 0 \in S,
         \A n \in 0 .. N - 1 : n \in S => n + 1 \in S
  PROVE  \A n \in 0 .. N : n \in S
<1> DEFINE Missing == {n \in 0 .. N : n \notin S}
<1> SUFFICES ASSUME Missing # {} PROVE FALSE
  OBVIOUS
<1>1. Missing \in SUBSET Nat
  OBVIOUS
<1>2. PICK n \in Missing : \A m \in Missing : n <= m
  <2> HIDE DEF Missing
  <2> QED
    BY <1>1, LeastNat
<1>3. n # 0 /\ n - 1 \in 0 .. N - 1 /\ ~(n <= n - 1)
  OBVIOUS
<1>4. n - 1 \in S
  BY <1>2, <1>3
<1>5. (n - 1) + 1 \in S
  BY <1>3, <1>4
<1> QED
  BY <1>5

\* f goes through the values of a recursion over 0 .. N: step[i] makes the i-th
\* from the one before.
Follows(f, N, V, base, step) ==
    f \in [0 .. N -> V] /\ f[0] = base /\ \A i \in 1 .. N : f[i] = step[i][f[i - 1]]

\* There is such a function.
LEMMA RecursiveFunction ==
  ASSUME NEW N \in Nat, NEW V, NEW base \in V, NEW step \in [1 .. N -> [V -> V]]
  PROVE  \E f : Follows(f, N, V, base, step)
<1> DEFINE S == {n \in 0 .. N : \E f : Follows(f, n, V, base, step)}
<1>1. 0 \in S
  <2> DEFINE f == [i \in 0 .. 0 |-> base]
  <2>1. f \in [0 .. 0 -> V]
    OBVIOUS
  <2>2. f[0] = base /\ 1 .. 0 = {}
    OBVIOUS
  <2>3. Follows(f, 0, V, base, step)
    BY <2>1, <2>2 DEF Follows
  <2> HIDE DEF f
  <2> QED
    BY <2>3
<1>2. ASSUME NEW n \in 0 .. N - 1, n \in S
      PROVE  n + 1 \in S
  <2>1. PICK f : Follows(f, n, V, base, step)
    BY <1>2
  <2>2. f \in [0 .. n -> V] /\ f[0] = base /\ \A i \in 1 .. n : f[i] = step[i][f[i - 1]]
    BY <2>1 DEF Follows
  <2> DEFINE g == [i \in 0 .. n + 1 |-> IF i = n + 1 THEN step[n + 1][f[n]] ELSE f[i]]
  <2>3. n + 1 \in 1 .. N /\ n \in 0 .. n
    OBVIOUS
  <2>4. step[n + 1][f[n]] \in V
    BY <2>2, <2>3
  <2>5. g \in [0 .. n + 1 -> V]
    BY <2>2, <2>4
  <2>6. g[0] = base
    BY <2>2
  <2>7. ASSUME NEW i \in 1 .. n + 1
        PROVE  g[i] = step[i][g[i - 1]]
    <3>1. CASE i = n + 1
      BY <3>1
    <3>2. CASE i \in 1 .. n
      BY <2>2, <3>2
    <3> QED
      BY <3>1, <3>2
  <2>8. Follows(g, n + 1, V, base, step)
    BY <2>5, <2>6, <2>7 DEF Follows
  <2>9. n + 1 \in 0 .. N
    OBVIOUS
  <2> HIDE DEF g
  <2> QED
    BY <2>8, <2>9
<1> HIDE DEF S
<1>3. \A n \in 0 .. N : n \in S
  BY <1>1, <1>2, UpTo
<1>4. N \in S
  BY <1>3
<1> QED
  BY <1>4 DEF S

\* g starts as f does and goes on as f does, as long as they agree.
Agrees(g, f, N) ==
    g[0] = f[0] /\ \A i \in 1 .. N : g[i - 1] = f[i - 1] => g[i] = f[i]

\* Then they never part.
LEMMA SameValues ==
  ASSUME NEW N \in Nat, NEW f, NEW g, Agrees(g, f, N)
  PROVE  \A k \in 0 .. N : g[k] = f[k]
<1> DEFINE S == {k \in 0 .. N : g[k] = f[k]}
<1>1. 0 \in S
  BY DEF Agrees
<1>2. ASSUME NEW k \in 0 .. N - 1, k \in S
      PROVE  k + 1 \in S
  <2>1. k + 1 \in 1 .. N /\ k + 1 \in 0 .. N /\ (k + 1) - 1 = k
    OBVIOUS
  <2>2. g[k] = f[k]
    BY <1>2
  <2>3. g[k + 1] = f[k + 1]
    BY <2>1, <2>2 DEF Agrees
  <2> QED
    BY <2>1, <2>3
<1> HIDE DEF S
<1>3. \A k \in 0 .. N : k \in S
  BY <1>1, <1>2, UpTo
<1> QED
  BY <1>3 DEF S

=============================================================================
