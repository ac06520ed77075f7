-------------------------- MODULE AIAdapterProofs --------------------------
(***************************************************************************)
(* The AI call: its inductive invariant, kept by each of its steps, and    *)
(* what follows from it for the bytes and the time that a call takes, and  *)
(* for what it says of how it ended.                                       *)
(***************************************************************************)
EXTENDS AIAdapter, Recursion

-----------------------------------------------------------------------------
(* The operators of the call. *)

\* A power of two is made by doubling (backoffDelay's shift).
LEMMA Pow2Steps ==
  ASSUME NEW m \in Nat
  PROVE  \E f \in [0 .. m -> (Nat \ {0})] :
            /\ f[0] = 1
            /\ \A i \in 1 .. m : f[i] = 2 * f[i - 1]
            /\ Pow2(m) = f[m]
<1> DEFINE n == m
           body(f) == [k \in 0 .. n |-> IF k = 0 THEN 1 ELSE 2 * f[k - 1]]
           made == CHOOSE f : f = body(f)
           step == [i \in 1 .. n |-> [v \in (Nat \ {0}) |-> 2 * v]]
<1>1. n \in Nat /\ 1 \in (Nat \ {0})
  OBVIOUS
<1>2. ASSUME NEW i \in 1 .. n, NEW v \in (Nat \ {0})
      PROVE  (2 * v) \in (Nat \ {0})
  OBVIOUS
<1>3. step \in [1 .. n -> [(Nat \ {0}) -> (Nat \ {0})]]
  BY <1>2
<1>4. ASSUME NEW i \in 1 .. n, NEW v \in (Nat \ {0})
      PROVE  step[i][v] = 2 * v
  OBVIOUS
<1> HIDE DEF step, n
<1>5. PICK f : Follows(f, n, (Nat \ {0}), 1, step)
  BY <1>1, <1>3, RecursiveFunction
<1>6. /\ f \in [0 .. n -> (Nat \ {0})] /\ f[0] = 1
      /\ \A i \in 1 .. n : f[i] = 2 * f[i - 1]
  <2>1. /\ f \in [0 .. n -> (Nat \ {0})] /\ f[0] = 1
        /\ \A i \in 1 .. n : f[i] = step[i][f[i - 1]]
    BY <1>5 DEF Follows
  <2>2. \A i \in 1 .. n : f[i - 1] \in (Nat \ {0})
    BY <1>1, <2>1
  <2> QED
    BY <1>4, <2>1, <2>2
<1>7. f = body(f)
  <2>1. f = [k \in 0 .. n |-> f[k]]
    BY <1>6
  <2>2. ASSUME NEW k \in 0 .. n
        PROVE  f[k] = IF k = 0 THEN 1 ELSE 2 * f[k - 1]
    <3>1. k = 0 \/ k \in 1 .. n
      BY <1>1
    <3> QED
      BY <1>6, <3>1
  <2> QED
    BY <2>1, <2>2
<1>8. made = body(made)
  BY <1>7
<1> HIDE DEF made
<1>9. Agrees(made, f, n)
  <2>1. made[0] = f[0]
    BY <1>1, <1>6, <1>8
  <2>2. ASSUME NEW i \in 1 .. n, made[i - 1] = f[i - 1]
        PROVE  made[i] = f[i]
    <3>1. i \in 0 .. n /\ i # 0
      BY <1>1
    <3>2. made[i] = 2 * made[i - 1]
      BY <1>8, <3>1
    <3> QED
      BY <1>6, <2>2, <3>2
  <2> QED
    BY <2>1, <2>2 DEF Agrees
<1>10. made[n] = f[n]
  <2>1. n \in Nat
    BY <1>1
  <2>2. \A k \in 0 .. n : made[k] = f[k]
    BY <1>9, <2>1, SameValues
  <2> QED
    BY <2>1, <2>2
<1>11. Pow2(m) = f[n]
  BY <1>10 DEF Pow2, made, n
<1> QED
  BY <1>6, <1>11 DEF n

\* So it is a number above zero.
LEMMA Pow2Type ==
  ASSUME NEW m \in Nat
  PROVE  Pow2(m) \in Nat \ {0}
<1>1. PICK f \in [0 .. m -> Nat \ {0}] : Pow2(m) = f[m]
  BY Pow2Steps
<1> QED
  BY <1>1

\* The next power is the double.
LEMMA Pow2Next ==
  ASSUME NEW m \in Nat
  PROVE  Pow2(m + 1) = 2 * Pow2(m)
<1>0. PICK n \in Nat : n = m + 1
  OBVIOUS
<1>1. PICK g \in [0 .. m -> Nat \ {0}] :
          g[0] = 1 /\ (\A i \in 1 .. m : g[i] = 2 * g[i - 1]) /\ Pow2(m) = g[m]
  BY Pow2Steps
<1>2. PICK f \in [0 .. n -> Nat \ {0}] :
          f[0] = 1 /\ (\A i \in 1 .. n : f[i] = 2 * f[i - 1]) /\ Pow2(n) = f[n]
  BY Pow2Steps
<1>3. Agrees(g, f, m)
  <2>1. \A i \in 1 .. m : i \in 1 .. n
    BY <1>0
  <2> QED
    BY <1>1, <1>2, <2>1 DEF Agrees
<1>4. g[m] = f[m]
  <2>1. \A k \in 0 .. m : g[k] = f[k]
    <3>1. m \in Nat
      OBVIOUS
    <3> QED
      BY <1>3, <3>1, SameValues, Z3
  <2> QED
    BY <2>1
<1>5. n \in 1 .. n /\ n - 1 = m
  BY <1>0
<1>6. f[n] = 2 * f[m]
  BY <1>2, <1>5
<1>7. Pow2(n) = 2 * Pow2(m)
  BY <1>1, <1>2, <1>4, <1>6
<1> QED
  BY <1>0, <1>7

\* One is the first, and from then on a power is at least two.
LEMMA Pow2Least ==
  Pow2(0) = 1 /\ \A m \in Nat \ {0} : Pow2(m) >= 2
<1>1. PICK f \in [0 .. 0 -> Nat \ {0}] : f[0] = 1 /\ Pow2(0) = f[0]
  BY Pow2Steps
<1>2. ASSUME NEW m \in Nat \ {0}
      PROVE  Pow2(m) >= 2
  <2>1. PICK k \in Nat : m = k + 1
    <3>1. m - 1 \in Nat /\ m = (m - 1) + 1
      OBVIOUS
    <3> QED
      BY <3>1
  <2>2. Pow2(k + 1) = 2 * Pow2(k) /\ Pow2(k) \in Nat /\ Pow2(k) >= 1
    BY Pow2Next, Pow2Type
  <2>3. Pow2(k + 1) >= 2
    BY <2>2
  <2> QED
    BY <2>1, <2>3
<1> QED
  BY <1>1, <1>2

\* Shifting twice is shifting by the sum.
LEMMA Pow2Sum ==
  ASSUME NEW a \in Nat, NEW b \in Nat
  PROVE  Pow2(a + b) = Pow2(a) * Pow2(b)
<1> DEFINE S == {k \in 0 .. b : Pow2(a + k) = Pow2(a) * Pow2(k)}
<1>1. Pow2(a) \in Nat
  BY Pow2Type
<1>2. 0 \in S
  <2>1. a + 0 = a /\ Pow2(0) = 1
    BY Pow2Least
  <2>2. Pow2(a + 0) = Pow2(a) * Pow2(0)
    BY <1>1, <2>1
  <2> QED
    BY <2>2
<1>3. ASSUME NEW k \in 0 .. b - 1, k \in S
      PROVE  k + 1 \in S
  <2>1. k \in Nat /\ a + k \in Nat /\ a + (k + 1) = (a + k) + 1
    OBVIOUS
  <2>2. Pow2(a + (k + 1)) = 2 * Pow2(a + k)
    <3>1. Pow2((a + k) + 1) = 2 * Pow2(a + k)
      BY <2>1, Pow2Next
    <3> QED
      BY <2>1, <3>1
  <2>3. Pow2(k + 1) = 2 * Pow2(k) /\ Pow2(k) \in Nat
    BY <2>1, Pow2Next, Pow2Type
  <2>4. Pow2(a + k) = Pow2(a) * Pow2(k)
    BY <1>3
  <2>5. Pow2(a) * (2 * Pow2(k)) = 2 * (Pow2(a) * Pow2(k))
    BY <1>1, <2>3
  <2>6. Pow2(a + (k + 1)) = Pow2(a) * Pow2(k + 1)
    BY <2>2, <2>3, <2>4, <2>5
  <2>7. k + 1 \in 0 .. b
    OBVIOUS
  <2> QED
    BY <2>6, <2>7
<1> HIDE DEF S
<1>4. \A k \in 0 .. b : k \in S
  BY <1>2, <1>3, UpTo
<1> QED
  BY <1>4 DEF S

\* Division leaves a remainder.
LEMMA Division ==
  ASSUME NEW m \in Nat \ {0}, NEW n \in Nat
  PROVE  \E q \in Nat, k \in 0 .. m - 1 : n = q * m + k
<1> DEFINE S == {i \in 0 .. n : \E q \in Nat, k \in 0 .. m - 1 : i = q * m + k}
<1>1. 0 \in S
  <2>1. 0 \in Nat /\ 0 \in 0 .. m - 1 /\ 0 = 0 * m + 0
    OBVIOUS
  <2> QED
    BY <2>1
<1>2. ASSUME NEW i \in 0 .. n - 1, i \in S
      PROVE  i + 1 \in S
  <2>1. PICK q \in Nat, k \in 0 .. m - 1 : i = q * m + k
    BY <1>2
  <2>2. \E r \in Nat, l \in 0 .. m - 1 : i + 1 = r * m + l
    <3>1. CASE k < m - 1
      <4>1. k + 1 \in 0 .. m - 1 /\ i + 1 = q * m + (k + 1)
        BY <2>1, <3>1
      <4> QED
        BY <4>1
    <3>2. CASE k = m - 1
      <4>1. q + 1 \in Nat /\ 0 \in 0 .. m - 1 /\ i + 1 = (q + 1) * m + 0
        BY <2>1, <3>2
      <4> QED
        BY <4>1
    <3> QED
      BY <3>1, <3>2
  <2>3. i + 1 \in 0 .. n
    OBVIOUS
  <2> QED
    BY <2>2, <2>3
<1> HIDE DEF S
<1>3. \A i \in 0 .. n : i \in S
  BY <1>1, <1>2, UpTo
<1> QED
  BY <1>3 DEF S

\* The remainder is what % computes.
LEMMA Remainder ==
  ASSUME NEW m \in Nat \ {0}, NEW q \in Int, NEW k \in 0 .. m - 1
  PROVE  (q * m + k) % m = k
OBVIOUS

\* Wrapping makes a number of a number.
LEMMA WrappedType ==
  ASSUME NEW n \in Int
  PROVE  Wrapped(n) \in Int
<1>1. Width - 1 \in Nat /\ Width \in Nat
  BY AdapterAssumption
<1>2. Pow2(Width - 1) \in Nat /\ Pow2(Width) \in Nat \ {0}
  BY <1>1, Pow2Type
<1> QED
  BY <1>2 DEF Wrapped

\* What fits the width stays as it is.
LEMMA WrappedFits ==
  ASSUME NEW n \in Nat
  PROVE  n < Pow2(Width - 1) => Wrapped(n) = n
<1> DEFINE H == Pow2(Width - 1)
           M == Pow2(Width)
<1>1. H \in Nat \ {0} /\ M = 2 * H
  <2>1. Width - 1 \in Nat /\ (Width - 1) + 1 = Width
    BY AdapterAssumption
  <2>2. Pow2((Width - 1) + 1) = 2 * Pow2(Width - 1)
    BY <2>1, Pow2Next
  <2> QED
    BY <2>1, <2>2, Pow2Type
<1>2. Wrapped(n) = ((n + H) % M) - H
  BY DEF Wrapped
<1> HIDE DEF H, M
<1>3. ASSUME n < H
      PROVE  (n + H) % M = n + H
  <2>1. n + H \in 0 .. M - 1 /\ n + H = 0 * M + (n + H) /\ M \in Nat \ {0}
    BY <1>1, <1>3
  <2> QED
    BY <2>1, Remainder
<1> QED
  BY <1>1, <1>2, <1>3 DEF H

\* A duration that was shifted by e bits is, wrapped or not, a multiple of 2^e.
LEMMA WrappedShift ==
  ASSUME NEW g \in Nat, NEW e \in Nat
  PROVE  \E j \in Int : Wrapped(g * Pow2(e)) = j * Pow2(e)
<1> DEFINE H == Pow2(Width - 1)
           M == Pow2(Width)
           p == Pow2(e)
<1>1. H \in Nat \ {0} /\ M = 2 * H /\ p \in Nat \ {0} /\ Width \in Nat \ {0}
  <2>1. Width - 1 \in Nat /\ (Width - 1) + 1 = Width /\ Width \in Nat \ {0}
    BY AdapterAssumption
  <2>2. Pow2((Width - 1) + 1) = 2 * Pow2(Width - 1)
    BY <2>1, Pow2Next
  <2> QED
    BY <2>1, <2>2, Pow2Type
<1>2. Wrapped(g * p) = ((g * p + H) % M) - H
  BY DEF Wrapped
<1>3. CASE e >= Width
  <2>1. PICK f \in Nat : e = Width + f
    <3>1. e - Width \in Nat /\ e = Width + (e - Width)
      BY <1>1, <1>3
    <3> QED
      BY <3>1
  <2>2. p = M * Pow2(f) /\ Pow2(f) \in Nat
    BY <1>1, <2>1, Pow2Sum, Pow2Type
  <2> DEFINE q == g * Pow2(f)
  <2>3. q \in Nat /\ g * p = q * M
    BY <1>1, <2>2
  <2> HIDE DEF q, H, M, p
  <2>4. M \in Nat \ {0} /\ H \in 0 .. M - 1
    BY <1>1
  <2>5. (q * M + H) % M = H
    BY <2>3, <2>4, Remainder
  <2>6. Wrapped(g * p) = 0 /\ 0 = 0 * p
    BY <1>1, <1>2, <2>3, <2>5
  <2> QED
    BY <2>6 DEF p
<1>4. CASE e < Width
  <2>1. PICK f \in Nat : Width - 1 = f + e
    <3>1. (Width - 1) - e \in Nat /\ Width - 1 = ((Width - 1) - e) + e
      BY <1>1, <1>4
    <3> QED
      BY <3>1
  <2>2. PICK h \in Nat \ {0} : H = h * p
    BY <2>1, Pow2Sum, Pow2Type
  <2>3. 2 * h \in Nat \ {0} /\ g + h \in Nat
    BY <2>2
  <2>4. PICK q \in Nat, k \in 0 .. 2 * h - 1 : g + h = q * (2 * h) + k
    BY <2>3, Division
  <2> HIDE DEF H, M, p
  <2>5. k * p \in 0 .. M - 1
    <3>1. k * p \in Nat /\ k * p <= (2 * h - 1) * p
      BY <1>1, <2>3, <2>4
    <3>2. (2 * h - 1) * p = 2 * (h * p) - p
      BY <1>1, <2>2
    <3> QED
      BY <1>1, <2>2, <3>1, <3>2
  <2>6. g * p + H = q * M + k * p
    <3>1. g * p + h * p = (g + h) * p
      BY <1>1, <2>2
    <3>2. (q * (2 * h) + k) * p = (q * (2 * h)) * p + k * p
      BY <1>1, <2>2, <2>4
    <3>3. (q * (2 * h)) * p = q * (2 * (h * p))
      BY <1>1, <2>2, <2>4
    <3> QED
      BY <1>1, <2>2, <2>4, <3>1, <3>2, <3>3
  <2>7. (q * M + k * p) % M = k * p
    BY <1>1, <2>4, <2>5, Remainder
  <2>8. k * p - h * p = (k - h) * p /\ k - h \in Int
    BY <1>1, <2>2, <2>4
  <2>9. Wrapped(g * p) = (k - h) * p
    BY <1>2, <2>2, <2>6, <2>7, <2>8
  <2> QED
    BY <2>8, <2>9 DEF p
<1> QED
  BY <1>1, <1>3, <1>4

\* A multiple above zero is at least the number itself.
LEMMA MultipleIsLarge ==
  ASSUME NEW p \in Nat \ {0}, NEW j \in Int, j * p > 0
  PROVE  j * p >= p
<1>1. j >= 1
  <2> SUFFICES ASSUME j <= 0
               PROVE  FALSE
    OBVIOUS
  <2>1. j * p <= 0
    OBVIOUS
  <2> QED
    BY <2>1
<1> QED
  BY <1>1

\* A configuration has a base that is a number of milliseconds.
LEMMA BaseIs ==
  ASSUME NEW c \in Configs
  PROVE  \E g \in Nat : c.base = g * Pow2(Grain) /\ c.base > 0
<1>1. c.base \in Nat \ {0}
  BY AdapterAssumption DEF Configs, NewAIAdapter
<1>2. Grain \in Nat /\ Pow2(Grain) \in Nat \ {0} /\ c.base % Pow2(Grain) = 0
  BY AdapterAssumption, WidthAssumption, Pow2Type
<1> DEFINE m == Pow2(Grain)
           b == c.base
<1> HIDE DEF m, b
<1>3. b \in Nat /\ m \in Nat \ {0} /\ b % m = 0
  BY <1>1, <1>2 DEF m, b
<1>4. PICK q \in Nat, k \in 0 .. m - 1 : b = q * m + k
  BY <1>3, Division
<1>5. k = 0
  BY <1>3, <1>4, Remainder
<1>6. b = q * m
  BY <1>3, <1>4, <1>5
<1> QED
  BY <1>1, <1>6 DEF m, b

\* A shift that overflows is too far for the wrapped value to be taken for a short
\* wait: what is left of it is zero, negative, or above the cap.
LEMMA OverflowShows ==
  ASSUME NEW g \in Nat, NEW s \in Nat, g * Pow2(Grain) <= MaxBackoff,
         g * Pow2(s + Grain) >= Pow2(Width - 1)
  PROVE  MaxBackoff < Pow2(s + Grain)
<1> DEFINE G == Pow2(Grain)
           H == Pow2(Width - 1)
           p == Pow2(s + Grain)
           cap == MaxBackoff
<1>1. G \in Nat \ {0} /\ H \in Nat \ {0} /\ p \in Nat \ {0} /\ cap \in Nat \ {0}
  <2>1. Grain \in Nat /\ Width - 1 \in Nat /\ s + Grain \in Nat
    BY AdapterAssumption
  <2> QED
    BY <2>1, Pow2Type, AdapterAssumption
<1>2. cap * cap < H * G
  <2>1. Pow2((Width - 1) + Grain) = H * G
    <3>1. Width - 1 \in Nat /\ Grain \in Nat
      BY AdapterAssumption
    <3> QED
      BY <3>1, Pow2Sum
  <2> QED
    BY <2>1, WidthAssumption
<1>3. g * G <= cap /\ g * p >= H
  OBVIOUS
<1> HIDE DEF G, H, p, cap
<1>4. H * G <= (g * p) * G
  BY <1>1, <1>3
<1>5. (g * p) * G = (g * G) * p
  BY <1>1
<1>6. (g * G) * p <= cap * p
  BY <1>1, <1>3
<1>7. cap * cap < cap * p
  <2>1. cap * cap \in Nat /\ H * G \in Nat /\ (g * p) * G \in Nat /\ (g * G) * p \in Nat /\ cap * p \in Nat
    BY <1>1
  <2> QED
    BY <1>2, <1>4, <1>5, <1>6, <2>1
<1>8. cap < p
  <2> SUFFICES ASSUME p <= cap
               PROVE  FALSE
    BY <1>1
  <2>1. cap * p <= cap * cap
    BY <1>1
  <2>2. cap * p \in Nat /\ cap * cap \in Nat
    BY <1>1
  <2> QED
    BY <1>7, <2>1, <2>2
<1> QED
  BY <1>8 DEF cap, p

\* Whatever is shifted by whatever number of bits, the backoff is a wait of at
\* least two units and of at most the cap; and where the base is within the cap it
\* is the base shifted, as if no bit were lost, or the cap (backoffDelay).
LEMMA BackoffBounds ==
  ASSUME NEW n \in Nat \ {0}, config \in Configs
  PROVE  /\ Backoff(n) \in 2 .. MaxBackoff
         /\ config.base <= MaxBackoff =>
                Backoff(n) = Lesser(config.base * Pow2(n - 1), MaxBackoff)
<1>1. PICK s \in Nat : n - 1 = s
  OBVIOUS
<1>2. PICK g \in Nat : config.base = g * Pow2(Grain) /\ config.base > 0
  BY BaseIs
<1> DEFINE p == Pow2(s + Grain)
           H == Pow2(Width - 1)
           x == config.base * Pow2(s)
           d == Wrapped(x)
           cap == MaxBackoff
<1>3. p \in Nat /\ p >= 2 /\ cap \in Nat /\ cap >= 2 /\ H \in Nat
  <2>1. s + Grain \in Nat \ {0} /\ Width - 1 \in Nat
    BY AdapterAssumption
  <2> QED
    BY <2>1, Pow2Least, Pow2Type, AdapterAssumption
<1>4. x = g * p
  <2>1. Grain \in Nat
    BY AdapterAssumption
  <2>2. Pow2(s + Grain) = Pow2(s) * Pow2(Grain) /\ Pow2(s) \in Nat /\ Pow2(Grain) \in Nat
    BY <2>1, Pow2Sum, Pow2Type
  <2>3. (g * Pow2(Grain)) * Pow2(s) = g * (Pow2(s) * Pow2(Grain))
    BY <2>2
  <2> QED
    BY <1>2, <2>2, <2>3
<1>5. Backoff(n) = IF d <= 0 \/ d > cap THEN cap ELSE d
  BY <1>1 DEF Backoff
<1>6. x \in Nat /\ x > 0 /\ d \in Int
  <2>1. Pow2(s) \in Nat \ {0} /\ config.base \in Nat \ {0}
    BY <1>2, Pow2Type, AdapterAssumption DEF Configs, NewAIAdapter
  <2>2. x \in Nat /\ x > 0
    BY <2>1
  <2> QED
    BY <2>2, WrappedType
<1>7. PICK j \in Int : d = j * p
  <2>1. s + Grain \in Nat
    BY AdapterAssumption
  <2>2. \E j \in Int : Wrapped(g * p) = j * p
    BY <2>1, WrappedShift
  <2> QED
    BY <1>4, <2>2
<1>8. config.base <= cap /\ x >= H => cap < p
  BY <1>2, <1>3, <1>4, OverflowShows
<1>9. x < H => d = x
  BY <1>6, WrappedFits
<1> HIDE DEF p, H, x, d, cap
<1>10. d > 0 => d >= p
  BY <1>3, <1>7, MultipleIsLarge
<1>11. Backoff(n) \in 2 .. cap
  BY <1>3, <1>5, <1>6, <1>10
<1>12. x >= p
  BY <1>3, <1>4, <1>6, MultipleIsLarge
<1>13. config.base <= cap => Backoff(n) = Lesser(x, cap)
  BY <1>3, <1>5, <1>6, <1>8, <1>9, <1>10, <1>12 DEF Lesser
<1>14. x = config.base * Pow2(n - 1)
  BY <1>1 DEF x
<1> QED
  BY <1>11, <1>13, <1>14 DEF cap

\* The total is what adding up the sizes one by one comes to (remaining).
LEMMA TotalSteps ==
  ASSUME NEW sizes \in Seq(Nat)
  PROVE  \E f \in [0 .. Len(sizes) -> Nat] :
            /\ f[0] = 0
            /\ \A i \in 1 .. Len(sizes) : f[i] = f[i - 1] + sizes[i]
            /\ Total(sizes) = f[Len(sizes)]
<1> DEFINE n == Len(sizes)
           body(f) == [k \in 0 .. n |-> IF k = 0 THEN 0 ELSE f[k - 1] + sizes[k]]
           made == CHOOSE f : f = body(f)
           step == [i \in 1 .. n |-> [v \in Nat |-> v + sizes[i]]]
<1>1. n \in Nat /\ 0 \in Nat /\ \A i \in 1 .. n : sizes[i] \in Nat
  OBVIOUS
<1>2. ASSUME NEW i \in 1 .. n, NEW v \in Nat
      PROVE  (v + sizes[i]) \in Nat
  BY <1>1
<1>3. step \in [1 .. n -> [Nat -> Nat]]
  BY <1>2
<1>4. ASSUME NEW i \in 1 .. n, NEW v \in Nat
      PROVE  step[i][v] = v + sizes[i]
  OBVIOUS
<1> HIDE DEF step, n
<1>5. PICK f : Follows(f, n, Nat, 0, step)
  BY <1>1, <1>3, RecursiveFunction
<1>6. /\ f \in [0 .. n -> Nat] /\ f[0] = 0
      /\ \A i \in 1 .. n : f[i] = f[i - 1] + sizes[i]
  <2>1. /\ f \in [0 .. n -> Nat] /\ f[0] = 0
        /\ \A i \in 1 .. n : f[i] = step[i][f[i - 1]]
    BY <1>5 DEF Follows
  <2>2. \A i \in 1 .. n : f[i - 1] \in Nat
    BY <1>1, <2>1
  <2> QED
    BY <1>4, <2>1, <2>2
<1>7. f = body(f)
  <2>1. f = [k \in 0 .. n |-> f[k]]
    BY <1>6
  <2>2. ASSUME NEW k \in 0 .. n
        PROVE  f[k] = IF k = 0 THEN 0 ELSE f[k - 1] + sizes[k]
    <3>1. k = 0 \/ k \in 1 .. n
      BY <1>1
    <3> QED
      BY <1>6, <3>1
  <2> QED
    BY <2>1, <2>2
<1>8. made = body(made)
  BY <1>7
<1> HIDE DEF made
<1>9. Agrees(made, f, n)
  <2>1. made[0] = f[0]
    BY <1>1, <1>6, <1>8
  <2>2. ASSUME NEW i \in 1 .. n, made[i - 1] = f[i - 1]
        PROVE  made[i] = f[i]
    <3>1. i \in 0 .. n /\ i # 0
      BY <1>1
    <3>2. made[i] = made[i - 1] + sizes[i]
      BY <1>8, <3>1
    <3> QED
      BY <1>6, <2>2, <3>2
  <2> QED
    BY <2>1, <2>2 DEF Agrees
<1>10. made[n] = f[n]
  <2>1. n \in Nat
    BY <1>1
  <2>2. \A k \in 0 .. n : made[k] = f[k]
    BY <1>9, <2>1, SameValues
  <2> QED
    BY <2>1, <2>2
<1>11. Total(sizes) = f[n]
  BY <1>10 DEF Total, made, n
<1> QED
  BY <1>6, <1>11 DEF n

\* The total is a number.
LEMMA TotalType ==
  ASSUME NEW sizes \in Seq(Nat)
  PROVE  Total(sizes) \in Nat
<1>1. PICK f \in [0 .. Len(sizes) -> Nat] : Total(sizes) = f[Len(sizes)]
  BY TotalSteps
<1>2. Len(sizes) \in 0 .. Len(sizes)
  OBVIOUS
<1> QED
  BY <1>1, <1>2

\* One more file adds its bytes to the total.
LEMMA TotalAppend ==
  ASSUME NEW sizes \in Seq(Nat), NEW n \in Nat
  PROVE  Total(Append(sizes, n)) = Total(sizes) + n
<1> DEFINE N == Len(sizes)
           longer == Append(sizes, n)
<1>1. PICK f \in [0 .. N -> Nat] :
          /\ f[0] = 0
          /\ \A i \in 1 .. N : f[i] = f[i - 1] + sizes[i]
          /\ Total(sizes) = f[N]
  BY TotalSteps
<1>2. /\ longer \in Seq(Nat)
      /\ Len(longer) = N + 1
      /\ \A i \in 1 .. N : longer[i] = sizes[i]
      /\ longer[N + 1] = n
      /\ N \in Nat
  OBVIOUS
<1> HIDE DEF longer, N
<1>3. PICK g \in [0 .. N + 1 -> Nat] :
          /\ g[0] = 0
          /\ \A i \in 1 .. N + 1 : g[i] = g[i - 1] + longer[i]
          /\ Total(longer) = g[N + 1]
  BY <1>2, TotalSteps
<1> DEFINE Good == {k \in 0 .. N : f[k] = g[k]}
<1>4. 0 \in Good
  BY <1>1, <1>2, <1>3
<1>5. ASSUME NEW k \in 0 .. N - 1, k \in Good
      PROVE  k + 1 \in Good
  <2>1. k + 1 \in 1 .. N /\ k + 1 \in 1 .. N + 1 /\ (k + 1) - 1 = k
    BY <1>2
  <2>2. f[k + 1] = f[k] + sizes[k + 1] /\ g[k + 1] = g[k] + sizes[k + 1]
    BY <1>1, <1>2, <1>3, <2>1
  <2>3. f[k] = g[k]
    BY <1>5
  <2>4. f[k + 1] = g[k + 1]
    BY <2>2, <2>3
  <2>5. k + 1 \in 0 .. N
    BY <1>2
  <2> QED
    BY <2>4, <2>5
<1> HIDE DEF Good
<1>6. \A k \in 0 .. N : k \in Good
  BY <1>2, <1>4, <1>5, UpTo
<1>7. f[N] = g[N]
  BY <1>2, <1>6 DEF Good
<1>8. N + 1 \in 1 .. N + 1 /\ (N + 1) - 1 = N
  BY <1>2
<1>9. g[N + 1] = g[N] + n
  BY <1>2, <1>3, <1>8
<1>10. Total(longer) = Total(sizes) + n
  BY <1>1, <1>3, <1>7, <1>9
<1> QED
  BY <1>10 DEF longer

\* No file, no byte.
LEMMA TotalEmpty == Total(<<>>) = 0
<1>1. <<>> \in Seq(Nat) /\ Len(<<>>) = 0
  OBVIOUS
<1>2. PICK f \in [0 .. 0 -> Nat] : f[0] = 0 /\ Total(<<>>) = f[0]
  BY <1>1, TotalSteps
<1> QED
  BY <1>2

-----------------------------------------------------------------------------
(* The inductive invariant of the call. *)

\* The longest that a attempts and b backoffs may have taken.
Spent(c, a, b) == a * (c.timeout + Late) + b * (MaxBackoff + Late)

\* Where the list of attachments stands.
ItemsLeft ==
    /\ callPc = "download" => items # <<>>
    /\ callPc \notin {"media", "download"} => items = <<>>

\* What was forwarded has been taken from the room that there was.
RoomIsLeft ==
    /\ Total(forwarded) + room = MaxAttachmentsTotal
    /\ \A k \in DOMAIN forwarded : forwarded[k] <= MaxAttachment

\* The downloads keep to their budget.
MediaClock ==
    /\ callPc \in {"media", "download"} => budget <= TimeFactor * MaxDownload
    /\ callPc = "media" => now <= budget + Late
    /\ callPc = "download" => due <= budget /\ now <= due + Late

\* Each attempt and each backoff is over when its time is.
AttemptClock ==
    HasCeiling =>
        /\ callPc = "attempt" => now <= Spent(config, attempt, attempt)
        /\ callPc \in {"request", "body"} =>
              /\ due <= Spent(config, attempt, attempt) + config.timeout
              /\ now <= due + Late
        /\ callPc = "backoff" =>
              /\ attempt > 0
              /\ due <= Spent(config, attempt, attempt - 1) + MaxBackoff
              /\ now <= due + Late
        /\ callPc = "done" => now <= Spent(config, config.retries + 1, config.retries)

\* The ceiling is in place before the first attempt.
CeilingIsSet ==
    callPc \in {"attempt", "request", "body", "backoff"} => ceiling = Ceiling(config)

\* There is no outcome before the call returns.
NoOutcomeYet == callPc # "done" => outcome = "none"

\* The inductive invariant of a call.
CallInv ==
    /\ CallTypeOK
    /\ NoOutcomeYet
    /\ ItemsLeft
    /\ RoomIsLeft
    /\ MediaClock
    /\ AttemptClock
    /\ CeilingIsSet
    /\ OutcomeIsTrue

-----------------------------------------------------------------------------
(* Arithmetic of the time limits. *)

\* The adapter's fields have sensible values (NewAIAdapter).
LEMMA ConfigTyped ==
  ASSUME NEW c \in Configs
  PROVE  /\ c.timeout \in Int /\ c.retries \in Nat /\ c.base \in Nat \ {0}
         /\ c.timeout > 0 => Late < c.timeout /\ (2 * c.retries + 1) * Late < c.timeout
<1> USE AdapterAssumption
<1>1. PICK t \in TimeoutSettings, r \in RetrySettings, b \in BaseSettings :
          c = NewAIAdapter(t, r, b)
  BY DEF Configs
<1>2. c.timeout = t /\ c.retries = (IF r < 0 THEN 0 ELSE r)
      /\ c.base = (IF b <= 0 THEN DefaultBase ELSE b)
  BY <1>1 DEF NewAIAdapter
<1>3. t \in Int /\ r \in Int /\ b \in Int /\ Late \in Nat
  OBVIOUS
<1>4. CASE r > 0
  BY <1>2, <1>3, <1>4
<1>5. CASE ~(r > 0)
  <2>1. c.retries = 0
    BY <1>2, <1>3, <1>5
  <2> QED
    BY <1>2, <1>3, <2>1
<1> QED
  BY <1>3, <1>4, <1>5

\* An attempt takes its timeout, a backoff its cap, each and the lateness of a timer.
LEMMA SpentSteps ==
  ASSUME NEW c \in Configs, c.timeout > 0, NEW a \in Nat, NEW b \in Nat
  PROVE  /\ Spent(c, a, b) \in Nat
         /\ Spent(c, a + 1, b) = Spent(c, a, b) + c.timeout + Late
         /\ Spent(c, a, b + 1) = Spent(c, a, b) + MaxBackoff + Late
<1> DEFINE T == c.timeout + Late
           B == MaxBackoff + Late
<1>1. c.timeout \in Nat /\ Late \in Nat /\ MaxBackoff \in Nat /\ T \in Nat /\ B \in Nat
  BY ConfigTyped, AdapterAssumption
<1> HIDE DEF T, B
<1>2. a * T \in Nat /\ b * B \in Nat /\ (a + 1) * T = a * T + T /\ (b + 1) * B = b * B + B
  BY <1>1
<1>3. Spent(c, a, b) = a * T + b * B /\ Spent(c, a + 1, b) = (a + 1) * T + b * B
      /\ Spent(c, a, b + 1) = a * T + (b + 1) * B
  BY DEF Spent, T, B
<1> QED
  BY <1>1, <1>2, <1>3 DEF T, B

\* More attempts and backoffs take longer.
LEMMA SpentGrows ==
  ASSUME NEW c \in Configs, c.timeout > 0,
         NEW a \in Nat, NEW b \in Nat, NEW r \in Nat, NEW s \in Nat, a <= r, b <= s
  PROVE  Spent(c, a, b) <= Spent(c, r, s)
<1> DEFINE T == c.timeout + Late
           B == MaxBackoff + Late
<1>1. T \in Nat /\ B \in Nat
  BY ConfigTyped, AdapterAssumption
<1> HIDE DEF T, B
<1>2. a * T <= r * T /\ b * B <= s * B
      /\ {a * T, r * T, b * B, s * B} \subseteq Nat
  <2>1. (r - a) * T \in Nat /\ r * T = a * T + (r - a) * T
    BY <1>1
  <2>2. (s - b) * B \in Nat /\ s * B = b * B + (s - b) * B
    BY <1>1
  <2>3. a * T \in Nat /\ b * B \in Nat
    BY <1>1
  <2> QED
    BY <2>1, <2>2, <2>3
<1>3. Spent(c, a, b) = a * T + b * B /\ Spent(c, r, s) = r * T + s * B
  BY DEF Spent, T, B
<1> QED
  BY <1>2, <1>3

\* The slack of one attempt is more than all timers together may be late: all
\* attempts and backoffs end before the ceiling (overallTimeout in Call).
LEMMA SpentBelowCeiling ==
  ASSUME NEW c \in Configs, c.timeout > 0
  PROVE  /\ Ceiling(c) \in Nat
         /\ Spent(c, c.retries + 1, c.retries) < Ceiling(c)
<1> DEFINE r == c.retries
           t == c.timeout
<1>1. t \in Nat /\ r \in Nat /\ MaxBackoff \in Nat /\ Late \in Nat /\ (2 * r + 1) * Late < t
  BY ConfigTyped, AdapterAssumption
<1>2. Spent(c, r + 1, r) = (r + 1) * (t + Late) + r * (MaxBackoff + Late)
  BY DEF Spent
<1>3. Ceiling(c) = (r + 2) * t + r * MaxBackoff
  <2>1. (r + 2) * t + r * MaxBackoff \in Nat
    BY <1>1
  <2>2. (r + 2) * t + r * MaxBackoff < Pow2(Width - 1)
    BY WidthAssumption
  <2> QED
    BY <2>1, <2>2, WrappedFits DEF Ceiling
<1> HIDE DEF r, t
<1>4. r * t \in Nat /\ r * MaxBackoff \in Nat /\ r * Late \in Nat
  BY <1>1
<1>5. (r + 2) * t = r * t + 2 * t /\ (r + 1) * (t + Late) = r * t + r * Late + t + Late
      /\ r * (MaxBackoff + Late) = r * MaxBackoff + r * Late
      /\ (2 * r + 1) * Late = 2 * (r * Late) + Late
  BY <1>1
<1> QED
  BY <1>1, <1>2, <1>3, <1>4, <1>5 DEF r, t

-----------------------------------------------------------------------------
(* The steps of the call. *)

\* What the call leaves alone once it has begun: the adapter, the time budget and
\* whether the context is done.
LEMMA CallStepFrame ==
  ASSUME CallStep
  PROVE  UNCHANGED <<config, budget, cancelled>>
BY DEF CallStep, SkipItem, StopMedia, StartDownload, EndDownload, Send, RequestFails,
       Responds, Decode, EndBackoff

\* The call starts within its invariant.
LEMMA InitCallInv ==
  ASSUME CallInit
  PROVE  CallInv
<1> USE AdapterAssumption
<1>1. PICK c \in Configs, atts \in BoundedSeq(Urls, MaxItems) : StartCall(c, atts)
  BY DEF CallInit
<1>2. config \in Configs /\ config.retries \in Nat
  BY <1>1, ConfigTyped DEF StartCall
<1>3. items \in Seq(Urls) /\ Len(items) <= MaxItems
  BY <1>1 DEF StartCall, BoundedSeq, SeqOf
<1>4. AttachmentTimeout(config) \in 0 .. MaxDownload
  BY <1>2, ConfigTyped DEF AttachmentTimeout
<1>5. budget \in Nat /\ budget <= TimeFactor * MaxDownload
  <2>1. budget = TimeFactor * AttachmentTimeout(config)
    BY <1>1 DEF StartCall
  <2> DEFINE a == AttachmentTimeout(config)
  <2> HIDE DEF a
  <2>2. TimeFactor * a \in Nat /\ TimeFactor * a <= TimeFactor * MaxDownload
    BY <1>4 DEF a
  <2> QED
    BY <2>1, <2>2 DEF a
<1>6. CallTypeOK
  <2>1. /\ room = MaxAttachmentsTotal /\ forwarded = <<>> /\ callPc = "media"
        /\ now = 0 /\ ceiling = 0 /\ due = 0 /\ attempt = 0
        /\ answered = FALSE /\ outcome = "none"
    BY DEF CallInit
  <2>2. room \in 0 .. MaxAttachmentsTotal /\ forwarded \in Seq(Nat)
    BY <2>1
  <2>3. {now, budget, due} \subseteq Nat /\ ceiling \in Int /\ attempt \in 0 .. config.retries
    BY <1>2, <1>5, <2>1
  <2> QED
    BY <1>2, <1>3, <2>1, <2>2, <2>3 DEF CallTypeOK, CallPcs, Waits, Outcomes
<1>7. RoomIsLeft
  <2>1. Total(forwarded) = 0 /\ DOMAIN forwarded = {}
    BY TotalEmpty DEF CallInit
  <2> QED
    BY <2>1 DEF CallInit, RoomIsLeft
<1>8. NoOutcomeYet /\ ItemsLeft /\ MediaClock /\ AttemptClock /\ CeilingIsSet /\ OutcomeIsTrue
  BY <1>5 DEF CallInit, NoOutcomeYet, ItemsLeft, MediaClock, AttemptClock, CeilingIsSet,
              OutcomeIsTrue
<1> QED
  BY <1>6, <1>7, <1>8 DEF CallInv

\* What the invariant says of the numbers, in a form the steps can use.
LEMMA CallTypes ==
  ASSUME CallInv
  PROVE  /\ config \in Configs /\ config.timeout \in Int /\ config.retries \in Nat
         /\ items \in Seq(Urls) /\ Len(items) <= MaxItems
         /\ room \in 0 .. MaxAttachmentsTotal /\ forwarded \in Seq(Nat)
         /\ now \in Nat /\ budget \in Nat /\ ceiling \in Int /\ due \in Nat
         /\ attempt \in Nat /\ attempt <= config.retries
         /\ Late \in Nat /\ MaxBackoff \in Nat \ {0}
BY ConfigTyped, AdapterAssumption DEF CallInv, CallTypeOK

\* Passing an attachment over (continue in buildFileParts).
LEMMA SkipItemInv ==
  ASSUME CallInv, SkipItem
  PROVE  CallInv'
<1> USE DEF SkipItem
<1>1. items' \in Seq(Urls) /\ Len(items') <= MaxItems
  BY CallTypes, AdapterAssumption
<1>2. CallTypeOK'
  BY <1>1 DEF CallInv, CallTypeOK
<1>3. AttemptClock'
  BY DEF CallInv, AttemptClock, HasCeiling
<1>4. NoOutcomeYet' /\ ItemsLeft' /\ RoomIsLeft' /\ MediaClock' /\ CeilingIsSet' /\ OutcomeIsTrue'
  BY DEF CallInv, NoOutcomeYet, ItemsLeft, RoomIsLeft, MediaClock, CeilingIsSet,
         OutcomeIsTrue, HasCeiling
<1> QED
  BY <1>2, <1>3, <1>4 DEF CallInv

\* The attempts begin with a clock at zero and a ceiling in the future.
LEMMA StopMediaInv ==
  ASSUME CallInv, StopMedia
  PROVE  CallInv'
<1> USE DEF StopMedia
<1>1. Ceiling(config) \in Int
  <2>1. (config.retries + 2) * config.timeout + config.retries * MaxBackoff \in Int
    BY CallTypes
  <2> HIDE DEF StopMedia
  <2> QED
    BY <2>1, WrappedType DEF Ceiling
<1>2. items' \in Seq(Urls) /\ Len(items') <= MaxItems
  BY AdapterAssumption
<1>3. CallTypeOK'
  BY <1>1, <1>2, CallTypes DEF CallInv, CallTypeOK, CallPcs
<1>4. AttemptClock'
  <2> SUFFICES ASSUME HasCeiling
               PROVE  0 <= Spent(config, attempt, attempt)
    BY DEF AttemptClock, HasCeiling
  <2> QED
    BY CallTypes, SpentSteps DEF HasCeiling
<1>5. NoOutcomeYet' /\ ItemsLeft' /\ RoomIsLeft' /\ MediaClock' /\ CeilingIsSet' /\ OutcomeIsTrue'
  BY DEF CallInv, NoOutcomeYet, ItemsLeft, RoomIsLeft, MediaClock, CeilingIsSet,
         OutcomeIsTrue, HasCeiling
<1> QED
  BY <1>3, <1>4, <1>5 DEF CallInv

\* A download is given no more time than there is left of the budget
\* (context.WithTimeout(budgetCtx, ...) in downloadAttachment).
LEMMA StartDownloadInv ==
  ASSUME CallInv, StartDownload
  PROVE  CallInv'
<1> USE DEF StartDownload
<1>1. due' \in Nat /\ due' <= budget /\ now <= due' + Late
  <2>1. AttachmentTimeout(config) \in Nat
    BY CallTypes, AdapterAssumption DEF AttachmentTimeout
  <2>2. now < budget + Late
    BY CallTypes DEF BudgetMayRemain, MustHaveFired
  <2>3. PICK t \in Nat : t = AttachmentTimeout(config)
    BY <2>1
  <2>4. due' = IF now + t < budget THEN now + t ELSE budget
    BY <2>3 DEF DownloadDeadline, Lesser
  <2>5. now \in Nat /\ budget \in Nat /\ Late \in Nat
    BY CallTypes
  <2> QED
    BY <2>2, <2>4, <2>5
<1>2. CallTypeOK'
  BY <1>1 DEF CallInv, CallTypeOK, CallPcs, Waits
<1>3. MediaClock'
  BY <1>1 DEF CallInv, MediaClock
<1>4. NoOutcomeYet' /\ ItemsLeft' /\ RoomIsLeft' /\ AttemptClock' /\ CeilingIsSet' /\ OutcomeIsTrue'
  BY DEF CallInv, NoOutcomeYet, ItemsLeft, RoomIsLeft, AttemptClock, CeilingIsSet,
         OutcomeIsTrue, HasCeiling
<1> QED
  BY <1>2, <1>3, <1>4 DEF CallInv

\* What is forwarded is taken from the room, and is no larger than the limit
\* (remaining in buildFileParts).
LEMMA EndDownloadInv ==
  ASSUME CallInv, EndDownload
  PROVE  CallInv'
<1> USE DEF EndDownload
<1>1. items' \in Seq(Urls) /\ Len(items') <= MaxItems
  <2>1. items # <<>>
    BY DEF CallInv, ItemsLeft
  <2>2. items \in Seq(Urls) /\ Len(items) <= MaxItems /\ MaxItems \in Nat
    BY CallTypes, AdapterAssumption
  <2>3. Tail(items) \in Seq(Urls) /\ Len(Tail(items)) = Len(items) - 1 /\ Len(items) \in Nat
    BY <2>1, <2>2
  <2> QED
    BY <2>2, <2>3
<1>2. RoomIsLeft' /\ room' \in 0 .. MaxAttachmentsTotal /\ forwarded' \in Seq(Nat)
  <2>1. CASE PassOver
    BY <2>1, CallTypes DEF CallInv, RoomIsLeft, PassOver
  <2>2. CASE \E n \in Sizes : Forward(n)
    <3>1. PICK n \in Sizes : Forward(n)
      BY <2>2
    <3>2. n \in Nat /\ MaxAttachment \in Nat /\ MaxAttachmentsTotal \in Nat
      BY AdapterAssumption
    <3>3. n <= room /\ n <= MaxAttachment /\ room' = room - n /\ forwarded' = Append(forwarded, n)
      <4>1. room \in Nat /\ n <= Limit /\ room' = room - n /\ forwarded' = Append(forwarded, n)
        BY <3>1, CallTypes DEF Forward
      <4>2. Limit \in {room, MaxAttachment} /\ Limit <= room /\ Limit <= MaxAttachment
        BY <3>2, <4>1 DEF Limit, Lesser
      <4> QED
        BY <3>2, <4>1, <4>2
    <3>4. forwarded' \in Seq(Nat) /\ room' \in 0 .. MaxAttachmentsTotal
      <4>1. forwarded \in Seq(Nat) /\ room \in 0 .. MaxAttachmentsTotal
        BY CallTypes
      <4>2. forwarded' \in Seq(Nat)
        BY <3>2, <3>3, <4>1
      <4>3. room' \in 0 .. MaxAttachmentsTotal
        BY <3>2, <3>3, <4>1
      <4> QED
        BY <4>2, <4>3
    <3>5. Total(forwarded) + room = MaxAttachmentsTotal
          /\ \A k \in DOMAIN forwarded : forwarded[k] <= MaxAttachment
      BY DEF CallInv, RoomIsLeft
    <3>6. \A k \in DOMAIN forwarded' : forwarded'[k] <= MaxAttachment
      <4>1. forwarded \in Seq(Nat)
        BY CallTypes
      <4>2. \A k \in DOMAIN forwarded' : k \in DOMAIN forwarded \/ k = Len(forwarded) + 1
        BY <3>2, <3>3, <4>1
      <4>3. \A k \in DOMAIN forwarded : forwarded'[k] = forwarded[k]
        BY <3>2, <3>3, <4>1
      <4>4. forwarded'[Len(forwarded) + 1] = n
        BY <3>2, <3>3, <4>1
      <4> QED
        BY <3>3, <3>5, <4>2, <4>3, <4>4
    <3>7. Total(forwarded') = Total(forwarded) + n
      BY <3>2, <3>3, CallTypes, TotalAppend
    <3>8. Total(forwarded) \in Nat
      BY CallTypes, TotalType
    <3>9. Total(forwarded') + room' = MaxAttachmentsTotal
      BY <3>2, <3>3, <3>5, <3>7, <3>8, CallTypes
    <3> QED
      BY <3>4, <3>6, <3>9 DEF RoomIsLeft
  <2> QED
    BY <2>1, <2>2
<1>3. CallTypeOK'
  BY <1>1, <1>2 DEF CallInv, CallTypeOK, CallPcs
<1>4. MediaClock'
  BY CallTypes DEF CallInv, MediaClock
<1>5. NoOutcomeYet' /\ ItemsLeft' /\ AttemptClock' /\ CeilingIsSet' /\ OutcomeIsTrue'
  BY DEF CallInv, NoOutcomeYet, ItemsLeft, AttemptClock, CeilingIsSet, OutcomeIsTrue, HasCeiling
<1> QED
  BY <1>2, <1>3, <1>4, <1>5 DEF CallInv

\* The attempts and backoffs so far took no longer than their worst case.
LEMMA ClockBounded ==
  ASSUME CallInv, HasCeiling, callPc \notin {"media", "download"}
  PROVE  now <= Spent(config, config.retries + 1, config.retries)
<1> DEFINE A == attempt
           R == config.retries
           S(a, b) == Spent(config, a, b)
<1>1. /\ config \in Configs /\ config.timeout > 0 /\ A \in Nat /\ R \in Nat /\ A <= R
      /\ config.timeout \in Int /\ Late \in Nat /\ MaxBackoff \in Nat
      /\ now \in Nat /\ due \in Nat
  BY CallTypes DEF HasCeiling
<1>2. S(A, A) <= S(R + 1, R) /\ S(A + 1, A) <= S(R + 1, R)
  BY <1>1, SpentGrows
<1>3. S(A, A) \in Nat /\ S(A + 1, A) \in Nat /\ S(R + 1, R) \in Nat
  <2>1. A + 1 \in Nat /\ R + 1 \in Nat
    BY <1>1
  <2>2. \A a, b \in Nat : S(a, b) \in Nat
    BY <1>1, SpentSteps
  <2> QED
    BY <1>1, <2>1, <2>2
<1>4. AttemptClock
  BY DEF CallInv
<1>5. CASE callPc = "attempt"
  <2>1. now <= S(A, A)
    BY <1>4, <1>5 DEF AttemptClock
  <2> HIDE DEF S
  <2> QED
    BY <1>1, <1>2, <1>3, <2>1 DEF S
<1>6. CASE callPc \in {"request", "body"}
  <2>1. due <= S(A, A) + config.timeout /\ now <= due + Late
    BY <1>4, <1>6 DEF AttemptClock
  <2>2. S(A + 1, A) = S(A, A) + config.timeout + Late
    BY <1>1, SpentSteps
  <2> QED
    BY <1>1, <1>2, <1>3, <2>1, <2>2
<1>7. CASE callPc = "backoff"
  <2>1. A > 0 /\ due <= S(A, A - 1) + MaxBackoff /\ now <= due + Late
    BY <1>4, <1>7 DEF AttemptClock
  <2>2. A - 1 \in Nat /\ (A - 1) + 1 = A
    BY <1>1, <2>1
  <2>3. S(A, A) = S(A, A - 1) + MaxBackoff + Late /\ S(A, A - 1) \in Nat
    <3>1. /\ S(A, A - 1) \in Nat
          /\ S(A, (A - 1) + 1) = S(A, A - 1) + MaxBackoff + Late
      BY <1>1, <2>2, SpentSteps
    <3> QED
      BY <2>2, <3>1
  <2> QED
    BY <1>1, <1>2, <1>3, <2>1, <2>3
<1>8. CASE callPc = "done"
  BY <1>4, <1>8 DEF AttemptClock
<1> QED
  BY <1>5, <1>6, <1>7, <1>8 DEF CallInv, CallTypeOK, CallPcs, Waits

\* The ceiling over all attempts is never reached, nor is it ever the deadline
\* of an attempt (the comment on overallTimeout in Call).
LEMMA BeforeCeiling ==
  ASSUME CallInv, HasCeiling, callPc \in {"attempt", "request", "body", "backoff"}
  PROVE  now < ceiling /\ (callPc \in {"request", "body"} => due < ceiling)
<1> DEFINE A == attempt
           R == config.retries
           S(a, b) == Spent(config, a, b)
<1>1. /\ config \in Configs /\ config.timeout > 0 /\ A \in Nat /\ R \in Nat /\ A <= R
      /\ config.timeout \in Int /\ Late \in Nat /\ now \in Nat /\ due \in Nat
  BY CallTypes DEF HasCeiling
<1>2. ceiling = Ceiling(config) /\ ceiling \in Nat /\ S(R + 1, R) < ceiling
  BY <1>1, SpentBelowCeiling DEF CallInv, CeilingIsSet
<1>3. S(R + 1, R) \in Nat /\ S(A, A) \in Nat
  <2>1. R + 1 \in Nat
    BY <1>1
  <2>2. \A a, b \in Nat : S(a, b) \in Nat
    BY <1>1, SpentSteps
  <2> QED
    BY <1>1, <2>1, <2>2
<1>4. now < ceiling
  BY <1>1, <1>2, <1>3, ClockBounded
<1>5. ASSUME callPc \in {"request", "body"}
      PROVE  due < ceiling
  <2>1. due <= S(A, A) + config.timeout
    BY <1>5 DEF CallInv, AttemptClock
  <2>2. S(A + 1, A) = S(A, A) + config.timeout + Late
    BY <1>1, SpentSteps
  <2>3. S(A + 1, A) <= S(R + 1, R)
    <3>1. A + 1 \in Nat /\ R + 1 \in Nat /\ A + 1 <= R + 1
      BY <1>1
    <3> QED
      BY <1>1, <3>1, SpentGrows
  <2> QED
    BY <1>1, <1>2, <1>3, <2>1, <2>2, <2>3
<1> QED
  BY <1>4, <1>5

\* Only a cancel ends the context of the call.
LEMMA OverMeansCancelled ==
  ASSUME CallInv, CallMayBeOver, callPc \in {"attempt", "request", "body", "backoff"}
  PROVE  cancelled
BY BeforeCeiling, CallTypes DEF CallMayBeOver, MayHaveFired

\* A call that returns keeps the invariant if what it returns is true.
LEMMA ReturnInv ==
  ASSUME CallInv, callPc \notin {"media", "download"}, NEW o \in Outcomes, Return(o),
         UNCHANGED <<config, items, room, forwarded, now, budget, ceiling, cancelled>>,
         answered' \in BOOLEAN,
         o = "cancelled" => cancelled,
         o = "timeout" /\ HasCeiling => due < ceiling
  PROVE  CallInv'
<1> USE DEF Return
<1>1. CallTypeOK'
  BY DEF CallInv, CallTypeOK, CallPcs
<1>2. AttemptClock'
  BY ClockBounded DEF AttemptClock, HasCeiling
<1>3. NoOutcomeYet' /\ ItemsLeft' /\ RoomIsLeft' /\ MediaClock' /\ CeilingIsSet' /\ OutcomeIsTrue'
  BY DEF CallInv, NoOutcomeYet, ItemsLeft, RoomIsLeft, MediaClock, CeilingIsSet,
         OutcomeIsTrue, HasCeiling
<1> QED
  BY <1>1, <1>2, <1>3 DEF CallInv

\* A transient failure costs an attempt, and a backoff within the cap
\* (the loop in Call).
LEMMA RetryInv ==
  ASSUME CallInv, callPc = "request", HasCeiling, ~MustHaveFired(due), Retry,
         UNCHANGED <<config, items, room, forwarded, now, budget, ceiling, cancelled>>,
         answered' \in BOOLEAN
  PROVE  CallInv'
<1>1. CASE Return("error")
  BY <1>1, ReturnInv DEF Outcomes
<1>2. CASE ~Return("error")
  <2>1. attempt < config.retries /\ callPc' = "backoff" /\ attempt' = attempt + 1 /\ outcome' = outcome
    BY <1>2 DEF Retry
  <2>2. PICK d \in BackoffDelays(attempt + 1) : due' = now + d
    BY <1>2 DEF Retry
  <2>3. d \in 0 .. MaxBackoff
    <3> DEFINE b == Backoff(attempt + 1)
    <3>1. b \in 1 .. MaxBackoff
      <4>1. attempt + 1 \in Nat \ {0} /\ MaxBackoff \in Nat
        BY CallTypes, AdapterAssumption
      <4>2. b \in 2 .. MaxBackoff
        BY <4>1, CallTypes, BackoffBounds
      <4> QED
        BY <4>1, <4>2
    <3> HIDE DEF b
    <3>2. b \div 2 \in Nat /\ 2 * (b \div 2) <= b
      BY <3>1
    <3>3. d \in b \div 2 .. 2 * (b \div 2)
      BY <2>2 DEF BackoffDelays, b
    <3> QED
      BY <3>1, <3>2, <3>3, CallTypes
  <2>4. due' \in Nat /\ attempt' \in 0 .. config.retries
    <3>1. now \in Nat /\ attempt \in Nat /\ config.retries \in Nat /\ MaxBackoff \in Nat
      BY CallTypes
    <3>2. due' \in Nat
      BY <2>2, <2>3, <3>1
    <3>3. attempt' \in 0 .. config.retries
      BY <2>1, <3>1
    <3> QED
      BY <3>2, <3>3
  <2>5. CallTypeOK'
    <3>1. CallTypeOK /\ callPc' \in CallPcs
      BY <2>1 DEF CallInv, CallPcs, Waits
    <3> QED
      BY <2>1, <2>4, <3>1 DEF CallTypeOK
  <2>6. AttemptClock'
    <3> DEFINE A == attempt
               s == Spent(config, A, A)
    <3>1. due <= s + config.timeout /\ now < due + Late
      BY CallTypes DEF CallInv, AttemptClock, MustHaveFired
    <3>2. Spent(config, A + 1, A) = s + config.timeout + Late /\ s \in Nat
      BY CallTypes, SpentSteps DEF HasCeiling
    <3>3. now <= Spent(config, A + 1, A) /\ Spent(config, A + 1, A) \in Nat
      <4>1. PICK p \in Nat : p = s /\ due <= p + config.timeout
        BY <3>1, <3>2
      <4>2. config.timeout \in Nat /\ Late \in Nat /\ now \in Nat /\ due \in Nat
        BY CallTypes DEF HasCeiling
      <4>3. now <= p + config.timeout + Late
        BY <3>1, <4>1, <4>2
      <4> QED
        BY <3>2, <4>1, <4>2, <4>3
    <3>4. due' <= Spent(config, A + 1, A) + MaxBackoff /\ now <= due' + Late
      <4>1. PICK p \in Nat : p = Spent(config, A + 1, A) /\ now <= p
        BY <3>3
      <4>2. now \in Nat /\ Late \in Nat /\ MaxBackoff \in Nat
        BY CallTypes
      <4>3. due' <= p + MaxBackoff /\ now <= due' + Late
        BY <2>2, <2>3, <4>1, <4>2
      <4> QED
        BY <4>1, <4>3
    <3>5. attempt' = A + 1 /\ attempt' - 1 = A
      BY <2>1, CallTypes
    <3>6. Spent(config, attempt', attempt' - 1) = Spent(config, A + 1, A)
      BY <3>5
    <3>7. due' <= Spent(config, attempt', attempt' - 1) + MaxBackoff /\ now <= due' + Late
      BY <3>4, <3>6
    <3>8. callPc' = "backoff" /\ attempt' > 0 /\ config' = config /\ now' = now
      BY <2>1, CallTypes
    <3> QED
      BY <3>7, <3>8 DEF AttemptClock
  <2>7. NoOutcomeYet' /\ ItemsLeft' /\ RoomIsLeft' /\ MediaClock' /\ CeilingIsSet' /\ OutcomeIsTrue'
    BY <2>1 DEF CallInv, NoOutcomeYet, ItemsLeft, RoomIsLeft, MediaClock, CeilingIsSet,
                OutcomeIsTrue, HasCeiling
  <2> QED
    BY <2>5, <2>6, <2>7 DEF CallInv
<1> QED
  BY <1>1, <1>2

\* An attempt has its own timeout, which the ceiling does not cut short
\* (context.WithTimeout in doOnce).
LEMMA SendInv ==
  ASSUME CallInv, Send
  PROVE  CallInv'
<1> USE DEF Send
<1>1. CASE Return("error")
  BY <1>1, ReturnInv DEF Outcomes
<1>2. CASE ~Return("error")
  <2>1. /\ callPc' = "request" /\ attempt' = attempt /\ outcome' = outcome
        /\ due' = IF HasCeiling THEN Lesser(now + config.timeout, ceiling) ELSE now
    BY <1>2
  <2>2. HasCeiling => /\ due' \in Nat /\ now <= due' + Late
                      /\ due' <= Spent(config, attempt, attempt) + config.timeout
    <3> SUFFICES ASSUME HasCeiling
                 PROVE  /\ due' \in Nat /\ now <= due' + Late
                        /\ due' <= Spent(config, attempt, attempt) + config.timeout
      OBVIOUS
    <3>1. now < ceiling
      BY BeforeCeiling
    <3>2. now <= Spent(config, attempt, attempt)
      BY DEF CallInv, AttemptClock
    <3> DEFINE s == Spent(config, attempt, attempt)
               T == config.timeout
    <3>3. s \in Nat
      BY CallTypes, SpentSteps DEF HasCeiling
    <3>4. T \in Nat /\ now \in Nat /\ Late \in Nat /\ ceiling \in Int
      BY CallTypes DEF HasCeiling
    <3>5. due' = IF now + T < ceiling THEN now + T ELSE ceiling
      BY <2>1 DEF Lesser
    <3> HIDE DEF s, T
    <3>6. due' \in Nat /\ now <= due' + Late /\ due' <= s + T
      BY <3>1, <3>2, <3>3, <3>4, <3>5 DEF s
    <3> QED
      BY <3>6 DEF s, T
  <2>3. due' \in Nat
    BY <2>1, <2>2, CallTypes
  <2>4. CallTypeOK'
    BY <2>1, <2>3 DEF CallInv, CallTypeOK, CallPcs, Waits
  <2>5. AttemptClock'
    BY <2>1, <2>2 DEF AttemptClock, HasCeiling
  <2>6. NoOutcomeYet' /\ ItemsLeft' /\ RoomIsLeft' /\ MediaClock' /\ CeilingIsSet' /\ OutcomeIsTrue'
    BY <2>1 DEF CallInv, NoOutcomeYet, ItemsLeft, RoomIsLeft, MediaClock, CeilingIsSet,
                OutcomeIsTrue, HasCeiling
  <2> QED
    BY <2>4, <2>5, <2>6 DEF CallInv
<1> QED
  BY <1>1, <1>2

\* client.Do fails.
LEMMA RequestFailsInv ==
  ASSUME CallInv, RequestFails
  PROVE  CallInv'
<1> USE DEF RequestFails
<1>1. answered' \in BOOLEAN
  BY DEF CallInv, CallTypeOK
<1>2. CASE CallMayBeOver /\ Return("cancelled")
  BY <1>1, <1>2, OverMeansCancelled, ReturnInv DEF Outcomes
<1>3. CASE Return("timeout")
  BY <1>1, <1>3, BeforeCeiling, ReturnInv DEF Outcomes
<1>4. CASE HasCeiling /\ ~MustHaveFired(due) /\ Retry
  BY <1>1, <1>4, RetryInv
<1> QED
  BY <1>2, <1>3, <1>4

\* A status has come.
LEMMA RespondsInv ==
  ASSUME CallInv, Responds
  PROVE  CallInv'
<1> USE DEF Responds
<1>1. CASE Retry
  BY <1>1, RetryInv
<1>2. CASE Return("error")
  BY <1>2, ReturnInv DEF Outcomes
<1>3. CASE callPc' = "body" /\ UNCHANGED <<due, attempt, outcome>>
  <2>1. CallTypeOK'
    BY <1>3 DEF CallInv, CallTypeOK, CallPcs, Waits
  <2>2. AttemptClock'
    BY <1>3 DEF CallInv, AttemptClock, HasCeiling
  <2>3. NoOutcomeYet' /\ ItemsLeft' /\ RoomIsLeft' /\ MediaClock' /\ CeilingIsSet' /\ OutcomeIsTrue'
    BY <1>3 DEF CallInv, NoOutcomeYet, ItemsLeft, RoomIsLeft, MediaClock, CeilingIsSet,
                OutcomeIsTrue, HasCeiling
  <2> QED
    BY <2>1, <2>2, <2>3 DEF CallInv
<1> QED
  BY <1>1, <1>2, <1>3

\* The answer's body is read.
LEMMA DecodeInv ==
  ASSUME CallInv, Decode
  PROVE  CallInv'
<1>1. answered' \in BOOLEAN
  BY DEF Decode, CallInv, CallTypeOK
<1> QED
  BY <1>1, ReturnInv DEF Decode, Outcomes

\* A backoff ends with the next attempt, or with a cancel.
LEMMA EndBackoffInv ==
  ASSUME CallInv, EndBackoff
  PROVE  CallInv'
<1> USE DEF EndBackoff
<1>1. answered' \in BOOLEAN
  BY DEF CallInv, CallTypeOK
<1>2. CASE CallMayBeOver /\ Return("cancelled")
  BY <1>1, <1>2, OverMeansCancelled, ReturnInv DEF Outcomes
<1>3. CASE callPc' = "attempt" /\ UNCHANGED <<due, attempt, outcome>>
  <2>1. CallTypeOK'
    BY <1>3 DEF CallInv, CallTypeOK, CallPcs
  <2>2. AttemptClock'
    <3> SUFFICES ASSUME HasCeiling
                 PROVE  now <= Spent(config, attempt, attempt)
      BY <1>3 DEF AttemptClock, HasCeiling
    <3>1. /\ attempt > 0 /\ now <= due + Late
          /\ due <= Spent(config, attempt, attempt - 1) + MaxBackoff
      BY DEF CallInv, AttemptClock
    <3>2. /\ Spent(config, attempt, attempt - 1) \in Nat
          /\ Spent(config, attempt, (attempt - 1) + 1)
                = Spent(config, attempt, attempt - 1) + MaxBackoff + Late
      <4>1. attempt \in Nat /\ attempt - 1 \in Nat
        BY <3>1, CallTypes
      <4>2. config \in Configs /\ config.timeout > 0
        BY CallTypes DEF HasCeiling
      <4> QED
        BY <4>1, <4>2, SpentSteps
    <3>3. (attempt - 1) + 1 = attempt
      BY CallTypes
    <3> QED
      BY <3>1, <3>2, <3>3, CallTypes
  <2>3. NoOutcomeYet' /\ ItemsLeft' /\ RoomIsLeft' /\ MediaClock' /\ CeilingIsSet' /\ OutcomeIsTrue'
    BY <1>3 DEF CallInv, NoOutcomeYet, ItemsLeft, RoomIsLeft, MediaClock, CeilingIsSet,
                OutcomeIsTrue, HasCeiling
  <2> QED
    BY <2>1, <2>2, <2>3 DEF CallInv
<1> QED
  BY <1>2, <1>3

\* Time passes only until the wait must have been noticed to be over.
LEMMA TickInv ==
  ASSUME CallInv, Tick
  PROVE  CallInv'
<1> USE DEF Tick, MustHaveFired
<1>1. now' \in Nat /\ now' <= due + Late
  BY CallTypes
<1>2. CallTypeOK'
  BY <1>1 DEF CallInv, CallTypeOK
<1>3. MediaClock'
  BY <1>1 DEF CallInv, MediaClock, Waits
<1>4. AttemptClock'
  BY <1>1 DEF CallInv, AttemptClock, HasCeiling, Waits
<1>5. NoOutcomeYet' /\ ItemsLeft' /\ RoomIsLeft' /\ CeilingIsSet' /\ OutcomeIsTrue'
  BY DEF CallInv, NoOutcomeYet, ItemsLeft, RoomIsLeft, CeilingIsSet, OutcomeIsTrue, HasCeiling
<1> QED
  BY <1>2, <1>3, <1>4, <1>5 DEF CallInv

\* Every step of the call keeps its invariant.
LEMMA CallStepInv ==
  ASSUME CallInv, CallStep
  PROVE  CallInv'
BY SkipItemInv, StopMediaInv, StartDownloadInv, EndDownloadInv, SendInv, RequestFailsInv,
   RespondsInv, DecodeInv, EndBackoffInv DEF CallStep

\* So does everything that leaves the call alone, as long as the context is not
\* made undone.
LEMMA CallInvKept ==
  ASSUME CallInv, UNCHANGED adapterVars, cancelled => cancelled'
  PROVE  CallInv'
BY DEF adapterVars, CallInv, CallTypeOK, NoOutcomeYet, ItemsLeft, RoomIsLeft, MediaClock,
       AttemptClock, CeilingIsSet, OutcomeIsTrue, HasCeiling

-----------------------------------------------------------------------------
(* What the invariant is for. *)

\* The properties of the call follow from its invariant.
LEMMA CallInvImplies ==
  ASSUME CallInv
  PROVE  /\ CallTypeOK /\ MediaWithinBudget /\ MediaTimeBounded
         /\ OutcomeIsTrue /\ CallIsBounded
<1>1. MediaWithinBudget
  <2>1. Total(forwarded) \in Nat /\ room \in Nat /\ MaxAttachmentsTotal \in Nat
    BY CallTypes, TotalType, AdapterAssumption
  <2> QED
    BY <2>1 DEF CallInv, RoomIsLeft, MediaWithinBudget
<1>2. MediaTimeBounded
  <2>1. TimeFactor * MaxDownload \in Nat
    BY AdapterAssumption
  <2> QED
    BY <2>1, CallTypes DEF CallInv, MediaClock, MediaTimeBounded
<1>3. CallIsBounded
  BY ClockBounded DEF CallIsBounded, Spent
<1> QED
  BY <1>1, <1>2, <1>3 DEF CallInv

\* A retry begins with a wait as long as it should be (backoffDelay).
LEMMA RetryWaits ==
  ASSUME CallInv, CallStep, callPc = "request", callPc' = "backoff"
  PROVE  LET wait == due' - now
         IN  /\ wait \in 1 .. MaxBackoff
             /\ config.base <= MaxBackoff =>
                    2 * wait + 1 >= Lesser(config.base * Pow2(attempt), MaxBackoff)
<1>1. Retry
  <2>1. CASE RequestFails
    BY <2>1 DEF RequestFails, Return
  <2>2. CASE Responds
    BY <2>2 DEF Responds, Return
  <2>3. CASE SkipItem \/ StopMedia \/ StartDownload \/ EndDownload \/ Send \/ Decode \/ EndBackoff
    BY <2>3 DEF SkipItem, StopMedia, StartDownload, EndDownload, Send, Decode, EndBackoff
  <2> QED
    BY <2>1, <2>2, <2>3 DEF CallStep
<1>2. PICK d \in BackoffDelays(attempt + 1) : due' = now + d
  BY <1>1 DEF Retry, Return
<1> DEFINE v == Backoff(attempt + 1)
           full == Lesser(config.base * Pow2(attempt), MaxBackoff)
<1>3. attempt + 1 \in Nat \ {0} /\ (attempt + 1) - 1 = attempt /\ MaxBackoff \in Nat /\ now \in Nat
  <2>1. attempt \in Nat /\ now \in Nat
    BY CallTypes
  <2> QED
    BY <2>1, AdapterAssumption
<1>4. v \in 2 .. MaxBackoff /\ (config.base <= MaxBackoff => v = full)
  BY <1>3, CallTypes, BackoffBounds
<1>5. d \in v \div 2 .. 2 * (v \div 2)
  BY <1>2 DEF BackoffDelays
<1> HIDE DEF v, full
<1>6. v \div 2 \in Nat /\ v \div 2 >= 1 /\ 2 * (v \div 2) <= v /\ 2 * (v \div 2) + 1 >= v
  BY <1>3, <1>4
<1>7. d \in 1 .. MaxBackoff /\ 2 * d + 1 >= v
  BY <1>3, <1>4, <1>5, <1>6
<1>8. due' - now = d
  BY <1>2, <1>3, <1>7
<1>9. config.base <= MaxBackoff => 2 * d + 1 >= full
  BY <1>4, <1>7
<1> QED
  BY <1>7, <1>8, <1>9 DEF full

\* A call that returns while it can see the cancel says that it was cancelled
\* (ctx.Err in doOnce, the select in Call's backoff).
LEMMA CancelSeenStep ==
  ASSUME CallInv, CallStep, cancelled, outcome' # outcome,
         callPc = "backoff" \/ (callPc = "request" /\ ~answered')
  PROVE  outcome' = "cancelled"
<1>1. CASE RequestFails
  BY <1>1 DEF RequestFails, Return, CallMayGoOn
<1>2. CASE EndBackoff
  BY <1>2 DEF EndBackoff, Return
<1>3. CASE Responds
  BY <1>3 DEF Responds
<1>4. CASE SkipItem \/ StopMedia \/ StartDownload \/ EndDownload \/ Send \/ Decode
  BY <1>4 DEF SkipItem, StopMedia, StartDownload, EndDownload, Send, Decode
<1> QED
  BY <1>1, <1>2, <1>3, <1>4 DEF CallStep

=============================================================================
