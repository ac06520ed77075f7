--------------------------- MODULE SegmentProofs ---------------------------
(***************************************************************************)
(* What the dispatch engine's work before the loop does to a text: taking  *)
(* the media URLs out and cutting the rest into parts.                     *)
(***************************************************************************)
EXTENDS Dispatch, Recursion, FiniteSetTheorems

-----------------------------------------------------------------------------
(* The recursive operators, step by step. *)

\* The size of a part is counted word by word (currentRunes).
LEMMA SizeSteps ==
  ASSUME NEW part \in Seq(Words)
  PROVE  \E f \in [0 .. Len(part) -> Int] :
            /\ f[0] = -1
            /\ \A i \in 1 .. Len(part) : f[i] = f[i - 1] + 1 + Runes[part[i]]
            /\ Size(part) = f[Len(part)]
<1> DEFINE n == Len(part)
           body(f) == [k \in 0 .. n |-> IF k = 0 THEN -1 ELSE f[k - 1] + 1 + Runes[part[k]]]
           made == CHOOSE f : f = body(f)
           step == [i \in 1 .. n |-> [v \in Int |-> v + 1 + Runes[part[i]]]]
<1>1. n \in Nat /\ -1 \in Int /\ \A i \in 1 .. n : part[i] \in Words
  OBVIOUS
<1>2. ASSUME NEW i \in 1 .. n, NEW v \in Int
      PROVE  (v + 1 + Runes[part[i]]) \in Int
  <2>1. part[i] \in Words
    BY <1>1
  <2> QED
    BY <2>1, DispatchAssumption
<1>3. step \in [1 .. n -> [Int -> Int]]
  BY <1>2
<1>4. ASSUME NEW i \in 1 .. n, NEW v \in Int
      PROVE  step[i][v] = v + 1 + Runes[part[i]]
  OBVIOUS
<1> HIDE DEF step, n
<1>5. PICK f : Follows(f, n, Int, -1, step)
  BY <1>1, <1>3, RecursiveFunction
<1>6. /\ f \in [0 .. n -> Int] /\ f[0] = -1
      /\ \A i \in 1 .. n : f[i] = f[i - 1] + 1 + Runes[part[i]]
  <2>1. /\ f \in [0 .. n -> Int] /\ f[0] = -1
        /\ \A i \in 1 .. n : f[i] = step[i][f[i - 1]]
    BY <1>5 DEF Follows
  <2>2. \A i \in 1 .. n : f[i - 1] \in Int
    BY <1>1, <2>1
  <2> QED
    BY <1>4, <2>1, <2>2
<1>7. f = body(f)
  <2>1. f = [k \in 0 .. n |-> f[k]]
    BY <1>6
  <2>2. ASSUME NEW k \in 0 .. n
        PROVE  f[k] = IF k = 0 THEN -1 ELSE f[k - 1] + 1 + Runes[part[k]]
    <3>1. k = 0 \/ k \in 1 .. n
      BY <1>1
    <3> QED
      BY <1>6, <3>1
  <2> QED
    BY <2>1, <2>2
<1>8. made = body(made)
  BY <1>7
<1> HIDE DEF made
<1>9. Agrees(made, f, n)
  <2>1. made[0] = f[0]
    BY <1>1, <1>6, <1>8
  <2>2. ASSUME NEW i \in 1 .. n, made[i - 1] = f[i - 1]
        PROVE  made[i] = f[i]
    <3>1. i \in 0 .. n /\ i # 0
      BY <1>1
    <3>2. made[i] = made[i - 1] + 1 + Runes[part[i]]
      BY <1>8, <3>1
    <3> QED
      BY <1>6, <2>2, <3>2
  <2> QED
    BY <2>1, <2>2 DEF Agrees
<1>10. made[n] = f[n]
  <2>1. n \in Nat
    BY <1>1
  <2>2. \A k \in 0 .. n : made[k] = f[k]
    BY <1>9, <2>1, SameValues
  <2> QED
    BY <2>1, <2>2
<1>11. Size(part) = f[n]
  BY <1>10 DEF Size, made, n
<1> QED
  BY <1>6, <1>11 DEF n

\* Adding words to the last part changes that part only.
LEMMA Adding ==
  ASSUME NEW parts \in Seq(Seq(Words)), parts # <<>>, NEW words \in Seq(Words)
  PROVE  /\ AddToLast(parts, words) \in Seq(Seq(Words))
         /\ Len(AddToLast(parts, words)) = Len(parts)
         /\ \A j \in 1 .. Len(parts) - 1 : AddToLast(parts, words)[j] = parts[j]
         /\ Last(parts) = parts[Len(parts)]
         /\ Last(parts) \in Seq(Words)
         /\ AddToLast(parts, words)[Len(parts)] = Last(parts) \o words
<1>1. Len(parts) \in 1 .. Len(parts)
  OBVIOUS
<1>2. Last(parts) \in Seq(Words) /\ Last(parts) = parts[Len(parts)]
  BY <1>1 DEF Last
<1>3. Last(parts) \o words \in Seq(Words)
  BY <1>2
<1>4. AddToLast(parts, words) = [parts EXCEPT ![Len(parts)] = Last(parts) \o words]
  BY DEF AddToLast, ReplaceAt
<1> QED
  BY <1>1, <1>2, <1>3, <1>4

\* The greedy loop goes through the words one by one (the loop over words).
LEMMA GreedySteps ==
  ASSUME NEW text \in Seq(Words), NEW limit
  PROVE  \E f \in [0 .. Len(text) -> Seq(Seq(Words))] :
            /\ f[0] = <<>>
            /\ \A i \in 1 .. Len(text) : f[i] = PutWord(f[i - 1], text[i], limit)
            /\ Greedy(text, limit) = f[Len(text)]
<1> DEFINE n == Len(text)
           body(f) == [k \in 0 .. n |-> IF k = 0 THEN <<>> ELSE PutWord(f[k - 1], text[k], limit)]
           made == CHOOSE f : f = body(f)
           step == [i \in 1 .. n |-> [v \in Seq(Seq(Words)) |-> PutWord(v, text[i], limit)]]
<1>1. n \in Nat /\ <<>> \in Seq(Seq(Words)) /\ \A i \in 1 .. n : <<text[i]>> \in Seq(Words)
  OBVIOUS
<1>2. ASSUME NEW i \in 1 .. n, NEW v \in Seq(Seq(Words))
      PROVE  (PutWord(v, text[i], limit)) \in Seq(Seq(Words))
  <2>1. <<text[i]>> \in Seq(Words) /\ Append(v, <<text[i]>>) \in Seq(Seq(Words))
    BY <1>1
  <2>2. v # <<>> => AddToLast(v, <<text[i]>>) \in Seq(Seq(Words))
    BY <2>1, Adding
  <2> QED
    BY <2>1, <2>2 DEF PutWord, FitsLast
<1>3. step \in [1 .. n -> [Seq(Seq(Words)) -> Seq(Seq(Words))]]
  BY <1>2
<1>4. ASSUME NEW i \in 1 .. n, NEW v \in Seq(Seq(Words))
      PROVE  step[i][v] = PutWord(v, text[i], limit)
  OBVIOUS
<1> HIDE DEF step, n
<1>5. PICK f : Follows(f, n, Seq(Seq(Words)), <<>>, step)
  BY <1>1, <1>3, RecursiveFunction
<1>6. /\ f \in [0 .. n -> Seq(Seq(Words))] /\ f[0] = <<>>
      /\ \A i \in 1 .. n : f[i] = PutWord(f[i - 1], text[i], limit)
  <2>1. /\ f \in [0 .. n -> Seq(Seq(Words))] /\ f[0] = <<>>
        /\ \A i \in 1 .. n : f[i] = step[i][f[i - 1]]
    BY <1>5 DEF Follows
  <2>2. \A i \in 1 .. n : f[i - 1] \in Seq(Seq(Words))
    BY <1>1, <2>1
  <2> QED
    BY <1>4, <2>1, <2>2
<1>7. f = body(f)
  <2>1. f = [k \in 0 .. n |-> f[k]]
    BY <1>6
  <2>2. ASSUME NEW k \in 0 .. n
        PROVE  f[k] = IF k = 0 THEN <<>> ELSE PutWord(f[k - 1], text[k], limit)
    <3>1. k = 0 \/ k \in 1 .. n
      BY <1>1
    <3> QED
      BY <1>6, <3>1
  <2> QED
    BY <2>1, <2>2
<1>8. made = body(made)
  BY <1>7
<1> HIDE DEF made
<1>9. Agrees(made, f, n)
  <2>1. made[0] = f[0]
    BY <1>1, <1>6, <1>8
  <2>2. ASSUME NEW i \in 1 .. n, made[i - 1] = f[i - 1]
        PROVE  made[i] = f[i]
    <3>1. i \in 0 .. n /\ i # 0
      BY <1>1
    <3>2. made[i] = PutWord(made[i - 1], text[i], limit)
      BY <1>8, <3>1
    <3> QED
      BY <1>6, <2>2, <3>2
  <2> QED
    BY <2>1, <2>2 DEF Agrees
<1>10. made[n] = f[n]
  <2>1. n \in Nat
    BY <1>1
  <2>2. \A k \in 0 .. n : made[k] = f[k]
    BY <1>9, <2>1, SameValues
  <2> QED
    BY <2>1, <2>2
<1>11. Greedy(text, limit) = f[n]
  BY <1>10 DEF Greedy, made, n
<1> QED
  BY <1>6, <1>11 DEF n

\* f goes through the merging loop.
Merges(f, parts, minSize, limit) ==
    /\ f[0] = <<>>
    /\ \A i \in 1 .. Len(parts) : f[i] = PutPart(f[i - 1], parts[i], minSize, limit)
    /\ MergeShort(parts, minSize, limit) = f[Len(parts)]

\* The merging loop goes through the parts one by one (the loop over rawParts).
LEMMA MergeSteps ==
  ASSUME NEW parts \in Seq(Seq(Words)), NEW minSize, NEW limit
  PROVE  \E f : Merges(f, parts, minSize, limit)
<1> DEFINE n == Len(parts)
           body(f) == [k \in 0 .. n |-> IF k = 0 THEN <<>> ELSE PutPart(f[k - 1], parts[k], minSize, limit)]
           made == CHOOSE f : f = body(f)
           step == [i \in 1 .. n |-> [v \in Seq(Seq(Words)) |-> PutPart(v, parts[i], minSize, limit)]]
<1>1. n \in Nat /\ <<>> \in Seq(Seq(Words)) /\ \A i \in 1 .. n : parts[i] \in Seq(Words)
  OBVIOUS
<1>2. ASSUME NEW i \in 1 .. n, NEW v \in Seq(Seq(Words))
      PROVE  (PutPart(v, parts[i], minSize, limit)) \in Seq(Seq(Words))
  <2>1. parts[i] \in Seq(Words) /\ Append(v, parts[i]) \in Seq(Seq(Words))
    BY <1>1
  <2>2. v # <<>> => AddToLast(v, parts[i]) \in Seq(Seq(Words))
    BY <2>1, Adding
  <2> QED
    BY <2>1, <2>2 DEF PutPart, FitsLast
<1>3. step \in [1 .. n -> [Seq(Seq(Words)) -> Seq(Seq(Words))]]
  BY <1>2
<1>4. ASSUME NEW i \in 1 .. n, NEW v \in Seq(Seq(Words))
      PROVE  step[i][v] = PutPart(v, parts[i], minSize, limit)
  OBVIOUS
<1> HIDE DEF step, n
<1>5. PICK f : Follows(f, n, Seq(Seq(Words)), <<>>, step)
  BY <1>1, <1>3, RecursiveFunction
<1>6. /\ f \in [0 .. n -> Seq(Seq(Words))] /\ f[0] = <<>>
      /\ \A i \in 1 .. n : f[i] = PutPart(f[i - 1], parts[i], minSize, limit)
  <2>1. /\ f \in [0 .. n -> Seq(Seq(Words))] /\ f[0] = <<>>
        /\ \A i \in 1 .. n : f[i] = step[i][f[i - 1]]
    BY <1>5 DEF Follows
  <2>2. \A i \in 1 .. n : f[i - 1] \in Seq(Seq(Words))
    BY <1>1, <2>1
  <2> QED
    BY <1>4, <2>1, <2>2
<1>7. f = body(f)
  <2>1. f = [k \in 0 .. n |-> f[k]]
    BY <1>6
  <2>2. ASSUME NEW k \in 0 .. n
        PROVE  f[k] = IF k = 0 THEN <<>> ELSE PutPart(f[k - 1], parts[k], minSize, limit)
    <3>1. k = 0 \/ k \in 1 .. n
      BY <1>1
    <3> QED
      BY <1>6, <3>1
  <2> QED
    BY <2>1, <2>2
<1>8. made = body(made)
  BY <1>7
<1> HIDE DEF made
<1>9. Agrees(made, f, n)
  <2>1. made[0] = f[0]
    BY <1>1, <1>6, <1>8
  <2>2. ASSUME NEW i \in 1 .. n, made[i - 1] = f[i - 1]
        PROVE  made[i] = f[i]
    <3>1. i \in 0 .. n /\ i # 0
      BY <1>1
    <3>2. made[i] = PutPart(made[i - 1], parts[i], minSize, limit)
      BY <1>8, <3>1
    <3> QED
      BY <1>6, <2>2, <3>2
  <2> QED
    BY <2>1, <2>2 DEF Agrees
<1>10. made[n] = f[n]
  <2>1. n \in Nat
    BY <1>1
  <2>2. \A k \in 0 .. n : made[k] = f[k]
    BY <1>9, <2>1, SameValues
  <2> QED
    BY <2>1, <2>2
<1>11. MergeShort(parts, minSize, limit) = f[n]
  BY <1>10 DEF MergeShort, made, n
<1> QED
  BY <1>6, <1>11 DEF n, Merges

\* Joining sequences goes through them one by one.
LEMMA FlattenSteps ==
  ASSUME NEW parts \in Seq(Seq(Words))
  PROVE  \E f \in [0 .. Len(parts) -> Seq(Words)] :
            /\ f[0] = <<>>
            /\ \A i \in 1 .. Len(parts) : f[i] = f[i - 1] \o parts[i]
            /\ FlattenSeq(parts) = f[Len(parts)]
<1> DEFINE n == Len(parts)
           body(f) == [i \in 1 .. n |-> IF i = 1 THEN parts[i] ELSE f[i - 1] \o parts[i]]
           made == CHOOSE f : f = body(f)
           step == [i \in 1 .. n |-> [v \in Seq(Words) |-> v \o parts[i]]]
<1>1. n \in Nat /\ \A i \in 1 .. n : parts[i] \in Seq(Words)
  OBVIOUS
<1>2. step \in [1 .. n -> [Seq(Words) -> Seq(Words)]] /\ <<>> \in Seq(Words)
  BY <1>1
<1>3. ASSUME NEW i \in 1 .. n, NEW v \in Seq(Words)
      PROVE  step[i][v] = v \o parts[i]
  OBVIOUS
<1>4. n = 0 => FlattenSeq(parts) = <<>>
  BY DEF FlattenSeq
<1>5. n # 0 => FlattenSeq(parts) = made[n]
  BY DEF FlattenSeq
<1> HIDE DEF step, n
<1>6. PICK f : Follows(f, n, Seq(Words), <<>>, step)
  BY <1>1, <1>2, RecursiveFunction
<1>7. /\ f \in [0 .. n -> Seq(Words)] /\ f[0] = <<>>
      /\ \A i \in 1 .. n : f[i] = f[i - 1] \o parts[i]
  <2>1. /\ f \in [0 .. n -> Seq(Words)] /\ f[0] = <<>>
        /\ \A i \in 1 .. n : f[i] = step[i][f[i - 1]]
    BY <1>6 DEF Follows
  <2>2. \A i \in 1 .. n : f[i - 1] \in Seq(Words)
    BY <1>1, <2>1
  <2> QED
    BY <1>3, <2>1, <2>2
<1>8. made = body(made)
  <2> DEFINE g == [i \in 1 .. n |-> f[i]]
  <2>1. ASSUME NEW i \in 1 .. n
        PROVE  g[i] = IF i = 1 THEN parts[i] ELSE g[i - 1] \o parts[i]
    <3>1. CASE i = 1
      <4>1. f[1] = <<>> \o parts[1]
        <5>1. 1 \in 1 .. n /\ 1 - 1 = 0
          BY <3>1
        <5>2. f[1] = f[1 - 1] \o parts[1]
          BY <1>7, <5>1
        <5> QED
          BY <1>7, <5>1, <5>2
      <4>2. <<>> \o parts[1] = parts[1]
        BY <1>1, <3>1
      <4> QED
        BY <3>1, <4>1, <4>2
    <3>2. CASE i # 1
      <4>1. i - 1 \in 1 .. n
        BY <1>1, <3>2
      <4> QED
        BY <1>7, <3>2, <4>1
    <3> QED
      BY <3>1, <3>2
  <2>2. g = body(g)
    BY <2>1
  <2> HIDE DEF g
  <2> QED
    BY <2>2
<1> HIDE DEF made
<1>9. \A i \in 1 .. n : made[i] = f[i]
  <2> DEFINE g == [i \in 0 .. n |-> IF i = 0 THEN <<>> ELSE made[i]]
  <2>1. g[0] = f[0]
    BY <1>1, <1>7
  <2>2. ASSUME NEW i \in 1 .. n, g[i - 1] = f[i - 1]
        PROVE  g[i] = f[i]
    <3>1. made[i] = IF i = 1 THEN parts[i] ELSE made[i - 1] \o parts[i]
      BY <1>8
    <3>2. CASE i = 1
      <4>1. f[1] = <<>> \o parts[1]
        <5>1. 1 \in 1 .. n /\ 1 - 1 = 0
          BY <3>2
        <5>2. f[1] = f[1 - 1] \o parts[1]
          BY <1>7, <5>1
        <5> QED
          BY <1>7, <5>1, <5>2
      <4>2. <<>> \o parts[1] = parts[1]
        BY <1>1, <3>2
      <4> QED
        BY <1>1, <3>1, <3>2, <4>1, <4>2
    <3>3. CASE i # 1
      <4>1. i - 1 \in 0 .. n /\ i - 1 # 0 /\ i \in 0 .. n /\ i # 0
        BY <1>1, <3>3
      <4>2. g[i - 1] = made[i - 1] /\ g[i] = made[i]
        BY <4>1
      <4> QED
        BY <1>7, <2>2, <3>1, <3>3, <4>2
    <3> QED
      BY <3>2, <3>3
  <2>3. Agrees(g, f, n)
    BY <2>1, <2>2 DEF Agrees
  <2> HIDE DEF g
  <2>4. n \in Nat
    BY <1>1
  <2>5. \A k \in 0 .. n : g[k] = f[k]
    BY <2>3, <2>4, SameValues
  <2>6. ASSUME NEW i \in 1 .. n
        PROVE  g[i] = made[i]
    BY <2>4 DEF g
  <2> QED
    BY <2>4, <2>5, <2>6
<1>10. FlattenSeq(parts) = f[n]
  BY <1>1, <1>4, <1>5, <1>7, <1>9
<1> QED
  BY <1>7, <1>10 DEF n

-----------------------------------------------------------------------------
(* Sizes. *)

\* The size of a part is a number.
LEMMA SizeType ==
  ASSUME NEW part \in Seq(Words)
  PROVE  Size(part) \in Int
<1>1. PICK f \in [0 .. Len(part) -> Int] : Size(part) = f[Len(part)]
  BY SizeSteps
<1>2. Len(part) \in 0 .. Len(part)
  OBVIOUS
<1> QED
  BY <1>1, <1>2

\* One more word and the space before it.
LEMMA SizeWithWord ==
  ASSUME NEW part \in Seq(Words), NEW w \in Words
  PROVE  Size(part \o <<w>>) = Size(part) + 1 + Runes[w]
<1> DEFINE n == Len(part)
           longer == part \o <<w>>
<1>1. /\ longer \in Seq(Words) /\ Len(longer) = n + 1 /\ n \in Nat
      /\ \A i \in 1 .. n : longer[i] = part[i]
      /\ longer[n + 1] = w
  OBVIOUS
<1>2. PICK f \in [0 .. n -> Int] :
          /\ f[0] = -1
          /\ \A i \in 1 .. n : f[i] = f[i - 1] + 1 + Runes[part[i]]
          /\ Size(part) = f[n]
  BY SizeSteps
<1> HIDE DEF longer, n
<1>3. PICK g \in [0 .. n + 1 -> Int] :
          /\ g[0] = -1
          /\ \A i \in 1 .. n + 1 : g[i] = g[i - 1] + 1 + Runes[longer[i]]
          /\ Size(longer) = g[n + 1]
  BY <1>1, SizeSteps
<1>4. Agrees(g, f, n)
  <2>1. ASSUME NEW i \in 1 .. n, g[i - 1] = f[i - 1]
        PROVE  g[i] = f[i]
    <3>1. i \in 1 .. n + 1
      BY <1>1
    <3> QED
      BY <1>1, <1>2, <1>3, <2>1, <3>1
  <2> QED
    BY <1>2, <1>3, <2>1 DEF Agrees
<1>5. g[n] = f[n]
  <2>1. \A k \in 0 .. n : g[k] = f[k]
    BY <1>1, <1>4, SameValues
  <2> QED
    BY <1>1, <2>1
<1>6. n + 1 \in 1 .. n + 1 /\ (n + 1) - 1 = n
  BY <1>1
<1>7. g[n + 1] = g[n] + 1 + Runes[w]
  BY <1>1, <1>3, <1>6
<1>8. Size(longer) = Size(part) + 1 + Runes[w]
  BY <1>2, <1>3, <1>5, <1>7
<1> QED
  BY <1>8 DEF longer

\* A word by itself.
LEMMA SizeOfWord ==
  ASSUME NEW w \in Words
  PROVE  Size(<<w>>) = Runes[w] /\ Runes[w] \in Nat \ {0}
<1>1. <<>> \in Seq(Words) /\ Len(<<>>) = 0 /\ <<>> \o <<w>> = <<w>>
  OBVIOUS
<1>2. PICK f \in [0 .. 0 -> Int] : f[0] = -1 /\ Size(<<>>) = f[0]
  BY <1>1, SizeSteps
<1>3. Runes[w] \in Nat \ {0}
  BY DispatchAssumption
<1>4. Size(<<>> \o <<w>>) = Size(<<>>) + 1 + Runes[w]
  BY <1>1, SizeWithWord
<1> QED
  BY <1>1, <1>2, <1>3, <1>4

\* A part is at least as long as its first word.
LEMMA SizeOfFirst ==
  ASSUME NEW part \in Seq(Words), part # <<>>
  PROVE  part[1] \in Words /\ Runes[part[1]] \in Int /\ Size(part) >= Runes[part[1]]
<1> DEFINE n == Len(part)
<1>1. n \in Nat /\ n >= 1 /\ \A i \in 1 .. n : part[i] \in Words
  OBVIOUS
<1>2. \A i \in 1 .. n : Runes[part[i]] \in Nat
  BY <1>1, DispatchAssumption
<1>3. PICK f \in [0 .. n -> Int] :
          /\ f[0] = -1
          /\ \A i \in 1 .. n : f[i] = f[i - 1] + 1 + Runes[part[i]]
          /\ Size(part) = f[n]
  BY SizeSteps
<1> HIDE DEF n
<1> DEFINE S == {k \in 0 .. n : k > 0 => f[k] >= Runes[part[1]]}
<1>4. 0 \in S
  BY <1>1
<1>5. ASSUME NEW k \in 0 .. n - 1, k \in S
      PROVE  k + 1 \in S
  <2>1. k + 1 \in 1 .. n /\ (k + 1) - 1 = k /\ k + 1 \in 0 .. n /\ 1 \in 1 .. n
    BY <1>1
  <2>2. f[k + 1] = f[k] + 1 + Runes[part[k + 1]] /\ f[k] \in Int /\ f[k + 1] \in Int
    <3>1. PICK i \in 1 .. n : i = k + 1 /\ i - 1 = k
      BY <2>1
    <3>2. f[i] = f[i - 1] + 1 + Runes[part[i]]
      BY <1>3
    <3>3. f[i] \in Int /\ f[i - 1] \in Int
      BY <1>1, <1>3, <2>1, <3>1
    <3> QED
      BY <3>1, <3>2, <3>3
  <2>3. Runes[part[k + 1]] \in Nat /\ Runes[part[1]] \in Nat
    BY <1>2, <2>1
  <2>4. CASE k = 0
    BY <1>3, <2>1, <2>2, <2>3, <2>4
  <2>5. CASE k > 0
    <3>1. f[k] >= Runes[part[1]]
      BY <1>5, <2>5
    <3> QED
      BY <2>1, <2>2, <2>3, <3>1
  <2> QED
    BY <2>4, <2>5
<1> HIDE DEF S
<1>6. \A k \in 0 .. n : k \in S
  BY <1>1, <1>4, <1>5, UpTo
<1>7. f[n] >= Runes[part[1]]
  BY <1>1, <1>6 DEF S
<1> QED
  BY <1>1, <1>2, <1>3, <1>7

-----------------------------------------------------------------------------
(* Joining the parts again. *)

\* Nothing joined is nothing.
LEMMA FlattenEmpty == FlattenSeq(<<>>) = <<>>
BY DEF FlattenSeq

\* The words of parts are words.
LEMMA FlattenType ==
  ASSUME NEW parts \in Seq(Seq(Words))
  PROVE  FlattenSeq(parts) \in Seq(Words)
<1>1. PICK f \in [0 .. Len(parts) -> Seq(Words)] : FlattenSeq(parts) = f[Len(parts)]
  BY FlattenSteps
<1>2. Len(parts) \in 0 .. Len(parts)
  OBVIOUS
<1> QED
  BY <1>1, <1>2

\* f goes through the joining of the first m parts.
Joins(f, parts, m) == f[0] = <<>> /\ \A i \in 1 .. m : f[i] = f[i - 1] \o parts[i]

\* There is one way to go through it.
LEMMA JoinsAlike ==
  ASSUME NEW parts, NEW m \in Nat, NEW f, NEW g, Joins(f, parts, m), Joins(g, parts, m)
  PROVE  g[m] = f[m]
<1>1. Agrees(g, f, m)
  BY DEF Agrees, Joins
<1>2. \A k \in 0 .. m : g[k] = f[k]
  BY <1>1, SameValues
<1> QED
  BY <1>2

\* A part more adds its words at the end.
LEMMA FlattenAppend ==
  ASSUME NEW parts \in Seq(Seq(Words)), NEW words \in Seq(Words)
  PROVE  FlattenSeq(Append(parts, words)) = FlattenSeq(parts) \o words
<1> DEFINE n == Len(parts)
           longer == Append(parts, words)
<1>1. /\ longer \in Seq(Seq(Words)) /\ Len(longer) = n + 1 /\ n \in Nat
      /\ \A i \in 1 .. n : longer[i] = parts[i]
      /\ longer[n + 1] = words
  OBVIOUS
<1>2. PICK f \in [0 .. n -> Seq(Words)] :
          /\ f[0] = <<>>
          /\ \A i \in 1 .. n : f[i] = f[i - 1] \o parts[i]
          /\ FlattenSeq(parts) = f[n]
  BY FlattenSteps
<1> HIDE DEF longer, n
<1>3. PICK g \in [0 .. n + 1 -> Seq(Words)] :
          /\ g[0] = <<>>
          /\ \A i \in 1 .. n + 1 : g[i] = g[i - 1] \o longer[i]
          /\ FlattenSeq(longer) = g[n + 1]
  BY <1>1, FlattenSteps
<1>4. Joins(f, parts, n) /\ Joins(g, parts, n)
  <2>1. \A i \in 1 .. n : i \in 1 .. n + 1
    BY <1>1
  <2> QED
    BY <1>1, <1>2, <1>3, <2>1 DEF Joins
<1>5. g[n] = f[n]
  BY <1>1, <1>4, JoinsAlike
<1>6. g[n + 1] = g[n] \o words
  <2>1. n + 1 \in 1 .. n + 1 /\ (n + 1) - 1 = n
    BY <1>1
  <2> QED
    BY <1>1, <1>3, <2>1
<1>7. FlattenSeq(longer) = FlattenSeq(parts) \o words
  BY <1>2, <1>3, <1>5, <1>6
<1> QED
  BY <1>7 DEF longer

\* Joining sequences of words is associative.
LEMMA Regroup ==
  ASSUME NEW s \in Seq(Words), NEW t \in Seq(Words), NEW u \in Seq(Words)
  PROVE  s \o (t \o u) = (s \o t) \o u
OBVIOUS

\* So do words more in the last part.
LEMMA FlattenAddToLast ==
  ASSUME NEW parts \in Seq(Seq(Words)), parts # <<>>, NEW words \in Seq(Words)
  PROVE  FlattenSeq(AddToLast(parts, words)) = FlattenSeq(parts) \o words
<1> DEFINE n == Len(parts)
           longer == AddToLast(parts, words)
<1>1. /\ longer \in Seq(Seq(Words)) /\ Len(longer) = n /\ n \in Nat /\ n # 0
      /\ \A i \in 1 .. n - 1 : longer[i] = parts[i]
      /\ longer[n] = parts[n] \o words
      /\ parts[n] \in Seq(Words)
  <2>1. n \in Nat /\ n # 0
    OBVIOUS
  <2> HIDE DEF longer
  <2>2. /\ longer \in Seq(Seq(Words)) /\ Len(longer) = Len(parts)
        /\ \A i \in 1 .. Len(parts) - 1 : longer[i] = parts[i]
        /\ Last(parts) = parts[Len(parts)]
        /\ Last(parts) \in Seq(Words)
        /\ longer[Len(parts)] = Last(parts) \o words
    BY Adding DEF longer
  <2> QED
    BY <2>1, <2>2
<1>2. PICK f \in [0 .. n -> Seq(Words)] :
          /\ f[0] = <<>>
          /\ \A i \in 1 .. n : f[i] = f[i - 1] \o parts[i]
          /\ FlattenSeq(parts) = f[n]
  BY FlattenSteps
<1> HIDE DEF longer, n
<1>3. PICK g \in [0 .. n -> Seq(Words)] :
          /\ g[0] = <<>>
          /\ \A i \in 1 .. n : g[i] = g[i - 1] \o longer[i]
          /\ FlattenSeq(longer) = g[n]
  BY <1>1, FlattenSteps
<1>4. n - 1 \in Nat /\ n \in 1 .. n /\ n - 1 \in 0 .. n
  BY <1>1
<1>5. Joins(f, parts, n - 1) /\ Joins(g, parts, n - 1)
  <2>1. \A i \in 1 .. n - 1 : i \in 1 .. n
    BY <1>1
  <2> QED
    BY <1>1, <1>2, <1>3, <2>1 DEF Joins
<1>6. g[n - 1] = f[n - 1]
  <2>1. PICK m \in Nat : m = n - 1
    BY <1>4
  <2>2. g[m] = f[m]
    BY <1>5, <2>1, JoinsAlike
  <2> QED
    BY <2>1, <2>2
<1>7. f[n] = f[n - 1] \o parts[n] /\ g[n] = f[n - 1] \o (parts[n] \o words)
  <2>1. g[n] = g[n - 1] \o longer[n]
    BY <1>3, <1>4
  <2> QED
    BY <1>1, <1>2, <1>4, <1>6, <2>1
<1>8. f[n - 1] \in Seq(Words)
  BY <1>2, <1>4
<1>9. f[n - 1] \o (parts[n] \o words) = (f[n - 1] \o parts[n]) \o words
  <2>1. parts[n] \in Seq(Words)
    BY <1>1
  <2> QED
    BY <1>8, <2>1, Regroup
<1>10. FlattenSeq(longer) = FlattenSeq(parts) \o words
  BY <1>2, <1>3, <1>7, <1>9
<1> QED
  BY <1>10 DEF longer

\* Where something is joined, one of the parts has something in it.
LEMMA FlattenNothing ==
  ASSUME NEW parts \in Seq(Seq(Words)), FlattenSeq(parts) # <<>>
  PROVE  \E k \in 1 .. Len(parts) : parts[k] # <<>>
<1> DEFINE n == Len(parts)
<1>1. n \in Nat /\ \A i \in 1 .. n : parts[i] \in Seq(Words)
  OBVIOUS
<1>2. PICK f \in [0 .. n -> Seq(Words)] :
          /\ f[0] = <<>>
          /\ \A i \in 1 .. n : f[i] = f[i - 1] \o parts[i]
          /\ FlattenSeq(parts) = f[n]
  BY FlattenSteps
<1> HIDE DEF n
<1> SUFFICES ASSUME \A k \in 1 .. n : parts[k] = <<>>
             PROVE  FALSE
  BY DEF n
<1> DEFINE S == {k \in 0 .. n : f[k] = <<>>}
<1>3. 0 \in S
  BY <1>1, <1>2
<1>4. ASSUME NEW k \in 0 .. n - 1, k \in S
      PROVE  k + 1 \in S
  <2>1. PICK i \in 1 .. n : i = k + 1 /\ i - 1 = k /\ i \in 0 .. n
    BY <1>1
  <2>2. f[i] = f[i - 1] \o parts[i] /\ parts[i] = <<>> /\ f[i - 1] = <<>>
    BY <1>2, <1>4, <2>1
  <2>3. <<>> \o <<>> = <<>>
    OBVIOUS
  <2> QED
    BY <2>1, <2>2, <2>3
<1> HIDE DEF S
<1>5. \A k \in 0 .. n : k \in S
  BY <1>1, <1>3, <1>4, UpTo
<1>6. n \in S
  BY <1>1, <1>5
<1> QED
  BY <1>2, <1>6 DEF S

-----------------------------------------------------------------------------
(* The greedy loop. *)

\* Parts that the greedy loop may have made: none is empty, one that is longer than
\* the limit is a single word, and the first word of the next one does not fit.
Tight(parts, limit) ==
    /\ parts \in Seq(Seq(Words))
    /\ \A j \in 1 .. Len(parts) :
          parts[j] # <<>> /\ (Size(parts[j]) <= limit \/ Len(parts[j]) = 1)
    /\ \A j \in 2 .. Len(parts) : Size(parts[j - 1]) + 1 + Runes[parts[j][1]] > limit

\* A word more, in the part under construction.
LEMMA WordFits ==
  ASSUME NEW limit \in Int, NEW parts, Tight(parts, limit), NEW w \in Words,
         FitsLast(parts, <<w>>, limit)
  PROVE  Tight(AddToLast(parts, <<w>>), limit)
<1> DEFINE n == Len(parts)
           longer == AddToLast(parts, <<w>>)
<1>1. /\ parts \in Seq(Seq(Words)) /\ parts # <<>> /\ <<w>> \in Seq(Words)
      /\ n \in Nat \ {0}
      /\ Size(Last(parts)) + 1 + Size(<<w>>) <= limit
  BY DEF Tight, FitsLast
<1>2. /\ longer \in Seq(Seq(Words)) /\ Len(longer) = n
      /\ \A j \in 1 .. n - 1 : longer[j] = parts[j]
      /\ Last(parts) = parts[n] /\ Last(parts) \in Seq(Words)
      /\ longer[n] = Last(parts) \o <<w>>
  <2> HIDE DEF longer
  <2>1. /\ longer \in Seq(Seq(Words)) /\ Len(longer) = Len(parts)
        /\ \A j \in 1 .. Len(parts) - 1 : longer[j] = parts[j]
        /\ Last(parts) = parts[Len(parts)]
        /\ Last(parts) \in Seq(Words)
        /\ longer[Len(parts)] = Last(parts) \o <<w>>
    BY <1>1, Adding DEF longer
  <2> QED
    BY <2>1
<1>3. Size(longer[n]) <= limit
  <2>1. Size(longer[n]) = Size(Last(parts)) + 1 + Runes[w]
    BY <1>2, SizeWithWord
  <2> QED
    BY <1>1, <2>1, SizeOfWord
<1>4. parts[n] # <<>> /\ longer[n][1] = parts[n][1] /\ longer[n] # <<>>
  <2>1. parts[n] # <<>>
    BY <1>1 DEF Tight
  <2> QED
    BY <1>2, <2>1
<1>5. \A j \in 1 .. n : parts[j] # <<>> /\ (Size(parts[j]) <= limit \/ Len(parts[j]) = 1)
  BY DEF Tight
<1>6. \A j \in 2 .. n : Size(parts[j - 1]) + 1 + Runes[parts[j][1]] > limit
  BY DEF Tight
<1> HIDE DEF n, longer
<1>7. ASSUME NEW j \in 1 .. n
      PROVE  longer[j] # <<>> /\ (Size(longer[j]) <= limit \/ Len(longer[j]) = 1)
  <2>1. CASE j = n
    BY <1>3, <1>4, <2>1
  <2>2. CASE j # n
    <3>1. longer[j] = parts[j]
      BY <1>1, <1>2, <2>2
    <3> QED
      BY <1>5, <3>1
  <2> QED
    BY <2>1, <2>2
<1>8. ASSUME NEW j \in 2 .. n
      PROVE  Size(longer[j - 1]) + 1 + Runes[longer[j][1]] > limit
  <2>1. longer[j - 1] = parts[j - 1]
    BY <1>1, <1>2
  <2>2. longer[j][1] = parts[j][1]
    <3>1. CASE j = n
      BY <1>4, <3>1
    <3>2. CASE j # n
      <4>1. longer[j] = parts[j]
        BY <1>1, <1>2, <3>2
      <4> QED
        BY <4>1
    <3> QED
      BY <3>1, <3>2
  <2> QED
    BY <1>6, <2>1, <2>2
<1>9. Tight(longer, limit)
  BY <1>2, <1>7, <1>8 DEF Tight
<1> QED
  BY <1>9 DEF longer

\* A word more, in a part of its own.
LEMMA WordAlone ==
  ASSUME NEW limit \in Int, NEW parts, Tight(parts, limit), NEW w \in Words,
         ~FitsLast(parts, <<w>>, limit)
  PROVE  Tight(Append(parts, <<w>>), limit)
<1> DEFINE n == Len(parts)
           longer == Append(parts, <<w>>)
<1>1. parts \in Seq(Seq(Words)) /\ <<w>> \in Seq(Words) /\ n \in Nat
  BY DEF Tight
<1>2. /\ longer \in Seq(Seq(Words)) /\ Len(longer) = n + 1
      /\ \A j \in 1 .. n : longer[j] = parts[j]
      /\ longer[n + 1] = <<w>>
  BY <1>1
<1>3. n >= 1 => /\ parts[n] \in Seq(Words)
                /\ Size(parts[n]) + 1 + Runes[w] > limit
  <2> SUFFICES ASSUME n >= 1
               PROVE  /\ parts[n] \in Seq(Words)
                      /\ Size(parts[n]) + 1 + Runes[w] > limit
    OBVIOUS
  <2>1. parts # <<>> /\ Last(parts) = parts[n] /\ parts[n] \in Seq(Words)
    BY <1>1 DEF Last
  <2>2. Size(parts[n]) \in Int /\ Size(<<w>>) = Runes[w] /\ Runes[w] \in Nat
    BY <2>1, SizeType, SizeOfWord
  <2> HIDE DEF n
  <2>3. ~(Size(parts[n]) + 1 + Size(<<w>>) <= limit)
    BY <2>1 DEF FitsLast
  <2> QED
    BY <2>1, <2>2, <2>3
<1>4. \A j \in 1 .. n : parts[j] # <<>> /\ (Size(parts[j]) <= limit \/ Len(parts[j]) = 1)
  BY DEF Tight
<1>5. \A j \in 2 .. n : Size(parts[j - 1]) + 1 + Runes[parts[j][1]] > limit
  BY DEF Tight
<1> HIDE DEF n, longer
<1>6. ASSUME NEW j \in 1 .. n + 1
      PROVE  longer[j] # <<>> /\ (Size(longer[j]) <= limit \/ Len(longer[j]) = 1)
  <2>1. CASE j = n + 1
    <3>1. longer[j] = <<w>>
      BY <1>2, <2>1
    <3>2. <<w>> # <<>> /\ Len(<<w>>) = 1
      OBVIOUS
    <3> QED
      BY <3>1, <3>2
  <2>2. CASE j # n + 1
    <3>1. j \in 1 .. n
      BY <1>1, <2>2
    <3> QED
      BY <1>2, <1>4, <3>1
  <2> QED
    BY <2>1, <2>2
<1>7. ASSUME NEW j \in 2 .. n + 1
      PROVE  Size(longer[j - 1]) + 1 + Runes[longer[j][1]] > limit
  <2>1. j - 1 \in 1 .. n
    BY <1>1
  <2>2. longer[j - 1] = parts[j - 1]
    BY <1>2, <2>1
  <2>3. CASE j = n + 1
    <3>1. longer[j][1] = w /\ j - 1 = n /\ n >= 1
      BY <1>1, <1>2, <2>3
    <3> QED
      BY <1>3, <2>2, <3>1
  <2>4. CASE j # n + 1
    <3>1. j \in 1 .. n /\ j \in 2 .. n
      BY <1>1, <2>4
    <3> QED
      BY <1>2, <1>5, <2>2, <3>1
  <2> QED
    BY <2>3, <2>4
<1>8. Tight(longer, limit)
  BY <1>2, <1>6, <1>7 DEF Tight
<1> QED
  BY <1>8 DEF longer

\* The loop keeps its parts tight, and adds each word at the end.
LEMMA PutWordTight ==
  ASSUME NEW limit \in Int, NEW parts, Tight(parts, limit), NEW w \in Words
  PROVE  /\ Tight(PutWord(parts, w, limit), limit)
         /\ FlattenSeq(PutWord(parts, w, limit)) = FlattenSeq(parts) \o <<w>>
<1>1. parts \in Seq(Seq(Words)) /\ <<w>> \in Seq(Words)
  BY DEF Tight
<1>2. CASE FitsLast(parts, <<w>>, limit)
  <2>1. PutWord(parts, w, limit) = AddToLast(parts, <<w>>) /\ parts # <<>>
    BY <1>2 DEF PutWord, FitsLast
  <2> QED
    BY <1>1, <1>2, <2>1, WordFits, FlattenAddToLast
<1>3. CASE ~FitsLast(parts, <<w>>, limit)
  <2>1. PutWord(parts, w, limit) = Append(parts, <<w>>)
    BY <1>3 DEF PutWord
  <2>2. FlattenSeq(Append(parts, <<w>>)) = FlattenSeq(parts) \o <<w>>
    BY <1>1, FlattenAppend
  <2>3. Tight(Append(parts, <<w>>), limit)
    BY <1>3, WordAlone
  <2> QED
    BY <2>1, <2>2, <2>3
<1> QED
  BY <1>2, <1>3

\* A sequence grows by one element at a time.
LEMMA NextOfSequence ==
  ASSUME NEW S, NEW s \in Seq(S), NEW i \in 1 .. Len(s)
  PROVE  /\ SubSeq(s, 1, i) = Append(SubSeq(s, 1, i - 1), s[i])
         /\ SubSeq(s, 1, i) = SubSeq(s, 1, i - 1) \o <<s[i]>>
<1>1. PICK k \in Nat : k = i - 1 /\ i \in Nat /\ k <= Len(s) /\ i <= Len(s)
  OBVIOUS
<1>2. SubSeq(s, 1, i) = [j \in 1 .. i |-> s[j]] /\ SubSeq(s, 1, k) = [j \in 1 .. k |-> s[j]]
  BY <1>1
<1>3. SubSeq(s, 1, k) \in Seq(S) /\ Len(SubSeq(s, 1, k)) = k /\ s[i] \in S
  BY <1>1
<1> QED
  BY <1>1, <1>2, <1>3

\* What the greedy loop makes of a text: tight parts that have all its words.
LEMMA GreedyTight ==
  ASSUME NEW text \in Seq(Words), NEW limit \in Int
  PROVE  Tight(Greedy(text, limit), limit) /\ FlattenSeq(Greedy(text, limit)) = text
<1> DEFINE n == Len(text)
<1>1. /\ n \in Nat /\ \A i \in 1 .. n : text[i] \in Words
      /\ SubSeq(text, 1, n) = text /\ SubSeq(text, 1, 0) = <<>>
  OBVIOUS
<1>2. \A i \in 1 .. n : SubSeq(text, 1, i) = SubSeq(text, 1, i - 1) \o <<text[i]>>
  BY NextOfSequence
<1>3. PICK f \in [0 .. n -> Seq(Seq(Words))] :
          /\ f[0] = <<>>
          /\ \A i \in 1 .. n : f[i] = PutWord(f[i - 1], text[i], limit)
          /\ Greedy(text, limit) = f[n]
  BY GreedySteps
<1> HIDE DEF n
<1> DEFINE S == {k \in 0 .. n : /\ Tight(f[k], limit)
                                /\ FlattenSeq(f[k]) = SubSeq(text, 1, k)}
<1>4. 0 \in S
  <2>1. Tight(<<>>, limit)
    BY DEF Tight
  <2> QED
    BY <1>1, <1>3, <2>1, FlattenEmpty
<1>5. ASSUME NEW k \in 0 .. n - 1, k \in S
      PROVE  k + 1 \in S
  <2>1. PICK i \in 1 .. n : i = k + 1 /\ i - 1 = k /\ i \in 0 .. n
    BY <1>1
  <2>2. f[i] = PutWord(f[k], text[i], limit)
    BY <1>3, <2>1
  <2>3. Tight(f[k], limit) /\ FlattenSeq(f[k]) = SubSeq(text, 1, k) /\ text[i] \in Words
    BY <1>1, <1>5
  <2>4. Tight(f[i], limit) /\ FlattenSeq(f[i]) = SubSeq(text, 1, k) \o <<text[i]>>
    <3>1. PICK parts : parts = f[k]
      OBVIOUS
    <3>2. PICK w \in Words : w = text[i]
      BY <2>3
    <3>3. Tight(parts, limit) /\ FlattenSeq(parts) = SubSeq(text, 1, k)
      BY <2>3, <3>1
    <3>4. /\ Tight(PutWord(parts, w, limit), limit)
          /\ FlattenSeq(PutWord(parts, w, limit)) = FlattenSeq(parts) \o <<w>>
      BY <3>3, PutWordTight
    <3> QED
      BY <2>2, <3>1, <3>2, <3>3, <3>4
  <2>5. SubSeq(text, 1, i) = SubSeq(text, 1, i - 1) \o <<text[i]>>
    BY <1>2
  <2>6. FlattenSeq(f[i]) = SubSeq(text, 1, i)
    BY <2>1, <2>4, <2>5
  <2> QED
    BY <2>1, <2>4, <2>6
<1> HIDE DEF S
<1>6. \A k \in 0 .. n : k \in S
  BY <1>1, <1>4, <1>5, UpTo
<1>7. n \in S
  BY <1>1, <1>6
<1> QED
  BY <1>1, <1>3, <1>7 DEF S

-----------------------------------------------------------------------------
(* Merging short parts. *)

\* No part can take the one after it.
Apart(parts, limit) ==
    /\ parts \in Seq(Seq(Words))
    /\ \A j \in 2 .. Len(parts) : Size(parts[j - 1]) + 1 + Size(parts[j]) > limit

\* Tight parts are such parts: one that cannot take the first word of the next cannot
\* take the next.
LEMMA TightApart ==
  ASSUME NEW limit \in Int, NEW parts, Tight(parts, limit)
  PROVE  Apart(parts, limit)
<1>1. parts \in Seq(Seq(Words))
  BY DEF Tight
<1>2. ASSUME NEW j \in 2 .. Len(parts)
      PROVE  Size(parts[j - 1]) + 1 + Size(parts[j]) > limit
  <2>1. parts[j - 1] \in Seq(Words) /\ parts[j] \in Seq(Words) /\ j \in 1 .. Len(parts)
    BY <1>1
  <2>2. parts[j] # <<>> /\ Size(parts[j - 1]) + 1 + Runes[parts[j][1]] > limit
    BY <2>1 DEF Tight
  <2>3. Size(parts[j - 1]) \in Int /\ Size(parts[j]) \in Int
    BY <2>1, SizeType
  <2>4. Runes[parts[j][1]] \in Int /\ Size(parts[j]) >= Runes[parts[j][1]]
    BY <2>1, <2>2, SizeOfFirst
  <2> QED
    BY <2>2, <2>3, <2>4
<1> QED
  BY <1>1, <1>2 DEF Apart

\* Nothing is merged into parts that are apart, whatever the minimum size.
LEMMA MergeShortIsIdle ==
  ASSUME NEW limit \in Int, NEW minSize \in Int,
         NEW parts \in Seq(Seq(Words)), Apart(parts, limit)
  PROVE  MergeShort(parts, minSize, limit) = parts
<1> DEFINE n == Len(parts)
<1>1. /\ n \in Nat /\ \A i \in 1 .. n : parts[i] \in Seq(Words)
      /\ SubSeq(parts, 1, n) = parts /\ SubSeq(parts, 1, 0) = <<>>
  OBVIOUS
<1>2. \A i \in 1 .. n : Append(SubSeq(parts, 1, i - 1), parts[i]) = SubSeq(parts, 1, i)
  BY NextOfSequence
<1>3. PICK f : /\ f[0] = <<>>
               /\ \A i \in 1 .. n : f[i] = PutPart(f[i - 1], parts[i], minSize, limit)
               /\ MergeShort(parts, minSize, limit) = f[n]
  <2>1. PICK f : Merges(f, parts, minSize, limit)
    BY MergeSteps
  <2> QED
    BY <2>1 DEF Merges
<1>4. ASSUME NEW i \in 1 .. n
      PROVE  ~FitsLast(SubSeq(parts, 1, i - 1), parts[i], limit)
  <2>1. CASE i = 1
    BY <2>1 DEF FitsLast
  <2>2. CASE i # 1
    <3>1. i \in 2 .. n /\ i - 1 \in 1 .. n
      BY <1>1, <2>2
    <3>2. Last(SubSeq(parts, 1, i - 1)) = parts[i - 1]
      BY <1>1, <3>1 DEF Last
    <3>3. parts[i] \in Seq(Words) /\ parts[i - 1] \in Seq(Words)
      BY <1>1, <3>1
    <3>4. Size(parts[i]) \in Int /\ Size(parts[i - 1]) \in Int
      BY <3>3, SizeType
    <3>5. Size(parts[i - 1]) + 1 + Size(parts[i]) > limit
      BY <3>1 DEF Apart
    <3> QED
      BY <3>2, <3>4, <3>5 DEF FitsLast
  <2> QED
    BY <2>1, <2>2
<1> HIDE DEF n
<1> DEFINE S == {k \in 0 .. n : f[k] = SubSeq(parts, 1, k)}
<1>5. 0 \in S
  <2>1. f[0] = SubSeq(parts, 1, 0) /\ 0 \in 0 .. n
    BY <1>1, <1>3
  <2> QED
    BY <2>1
<1>6. ASSUME NEW k \in 0 .. n - 1, k \in S
      PROVE  k + 1 \in S
  <2>1. PICK i \in 1 .. n : i = k + 1 /\ i - 1 = k /\ i \in 0 .. n
    BY <1>1
  <2>2. f[i] = PutPart(f[i - 1], parts[i], minSize, limit) /\ f[i - 1] = SubSeq(parts, 1, i - 1)
    BY <1>3, <1>6, <2>1
  <2>3. f[i] = Append(SubSeq(parts, 1, i - 1), parts[i])
    BY <1>4, <2>2 DEF PutPart
  <2> QED
    BY <1>2, <2>1, <2>3
<1> HIDE DEF S
<1>7. \A k \in 0 .. n : k \in S
  BY <1>1, <1>5, <1>6, UpTo
<1>8. n \in S
  BY <1>1, <1>7
<1> QED
  BY <1>1, <1>3, <1>8 DEF S

-----------------------------------------------------------------------------
(* segmentContent. *)

\* The configurations are typed, and a positive limit goes with segments.
LEMMA BotType ==
  ASSUME NEW b \in Bots
  PROVE  /\ b.limit \in Int /\ b.minSize \in Int /\ b.segment \in BOOLEAN
         /\ b.signed \in BOOLEAN /\ b.delay \in BOOLEAN
         /\ b.segment => b.limit > 0
BY DispatchAssumption DEF Bots, Valid

\* A text that is not cut is one part.
LEMMA OnePart ==
  ASSUME NEW text \in Seq(Words), NEW limit \in Int
  PROVE  Apart(<<text>>, limit) /\ FlattenSeq(<<text>>) = text
<1>1. <<text>> \in Seq(Seq(Words)) /\ Len(<<text>>) = 1 /\ 2 .. 1 = {}
  OBVIOUS
<1>2. <<>> \in Seq(Seq(Words)) /\ Append(<<>>, text) = <<text>> /\ <<>> \o text = text
  OBVIOUS
<1>3. FlattenSeq(Append(<<>>, text)) = FlattenSeq(<<>>) \o text
  BY <1>2, FlattenAppend
<1> QED
  BY <1>1, <1>2, <1>3, FlattenEmpty DEF Apart

\* Merging never changes what was cut: text_segmentation_min_size has no effect.
LEMMA MergeIsIdle ==
  ASSUME NEW text \in Seq(Words), NEW b \in Bots
  PROVE  Merge(Split(text, b), b) = Split(text, b)
<1>1. b.limit \in Int /\ b.minSize \in Int
  BY BotType
<1>2. Apart(Split(text, b), b.limit)
  <2>1. CASE Whole(text, b)
    BY <1>1, <2>1, OnePart DEF Split
  <2>2. CASE ~Whole(text, b)
    <3>1. Tight(Greedy(text, b.limit), b.limit)
      BY <1>1, GreedyTight
    <3>2. Apart(Greedy(text, b.limit), b.limit)
      BY <1>1, <3>1, TightApart
    <3> QED
      BY <2>2, <3>2 DEF Split
  <2> QED
    BY <2>1, <2>2
<1>3. MergeShort(Split(text, b), b.minSize, b.limit) = Split(text, b)
  <2>1. Split(text, b) \in Seq(Seq(Words))
    BY <1>2 DEF Apart
  <2> QED
    BY <1>1, <1>2, <2>1, MergeShortIsIdle
<1> QED
  BY <1>3 DEF Merge

-----------------------------------------------------------------------------
(* The greedy loop makes as few parts as can be. *)

\* How many parts of a cut start with one of the first k words.
StartsUpTo(starts, k) == Cardinality(starts \cap (1 .. k))

\* The greedy parts of the first k words are no more than those of the cut, and
\* where they are as many, their last one starts no earlier than the cut's.
Ahead(parts, text, starts, k) ==
    /\ parts \in Seq(Seq(Words))
    /\ parts # <<>>
    /\ \E p \in 1 .. k :
          /\ Last(parts) = SubSeq(text, p, k)
          /\ \/ Len(parts) < StartsUpTo(starts, k)
             \/ Len(parts) = StartsUpTo(starts, k) /\ starts \cap (p + 1 .. k) = {}

\* One more word starts a part of the cut or it does not.
LEMMA StartsSteps ==
  ASSUME NEW n \in Nat, NEW starts \in SUBSET (1 .. n), NEW k \in Nat, k + 1 <= n
  PROVE  /\ StartsUpTo(starts, k) \in Nat
         /\ k + 1 \in starts => StartsUpTo(starts, k + 1) = StartsUpTo(starts, k) + 1
         /\ k + 1 \notin starts => StartsUpTo(starts, k + 1) = StartsUpTo(starts, k)
<1> DEFINE S == starts \cap (1 .. k)
<1>1. IsFiniteSet(S) /\ Cardinality(S) \in Nat
  <2>1. IsFiniteSet(1 .. k)
    BY FS_Interval
  <2>2. S \in SUBSET (1 .. k)
    OBVIOUS
  <2>3. IsFiniteSet(S)
    BY <2>1, <2>2, FS_Subset
  <2> QED
    BY <2>3, FS_CardinalityType
<1>2. k + 1 \notin S
  OBVIOUS
<1>3. CASE k + 1 \in starts
  <2>1. starts \cap (1 .. k + 1) = S \cup {k + 1}
    BY <1>3
  <2> HIDE DEF S
  <2>2. Cardinality(S \cup {k + 1}) = Cardinality(S) + 1
    BY <1>1, <1>2, FS_AddElement
  <2> QED
    BY <1>1, <1>3, <2>1, <2>2 DEF StartsUpTo, S
<1>4. CASE k + 1 \notin starts
  <2>1. starts \cap (1 .. k + 1) = S
    BY <1>4
  <2> QED
    BY <1>1, <1>4, <2>1 DEF StartsUpTo
<1> QED
  BY <1>3, <1>4

\* A run of words with the word after it.
LEMMA LongerRun ==
  ASSUME NEW text \in Seq(Words), NEW p \in 1 .. Len(text), NEW k \in p .. Len(text),
         k + 1 <= Len(text)
  PROVE  /\ SubSeq(text, p, k) \in Seq(Words)
         /\ SubSeq(text, p, k + 1) = SubSeq(text, p, k) \o <<text[k + 1]>>
<1> DEFINE run == SubSeq(text, p, k)
           longer == SubSeq(text, p, k + 1)
<1>1. /\ run \in Seq(Words) /\ Len(run) = k - p + 1
      /\ \A j \in 1 .. k - p + 1 : run[j] = text[p + j - 1]
  OBVIOUS
<1>2. /\ longer \in Seq(Words) /\ Len(longer) = k - p + 2
      /\ \A j \in 1 .. k - p + 2 : longer[j] = text[p + j - 1]
  OBVIOUS
<1>3. text[k + 1] \in Words
  OBVIOUS
<1> DEFINE both == run \o <<text[k + 1]>>
<1>4. /\ both \in Seq(Words) /\ Len(both) = k - p + 2
      /\ \A j \in 1 .. k - p + 1 : both[j] = run[j]
      /\ both[k - p + 2] = text[k + 1]
  <2> HIDE DEF run
  <2>1. PICK m \in Nat : m = k - p + 1 /\ m = Len(run)
    BY <1>1
  <2>2. ASSUME NEW s \in Seq(Words), NEW w \in Words
        PROVE  /\ Len(s \o <<w>>) = Len(s) + 1 /\ (s \o <<w>>)[Len(s) + 1] = w
               /\ \A j \in 1 .. Len(s) : (s \o <<w>>)[j] = s[j]
    OBVIOUS
  <2>3. both \in Seq(Words)
    BY <1>1, <1>3
  <2>4. Len(both) = m + 1 /\ both[m + 1] = text[k + 1] /\ \A j \in 1 .. m : both[j] = run[j]
    <3>1. /\ Len(both) = Len(run) + 1 /\ both[Len(run) + 1] = text[k + 1]
          /\ \A j \in 1 .. Len(run) : both[j] = run[j]
      BY <1>1, <1>3, <2>2, Zenon
    <3> QED
      BY <2>1, <3>1
  <2>5. k - p + 2 = m + 1
    BY <2>1
  <2> QED
    BY <2>1, <2>3, <2>4, <2>5
<1> HIDE DEF run, longer, both
<1>5. \A j \in 1 .. k - p + 2 : longer[j] = both[j]
  <2> SUFFICES ASSUME NEW j \in 1 .. k - p + 2
               PROVE  longer[j] = both[j]
    OBVIOUS
  <2>1. CASE j = k - p + 2
    <3>1. p + j - 1 = k + 1
      BY <2>1
    <3> QED
      BY <1>2, <1>4, <2>1, <3>1
  <2>2. CASE j # k - p + 2
    <3>1. j \in 1 .. k - p + 1
      BY <2>2
    <3> QED
      BY <1>1, <1>2, <1>4, <3>1
  <2> QED
    BY <2>1, <2>2
<1>6. longer = both
  <2>1. Len(longer) = Len(both) /\ \A j \in 1 .. Len(longer) : longer[j] = both[j]
    BY <1>2, <1>4, <1>5
  <2>2. longer \in Seq(Words) /\ both \in Seq(Words)
    BY <1>2, <1>4
  <2> QED
    BY <2>1, <2>2
<1> QED
  BY <1>1, <1>6 DEF run, longer, both

\* A run of one word.
LEMMA ShortRun ==
  ASSUME NEW text \in Seq(Words), NEW k \in 1 .. Len(text)
  PROVE  SubSeq(text, k, k) = <<text[k]>>
<1>1. PICK i \in Nat : i = k /\ i \in 1 .. Len(text) /\ i - i + 1 = 1
  OBVIOUS
<1>2. SubSeq(text, i, i) = [j \in 1 .. 1 |-> text[i + j - 1]]
  BY <1>1
<1>3. \A j \in 1 .. 1 : text[i + j - 1] = text[i]
  BY <1>1
<1> QED
  BY <1>1, <1>2, <1>3

\* A word keeps the greedy loop ahead of a cut within the limit.
LEMMA PutWordAhead ==
  ASSUME NEW text \in Seq(Words), NEW limit \in Int, NEW starts \in SUBSET (1 .. Len(text)),
         KeepsTo(limit, text, starts), NEW k \in 1 .. Len(text), k + 1 <= Len(text),
         NEW parts, Ahead(parts, text, starts, k)
  PROVE  Ahead(PutWord(parts, text[k + 1], limit), text, starts, k + 1)
<1> DEFINE w == text[k + 1]
           more == PutWord(parts, w, limit)
           c == StartsUpTo(starts, k)
           d == StartsUpTo(starts, k + 1)
<1>1. /\ Len(text) \in Nat /\ k \in Nat /\ k + 1 \in 1 .. Len(text)
      /\ w \in Words /\ <<w>> \in Seq(Words)
  OBVIOUS
<1>2. PICK p \in 1 .. k :
         /\ Last(parts) = SubSeq(text, p, k)
         /\ Len(parts) < c \/ (Len(parts) = c /\ starts \cap (p + 1 .. k) = {})
  BY DEF Ahead
<1>3. parts \in Seq(Seq(Words)) /\ parts # <<>> /\ Len(parts) \in Nat
  BY DEF Ahead
<1>4. c \in Nat /\ (k + 1 \in starts => d = c + 1) /\ (k + 1 \notin starts => d = c)
  BY <1>1, StartsSteps
<1>5. /\ SubSeq(text, p, k) \in Seq(Words)
      /\ SubSeq(text, p, k + 1) = SubSeq(text, p, k) \o <<w>>
  BY <1>1, LongerRun
<1> HIDE DEF w, c, d
<1>6. CASE FitsLast(parts, <<w>>, limit)
  <2>1. more = AddToLast(parts, <<w>>)
    BY <1>6 DEF PutWord
  <2> HIDE DEF more
  <2>2. /\ more \in Seq(Seq(Words)) /\ Len(more) = Len(parts)
        /\ more[Len(parts)] = Last(parts) \o <<w>>
    BY <1>1, <1>3, <2>1, Adding
  <2>3. more # <<>> /\ Last(more) = SubSeq(text, p, k + 1)
    BY <1>2, <1>3, <1>5, <2>2 DEF Last
  <2>4. Len(more) < d \/ (Len(more) = d /\ starts \cap (p + 1 .. k + 1) = {})
    <3>1. CASE k + 1 \in starts
      <4>1. Len(parts) <= c
        BY <1>2, <1>3, <1>4
      <4>2. d = c + 1
        BY <1>4, <3>1
      <4> QED
        BY <1>3, <1>4, <2>2, <4>1, <4>2
    <3>2. CASE k + 1 \notin starts
      <4>1. p + 1 .. k + 1 = (p + 1 .. k) \cup {k + 1}
        BY <1>1
      <4> QED
        BY <1>2, <1>3, <1>4, <2>2, <3>2, <4>1
    <3> QED
      BY <3>1, <3>2
  <2>5. p \in 1 .. k + 1
    BY <1>1
  <2>6. \E q \in 1 .. k + 1 :
           /\ Last(more) = SubSeq(text, q, k + 1)
           /\ \/ Len(more) < d
              \/ Len(more) = d /\ starts \cap (q + 1 .. k + 1) = {}
    BY <2>3, <2>4, <2>5
  <2> QED
    BY <2>2, <2>3, <2>6 DEF Ahead, more, w, d
<1>7. CASE ~FitsLast(parts, <<w>>, limit)
  <2>1. more = Append(parts, <<w>>)
    BY <1>7 DEF PutWord
  <2> HIDE DEF more
  <2>2. /\ more \in Seq(Seq(Words)) /\ Len(more) = Len(parts) + 1
        /\ more # <<>> /\ Last(more) = <<w>>
    <3>1. /\ more \in Seq(Seq(Words)) /\ Len(more) = Len(parts) + 1
          /\ more[Len(parts) + 1] = <<w>>
      BY <1>1, <1>3, <2>1
    <3>2. Last(more) = more[Len(more)]
      BY DEF Last
    <3>3. more # <<>>
      BY <1>3, <3>1
    <3> QED
      BY <3>1, <3>2, <3>3
  <2>3. SubSeq(text, k + 1, k + 1) = <<w>>
    BY <1>1, ShortRun DEF w
  <2>4. Len(parts) + 1 <= d
    <3>1. CASE k + 1 \in starts
      BY <1>2, <1>3, <1>4, <3>1
    <3>2. CASE k + 1 \notin starts /\ Len(parts) < c
      BY <1>3, <1>4, <3>2
    <3>3. ASSUME k + 1 \notin starts, Len(parts) = c, starts \cap (p + 1 .. k) = {}
          PROVE  FALSE
      <4>1. starts \cap (p + 1 .. k + 1) = {}
        BY <1>1, <3>3
      <4>2. p \in DOMAIN text /\ k + 1 \in DOMAIN text /\ p < k + 1
        BY <1>1
      <4>3. Size(SubSeq(text, p, k + 1)) <= limit
        BY <4>1, <4>2 DEF KeepsTo
      <4>4. Size(SubSeq(text, p, k) \o <<w>>) = Size(SubSeq(text, p, k)) + 1 + Runes[w]
        BY <1>1, <1>5, SizeWithWord
      <4>5. Size(<<w>>) = Runes[w]
        BY <1>1, SizeOfWord
      <4>6. Size(Last(parts)) + 1 + Size(<<w>>) <= limit
        BY <1>2, <1>5, <4>3, <4>4, <4>5
      <4> QED
        BY <1>3, <1>7, <4>6 DEF FitsLast
    <3> QED
      BY <1>2, <3>1, <3>2, <3>3
  <2>5. Len(more) < d \/ (Len(more) = d /\ starts \cap ((k + 1) + 1 .. k + 1) = {})
    <3>1. (k + 1) + 1 .. k + 1 = {}
      BY <1>1
    <3>2. d \in Nat
      BY <1>4
    <3> QED
      BY <1>3, <2>2, <2>4, <3>1, <3>2
  <2>6. Last(more) = SubSeq(text, k + 1, k + 1)
    BY <2>2, <2>3
  <2>7. k + 1 \in 1 .. k + 1
    BY <1>1
  <2> QED
    BY <2>2, <2>5, <2>6, <2>7 DEF Ahead, more, w, d
<1> QED
  BY <1>6, <1>7

\* After the first word, the greedy loop and every cut have one part.
LEMMA FirstWordAhead ==
  ASSUME NEW text \in Seq(Words), text # <<>>, NEW limit \in Int,
         NEW starts \in SUBSET (1 .. Len(text)), 1 \in starts
  PROVE  Ahead(PutWord(<<>>, text[1], limit), text, starts, 1)
<1>1. 1 \in 1 .. Len(text) /\ text[1] \in Words
  OBVIOUS
<1>2. PutWord(<<>>, text[1], limit) = <<<<text[1]>>>>
  BY DEF PutWord, FitsLast
<1>3. StartsUpTo(starts, 1) = 1
  <2>1. starts \cap (1 .. 1) = {1}
    OBVIOUS
  <2> QED
    BY <2>1, FS_Singleton DEF StartsUpTo
<1>4. /\ <<<<text[1]>>>> \in Seq(Seq(Words)) /\ <<<<text[1]>>>> # <<>>
      /\ Len(<<<<text[1]>>>>) = 1 /\ Last(<<<<text[1]>>>>) = <<text[1]>>
  BY <1>1 DEF Last
<1>5. SubSeq(text, 1, 1) = <<text[1]>>
  BY <1>1, ShortRun
<1>6. 1 + 1 .. 1 = {} /\ 1 \in 1 .. 1
  OBVIOUS
<1> QED
  BY <1>2, <1>3, <1>4, <1>5, <1>6 DEF Ahead

\* No cut within the limit has fewer parts than the greedy loop makes.
LEMMA GreedyIsFewest ==
  ASSUME NEW text \in Seq(Words), text # <<>>, NEW limit \in Int, NEW starts \in Cuts(text),
         KeepsTo(limit, text, starts)
  PROVE  Len(Greedy(text, limit)) <= Cardinality(starts)
<1> DEFINE n == Len(text)
<1>1. n \in Nat /\ n >= 1 /\ n \in 1 .. n
  OBVIOUS
<1>2. starts \in SUBSET (1 .. n) /\ 1 \in starts /\ starts \cap (1 .. n) = starts
  <2>1. PICK others \in SUBSET (2 .. n) : starts = {1} \cup others
    BY DEF Cuts
  <2>2. \A i \in 2 .. n : i \in 1 .. n
    OBVIOUS
  <2> HIDE DEF n
  <2>3. 1 \in 1 .. n
    BY <1>1
  <2> QED
    BY <2>1, <2>2, <2>3
<1>3. PICK f \in [0 .. n -> Seq(Seq(Words))] :
         /\ f[0] = <<>>
         /\ \A i \in 1 .. n : f[i] = PutWord(f[i - 1], text[i], limit)
         /\ Greedy(text, limit) = f[n]
  BY GreedySteps
<1> DEFINE S == {m \in 0 .. n - 1 : Ahead(f[m + 1], text, starts, m + 1)}
<1>4. 0 \in S
  <2>1. 1 \in 1 .. n /\ 1 - 1 = 0 /\ 0 + 1 = 1 /\ 0 \in 0 .. n - 1
    BY <1>1
  <2>2. f[1] = PutWord(<<>>, text[1], limit)
    BY <1>3, <2>1
  <2>3. Ahead(f[1], text, starts, 1)
    BY <1>2, <2>2, FirstWordAhead
  <2> QED
    BY <2>1, <2>3
<1>5. ASSUME NEW m \in 0 .. (n - 1) - 1, m \in S
      PROVE  m + 1 \in S
  <2>1. PICK k \in 1 .. n : k = m + 1 /\ k + 1 <= n
    BY <1>1
  <2>2. k + 1 \in 1 .. n /\ (k + 1) - 1 = k /\ m + 1 \in 0 .. n - 1
    BY <1>1, <2>1
  <2>3. Ahead(f[k], text, starts, k)
    BY <1>5, <2>1
  <2>4. f[k + 1] = PutWord(f[k], text[k + 1], limit)
    BY <1>3, <2>2
  <2> HIDE DEF n
  <2>5. Ahead(f[k + 1], text, starts, k + 1)
    BY <1>2, <2>1, <2>3, <2>4, PutWordAhead DEF n
  <2> QED
    BY <2>1, <2>2, <2>5
<1> HIDE DEF S
<1>6. n - 1 \in S
  <2> HIDE DEF n
  <2>1. PICK N \in Nat : N = n - 1 /\ N \in 0 .. N
    BY <1>1
  <2>2. \A m \in 0 .. N : m \in S
    BY <1>4, <1>5, <2>1, UpTo
  <2> QED
    BY <2>1, <2>2
<1>7. Ahead(f[n], text, starts, n)
  <2>1. (n - 1) + 1 = n
    BY <1>1
  <2> QED
    BY <1>6, <2>1 DEF S
<1>8. StartsUpTo(starts, n) = Cardinality(starts)
  BY <1>2 DEF StartsUpTo
<1>9. Cardinality(starts) \in Nat
  <2>1. IsFiniteSet(1 .. n)
    BY <1>1, FS_Interval
  <2>2. IsFiniteSet(starts)
    BY <1>2, <2>1, FS_Subset
  <2> QED
    BY <2>2, FS_CardinalityType
<1>10. Len(f[n]) \in Nat
  BY <1>7 DEF Ahead
<1> QED
  BY <1>3, <1>7, <1>8, <1>9, <1>10 DEF Ahead

-----------------------------------------------------------------------------
(* What segmentContent returns. *)

\* The parts hold every word of the text, once and in order.
LEMMA SplitKeepsText ==
  ASSUME NEW text \in Seq(Words), NEW b \in Bots
  PROVE  Split(text, b) \in Seq(Seq(Words)) /\ FlattenSeq(Split(text, b)) = text
<1>1. b.limit \in Int
  BY BotType
<1>2. CASE Whole(text, b)
  <2>1. FlattenSeq(<<text>>) = text
    BY <1>1, OnePart
  <2> QED
    BY <1>2, <2>1 DEF Split
<1>3. CASE ~Whole(text, b)
  <2>1. Tight(Greedy(text, b.limit), b.limit) /\ FlattenSeq(Greedy(text, b.limit)) = text
    BY <1>1, GreedyTight
  <2>2. Greedy(text, b.limit) \in Seq(Seq(Words))
    BY <2>1 DEF Tight
  <2> QED
    BY <1>3, <2>1, <2>2 DEF Split
<1> QED
  BY <1>2, <1>3

\* With segments, a part longer than the limit is a single word or none.
LEMMA SplitFits ==
  ASSUME NEW text \in Seq(Words), NEW b \in Bots, b.segment
  PROVE  \A k \in DOMAIN Split(text, b) :
            Size(Split(text, b)[k]) <= b.limit \/ Len(Split(text, b)[k]) <= 1
<1>1. b.limit \in Int /\ b.limit > 0
  BY BotType
<1>2. CASE Whole(text, b)
  <2>1. text = <<>> /\ Split(text, b) = <<text>>
    BY <1>1, <1>2 DEF Whole, Split
  <2>2. DOMAIN <<text>> = {1} /\ <<text>>[1] = text
    OBVIOUS
  <2> QED
    BY <2>1, <2>2
<1>3. CASE ~Whole(text, b)
  <2>1. Split(text, b) = Greedy(text, b.limit)
    BY <1>3 DEF Split
  <2> DEFINE parts == Greedy(text, b.limit)
  <2>2. Tight(parts, b.limit)
    BY <1>1, GreedyTight
  <2> HIDE DEF parts
  <2>3. DOMAIN parts = 1 .. Len(parts)
    BY <2>2 DEF Tight
  <2>4. \A k \in DOMAIN parts : Size(parts[k]) <= b.limit \/ Len(parts[k]) <= 1
    <3> SUFFICES ASSUME NEW k \in 1 .. Len(parts)
                 PROVE  Size(parts[k]) <= b.limit \/ Len(parts[k]) <= 1
      BY <2>3
    <3>1. Size(parts[k]) <= b.limit \/ Len(parts[k]) = 1
      BY <2>2 DEF Tight
    <3> QED
      BY <3>1
  <2> QED
    BY <2>1, <2>4 DEF parts
<1> QED
  BY <1>2, <1>3

-----------------------------------------------------------------------------
(* extractMediaURLs. *)

\* The words of text after the i-th are still at the end of residual.
Intact(residual, text, i) ==
    /\ Len(residual) >= Len(text) - i
    /\ \A d \in 0 .. Len(text) - i - 1 : residual[Len(residual) - d] = text[Len(text) - d]

\* Without its i-th word the words after it move one to the front.
LEMMA RemoveAtSteps ==
  ASSUME NEW words \in Seq(Words), NEW i \in 1 .. Len(words)
  PROVE  /\ RemoveAt(words, i) \in Seq(Words)
         /\ Len(RemoveAt(words, i)) = Len(words) - 1
         /\ \A k \in i .. Len(words) - 1 : RemoveAt(words, i)[k] = words[k + 1]
<1> DEFINE n == Len(words)
           a == SubSeq(words, 1, i - 1)
           b == SubSeq(words, i + 1, n)
<1>1. n \in Nat /\ i \in 1 .. n
  OBVIOUS
<1>2. a \in Seq(Words) /\ Len(a) = i - 1
  OBVIOUS
<1>3. b \in Seq(Words) /\ Len(b) = n - i /\ \A j \in 1 .. n - i : b[j] = words[i + j]
  OBVIOUS
<1>4. RemoveAt(words, i) = a \o b
  BY DEF RemoveAt
<1> HIDE DEF a, b, n
<1>5. a \o b \in Seq(Words) /\ Len(a \o b) = n - 1
  <2>1. a \in Seq(Words) /\ b \in Seq(Words)
    BY <1>2, <1>3
  <2>2. Len(a \o b) = Len(a) + Len(b)
    BY <2>1
  <2>3. a \o b \in Seq(Words)
    BY <2>1
  <2> QED
    BY <1>1, <1>2, <1>3, <2>2, <2>3
<1>6. ASSUME NEW k \in i .. n - 1
      PROVE  (a \o b)[k] = words[k + 1]
  <2>1. PICK j \in 1 .. n - i : k = (i - 1) + j /\ k + 1 = i + j
    <3>1. k - (i - 1) \in 1 .. n - i
      BY <1>1
    <3> QED
      BY <1>1, <3>1
  <2>2. (a \o b)[k] = b[j]
    BY <1>1, <1>2, <1>3, <2>1
  <2> QED
    BY <1>3, <2>1, <2>2
<1> QED
  BY <1>4, <1>5, <1>6 DEF n

\* The string of the media URL of a word is found no later than in that word: the
\* words after it stay where they are.
LEMMA RemoveURLIntact ==
  ASSUME NEW residual \in Seq(Words), NEW at \in 1 .. Len(residual),
         URLOf[residual[at]] # Nothing
  PROVE  /\ RemoveURL(residual, URLOf[residual[at]]) \in Seq(Words)
         /\ Intact(RemoveURL(residual, URLOf[residual[at]]), residual, at)
<1> DEFINE u == URLOf[residual[at]]
           S == {k \in DOMAIN residual : <<u, residual[k]>> \in Within}
           n == Len(residual)
<1>1. u \in MediaURLs /\ <<u, residual[at]>> \in Within /\ at \in S /\ n \in Nat
  BY DispatchAssumption
<1>2. at \in 1 .. n
  OBVIOUS
<1>3. PICK first \in S : first = Min(S) /\ first <= at
  <2>1. S \in SUBSET Nat
    OBVIOUS
  <2> HIDE DEF S
  <2>2. PICK m \in S : \A k \in S : m <= k
    BY <1>1, <2>1, LeastNat
  <2>3. Min(S) \in S /\ \A k \in S : Min(S) <= k
    BY <2>2 DEF Min
  <2> QED
    BY <1>1, <2>3
<1>4. first \in 1 .. n /\ first <= at /\ <<u, residual[first]>> \in Within
  BY <1>3
<1> DEFINE left == Torn[<<u, residual[first]>>]
<1>5. left \in Words \cup {Nothing}
  BY <1>4, DispatchAssumption
<1>6. RemoveURL(residual, u) =
        IF left = Nothing THEN RemoveAt(residual, first) ELSE ReplaceAt(residual, first, left)
  BY <1>3 DEF RemoveURL
<1> HIDE DEF u, S, left
<1>7. CASE left = Nothing
  <2> DEFINE r == RemoveAt(residual, first)
  <2>1. r \in Seq(Words) /\ Len(r) = n - 1 /\ \A k \in first .. n - 1 : r[k] = residual[k + 1]
    BY <1>4, RemoveAtSteps
  <2> HIDE DEF r, n
  <2>2. \A d \in 0 .. n - at - 1 : r[Len(r) - d] = residual[n - d]
    <3> SUFFICES ASSUME NEW d \in 0 .. n - at - 1
                 PROVE  r[Len(r) - d] = residual[n - d]
      OBVIOUS
    <3>1. PICK k \in first .. n - 1 : k = n - 1 - d /\ k + 1 = n - d
      <4>1. at \in 1 .. n /\ n - 1 - d \in first .. n - 1
        BY <1>1, <1>4, <1>2
      <4> QED
        BY <1>1, <4>1
    <3>2. r[k] = residual[k + 1]
      BY <2>1
    <3> QED
      BY <2>1, <3>1, <3>2
  <2>3. Intact(r, residual, at)
    BY <1>1, <1>4, <2>1, <2>2 DEF Intact, n
  <2>4. RemoveURL(residual, u) = r
    BY <1>6, <1>7 DEF r
  <2> QED
    BY <2>1, <2>3, <2>4 DEF u
<1>8. CASE left # Nothing
  <2> DEFINE r == [residual EXCEPT ![first] = left]
  <2>1. left \in Words
    BY <1>5, <1>8
  <2>2. r \in Seq(Words) /\ Len(r) = n /\ \A k \in 1 .. n : k # first => r[k] = residual[k]
    BY <1>4, <2>1
  <2> HIDE DEF r, n
  <2>3. \A d \in 0 .. n - at - 1 : r[Len(r) - d] = residual[n - d]
    <3> SUFFICES ASSUME NEW d \in 0 .. n - at - 1
                 PROVE  r[Len(r) - d] = residual[n - d]
      OBVIOUS
    <3>1. PICK k \in 1 .. n : k = n - d /\ k # first
      <4>1. n - d \in 1 .. n /\ n - d # first
        BY <1>1, <1>4, <1>2
      <4> QED
        BY <4>1
    <3> QED
      BY <2>2, <3>1
  <2>4. Intact(r, residual, at)
    BY <1>1, <1>4, <2>2, <2>3 DEF Intact, n
  <2>5. RemoveURL(residual, u) = r
    BY <1>6, <1>8 DEF ReplaceAt, r
  <2> QED
    BY <2>2, <2>4, <2>5 DEF u
<1> QED
  BY <1>7, <1>8

\* What is found while the words of a text are gone through.
Found == [residual : Seq(Words), atts : Seq(MediaURLs)]

\* The loop over the words finds each media URL where it expects it.
LEMMA TakeMediaIntact ==
  ASSUME NEW text \in Seq(Words), NEW i \in 1 .. Len(text), NEW found \in Found,
         Intact(found.residual, text, i - 1)
  PROVE  /\ TakeMedia(found, URLOf[text[i]]) \in Found
         /\ Intact(TakeMedia(found, URLOf[text[i]]).residual, text, i)
<1> DEFINE r == found.residual
           n == Len(text)
           w == text[i]
           u == URLOf[w]
           at == Len(r) - (n - i)
<1>1. r \in Seq(Words) /\ found.atts \in Seq(MediaURLs) /\ n \in Nat /\ w \in Words
  BY DEF Found
<1>0. u \in MediaURLs \cup {Nothing}
  BY <1>1, DispatchAssumption
<1>2. /\ Len(r) >= n - (i - 1)
      /\ \A d \in 0 .. n - (i - 1) - 1 : r[Len(r) - d] = text[n - d]
  BY DEF Intact
<1> HIDE DEF r, n
<1>3. i \in 1 .. n
  BY DEF n
<1>4. at \in 1 .. Len(r) /\ at = Len(r) - (n - i) /\ Len(r) \in Nat
  BY <1>1, <1>2, <1>3
<1> HIDE DEF at
<1>5. r[at] = w
  <2>1. PICK d \in 0 .. n - (i - 1) - 1 : d = n - i
    BY <1>1, <1>3
  <2>2. Len(r) - d = at /\ n - d = i
    BY <1>1, <1>3, <1>4, <2>1
  <2>3. r[Len(r) - d] = text[n - d]
    BY <1>2
  <2> QED
    BY <2>2, <2>3
<1>6. CASE u = Nothing
  <2>1. TakeMedia(found, u) = found
    BY <1>6 DEF TakeMedia
  <2>2. Intact(r, text, i)
    <3>1. Len(r) >= n - i
      BY <1>1, <1>2, <1>3, <1>4
    <3>2. \A d \in 0 .. n - i - 1 : d \in 0 .. n - (i - 1) - 1
      BY <1>1, <1>3
    <3>3. \A d \in 0 .. n - i - 1 : r[Len(r) - d] = text[n - d]
      BY <1>2, <3>2
    <3> QED
      BY <3>1, <3>3 DEF Intact, n
  <2> QED
    BY <2>1, <2>2 DEF r
<1>7. CASE u # Nothing
  <2> DEFINE s == RemoveURL(r, u)
  <2>1. s \in Seq(Words) /\ Intact(s, r, at)
    BY <1>1, <1>4, <1>5, <1>7, RemoveURLIntact
  <2>2. TakeMedia(found, u) = [residual |-> s, atts |-> Append(found.atts, u)]
    BY <1>5, <1>7 DEF TakeMedia, r
  <2> HIDE DEF s
  <2>3. TakeMedia(found, u) \in Found
    <3>1. Append(found.atts, u) \in Seq(MediaURLs)
      BY <1>0, <1>1, <1>7
    <3> QED
      BY <2>1, <2>2, <3>1 DEF Found
  <2>4. /\ Len(s) >= Len(r) - at
        /\ \A d \in 0 .. Len(r) - at - 1 : s[Len(s) - d] = r[Len(r) - d]
    BY <2>1 DEF Intact
  <2>5. Len(r) - at = n - i
    BY <1>1, <1>3, <1>4
  <2>6. \A d \in 0 .. n - i - 1 : s[Len(s) - d] = text[n - d]
    <3> SUFFICES ASSUME NEW d \in 0 .. n - i - 1
                 PROVE  s[Len(s) - d] = text[n - d]
      OBVIOUS
    <3>1. d \in 0 .. Len(r) - at - 1 /\ d \in 0 .. n - (i - 1) - 1
      BY <1>1, <1>3, <2>5
    <3>2. s[Len(s) - d] = r[Len(r) - d]
      BY <2>4, <3>1
    <3>3. r[Len(r) - d] = text[n - d]
      BY <1>2, <3>1
    <3> QED
      BY <3>2, <3>3
  <2>7. Intact(s, text, i)
    BY <2>4, <2>5, <2>6 DEF Intact, n
  <2> QED
    BY <2>2, <2>3, <2>7
<1> QED
  BY <1>6, <1>7

\* The text without its media URLs is a text, the media are media URLs, and where
\* there are none the text is as it was.
LEMMA ExtractType ==
  ASSUME NEW text \in Seq(Words)
  PROVE  /\ ExtractMediaURLs(text) \in Found
         /\ ExtractMediaURLs(text).atts = <<>> => ExtractMediaURLs(text).residual = text
<1> DEFINE n == Len(text)
           start == [residual |-> text, atts |-> <<>>]
           Good(v, i) == Intact(v.residual, text, i) /\ (v.atts = <<>> => v.residual = text)
           Take(v, i) == IF Good(v, i - 1) THEN TakeMedia(v, URLOf[text[i]]) ELSE v
           step == [i \in 1 .. n |-> [v \in Found |-> Take(v, i)]]
           body(f) == [k \in 0 .. n |-> IF k = 0 THEN start ELSE TakeMedia(f[k - 1], URLOf[text[k]])]
           made == CHOOSE f : f = body(f)
<1>1. n \in Nat /\ start \in Found
  BY DEF Found
<1>2. Good(start, 0)
  BY DEF Intact
<1>3. ASSUME NEW i \in 1 .. n, NEW v \in Found
      PROVE  Take(v, i) \in Found
  <2>1. Intact(v.residual, text, i - 1) => TakeMedia(v, URLOf[text[i]]) \in Found
    BY TakeMediaIntact
  <2> QED
    BY <2>1
<1>4. step \in [1 .. n -> [Found -> Found]]
  BY <1>3
<1>5. ASSUME NEW i \in 1 .. n, NEW v \in Found
      PROVE  step[i][v] = Take(v, i)
  OBVIOUS
<1>6. ASSUME NEW i \in 1 .. n, NEW v \in Found, Good(v, i - 1)
      PROVE  Good(TakeMedia(v, URLOf[text[i]]), i)
  <2>1. Intact(TakeMedia(v, URLOf[text[i]]).residual, text, i)
    BY <1>6, TakeMediaIntact
  <2>2. CASE URLOf[text[i]] # Nothing
    <3>0. URLOf[text[i]] \in MediaURLs
      BY <2>2, DispatchAssumption
    <3>1. TakeMedia(v, URLOf[text[i]]).atts = Append(v.atts, URLOf[text[i]]) /\ v.atts \in Seq(MediaURLs)
      BY <2>2 DEF TakeMedia, Found
    <3>2. Append(v.atts, URLOf[text[i]]) # <<>>
      BY <3>0, <3>1
    <3> QED
      BY <2>1, <3>1, <3>2
  <2>3. CASE URLOf[text[i]] = Nothing
    BY <1>6, <2>1, <2>3 DEF TakeMedia
  <2> QED
    BY <2>2, <2>3
<1>7. ExtractMediaURLs(text) = made[n]
  BY DEF ExtractMediaURLs
<1> HIDE DEF step, n, start, Good
<1>8. PICK f : Follows(f, n, Found, start, step)
  BY <1>1, <1>4, RecursiveFunction
<1>9. /\ f \in [0 .. n -> Found] /\ f[0] = start
      /\ \A i \in 1 .. n : f[i] = Take(f[i - 1], i) /\ f[i - 1] \in Found
  <2>1. /\ f \in [0 .. n -> Found] /\ f[0] = start
        /\ \A i \in 1 .. n : f[i] = step[i][f[i - 1]]
    BY <1>8 DEF Follows
  <2>2. \A i \in 1 .. n : f[i - 1] \in Found
    BY <1>1, <2>1
  <2> QED
    BY <1>5, <2>1, <2>2
<1> DEFINE S == {k \in 0 .. n : Good(f[k], k)}
<1>10. \A k \in 0 .. n : k \in S
  <2>1. 0 \in S
    BY <1>1, <1>2, <1>9
  <2>2. ASSUME NEW k \in 0 .. n - 1, k \in S
        PROVE  k + 1 \in S
    <3>1. PICK i \in 1 .. n : i = k + 1 /\ i - 1 = k /\ i \in 0 .. n
      BY <1>1
    <3>2. Good(f[i - 1], i - 1)
      BY <2>2, <3>1
    <3>3. f[i] = TakeMedia(f[i - 1], URLOf[text[i]]) /\ f[i - 1] \in Found
      BY <1>9, <3>2
    <3>4. Good(f[i], i)
      BY <1>6, <3>2, <3>3
    <3> QED
      BY <3>1, <3>4
  <2> HIDE DEF S
  <2> QED
    BY <1>1, <2>1, <2>2, UpTo
<1>11. \A i \in 1 .. n : f[i] = TakeMedia(f[i - 1], URLOf[text[i]])
  <2> SUFFICES ASSUME NEW i \in 1 .. n
               PROVE  f[i] = TakeMedia(f[i - 1], URLOf[text[i]])
    OBVIOUS
  <2>1. PICK k \in 0 .. n : k = i - 1
    BY <1>1
  <2>2. Good(f[i - 1], i - 1)
    BY <1>10, <2>1
  <2> QED
    BY <1>9, <2>2
<1>12. f = body(f)
  <2>1. f = [k \in 0 .. n |-> f[k]]
    BY <1>9
  <2>2. ASSUME NEW k \in 0 .. n
        PROVE  f[k] = IF k = 0 THEN start ELSE TakeMedia(f[k - 1], URLOf[text[k]])
    <3>1. k = 0 \/ k \in 1 .. n
      BY <1>1
    <3> QED
      BY <1>9, <1>11, <3>1
  <2> QED
    BY <2>1, <2>2
<1>13. made = body(made)
  BY <1>12
<1> HIDE DEF made
<1>14. Agrees(made, f, n)
  <2>1. made[0] = f[0]
    BY <1>1, <1>9, <1>13
  <2>2. ASSUME NEW i \in 1 .. n, made[i - 1] = f[i - 1]
        PROVE  made[i] = f[i]
    <3>1. i \in 0 .. n /\ i # 0
      BY <1>1
    <3>2. made[i] = TakeMedia(made[i - 1], URLOf[text[i]])
      BY <1>13, <3>1
    <3> QED
      BY <1>11, <2>2, <3>2
  <2> QED
    BY <2>1, <2>2 DEF Agrees
<1>15. \A k \in 0 .. n : made[k] = f[k]
  BY <1>1, <1>14, SameValues
<1>16. n \in 0 .. n /\ f[n] \in Found
  BY <1>1, <1>9
<1>17. f[n].atts = <<>> => f[n].residual = text
  BY <1>10, <1>16 DEF Good
<1> QED
  BY <1>7, <1>15, <1>16, <1>17

=============================================================================
