--------------------------- MODULE DispatchProofs ---------------------------
(***************************************************************************)
(* The dispatch engine's loop: its inductive invariant, kept by each of    *)
(* its steps, and what follows from it for the answer that is cut and for  *)
(* what the CRM receives.                                                  *)
(***************************************************************************)
EXTENDS SegmentProofs

\* What the loop goes through, and what the CRM receives.
Piece == [signed : BOOLEAN, text : Seq(Words), atts : Seq(MediaURLs)]
Packet == [piece : Piece, late : BOOLEAN]

-----------------------------------------------------------------------------
(* What is planned. *)

\* f goes through the first n pieces and passes the empty ones over.
Plans(f, pieces, n) ==
    /\ f \in [0 .. n -> Seq(Piece)]
    /\ f[0] = <<>>
    /\ \A i \in 1 .. n : f[i] = IF Empty(pieces[i]) THEN f[i - 1] ELSE Append(f[i - 1], pieces[i])

\* Planned goes through the pieces like that (the loop in Dispatch).
LEMMA PlannedSteps ==
  ASSUME NEW pieces \in Seq(Piece), NEW n \in 0 .. Len(pieces)
  PROVE  \E f : Plans(f, pieces, n) /\ Planned(pieces, n) = f[n]
<1> DEFINE Put(v, i) == IF Empty(pieces[i]) THEN v ELSE Append(v, pieces[i])
           body(f) == [k \in 0 .. n |-> IF k = 0 THEN <<>> ELSE
                          IF Empty(pieces[k]) THEN f[k - 1] ELSE Append(f[k - 1], pieces[k])]
           made == CHOOSE f : f = body(f)
           step == [i \in 1 .. n |-> [v \in Seq(Piece) |-> Put(v, i)]]
<1>1. n \in Nat /\ <<>> \in Seq(Piece) /\ \A i \in 1 .. n : pieces[i] \in Piece
  OBVIOUS
<1>2. ASSUME NEW i \in 1 .. n, NEW v \in Seq(Piece)
      PROVE  Put(v, i) \in Seq(Piece)
  <2>1. pieces[i] \in Piece
    BY <1>1
  <2> QED
    BY <2>1
<1>3. step \in [1 .. n -> [Seq(Piece) -> Seq(Piece)]]
  BY <1>2
<1>4. ASSUME NEW i \in 1 .. n, NEW v \in Seq(Piece)
      PROVE  step[i][v] = Put(v, i)
  OBVIOUS
<1>5. Planned(pieces, n) = made[n]
  BY DEF Planned
<1> HIDE DEF step
<1>6. PICK f : Follows(f, n, Seq(Piece), <<>>, step)
  BY <1>1, <1>3, RecursiveFunction
<1>7. /\ f \in [0 .. n -> Seq(Piece)] /\ f[0] = <<>>
      /\ \A i \in 1 .. n : f[i] = Put(f[i - 1], i)
  <2>1. /\ f \in [0 .. n -> Seq(Piece)] /\ f[0] = <<>>
        /\ \A i \in 1 .. n : f[i] = step[i][f[i - 1]]
    BY <1>6 DEF Follows
  <2>2. \A i \in 1 .. n : f[i - 1] \in Seq(Piece)
    BY <1>1, <2>1
  <2> QED
    BY <1>4, <2>1, <2>2
<1>8. f = body(f)
  <2>1. f = [k \in 0 .. n |-> f[k]]
    BY <1>7
  <2>2. ASSUME NEW k \in 0 .. n
        PROVE  f[k] = IF k = 0 THEN <<>> ELSE Put(f[k - 1], k)
    <3>1. k = 0 \/ k \in 1 .. n
      BY <1>1
    <3> QED
      BY <1>7, <3>1
  <2> QED
    BY <2>1, <2>2
<1>9. made = body(made)
  BY <1>8
<1> HIDE DEF made
<1>10. Agrees(made, f, n)
  <2>1. made[0] = f[0]
    BY <1>1, <1>7, <1>9
  <2>2. ASSUME NEW i \in 1 .. n, made[i - 1] = f[i - 1]
        PROVE  made[i] = f[i]
    <3>1. i \in 0 .. n /\ i # 0
      BY <1>1
    <3>2. made[i] = Put(made[i - 1], i)
      BY <1>9, <3>1
    <3> QED
      BY <1>7, <2>2, <3>2
  <2> QED
    BY <2>1, <2>2 DEF Agrees
<1>11. made[n] = f[n]
  <2>1. \A k \in 0 .. n : made[k] = f[k]
    BY <1>1, <1>10, SameValues
  <2> QED
    BY <1>1, <2>1
<1>12. Plans(f, pieces, n)
  BY <1>7 DEF Plans
<1> QED
  BY <1>5, <1>11, <1>12

\* Nothing is planned at first.
LEMMA PlannedNothing ==
  ASSUME NEW pieces \in Seq(Piece)
  PROVE  Planned(pieces, 0) = <<>>
<1>1. 0 \in 0 .. Len(pieces)
  OBVIOUS
<1>2. PICK f : Plans(f, pieces, 0) /\ Planned(pieces, 0) = f[0]
  BY <1>1, PlannedSteps
<1> QED
  BY <1>2 DEF Plans

\* The next piece is planned unless it is empty.
LEMMA PlannedNext ==
  ASSUME NEW pieces \in Seq(Piece), NEW n \in 1 .. Len(pieces)
  PROVE  /\ Planned(pieces, n - 1) \in Seq(Piece)
         /\ Empty(pieces[n]) => Planned(pieces, n) = Planned(pieces, n - 1)
         /\ ~Empty(pieces[n]) => Planned(pieces, n) = Append(Planned(pieces, n - 1), pieces[n])
<1>1. PICK m \in 0 .. Len(pieces) : m = n - 1 /\ m \in Nat
  OBVIOUS
<1>2. n \in 0 .. Len(pieces) /\ n \in Nat /\ n \in 1 .. n
  OBVIOUS
<1>3. PICK f : Plans(f, pieces, n) /\ Planned(pieces, n) = f[n]
  BY <1>2, PlannedSteps
<1>4. PICK g : Plans(g, pieces, m) /\ Planned(pieces, m) = g[m]
  BY PlannedSteps
<1>5. Agrees(g, f, m)
  <2>1. \A i \in 1 .. m : i \in 1 .. n
    BY <1>1
  <2> QED
    BY <1>3, <1>4, <2>1 DEF Plans, Agrees
<1>6. g[m] = f[m]
  <2>1. \A k \in 0 .. m : g[k] = f[k]
    BY <1>1, <1>5, SameValues
  <2> QED
    BY <1>1, <2>1
<1>7. f[n] = IF Empty(pieces[n]) THEN f[n - 1] ELSE Append(f[n - 1], pieces[n])
  BY <1>2, <1>3 DEF Plans
<1>8. g[m] \in Seq(Piece)
  BY <1>1, <1>4 DEF Plans
<1> QED
  BY <1>1, <1>3, <1>4, <1>6, <1>7, <1>8

\* No more is planned than there are pieces.
LEMMA PlannedType ==
  ASSUME NEW pieces \in Seq(Piece), NEW n \in 0 .. Len(pieces)
  PROVE  Planned(pieces, n) \in Seq(Piece) /\ Len(Planned(pieces, n)) <= n
<1> DEFINE N == Len(pieces)
           S == {k \in 0 .. N : /\ Planned(pieces, k) \in Seq(Piece)
                                /\ Len(Planned(pieces, k)) <= k}
<1>1. N \in Nat
  OBVIOUS
<1>2. 0 \in S
  <2>1. Planned(pieces, 0) = <<>> /\ 0 \in 0 .. N
    BY <1>1, PlannedNothing
  <2>2. Planned(pieces, 0) \in Seq(Piece)
    <3>1. <<>> \in Seq(Piece)
      OBVIOUS
    <3> QED
      BY <2>1, <3>1, Zenon
  <2>3. Len(Planned(pieces, 0)) <= 0
    BY <2>1
  <2> QED
    BY <2>1, <2>2, <2>3
<1>3. ASSUME NEW k \in 0 .. N - 1, k \in S
      PROVE  k + 1 \in S
  <2>1. PICK i \in 1 .. N : i = k + 1 /\ i - 1 = k /\ i \in 0 .. N
    BY <1>1
  <2>2. Planned(pieces, k) \in Seq(Piece) /\ Len(Planned(pieces, k)) <= k
    BY <1>3
  <2>3. pieces[i] \in Piece
    BY <2>1
  <2> HIDE DEF N
  <2>4. Planned(pieces, i) = Planned(pieces, k)
        \/ Planned(pieces, i) = Append(Planned(pieces, k), pieces[i])
    BY <2>1, PlannedNext DEF N
  <2>5. Planned(pieces, i) \in Seq(Piece)
    BY <2>2, <2>3, <2>4
  <2>6. Len(Planned(pieces, i)) <= i
    BY <2>1, <2>2, <2>3, <2>4
  <2> QED
    BY <2>1, <2>5, <2>6
<1>4. \A k \in 0 .. N : k \in S
  <2> HIDE DEF S, N
  <2> QED
    BY <1>1, <1>2, <1>3, UpTo
<1> QED
  BY <1>4

\* What is planned up to a piece is a beginning of what is planned up to a later one.
LEMMA PlannedGrows ==
  ASSUME NEW pieces \in Seq(Piece), NEW n \in 0 .. Len(pieces)
  PROVE  IsPrefix(Planned(pieces, n), Planned(pieces, Len(pieces)))
<1> DEFINE N == Len(pieces)
           P(k) == Planned(pieces, k)
           S == {k \in 0 .. N : k >= n => IsPrefix(P(n), P(k))}
<1>1. N \in Nat /\ n \in 0 .. N /\ n \in Nat
  OBVIOUS
<1>2. IsPrefix(P(n), P(n))
  BY PlannedType DEF IsPrefix
<1>3. 0 \in S
  BY <1>1, <1>2
<1>4. ASSUME NEW k \in 0 .. N - 1, k \in S
      PROVE  k + 1 \in S
  <2>1. PICK i \in 1 .. N : i = k + 1 /\ i - 1 = k /\ i \in 0 .. N
    BY <1>1
  <2>2. CASE i >= n
    <3>1. CASE i = n
      BY <1>2, <2>1, <3>1
    <3>2. CASE i > n
      <4>1. IsPrefix(P(n), P(k)) /\ P(n) \in Seq(Piece) /\ P(k) \in Seq(Piece)
        BY <1>1, <1>4, <2>1, <3>2, PlannedType
      <4>2. pieces[i] \in Piece
        BY <2>1
      <4>3. P(i) = P(k) \/ P(i) = Append(P(k), pieces[i])
        BY <2>1, PlannedNext
      <4> HIDE DEF P
      <4>4. IsPrefix(P(n), Append(P(k), pieces[i]))
        BY <4>1, <4>2 DEF IsPrefix
      <4> QED
        BY <2>1, <4>1, <4>3, <4>4
    <3> QED
      BY <1>1, <2>1, <2>2, <3>1, <3>2
  <2>3. CASE ~(i >= n)
    BY <2>1, <2>3
  <2> QED
    BY <2>2, <2>3
<1>5. \A k \in 0 .. N : k \in S
  <2> HIDE DEF S, N
  <2> QED
    BY <1>1, <1>3, <1>4, UpTo
<1>6. N \in S
  BY <1>1, <1>5
<1> QED
  BY <1>1, <1>6

-----------------------------------------------------------------------------
(* The inductive invariant of the loop. *)

\* Where sendPc is while Dispatch runs.
Working == {"cut", "check", "post", "delay"}

\* The variables' types, those of the pieces and of what is on the wire included.
DispatchTypes ==
    /\ content \in Texts \cup {<<>>}
    /\ bot \in Bots
    /\ plan \in Seq(Piece)
    /\ next \in 1 .. Len(plan) + 1
    /\ sendPc \in Working \cup {"idle", "done"}
    /\ wire \in Seq(Packet)
    /\ result \in {"none", "sent", "interrupted", "failed", "panicked"}
    /\ cancelled \in BOOLEAN

\* Nothing is sent before the answer is cut, and nothing has failed while it is sent.
BeforeTheLoop ==
    /\ sendPc \in {"idle", "cut"} => plan = <<>> /\ wire = <<>>
    /\ sendPc \in Working => result = "none"
    /\ sendPc = "idle" => result \in {"none", "failed", "panicked"}

\* The piece that is posted is one of the plan and has something in it.
PostsAPiece == sendPc = "post" => next <= Len(plan) /\ ~Empty(plan[next])

\* What was received is what was planned up to here; the CRM may or may not have
\* the piece whose post failed or panicked.
Delivered ==
    /\ result \notin {"failed", "panicked"} => Received = Planned(plan, next - 1)
    /\ result \in {"failed", "panicked"} =>
          \/ Received = Planned(plan, next - 1)
          \/ next <= Len(plan) /\ Received = Planned(plan, next)
    /\ result = "sent" => next = Len(plan) + 1

\* A piece that came late was the last one.
LateIsLast ==
    \A k \in DOMAIN wire :
        wire[k].late => k = Len(wire) /\ cancelled /\ sendPc \in {"check", "delay", "done"}

\* An answer that is not empty has something to say.
SaysSomething ==
    (sendPc \in {"check", "post", "delay"} \/ result = "sent") /\ content # <<>> =>
        \E k \in 1 .. Len(plan) : ~Empty(plan[k])

\* The inductive invariant of the dispatch.
DispatchInv ==
    /\ DispatchTypes
    /\ BeforeTheLoop
    /\ PostsAPiece
    /\ Delivered
    /\ LateIsLast
    /\ SaysSomething

-----------------------------------------------------------------------------

\* What comes after the first of two sequences.
LEMMA FirstOfSecond ==
  ASSUME NEW s \in Seq(Piece), NEW t \in Seq(Piece), Len(t) = 1
  PROVE  (s \o t)[Len(s) + 1] = t[1]
OBVIOUS

\* What goes through the loop are pieces: the parts, and the media last.
LEMMA PiecesType ==
  ASSUME NEW parts \in Seq(Seq(Words)), NEW atts \in Seq(MediaURLs), NEW b \in Bots
  PROVE  /\ Pieces(parts, atts, b) \in Seq(Piece)
         /\ \A k \in 1 .. Len(parts) : /\ k \in 1 .. Len(Pieces(parts, atts, b))
                                       /\ Pieces(parts, atts, b)[k].text = parts[k]
         /\ atts # <<>> => \E k \in 1 .. Len(Pieces(parts, atts, b)) :
                              Pieces(parts, atts, b)[k].atts = atts
<1> DEFINE part(k) == [signed |-> b.signed /\ k = 1, text |-> parts[k], atts |-> <<>>]
           last == [signed |-> FALSE, text |-> <<>>, atts |-> atts]
           texts == [k \in DOMAIN parts |-> part(k)]
           media == IF atts = <<>> THEN <<>> ELSE <<last>>
           n == Len(parts)
<1>1. <<>> \in Seq(Words) /\ <<>> \in Seq(MediaURLs) /\ b.signed \in BOOLEAN
  BY BotType
<1>2. last \in Piece /\ last.atts = atts
  BY <1>1 DEF Piece
<1>3. media \in Seq(Piece) /\ (atts # <<>> => Len(media) = 1 /\ media[1] = last)
  BY <1>2
<1>4. ASSUME NEW k \in 1 .. n
      PROVE  part(k) \in Piece /\ part(k).text = parts[k]
  <2>1. parts[k] \in Seq(Words)
    OBVIOUS
  <2> QED
    BY <1>1, <2>1 DEF Piece
<1>5. DOMAIN parts = 1 .. n /\ n \in Nat
  OBVIOUS
<1>6. texts \in [1 .. n -> Piece] /\ \A k \in 1 .. n : texts[k] = part(k)
  BY <1>4, <1>5
<1>7. Pieces(parts, atts, b) = texts \o media
  BY DEF Pieces
<1> HIDE DEF texts, media, last, part, n
<1>8. texts \in Seq(Piece)
  <2>1. \E m \in Nat : texts \in [1 .. m -> Piece]
    BY <1>5, <1>6
  <2> QED
    BY <2>1
<1>9. Len(texts) = n
  BY <1>5, <1>6, <1>8
<1>10. texts \o media \in Seq(Piece) /\ Len(texts \o media) = n + Len(media)
  BY <1>3, <1>8, <1>9
<1>11. ASSUME NEW k \in 1 .. n
       PROVE  k \in 1 .. Len(texts \o media) /\ (texts \o media)[k].text = parts[k]
  <2>1. (texts \o media)[k] = texts[k] /\ k \in 1 .. Len(texts \o media)
    BY <1>3, <1>5, <1>8, <1>9, <1>10
  <2> QED
    BY <1>4, <1>6, <2>1
<1>12. atts # <<>> => \E k \in 1 .. Len(texts \o media) : (texts \o media)[k].atts = atts
  <2> SUFFICES ASSUME atts # <<>>
               PROVE  \E k \in 1 .. Len(texts \o media) : (texts \o media)[k].atts = atts
    OBVIOUS
  <2>1. Len(media) = 1 /\ media[1] = last /\ media \in Seq(Piece)
    BY <1>3
  <2>2. n + 1 \in 1 .. Len(texts \o media)
    BY <1>5, <1>10, <2>1
  <2>3. (texts \o media)[n + 1] = last
    <3>1. (texts \o media)[Len(texts) + 1] = media[1]
      BY <1>8, <2>1, FirstOfSecond
    <3> QED
      BY <1>9, <2>1, <3>1
  <2> QED
    BY <1>2, <2>2, <2>3
<1> QED
  BY <1>7, <1>10, <1>11, <1>12 DEF n

\* Where there is a word or a media URL, one of the pieces is not empty.
LEMMA PiecesSaySomething ==
  ASSUME NEW parts \in Seq(Seq(Words)), NEW atts \in Seq(MediaURLs), NEW b \in Bots,
         atts # <<>> \/ FlattenSeq(parts) # <<>>
  PROVE  \E k \in 1 .. Len(Pieces(parts, atts, b)) : ~Empty(Pieces(parts, atts, b)[k])
<1> DEFINE p == Pieces(parts, atts, b)
<1>1. /\ \A k \in 1 .. Len(parts) : k \in 1 .. Len(p) /\ p[k].text = parts[k]
      /\ atts # <<>> => \E k \in 1 .. Len(p) : p[k].atts = atts
  BY PiecesType
<1> HIDE DEF p
<1>2. CASE FlattenSeq(parts) # <<>>
  <2>1. PICK k \in 1 .. Len(parts) : parts[k] # <<>>
    BY <1>2, FlattenNothing
  <2>2. k \in 1 .. Len(p) /\ ~Empty(p[k])
    BY <1>1, <2>1 DEF Empty
  <2> QED
    BY <2>2 DEF p
<1>3. CASE atts # <<>>
  <2>1. PICK k \in 1 .. Len(p) : p[k].atts = atts
    BY <1>1, <1>3
  <2>2. ~Empty(p[k])
    BY <1>3, <2>1 DEF Empty
  <2> QED
    BY <2>2 DEF p
<1> QED
  BY <1>2, <1>3

\* What is on the wire, without the marks.
LEMMA ReceivedType ==
  ASSUME DispatchInv
  PROVE  /\ Received \in Seq(Piece)
         /\ Len(Received) = Len(wire)
         /\ wire \in Seq(Packet)
         /\ DOMAIN wire = 1 .. Len(wire)
         /\ Len(wire) \in Nat
<1>1. wire \in Seq(Packet)
  BY DEF DispatchInv, DispatchTypes
<1>2. DOMAIN wire = 1 .. Len(wire) /\ Len(wire) \in Nat
  BY <1>1
<1>3. \A k \in 1 .. Len(wire) : wire[k].piece \in Piece
  <2> SUFFICES ASSUME NEW k \in 1 .. Len(wire)
               PROVE  wire[k].piece \in Piece
    OBVIOUS
  <2>1. wire[k] \in Packet
    BY <1>1
  <2> QED
    BY <2>1 DEF Packet
<1>4. Received \in [1 .. Len(wire) -> Piece]
  BY <1>2, <1>3 DEF Received
<1>5. Received \in Seq(Piece)
  BY <1>2, <1>4
<1>6. Len(Received) = Len(wire)
  BY <1>2, <1>4, <1>5
<1> QED
  BY <1>1, <1>2, <1>5, <1>6

\* A piece that the CRM takes is received last.
LEMMA DeliverReceives ==
  ASSUME DispatchInv, sendPc = "post", Deliver
  PROVE  /\ Received' = Append(Received, plan[next])
         /\ wire' \in Seq(Packet)
         /\ Len(wire') = Len(wire) + 1
         /\ \A k \in 1 .. Len(wire) : wire'[k] = wire[k]
<1>1. plan \in Seq(Piece) /\ next \in 1 .. Len(plan) /\ cancelled \in BOOLEAN
  BY DEF DispatchInv, DispatchTypes, PostsAPiece
<1>2. plan[next] \in Piece
  BY <1>1
<1> DEFINE posted == [piece |-> plan[next], late |-> cancelled]
<1>3. posted \in Packet /\ posted.piece = plan[next]
  BY <1>1, <1>2 DEF Packet
<1>4. wire' = Append(wire, posted)
  BY DEF Deliver
<1> HIDE DEF posted
<1>5. /\ wire' \in Seq(Packet)
      /\ Len(wire') = Len(wire) + 1
      /\ \A k \in 1 .. Len(wire) : wire'[k] = wire[k]
      /\ wire'[Len(wire) + 1] = posted
  BY <1>3, <1>4, ReceivedType
<1>6. DOMAIN wire' = 1 .. Len(wire) + 1
  BY <1>5
<1>7. /\ Append(Received, plan[next]) \in Seq(Piece)
      /\ Len(Append(Received, plan[next])) = Len(wire) + 1
      /\ \A k \in 1 .. Len(wire) : Append(Received, plan[next])[k] = wire[k].piece
      /\ Append(Received, plan[next])[Len(wire) + 1] = plan[next]
  <2>1. \A k \in 1 .. Len(wire) : Received[k] = wire[k].piece
    BY ReceivedType DEF Received
  <2> QED
    BY <1>2, <2>1, ReceivedType
<1>8. Received' = [k \in 1 .. Len(wire) + 1 |-> wire'[k].piece]
  BY <1>6 DEF Received
<1>9. \A k \in 1 .. Len(wire) + 1 : wire'[k].piece = Append(Received, plan[next])[k]
  <2> SUFFICES ASSUME NEW k \in 1 .. Len(wire) + 1
               PROVE  wire'[k].piece = Append(Received, plan[next])[k]
    OBVIOUS
  <2>1. CASE k = Len(wire) + 1
    BY <1>3, <1>5, <1>7, <2>1
  <2>2. CASE k # Len(wire) + 1
    <3>1. k \in 1 .. Len(wire)
      BY <2>2, ReceivedType
    <3> QED
      BY <1>5, <1>7, <3>1
  <2> QED
    BY <2>1, <2>2
<1>10. Append(Received, plan[next]) =
          [k \in 1 .. Len(wire) + 1 |-> Append(Received, plan[next])[k]]
  BY <1>7
<1> QED
  BY <1>5, <1>8, <1>9, <1>10

-----------------------------------------------------------------------------
(* Each step keeps the invariant. *)

\* What the invariant says of the plan, in a form the steps can use.
LEMMA PlanTypes ==
  ASSUME DispatchInv
  PROVE  /\ content \in Seq(Words) /\ bot \in Bots /\ plan \in Seq(Piece)
         /\ next \in Nat /\ next >= 1 /\ next <= Len(plan) + 1 /\ Len(plan) \in Nat
         /\ next - 1 \in 0 .. Len(plan)
         /\ next <= Len(plan) => next \in 1 .. Len(plan) /\ next \in 0 .. Len(plan)
         /\ cancelled \in BOOLEAN
<1>1. /\ content \in Texts \cup {<<>>} /\ bot \in Bots /\ plan \in Seq(Piece)
      /\ next \in 1 .. Len(plan) + 1 /\ cancelled \in BOOLEAN
  BY DEF DispatchInv, DispatchTypes
<1>2. content \in Seq(Words)
  <2>1. Texts \subseteq Seq(Words) /\ <<>> \in Seq(Words)
    BY DispatchAssumption
  <2> QED
    BY <1>1, <2>1
<1>3. Len(plan) \in Nat
  BY <1>1
<1> QED
  BY <1>1, <1>2, <1>3

\* A dispatch begins with nothing sent.
LEMMA StartDispatchInv ==
  ASSUME NEW texts \in SUBSET Texts, StartDispatch(texts), cancelled \in BOOLEAN,
         UNCHANGED cancelled
  PROVE  DispatchInv'
<1>1. <<>> \in Seq(Piece) /\ <<>> \in Seq(Packet) /\ Len(<<>>) = 0 /\ DOMAIN <<>> = {}
  OBVIOUS
<1>2. Planned(<<>>, 0) = <<>>
  BY <1>1, PlannedNothing
<1>3. plan' = <<>> /\ wire' = <<>> /\ next' = 1 /\ result' = "none" /\ sendPc' = "cut"
  BY DEF StartDispatch
<1>4. DispatchTypes'
  BY <1>1, <1>3 DEF StartDispatch, DispatchTypes, Working
<1>5. BeforeTheLoop' /\ PostsAPiece' /\ LateIsLast' /\ SaysSomething'
  BY <1>1, <1>3 DEF BeforeTheLoop, PostsAPiece, LateIsLast, SaysSomething
<1>6. Received' = <<>>
  BY <1>3 DEF Received
<1>7. Delivered'
  BY <1>2, <1>3, <1>6 DEF Delivered
<1> QED
  BY <1>4, <1>5, <1>7 DEF DispatchInv

\* The work before the loop.
LEMMA CutInv ==
  ASSUME DispatchInv, Cut
  PROVE  DispatchInv'
<1> DEFINE media == ExtractMediaURLs(content)
           raw == Split(media.residual, bot)
<1>1. /\ sendPc = "cut" /\ sendPc' = "check"
      /\ plan' = Pieces(Merge(raw, bot), media.atts, bot)
      /\ UNCHANGED <<content, bot, next, wire, result, cancelled>>
  BY DEF Cut
<1>2. media.residual \in Seq(Words) /\ media.atts \in Seq(MediaURLs)
  BY PlanTypes, ExtractType DEF Found
<1>3. media.atts = <<>> => media.residual = content
  BY PlanTypes, ExtractType
<1> HIDE DEF media
<1>4. Merge(raw, bot) \in Seq(Seq(Words)) /\ FlattenSeq(Merge(raw, bot)) = media.residual
  <2>1. raw \in Seq(Seq(Words)) /\ FlattenSeq(raw) = media.residual
    BY <1>2, PlanTypes, SplitKeepsText
  <2>2. Merge(raw, bot) = raw
    BY <1>2, PlanTypes, MergeIsIdle
  <2> QED
    BY <2>1, <2>2
<1> HIDE DEF raw
<1>5. plan' \in Seq(Piece)
  BY <1>1, <1>2, <1>4, PlanTypes, PiecesType
<1>6. plan = <<>> /\ wire = <<>> /\ result = "none" /\ next = 1
  BY <1>1 DEF DispatchInv, BeforeTheLoop, DispatchTypes, Working
<1>7. Len(plan') \in Nat /\ next' \in 1 .. Len(plan') + 1
  BY <1>1, <1>5, <1>6
<1>8. DispatchTypes'
  BY <1>1, <1>5, <1>7 DEF DispatchInv, DispatchTypes, Working
<1>9. BeforeTheLoop' /\ PostsAPiece' /\ LateIsLast'
  BY <1>1, <1>6 DEF BeforeTheLoop, PostsAPiece, LateIsLast
<1>10. Delivered'
  <2>1. Received' = <<>>
    BY <1>1, <1>6 DEF Received
  <2>2. Planned(plan', 0) = <<>>
    BY <1>5, PlannedNothing
  <2> QED
    BY <1>1, <1>6, <2>1, <2>2 DEF Delivered
<1>11. SaysSomething'
  <2> SUFFICES ASSUME content # <<>>
               PROVE  \E k \in 1 .. Len(plan') : ~Empty(plan'[k])
    BY <1>1 DEF SaysSomething
  <2>1. media.atts # <<>> \/ FlattenSeq(Merge(raw, bot)) # <<>>
    BY <1>4, <1>3
  <2> QED
    BY <1>1, <1>2, <1>4, <2>1, PlanTypes, PiecesSaySomething
<1> QED
  BY <1>8, <1>9, <1>10, <1>11 DEF DispatchInv

\* An empty piece is passed over.
LEMMA SkipInv ==
  ASSUME DispatchInv, Skip
  PROVE  DispatchInv'
<1>1. /\ sendPc = "check" /\ next <= Len(plan) /\ Empty(plan[next]) /\ next' = next + 1
      /\ UNCHANGED <<content, bot, plan, sendPc, wire, result, cancelled>>
  BY DEF Skip
<1>2. next' \in 1 .. Len(plan) + 1 /\ next' - 1 = next
  BY <1>1, PlanTypes
<1>3. DispatchTypes'
  BY <1>1, <1>2 DEF DispatchInv, DispatchTypes
<1>4. BeforeTheLoop' /\ PostsAPiece' /\ LateIsLast' /\ SaysSomething'
  BY <1>1 DEF DispatchInv, BeforeTheLoop, PostsAPiece, LateIsLast, SaysSomething
<1>5. Delivered'
  <2>1. result = "none" /\ Received = Planned(plan, next - 1) /\ Received' = Received
    BY <1>1 DEF DispatchInv, BeforeTheLoop, Delivered, Working, Received
  <2>2. Planned(plan, next) = Planned(plan, next - 1)
    BY <1>1, PlanTypes, PlannedNext
  <2> QED
    BY <1>1, <1>2, <2>1, <2>2 DEF Delivered
<1> QED
  BY <1>3, <1>4, <1>5 DEF DispatchInv

\* A dispatch that ends where it has sent what was planned up to there.
LEMMA FinishInv ==
  ASSUME DispatchInv, sendPc \in Working \ {"cut"}, NEW r \in {"sent", "interrupted"}, Finish(r),
         UNCHANGED <<content, bot, plan, next, wire, cancelled>>,
         r = "sent" => next > Len(plan)
  PROVE  DispatchInv'
<1> USE DEF Finish
<1>1. DispatchTypes'
  BY DEF DispatchInv, DispatchTypes
<1>2. BeforeTheLoop' /\ PostsAPiece' /\ LateIsLast' /\ SaysSomething'
  BY DEF DispatchInv, BeforeTheLoop, PostsAPiece, LateIsLast, SaysSomething, Working
<1>3. Delivered'
  <2>1. Received = Planned(plan, next - 1) /\ Received' = Received
    BY DEF DispatchInv, BeforeTheLoop, Delivered, Received
  <2>2. r = "sent" => next = Len(plan) + 1
    BY PlanTypes
  <2> QED
    BY <2>1, <2>2 DEF Delivered
<1> QED
  BY <1>1, <1>2, <1>3 DEF DispatchInv

\* The context is looked at before every piece.
LEMMA CheckInv ==
  ASSUME DispatchInv, Check
  PROVE  DispatchInv'
<1>1. /\ sendPc = "check" /\ next <= Len(plan) /\ ~Empty(plan[next])
      /\ UNCHANGED <<content, bot, plan, next, wire, cancelled>>
  BY DEF Check
<1>2. CASE cancelled
  <2>1. Finish("interrupted")
    BY <1>2 DEF Check
  <2> QED
    BY <1>1, <2>1, FinishInv DEF Working
<1>3. CASE ~cancelled
  <2>1. sendPc' = "post" /\ result' = result
    BY <1>3 DEF Check
  <2>2. DispatchTypes'
    BY <1>1, <2>1 DEF DispatchInv, DispatchTypes, Working
  <2>3. BeforeTheLoop' /\ PostsAPiece' /\ SaysSomething'
    BY <1>1, <2>1 DEF DispatchInv, BeforeTheLoop, PostsAPiece, SaysSomething, Working
  <2>4. LateIsLast'
    BY <1>1, <1>3, <2>1 DEF DispatchInv, LateIsLast
  <2>5. Delivered'
    <3>1. Received' = Received
      BY <1>1 DEF Received
    <3> QED
      BY <1>1, <2>1, <3>1 DEF DispatchInv, Delivered
  <2> QED
    BY <2>2, <2>3, <2>4, <2>5 DEF DispatchInv
<1> QED
  BY <1>2, <1>3

\* Looking at the context again after the delay between two parts.
LEMMA DelayInv ==
  ASSUME DispatchInv, Delay
  PROVE  DispatchInv'
<1>1. sendPc = "delay" /\ UNCHANGED <<content, bot, plan, next, wire, cancelled>>
  BY DEF Delay
<1>2. CASE Finish("interrupted")
  BY <1>1, <1>2, FinishInv DEF Working
<1>3. CASE sendPc' = "check" /\ UNCHANGED result
  <2>1. DispatchTypes' /\ BeforeTheLoop' /\ PostsAPiece' /\ LateIsLast' /\ SaysSomething'
    BY <1>1, <1>3 DEF DispatchInv, DispatchTypes, BeforeTheLoop, PostsAPiece, LateIsLast, SaysSomething, Working
  <2>2. Received' = Received
    BY <1>1 DEF Received
  <2>3. Delivered'
    BY <1>1, <1>3, <2>2 DEF DispatchInv, Delivered
  <2> QED
    BY <2>1, <2>3 DEF DispatchInv
<1> QED
  BY <1>2, <1>3 DEF Delay

\* Everything is sent.
LEMMA SentInv ==
  ASSUME DispatchInv, Sent
  PROVE  DispatchInv'
BY FinishInv DEF Sent, Working

\* A post: no piece was late before it, so at most this one is.
LEMMA PostInv ==
  ASSUME DispatchInv, Post
  PROVE  DispatchInv'
<1>1. sendPc = "post" /\ UNCHANGED <<content, bot, plan, cancelled>>
  BY DEF Post
<1>2. /\ next \in 1 .. Len(plan) /\ next \in 0 .. Len(plan) /\ ~Empty(plan[next])
      /\ result = "none" /\ Received = Planned(plan, next - 1)
  BY <1>1, PlanTypes DEF DispatchInv, PostsAPiece, BeforeTheLoop, Delivered, Working
<1>3. \A k \in 1 .. Len(wire) : ~wire[k].late
  BY <1>1, ReceivedType DEF DispatchInv, LateIsLast
<1>4. Deliver => /\ Received' = Planned(plan, next)
                 /\ wire' \in Seq(Packet)
                 /\ \A k \in DOMAIN wire' : wire'[k].late => k = Len(wire') /\ cancelled
  <2> SUFFICES ASSUME Deliver
               PROVE  /\ Received' = Planned(plan, next)
                      /\ wire' \in Seq(Packet)
                      /\ \A k \in DOMAIN wire' : wire'[k].late => k = Len(wire') /\ cancelled
    OBVIOUS
  <2>1. /\ Received' = Append(Received, plan[next])
        /\ wire' \in Seq(Packet)
        /\ Len(wire') = Len(wire) + 1
        /\ \A k \in 1 .. Len(wire) : wire'[k] = wire[k]
    BY <1>1, DeliverReceives
  <2>2. Planned(plan, next) = Append(Planned(plan, next - 1), plan[next])
    BY <1>2, PlanTypes, PlannedNext
  <2>3. DOMAIN wire' = 1 .. Len(wire) + 1 /\ Len(wire) \in Nat
    BY <2>1, ReceivedType
  <2>4. wire'[Len(wire) + 1].late = cancelled
    <3> DEFINE posted == [piece |-> plan[next], late |-> cancelled]
    <3>1. posted \in Packet /\ posted.late = cancelled
      BY <1>2, PlanTypes DEF Packet
    <3>2. wire' = Append(wire, posted)
      BY DEF Deliver
    <3> HIDE DEF posted
    <3>3. wire'[Len(wire) + 1] = posted
      BY <3>1, <3>2, ReceivedType
    <3> QED
      BY <3>1, <3>3
  <2>5. ASSUME NEW k \in 1 .. Len(wire) + 1, wire'[k].late
        PROVE  k = Len(wire) + 1 /\ cancelled
    <3>1. CASE k \in 1 .. Len(wire)
      BY <1>3, <2>1, <2>5, <3>1
    <3>2. CASE k = Len(wire) + 1
      BY <2>4, <2>5, <3>2
    <3> QED
      BY <2>3, <3>1, <3>2
  <2> QED
    BY <1>2, <2>1, <2>2, <2>3, <2>5
<1>5. ASSUME Deliver, next' = next + 1, sendPc' \in {"check", "delay"}, UNCHANGED result
      PROVE  DispatchInv'
  <2>1. next' \in 1 .. Len(plan) + 1 /\ next' - 1 = next
    BY <1>2, <1>5, PlanTypes
  <2>2. DispatchTypes'
    BY <1>1, <1>4, <1>5, <2>1 DEF DispatchInv, DispatchTypes, Working
  <2>3. BeforeTheLoop' /\ PostsAPiece' /\ LateIsLast' /\ SaysSomething'
    BY <1>1, <1>2, <1>4, <1>5 DEF DispatchInv, BeforeTheLoop, PostsAPiece, LateIsLast,
                                   SaysSomething, Working
  <2>4. Delivered'
    BY <1>1, <1>2, <1>4, <1>5, <2>1 DEF Delivered
  <2> QED
    BY <2>2, <2>3, <2>4 DEF DispatchInv
<1>6. ASSUME Deliver \/ UNCHANGED wire, Finish("failed"), UNCHANGED next
      PROVE  DispatchInv'
  <2>1. wire' \in Seq(Packet)
    BY <1>4, <1>6 DEF DispatchInv, DispatchTypes
  <2>2. DispatchTypes'
    BY <1>1, <1>6, <2>1 DEF DispatchInv, DispatchTypes, Finish
  <2>3. BeforeTheLoop' /\ PostsAPiece' /\ SaysSomething'
    BY <1>1, <1>6 DEF DispatchInv, BeforeTheLoop, PostsAPiece, SaysSomething, Finish, Working
  <2>4. LateIsLast'
    <3>1. CASE Deliver
      BY <1>1, <1>4, <1>6, <3>1 DEF LateIsLast, Finish
    <3>2. CASE UNCHANGED wire
      BY <1>1, <1>3, <3>2, ReceivedType DEF LateIsLast
    <3> QED
      BY <1>6, <3>1, <3>2
  <2>5. Delivered'
    <3>1. Received' = Planned(plan, next - 1) \/ Received' = Planned(plan, next)
      <4>1. CASE Deliver
        BY <1>4, <4>1
      <4>2. CASE UNCHANGED wire
        BY <1>2, <4>2 DEF Received
      <4> QED
        BY <1>6, <4>1, <4>2
    <3> QED
      BY <1>1, <1>2, <1>6, <3>1 DEF Delivered, Finish
  <2> QED
    BY <2>2, <2>3, <2>4, <2>5 DEF DispatchInv
<1> QED
  BY <1>5, <1>6 DEF Post

\* Every step of the loop keeps the invariant.
LEMMA DispatchStepInv ==
  ASSUME DispatchInv, DispatchStep
  PROVE  DispatchInv'
BY CutInv, SkipInv, CheckInv, PostInv, DelayInv, SentInv DEF DispatchStep

\* So does everything that leaves the dispatch alone, as long as the context is not
\* renewed under what was sent late.
LEMMA DispatchInvKept ==
  ASSUME DispatchInv, UNCHANGED dispatchVars, cancelled' \in BOOLEAN,
         wire = <<>> \/ (cancelled => cancelled')
  PROVE  DispatchInv'
<1>1. UNCHANGED <<content, bot, plan, next, sendPc, wire, result>>
  BY DEF dispatchVars
<1>2. DispatchTypes' /\ BeforeTheLoop' /\ PostsAPiece' /\ SaysSomething'
  BY <1>1 DEF DispatchInv, DispatchTypes, BeforeTheLoop, PostsAPiece, SaysSomething
<1>3. Received' = Received
  BY <1>1 DEF Received
<1>4. Delivered'
  BY <1>1, <1>3 DEF DispatchInv, Delivered
<1>5. LateIsLast'
  BY <1>1 DEF DispatchInv, LateIsLast
<1> QED
  BY <1>2, <1>4, <1>5 DEF DispatchInv

\* A panic leaves the rest unsaid; the CRM may have the piece that was being posted.
LEMMA DispatchPanicsInv ==
  ASSUME DispatchInv, DispatchPanics
  PROVE  DispatchInv'
<1>1. /\ sendPc \in Working /\ sendPc' = "done" /\ result' = "panicked"
      /\ UNCHANGED <<content, bot, plan, next, cancelled>>
  BY DEF DispatchPanics, Finish, DispatchInv, DispatchTypes
<1>2. BeforeTheLoop' /\ PostsAPiece' /\ SaysSomething'
  BY <1>1 DEF BeforeTheLoop, PostsAPiece, SaysSomething, Working
<1>3. result = "none" /\ Received = Planned(plan, next - 1)
  BY <1>1 DEF DispatchInv, BeforeTheLoop, Delivered
<1>4. CASE UNCHANGED wire
  <2>1. Received' = Received
    BY <1>4 DEF Received
  <2>2. Delivered'
    BY <1>1, <1>3, <2>1 DEF Delivered
  <2>3. DispatchTypes' /\ LateIsLast'
    BY <1>1, <1>4 DEF DispatchInv, DispatchTypes, LateIsLast, Working
  <2> QED
    BY <1>2, <2>2, <2>3 DEF DispatchInv
<1>5. CASE sendPc = "post" /\ Deliver
  <2>1. /\ Received' = Append(Received, plan[next]) /\ wire' \in Seq(Packet)
        /\ Len(wire') = Len(wire) + 1
        /\ \A k \in 1 .. Len(wire) : wire'[k] = wire[k]
    BY <1>5, DeliverReceives
  <2>2. next \in 1 .. Len(plan) /\ ~Empty(plan[next]) /\ plan \in Seq(Piece)
    BY <1>5, PlanTypes DEF DispatchInv, PostsAPiece
  <2>3. Received' = Planned(plan, next)
    BY <1>3, <2>1, <2>2, PlannedNext
  <2>4. Delivered'
    BY <1>1, <2>2, <2>3, PlanTypes DEF Delivered
  <2>5. DispatchTypes'
    BY <1>1, <2>1 DEF DispatchInv, DispatchTypes
  <2>6. LateIsLast'
    <3>1. Len(wire) \in Nat /\ DOMAIN wire = 1 .. Len(wire) /\ DOMAIN wire' = 1 .. Len(wire) + 1
      BY <2>1, ReceivedType
    <3>2. \A k \in 1 .. Len(wire) : ~wire'[k].late
      BY <1>5, <2>1, <3>1 DEF DispatchInv, LateIsLast
    <3>3. wire' = Append(wire, [piece |-> plan[next], late |-> cancelled])
      BY <1>5 DEF Deliver
    <3>4. wire'[Len(wire) + 1].late = cancelled
      BY <3>1, <3>3, ReceivedType
    <3> QED
      BY <1>1, <2>1, <3>1, <3>2, <3>4 DEF LateIsLast
  <2> QED
    BY <1>2, <2>4, <2>5, <2>6 DEF DispatchInv
<1> QED
  BY <1>4, <1>5 DEF DispatchPanics

-----------------------------------------------------------------------------
(* What follows from the invariant. *)

\* The text that is cut, and the parts it is cut into.
LEMMA PartsType ==
  ASSUME DispatchInv
  PROVE  /\ Residual \in Seq(Words) /\ bot \in Bots
         /\ Parts = Split(Residual, bot)
<1>1. Residual \in Seq(Words)
  BY PlanTypes, ExtractType DEF Residual, Found
<1> QED
  BY <1>1, PlanTypes, MergeIsIdle DEF Parts

\* The invariant has the properties of the dispatch in it.
LEMMA DispatchInvImplies ==
  ASSUME DispatchInv
  PROVE  /\ DispatchTypeOK /\ TextKept /\ SegmentsFit /\ FewestParts
         /\ DeliveredIsPrefix /\ AtMostOneAfterCancel
<1>1. Received \in {Planned(plan, n) : n \in 0 .. Len(plan)}
  <2>1. CASE Received = Planned(plan, next - 1)
    BY <2>1, PlanTypes
  <2>2. CASE next <= Len(plan) /\ Received = Planned(plan, next)
    BY <2>2, PlanTypes
  <2> QED
    BY <2>1, <2>2 DEF DispatchInv, Delivered
<1>2. PICK n \in 0 .. Len(plan) : Received = Planned(plan, n)
  BY <1>1
<1>3. DispatchTypeOK
  <2>1. Len(wire) <= Len(plan)
    BY <1>2, ReceivedType, PlannedType, PlanTypes
  <2>2. \A k \in DOMAIN plan : plan[k].text \in Seq(Words) /\ plan[k].atts \in Seq(MediaURLs)
    <3> SUFFICES ASSUME NEW k \in 1 .. Len(plan)
                 PROVE  plan[k].text \in Seq(Words) /\ plan[k].atts \in Seq(MediaURLs)
      BY PlanTypes
    <3>1. plan[k] \in Piece
      BY PlanTypes
    <3> QED
      BY <3>1 DEF Piece
  <2> QED
    BY <2>1, <2>2 DEF DispatchTypeOK, DispatchInv, DispatchTypes, Working
<1>4. TextKept
  BY PartsType, SplitKeepsText DEF TextKept
<1>5. SegmentsFit
  BY PartsType, SplitFits DEF SegmentsFit
<1>6. ASSUME bot.segment, Residual # <<>>
      PROVE  Parts = Greedy(Residual, bot.limit)
  <2>1. ~Whole(Residual, bot)
    BY <1>6, PartsType, BotType DEF Whole
  <2> QED
    BY <2>1, PartsType DEF Split
<1>7. DeliveredIsPrefix
  <2>1. IsPrefix(Received, Planned(plan, Len(plan)))
    BY <1>2, PlanTypes, PlannedGrows
  <2>2. result = "sent" => Received = Planned(plan, Len(plan))
    <3> SUFFICES ASSUME result = "sent"
                 PROVE  Received = Planned(plan, Len(plan))
      OBVIOUS
    <3>1. next = Len(plan) + 1 /\ Received = Planned(plan, next - 1)
      BY DEF DispatchInv, Delivered
    <3>2. next - 1 = Len(plan)
      BY <3>1, PlanTypes
    <3> QED
      BY <3>1, <3>2
  <2> QED
    BY <2>1, <2>2 DEF DeliveredIsPrefix
<1>8. AtMostOneAfterCancel
  BY DEF AtMostOneAfterCancel, DispatchInv, LateIsLast
<1>9. FewestParts
  <2> SUFFICES ASSUME Starting, bot.segment, Residual # <<>>, NEW starts \in Cuts(Residual),
                      KeepsTo(bot.limit, Residual, starts)
               PROVE  Len(Parts) <= Cardinality(starts)
    BY DEF FewestParts
  <2>1. Parts = Greedy(Residual, bot.limit)
    BY <1>6
  <2>2. Residual \in Seq(Words) /\ bot.limit \in Int
    BY PartsType, BotType
  <2> QED
    BY <2>1, <2>2, GreedyIsFewest
<1> QED
  BY <1>3, <1>4, <1>5, <1>7, <1>8, <1>9

\* A dispatch that says it is complete, of an answer that was not empty, has said
\* something.
LEMMA SentIsHeard ==
  ASSUME DispatchInv, result = "sent", content # <<>>, sendPc = "done"
  PROVE  wire # <<>>
<1> DEFINE N == Len(plan)
<1>1. PICK k \in 1 .. N : ~Empty(plan[k])
  BY DEF DispatchInv, SaysSomething
<1>2. plan \in Seq(Piece) /\ N \in Nat /\ k \in 0 .. N /\ N \in 0 .. N /\ plan[k] \in Piece
  BY <1>1, PlanTypes
<1>3. Received = Planned(plan, N)
  BY DispatchInvImplies DEF DeliveredIsPrefix
<1>4. /\ Planned(plan, k - 1) \in Seq(Piece)
      /\ Planned(plan, k) = Append(Planned(plan, k - 1), plan[k])
  BY <1>1, <1>2, PlannedNext
<1>5. Len(Planned(plan, k)) >= 1
  BY <1>2, <1>4
<1>6. IsPrefix(Planned(plan, k), Planned(plan, N))
  BY <1>2, PlannedGrows
<1>7. Planned(plan, k) \in Seq(Piece) /\ Planned(plan, N) \in Seq(Piece)
  BY <1>2, PlannedType
<1>8. Len(Planned(plan, N)) >= 1
  BY <1>5, <1>6, <1>7 DEF IsPrefix
<1>9. Len(wire) >= 1
  BY <1>3, <1>8, ReceivedType
<1> QED
  BY <1>9, ReceivedType

=============================================================================
