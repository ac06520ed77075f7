---------------------------- MODULE ReplyProofs ----------------------------
(***************************************************************************)
(* A whole turn: the invariants of the AI call and of the dispatch hold    *)
(* together, every step of the turn keeps them, and what the runs check on *)
(* small instances follows for every value of the constants.               *)
(***************************************************************************)
EXTENDS Reply, AIAdapterProofs, DispatchProofs, FiniteSetTheorems

-----------------------------------------------------------------------------
(* The inductive invariant of a turn. *)

\* The AI call is over before anything is dispatched.
CallThenDispatch ==
    /\ stage # "ai" => callPc = "done"
    /\ stage \in {"ai", "answered", "failed"} => sendPc = "idle" /\ result = "none"
    /\ stage \in {"dispatch", "notice"} => sendPc \in Working
    /\ stage = "over" => sendPc \in {"idle", "done"}

\* Why a turn that is over has sent nothing.
EndHasAReason ==
    /\ stage = "failed" => NoticeEnabled
    /\ stage = "over" /\ sendPc = "idle" =>
          cancelled \/ result \in {"failed", "panicked"} \/ ~NoticeEnabled
    /\ sendPc = "done" => result # "none" /\ (result = "interrupted" => cancelled)

\* The invariants of both components, and how they hang together.
ReplyInv ==
    /\ CallInv
    /\ DispatchInv
    /\ stage \in Stages
    /\ CallThenDispatch
    /\ EndHasAReason

-----------------------------------------------------------------------------
(* The invariant holds at first, and every step keeps it. *)

\* A turn begins with the call, and nothing dispatched.
LEMMA InitReplyInv ==
  ASSUME ReplyInit
  PROVE  ReplyInv
<1>1. CallInv
  BY InitCallInv DEF ReplyInit
<1>2. bot \in Bots
  <2>1. PICK l \in Limits, m \in MinSizes : TRUE
    BY DispatchAssumption
  <2>2. [segment |-> FALSE, limit |-> l, minSize |-> m, signed |-> FALSE, delay |-> FALSE]
        \in Bots
    BY DEF Bots, Valid
  <2>3. \E b \in Bots : TRUE
    BY <2>2
  <2> QED
    BY <2>3 DEF ReplyInit
<1>3. /\ content = <<>> /\ plan = <<>> /\ next = 1 /\ sendPc = "idle" /\ wire = <<>>
      /\ result = "none" /\ stage = "ai" /\ cancelled = FALSE
  BY DEF ReplyInit, ContextInit
<1>4. DispatchInv
  <2>1. <<>> \in Seq(Piece) /\ <<>> \in Seq(Packet) /\ Len(<<>>) = 0 /\ DOMAIN <<>> = {}
    OBVIOUS
  <2>2. DispatchTypes
    <3>1. plan \in Seq(Piece) /\ wire \in Seq(Packet) /\ content \in Texts \cup {<<>>}
      BY <1>3
    <3>2. next \in 1 .. Len(plan) + 1
      BY <1>3, <2>1
    <3> QED
      BY <1>2, <1>3, <3>1, <3>2 DEF DispatchTypes
  <2>3. BeforeTheLoop /\ PostsAPiece /\ LateIsLast /\ SaysSomething
    BY <1>3, <2>1 DEF BeforeTheLoop, PostsAPiece, LateIsLast, SaysSomething, Working
  <2>4. Received = <<>>
    BY <1>3 DEF Received
  <2>5. Planned(<<>>, 0) = <<>>
    BY <2>1, PlannedNothing
  <2>6. Delivered
    BY <1>3, <2>4, <2>5 DEF Delivered
  <2> QED
    BY <2>2, <2>3, <2>6 DEF DispatchInv
<1>5. stage \in Stages /\ CallThenDispatch /\ EndHasAReason
  BY <1>3 DEF Stages, CallThenDispatch, EndHasAReason
<1> QED
  BY <1>1, <1>4, <1>5 DEF ReplyInv

\* A call whose variables are put away is still within the invariant of the call, on a
\* new context too.
LEMMA PutAwayInv ==
  ASSUME CallInv, PutAway
  PROVE  CallInv'
<1>1. /\ callPc' = "done" /\ items' = <<>>
      /\ config' = CHOOSE c \in Configs : TRUE
      /\ room' = MaxAttachmentsTotal /\ forwarded' = <<>>
      /\ now' = 0 /\ budget' = 0 /\ ceiling' = 0 /\ due' = 0 /\ attempt' = 0
      /\ answered' = FALSE /\ outcome' = "none"
  BY DEF PutAway
<1>2. config' \in Configs
  BY <1>1, CallTypes
<1>3. config'.retries \in Nat
  BY <1>2, ConfigTyped
<1>4. MaxAttachmentsTotal \in Nat /\ <<>> \in Seq(Nat) /\ DOMAIN <<>> = {}
  BY AdapterAssumption
<1>5. CallTypeOK'
  <2>1. <<>> \in Seq(Urls) /\ Len(<<>>) <= MaxItems
    BY AdapterAssumption
  <2>2. room' \in 0 .. MaxAttachmentsTotal /\ attempt' \in 0 .. config'.retries
    BY <1>1, <1>3, <1>4
  <2>3. forwarded' \in Seq(Nat)
    BY <1>1
  <2>4. items' \in Seq(Urls) /\ Len(items') <= MaxItems
    BY <1>1, <2>1
  <2>5. {now', budget', due'} \subseteq Nat /\ ceiling' \in Int
    <3>1. now' = 0 /\ budget' = 0 /\ due' = 0 /\ ceiling' = 0
      BY <1>1
    <3> QED
      BY <3>1
  <2>7. answered' \in BOOLEAN
    BY <1>1
  <2>6. callPc' \in CallPcs /\ outcome' \in Outcomes
    BY <1>1 DEF CallPcs, Outcomes
  <2> QED
    BY <1>2, <2>2, <2>3, <2>4, <2>5, <2>6, <2>7 DEF CallTypeOK
<1>6. RoomIsLeft'
  BY <1>1, <1>4, TotalEmpty DEF RoomIsLeft
<1>7. AttemptClock'
  <2>1. ASSUME config'.timeout > 0
        PROVE  0 <= Spent(config', config'.retries + 1, config'.retries)
    <3>1. PICK c \in Configs : c = config'
      BY <1>2
    <3>2. PICK a \in Nat : a = c.retries + 1
      BY <1>3, <3>1
    <3>3. c.retries \in Nat /\ c.timeout > 0
      BY <1>3, <2>1, <3>1
    <3>4. Spent(c, a, c.retries) \in Nat
      BY <3>3, SpentSteps
    <3> QED
      BY <3>1, <3>2, <3>4
  <2> QED
    BY <1>1, <2>1 DEF AttemptClock, HasCeiling
<1>8. NoOutcomeYet' /\ ItemsLeft' /\ MediaClock' /\ CeilingIsSet' /\ OutcomeIsTrue'
  BY <1>1 DEF CallInv, NoOutcomeYet, ItemsLeft, MediaClock, CeilingIsSet, OutcomeIsTrue
<1> QED
  BY <1>5, <1>6, <1>7, <1>8 DEF CallInv

\* So it is when the call has returned.
LEMMA CallReturnsInv ==
  ASSUME CallInv, NEW o \in Outcomes, CallReturns(o)
  PROVE  CallInv'
BY PutAwayInv DEF CallReturns

\* The call runs; nothing else moves.
LEMMA CallRunsInv ==
  ASSUME ReplyInv, CallRuns
  PROVE  ReplyInv'
<1>1. stage = "ai" /\ CallStep /\ UNCHANGED <<dispatchVars, stage, cancelled>>
  BY DEF CallRuns
<1>2. CallInv'
  BY <1>1, CallStepInv DEF ReplyInv
<1>3. DispatchInv'
  BY <1>1, DispatchInvKept, PlanTypes DEF ReplyInv
<1>4. stage' \in Stages /\ CallThenDispatch' /\ EndHasAReason'
  BY <1>1 DEF ReplyInv, CallThenDispatch, EndHasAReason, dispatchVars
<1> QED
  BY <1>2, <1>3, <1>4 DEF ReplyInv

\* The answer is there, or Redis fails and the turn ends.
LEMMA AIAnswersInv ==
  ASSUME ReplyInv, AIAnswers
  PROVE  ReplyInv'
<1>1. /\ CallReturns("ok") /\ stage = "ai" /\ callPc = "done" /\ callPc' = "done"
      /\ UNCHANGED <<content, bot, plan, next, sendPc, wire, cancelled>>
  BY DEF AIAnswers, CallReturns, PutAway
<1>2. CallInv'
  BY <1>1, CallReturnsInv DEF ReplyInv, Outcomes
<1>3. CASE stage' = "answered" /\ UNCHANGED result
  <2>1. UNCHANGED dispatchVars
    BY <1>1, <1>3 DEF dispatchVars
  <2>2. DispatchInv'
    BY <1>1, <2>1, DispatchInvKept, PlanTypes DEF ReplyInv
  <2>3. stage' \in Stages /\ CallThenDispatch' /\ EndHasAReason'
    BY <1>1, <1>3 DEF ReplyInv, CallThenDispatch, EndHasAReason, Stages
  <2> QED
    BY <1>2, <2>2, <2>3 DEF ReplyInv
<1>4. CASE stage' = "over" /\ result' = "failed"
  <2>1. sendPc = "idle" /\ result = "none"
    BY <1>1 DEF ReplyInv, CallThenDispatch
  <2>2. DispatchTypes' /\ BeforeTheLoop' /\ PostsAPiece' /\ LateIsLast' /\ SaysSomething'
    BY <1>1, <1>4, <2>1 DEF ReplyInv, DispatchInv, DispatchTypes, BeforeTheLoop, PostsAPiece,
                           LateIsLast, SaysSomething, Working
  <2>3. Delivered'
    <3>1. Received' = Received
      BY <1>1 DEF Received
    <3> QED
      BY <1>1, <1>4, <2>1, <3>1 DEF ReplyInv, DispatchInv, Delivered
  <2>4. stage' \in Stages /\ CallThenDispatch' /\ EndHasAReason'
    BY <1>1, <1>4, <2>1 DEF ReplyInv, CallThenDispatch, EndHasAReason, Stages
  <2> QED
    BY <1>2, <2>2, <2>3, <2>4 DEF ReplyInv, DispatchInv
<1> QED
  BY <1>3, <1>4 DEF AIAnswers

\* A call that says it was cancelled was.
LEMMA AICancelledInv ==
  ASSUME ReplyInv, AICancelled
  PROVE  ReplyInv'
<1>1. /\ CallReturns("cancelled") /\ stage = "ai" /\ callPc = "done" /\ callPc' = "done"
      /\ outcome = "cancelled" /\ stage' = "over"
      /\ UNCHANGED <<dispatchVars, cancelled>>
  BY DEF AICancelled, CallReturns, PutAway
<1>2. CallInv'
  BY <1>1, CallReturnsInv DEF ReplyInv, Outcomes
<1>3. DispatchInv'
  BY <1>1, DispatchInvKept, PlanTypes DEF ReplyInv
<1>4. cancelled
  BY <1>1 DEF ReplyInv, CallInv, OutcomeIsTrue
<1>5. stage' \in Stages /\ CallThenDispatch' /\ EndHasAReason'
  BY <1>1, <1>4 DEF ReplyInv, CallThenDispatch, EndHasAReason, Stages, dispatchVars
<1> QED
  BY <1>2, <1>3, <1>5 DEF ReplyInv

\* The AI has failed, and the notice, if there is one, gets a context of its own.
LEMMA AIFailsInv ==
  ASSUME ReplyInv, AIFails
  PROVE  ReplyInv'
<1>1. /\ CallReturns("timeout") \/ CallReturns("error")
      /\ stage = "ai" /\ callPc' = "done"
      /\ stage' = IF NoticeEnabled THEN "failed" ELSE "over"
      /\ cancelled' = FALSE
      /\ UNCHANGED dispatchVars
  BY DEF AIFails, CallReturns, PutAway, ReplyInv
<1>2. CallInv'
  BY <1>1, CallReturnsInv DEF ReplyInv, Outcomes
<1>3. sendPc = "idle" /\ result = "none" /\ wire = <<>>
  BY <1>1 DEF ReplyInv, CallThenDispatch, DispatchInv, BeforeTheLoop
<1>4. DispatchInv'
  BY <1>1, <1>3, DispatchInvKept DEF ReplyInv
<1>5. stage' \in Stages /\ CallThenDispatch' /\ EndHasAReason'
  BY <1>1, <1>3 DEF CallThenDispatch, EndHasAReason, Stages, dispatchVars
<1> QED
  BY <1>2, <1>4, <1>5 DEF ReplyInv

\* The answer, or the notice, goes to the dispatch engine.
LEMMA LaunchInv ==
  ASSUME ReplyInv, Launch
  PROVE  ReplyInv'
<1>1. /\ UNCHANGED <<adapterVars, cancelled>> /\ stage # "ai" /\ callPc' = callPc
      /\ stage' \in {"dispatch", "notice"}
  BY DEF Launch, adapterVars
<1>2. CallInv'
  BY <1>1, CallInvKept DEF ReplyInv
<1>3. PICK texts \in SUBSET Texts : StartDispatch(texts)
  BY ReplyAssumption DEF Launch
<1>4. DispatchInv'
  BY <1>1, <1>3, StartDispatchInv, PlanTypes DEF ReplyInv
<1>5. sendPc' = "cut"
  BY <1>3 DEF StartDispatch
<1>6. stage' \in Stages /\ CallThenDispatch' /\ EndHasAReason'
  BY <1>1, <1>5 DEF ReplyInv, CallThenDispatch, EndHasAReason, Stages, Working
<1> QED
  BY <1>2, <1>4, <1>6 DEF ReplyInv

\* A step of the dispatch leaves the context alone, and interrupts only where the
\* context is done.
LEMMA DispatchStepFrame ==
  ASSUME DispatchStep
  PROVE  /\ UNCHANGED cancelled
         /\ sendPc' \in {"check", "post", "delay", "done"}
         /\ sendPc' = "done" => /\ result' \in {"sent", "interrupted", "failed"}
                                /\ result' = "interrupted" => cancelled
BY DEF DispatchStep, Cut, Skip, Check, Post, Delay, Sent, Finish

\* The dispatch runs; nothing else moves.
LEMMA DispatchRunsInv ==
  ASSUME ReplyInv, DispatchRuns
  PROVE  ReplyInv'
<1>1. /\ stage \in {"dispatch", "notice"} /\ DispatchStep /\ UNCHANGED adapterVars
      /\ stage' = IF sendPc' = "done" THEN "over" ELSE stage
  BY DEF DispatchRuns
<1>2. /\ UNCHANGED cancelled /\ callPc' = callPc
      /\ sendPc' \in {"check", "post", "delay", "done"}
      /\ sendPc' = "done" => /\ result' \in {"sent", "interrupted", "failed"}
                             /\ result' = "interrupted" => cancelled
  BY <1>1, DispatchStepFrame DEF adapterVars
<1>3. CallInv'
  BY <1>1, <1>2, CallInvKept DEF ReplyInv
<1>4. DispatchInv'
  BY <1>1, DispatchStepInv DEF ReplyInv
<1>5. stage' \in Stages /\ CallThenDispatch' /\ EndHasAReason'
  BY <1>1, <1>2 DEF ReplyInv, CallThenDispatch, EndHasAReason, Stages, Working
<1> QED
  BY <1>3, <1>4, <1>5 DEF ReplyInv

\* A panic ends the turn, in the call or in the dispatch.
LEMMA PanicInv ==
  ASSUME ReplyInv, Panic
  PROVE  ReplyInv'
<1>1. stage' = "over"
  BY DEF Panic
<1>2. CASE stage = "ai"
  <2>1. /\ PutAway /\ callPc' = "done" /\ result' = "panicked"
        /\ UNCHANGED <<content, bot, plan, next, sendPc, wire, cancelled>>
    BY <1>2 DEF Panic, PutAway
  <2>2. CallInv'
    BY <2>1, PutAwayInv DEF ReplyInv
  <2>3. sendPc = "idle" /\ result = "none"
    BY <1>2 DEF ReplyInv, CallThenDispatch
  <2>4. DispatchTypes' /\ BeforeTheLoop' /\ PostsAPiece' /\ LateIsLast' /\ SaysSomething'
    BY <2>1, <2>3 DEF ReplyInv, DispatchInv, DispatchTypes, BeforeTheLoop, PostsAPiece,
                      LateIsLast, SaysSomething, Working
  <2>5. Delivered'
    <3>1. Received' = Received
      BY <2>1 DEF Received
    <3> QED
      BY <2>1, <2>3, <3>1 DEF ReplyInv, DispatchInv, Delivered
  <2>6. stage' \in Stages /\ CallThenDispatch' /\ EndHasAReason'
    BY <1>1, <2>1, <2>3 DEF CallThenDispatch, EndHasAReason, Stages
  <2> QED
    BY <2>2, <2>4, <2>5, <2>6 DEF ReplyInv, DispatchInv
<1>3. CASE stage \in {"dispatch", "notice"}
  <2>1. /\ DispatchPanics /\ UNCHANGED adapterVars /\ UNCHANGED cancelled
        /\ sendPc' = "done" /\ result' = "panicked"
    BY <1>3 DEF Panic, DispatchPanics, Finish
  <2>2. CallInv'
    BY <2>1, CallInvKept DEF ReplyInv
  <2>3. DispatchInv'
    BY <2>1, DispatchPanicsInv DEF ReplyInv
  <2>4. stage' \in Stages /\ CallThenDispatch' /\ EndHasAReason'
    BY <1>1, <1>3, <2>1 DEF ReplyInv, CallThenDispatch, EndHasAReason, Stages, adapterVars
  <2> QED
    BY <2>2, <2>3, <2>4 DEF ReplyInv
<1> QED
  BY <1>2, <1>3 DEF Panic

\* Time passes for the call, or the context ends.
LEMMA TimeOrCancelInv ==
  ASSUME ReplyInv, TimePasses \/ ContextEnds
  PROVE  ReplyInv'
<1>1. CASE TimePasses
  <2>1. stage = "ai" /\ Tick /\ UNCHANGED <<dispatchVars, stage>>
    BY <1>1 DEF TimePasses
  <2>2. UNCHANGED <<cancelled, callPc>>
    BY <2>1 DEF Tick
  <2>3. CallInv'
    BY <2>1, TickInv DEF ReplyInv
  <2>4. DispatchInv'
    BY <2>1, <2>2, DispatchInvKept, PlanTypes DEF ReplyInv
  <2>5. stage' \in Stages /\ CallThenDispatch' /\ EndHasAReason'
    BY <2>1, <2>2 DEF ReplyInv, CallThenDispatch, EndHasAReason, dispatchVars
  <2> QED
    BY <2>3, <2>4, <2>5 DEF ReplyInv
<1>2. CASE ContextEnds
  <2>1. stage # "over" /\ cancelled' = TRUE /\ UNCHANGED <<adapterVars, dispatchVars, stage>>
    BY <1>2 DEF ContextEnds, Cancel
  <2>2. CallInv'
    BY <2>1, CallInvKept DEF ReplyInv
  <2>3. DispatchInv'
    BY <2>1, DispatchInvKept DEF ReplyInv
  <2>4. stage' \in Stages /\ CallThenDispatch' /\ EndHasAReason'
    BY <2>1 DEF ReplyInv, CallThenDispatch, EndHasAReason, dispatchVars, adapterVars
  <2> QED
    BY <2>2, <2>3, <2>4 DEF ReplyInv
<1> QED
  BY <1>1, <1>2

\* Every step of the turn keeps the invariant.
LEMMA ReplyNextInv ==
  ASSUME ReplyInv, [ReplyNext]_replyVars
  PROVE  ReplyInv'
<1>1. CASE ReplyNext
  BY <1>1, CallRunsInv, AIAnswersInv, AICancelledInv, AIFailsInv, LaunchInv, DispatchRunsInv,
     TimeOrCancelInv, PanicInv DEF ReplyNext, ReplyStep
<1>2. CASE UNCHANGED replyVars
  <2>1. UNCHANGED <<adapterVars, dispatchVars, stage, cancelled>>
    BY <1>2 DEF replyVars
  <2>2. CallInv'
    BY <2>1, CallInvKept DEF ReplyInv
  <2>3. DispatchInv'
    BY <2>1, DispatchInvKept, PlanTypes DEF ReplyInv
  <2>4. stage' \in Stages /\ CallThenDispatch' /\ EndHasAReason'
    BY <2>1 DEF ReplyInv, CallThenDispatch, EndHasAReason, dispatchVars, adapterVars
  <2> QED
    BY <2>2, <2>3, <2>4 DEF ReplyInv
<1> QED
  BY <1>1, <1>2

\* So it holds in every state of every turn.
THEOREM ReplyInvariant == ReplySpec => []ReplyInv
<1>1. ReplyInit => ReplyInv
  BY InitReplyInv
<1>2. ReplyInv /\ [ReplyNext]_replyVars => ReplyInv'
  BY ReplyNextInv
<1> QED
  BY <1>1, <1>2, PTL DEF ReplySpec

-----------------------------------------------------------------------------
(* The turn as a window of the ledger. *)

\* What the ledger is told of the turn: its phase, and what is still untold in it.
Left == IF Phase \in {"telling", "saying"} THEN Untold ELSE 0

\* The steps that the ledger knows, for the one window there is.
LedgerMove ==
    \/ Phase' = Phase /\ Left' = Left
    \/ Phase = "asking" /\ Phase' = "telling"
    \/ Phase = "telling" /\ Phase' = "saying" /\ ~cancelled /\ Left > 0 /\ Left' = Left
    \/ Phase = "saying" /\ Phase' = "telling" /\ Left' = Left - 1
    \/ Phase \in {"asking", "telling", "saying"} /\ Phase' = "over" /\ Left' <= Left

\* A turn that was cancelled stays so while it lasts.
StaysHushed == cancelled /\ Phase # "over" /\ Phase' # "over" => cancelled'

\* Such a move is a step of the ledger.
LEMMA MovesAreLedgerSteps ==
  ASSUME LedgerMove, StaysHushed
  PROVE  Ledger!LedgerNext
<1> DEFINE phase == [w \in {Window} |-> Phase]
           left == [w \in {Window} |-> Left]
           asked == [w \in {Window} |-> {Window}]
<1>1. ASSUME NEW e \in {Window}
      PROVE  Ledger!WindowStep(e)
  <2>1. phase[e] = Phase /\ phase'[e] = Phase' /\ left[e] = Left /\ left'[e] = Left'
        /\ asked'[e] = asked[e]
    OBVIOUS
  <2>2. CASE Phase' = Phase /\ Left' = Left
    <3>1. Ledger!Rest(e)
      BY <2>1, <2>2 DEF Ledger!Rest, Ledger!SameQuestion, Ledger!SameAnswer, Left
    <3> QED
      BY <3>1 DEF Ledger!WindowStep
  <2>3. CASE Phase = "asking" /\ Phase' = "telling"
    <3>1. Ledger!Answer(e)
      BY <2>1, <2>3 DEF Ledger!Answer, Ledger!SameQuestion, Ledger!Moves
    <3> QED
      BY <3>1 DEF Ledger!WindowStep
  <2>4. CASE Phase = "telling" /\ Phase' = "saying" /\ ~cancelled /\ Left > 0 /\ Left' = Left
    <3>1. Ledger!BeginPart(e)
      BY <2>1, <2>4 DEF Ledger!BeginPart, Ledger!SameQuestion, Ledger!SameAnswer, Ledger!Moves, Left
    <3> QED
      BY <3>1 DEF Ledger!WindowStep
  <2>5. CASE Phase = "saying" /\ Phase' = "telling" /\ Left' = Left - 1
    <3>1. Ledger!EndPart(e)
      BY <2>1, <2>5 DEF Ledger!EndPart, Ledger!SameQuestion, Ledger!Moves, Left
    <3> QED
      BY <3>1 DEF Ledger!WindowStep
  <2>6. CASE Phase \in {"asking", "telling", "saying"} /\ Phase' = "over" /\ Left' <= Left
    <3>1. Ledger!End(e)
      BY <2>1, <2>6 DEF Ledger!End, Ledger!SameQuestion, Ledger!Moves, Ledger!Live, Left
    <3> QED
      BY <3>1 DEF Ledger!WindowStep
  <2> QED
    BY <2>2, <2>3, <2>4, <2>5, <2>6 DEF LedgerMove
<1>2. Ledger!HushStep
  BY DEF Ledger!HushStep, Ledger!Live, StaysHushed
<1>3. Ledger!WaitStep
  BY DEF Ledger!WaitStep
<1> QED
  BY <1>1, <1>2, <1>3 DEF Ledger!LedgerNext

\* The pieces from the n-th on that are not passed over.
ToTell(n) == {k \in n .. Len(plan) : ~Empty(plan[k])}

\* How many there are: one fewer after a piece that is told.
LEMMA ToTellSteps ==
  ASSUME plan \in Seq(Piece), NEW n \in 1 .. Len(plan) + 1
  PROVE  /\ Cardinality(ToTell(n)) \in Nat
         /\ n <= Len(plan) /\ Empty(plan[n]) => ToTell(n + 1) = ToTell(n)
         /\ n <= Len(plan) /\ ~Empty(plan[n]) =>
               /\ Cardinality(ToTell(n)) > 0
               /\ Cardinality(ToTell(n + 1)) = Cardinality(ToTell(n)) - 1
<1>1. Len(plan) \in Nat /\ n \in Nat
  OBVIOUS
<1>2. IsFiniteSet(n .. Len(plan)) /\ IsFiniteSet(n + 1 .. Len(plan))
  BY <1>1, FS_Interval
<1>3. IsFiniteSet(ToTell(n)) /\ IsFiniteSet(ToTell(n + 1))
  <2>1. ToTell(n) \subseteq n .. Len(plan) /\ ToTell(n + 1) \subseteq n + 1 .. Len(plan)
    BY DEF ToTell
  <2> QED
    BY <1>2, <2>1, FS_Subset
<1>4. Cardinality(ToTell(n)) \in Nat /\ Cardinality(ToTell(n + 1)) \in Nat
  BY <1>3, FS_CardinalityType
<1>5. ASSUME n <= Len(plan), Empty(plan[n])
      PROVE  ToTell(n + 1) = ToTell(n)
  BY <1>1, <1>5 DEF ToTell
<1>6. ASSUME n <= Len(plan), ~Empty(plan[n])
      PROVE  /\ Cardinality(ToTell(n)) > 0
             /\ Cardinality(ToTell(n + 1)) = Cardinality(ToTell(n)) - 1
  <2>1. ToTell(n) = ToTell(n + 1) \cup {n} /\ n \notin ToTell(n + 1)
    BY <1>1, <1>6 DEF ToTell
  <2>2. Cardinality(ToTell(n + 1) \cup {n}) = Cardinality(ToTell(n + 1)) + 1
    BY <1>3, <2>1, FS_AddElement
  <2> QED
    BY <1>4, <2>1, <2>2
<1> QED
  BY <1>4, <1>5, <1>6

\* What is left to tell is counted by ToTell.
LEMMA UntoldIs ==
  ASSUME ReplyInv
  PROVE  /\ Untold = Cardinality(ToTell(next)) /\ Untold \in Nat
         /\ plan \in Seq(Piece) /\ next \in 1 .. Len(plan) + 1
         /\ Left \in Nat
<1>1. plan \in Seq(Piece) /\ next \in 1 .. Len(plan) + 1
  BY PlanTypes DEF ReplyInv
<1>2. Untold = Cardinality(ToTell(next))
  BY DEF Untold, ToTell
<1>3. Untold \in Nat
  BY <1>1, <1>2, ToTellSteps
<1> QED
  BY <1>1, <1>2, <1>3 DEF Left

\* Outside the dispatch of an answer the turn is asking, or over.
LEMMA BeforeTheAnswer ==
  ASSUME ReplyInv, [ReplyNext]_replyVars, stage # "dispatch"
  PROVE  LedgerMove /\ StaysHushed
<1>1. /\ Phase = IF stage \in {"ai", "answered"} THEN "asking" ELSE "over"
      /\ Left = 0
  BY DEF Phase, Left
<1>2. CASE CallRuns \/ TimePasses \/ ContextEnds \/ UNCHANGED replyVars
  <2>1. stage' = stage /\ (cancelled => cancelled')
    BY <1>2 DEF CallRuns, TimePasses, Tick, ContextEnds, Cancel, replyVars
  <2>2. Phase' = Phase /\ Left' = Left
    BY <1>1, <2>1 DEF Phase, Left
  <2> QED
    BY <2>1, <2>2 DEF LedgerMove, StaysHushed
<1>3. CASE AIAnswers \/ AICancelled \/ AIFails
  <2>1. stage = "ai" /\ stage' \in {"answered", "failed", "over"}
    BY <1>3 DEF AIAnswers, AICancelled, AIFails, CallReturns, PutAway
  <2>2. /\ Phase' = IF stage' = "answered" THEN "asking" ELSE "over"
        /\ Left' = 0
    BY <2>1 DEF Phase, Left
  <2>3. cancelled /\ stage' # "failed" /\ stage' # "over" => cancelled'
    BY <1>3 DEF AIAnswers, AICancelled, AIFails
  <2> QED
    BY <1>1, <2>1, <2>2, <2>3 DEF LedgerMove, StaysHushed
<1>4. CASE Launch
  <2>1. /\ UNCHANGED cancelled
        /\ sendPc' = "cut"
        /\ \/ stage = "answered" /\ stage' = "dispatch"
           \/ stage = "failed" /\ stage' = "notice"
    BY <1>4 DEF Launch, StartDispatch
  <2>2. Phase' = Phase /\ Left' = 0
    BY <1>1, <2>1 DEF Phase, Left
  <2> QED
    BY <1>1, <2>1, <2>2 DEF LedgerMove, StaysHushed
<1>5. CASE DispatchRuns
  <2>1. stage = "notice" /\ stage' \in {"notice", "over"}
    BY <1>5 DEF DispatchRuns
  <2>2. Phase' = "over" /\ Left' = 0
    BY <2>1 DEF Phase, Left
  <2> QED
    BY <1>1, <2>1, <2>2 DEF LedgerMove, StaysHushed
<1>6. CASE Panic
  <2>1. stage \in {"ai", "notice"} /\ stage' = "over"
    BY <1>6 DEF Panic
  <2>2. Phase' = "over" /\ Left' = 0
    BY <2>1 DEF Phase, Left
  <2> QED
    BY <1>1, <2>1, <2>2 DEF LedgerMove, StaysHushed
<1> QED
  BY <1>2, <1>3, <1>4, <1>5, <1>6 DEF ReplyNext, ReplyStep

\* While an answer is dispatched, only the dispatch and the end of the context move.
LEMMA WhileDispatching ==
  ASSUME ReplyInv, [ReplyNext]_replyVars, stage = "dispatch"
  PROVE  LedgerMove /\ StaysHushed
<1>1. sendPc \in Working
  BY DEF ReplyInv, CallThenDispatch
<1>2. Untold \in Nat /\ Left \in Nat
  BY UntoldIs
<1>3. CASE ContextEnds \/ UNCHANGED replyVars
  <2>1. /\ UNCHANGED <<stage, sendPc, plan, next>>
        /\ cancelled => cancelled'
    BY <1>3 DEF ContextEnds, Cancel, replyVars, dispatchVars
  <2>2. Phase' = Phase /\ Untold' = Untold
    BY <2>1 DEF Phase, Untold
  <2>3. Left' = Left
    BY <2>2 DEF Left
  <2> QED
    BY <2>1, <2>2, <2>3 DEF LedgerMove, StaysHushed
<1>4. CASE DispatchRuns
  <2>1. DispatchStep /\ stage' = IF sendPc' = "done" THEN "over" ELSE "dispatch"
    BY <1>4 DEF DispatchRuns
  <2>2. UNCHANGED cancelled /\ sendPc' \in {"check", "post", "delay", "done"}
    BY <2>1, DispatchStepFrame
  <2>3. StaysHushed
    BY <2>2 DEF StaysHushed
  <2>4. Phase = CASE sendPc = "cut" -> "asking"
                  [] sendPc = "post" -> "saying"
                  [] OTHER -> "telling"
    BY <1>1 DEF Phase, Working
  <2>5. Phase' = CASE sendPc' = "done" -> "over"
                   [] sendPc' = "post" -> "saying"
                   [] OTHER -> "telling"
    BY <2>1, <2>2 DEF Phase
  <2>6. CASE sendPc' = "done"
    <3>1. Phase' = "over" /\ Left' = 0
      BY <2>5, <2>6 DEF Left
    <3>2. Phase \in {"asking", "telling", "saying"}
      BY <2>4
    <3> QED
      BY <1>2, <2>3, <3>1, <3>2 DEF LedgerMove
  <2>7. CASE Cut
    <3>1. Phase = "asking" /\ Phase' = "telling"
      BY <2>4, <2>5, <2>7 DEF Cut
    <3> QED
      BY <2>3, <3>1 DEF LedgerMove
  <2>8. CASE Skip
    <3>1. /\ sendPc = "check" /\ sendPc' = "check" /\ next <= Len(plan)
          /\ Empty(plan[next]) /\ next' = next + 1 /\ plan' = plan
      BY <2>8 DEF Skip
    <3>2. ToTell(next + 1) = ToTell(next) /\ Untold = Cardinality(ToTell(next))
      BY <3>1, UntoldIs, ToTellSteps
    <3>3. Untold' = Cardinality(ToTell(next + 1))
      BY <3>1 DEF Untold, ToTell
    <3>4. Phase = "telling" /\ Phase' = "telling"
      BY <2>4, <2>5, <3>1
    <3>5. Left' = Left
      BY <3>2, <3>3, <3>4 DEF Left
    <3> QED
      BY <2>3, <3>4, <3>5 DEF LedgerMove
  <2>9. CASE Check /\ sendPc' # "done"
    <3>1. /\ sendPc = "check" /\ sendPc' = "post" /\ next <= Len(plan)
          /\ ~Empty(plan[next]) /\ ~cancelled /\ next' = next /\ plan' = plan
      BY <2>9 DEF Check, Finish
    <3>2. Cardinality(ToTell(next)) > 0 /\ Untold = Cardinality(ToTell(next))
      BY <3>1, UntoldIs, ToTellSteps
    <3>3. Untold' = Untold
      BY <3>1 DEF Untold
    <3>4. Phase = "telling" /\ Phase' = "saying"
      BY <2>4, <2>5, <3>1
    <3>5. Left' = Left /\ Left > 0
      BY <3>2, <3>3, <3>4 DEF Left
    <3> QED
      BY <2>3, <3>1, <3>4, <3>5 DEF LedgerMove
  <2>10. CASE Post /\ sendPc' # "done"
    <3>1. /\ sendPc = "post" /\ sendPc' \in {"check", "delay"}
          /\ next' = next + 1 /\ plan' = plan
      BY <2>10 DEF Post, Finish
    <3>2. next <= Len(plan) /\ ~Empty(plan[next])
      BY <3>1 DEF ReplyInv, DispatchInv, PostsAPiece
    <3>3. /\ Cardinality(ToTell(next + 1)) = Cardinality(ToTell(next)) - 1
          /\ Untold = Cardinality(ToTell(next))
      BY <3>2, UntoldIs, ToTellSteps
    <3>4. Untold' = Cardinality(ToTell(next + 1))
      BY <3>1 DEF Untold, ToTell
    <3>5. Phase = "saying" /\ Phase' = "telling"
      BY <2>4, <2>5, <3>1
    <3>6. Left' = Left - 1
      BY <3>3, <3>4, <3>5 DEF Left
    <3> QED
      BY <2>3, <3>5, <3>6 DEF LedgerMove
  <2>11. CASE Delay /\ sendPc' # "done"
    <3>1. /\ sendPc = "delay" /\ sendPc' = "check" /\ UNCHANGED <<next, plan>>
      BY <2>11 DEF Delay, Finish
    <3>2. Phase = "telling" /\ Phase' = "telling"
      BY <2>4, <2>5, <3>1
    <3>3. Left' = Left
      BY <3>1, <3>2 DEF Left, Untold
    <3> QED
      BY <2>3, <3>2, <3>3 DEF LedgerMove
  <2>12. CASE Sent
    BY <2>6, <2>12 DEF Sent, Finish
  <2> QED
    BY <2>1, <2>6, <2>7, <2>8, <2>9, <2>10, <2>11, <2>12 DEF DispatchStep
<1>5. CASE CallRuns \/ AIAnswers \/ AICancelled \/ AIFails \/ Launch \/ TimePasses
  BY <1>5 DEF CallRuns, AIAnswers, AICancelled, AIFails, CallReturns, Launch, TimePasses
<1>6. CASE Panic
  <2>1. stage' = "over"
    BY <1>6 DEF Panic
  <2>2. Phase' = "over" /\ Left' = 0
    BY <2>1 DEF Phase, Left
  <2>3. Phase \in {"asking", "telling", "saying"}
    BY <1>1 DEF Phase, Working
  <2> QED
    BY <1>2, <2>2, <2>3 DEF LedgerMove, StaysHushed
<1> QED
  BY <1>3, <1>4, <1>5, <1>6 DEF ReplyNext, ReplyStep

-----------------------------------------------------------------------------
(* What holds of every turn. *)

\* The invariant has the types in it.
LEMMA ReplyInvTypes ==
  ASSUME ReplyInv
  PROVE  ReplyTypeOK
<1>1. CallTypeOK /\ DispatchTypeOK
  BY CallInvImplies, DispatchInvImplies DEF ReplyInv
<1>2. stage \in Stages /\ cancelled \in BOOLEAN
  BY DEF ReplyInv, DispatchInv, DispatchTypes
<1>3. stage # "ai" => callPc = "done" /\ items = <<>>
  BY DEF ReplyInv, CallThenDispatch, CallInv, ItemsLeft
<1>4. sendPc \notin {"idle", "done"} => stage \in {"dispatch", "notice"}
  BY DEF ReplyInv, CallThenDispatch, Stages
<1> QED
  BY <1>1, <1>2, <1>3, <1>4 DEF ReplyTypeOK

\* A silent end has one of its reasons.
LEMMA ReplyInvReason ==
  ASSUME ReplyInv
  PROVE  SilenceHasAReason
<1>1. SUFFICES ASSUME stage = "over", wire = <<>>
               PROVE  \/ cancelled
                      \/ result \in {"failed", "panicked"}
                      \/ result = "sent" /\ content = <<>>
                      \/ result = "none" /\ ~NoticeEnabled
  BY DEF SilenceHasAReason
<1>2. sendPc \in {"idle", "done"}
  BY <1>1 DEF ReplyInv, CallThenDispatch
<1>3. result \in {"none", "sent", "interrupted", "failed", "panicked"}
  BY DispatchInvImplies DEF ReplyInv, DispatchTypeOK
<1>4. CASE sendPc = "done"
  <2>1. result # "none" /\ (result = "interrupted" => cancelled)
    BY <1>4 DEF ReplyInv, EndHasAReason
  <2>2. result = "sent" => content = <<>>
    BY <1>1, <1>4, SentIsHeard DEF ReplyInv
  <2> QED
    BY <1>3, <2>1, <2>2
<1>5. CASE sendPc = "idle"
  <2>1. cancelled \/ result \in {"failed", "panicked"} \/ ~NoticeEnabled
    BY <1>1, <1>5 DEF ReplyInv, EndHasAReason
  <2>2. result \in {"none", "failed", "panicked"}
    BY <1>1, <1>5 DEF ReplyInv, DispatchInv, BeforeTheLoop
  <2> QED
    BY <2>1, <2>2
<1> QED
  BY <1>2, <1>4, <1>5

\* Every variable of a turn has its type, and the adapter and the dispatch engine are
\* never at work at once (runAIStage, then runDispatchStage).
THEOREM ReplyTypes == ReplySpec => []ReplyTypeOK
<1>1. ReplyInv => ReplyTypeOK
  BY ReplyInvTypes
<1> QED
  BY <1>1, ReplyInvariant, PTL

\* The files of one request fit the total, and each of them the cap of a file, for any
\* caps and any number of attachments (buildFileParts).
THEOREM BytesAreBounded == ReplySpec => []MediaWithinBudget
<1>1. ReplyInv => MediaWithinBudget
  BY CallInvImplies DEF ReplyInv
<1> QED
  BY <1>1, ReplyInvariant, PTL

\* The downloads hold the request back no longer than their budget, for any timeout
\* and any number of attachments (buildFileParts).
THEOREM DownloadsAreBounded == ReplySpec => []MediaTimeBounded
<1>1. ReplyInv => MediaTimeBounded
  BY CallInvImplies DEF ReplyInv
<1> QED
  BY <1>1, ReplyInvariant, PTL

\* Every retry is preceded by a wait of at least half of what the exponential backoff
\* or its cap asks for, for any base, any number of retries and any width of a
\* duration that the cap fits in: a shift that overflows is never taken for a short
\* wait (backoffDelay, Call).
THEOREM RetriesWait == ReplySpec => RetriesBackOff
<1> DEFINE Full == Lesser(config.base * Pow2(attempt), MaxBackoff)
           Long(wait) == /\ wait \in 1 .. MaxBackoff
                         /\ config.base <= MaxBackoff => 2 * wait + 1 >= Full
           Real == callPc = "request" /\ callPc' = "backoff" => Long(due' - now)
<1>1. ReplyInv /\ [ReplyNext]_replyVars => [Real]_adapterVars
  <2> SUFFICES ASSUME ReplyInv, [ReplyNext]_replyVars, callPc = "request", callPc' = "backoff"
               PROVE  Long(due' - now)
    OBVIOUS
  <2>1. CASE CallRuns
    BY <2>1, RetryWaits DEF ReplyInv, CallRuns
  <2>2. CASE AIAnswers \/ AICancelled \/ AIFails \/ Panic
    BY <2>2 DEF AIAnswers, AICancelled, AIFails, CallReturns, Panic, PutAway, adapterVars
  <2>3. CASE Launch \/ DispatchRuns \/ TimePasses \/ ContextEnds \/ UNCHANGED replyVars
    BY <2>3 DEF Launch, DispatchRuns, TimePasses, Tick, ContextEnds, replyVars, adapterVars
  <2> QED
    BY <2>1, <2>2, <2>3 DEF ReplyNext, ReplyStep
<1> QED
  BY <1>1, ReplyInvariant, PTL DEF ReplySpec, RetriesBackOff

\* The call tells a cancel and a timeout apart for any number of attempts: the ceiling
\* is not reached before an attempt has had its timeout (Call).
THEOREM OutcomesAreTrue == ReplySpec => []OutcomeIsTrue
<1>1. ReplyInv => OutcomeIsTrue
  BY CallInvImplies DEF ReplyInv
<1> QED
  BY <1>1, ReplyInvariant, PTL

\* All attempts and backoffs keep to their worst case, timers that are late included
\* (Call, backoffDelay).
THEOREM CallsAreBounded == ReplySpec => []CallIsBounded
<1>1. ReplyInv => CallIsBounded
  BY CallInvImplies DEF ReplyInv
<1> QED
  BY <1>1, ReplyInvariant, PTL

\* Cutting loses, doubles and moves no word of any text, at any limit
\* (segmentContent).
THEOREM NoWordIsLost == ReplySpec => []TextKept
<1>1. ReplyInv => TextKept
  BY DispatchInvImplies DEF ReplyInv
<1> QED
  BY <1>1, ReplyInvariant, PTL

\* No part of any text is longer than the limit unless it is one word
\* (segmentContent).
THEOREM PartsFitTheLimit == ReplySpec => []SegmentsFit
<1>1. ReplyInv => SegmentsFit
  BY DispatchInvImplies DEF ReplyInv
<1> QED
  BY <1>1, ReplyInvariant, PTL

\* No way to cut a text of any length within any limit makes fewer parts
\* (segmentContent's greedy loop).
THEOREM PartsAreFewest == ReplySpec => []FewestParts
<1>1. ReplyInv => FewestParts
  BY DispatchInvImplies DEF ReplyInv
<1> QED
  BY <1>1, ReplyInvariant, PTL

\* The second loop merges nothing, whatever the minimum size and whatever the text: what
\* the first loop has cut, or left whole, is what is sent (segmentContent).
THEOREM MergingIsIdle == ReplySpec => [](Parts = Split(Residual, bot))
<1>1. ReplyInv => Parts = Split(Residual, bot)
  BY PartsType DEF ReplyInv
<1> QED
  BY <1>1, ReplyInvariant, PTL

\* The CRM receives the pieces in order, none twice and none left out, and all of them
\* when the dispatch says so, however many there are (Dispatch).
THEOREM PiecesComeInOrder == ReplySpec => []DeliveredIsPrefix
<1>1. ReplyInv => DeliveredIsPrefix
  BY DispatchInvImplies DEF ReplyInv
<1> QED
  BY <1>1, ReplyInvariant, PTL

\* At most one piece gets through after a cancel, however many are left (Dispatch).
THEOREM OneLatePiece == ReplySpec => []AtMostOneAfterCancel
<1>1. ReplyInv => AtMostOneAfterCancel
  BY DispatchInvImplies DEF ReplyInv
<1> QED
  BY <1>1, ReplyInvariant, PTL

\* A turn that ends without a word had a reason, whatever was asked and answered
\* (runAIStage, runDispatchStage, sendAIFailureNotice, recoverPipeline).
THEOREM SilenceIsExplained == ReplySpec => []SilenceHasAReason
<1>1. ReplyInv => SilenceHasAReason
  BY ReplyInvReason
<1> QED
  BY <1>1, ReplyInvariant, PTL

\* A cancel that is seen before there is an answer is returned as one, and not taken
\* for a timeout or a failure (doOnce, Call).
THEOREM CancelsAreSeen == ReplySpec => CancelIsSeen
<1> DEFINE Seen == /\ outcome' # outcome
                   /\ cancelled
                   /\ callPc = "backoff" \/ (callPc = "request" /\ ~answered')
                   => outcome' = "cancelled"
<1>1. ReplyInv /\ [ReplyNext]_replyVars => [Seen]_outcome
  <2> SUFFICES ASSUME ReplyInv, [ReplyNext]_replyVars, outcome' # outcome, cancelled,
                      callPc = "backoff" \/ (callPc = "request" /\ ~answered')
               PROVE  outcome' = "cancelled"
    OBVIOUS
  <2>1. CASE CallRuns
    BY <2>1, CancelSeenStep DEF ReplyInv, CallRuns
  <2>2. CASE AIAnswers \/ AICancelled \/ AIFails \/ Panic
    <3>1. outcome = "none"
      BY DEF ReplyInv, CallInv, NoOutcomeYet
    <3> QED
      BY <2>2, <3>1 DEF AIAnswers, AICancelled, AIFails, CallReturns, Panic, PutAway, adapterVars
  <2>3. CASE Launch \/ DispatchRuns \/ TimePasses \/ ContextEnds \/ UNCHANGED replyVars
    BY <2>3 DEF Launch, DispatchRuns, TimePasses, Tick, ContextEnds, replyVars, adapterVars
  <2> QED
    BY <2>1, <2>2, <2>3 DEF ReplyNext, ReplyStep
<1> QED
  BY <1>1, ReplyInvariant, PTL DEF ReplySpec, CancelIsSeen

\* Every step of the adapter, the service and the dispatch engine is a step that the
\* ledger of Pipeline allows a window, for any answer and any number of parts.
THEOREM TurnIsAWindow == ReplySpec => TurnFollowsLedger
<1>1. ReplyInv /\ [ReplyNext]_replyVars => [Ledger!LedgerNext]_(Ledger!ledgerVars)
  <2> SUFFICES ASSUME ReplyInv, [ReplyNext]_replyVars
               PROVE  Ledger!LedgerNext
    OBVIOUS
  <2>1. LedgerMove /\ StaysHushed
    BY BeforeTheAnswer, WhileDispatching
  <2> QED
    BY <2>1, MovesAreLedgerSteps
<1> QED
  BY <1>1, ReplyInvariant, PTL DEF ReplySpec, TurnFollowsLedger

=============================================================================
