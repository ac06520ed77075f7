---------------------------- MODULE LedgerProofs ----------------------------
(***************************************************************************)
(* Pipeline implements TurnLedger, for any number of events, replicas,     *)
(* parts, crashes and faults.                                              *)
(***************************************************************************)
EXTENDS PipelineLedger, PipelineProofs

-----------------------------------------------------------------------------
(* Turns. *)

\* A window has one turn at most: whichever is found is the one TurnOf chooses.
LEMMA TurnFound ==
  ASSUME WindowLaunchedOnce, NEW e \in Events, NEW t \in Turns, turn[t].window = e
  PROVE  HasTurn(e) /\ TurnOf(e) = t
<1>1. e # None
  BY StoreAssumption
<1>2. TurnOf(e) \in Turns /\ turn[TurnOf(e)].window = e
  BY DEF TurnOf
<1> QED
  BY <1>1, <1>2 DEF HasTurn, WindowLaunchedOnce

\* The same of the next state.
LEMMA TurnFoundNext ==
  ASSUME WindowLaunchedOnce', NEW e \in Events, NEW t \in Turns, turn'[t].window = e
  PROVE  HasTurn(e)' /\ TurnOf(e)' = t
<1>1. e # None
  BY StoreAssumption
<1>2. TurnOf(e)' \in Turns /\ turn'[TurnOf(e)'].window = e
  BY DEF TurnOf
<1> QED
  BY <1>1, <1>2 DEF HasTurn, WindowLaunchedOnce

\* What a step may do to a turn, in the words of the ledger.
TurnMoves(t) ==
    \/ PhaseOfTurn(t)' = PhaseOfTurn(t) /\ turn'[t].left = turn[t].left
    \/ PhaseOfTurn(t) = "asking" /\ PhaseOfTurn(t)' = "telling"
    \/ /\ PhaseOfTurn(t) = "telling" /\ PhaseOfTurn(t)' = "saying"
       /\ turn[t].pc \in LivePcs /\ ~Interrupted(t)
       /\ turn[t].left > 0 /\ turn'[t].left = turn[t].left
    \/ /\ PhaseOfTurn(t) = "saying" /\ PhaseOfTurn(t)' = "telling"
       /\ turn'[t].left = turn[t].left - 1
    \/ /\ PhaseOfTurn(t) \in {"asking", "telling", "saying"} /\ PhaseOfTurn(t)' = "over"
       /\ turn'[t].left <= turn[t].left

\* The goroutine's own steps.
LEMMA TurnStepMoves ==
  ASSUME TypeInv, NEW t \in Turns, TurnStep(t)
  PROVE  TurnMoves(t)
<1>1. /\ turn \in [Turns -> TurnRecords]
      /\ turn[t] \in TurnRecords
      /\ turn[t].left \in Nat
  BY PipelineAssumption DEF TypeInv, TypeOK, TurnRecords
<1>2. ASSUME NEW l, To(t, l) PROVE turn'[t].pc = l /\ turn'[t].left = turn[t].left
  BY <1>1, <1>2 DEF To, TurnRecords
<1>3. CASE CallAI(t)
  <2>1. CASE To(t, "ended") \/ To(t, "failclear")
    BY <1>1, <1>2, <1>3, <2>1 DEF CallAI, TurnMoves, PhaseOfTurn
  <2>2. CASE \E n \in 0..MaxParts :
                turn' = [turn EXCEPT ![t].pc = "setdispatch", ![t].left = n]
    <3>1. turn'[t].pc = "setdispatch"
      BY <1>1, <2>2 DEF TurnRecords
    <3> QED
      BY <1>3, <3>1 DEF CallAI, TurnMoves, PhaseOfTurn
  <2> QED
    BY <1>3, <2>1, <2>2 DEF CallAI
<1>4. CASE ClearFailed(t) \/ SetDispatch(t) \/ Drop(t) \/ SetDone(t) \/ Tidy(t) \/ Forget(t)
  BY <1>1, <1>2, <1>4
  DEF ClearFailed, SetDispatch, Drop, SetDone, Tidy, Forget, TurnMoves, PhaseOfTurn
<1>5. CASE Panic(t)
  BY <1>1, <1>2, <1>5 DEF Panic, TurnMoves, PhaseOfTurn
<1>6. CASE Notify(t)
  <2>1. turn'[t].pc = "ended" /\ turn'[t].left = turn[t].left
    BY <1>1, <1>6 DEF Notify, TurnRecords
  <2> QED
    BY <1>1, <1>6, <2>1 DEF Notify, TurnMoves, PhaseOfTurn
<1>7. CASE CheckContext(t)
  BY <1>1, <1>2, <1>7 DEF CheckContext, TurnMoves, PhaseOfTurn, LivePcs
<1>8. CASE Post(t)
  <2>1. turn'[t].pc \in {"send", "drop"} /\ turn'[t].left = turn[t].left - 1
    BY <1>1, <1>8 DEF Post, TurnRecords
  <2> QED
    BY <1>1, <1>8, <2>1 DEF Post, TurnMoves, PhaseOfTurn
<1>9. CASE LoadRequest(t)
  <2>1. turn'[t].pc = "call" /\ turn'[t].left = turn[t].left
    BY <1>1, <1>9 DEF LoadRequest, TurnRecords
  <2> QED
    BY <1>1, <1>9, <2>1 DEF LoadRequest, TurnMoves, PhaseOfTurn
<1> QED
  BY <1>3, <1>4, <1>5, <1>6, <1>7, <1>8, <1>9 DEF TurnStep

\* A turn's step is its own, and what SetState(StageAI) launches takes a free slot.
LEMMA LaunchStep ==
  ASSUME TypeInv, NEW a \in Actors, EnterAI(a)
  PROVE  \/ turn' = turn
         \/ \E r : /\ launches + 1 \in Turns
                   /\ turn' = [turn EXCEPT ![launches + 1] = r]
                   /\ r.pc = "start" /\ r.left = 0 /\ r.text = snap[a].text
                   /\ r.host = Host(a)
                   /\ r.window = IF a \in Instances THEN snap[a].window ELSE a
<1>1. CASE UNCHANGED turns
  BY <1>1 DEF turns
<1>2. CASE Launch(a)
  <2>1. launches + 1 \in Turns
    BY <1>2, PipelineAssumption DEF Launch, Turns, TypeInv, TypeOK
  <2> DEFINE r == [pc |-> "start", host |-> Host(a), ctx |-> entry[Host(a)], url |-> None,
                   window |-> IF a \in Instances THEN snap[a].window ELSE a,
                   text |-> snap[a].text, media |-> snap[a].media,
                   left |-> 0, sent |-> 0, noticed |-> FALSE]
  <2>2. turn' = turn \/ turn' = [turn EXCEPT ![launches + 1] = r]
    BY <1>2 DEF Launch
  <2> QED
    BY <2>1, <2>2
<1> QED
  BY <1>1, <1>2 DEF EnterAI

\* What every step does to the turn of a window: it moves on, and keeps what it was
\* launched with.
LEMMA TurnsMove ==
  ASSUME TypeInv, LaunchLedger, Next, NEW t \in Turns, turn[t].window # None
  PROVE  TurnMoves(t) /\ SameLaunch(t)
<1>1. /\ turn \in [Turns -> TurnRecords]
      /\ turn[t] \in TurnRecords
      /\ turn[t].left \in Nat
      /\ Events \subseteq Actors /\ Instances \subseteq Actors
  BY PipelineAssumption DEF TypeInv, TypeOK, TurnRecords, Actors
<1>2. ASSUME turn'[t] = turn[t] PROVE TurnMoves(t) /\ SameLaunch(t)
  BY <1>2 DEF TurnMoves, SameLaunch, PhaseOfTurn
<1>3. ASSUME NEW a \in Actors, EnterAI(a) PROVE turn'[t] = turn[t]
  <2>1. t # launches + 1
    BY DEF LaunchLedger, TypeInv, TypeOK, Turns
  <2> QED
    BY <1>1, <1>3, <2>1, LaunchStep
<1>4. CASE \A a \in Actors : ~EnterAI(a)
  <2>1. SameLaunch(t)
    BY <1>4, WindowsKept
  <2>2. ASSUME NEW u \in Turns, TurnStep(u) PROVE TurnMoves(t)
    <3>1. CASE u = t
      BY <2>2, <3>1, TurnStepMoves
    <3>2. CASE u # t
      <4>1. turn'[t] = turn[t]
        BY <1>1, <2>2, <3>2
        DEF TurnStep, LoadRequest, CallAI, ClearFailed, Notify, SetDispatch, CheckContext, Post, Drop,
            SetDone, Tidy, Forget, Panic, To
      <4> QED
        BY <1>2, <4>1
    <3> QED
      BY <3>1, <3>2
  <2>3. ASSUME NEW i \in Instances, Crash(i) \/ Exit(i) PROVE TurnMoves(t)
    <3>1. \/ turn'[t] = turn[t]
          \/ turn[t].pc \in LivePcs /\ turn'[t] = [turn[t] EXCEPT !.pc = "crashed"]
      BY <2>3 DEF Crash, Exit, Vanish
    <3>2. CASE turn[t].pc \in LivePcs /\ turn'[t] = [turn[t] EXCEPT !.pc = "crashed"]
      <4>1. turn'[t].pc = "crashed" /\ turn'[t].left = turn[t].left
        BY <1>1, <3>2 DEF TurnRecords
      <4> QED
        BY <1>1, <3>2, <4>1 DEF TurnMoves, PhaseOfTurn, LivePcs
    <3> QED
      BY <1>2, <3>1, <3>2
  <2>4. ASSUME NEW i \in Instances, Shutdown(i) \/ Boot(i) PROVE turn'[t] = turn[t]
    BY <2>4 DEF Shutdown, Boot, turns
  <2>5. ASSUME NEW e \in Events, NEW i \in Instances, Accept(e, i) PROVE turn'[t] = turn[t]
    BY <2>5 DEF Accept, turns
  <2>6. ASSUME NEW e \in Events, EventStep(e) PROVE turn'[t] = turn[t]
    BY <1>1, <1>4, <2>6
    DEF EventStep, LockForEvent, ReadStage, Supersede, ClearInterrupted, StoreAndAppend,
        Attach, StartTimer, OpenWindow, ExtendWindow, ReadBuffer, ReadMedia, Unlock, turns
  <2>7. ASSUME NEW i \in Instances, InstanceStep(i) PROVE turn'[t] = turn[t]
    BY <1>1, <1>4, <2>7
    DEF InstanceStep, Recover, RecoverExpired, Poll, ProbeTimer, LockForAdvance, RecheckStage,
        RecheckTimer, ReadBuffer, ReadMedia, Unlock, turns
  <2>8. CASE TimerExpires \/ MediaExpires \/ LockExpires
    BY <1>2, <2>8 DEF TimerExpires, MediaExpires, LockExpires, turns
  <2> QED
    BY <1>2, <2>1, <2>2, <2>3, <2>4, <2>5, <2>6, <2>7, <2>8 DEF Next, ReplicaStep
<1> QED
  BY <1>2, <1>3, <1>4

\* A context once cancelled stays so as long as its replica runs, and so does the
\* goroutine's: what is superseded is so for good.
LEMMA CancelledStays ==
  ASSUME TypeInv, Next, NEW i \in Instances
  PROVE  cancelled[i] \subseteq cancelled'[i] \/ Vanish(i)
<1>1. cancelled \in [Instances -> SUBSET Events]
  BY DEF TypeInv, TypeOK
<1>2. ASSUME NEW j, NEW e, cancelled' = [cancelled EXCEPT ![j] = @ \cup {e}]
      PROVE  cancelled[i] \subseteq cancelled'[i]
  BY <1>1, <1>2
<1>3. ASSUME NEW j, CancelPair(j) PROVE cancelled[i] \subseteq cancelled'[i]
  BY <1>1, <1>3 DEF CancelPair
<1>4. ASSUME NEW a, GiveUp(a) PROVE cancelled[i] \subseteq cancelled'[i]
  BY <1>2, <1>4 DEF GiveUp, locals
<1>5. ASSUME NEW e \in Events, EventStep(e) PROVE cancelled[i] \subseteq cancelled'[i]
  <2>1. UNCHANGED cancelled \/ GiveUp(e) \/ CancelPair(host[e])
    BY <1>5
    DEF EventStep, LockForEvent, ReadStage, Supersede, ClearInterrupted, StoreAndAppend, Attach,
        StartTimer, OpenWindow, ExtendWindow, ReadBuffer, ReadMedia, EnterAI, Unlock, locals
  <2> QED
    BY <1>3, <1>4, <2>1
<1>6. ASSUME NEW j \in Instances, InstanceStep(j) PROVE cancelled[i] \subseteq cancelled'[i]
  <2>1. UNCHANGED cancelled \/ GiveUp(j)
    BY <1>6
    DEF InstanceStep, Recover, RecoverExpired, Poll, ProbeTimer, LockForAdvance, RecheckStage,
        RecheckTimer, ReadBuffer, ReadMedia, EnterAI, Unlock, locals
  <2> QED
    BY <1>4, <2>1
<1>7. ASSUME NEW j \in Instances, ReplicaStep(j)
      PROVE  cancelled[i] \subseteq cancelled'[i] \/ Vanish(i)
  <2>1. CASE Shutdown(j)
    BY <1>1, <2>1 DEF Shutdown
  <2>2. CASE Crash(j) \/ Exit(j)
    <3>1. Vanish(j)
      BY <2>2 DEF Crash, Exit
    <3>2. CASE j # i
      BY <1>1, <3>1, <3>2 DEF Vanish
    <3> QED
      BY <3>1, <3>2
  <2>3. CASE Boot(j)
    BY <2>3 DEF Boot
  <2> QED
    BY <1>7, <2>1, <2>2, <2>3 DEF ReplicaStep
<1>8. ASSUME NEW t \in Turns, TurnStep(t) PROVE cancelled' = cancelled
  BY <1>8 DEF TurnStep, LoadRequest, CallAI, ClearFailed, Notify, SetDispatch, CheckContext, Post, Drop,
              SetDone, Tidy, Forget, Panic, locals
<1>9. ASSUME NEW e \in Events, NEW j \in Instances, Accept(e, j) PROVE cancelled' = cancelled
  BY <1>9 DEF Accept
<1>10. CASE TimerExpires \/ MediaExpires \/ LockExpires
  BY <1>10 DEF TimerExpires, MediaExpires, LockExpires, locals
<1> QED
  BY <1>5, <1>6, <1>7, <1>8, <1>9, <1>10 DEF Next

\* A turn runs on a replica.
TurnsHosted == \A t \in Turns : turn[t].window # None => turn[t].host \in Instances

\* It always does.
LEMMA AlwaysTurnsHosted == Spec => []TurnsHosted
<1>1. Init => TurnsHosted
  BY DEF Init, TurnsHosted, Unused
<1>2. TypeInv /\ LaunchLedger /\ TurnsHosted /\ [Next]_vars => TurnsHosted'
  <2> SUFFICES ASSUME TypeInv, LaunchLedger, TurnsHosted, Next,
                      NEW t \in Turns, turn'[t].window # None
               PROVE  turn'[t].host \in Instances
    BY DEF TurnsHosted, vars, turns
  <2>1. CASE \A a \in Actors : ~EnterAI(a)
    BY <2>1, WindowsKept DEF SameLaunch, TurnsHosted
  <2>2. ASSUME NEW a \in Actors, EnterAI(a) PROVE turn'[t].host \in Instances
    <3>1. Host(a) \in Instances
      BY <2>2 DEF EnterAI, Host, TypeInv, Hosted, Actors
    <3>2. turn \in [Turns -> TurnRecords]
      BY DEF TypeInv, TypeOK
    <3>3. CASE turn' = turn
      BY <3>3 DEF TurnsHosted
    <3>4. ASSUME NEW r, launches + 1 \in Turns, turn' = [turn EXCEPT ![launches + 1] = r],
                 r.host = Host(a)
          PROVE  turn'[t].host \in Instances
      BY <3>1, <3>2, <3>4 DEF TurnsHosted
    <3> QED
      BY <2>2, <3>3, <3>4, LaunchStep
  <2> QED
    BY <2>1, <2>2
<1> QED
  BY <1>1, <1>2, AlwaysTypeInv, AlwaysLedger, PTL DEF Spec

\* A superseded turn stays so while it has something left to do.
LEMMA HushStays ==
  ASSUME TypeInv, LaunchLedger, TurnsHosted, Next, NEW t \in Turns, turn[t].window # None,
         Interrupted(t), turn'[t].pc \in LivePcs
  PROVE  Interrupted(t)'
<1>1. turn[t].host \in Instances /\ SameLaunch(t)
  BY TurnsMove DEF TurnsHosted
<1>2. CASE Vanish(turn[t].host)
  <2>1. /\ turn[t].pc \in LivePcs => turn'[t] = [turn[t] EXCEPT !.pc = "crashed"]
        /\ turn[t].pc \notin LivePcs => turn'[t] = turn[t]
    BY <1>1, <1>2 DEF Vanish
  <2>2. turn[t] \in TurnRecords
    BY DEF TypeInv, TypeOK
  <2>3. turn[t].pc \in LivePcs => turn'[t].pc = "crashed"
    BY <2>1, <2>2 DEF TurnRecords
  <2> QED
    BY <2>1, <2>3 DEF LivePcs
<1>3. CASE cancelled[turn[t].host] \subseteq cancelled'[turn[t].host]
  BY <1>1, <1>3 DEF SameLaunch, Interrupted
<1> QED
  BY <1>1, <1>2, <1>3, CancelledStays

-----------------------------------------------------------------------------
(* Windows without a turn. *)

\* Process is past the calls that can open a window for good.
LEMMA CanOpenFrom ==
  ASSUME TypeInv, Next, NEW e \in Events, CanOpen(e)'
  PROVE  CanOpen(e)
<1> USE StoreAssumption DEF CanOpen, CriticalPcs, SharedPcs
<1>1. /\ pc \in [Actors -> EventPcs \cup InstancePcs]
      /\ Events \subseteq Actors /\ Instances \subseteq Actors
  BY DEF TypeInv, TypeOK, Actors
<1>2. ASSUME NEW a \in Actors, NEW l, Goto(a, l), a # e PROVE pc'[e] = pc[e]
  BY <1>1, <1>2 DEF Goto
<1>3. CASE pc'[e] = pc[e]
  BY <1>3
<1>4. ASSUME NEW f \in Events, EventStep(f) PROVE CanOpen(e)
  <2>1. CASE f = e
    <3>1. pc[e] \in {"accepted"} \cup CriticalPcs
      BY <1>4, <2>1 DEF EventStep, LockForEvent, ReadStage, Supersede, ClearInterrupted,
            StoreAndAppend, Attach, StartTimer, OpenWindow, ExtendWindow, ReadBuffer, ReadMedia,
            EnterAI, Unlock
    <3>2. CASE pc[e] \in {"return", "fail"}
      <4>1. Unlock(e)
        BY <1>4, <2>1, <3>2 DEF EventStep, LockForEvent, ReadStage, Supersede, ClearInterrupted,
              StoreAndAppend, Attach, StartTimer, OpenWindow, ExtendWindow, ReadBuffer, ReadMedia,
              EnterAI
      <4>2. pc'[e] \in {"returned", "failed"}
        BY <1>1, <4>1 DEF Unlock, Goto
      <4> QED
        BY <4>2
    <3> QED
      BY <3>1, <3>2
  <2>2. CASE f # e
    <3>1. \E l : Goto(f, l)
      BY <1>4 DEF EventStep, LockForEvent, ReadStage, Supersede, ClearInterrupted, StoreAndAppend,
                  Attach, StartTimer, OpenWindow, ExtendWindow, ReadBuffer, ReadMedia, EnterAI,
                  Unlock, GiveUp
    <3> QED
      BY <1>1, <1>2, <1>3, <2>2, <3>1
  <2> QED
    BY <2>1, <2>2
<1>5. ASSUME NEW f \in Events, NEW i \in Instances, Accept(f, i) PROVE CanOpen(e)
  <2>1. PICK l : Goto(f, l) /\ pc[f] = "new"
    BY <1>5 DEF Accept
  <2> QED
    BY <1>1, <1>2, <1>3, <2>1
<1>6. ASSUME NEW i \in Instances, InstanceStep(i) PROVE pc'[e] = pc[e]
  <2>1. \E l : Goto(i, l)
    BY <1>6 DEF InstanceStep, Recover, RecoverExpired, Poll, ProbeTimer, LockForAdvance,
                RecheckStage, RecheckTimer, ReadBuffer, ReadMedia, EnterAI, Unlock, GiveUp, Resume
  <2> QED
    BY <1>1, <1>2, <2>1
<1>7. ASSUME NEW i \in Instances, ReplicaStep(i) PROVE CanOpen(e)
  <2>1. CASE Shutdown(i)
    BY <1>3, <2>1 DEF Shutdown
  <2>2. CASE Boot(i)
    BY <1>1, <1>2, <1>3, <2>2 DEF Boot
  <2>3. CASE Crash(i) \/ Exit(i)
    <3>1. pc'[e] \in {"off", "crashed", pc[e]}
      BY <1>1, <2>3 DEF Crash, Exit, Vanish
    <3> QED
      BY <1>3, <3>1
  <2> QED
    BY <1>7, <2>1, <2>2, <2>3 DEF ReplicaStep
<1>8. ASSUME NEW t \in Turns, TurnStep(t) PROVE pc'[e] = pc[e]
  BY <1>8 DEF TurnStep, LoadRequest, CallAI, ClearFailed, Notify, SetDispatch, CheckContext, Post, Drop,
              SetDone, Tidy, Forget, Panic
<1>9. CASE TimerExpires \/ MediaExpires \/ LockExpires
  BY <1>3, <1>9 DEF TimerExpires, MediaExpires, LockExpires
<1> QED
  BY <1>3, <1>4, <1>5, <1>6, <1>7, <1>8, <1>9 DEF Next

\* A window opens at OpenWindow of its event; a poller claims it from Redis.
LEMMA IsOpenFrom ==
  ASSUME TypeInv, Next, NEW e \in Events, IsOpen(e)'
  PROVE  IsOpen(e) \/ CanOpen(e)
<1>1. CASE state'.stage = "debounce" /\ state'.cfg = e
  <2>1. CASE state' = state
    BY <1>1, <2>1 DEF IsOpen
  <2>2. CASE pc[e] = "persist"
    BY <2>2 DEF CanOpen, CriticalPcs
  <2> QED
    BY <1>1, <2>1, <2>2, DebounceFrom
<1>2. ASSUME NEW i \in Instances, pc'[i] \in Advancing, snap'[i].window = e
      PROVE  IsOpen(e)
  BY <1>2, AdvancingFrom DEF IsOpen, Claimed, Advancing
<1> QED
  BY <1>1, <1>2 DEF IsOpen, Claimed, Advancing

\* The event of an open window cannot open another, and has no turn.
LEMMA OpenIsFresh ==
  ASSUME LaunchLedger, NEW e \in Events, IsOpen(e)
  PROVE  ~CanOpen(e) /\ ~HasTurn(e)
<1>1. Fresh(e)
  BY DEF LaunchLedger, IsOpen, Claimed, Advancing
<1> QED
  BY <1>1 DEF Fresh, Past, CanOpen, CriticalPcs, SharedPcs, HasTurn

\* The messages that wait: one more, or none any more.
LEMMA WaitingFrom ==
  ASSUME TypeInv, Next
  PROVE  buffer' \in {buffer, {}} \/ \E e \in Events : buffer' = buffer \cup {e}
<1> USE DEF SetState, ClearState, SetTimer, AppendToBuffer, AppendAttachments, Fault, keys
<1>1. ASSUME NEW e \in Events, EventStep(e)
      PROVE  buffer' \in {buffer, {}} \/ buffer' = buffer \cup {e}
  BY <1>1 DEF EventStep, LockForEvent, ReadStage, Supersede, ClearInterrupted, StoreAndAppend,
              Attach, StartTimer, OpenWindow, ExtendWindow, ReadBuffer, ReadMedia, EnterAI, Unlock
<1>2. ASSUME NEW i \in Instances, InstanceStep(i) PROVE buffer' = buffer
  BY <1>2 DEF InstanceStep, Recover, RecoverExpired, Poll, ProbeTimer, LockForAdvance,
              RecheckStage, RecheckTimer, ReadBuffer, ReadMedia, EnterAI, Unlock
<1>3. ASSUME NEW i \in Instances, ReplicaStep(i) PROVE buffer' = buffer
  BY <1>3 DEF ReplicaStep, Shutdown, Crash, Exit, Boot, Vanish
<1>4. ASSUME NEW t \in Turns, TurnStep(t) PROVE buffer' \in {buffer, {}}
  BY <1>4 DEF TurnStep, LoadRequest, CallAI, ClearFailed, Notify, SetDispatch, CheckContext, Post, Drop,
              SetDone, Tidy, Forget, Panic
<1>5. ASSUME NEW e \in Events, NEW i \in Instances, Accept(e, i) PROVE buffer' = buffer
  BY <1>5 DEF Accept
<1>6. CASE TimerExpires \/ MediaExpires \/ LockExpires
  BY <1>6 DEF TimerExpires, MediaExpires, LockExpires, TimerElapses, MediaElapses
<1> QED
  BY <1>1, <1>2, <1>3, <1>4, <1>5, <1>6 DEF Next

-----------------------------------------------------------------------------
(* The refinement. *)

\* What the window of e put to the AI, and what is left to tell of the answer.
AskedOf(e) == IF HasTurn(e) THEN turn[TurnOf(e)].text ELSE {}
LeftOf(e)  == IF HasTurn(e) THEN turn[TurnOf(e)].left ELSE 0

Hushed(e) == HasTurn(e) /\ turn[TurnOf(e)].pc \in LivePcs /\ Interrupted(TurnOf(e))

\* A window's turn is the same one in the next state.
LEMMA TurnStays ==
  ASSUME TypeInv, LaunchLedger, LaunchLedger', Next, NEW e \in Events, HasTurn(e)
  PROVE  /\ HasTurn(e)' /\ TurnOf(e)' = TurnOf(e) /\ TurnOf(e) \in Turns
         /\ turn[TurnOf(e)].window = e /\ e # None
         /\ TurnMoves(TurnOf(e)) /\ SameLaunch(TurnOf(e))
<1>1. TurnOf(e) \in Turns /\ turn[TurnOf(e)].window = e /\ e # None
  BY StoreAssumption DEF HasTurn, TurnOf
<1>2. PICK t \in Turns : t = TurnOf(e)
  BY <1>1
<1>3. TurnMoves(t) /\ SameLaunch(t) /\ turn'[t].window = e
  BY <1>1, <1>2, TurnsMove DEF SameLaunch
<1>4. HasTurn(e)' /\ TurnOf(e)' = t
  BY <1>3, TurnFoundNext DEF LaunchLedger
<1> QED
  BY <1>1, <1>2, <1>3, <1>4

\* The window of a turn goes on as the turn does.
LEMMA TurnWindowStep ==
  ASSUME TypeInv, LaunchLedger, LaunchLedger', Next, NEW e \in Events, HasTurn(e)
  PROVE  Ledger!WindowStep(e)
<1>1. PICK t \in Turns : /\ TurnOf(e) = t /\ TurnOf(e)' = t /\ HasTurn(e)'
                        /\ TurnMoves(t) /\ SameLaunch(t)
  BY TurnStays
<1>2. /\ Phase(e) = PhaseOfTurn(t) /\ Phase(e)' = PhaseOfTurn(t)'
      /\ AskedOf(e)' = AskedOf(e)
      /\ LeftOf(e) = turn[t].left /\ LeftOf(e)' = turn'[t].left
  BY <1>1 DEF Phase, PhaseOfTurn, AskedOf, LeftOf, SameLaunch
<1>3. turn[t].pc \in LivePcs /\ ~Interrupted(t) => ~Hushed(e)
  BY <1>1 DEF Hushed, Interrupted
<1>4. \/ Phase(e)' = Phase(e) /\ LeftOf(e)' = LeftOf(e)
      \/ Phase(e) = "asking" /\ Phase(e)' = "telling"
      \/ /\ Phase(e) = "telling" /\ Phase(e)' = "saying"
         /\ ~Hushed(e) /\ LeftOf(e) > 0 /\ LeftOf(e)' = LeftOf(e)
      \/ Phase(e) = "saying" /\ Phase(e)' = "telling" /\ LeftOf(e)' = LeftOf(e) - 1
      \/ /\ Phase(e) \in {"asking", "telling", "saying"} /\ Phase(e)' = "over"
         /\ LeftOf(e)' <= LeftOf(e)
  BY <1>1, <1>2, <1>3 DEF TurnMoves
<1> QED
  BY <1>2, <1>4
  DEF Ledger!WindowStep, Ledger!Rest, Ledger!Answer, Ledger!BeginPart, Ledger!EndPart,
      Ledger!End, Ledger!Moves, Ledger!SameQuestion, Ledger!SameAnswer, Ledger!Live,
      AskedOf, LeftOf, Hushed

\* A window that gets no turn opens, gets lost or stays where it is; it does not come
\* back.
LEMMA NoTurnWindowStep ==
  ASSUME TypeInv, LaunchLedger, LaunchLedger', Next, NEW e \in Events, ~HasTurn(e), ~HasTurn(e)'
  PROVE  Ledger!WindowStep(e)
<1>1. AskedOf(e)' = AskedOf(e) /\ LeftOf(e)' = LeftOf(e)
  BY DEF AskedOf, LeftOf
<1>2. IsOpen(e) => ~CanOpen(e)
  BY OpenIsFresh
<1>3. \/ Phase(e)' = Phase(e)
      \/ Phase(e) = "new" /\ Phase(e)' = "open"
      \/ Phase(e) \in {"new", "open"} /\ Phase(e)' = "lost"
  BY <1>2, CanOpenFrom, IsOpenFrom DEF Phase
<1> QED
  BY <1>1, <1>3
  DEF Ledger!WindowStep, Ledger!Rest, Ledger!Open, Ledger!Lose, Ledger!Moves,
      Ledger!SameQuestion, Ledger!SameAnswer, AskedOf, LeftOf

\* A window that gets its turn is put to the AI with everything that waits.
LEMMA LaunchWindowStep ==
  ASSUME TypeInv, LaunchLedger, LaunchLedger', SnapshotIsWholeBuffer, Next,
         NEW e \in Events, ~HasTurn(e), HasTurn(e)'
  PROVE  Ledger!WindowStep(e)
<1>1. PICK u \in Turns : turn'[u].window = e
  BY DEF HasTurn
<1>2. turn[u].window # e /\ turn \in [Turns -> TurnRecords]
  BY DEF HasTurn, TypeInv, TypeOK
<1>3. PICK a \in Actors : EnterAI(a)
  BY <1>1, <1>2, WindowsKept DEF SameLaunch
<1>4. PICK r : /\ launches + 1 \in Turns
               /\ turn' = [turn EXCEPT ![launches + 1] = r]
               /\ r.pc = "start" /\ r.left = 0 /\ r.text = snap[a].text
               /\ r.window = IF a \in Instances THEN snap[a].window ELSE a
  BY <1>1, <1>2, <1>3, LaunchStep
<1>5. u = launches + 1 /\ turn'[u] = r
  BY <1>1, <1>2, <1>4
<1>6. HasTurn(e)' /\ TurnOf(e)' = u
  BY <1>1, TurnFoundNext DEF LaunchLedger
<1>7. Phase(e)' = "asking" /\ AskedOf(e)' = snap[a].text /\ LeftOf(e)' = 0
  BY <1>4, <1>5, <1>6 DEF Phase, PhaseOfTurn, AskedOf, LeftOf
<1>8. LeftOf(e) = 0
  BY DEF LeftOf
<1>9. pc[a] = "setai" /\ buffer \subseteq snap[a].text
  BY <1>3 DEF EnterAI, SnapshotIsWholeBuffer
<1>10. IsOpen(e) \/ CanOpen(e)
  <2>1. CASE a \in Instances
    BY <1>1, <1>4, <1>5, <1>9, <2>1 DEF IsOpen, Claimed
  <2>2. CASE a \notin Instances
    BY <1>1, <1>4, <1>5, <1>9, <2>2 DEF CanOpen, CriticalPcs, SharedPcs
  <2> QED
    BY <2>1, <2>2
<1>11. Phase(e) \in {"new", "open"}
  BY <1>10 DEF Phase
<1> QED
  BY <1>7, <1>8, <1>9, <1>11
  DEF Ledger!WindowStep, Ledger!Ask, Ledger!Moves, Ledger!SameAnswer, AskedOf, LeftOf

\* Every step of the pipeline is a step of the ledger, or leaves it as it is.
LEMMA NextImplements ==
  /\ TypeInv /\ LaunchLedger /\ LaunchLedger' /\ SnapshotIsWholeBuffer /\ TurnsHosted
  /\ [Next]_vars
  => [Ledger!LedgerNext]_(Ledger!ledgerVars)
<1> SUFFICES ASSUME TypeInv, LaunchLedger, LaunchLedger', SnapshotIsWholeBuffer, TurnsHosted,
                    [Next]_vars
             PROVE  [Ledger!LedgerNext]_(Ledger!ledgerVars)
  OBVIOUS
<1>1. CASE Next
  <2>1. \A e \in Events : Ledger!WindowStep(e)
    BY <1>1, TurnWindowStep, NoTurnWindowStep, LaunchWindowStep
  <2>2. Ledger!HushStep
    <3>1. ASSUME NEW e \in Events, Hushed(e), Phase(e)' \in {"asking", "telling", "saying"}
          PROVE  Hushed(e)'
      <4>1. PICK t \in Turns : /\ TurnOf(e) = t /\ TurnOf(e)' = t /\ HasTurn(e)'
                              /\ turn[t].window # None /\ Interrupted(t)
        BY <1>1, <3>1, TurnStays DEF Hushed, Interrupted
      <4>2. turn'[t].pc \in LivePcs
        BY <3>1, <4>1 DEF Phase, PhaseOfTurn, LivePcs
      <4>3. Interrupted(t)'
        BY <1>1, <4>1, <4>2, HushStays
      <4> QED
        BY <4>1, <4>2, <4>3 DEF Hushed, Interrupted
    <3> QED
      BY <3>1 DEF Ledger!HushStep, Ledger!Live, Hushed
  <2>3. Ledger!WaitStep
    BY <1>1, WaitingFrom DEF Ledger!WaitStep
  <2> QED
    BY <2>1, <2>2, <2>3 DEF Ledger!LedgerNext
<1>2. CASE UNCHANGED vars
  <2> USE <1>2 DEF vars, keys, locals, turns
  <2>1. ASSUME NEW e \in Events
        PROVE  /\ HasTurn(e)' = HasTurn(e) /\ TurnOf(e)' = TurnOf(e)
               /\ IsOpen(e)' = IsOpen(e) /\ CanOpen(e)' = CanOpen(e)
    BY DEF HasTurn, TurnOf, IsOpen, Claimed, CanOpen
  <2>2. ASSUME NEW e \in Events
        PROVE  Phase(e)' = Phase(e) /\ AskedOf(e)' = AskedOf(e) /\ LeftOf(e)' = LeftOf(e)
    BY <2>1 DEF Phase, PhaseOfTurn, AskedOf, LeftOf
  <2>3. ASSUME NEW e \in Events PROVE Hushed(e)' = Hushed(e)
    BY <2>1 DEF Hushed, Interrupted
  <2> QED
    BY <2>2, <2>3 DEF Ledger!ledgerVars, AskedOf, LeftOf, Hushed
<1> QED
  BY <1>1, <1>2

\* Initially nothing has happened to any window.
LEMMA InitImplements == Init => Ledger!LedgerInit
<1> USE StoreAssumption
<1> SUFFICES ASSUME Init PROVE Ledger!LedgerInit
  OBVIOUS
<1>1. \A e \in Events : ~HasTurn(e)
  BY DEF Init, Unused, HasTurn
<1>2. \A e \in Events : ~IsOpen(e) /\ CanOpen(e)
  BY DEF Init, StoreInit, NoState, IsOpen, Claimed, CanOpen, Actors
<1>3. \A e \in Events : Phase(e) = "new"
  BY <1>1, <1>2 DEF Phase
<1>4. buffer = {}
  BY DEF Init, StoreInit
<1> QED
  BY <1>1, <1>3, <1>4 DEF Ledger!LedgerInit

\* The pipeline of a pair implements the ledger of its windows, whatever the number of
\* messages and replicas and whatever crashes and fails: a window is put to the AI at
\* most once and with every message that waits, its answer is told part by part, no part
\* is begun once the window was superseded, and a lost window does not come back.
THEOREM Implementation == Spec => ImplementsLedger
BY InitImplements, NextImplements, AlwaysTypeInv, AlwaysLedger, SnapshotIsComplete,
   AlwaysTurnsHosted, PTL
DEF Spec, ImplementsLedger, Ledger!LedgerSpec

=============================================================================
