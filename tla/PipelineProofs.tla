--------------------------- MODULE PipelineProofs ---------------------------
(***************************************************************************)
(* Proofs about Pipeline, for any number of events, replicas, parts,       *)
(* crashes and faults.                                                     *)
(***************************************************************************)
EXTENDS Pipeline, TLAPS

\* What types alone do not say and the typing of the steps needs: a Process
\* goroutine and a turn run on a replica, and a dispatch has as many parts left to
\* post as it has not posted.
Hosted == \A e \in Events : pc[e] # "new" => host[e] \in Instances

TurnsSound ==
    \A t \in Turns :
        /\ turn[t].sent + turn[t].left <= MaxParts
        /\ turn[t].pc = "post" => turn[t].left > 0
        /\ turn[t].pc \in {"start", "call"} => turn[t].sent = 0
        /\ turn[t].pc = "start" => turn[t].host \in Instances

TypeInv == TypeOK /\ Hosted /\ TurnsSound

\* The invariant holds initially.
LEMMA InitTypeInv == Init => TypeInv
<1> USE StoreAssumption, PipelineAssumption
<1> SUFFICES ASSUME Init PROVE TypeInv
  OBVIOUS
<1>1. StoreTypeOK
  BY DEF Init, StoreInit, StoreTypeOK, NoState, Persisted, Stages
<1>2. snap \in [Actors -> Snapshots]
  BY DEF Init, NoSnapshot, Snapshots
<1>3. turn \in [Turns -> TurnRecords]
  BY DEF Init, Unused, TurnRecords, TurnPcs
<1>4. /\ pc \in [Actors -> EventPcs \cup InstancePcs]
      /\ \A e \in Events : pc[e] = "new"
      /\ \A i \in Instances : pc[i] = "poll"
  BY DEF Init, Actors, EventPcs, EventOnlyPcs, InstancePcs, InstanceOnlyPcs
<1>5. TypeOK
  BY <1>1, <1>2, <1>3, <1>4
  DEF Init, TypeOK, EventPcs, EventOnlyPcs, InstancePcs, InstanceOnlyPcs
<1>6. Hosted
  BY <1>4 DEF Hosted
<1>7. TurnsSound
  BY DEF Init, TurnsSound, Unused
<1> QED
  BY <1>5, <1>6, <1>7 DEF TypeInv

KeysTyped ==
    /\ state \in Persisted
    /\ buffer \in SUBSET Events
    /\ media \in SUBSET Events
    /\ timer \in BOOLEAN

PcTyped ==
    /\ pc \in [Actors -> EventPcs \cup InstancePcs]
    /\ \A e \in Events : pc[e] \in EventPcs
    /\ \A i \in Instances : pc[i] \in InstancePcs

\* Every Redis command leaves the four keys well typed.
LEMMA KeysStayTyped ==
  ASSUME KeysTyped,
         \/ UNCHANGED keys
         \/ ClearState
         \/ SetTimer
         \/ TimerElapses
         \/ MediaElapses
         \/ \E e \in Events : AppendToBuffer(e) \/ AppendAttachments(e)
         \/ \E st \in Stages, c \in Events \cup {None} : SetState(st, c)
  PROVE  KeysTyped'
<1> USE DEF KeysTyped
<1>1. CASE UNCHANGED keys
  BY <1>1 DEF keys
<1>2. CASE ClearState
  BY <1>2 DEF ClearState, NoState, Persisted, Stages
<1>3. CASE SetTimer \/ TimerElapses \/ MediaElapses
  BY <1>3 DEF SetTimer, TimerElapses, MediaElapses
<1>4. CASE \E e \in Events : AppendToBuffer(e) \/ AppendAttachments(e)
  BY <1>4 DEF AppendToBuffer, AppendAttachments
<1>5. CASE \E st \in Stages, c \in Events \cup {None} : SetState(st, c)
  BY <1>5 DEF SetState, Persisted
<1> QED
  BY <1>1, <1>2, <1>3, <1>4, <1>5

\* An event that moves to one of its places keeps pc typed; likewise a replica.
LEMMA GotoEvent ==
  ASSUME PcTyped, NEW e \in Events, NEW l \in EventPcs, Goto(e, l)
  PROVE  PcTyped'
BY StoreAssumption DEF PcTyped, Goto, Actors

LEMMA GotoInstance ==
  ASSUME PcTyped, NEW i \in Instances, NEW l \in InstancePcs, Goto(i, l)
  PROVE  PcTyped'
BY StoreAssumption DEF PcTyped, Goto, Actors

Modes == {"down", "starting", "up", "stopping"}

\* What is enough for a step of Process or of a poller to keep TypeInv: the
\* actor moves on, and what it writes is well typed.
LEMMA ActorFrame ==
  ASSUME TypeInv, NEW a \in Actors, NEW l, Goto(a, l),
         a \in Events => l \in EventPcs /\ pc[a] # "new",
         a \in Instances => l \in InstancePcs,
         KeysTyped',
         lock' \in Actors \cup {Free},
         mode' \in [Instances -> Modes],
         entry' \in [Instances -> Events \cup {None}],
         cancelled' \in [Instances -> SUBSET Events],
         faults' \in 0..MaxFaults,
         snap' \in [Actors -> Snapshots],
         launches' \in 0..MaxTurns,
         turn' \in [Turns -> TurnRecords], TurnsSound',
         UNCHANGED <<host, crashes>>
  PROVE  TypeInv'
<1> USE DEF TypeInv, TypeOK
<1>1. PcTyped'
  BY GotoEvent, GotoInstance DEF PcTyped, Actors
<1>2. TypeOK'
  BY <1>1 DEF StoreTypeOK, KeysTyped, PcTyped, Actors, Modes
<1>3. Hosted'
  BY StoreAssumption DEF Hosted, Goto, Actors
<1> QED
  BY <1>2, <1>3

\* The steps of Process that only read, or take the lock.
LEMMA EventReadTypeInv ==
  ASSUME TypeInv, NEW e \in Events, LockForEvent(e) \/ ReadStage(e)
  PROVE  TypeInv'
<1> USE DEF LockForEvent, ReadStage
<1>1. PICK l \in EventPcs : Goto(e, l)
  BY DEF EventPcs, EventOnlyPcs, SharedPcs
<1>2. KeysTyped'
  BY DEF TypeInv, TypeOK, StoreTypeOK, KeysTyped, keys
<1>3. lock' \in Actors \cup {Free} /\ faults' \in 0..MaxFaults
  BY PipelineAssumption DEF TypeInv, TypeOK, StoreTypeOK, AcquireLock, Unanswered, Actors
<1>4. UNCHANGED <<mode, host, crashes, entry, cancelled, snap, launches, turn>>
  BY DEF locals, turns
<1>5. TurnsSound'
  BY <1>4 DEF TurnsSound, TypeInv
<1> QED
  BY <1>1, <1>2, <1>3, <1>4, <1>5, ActorFrame, StoreAssumption DEF TypeInv, TypeOK, Actors, Modes

\* The steps of Process that write to Redis, successfully or not.
LEMMA EventWriteTypeInv ==
  ASSUME TypeInv, NEW e \in Events,
         \/ ClearInterrupted(e) \/ StoreAndAppend(e) \/ Attach(e)
         \/ StartTimer(e) \/ OpenWindow(e) \/ ExtendWindow(e)
  PROVE  TypeInv'
<1> USE DEF ClearInterrupted, StoreAndAppend, Attach, StartTimer, OpenWindow, ExtendWindow
<1>1. PICK l \in EventPcs : Goto(e, l)
  BY StoreAssumption
  DEF GiveUp, AfterAppend, AfterAttach, EventPcs, EventOnlyPcs, SharedPcs
<1>2. KeysTyped'
  <2>1. \/ UNCHANGED keys \/ ClearState \/ SetTimer
        \/ AppendToBuffer(e) \/ AppendAttachments(e) \/ SetState("debounce", e)
    BY DEF Fault
  <2> QED
    BY <2>1, KeysStayTyped DEF TypeInv, TypeOK, StoreTypeOK, KeysTyped, Stages
<1>3. /\ entry' \in [Instances -> Events \cup {None}]
      /\ cancelled' \in [Instances -> SUBSET Events]
  BY StoreAssumption DEF TypeInv, TypeOK, GiveUp, locals
<1>4. faults' \in 0..MaxFaults
  BY PipelineAssumption DEF TypeInv, TypeOK, Fault, Unanswered
<1>5. UNCHANGED <<lock, mode, host, crashes, snap, launches, turn>>
  BY StoreAssumption DEF GiveUp, locals, turns
<1>6. TurnsSound'
  BY <1>5 DEF TurnsSound, TypeInv
<1>7. pc[e] # "new"
  OBVIOUS
<1> QED
  BY <1>1, <1>2, <1>3, <1>4, <1>5, <1>6, <1>7, ActorFrame, StoreAssumption DEF TypeInv, TypeOK, StoreTypeOK, Actors, Modes

\* cancelPair writes through host[e], hence needs Hosted.
LEMMA SupersedeTypeInv ==
  ASSUME TypeInv, NEW e \in Events, Supersede(e)
  PROVE  TypeInv'
<1> USE DEF Supersede
<1>1. PICK l \in EventPcs : Goto(e, l)
  BY DEF EventPcs, EventOnlyPcs
<1>2. host[e] \in Instances
  BY DEF TypeInv, Hosted
<1>3. /\ entry' \in [Instances -> Events \cup {None}]
      /\ cancelled' \in [Instances -> SUBSET Events]
  BY <1>2 DEF TypeInv, TypeOK, CancelPair
<1>4. UNCHANGED <<keys, lock, mode, host, crashes, faults, snap, launches, turn>>
  BY DEF turns, counts
<1>5. KeysTyped' /\ TurnsSound'
  BY <1>4 DEF TypeInv, TypeOK, StoreTypeOK, KeysTyped, TurnsSound, keys
<1> QED
  BY <1>1, <1>3, <1>4, <1>5, ActorFrame, StoreAssumption DEF TypeInv, TypeOK, StoreTypeOK, Actors, Modes

\* GiveUp sends an actor on and leaves the maps typed.
LEMMA GiveUpTyped ==
  ASSUME TypeInv, NEW a \in Actors, GiveUp(a)
  PROVE  /\ Goto(a, IF a \in Instances THEN "return" ELSE "fail")
         /\ entry' \in [Instances -> Events \cup {None}]
         /\ cancelled' \in [Instances -> SUBSET Events]
         /\ UNCHANGED <<mode, host>>
<1>1. CASE a \in Instances
  BY <1>1 DEF GiveUp, locals, TypeInv, TypeOK
<1>2. CASE a \notin Instances
  BY <1>2 DEF GiveUp, TypeInv, TypeOK, Actors
<1> QED
  BY <1>1, <1>2

\* launchAIStage fills the next free slot with a well typed turn.
LEMMA LaunchTyped ==
  ASSUME TypeInv, NEW a \in Actors, a \in Events => pc[a] # "new", Launch(a)
  PROVE  /\ launches' \in 0..MaxTurns
         /\ turn' \in [Turns -> TurnRecords]
         /\ TurnsSound'
<1> USE PipelineAssumption DEF TypeInv, TypeOK
<1>1. Host(a) \in Instances
  BY DEF Host, Hosted, Actors
<1>2. launches' \in 0..MaxTurns /\ launches + 1 \in Turns
  BY DEF Launch, Turns
<1>3. CASE entry[Host(a)] = None
  BY <1>2, <1>3 DEF Launch, TurnsSound
<1>4. CASE entry[Host(a)] # None
  <2> DEFINE w == IF a \in Instances THEN snap[a].window ELSE a
             r == [pc |-> "start", host |-> Host(a), ctx |-> entry[Host(a)], url |-> None,
                   window |-> w, text |-> snap[a].text, media |-> snap[a].media,
                   left |-> 0, sent |-> 0, noticed |-> FALSE]
  <2>1. turn' = [turn EXCEPT ![launches + 1] = r]
    BY <1>4 DEF Launch
  <2>2. snap[a] \in Snapshots /\ w \in Events \cup {None}
    BY DEF Snapshots, Actors
  <2>3. r \in TurnRecords
    BY <1>1, <2>2 DEF TurnRecords, TurnPcs, LivePcs, Snapshots
  <2>4. turn' \in [Turns -> TurnRecords]
    BY <2>1, <2>3
  <2>5. r.sent + r.left <= MaxParts /\ r.pc = "start" /\ r.sent = 0 /\ r.host \in Instances
    BY <1>1
  <2> HIDE DEF r
  <2>6. TurnsSound'
    BY <1>2, <2>1, <2>5 DEF TurnsSound
  <2> QED
    BY <1>2, <2>4, <2>6
<1> QED
  BY <1>3, <1>4

\* The steps skipDebounce and advanceToAI share, and Unlock.
LEMMA SharedStepTypeInv ==
  ASSUME TypeInv, NEW a \in Actors,
         ReadBuffer(a) \/ ReadMedia(a) \/ EnterAI(a) \/ Unlock(a)
  PROVE  TypeInv'
<1> USE StoreAssumption, PipelineAssumption DEF TypeInv, TypeOK, StoreTypeOK, Modes
<1>1. pc[a] # "new"
  BY DEF ReadBuffer, ReadMedia, EnterAI, Unlock
<1>2. UNCHANGED turns => TurnsSound' /\ turn' \in [Turns -> TurnRecords]
  BY DEF turns, TurnsSound
<1>3. UNCHANGED keys => KeysTyped'
  BY DEF keys, KeysTyped
<1>4. /\ {"getatt", "setai", "return"} \subseteq EventPcs \cap InstancePcs
      /\ {"fail", "returned", "failed"} \subseteq EventPcs
      /\ "poll" \in InstancePcs
  BY DEF EventPcs, EventOnlyPcs, InstancePcs, InstanceOnlyPcs, SharedPcs
<1>5. CASE ReadBuffer(a)
  <2>1. snap' \in [Actors -> Snapshots]
    <3> DEFINE r == [snap[a] EXCEPT !.text = buffer]
    <3>1. snap[a] \in Snapshots /\ buffer \in SUBSET Events
      OBVIOUS
    <3>2. r \in Snapshots
      BY <3>1 DEF Snapshots
    <3>3. UNCHANGED snap \/ snap' = [snap EXCEPT ![a] = r]
      BY <1>5 DEF ReadBuffer
    <3> QED
      BY <3>2, <3>3
  <2>2. CASE Goto(a, "getatt") /\ UNCHANGED <<locals, faults>>
    <3>1. UNCHANGED <<lock, mode, entry, cancelled, host, faults, crashes>> /\ UNCHANGED turns
          /\ UNCHANGED keys
      BY <1>5, <2>2 DEF ReadBuffer, locals
    <3> QED
      BY <1>1, <1>2, <1>3, <1>4, <2>1, <2>2, <3>1, ActorFrame DEF turns
  <2>3. CASE Unanswered /\ GiveUp(a)
    BY <1>1, <1>2, <1>3, <1>4, <1>5, <2>1, <2>3, GiveUpTyped, ActorFrame
    DEF ReadBuffer, Unanswered, turns
  <2> QED
    BY <1>5, <2>2, <2>3 DEF ReadBuffer
<1>6. CASE ReadMedia(a)
  <2>1. snap' \in [Actors -> Snapshots]
    BY <1>6 DEF ReadMedia, Snapshots
  <2> QED
    BY <1>1, <1>2, <1>3, <1>4, <1>6, <2>1, ActorFrame
    DEF ReadMedia, Unanswered, locals, turns
<1>7. CASE EnterAI(a)
  <2>1. KeysTyped'
    BY <1>7, KeysStayTyped DEF EnterAI, Fault, KeysTyped, Stages
  <2>2. CASE Launch(a) /\ Goto(a, "return") /\ UNCHANGED <<locals, faults>>
    BY <1>1, <1>4, <1>7, <2>1, <2>2, LaunchTyped, ActorFrame DEF EnterAI, locals
  <2>3. CASE Unanswered /\ GiveUp(a) /\ UNCHANGED turns
    BY <1>1, <1>2, <1>4, <1>7, <2>1, <2>3, GiveUpTyped, ActorFrame
    DEF EnterAI, Unanswered, turns
  <2> QED
    BY <1>7, <2>2, <2>3 DEF EnterAI, Fault
<1>8. CASE Unlock(a)
  <2>1. snap' \in [Actors -> Snapshots]
    BY <1>8 DEF Unlock, Snapshots, NoSnapshot
  <2>2. lock' \in Actors \cup {Free} /\ faults' \in 0..MaxFaults
    BY <1>8 DEF Unlock, Release, Unanswered
  <2>3. UNCHANGED <<entry, cancelled, host, launches, crashes>> /\ KeysTyped'
    BY <1>3, <1>8 DEF Unlock, turns
  <2>4. TurnsSound' /\ turn' \in [Turns -> TurnRecords]
    BY <1>2, <1>8 DEF Unlock
  <2>5. CASE a \in Instances
    <3>1. Goto(a, "poll") /\ mode' \in [Instances -> Modes]
      BY <1>8, <2>5 DEF Unlock, Resume
    <3> QED
      BY <1>1, <1>4, <2>1, <2>2, <2>3, <2>4, <2>5, <3>1, ActorFrame
  <2>6. CASE a \notin Instances
    <3>1. UNCHANGED mode /\ \E l \in EventPcs : Goto(a, l)
      BY <1>4, <1>8, <2>6 DEF Unlock
    <3> QED
      BY <1>1, <2>1, <2>2, <2>3, <2>4, <2>6, <3>1, ActorFrame DEF Actors
  <2> QED
    BY <2>5, <2>6
<1> QED
  BY <1>5, <1>6, <1>7, <1>8

\* The steps of Start and the poller, and advanceToAI up to GetBuffer.
LEMMA InstanceStepTypeInv ==
  ASSUME TypeInv, NEW i \in Instances,
         \/ Recover(i) \/ RecoverExpired(i) \/ Poll(i) \/ ProbeTimer(i)
         \/ LockForAdvance(i) \/ RecheckStage(i) \/ RecheckTimer(i)
  PROVE  TypeInv'
<1> USE StoreAssumption, PipelineAssumption
    DEF Recover, RecoverExpired, Poll, ProbeTimer, LockForAdvance, RecheckStage, RecheckTimer
<1>1. PICK l \in InstancePcs : Goto(i, l)
  BY DEF Resume, InstancePcs, InstanceOnlyPcs, SharedPcs
<1>2. KeysTyped'
  BY DEF TypeInv, TypeOK, StoreTypeOK, KeysTyped, keys
<1>3. lock' \in Actors \cup {Free} /\ faults' \in 0..MaxFaults
  BY DEF TypeInv, TypeOK, StoreTypeOK, AcquireLock, Unanswered, Actors, counts
<1>4. mode' \in [Instances -> Modes]
  <2>1. mode \in [Instances -> Modes]
    BY DEF TypeInv, TypeOK, Modes
  <2>2. UNCHANGED mode \/ Resume(i)
    BY DEF locals
  <2> QED
    BY <2>1, <2>2 DEF Resume, Modes
<1>5. entry' \in [Instances -> Events \cup {None}]
  BY DEF TypeInv, TypeOK, StoreTypeOK, Persisted, locals
<1>6. snap' \in [Actors -> Snapshots]
  <2>1. /\ snap \in [Actors -> Snapshots]
        /\ entry[i] \in Events \cup {None}
        /\ state.cfg \in Events \cup {None}
    BY DEF TypeInv, TypeOK, StoreTypeOK, Persisted
  <2>2. \/ UNCHANGED snap
        \/ \E w \in Events \cup {None} : snap' = [snap EXCEPT ![i].window = w]
        \/ snap' = [snap EXCEPT ![i] = NoSnapshot]
    BY <2>1
  <2> QED
    BY <2>1, <2>2 DEF Snapshots, NoSnapshot
<1>7. UNCHANGED <<host, crashes, cancelled, launches, turn>>
  BY DEF locals, turns, counts
<1>8. TurnsSound'
  BY <1>7 DEF TurnsSound, TypeInv
<1> QED
  BY <1>1, <1>2, <1>3, <1>4, <1>5, <1>6, <1>7, <1>8, ActorFrame DEF TypeInv, TypeOK, Actors

\* What is enough for a step of a turn to keep TypeInv.
LEMMA TurnFrame ==
  ASSUME TypeInv, NEW t \in Turns, NEW r \in TurnRecords,
         turn' = [turn EXCEPT ![t] = r],
         r.sent + r.left <= MaxParts,
         r.pc = "post" => r.left > 0,
         r.pc # "start",
         r.pc = "call" => r.sent = 0,
         KeysTyped', faults' \in 0..MaxFaults,
         entry' \in [Instances -> Events \cup {None}],
         UNCHANGED <<lock, mode, cancelled, host, pc, snap, launches, crashes>>
  PROVE  TypeInv'
<1> USE DEF TypeInv
<1>1. turn' \in [Turns -> TurnRecords]
  BY DEF TypeOK
<1>2. TypeOK'
  BY <1>1 DEF TypeOK, StoreTypeOK, KeysTyped
<1>3. TurnsSound'
  BY DEF TurnsSound, TypeOK
<1> QED
  BY <1>2, <1>3 DEF Hosted

\* The steps of an AI/dispatch goroutine; Post needs TurnsSound.
LEMMA TurnStepTypeInv ==
  ASSUME TypeInv, NEW t \in Turns, TurnStep(t)
  PROVE  TypeInv'
<1> USE PipelineAssumption
<1> DEFINE Good(r) == /\ turn' = [turn EXCEPT ![t] = r]
                      /\ r.sent + r.left <= MaxParts
                      /\ r.pc = "post" => r.left > 0
                      /\ r.pc # "start"
                      /\ r.pc = "call" => r.sent = 0
<1>1. /\ turn \in [Turns -> TurnRecords]
      /\ turn[t] \in TurnRecords
      /\ turn[t].sent + turn[t].left <= MaxParts
      /\ turn[t].pc = "post" => turn[t].left > 0
      /\ turn[t].pc \in {"start", "call"} => turn[t].sent = 0
      /\ turn[t].pc = "start" => turn[t].host \in Instances
      /\ entry \in [Instances -> Events \cup {None}]
  BY DEF TypeInv, TypeOK, TurnsSound
<1>2. KeysTyped'
  <2>1. \/ UNCHANGED keys \/ ClearState
        \/ SetState("dispatch", None) \/ SetState("done", None)
    BY DEF TurnStep, LoadRequest, CallAI, ClearFailed, Notify, SetDispatch, CheckContext, Post, Drop,
           SetDone, Tidy, Forget, Panic, Fault
  <2> QED
    BY <2>1, KeysStayTyped DEF TypeInv, TypeOK, StoreTypeOK, KeysTyped, Stages
<1>3. /\ faults' \in 0..MaxFaults
      /\ entry' \in [Instances -> Events \cup {None}]
      /\ UNCHANGED <<lock, mode, cancelled, host, pc, snap, launches, crashes>>
  BY DEF TurnStep, LoadRequest, CallAI, ClearFailed, Notify, SetDispatch, CheckContext, Post, Drop, SetDone,
         Tidy, Forget, Panic, Fault, Unanswered, locals, counts, TypeInv, TypeOK
<1>4. \E r \in TurnRecords : Good(r)
  \* Most steps only move the turn on.
  <2>1. ASSUME NEW l \in TurnPcs \ {"start", "call"}, l = "post" => turn[t].left > 0, To(t, l)
        PROVE  \E r \in TurnRecords : Good(r)
    <3>1. [turn[t] EXCEPT !.pc = l] \in TurnRecords
      BY <1>1 DEF TurnRecords
    <3>2. Good([turn[t] EXCEPT !.pc = l])
      BY <1>1, <2>1 DEF To, TurnRecords
    <3> QED
      BY <3>1, <3>2
  <2>2. ASSUME NEW n \in 0..MaxParts, turn[t].pc = "call",
               turn' = [turn EXCEPT ![t].pc = "setdispatch", ![t].left = n]
        PROVE  \E r \in TurnRecords : Good(r)
    <3> DEFINE r == [turn[t] EXCEPT !.pc = "setdispatch", !.left = n]
    <3>1. r \in TurnRecords
      BY <1>1 DEF TurnRecords, TurnPcs, LivePcs
    <3>2. turn' = [turn EXCEPT ![t] = r]
      BY <1>1, <2>2 DEF TurnRecords
    <3>3. r.sent = 0 /\ r.left = n /\ r.pc = "setdispatch"
      BY <1>1, <2>2 DEF TurnRecords
    <3>4. Good(r)
      BY <3>2, <3>3
    <3> QED
      BY <3>1, <3>4
  <2>3. ASSUME NEW through \in BOOLEAN,
               turn' = [turn EXCEPT ![t].pc = "ended", ![t].noticed = through]
        PROVE  \E r \in TurnRecords : Good(r)
    <3> DEFINE r == [turn[t] EXCEPT !.pc = "ended", !.noticed = through]
    <3>1. r \in TurnRecords
      BY <1>1 DEF TurnRecords, TurnPcs, LivePcs
    <3>2. Good(r)
      BY <1>1, <2>3 DEF TurnRecords
    <3> QED
      BY <3>1, <3>2
  <2>4. ASSUME NEW l \in {"send", "drop"}, NEW p \in {0, 1}, turn[t].pc = "post",
               turn' = [turn EXCEPT ![t].pc = l, ![t].sent = @ + p, ![t].left = @ - 1]
        PROVE  \E r \in TurnRecords : Good(r)
    <3> DEFINE r == [turn[t] EXCEPT !.pc = l, !.sent = @ + p, !.left = @ - 1]
    <3>1. r \in TurnRecords
      <4>1. /\ turn[t].sent + p \in 0..MaxParts
            /\ turn[t].left - 1 \in 0..MaxParts
        BY <1>1, <2>4 DEF TurnRecords
      <4>2. l \in TurnPcs
        BY DEF TurnPcs, LivePcs
      <4> QED
        BY <1>1, <4>1, <4>2 DEF TurnRecords
    <3>2. Good(r)
      BY <1>1, <2>4 DEF TurnRecords
    <3> QED
      BY <3>1, <3>2
  <2>5. TurnPcs \ {"start", "call"} = (LivePcs \ {"start", "call"}) \cup {"unused", "ended", "crashed"}
    BY DEF TurnPcs, LivePcs
  <2>6. CASE CallAI(t)
    BY <2>1, <2>2, <2>5, <2>6 DEF CallAI, LivePcs
  <2>7. CASE Notify(t)
    BY <2>3, <2>7 DEF Notify
  <2>8. CASE Post(t)
    BY <2>4, <2>8 DEF Post
  <2>9. CASE CheckContext(t)
    BY <2>1, <2>5, <2>9 DEF CheckContext, LivePcs
  <2>10. CASE \/ ClearFailed(t) \/ SetDispatch(t) \/ Drop(t)
              \/ SetDone(t) \/ Tidy(t) \/ Forget(t) \/ Panic(t)
    BY <2>1, <2>5, <2>10
    DEF ClearFailed, SetDispatch, Drop, SetDone, Tidy, Forget, Panic, LivePcs
  <2>11. CASE LoadRequest(t)
    <3> DEFINE u == entry[turn[t].host]
               r == [turn[t] EXCEPT !.pc = "call", !.url = u]
    <3>1. u \in Events \cup {None}
      BY <1>1, <2>11 DEF LoadRequest
    <3>2. r \in TurnRecords
      BY <1>1, <3>1 DEF TurnRecords, TurnPcs, LivePcs
    <3>3. Good(r)
      BY <1>1, <2>11 DEF LoadRequest, TurnRecords
    <3> QED
      BY <3>2, <3>3
  <2> QED
    BY <2>6, <2>7, <2>8, <2>9, <2>10, <2>11 DEF TurnStep
<1> QED
  BY <1>2, <1>3, <1>4, TurnFrame

\* The handler gives an event its replica.
LEMMA AcceptTypeInv ==
  ASSUME TypeInv, NEW e \in Events, NEW i \in Instances, Accept(e, i)
  PROVE  TypeInv'
<1> USE StoreAssumption, PipelineAssumption DEF Accept
<1>1. PICK l \in EventPcs : Goto(e, l)
  BY DEF EventPcs, EventOnlyPcs
<1>2. PcTyped'
  BY <1>1, GotoEvent DEF TypeInv, TypeOK, PcTyped
<1>3. KeysTyped'
  BY KeysStayTyped DEF TypeInv, TypeOK, StoreTypeOK, KeysTyped, Fault, Stages
<1>4. /\ host' = [host EXCEPT ![e] = i]
      /\ faults' \in 0..MaxFaults
      /\ UNCHANGED <<lock, mode, entry, cancelled, snap, turn, launches, crashes>>
  BY DEF Fault, Unanswered, turns, TypeInv, TypeOK
<1>5. TypeOK'
  BY <1>2, <1>3, <1>4 DEF TypeInv, TypeOK, StoreTypeOK, KeysTyped, PcTyped
<1>6. Hosted' /\ TurnsSound'
  BY <1>1, <1>4 DEF TypeInv, TypeOK, Hosted, TurnsSound, Goto, Actors
<1> QED
  BY <1>5, <1>6 DEF TypeInv

\* A process that goes away takes its goroutines and its map along.
LEMMA VanishTypeInv ==
  ASSUME TypeInv, NEW i \in Instances, Vanish(i), crashes' \in 0..MaxCrashes
  PROVE  TypeInv'
<1> USE StoreAssumption DEF Vanish
<1>1. PcTyped'
  <2>1. /\ "off" \in InstancePcs
        /\ "crashed" \in EventPcs
    BY DEF InstancePcs, InstanceOnlyPcs, EventPcs, EventOnlyPcs
  <2> QED
    BY <2>1 DEF PcTyped, TypeInv, TypeOK, Actors
<1>2. turn' \in [Turns -> TurnRecords]
  <2>1. ASSUME NEW r \in TurnRecords
        PROVE  [r EXCEPT !.pc = "crashed"] \in TurnRecords
    BY DEF TurnRecords, TurnPcs
  <2>2. turn \in [Turns -> TurnRecords]
    BY DEF TypeInv, TypeOK
  <2>3. /\ turn' = [t \in Turns |-> turn'[t]]
        /\ \A t \in Turns : turn'[t] = turn[t] \/ turn'[t] = [turn[t] EXCEPT !.pc = "crashed"]
    OBVIOUS
  <2>4. \A t \in Turns : turn'[t] \in TurnRecords
    BY <2>1, <2>2, <2>3
  <2> HIDE DEF Vanish
  <2> QED
    BY <2>3, <2>4
<1>3. snap' \in [Actors -> Snapshots]
  BY DEF TypeInv, TypeOK, NoSnapshot, Snapshots
<1>4. TypeOK'
  BY <1>1, <1>2, <1>3 DEF TypeInv, TypeOK, StoreTypeOK, PcTyped, keys
<1>5. Hosted'
  BY DEF TypeInv, TypeOK, Hosted, RestingPcs, Actors
<1>6. TurnsSound'
  <2>1. ASSUME NEW t \in Turns
        PROVE  \/ turn'[t] = turn[t]
               \/ turn'[t] = [turn[t] EXCEPT !.pc = "crashed"]
    BY <2>1
  <2> QED
    BY <2>1 DEF TypeInv, TypeOK, TurnsSound, TurnRecords
<1> QED
  BY <1>4, <1>5, <1>6 DEF TypeInv

\* Shutdown, Crash, Exit and Boot.
LEMMA ReplicaStepTypeInv ==
  ASSUME TypeInv, NEW i \in Instances, ReplicaStep(i)
  PROVE  TypeInv'
<1> USE StoreAssumption, PipelineAssumption
<1>1. CASE Shutdown(i)
  <2>1. /\ mode' \in [Instances -> Modes]
        /\ cancelled' \in [Instances -> SUBSET Events]
        /\ crashes' \in 0..MaxCrashes
    BY <1>1 DEF Shutdown, TypeInv, TypeOK, Modes
  <2> QED
    BY <1>1, <2>1
    DEF Shutdown, TypeInv, TypeOK, StoreTypeOK, Hosted, TurnsSound, Modes, keys, turns
<1>2. CASE Crash(i)
  BY <1>2, VanishTypeInv DEF Crash, TypeInv, TypeOK
<1>3. CASE Exit(i)
  BY <1>3, VanishTypeInv DEF Exit, TypeInv, TypeOK
<1>4. CASE Boot(i)
  <2>1. PcTyped'
    BY <1>4, GotoInstance
    DEF Boot, TypeInv, TypeOK, PcTyped, InstancePcs, InstanceOnlyPcs
  <2>2. Hosted'
    BY <1>4 DEF Boot, Goto, TypeInv, TypeOK, Hosted, Actors
  <2>3. mode' \in [Instances -> Modes]
    BY <1>4 DEF Boot, TypeInv, TypeOK, Modes
  <2> QED
    BY <1>4, <2>1, <2>2, <2>3
    DEF Boot, TypeInv, TypeOK, StoreTypeOK, PcTyped, TurnsSound, Modes, keys, turns, counts
<1> QED
  BY <1>1, <1>2, <1>3, <1>4 DEF ReplicaStep

\* The TTLs.
LEMMA ExpiryTypeInv ==
  ASSUME TypeInv, TimerExpires \/ MediaExpires \/ LockExpires
  PROVE  TypeInv'
<1>1. KeysTyped'
  BY KeysStayTyped
  DEF TypeInv, TypeOK, StoreTypeOK, KeysTyped, TimerExpires, MediaExpires, LockExpires
<1>2. lock' \in Actors \cup {Free}
  BY DEF TypeInv, TypeOK, StoreTypeOK, TimerExpires, MediaExpires, LockExpires
<1>3. UNCHANGED <<mode, entry, cancelled, host, pc, snap, turn, launches, crashes, faults>>
  BY DEF TimerExpires, MediaExpires, LockExpires, locals, turns, counts
<1> QED
  BY <1>1, <1>2, <1>3
  DEF TypeInv, TypeOK, StoreTypeOK, KeysTyped, Hosted, TurnsSound

\* Every step keeps the invariant: one case per disjunct of Next.
LEMMA NextTypeInv == TypeInv /\ [Next]_vars => TypeInv'
<1> SUFFICES ASSUME TypeInv, [Next]_vars PROVE TypeInv'
  OBVIOUS
<1>1. CASE \E e \in Events, i \in Instances : Accept(e, i)
  BY <1>1, AcceptTypeInv
<1>2. CASE \E e \in Events : EventStep(e)
  BY <1>2, EventReadTypeInv, EventWriteTypeInv, SupersedeTypeInv, SharedStepTypeInv
  DEF EventStep, Actors
<1>3. CASE \E i \in Instances : InstanceStep(i)
  BY <1>3, InstanceStepTypeInv, SharedStepTypeInv DEF InstanceStep, Actors
<1>4. CASE \E i \in Instances : ReplicaStep(i)
  BY <1>4, ReplicaStepTypeInv
<1>5. CASE \E t \in Turns : TurnStep(t)
  BY <1>5, TurnStepTypeInv
<1>6. CASE TimerExpires \/ MediaExpires \/ LockExpires
  BY <1>6, ExpiryTypeInv
<1>7. CASE UNCHANGED vars
  BY <1>7 DEF vars, keys, locals, turns, counts, TypeInv, TypeOK, StoreTypeOK, Hosted, TurnsSound
<1> QED
  BY <1>1, <1>2, <1>3, <1>4, <1>5, <1>6, <1>7 DEF Next

\* Hence it always holds; the other invariants build on it.
LEMMA AlwaysTypeInv == Spec => []TypeInv
BY InitTypeInv, NextTypeInv, PTL DEF Spec

\* The type invariant, for every value of the constants: Redis, the entries
\* maps and the goroutines never hold anything the code's types do not allow,
\* and the bounds on turns and parts are not run over.
THEOREM TypeCorrectness == Spec => []TypeOK
<1>1. TypeInv => TypeOK
  BY DEF TypeInv
<1> QED
  BY <1>1, AlwaysTypeInv, PTL

-----------------------------------------------------------------------------
(* The lock. *)

\* LockExclusion is inductive.  An actor keeps it when it moves inside its
\* critical section, takes the free lock, stays out of the section, or leaves it
\* (nobody else is inside then, so it does not matter what the lock becomes).
LEMMA ExclusionFrame ==
  ASSUME TypeInv, LockExclusion, NEW a \in Actors, NEW l, Goto(a, l),
         \/ Holding(a) /\ lock' = lock
         \/ l \notin CriticalPcs /\ lock' = lock
         \/ lock = Free /\ lock' = a
         \/ Holding(a) /\ l \notin CriticalPcs
  PROVE  LockExclusion'
<1>1. pc' = [pc EXCEPT ![a] = l] /\ pc \in [Actors -> EventPcs \cup InstancePcs]
  BY DEF Goto, TypeInv, TypeOK
<1>2. SUFFICES ASSUME NEW b \in Actors, Holding(b)' PROVE lock' = b
  BY DEF LockExclusion
<1>3. CASE b = a
  BY <1>1, <1>2, <1>3 DEF LockExclusion, Holding
<1>4. CASE b # a
  <2>1. Holding(b) /\ lock = b
    BY <1>1, <1>2, <1>4 DEF LockExclusion, Holding
  <2>2. lock # Free /\ ~Holding(a)
    BY <1>4, <2>1, StoreAssumption DEF LockExclusion, Actors
  <2> QED
    BY <2>1, <2>2
<1> QED
  BY <1>3, <1>4

\* Process keeps the exclusion.
LEMMA EventStepExclusion ==
  ASSUME TypeInv, LockExclusion, NEW e \in Events, EventStep(e)
  PROVE  LockExclusion'
<1> USE StoreAssumption DEF CriticalPcs, SharedPcs
<1>1. e \in Actors /\ e \notin Instances
  BY DEF Actors
<1>2. CASE LockForEvent(e)
  <2>1. PICK l \in {"locked", "busy"} :
           /\ Goto(e, l)
           /\ \/ lock = Free /\ lock' = e
              \/ l = "busy" /\ lock' = lock
    BY <1>2 DEF LockForEvent, AcquireLock
  <2> QED
    BY <1>1, <2>1, ExclusionFrame
<1>3. CASE \/ ReadStage(e) \/ Supersede(e) \/ ClearInterrupted(e) \/ StoreAndAppend(e)
           \/ Attach(e) \/ StartTimer(e) \/ OpenWindow(e) \/ ExtendWindow(e)
           \/ ReadBuffer(e) \/ ReadMedia(e) \/ EnterAI(e)
  <2>1. Holding(e) /\ lock' = lock
    BY <1>3 DEF ReadStage, Supersede, ClearInterrupted, StoreAndAppend, Attach, StartTimer,
                OpenWindow, ExtendWindow, ReadBuffer, ReadMedia, EnterAI, Holding
  <2>2. \E l \in EventPcs : Goto(e, l)
    BY <1>1, <1>3
    DEF ReadStage, Supersede, ClearInterrupted, StoreAndAppend, Attach, StartTimer,
        OpenWindow, ExtendWindow, ReadBuffer, ReadMedia, EnterAI, GiveUp,
        AfterAppend, AfterAttach, EventPcs, EventOnlyPcs
  <2> QED
    BY <1>1, <2>1, <2>2, ExclusionFrame
<1>4. CASE Unlock(e)
  <2>1. Holding(e)
    BY <1>4 DEF Unlock, Holding
  <2>2. \E l \in {"returned", "failed"} : Goto(e, l)
    BY <1>1, <1>4 DEF Unlock
  <2> QED
    BY <1>1, <2>1, <2>2, ExclusionFrame
<1> QED
  BY <1>2, <1>3, <1>4 DEF EventStep

\* Start, the poller and advanceToAI keep the exclusion.
LEMMA InstanceStepExclusion ==
  ASSUME TypeInv, LockExclusion, NEW i \in Instances, InstanceStep(i)
  PROVE  LockExclusion'
<1> USE StoreAssumption DEF CriticalPcs, SharedPcs
<1>1. i \in Actors
  BY DEF Actors
<1>2. CASE Recover(i) \/ RecoverExpired(i) \/ Poll(i) \/ ProbeTimer(i)
  <2>1. lock' = lock /\ \E l \in {"startTimer", "poll", "advance", "probe"} : Goto(i, l)
    BY <1>2 DEF Recover, RecoverExpired, Poll, ProbeTimer, Resume
  <2> QED
    BY <1>1, <2>1, ExclusionFrame
<1>3. CASE LockForAdvance(i)
  <2>1. PICK l \in {"recheck", "poll"} :
           /\ Goto(i, l)
           /\ \/ lock = Free /\ lock' = i
              \/ l = "poll" /\ lock' = lock
    BY <1>3 DEF LockForAdvance, AcquireLock, Resume
  <2> QED
    BY <1>1, <2>1, ExclusionFrame
<1>4. CASE RecheckStage(i) \/ RecheckTimer(i) \/ ReadBuffer(i) \/ ReadMedia(i) \/ EnterAI(i)
  <2>1. Holding(i) /\ lock' = lock
    BY <1>4 DEF RecheckStage, RecheckTimer, ReadBuffer, ReadMedia, EnterAI, Holding
  <2>2. \E l \in InstancePcs : Goto(i, l)
    BY <1>1, <1>4
    DEF RecheckStage, RecheckTimer, ReadBuffer, ReadMedia, EnterAI, GiveUp,
        InstancePcs, InstanceOnlyPcs
  <2> QED
    BY <1>1, <2>1, <2>2, ExclusionFrame
<1>5. CASE Unlock(i)
  <2>1. Holding(i) /\ Goto(i, "poll")
    BY <1>5 DEF Unlock, Holding, Resume
  <2> QED
    BY <1>1, <2>1, ExclusionFrame
<1> QED
  BY <1>2, <1>3, <1>4, <1>5 DEF InstanceStep

\* Every step keeps the exclusion.
LEMMA NextExclusion == TypeInv /\ LockExclusion /\ [Next]_vars => LockExclusion'
<1> SUFFICES ASSUME TypeInv, LockExclusion, [Next]_vars PROVE LockExclusion'
  OBVIOUS
<1> USE StoreAssumption DEF CriticalPcs, SharedPcs
<1>1. ASSUME NEW e \in Events, NEW i \in Instances, Accept(e, i) PROVE LockExclusion'
  <2>1. lock' = lock /\ \E l \in {"accepted", "rejected"} : Goto(e, l)
    BY <1>1 DEF Accept
  <2> QED
    BY <2>1, ExclusionFrame DEF Actors
<1>2. ASSUME NEW i \in Instances, ReplicaStep(i) PROVE LockExclusion'
  <2>1. CASE Shutdown(i)
    BY <2>1 DEF Shutdown, LockExclusion, Holding
  <2>2. CASE Crash(i) \/ Exit(i)
    BY <2>2 DEF Crash, Exit, Vanish, LockExclusion, Holding
  <2>3. CASE Boot(i)
    BY <2>3, ExclusionFrame DEF Boot, Actors
  <2> QED
    BY <1>2, <2>1, <2>2, <2>3 DEF ReplicaStep
<1>3. ASSUME NEW t \in Turns, TurnStep(t) PROVE LockExclusion'
  <2>1. UNCHANGED <<lock, pc>>
    BY <1>3 DEF TurnStep, LoadRequest, CallAI, ClearFailed, Notify, SetDispatch, CheckContext, Post, Drop,
                SetDone, Tidy, Forget, Panic
  <2> QED
    BY <2>1 DEF LockExclusion, Holding
<1>4. CASE TimerExpires \/ MediaExpires
  BY <1>4 DEF TimerExpires, MediaExpires, LockExclusion, Holding
<1>5. CASE LockExpires
  BY <1>5 DEF LockExpires, LockExclusion, Holding
<1>6. CASE UNCHANGED vars
  BY <1>6 DEF vars, LockExclusion, Holding
<1> QED
  BY <1>1, <1>2, <1>3, <1>4, <1>5, <1>6, EventStepExclusion, InstanceStepExclusion DEF Next

\* Nobody is inside initially.
LEMMA InitExclusion == Init => LockExclusion
BY StoreAssumption DEF Init, LockExclusion, Holding, CriticalPcs, SharedPcs, Actors

\* Process and advanceToAI never overlap for a pair, for any number of events
\* and replicas and any crashes and Redis failures.
THEOREM MutualExclusion == Spec => []LockExclusion
<1>1. Init => LockExclusion
  BY InitExclusion
<1>2. TypeInv /\ LockExclusion /\ [Next]_vars => LockExclusion'
  BY NextExclusion
<1> QED
  BY <1>1, <1>2, AlwaysTypeInv, PTL DEF Spec

-----------------------------------------------------------------------------
(* The window's timer and buffer under the lock. *)

PastTimer == {"getbuf", "getatt", "setai"}

\* The lock holder is alone: an event and a poller, or two actors, are never
\* both inside.
LEMMA HolderAlone ==
  ASSUME LockExclusion, NEW a \in Actors, NEW b \in Actors, Holding(a), Holding(b)
  PROVE  a = b
BY DEF LockExclusion

\* Only Process starts the timer, under the lock and while the pollers stay
\* where they are.
LEMMA TimerStartedUnderLock ==
  ASSUME TypeInv, Next, timer', ~timer
  PROVE  \E e \in Events : Holding(e) /\ \A i \in Instances : pc'[i] = pc[i]
<1> USE StoreAssumption
<1>1. CASE \E e \in Events : EventStep(e)
  <2> PICK e \in Events : EventStep(e)
    BY <1>1
  <2>1. StartTimer(e) \/ ExtendWindow(e)
    BY DEF EventStep, LockForEvent, ReadStage, Supersede, ClearInterrupted, StoreAndAppend,
           Attach, OpenWindow, ReadBuffer, ReadMedia, EnterAI, Unlock, Fault, keys,
           SetState, ClearState, AppendToBuffer, AppendAttachments
  <2>2. Holding(e)
    BY <2>1 DEF StartTimer, ExtendWindow, Holding, CriticalPcs
  <2>3. ASSUME NEW i \in Instances PROVE pc'[i] = pc[i]
    BY <2>1 DEF StartTimer, ExtendWindow, Goto, GiveUp, TypeInv, TypeOK, Actors
  <2> QED
    BY <2>2, <2>3
<1>2. timer' # timer
  OBVIOUS
<1>3. ASSUME NEW e \in Events, NEW i \in Instances, Accept(e, i) PROVE FALSE
  BY <1>2, <1>3 DEF Accept, SetState, Fault, keys
<1>4. ASSUME NEW i \in Instances, InstanceStep(i) PROVE FALSE
  BY <1>2, <1>4
  DEF InstanceStep, Recover, RecoverExpired, Poll, ProbeTimer, LockForAdvance, RecheckStage,
      RecheckTimer, ReadBuffer, ReadMedia, EnterAI, Unlock, SetState, Fault, keys
<1>5. ASSUME NEW i \in Instances, ReplicaStep(i) PROVE FALSE
  BY <1>2, <1>5 DEF ReplicaStep, Shutdown, Crash, Exit, Boot, Vanish, keys
<1>6. ASSUME NEW t \in Turns, TurnStep(t) PROVE ~timer'
  BY <1>2, <1>6
  DEF TurnStep, LoadRequest, CallAI, ClearFailed, Notify, SetDispatch, CheckContext, Post, Drop, SetDone,
      Tidy, Forget, Panic, SetState, ClearState, Fault, keys
<1>7. CASE TimerExpires \/ MediaExpires \/ LockExpires
  BY <1>2, <1>7
  DEF TimerExpires, MediaExpires, LockExpires, TimerElapses, MediaElapses, keys
<1> QED
  BY <1>1, <1>3, <1>4, <1>5, <1>6, <1>7 DEF Next

\* A poller gets past the second TimerExists only when the timer is off.
LEMMA PollerPassesTimer ==
  ASSUME TypeInv, Next, NEW i \in Instances, pc'[i] \in PastTimer
  PROVE  pc[i] \in PastTimer \/ (~timer /\ ~timer')
<1> USE StoreAssumption DEF PastTimer, TypeInv, TypeOK, Goto, Actors
<1>1. ASSUME NEW e \in Events, NEW j \in Instances, Accept(e, j) PROVE pc'[i] = pc[i]
  BY <1>1 DEF Accept
<1>2. ASSUME NEW e \in Events, EventStep(e) PROVE pc'[i] = pc[i]
  BY <1>2
  DEF EventStep, LockForEvent, ReadStage, Supersede, ClearInterrupted, StoreAndAppend,
      Attach, StartTimer, OpenWindow, ExtendWindow, ReadBuffer, ReadMedia, EnterAI, Unlock, GiveUp
<1>3. ASSUME NEW j \in Instances, InstanceStep(j)
      PROVE  pc[i] \in PastTimer \/ (~timer /\ ~timer')
  <2>1. CASE RecheckTimer(j)
    BY <2>1 DEF RecheckTimer, keys
  <2>2. CASE ReadBuffer(j) \/ ReadMedia(j) \/ EnterAI(j) \/ Unlock(j)
    BY <2>2 DEF ReadBuffer, ReadMedia, EnterAI, Unlock, GiveUp, Resume
  <2>3. CASE Recover(j) \/ RecoverExpired(j) \/ Poll(j) \/ ProbeTimer(j) \/ LockForAdvance(j)
             \/ RecheckStage(j)
    BY <2>3 DEF Recover, RecoverExpired, Poll, ProbeTimer, LockForAdvance, RecheckStage, Resume
  <2> QED
    BY <1>3, <2>1, <2>2, <2>3 DEF InstanceStep
<1>4. ASSUME NEW j \in Instances, ReplicaStep(j) PROVE pc[i] \in PastTimer
  BY <1>4 DEF ReplicaStep, Shutdown, Crash, Exit, Boot, Vanish
<1>5. ASSUME NEW t \in Turns, TurnStep(t) PROVE pc' = pc
  BY <1>5 DEF TurnStep, LoadRequest, CallAI, ClearFailed, Notify, SetDispatch, CheckContext, Post, Drop,
              SetDone, Tidy, Forget, Panic
<1>6. CASE TimerExpires \/ MediaExpires \/ LockExpires
  BY <1>6 DEF TimerExpires, MediaExpires, LockExpires
<1> QED
  BY <1>1, <1>2, <1>3, <1>4, <1>5, <1>6 DEF Next

\* advanceToAI never takes a window whose timer is running again, for any
\* number of events that restart it and of pollers that saw it expired.
THEOREM TimerIsRespected == Spec => []TimerRespected
<1>1. Init => TimerRespected
  BY DEF Init, TimerRespected, Actors
<1>2. TypeInv /\ LockExclusion /\ TimerRespected /\ [Next]_vars => TimerRespected'
  <2> SUFFICES ASSUME TypeInv, LockExclusion, TimerRespected, Next, NEW i \in Instances,
                      pc'[i] \in PastTimer, timer'
               PROVE  FALSE
    BY DEF TimerRespected, PastTimer, vars, keys
  <2>1. pc[i] \in PastTimer
    BY PollerPassesTimer
  <2>2. ~timer /\ Holding(i)
    BY <2>1 DEF TimerRespected, PastTimer, Holding, CriticalPcs, SharedPcs
  <2>3. PICK e \in Events : Holding(e)
    BY <2>2, TimerStartedUnderLock
  <2> QED
    BY <2>2, <2>3, HolderAlone, StoreAssumption DEF Actors
<1> QED
  BY <1>1, <1>2, AlwaysTypeInv, MutualExclusion, PTL DEF Spec

Reading == {"getatt", "setai"}

\* The buffer grows only by an RPUSH of Process, under the lock.
LEMMA BufferGrowsUnderLock ==
  ASSUME TypeInv, Next, ~(buffer' \subseteq buffer)
  PROVE  \E e \in Events : pc[e] \in {"append", "reappend"}
<1> USE DEF SetState, ClearState, Fault, keys
<1>1. CASE \E e \in Events : EventStep(e)
  <2> PICK e \in Events : EventStep(e)
    BY <1>1
  <2>1. CASE StoreAndAppend(e)
    BY <2>1 DEF StoreAndAppend
  <2>2. CASE ExtendWindow(e)
    BY <2>2 DEF ExtendWindow, AppendAttachments, SetTimer
  <2>3. CASE ClearInterrupted(e) \/ Attach(e) \/ StartTimer(e) \/ OpenWindow(e)
    BY <2>3 DEF ClearInterrupted, Attach, StartTimer, OpenWindow, AppendAttachments, SetTimer
  <2>4. CASE LockForEvent(e) \/ ReadStage(e) \/ Supersede(e) \/ ReadBuffer(e) \/ ReadMedia(e)
             \/ EnterAI(e) \/ Unlock(e)
    BY <2>4 DEF LockForEvent, ReadStage, Supersede, ReadBuffer, ReadMedia, EnterAI, Unlock
  <2> QED
    BY <2>1, <2>2, <2>3, <2>4 DEF EventStep
<1>2. ASSUME NEW e \in Events, NEW i \in Instances, Accept(e, i) PROVE FALSE
  BY <1>2 DEF Accept
<1>3. ASSUME NEW i \in Instances, InstanceStep(i) PROVE FALSE
  BY <1>3
  DEF InstanceStep, Recover, RecoverExpired, Poll, ProbeTimer, LockForAdvance, RecheckStage,
      RecheckTimer, ReadBuffer, ReadMedia, EnterAI, Unlock
<1>4. ASSUME NEW i \in Instances, ReplicaStep(i) PROVE FALSE
  BY <1>4 DEF ReplicaStep, Shutdown, Crash, Exit, Boot, Vanish
<1>5. ASSUME NEW t \in Turns, TurnStep(t) PROVE FALSE
  BY <1>5
  DEF TurnStep, LoadRequest, CallAI, ClearFailed, Notify, SetDispatch, CheckContext, Post, Drop, SetDone,
      Tidy, Forget, Panic
<1>6. CASE TimerExpires \/ MediaExpires \/ LockExpires
  BY <1>6 DEF TimerExpires, MediaExpires, LockExpires, TimerElapses, MediaElapses
<1> QED
  BY <1>1, <1>2, <1>3, <1>4, <1>5, <1>6 DEF Next

\* An actor that goes on reading has its text already, or takes the buffer as
\* it is now.
LEMMA SnapshotTaken ==
  ASSUME TypeInv, Next, NEW a \in Actors, pc'[a] \in Reading
  PROVE  \/ pc[a] \in Reading /\ snap'[a].text = snap[a].text
         \/ snap'[a].text = buffer /\ buffer' = buffer
<1> USE StoreAssumption DEF Reading, Goto
<1>1. /\ pc \in [Actors -> EventPcs \cup InstancePcs]
      /\ snap \in [Actors -> Snapshots]
      /\ Events \subseteq Actors /\ Instances \subseteq Actors
  BY DEF TypeInv, TypeOK, Actors
<1>2. ASSUME NEW e \in Events, NEW i \in Instances, Accept(e, i)
      PROVE  pc[a] \in Reading /\ snap'[a].text = snap[a].text
  BY <1>1, <1>2 DEF Accept
<1>3. ASSUME NEW b \in Actors, ReadBuffer(b) \/ ReadMedia(b) \/ EnterAI(b) \/ Unlock(b)
      PROVE  \/ pc[a] \in Reading /\ snap'[a].text = snap[a].text
             \/ snap'[a].text = buffer /\ buffer' = buffer
  <2>1. snap[a] \in Snapshots
    BY <1>1
  <2>2. CASE ReadBuffer(b)
    BY <1>1, <2>1, <2>2 DEF ReadBuffer, GiveUp, keys, Snapshots
  <2>3. CASE ReadMedia(b)
    BY <1>1, <2>1, <2>3 DEF ReadMedia, Snapshots
  <2>4. CASE EnterAI(b)
    BY <1>1, <2>1, <2>4 DEF EnterAI, GiveUp
  <2>5. CASE Unlock(b)
    BY <1>1, <2>1, <2>5 DEF Unlock, Resume
  <2> QED
    BY <1>3, <2>2, <2>3, <2>4, <2>5
<1>4. ASSUME NEW e \in Events,
             \/ LockForEvent(e) \/ ReadStage(e) \/ Supersede(e) \/ ClearInterrupted(e)
             \/ StoreAndAppend(e) \/ Attach(e) \/ StartTimer(e) \/ OpenWindow(e) \/ ExtendWindow(e)
      PROVE  pc[a] \in Reading /\ snap'[a].text = snap[a].text
  BY <1>1, <1>4
  DEF LockForEvent, ReadStage, Supersede, ClearInterrupted, StoreAndAppend, Attach, StartTimer,
      OpenWindow, ExtendWindow, GiveUp, AfterAppend, AfterAttach
<1>5. ASSUME NEW i \in Instances,
             \/ Recover(i) \/ RecoverExpired(i) \/ Poll(i) \/ ProbeTimer(i)
             \/ LockForAdvance(i) \/ RecheckStage(i) \/ RecheckTimer(i)
      PROVE  pc[a] \in Reading /\ snap'[a].text = snap[a].text
  BY <1>1, <1>5
  DEF Recover, RecoverExpired, Poll, ProbeTimer, LockForAdvance, RecheckStage, RecheckTimer,
      Resume
<1>6. ASSUME NEW i \in Instances, ReplicaStep(i)
      PROVE  pc[a] \in Reading /\ snap'[a].text = snap[a].text
  <2>1. CASE Shutdown(i) \/ Boot(i)
    BY <1>1, <2>1 DEF Shutdown, Boot
  <2>2. CASE Crash(i) \/ Exit(i)
    <3>1. pc[a] \notin RestingPcs /\ pc'[a] = pc[a]
      BY <1>1, <2>2 DEF Crash, Exit, Vanish, RestingPcs
    <3>2. Host(a) # i
      BY <1>1, <2>2, <3>1 DEF Crash, Exit, Vanish, Host, Actors
    <3> QED
      BY <1>1, <2>2, <3>1, <3>2 DEF Crash, Exit, Vanish
  <2> QED
    BY <1>6, <2>1, <2>2 DEF ReplicaStep
<1>7. ASSUME NEW t \in Turns, TurnStep(t) PROVE UNCHANGED <<pc, snap>>
  BY <1>7
  DEF TurnStep, LoadRequest, CallAI, ClearFailed, Notify, SetDispatch, CheckContext, Post, Drop, SetDone,
      Tidy, Forget, Panic
<1>8. CASE TimerExpires \/ MediaExpires \/ LockExpires
  BY <1>8 DEF TimerExpires, MediaExpires, LockExpires
<1> QED
  BY <1>1, <1>2, <1>3, <1>4, <1>5, <1>6, <1>7, <1>8 DEF Next, EventStep, InstanceStep

\* No message is appended between the GetBuffer of a turn and its launch, for
\* any number of events and pollers: it could only be answered by nobody.
THEOREM SnapshotIsComplete == Spec => []SnapshotIsWholeBuffer
<1>1. Init => SnapshotIsWholeBuffer
  BY DEF Init, SnapshotIsWholeBuffer
<1>2. TypeInv /\ LockExclusion /\ SnapshotIsWholeBuffer /\ [Next]_vars
        => SnapshotIsWholeBuffer'
  <2>1. CASE UNCHANGED vars
    BY <2>1 DEF vars, keys, SnapshotIsWholeBuffer
  <2>2. CASE Next
    <3> SUFFICES ASSUME TypeInv, LockExclusion, SnapshotIsWholeBuffer, Next,
                        NEW a \in Actors, pc'[a] \in Reading
                 PROVE  buffer' \subseteq snap'[a].text
      BY <2>2 DEF SnapshotIsWholeBuffer, Reading
    <3>1. CASE pc[a] \in Reading /\ snap'[a].text = snap[a].text
      <4>1. buffer \subseteq snap[a].text /\ Holding(a)
        BY <3>1 DEF SnapshotIsWholeBuffer, Reading, Holding, CriticalPcs, SharedPcs
      <4>2. buffer' \subseteq buffer
        <5> SUFFICES ASSUME ~(buffer' \subseteq buffer) PROVE FALSE
          OBVIOUS
        <5>1. PICK e \in Events : pc[e] \in {"append", "reappend"}
          BY BufferGrowsUnderLock
        <5>2. Holding(e) /\ e \in Actors
          BY <5>1 DEF Holding, CriticalPcs, Actors
        <5> QED
          BY <3>1, <4>1, <5>1, <5>2, HolderAlone DEF Reading
      <4> QED
        BY <3>1, <4>1, <4>2
    <3> QED
      BY <3>1, SnapshotTaken
  <2> QED
    BY <2>1, <2>2
<1> QED
  BY <1>1, <1>2, AlwaysTypeInv, MutualExclusion, PTL DEF Spec

-----------------------------------------------------------------------------
(* One turn per window. *)

\* Where the event that opened a window is from then on.
Past == {"return", "fail", "returned", "failed", "crashed"}

\* Where advanceToAI has read which window it advances.
Advancing == {"recheckTimer", "getbuf", "getatt", "setai"}

\* The window was opened and no turn was launched for it.
Fresh(w) ==
    /\ w \in Events
    /\ pc[w] \in Past
    /\ \A t \in Turns : turn[t].window # w

\* The strengthening of WindowLaunchedOnce.  Redis says "debounce" only of a
\* window without a turn, since SetState(StageAI) comes before the launch; a
\* poller on its way to a launch has read such a window and, alone under the
\* lock, is the only one to use it up; an event that has not passed its own
\* window or launch has no turn yet.
LaunchLedger ==
    /\ \A t \in Turns : t > launches => turn[t].window = None
    /\ \A t \in Turns : turn[t].window # None => pc[turn[t].window] \in Past
    /\ state.stage = "debounce" => Fresh(state.cfg)
    /\ \A i \in Instances : pc[i] \in Advancing => Fresh(snap[i].window)
    /\ WindowLaunchedOnce

\* No window and no turn initially.
LEMMA InitLedger == Init => LaunchLedger
<1> SUFFICES ASSUME Init PROVE LaunchLedger
  OBVIOUS
<1>1. \A t \in Turns : turn[t].window = None
  BY DEF Init, Unused
<1>2. state.stage # "debounce"
  BY DEF Init, StoreInit, NoState
<1>3. \A i \in Instances : pc[i] \notin Advancing
  BY DEF Init, Advancing, Actors
<1> QED
  BY <1>1, <1>2, <1>3 DEF LaunchLedger, WindowLaunchedOnce

\* Past is never left.
LEMMA PastForGood ==
  ASSUME TypeInv, Next, NEW w \in Events, pc[w] \in Past
  PROVE  pc'[w] \in Past
<1> USE StoreAssumption DEF Past, Goto
<1>1. /\ pc \in [Actors -> EventPcs \cup InstancePcs]
      /\ Events \subseteq Actors /\ Instances \subseteq Actors
  BY DEF TypeInv, TypeOK, Actors
<1>2. ASSUME NEW e \in Events, NEW i \in Instances, Accept(e, i) PROVE pc'[w] \in Past
  BY <1>1, <1>2 DEF Accept
<1>3. ASSUME NEW a \in Actors, ReadBuffer(a) \/ ReadMedia(a) \/ EnterAI(a) \/ Unlock(a)
      PROVE  pc'[w] \in Past
  BY <1>1, <1>3 DEF ReadBuffer, ReadMedia, EnterAI, Unlock, GiveUp, Resume
<1>4. ASSUME NEW e \in Events,
             \/ LockForEvent(e) \/ ReadStage(e) \/ Supersede(e) \/ ClearInterrupted(e)
             \/ StoreAndAppend(e) \/ Attach(e) \/ StartTimer(e) \/ OpenWindow(e) \/ ExtendWindow(e)
      PROVE  pc'[w] \in Past
  BY <1>1, <1>4
  DEF LockForEvent, ReadStage, Supersede, ClearInterrupted, StoreAndAppend, Attach, StartTimer,
      OpenWindow, ExtendWindow, GiveUp
<1>5. ASSUME NEW i \in Instances,
             \/ Recover(i) \/ RecoverExpired(i) \/ Poll(i) \/ ProbeTimer(i)
             \/ LockForAdvance(i) \/ RecheckStage(i) \/ RecheckTimer(i)
      PROVE  pc'[w] \in Past
  BY <1>1, <1>5
  DEF Recover, RecoverExpired, Poll, ProbeTimer, LockForAdvance, RecheckStage, RecheckTimer,
      Resume
<1>6. ASSUME NEW i \in Instances, ReplicaStep(i) PROVE pc'[w] \in Past
  BY <1>1, <1>6 DEF ReplicaStep, Shutdown, Crash, Exit, Boot, Vanish
<1>7. ASSUME NEW t \in Turns, TurnStep(t) PROVE pc' = pc
  BY <1>7
  DEF TurnStep, LoadRequest, CallAI, ClearFailed, Notify, SetDispatch, CheckContext, Post, Drop, SetDone,
      Tidy, Forget, Panic
<1>8. CASE TimerExpires \/ MediaExpires \/ LockExpires
  BY <1>8 DEF TimerExpires, MediaExpires, LockExpires
<1> QED
  BY <1>1, <1>2, <1>3, <1>4, <1>5, <1>6, <1>7, <1>8 DEF Next, EventStep, InstanceStep

\* What a turn was launched with: its replica, context, window and messages.
SameLaunch(t) ==
    /\ turn'[t].host = turn[t].host
    /\ turn'[t].ctx = turn[t].ctx
    /\ turn'[t].window = turn[t].window
    /\ turn'[t].text = turn[t].text

\* A turn keeps what it was launched with; only launchAIStage makes one.
LEMMA WindowsKept ==
  ASSUME TypeInv, Next, \A a \in Actors : ~EnterAI(a)
  PROVE  launches' = launches /\ \A t \in Turns : SameLaunch(t)
<1> USE DEF SameLaunch
<1>1. turn \in [Turns -> TurnRecords] /\ Events \subseteq Actors /\ Instances \subseteq Actors
  BY DEF TypeInv, TypeOK, Actors
<1>2. ASSUME NEW u \in Turns, TurnStep(u)
      PROVE  launches' = launches /\ \A t \in Turns : SameLaunch(t)
  <2>1. turn[u] \in TurnRecords
    BY <1>1
  <2> QED
    BY <1>1, <1>2, <2>1
    DEF TurnStep, LoadRequest, CallAI, ClearFailed, Notify, SetDispatch, CheckContext, Post, Drop, SetDone,
        Tidy, Forget, Panic, To, TurnRecords
<1>3. ASSUME NEW i \in Instances, ReplicaStep(i)
      PROVE  launches' = launches /\ \A t \in Turns : SameLaunch(t)
  <2>1. CASE Shutdown(i) \/ Boot(i)
    BY <2>1 DEF Shutdown, Boot, turns
  <2>2. CASE Crash(i) \/ Exit(i)
    <3>1. ASSUME NEW t \in Turns PROVE SameLaunch(t)
      <4>1. turn[t] \in TurnRecords
        BY <1>1
      <4> QED
        BY <2>2, <4>1 DEF Crash, Exit, Vanish, TurnRecords
    <3> QED
      BY <2>2, <3>1 DEF Crash, Exit, Vanish
  <2> QED
    BY <1>3, <2>1, <2>2 DEF ReplicaStep
<1>4. ASSUME NEW e \in Events, NEW i \in Instances, Accept(e, i) PROVE UNCHANGED turns
  BY <1>4 DEF Accept
<1>5. ASSUME NEW e \in Events, EventStep(e) PROVE UNCHANGED turns
  BY <1>1, <1>5
  DEF EventStep, LockForEvent, ReadStage, Supersede, ClearInterrupted, StoreAndAppend,
      Attach, StartTimer, OpenWindow, ExtendWindow, ReadBuffer, ReadMedia, Unlock
<1>6. ASSUME NEW i \in Instances, InstanceStep(i) PROVE UNCHANGED turns
  BY <1>1, <1>6
  DEF InstanceStep, Recover, RecoverExpired, Poll, ProbeTimer, LockForAdvance, RecheckStage,
      RecheckTimer, ReadBuffer, ReadMedia, Unlock
<1>7. CASE TimerExpires \/ MediaExpires \/ LockExpires
  BY <1>7 DEF TimerExpires, MediaExpires, LockExpires, turns
<1> QED
  BY <1>2, <1>3, <1>4, <1>5, <1>6, <1>7 DEF Next, turns

\* Redis says "debounce" because it did before, or because an event has just
\* opened its window.
LEMMA DebounceFrom ==
  ASSUME TypeInv, Next, state'.stage = "debounce"
  PROVE  \/ state' = state
         \/ \E e \in Events : pc[e] = "persist" /\ pc'[e] \in Past /\ state'.cfg = e
<1> USE StoreAssumption DEF SetState, ClearState, NoState, Fault, keys
<1>1. Events \subseteq Actors /\ pc \in [Actors -> EventPcs \cup InstancePcs]
  BY DEF TypeInv, TypeOK, Actors
<1>2. ASSUME NEW e \in Events, EventStep(e)
      PROVE  state' = state \/ (pc[e] = "persist" /\ pc'[e] \in Past /\ state'.cfg = e)
  <2>1. CASE OpenWindow(e)
    BY <1>1, <2>1 DEF OpenWindow, GiveUp, Goto, Past
  <2>2. CASE \/ ClearInterrupted(e) \/ StoreAndAppend(e) \/ Attach(e) \/ StartTimer(e)
             \/ ExtendWindow(e)
    BY <2>2
    DEF ClearInterrupted, StoreAndAppend, Attach, StartTimer, ExtendWindow, AppendToBuffer,
        AppendAttachments, SetTimer
  <2>3. CASE \/ LockForEvent(e) \/ ReadStage(e) \/ Supersede(e) \/ ReadBuffer(e)
             \/ ReadMedia(e) \/ EnterAI(e) \/ Unlock(e)
    BY <2>3 DEF LockForEvent, ReadStage, Supersede, ReadBuffer, ReadMedia, EnterAI, Unlock
  <2> QED
    BY <1>2, <2>1, <2>2, <2>3 DEF EventStep
<1>3. ASSUME NEW e \in Events, NEW i \in Instances, Accept(e, i) PROVE state' = state
  BY <1>3 DEF Accept
<1>4. ASSUME NEW i \in Instances, InstanceStep(i) PROVE state' = state
  BY <1>4
  DEF InstanceStep, Recover, RecoverExpired, Poll, ProbeTimer, LockForAdvance, RecheckStage,
      RecheckTimer, ReadBuffer, ReadMedia, EnterAI, Unlock
<1>5. ASSUME NEW i \in Instances, ReplicaStep(i) PROVE state' = state
  BY <1>5 DEF ReplicaStep, Shutdown, Crash, Exit, Boot, Vanish
<1>6. ASSUME NEW t \in Turns, TurnStep(t) PROVE state' = state
  BY <1>6
  DEF TurnStep, LoadRequest, CallAI, ClearFailed, Notify, SetDispatch, CheckContext, Post, Drop, SetDone,
      Tidy, Forget, Panic
<1>7. CASE TimerExpires \/ MediaExpires \/ LockExpires
  BY <1>7 DEF TimerExpires, MediaExpires, LockExpires, TimerElapses, MediaElapses
<1> QED
  BY <1>2, <1>3, <1>4, <1>5, <1>6, <1>7 DEF Next

\* A poller on its way to a launch was on it before, with the same window, or
\* has just read the window from Redis.
LEMMA AdvancingFrom ==
  ASSUME TypeInv, Next, NEW i \in Instances, pc'[i] \in Advancing
  PROVE  \/ pc[i] \in Advancing /\ snap'[i].window = snap[i].window
         \/ state.stage = "debounce" /\ snap'[i].window = state.cfg
<1> USE StoreAssumption DEF Advancing, Goto
<1>1. /\ pc \in [Actors -> EventPcs \cup InstancePcs]
      /\ snap \in [Actors -> Snapshots] /\ snap[i] \in Snapshots
      /\ Events \subseteq Actors /\ Instances \subseteq Actors
  BY DEF TypeInv, TypeOK, Actors
<1>2. ASSUME NEW e \in Events, NEW j \in Instances, Accept(e, j)
      PROVE  pc'[i] = pc[i] /\ snap' = snap
  BY <1>1, <1>2 DEF Accept
<1>3. ASSUME NEW e \in Events, EventStep(e)
      PROVE  pc'[i] = pc[i] /\ snap'[i] = snap[i]
  BY <1>1, <1>3
  DEF EventStep, LockForEvent, ReadStage, Supersede, ClearInterrupted, StoreAndAppend,
      Attach, StartTimer, OpenWindow, ExtendWindow, ReadBuffer, ReadMedia, EnterAI, Unlock, GiveUp
<1>4. ASSUME NEW j \in Instances, InstanceStep(j)
      PROVE  \/ pc[i] \in Advancing /\ snap'[i].window = snap[i].window
             \/ state.stage = "debounce" /\ snap'[i].window = state.cfg
  <2>1. CASE RecheckStage(j)
    BY <1>1, <2>1 DEF RecheckStage, Snapshots
  <2>2. CASE ReadBuffer(j) \/ ReadMedia(j)
    BY <1>1, <2>2 DEF ReadBuffer, ReadMedia, GiveUp, Snapshots
  <2>3. CASE EnterAI(j) \/ Unlock(j)
    BY <1>1, <2>3 DEF EnterAI, Unlock, GiveUp, Resume
  <2>4. CASE Recover(j) \/ RecoverExpired(j) \/ LockForAdvance(j) \/ RecheckTimer(j)
    BY <1>1, <2>4 DEF Recover, RecoverExpired, LockForAdvance, RecheckTimer, Resume
  <2>5. CASE Poll(j) \/ ProbeTimer(j)
    BY <1>1, <2>5 DEF Poll, ProbeTimer
  <2> QED
    BY <1>4, <2>1, <2>2, <2>3, <2>4, <2>5 DEF InstanceStep
<1>5. ASSUME NEW j \in Instances, ReplicaStep(j)
      PROVE  pc'[i] = pc[i] /\ snap'[i] = snap[i]
  <2>1. CASE Shutdown(j) \/ Boot(j)
    BY <1>1, <1>5, <2>1 DEF Shutdown, Boot
  <2>2. CASE Crash(j) \/ Exit(j)
    BY <1>1, <2>2 DEF Crash, Exit, Vanish, Host
  <2> QED
    BY <1>5, <2>1, <2>2 DEF ReplicaStep
<1>6. ASSUME NEW t \in Turns, TurnStep(t) PROVE UNCHANGED <<pc, snap>>
  BY <1>6
  DEF TurnStep, LoadRequest, CallAI, ClearFailed, Notify, SetDispatch, CheckContext, Post, Drop, SetDone,
      Tidy, Forget, Panic
<1>7. CASE TimerExpires \/ MediaExpires \/ LockExpires
  BY <1>7 DEF TimerExpires, MediaExpires, LockExpires
<1> QED
  BY <1>2, <1>3, <1>4, <1>5, <1>6, <1>7 DEF Next

\* A fresh window stays fresh as long as turns keep theirs.
LEMMA FreshStays ==
  ASSUME TypeInv, Next, NEW w, Fresh(w),
         \A t \in Turns : turn'[t].window = turn[t].window
  PROVE  Fresh(w)'
BY PastForGood DEF Fresh

\* A step that launches nothing keeps the ledger.
LEMMA QuietStepLedger ==
  ASSUME TypeInv, LaunchLedger, Next, \A a \in Actors : ~EnterAI(a)
  PROVE  LaunchLedger'
<1>1. launches' = launches /\ \A t \in Turns : turn'[t].window = turn[t].window
  BY WindowsKept DEF SameLaunch
<1>2. turn \in [Turns -> TurnRecords]
  BY DEF TypeInv, TypeOK
<1>3. ASSUME NEW t \in Turns, turn[t].window # None PROVE turn[t].window \in Events
  BY <1>2, <1>3 DEF TurnRecords
<1>4. \A t \in Turns : turn'[t].window # None => pc'[turn'[t].window] \in Past
  BY <1>1, <1>3, PastForGood DEF LaunchLedger
<1>5. state'.stage = "debounce" => Fresh(state.cfg)'
  <2> SUFFICES ASSUME state'.stage = "debounce" PROVE Fresh(state.cfg)'
    OBVIOUS
  <2>1. CASE state' = state
    <3>1. Fresh(state.cfg)
      BY <2>1 DEF LaunchLedger
    <3> QED
      BY <1>1, <2>1, <3>1, PastForGood DEF Fresh
  <2>2. CASE \E e \in Events : pc[e] = "persist" /\ pc'[e] \in Past /\ state'.cfg = e
    <3>1. PICK e \in Events : pc[e] = "persist" /\ pc'[e] \in Past /\ state'.cfg = e
      BY <2>2
    <3>2. \A t \in Turns : turn[t].window # e
      BY <3>1, StoreAssumption DEF LaunchLedger, Past
    <3> QED
      BY <1>1, <3>1, <3>2 DEF Fresh
  <2> QED
    BY <2>1, <2>2, DebounceFrom
<1>6. ASSUME NEW i \in Instances, pc'[i] \in Advancing PROVE Fresh(snap[i].window)'
  <2>1. Fresh(snap'[i].window)
    BY <1>6, AdvancingFrom DEF LaunchLedger
  <2> QED
    BY <1>1, <2>1, PastForGood DEF Fresh
<1>7. WindowLaunchedOnce'
  BY <1>1 DEF LaunchLedger, WindowLaunchedOnce
<1> QED
  BY <1>1, <1>4, <1>5, <1>6, <1>7 DEF LaunchLedger

\* SetState(StageAI) with the launch, or its failure: the window it uses up is fresh
\* before, and no other poller is on its way to a launch.
LEMMA EnterAILedger ==
  ASSUME TypeInv, LockExclusion, LaunchLedger, Next, NEW a \in Actors, EnterAI(a)
  PROVE  LaunchLedger'
<1> USE StoreAssumption
<1> DEFINE w == IF a \in Instances THEN snap[a].window ELSE a
<1>1. /\ turn \in [Turns -> TurnRecords]
      /\ pc \in [Actors -> EventPcs \cup InstancePcs]
      /\ launches \in 0..MaxTurns
      /\ Events \subseteq Actors /\ Instances \subseteq Actors
  BY DEF TypeInv, TypeOK, Actors
<1>2. snap' = snap /\ pc[a] = "setai" /\ pc'[a] \in {"return", "fail"}
  BY <1>1 DEF EnterAI, GiveUp, Goto
<1>3. \A t \in Turns : turn[t].window # None => turn[t].window \in Events
  BY <1>1 DEF TurnRecords
<1>4. /\ w \in Events
      /\ pc'[w] \in Past
      /\ \A t \in Turns : turn[t].window # w
  <2>1. CASE a \in Instances
    <3>1. Fresh(snap[a].window)
      BY <1>2, <2>1 DEF LaunchLedger, Advancing
    <3> QED
      BY <2>1, <3>1, PastForGood DEF Fresh
  <2>2. CASE a \notin Instances
    BY <1>2, <2>2 DEF LaunchLedger, Past, Actors
  <2> QED
    BY <2>1, <2>2
<1>5. ASSUME NEW i \in Instances PROVE pc'[i] \notin Advancing
  <2>1. CASE i = a
    BY <1>2, <2>1 DEF Advancing
  <2>2. CASE i # a
    <3>1. pc'[i] = pc[i]
      BY <1>1, <2>2 DEF EnterAI, GiveUp, Goto
    <3>2. ~Holding(i)
      BY <1>1, <1>2, <2>2, HolderAlone DEF Holding, CriticalPcs, SharedPcs
    <3> QED
      BY <3>1, <3>2 DEF Holding, CriticalPcs, SharedPcs, Advancing
  <2> QED
    BY <2>1, <2>2
<1>6. CASE UNCHANGED turns
  <2>1. \A t \in Turns : turn'[t].window # None => pc'[turn'[t].window] \in Past
    BY <1>3, <1>6, PastForGood DEF LaunchLedger, turns
  <2>2. state'.stage = "debounce" => Fresh(state.cfg)'
    <3> SUFFICES ASSUME state'.stage = "debounce" PROVE Fresh(state.cfg)'
      OBVIOUS
    <3>1. state' = state
      BY DEF EnterAI, Fault, SetState, keys
    <3> QED
      BY <1>6, <3>1, PastForGood DEF LaunchLedger, Fresh, turns
  <2> QED
    BY <1>5, <1>6, <2>1, <2>2 DEF LaunchLedger, WindowLaunchedOnce, turns
<1>7. CASE Launch(a) /\ SetState("ai", None)
  <2>1. /\ launches' = launches + 1 /\ launches + 1 \in Turns
        /\ \A t \in Turns : \/ turn'[t].window = turn[t].window
                            \/ t = launches + 1 /\ turn'[t].window = w
    BY <1>1, <1>7, PipelineAssumption DEF Launch, Turns
  <2>2. \A t \in Turns : t > launches' => turn'[t].window = None
    BY <1>1, <2>1 DEF LaunchLedger, Turns
  <2>3. \A t \in Turns : turn'[t].window # None => pc'[turn'[t].window] \in Past
    BY <1>3, <1>4, <2>1, PastForGood DEF LaunchLedger
  <2>4. WindowLaunchedOnce'
    BY <1>4, <2>1 DEF LaunchLedger, WindowLaunchedOnce
  <2>5. state'.stage # "debounce"
    BY <1>7 DEF SetState
  <2> QED
    BY <1>5, <2>2, <2>3, <2>4, <2>5 DEF LaunchLedger
<1> QED
  BY <1>6, <1>7 DEF EnterAI

\* Every step keeps the ledger.
LEMMA NextLedger ==
  TypeInv /\ LockExclusion /\ LaunchLedger /\ [Next]_vars => LaunchLedger'
<1> SUFFICES ASSUME TypeInv, LockExclusion, LaunchLedger, [Next]_vars PROVE LaunchLedger'
  OBVIOUS
<1>1. CASE UNCHANGED vars
  BY <1>1 DEF vars, keys, turns, LaunchLedger, WindowLaunchedOnce, Fresh
<1>2. CASE Next
  BY <1>2, QuietStepLedger, EnterAILedger
<1> QED
  BY <1>1, <1>2

\* The ledger always holds.
LEMMA AlwaysLedger == Spec => []LaunchLedger
BY InitLedger, NextLedger, AlwaysTypeInv, MutualExclusion, PTL DEF Spec

\* A debounce window gets one turn at most, for any number of pollers that see
\* it expired, of replicas that restart and of SetState calls that fail.
THEOREM AtMostOneTurnPerWindow == Spec => []WindowLaunchedOnce
<1>1. LaunchLedger => WindowLaunchedOnce
  BY DEF LaunchLedger
<1> QED
  BY <1>1, AlwaysLedger, PTL

-----------------------------------------------------------------------------
(* The entries map. *)

\* Where Process has not yet stored an entry of its own.
Unstored == {"new", "accepted", "busy", "locked", "replace", "interrupt", "clear", "append"}

\* The strengthening of EntriesAreLive: goroutines run where their replica is up, a
\* replica that starts has an empty map of cancelled contexts, and the context of an
\* event that has not stored its entry yet is nowhere, cancelled or not.
MapsInv ==
    /\ \A e \in Events : pc[e] \notin RestingPcs => mode[host[e]] \in {"up", "stopping"}
    /\ \A i \in Instances : pc[i] = "scan" => mode[i] = "starting"
    /\ \A i \in Instances : mode[i] \in {"down", "starting"} => cancelled[i] = {}
    /\ \A e \in Events, i \in Instances :
          pc[e] \in Unstored => e \notin cancelled[i] /\ entry[i] # e
    /\ EntriesAreLive

\* Every map is empty initially.
LEMMA InitMaps == Init => MapsInv
BY StoreAssumption DEF Init, MapsInv, EntriesAreLive, RestingPcs, Actors

\* What is enough for a step of Process to keep MapsInv: it stays where its entry is
\* not stored or leaves that, and the maps change as in one of the calls there are.
LEMMA EventMaps ==
  ASSUME TypeInv, MapsInv, NEW e \in Events, NEW l, Goto(e, l),
         pc[e] \notin RestingPcs,
         l \in Unstored => pc[e] \in Unstored,
         UNCHANGED <<mode, host>>,
         \/ UNCHANGED <<entry, cancelled>>
         \/ CancelPair(host[e])
         \/ /\ pc[e] \in Unstored /\ l \notin Unstored
            /\ entry' = [entry EXCEPT ![host[e]] = e]
            /\ UNCHANGED cancelled
         \/ /\ l \notin Unstored
            /\ entry' = [entry EXCEPT ![host[e]] = None]
            /\ cancelled' = [cancelled EXCEPT ![host[e]] = @ \cup {e}]
  PROVE  MapsInv'
<1> USE StoreAssumption
<1>1. /\ entry \in [Instances -> Events \cup {None}]
      /\ cancelled \in [Instances -> SUBSET Events]
      /\ pc \in [Actors -> EventPcs \cup InstancePcs]
      /\ e \in Actors /\ e \notin Instances
      /\ Events \subseteq Actors /\ Instances \subseteq Actors
  BY DEF TypeInv, TypeOK, Actors
<1>2. host[e] \in Instances /\ mode[host[e]] \in {"up", "stopping"}
  BY DEF TypeInv, Hosted, MapsInv, RestingPcs
<1>3. pc' = [pc EXCEPT ![e] = l]
  BY DEF Goto
<1>4. \A f \in Events : pc'[f] \notin RestingPcs => mode'[host'[f]] \in {"up", "stopping"}
  BY <1>1, <1>2, <1>3 DEF MapsInv
<1>5. \A i \in Instances : pc'[i] = "scan" => mode'[i] = "starting"
  BY <1>1, <1>3 DEF MapsInv
<1>6. \A i \in Instances : mode'[i] \in {"down", "starting"} => cancelled'[i] = {}
  BY <1>1, <1>2 DEF MapsInv, CancelPair
<1>7. \A f \in Events, i \in Instances :
         pc'[f] \in Unstored => f \notin cancelled'[i] /\ entry'[i] # f
  BY <1>1, <1>2, <1>3 DEF MapsInv, CancelPair
<1>8. EntriesAreLive'
  BY <1>1, <1>2 DEF MapsInv, EntriesAreLive, CancelPair
<1> QED
  BY <1>4, <1>5, <1>6, <1>7, <1>8 DEF MapsInv

\* Process keeps the maps in order.
LEMMA EventStepMaps ==
  ASSUME TypeInv, MapsInv, NEW e \in Events, EventStep(e)
  PROVE  MapsInv'
<1> USE StoreAssumption DEF Unstored, RestingPcs
<1>1. e \notin Instances
  OBVIOUS
<1>2. CASE \/ LockForEvent(e) \/ ReadStage(e) \/ ClearInterrupted(e) \/ ExtendWindow(e)
  <2>1. PICK l : Goto(e, l) /\ (l \in Unstored => pc[e] \in Unstored)
    BY <1>2 DEF LockForEvent, ReadStage, ClearInterrupted, ExtendWindow
  <2>2. pc[e] \notin RestingPcs /\ UNCHANGED locals
    BY <1>2 DEF LockForEvent, ReadStage, ClearInterrupted, ExtendWindow
  <2> QED
    BY <2>1, <2>2, EventMaps DEF locals
<1>3. CASE Supersede(e)
  BY <1>3, EventMaps DEF Supersede
<1>4. CASE StoreAndAppend(e) /\ ~GiveUp(e)
  <2>1. PICK l \in {"attach", "getbuf", "timer"} : Goto(e, l)
    BY <1>4 DEF StoreAndAppend, AfterAppend, AfterAttach
  <2> QED
    BY <1>4, <2>1, EventMaps DEF StoreAndAppend
<1>5. CASE (Attach(e) \/ StartTimer(e) \/ OpenWindow(e)) /\ ~GiveUp(e)
  <2>1. PICK l \in {"persist", "getbuf", "timer", "return"} : Goto(e, l)
    BY <1>5 DEF Attach, StartTimer, OpenWindow, AfterAttach
  <2>2. pc[e] \notin RestingPcs /\ UNCHANGED locals
    BY <1>5 DEF Attach, StartTimer, OpenWindow
  <2> QED
    BY <2>1, <2>2, EventMaps DEF locals
<1>6. CASE ReadMedia(e) \/ ((ReadBuffer(e) \/ EnterAI(e)) /\ ~GiveUp(e))
  <2>1. PICK l \in {"getatt", "setai", "return"} : Goto(e, l)
    BY <1>6 DEF ReadBuffer, ReadMedia, EnterAI
  <2>2. pc[e] \notin RestingPcs /\ UNCHANGED locals
    BY <1>6 DEF ReadBuffer, ReadMedia, EnterAI
  <2> QED
    BY <2>1, <2>2, EventMaps DEF locals
<1>7. CASE /\ GiveUp(e)
           /\ \/ StoreAndAppend(e) \/ Attach(e) \/ StartTimer(e)
              \/ OpenWindow(e) \/ ReadBuffer(e) \/ EnterAI(e)
  <2>1. /\ Goto(e, "fail")
        /\ entry' = [entry EXCEPT ![host[e]] = None]
        /\ cancelled' = [cancelled EXCEPT ![host[e]] = @ \cup {e}]
        /\ UNCHANGED <<mode, host>>
    BY <1>1, <1>7 DEF GiveUp
  <2>2. pc[e] \notin RestingPcs
    BY <1>7 DEF StoreAndAppend, Attach, StartTimer, OpenWindow, ReadBuffer, EnterAI
  <2> QED
    BY <2>1, <2>2, EventMaps
<1>8. CASE Unlock(e)
  <2>1. PICK l \in {"returned", "failed"} : Goto(e, l)
    BY <1>1, <1>8 DEF Unlock
  <2>2. pc[e] \notin RestingPcs /\ UNCHANGED locals
    BY <1>1, <1>8 DEF Unlock, locals
  <2> QED
    BY <2>1, <2>2, EventMaps DEF locals
<1>9. \/ LockForEvent(e) \/ ReadStage(e) \/ ClearInterrupted(e) \/ ExtendWindow(e)
      \/ Supersede(e) \/ Unlock(e) \/ ReadMedia(e)
      \/ StoreAndAppend(e) \/ Attach(e) \/ StartTimer(e)
      \/ OpenWindow(e) \/ ReadBuffer(e) \/ EnterAI(e)
  BY DEF EventStep
<1> QED
  BY <1>2, <1>3, <1>4, <1>5, <1>6, <1>7, <1>8, <1>9

\* What is enough for a step of a replica that is not going away to keep MapsInv.
LEMMA InstanceMaps ==
  ASSUME TypeInv, MapsInv, NEW i \in Instances, NEW l, Goto(i, l), l # "scan",
         UNCHANGED <<cancelled, host>>,
         \/ UNCHANGED mode
         \/ mode' = [mode EXCEPT ![i] = "up"] /\ mode[i] = "starting",
         \/ UNCHANGED entry
         \/ /\ pc[i] = "scan"
            /\ state.cfg \in Events /\ pc[state.cfg] \notin Unstored
            /\ entry' = [entry EXCEPT ![i] = IF @ = None THEN state.cfg ELSE @]
  PROVE  MapsInv'
<1> USE StoreAssumption
<1>1. /\ entry \in [Instances -> Events \cup {None}]
      /\ cancelled \in [Instances -> SUBSET Events]
      /\ mode \in [Instances -> {"down", "starting", "up", "stopping"}]
      /\ pc \in [Actors -> EventPcs \cup InstancePcs]
      /\ i \in Actors /\ i \notin Events
      /\ Events \subseteq Actors /\ Instances \subseteq Actors
  BY DEF TypeInv, TypeOK, Actors
<1>2. pc' = [pc EXCEPT ![i] = l]
  BY DEF Goto
<1>3. \A e \in Events : pc'[e] = pc[e]
  BY <1>1, <1>2
<1>4. \A e \in Events : pc'[e] \notin RestingPcs => mode'[host'[e]] \in {"up", "stopping"}
  <2>1. \A e \in Events :
           pc[e] \notin RestingPcs => host[e] \in Instances /\ mode[host[e]] \in {"up", "stopping"}
    BY DEF TypeInv, Hosted, MapsInv, RestingPcs
  <2>2. \A j \in Instances : mode[j] \in {"up", "stopping"} => mode'[j] \in {"up", "stopping"}
    BY <1>1
  <2> QED
    BY <1>3, <2>1, <2>2
<1>5. \A j \in Instances : pc'[j] = "scan" => mode'[j] = "starting"
  BY <1>1, <1>2 DEF MapsInv
<1>6. \A j \in Instances : mode'[j] \in {"down", "starting"} => cancelled'[j] = {}
  BY <1>1 DEF MapsInv
<1>7. \A e \in Events, j \in Instances :
         pc'[e] \in Unstored => e \notin cancelled'[j] /\ entry'[j] # e
  BY <1>1, <1>3 DEF MapsInv
<1>8. EntriesAreLive'
  BY <1>1 DEF MapsInv, EntriesAreLive
<1> QED
  BY <1>4, <1>5, <1>6, <1>7, <1>8 DEF MapsInv

\* Start, the poller and advanceToAI keep the maps in order: what Recover puts back is
\* the entry of an event that has opened its window, and no context is cancelled then.
LEMMA InstanceStepMaps ==
  ASSUME TypeInv, LaunchLedger, MapsInv, NEW i \in Instances, InstanceStep(i)
  PROVE  MapsInv'
<1> USE StoreAssumption
<1>1. state.stage = "debounce" => state.cfg \in Events /\ pc[state.cfg] \notin Unstored
  BY DEF LaunchLedger, Fresh, Past, Unstored
<1>2. CASE Recover(i)
  <2>1. PICK l \in {"startTimer", "poll"} : Goto(i, l)
    BY <1>2 DEF Recover, Resume
  <2>2. \/ UNCHANGED mode
        \/ mode' = [mode EXCEPT ![i] = "up"] /\ mode[i] = "starting"
    BY <1>2 DEF Recover, Resume, MapsInv
  <2> QED
    BY <1>1, <1>2, <2>1, <2>2, InstanceMaps DEF Recover
<1>3. CASE \/ RecoverExpired(i) \/ LockForAdvance(i) \/ Unlock(i)
           \/ Poll(i) \/ ProbeTimer(i) \/ RecheckStage(i) \/ RecheckTimer(i)
           \/ ReadBuffer(i) \/ ReadMedia(i) \/ EnterAI(i)
  <2>1. PICK l \in InstancePcs \ {"scan"} : Goto(i, l)
    BY <1>3 DEF RecoverExpired, LockForAdvance, Unlock, Poll, ProbeTimer, RecheckStage, RecheckTimer,
                ReadBuffer, ReadMedia, EnterAI, GiveUp, Resume,
                InstancePcs, InstanceOnlyPcs, SharedPcs
  <2>2. \/ UNCHANGED mode
        \/ mode' = [mode EXCEPT ![i] = "up"] /\ mode[i] = "starting"
    <3>1. UNCHANGED mode \/ Resume(i)
      BY <1>3 DEF RecoverExpired, LockForAdvance, Unlock, Poll, ProbeTimer, RecheckStage,
                  RecheckTimer, ReadBuffer, ReadMedia, EnterAI, GiveUp, locals
    <3> QED
      BY <3>1 DEF Resume, TypeInv, TypeOK
  <2>3. UNCHANGED <<entry, cancelled, host>>
    BY <1>3 DEF RecoverExpired, LockForAdvance, Unlock, Poll, ProbeTimer, RecheckStage,
                RecheckTimer, ReadBuffer, ReadMedia, EnterAI, GiveUp, locals
  <2> QED
    BY <2>1, <2>2, <2>3, InstanceMaps
<1> QED
  BY <1>2, <1>3 DEF InstanceStep

\* Replicas that stop, vanish and boot: the maps go with the process.
LEMMA ReplicaStepMaps ==
  ASSUME TypeInv, MapsInv, NEW i \in Instances, ReplicaStep(i)
  PROVE  MapsInv'
<1> USE StoreAssumption
<1>1. /\ entry \in [Instances -> Events \cup {None}]
      /\ cancelled \in [Instances -> SUBSET Events]
      /\ mode \in [Instances -> {"down", "starting", "up", "stopping"}]
      /\ pc \in [Actors -> EventPcs \cup InstancePcs]
      /\ i \in Actors /\ i \notin Events
      /\ Events \subseteq Actors /\ Instances \subseteq Actors
  BY DEF TypeInv, TypeOK, Actors
<1>2. CASE Shutdown(i)
  <2>1. \A e \in Events, j \in Instances : pc[e] \in Unstored => entry[j] # e
    BY DEF MapsInv
  <2> QED
    BY <1>1, <1>2, <2>1 DEF Shutdown, MapsInv, EntriesAreLive
<1>3. CASE Crash(i) \/ Exit(i)
  <2>1. /\ mode' = [mode EXCEPT ![i] = "down"]
        /\ entry' = [entry EXCEPT ![i] = None]
        /\ cancelled' = [cancelled EXCEPT ![i] = {}]
        /\ host' = host
        /\ pc' = [a \in Actors |-> IF a = i THEN "off"
                                  ELSE IF a \in Events /\ host[a] = i /\ pc[a] \notin RestingPcs
                                       THEN "crashed" ELSE pc[a]]
    BY <1>3 DEF Crash, Exit, Vanish
  <2>2. \A e \in Events :
           \/ pc'[e] = "crashed"
           \/ pc'[e] = pc[e] /\ (host[e] # i \/ pc[e] \in RestingPcs)
    BY <1>1, <2>1
  <2>3. \A j \in Instances : IF j = i THEN pc'[j] = "off" ELSE pc'[j] = pc[j]
    BY <1>1, <2>1
  <2>4. \A e \in Events : pc'[e] \notin RestingPcs => mode'[host'[e]] \in {"up", "stopping"}
    BY <1>1, <2>1, <2>2 DEF MapsInv, RestingPcs
  <2>5. \A j \in Instances : pc'[j] = "scan" => mode'[j] = "starting"
    BY <1>1, <2>1, <2>3 DEF MapsInv
  <2>6. \A j \in Instances : mode'[j] \in {"down", "starting"} => cancelled'[j] = {}
    BY <1>1, <2>1 DEF MapsInv
  <2>7. \A e \in Events, j \in Instances :
           pc'[e] \in Unstored => e \notin cancelled'[j] /\ entry'[j] # e
    BY <1>1, <2>1, <2>2 DEF MapsInv, Unstored
  <2>8. EntriesAreLive'
    BY <1>1, <2>1 DEF MapsInv, EntriesAreLive
  <2> QED
    BY <2>4, <2>5, <2>6, <2>7, <2>8 DEF MapsInv
<1>4. CASE Boot(i)
  <2>1. /\ mode' = [mode EXCEPT ![i] = "starting"] /\ mode[i] = "down"
        /\ pc' = [pc EXCEPT ![i] = "scan"]
        /\ UNCHANGED <<entry, cancelled, host>>
    BY <1>4 DEF Boot, Goto
  <2>2. \A e \in Events : pc'[e] = pc[e]
    BY <1>1, <2>1
  <2>3. \A e \in Events : pc'[e] \notin RestingPcs => mode'[host'[e]] \in {"up", "stopping"}
    BY <1>1, <2>1, <2>2 DEF MapsInv
  <2>4. \A j \in Instances : pc'[j] = "scan" => mode'[j] = "starting"
    BY <1>1, <2>1 DEF MapsInv
  <2>5. \A j \in Instances : mode'[j] \in {"down", "starting"} => cancelled'[j] = {}
    BY <1>1, <2>1 DEF MapsInv
  <2>6. \A e \in Events, j \in Instances :
           pc'[e] \in Unstored => e \notin cancelled'[j] /\ entry'[j] # e
    BY <2>1, <2>2 DEF MapsInv
  <2>7. EntriesAreLive'
    BY <1>1, <2>1 DEF MapsInv, EntriesAreLive
  <2> QED
    BY <2>3, <2>4, <2>5, <2>6, <2>7 DEF MapsInv
<1> QED
  BY <1>2, <1>3, <1>4 DEF ReplicaStep

\* Every step keeps MapsInv.
LEMMA NextMaps == TypeInv /\ LaunchLedger /\ MapsInv /\ [Next]_vars => MapsInv'
<1> SUFFICES ASSUME TypeInv, LaunchLedger, MapsInv, [Next]_vars PROVE MapsInv'
  OBVIOUS
<1> USE StoreAssumption
<1>1. ASSUME NEW e \in Events, NEW i \in Instances, Accept(e, i) PROVE MapsInv'
  <2>1. PICK l \in {"accepted", "rejected"} : Goto(e, l)
    BY <1>1 DEF Accept
  <2>2. /\ pc \in [Actors -> EventPcs \cup InstancePcs]
        /\ host' = [host EXCEPT ![e] = i] /\ host \in [Events -> Instances \cup {None}]
        /\ mode[i] = "up" /\ pc[e] = "new" /\ pc' = [pc EXCEPT ![e] = l]
        /\ Events \subseteq Actors /\ Instances \subseteq Actors
        /\ UNCHANGED <<mode, entry, cancelled>>
    BY <1>1, <2>1 DEF Accept, Goto, TypeInv, TypeOK, Actors
  <2>3. \A f \in Events : pc'[f] \notin RestingPcs => mode'[host'[f]] \in {"up", "stopping"}
    BY <2>2 DEF MapsInv
  <2>4. \A f \in Events : pc'[f] \in Unstored => pc[f] \in Unstored
    BY <2>2 DEF Unstored
  <2>5. \A j \in Instances : pc'[j] = pc[j]
    BY <2>2
  <2> QED
    BY <2>2, <2>3, <2>4, <2>5 DEF MapsInv, EntriesAreLive
<1>2. ASSUME NEW t \in Turns, TurnStep(t) PROVE MapsInv'
  <2>1. /\ UNCHANGED <<mode, cancelled, host, pc>>
        /\ UNCHANGED entry \/ \E j : entry' = [entry EXCEPT ![j] = None]
    BY <1>2 DEF TurnStep, LoadRequest, CallAI, ClearFailed, Notify, SetDispatch, CheckContext, Post, Drop,
                SetDone, Tidy, Forget, Panic, locals
  <2>2. cancelled \in [Instances -> SUBSET Events] /\ entry \in [Instances -> Events \cup {None}]
    BY DEF TypeInv, TypeOK
  <2>3. \A j \in Instances : entry'[j] \in {entry[j], None}
    BY <2>1, <2>2
  <2> QED
    BY <2>1, <2>2, <2>3 DEF MapsInv, EntriesAreLive
<1>3. CASE TimerExpires \/ MediaExpires \/ LockExpires \/ UNCHANGED vars
  <2>1. UNCHANGED <<mode, entry, cancelled, host, pc>>
    BY <1>3 DEF TimerExpires, MediaExpires, LockExpires, locals, vars
  <2> QED
    BY <2>1 DEF MapsInv, EntriesAreLive
<1> QED
  BY <1>1, <1>2, <1>3, EventStepMaps, InstanceStepMaps, ReplicaStepMaps DEF Next

\* The maps are always in order.
LEMMA AlwaysMaps == Spec => []MapsInv
BY InitMaps, NextMaps, AlwaysTypeInv, AlwaysLedger, PTL DEF Spec

\* No replica that is up keeps an entry whose context was cancelled: the poller never
\* starves on one, and no turn is launched on a context that is already dead.
THEOREM LiveEntries == Spec => []EntriesAreLive
<1>1. MapsInv => EntriesAreLive
  BY DEF MapsInv
<1> QED
  BY <1>1, AlwaysMaps, PTL

-----------------------------------------------------------------------------
(* Whose entry the map holds. *)

\* Where Process has stored its entry, and where it has read that no window is open.
Stored  == {"attach", "timer", "persist", "getbuf", "getatt", "setai"}
Opening == {"replace", "interrupt", "clear", "append"} \cup Stored

\* The strengthening of ConfigMatchesWindow.  An event that opens a window found none
\* open, and from entries.Store on the map of its replica holds its entry or, once
\* another turn has deleted that, none; the same for the window Redis says is open, and
\* for the one advanceToAI is about to launch, on the replica that took the event in.
OwnInv ==
    /\ \A e \in Events : pc[e] \in Opening => state.stage # "debounce"
    /\ \A e \in Events : pc[e] \in Stored => entry[host[e]] \in {None, e}
    /\ state.stage = "debounce" => entry[host[state.cfg]] \in {None, state.cfg}
    /\ \A i \in Instances :
          pc[i] \in Advancing /\ host[snap[i].window] = i => entry[i] \in {None, snap[i].window}
    /\ ConfigMatchesWindow

\* No entry, no window and no turn initially.
LEMMA InitOwn == Init => OwnInv
<1> SUFFICES ASSUME Init PROVE OwnInv
  OBVIOUS
<1>1. ConfigMatchesWindow
  BY DEF Init, ConfigMatchesWindow, Unused
<1>2. \A a \in Actors : pc[a] \notin Stored \cup Advancing
  BY DEF Init, Stored, Advancing
<1>3. state.stage # "debounce"
  BY DEF Init, StoreInit, NoState
<1> QED
  BY <1>1, <1>2, <1>3 DEF OwnInv, Actors

\* The replica that took an event in is known for good.
LEMMA HostStays ==
  ASSUME TypeInv, Next, NEW e \in Events, pc[e] # "new"
  PROVE  host'[e] = host[e] /\ host[e] \in Instances
<1>1. host \in [Events -> Instances \cup {None}] /\ host[e] \in Instances
  BY DEF TypeInv, TypeOK, Hosted
<1>2. ASSUME NEW f \in Events, NEW i \in Instances, Accept(f, i) PROVE host'[e] = host[e]
  BY <1>1, <1>2 DEF Accept
<1>3. ASSUME NEW f \in Events, EventStep(f) PROVE host' = host
  BY <1>3
  DEF EventStep, LockForEvent, ReadStage, Supersede, ClearInterrupted, StoreAndAppend, Attach,
      StartTimer, OpenWindow, ExtendWindow, ReadBuffer, ReadMedia, EnterAI, Unlock, GiveUp, locals
<1>4. ASSUME NEW i \in Instances, InstanceStep(i) PROVE host' = host
  BY <1>4
  DEF InstanceStep, Recover, RecoverExpired, Poll, ProbeTimer, LockForAdvance, RecheckStage,
      RecheckTimer, ReadBuffer, ReadMedia, EnterAI, Unlock, GiveUp, locals
<1>5. ASSUME NEW i \in Instances, ReplicaStep(i) PROVE host' = host
  BY <1>5 DEF ReplicaStep, Shutdown, Crash, Exit, Boot, Vanish
<1>6. ASSUME NEW t \in Turns, TurnStep(t) PROVE host' = host
  BY <1>6
  DEF TurnStep, LoadRequest, CallAI, ClearFailed, Notify, SetDispatch, CheckContext, Post, Drop,
      SetDone, Tidy, Forget, Panic, locals
<1>7. CASE TimerExpires \/ MediaExpires \/ LockExpires
  BY <1>1, <1>7 DEF TimerExpires, MediaExpires, LockExpires, locals
<1> QED
  BY <1>1, <1>2, <1>3, <1>4, <1>5, <1>6, <1>7 DEF Next

\* Where an entry comes from: entries.Store of the event at its append, or Recover,
\* which puts back what Redis says of the open window.
LEMMA EntryFrom ==
  ASSUME TypeInv, Next, NEW i \in Instances
  PROVE  \/ entry'[i] \in {None, entry[i]}
         \/ \E e \in Events : pc[e] = "append" /\ pc'[e] \in Stored
         \/ /\ state.stage = "debounce" /\ state' = state
            /\ pc[i] = "scan" /\ entry'[i] = state.cfg
<1> USE StoreAssumption
<1>1. /\ entry \in [Instances -> Events \cup {None}]
      /\ pc \in [Actors -> EventPcs \cup InstancePcs]
      /\ Events \subseteq Actors /\ Instances \subseteq Actors
  BY DEF TypeInv, TypeOK, Actors
<1>2. ASSUME NEW j, entry' = [entry EXCEPT ![j] = None] PROVE entry'[i] \in {None, entry[i]}
  BY <1>1, <1>2
<1>3. ASSUME NEW e \in Events, StoreAndAppend(e)
      PROVE  entry'[i] \in {None, entry[i]} \/ (pc[e] = "append" /\ pc'[e] \in Stored)
  <2>1. CASE GiveUp(e)
    BY <1>2, <2>1 DEF GiveUp
  <2>2. CASE Goto(e, AfterAppend(e))
    BY <1>1, <1>3, <2>2 DEF StoreAndAppend, Goto, AfterAppend, AfterAttach, Stored
  <2> QED
    BY <1>3, <2>1, <2>2 DEF StoreAndAppend
<1>4. ASSUME NEW e \in Events,
             \/ LockForEvent(e) \/ ReadStage(e) \/ Supersede(e) \/ ClearInterrupted(e)
             \/ Attach(e) \/ StartTimer(e) \/ OpenWindow(e) \/ ExtendWindow(e)
      PROVE  entry'[i] \in {None, entry[i]}
  <2>1. UNCHANGED entry \/ GiveUp(e) \/ CancelPair(host[e])
    BY <1>4 DEF LockForEvent, ReadStage, Supersede, ClearInterrupted, Attach, StartTimer,
                OpenWindow, ExtendWindow, locals
  <2>2. UNCHANGED entry \/ \E j : entry' = [entry EXCEPT ![j] = None]
    BY <2>1 DEF GiveUp, CancelPair, locals
  <2> QED
    BY <1>2, <2>2
<1>5. ASSUME NEW a \in Actors, ReadBuffer(a) \/ ReadMedia(a) \/ EnterAI(a) \/ Unlock(a)
      PROVE  entry'[i] \in {None, entry[i]}
  <2>1. UNCHANGED entry \/ GiveUp(a)
    BY <1>5 DEF ReadBuffer, ReadMedia, EnterAI, Unlock, locals
  <2>2. UNCHANGED entry \/ \E j : entry' = [entry EXCEPT ![j] = None]
    BY <2>1 DEF GiveUp, locals
  <2> QED
    BY <1>2, <2>2
<1>6. ASSUME NEW j \in Instances, Recover(j)
      PROVE  \/ entry'[i] \in {None, entry[i]}
             \/ /\ state.stage = "debounce" /\ state' = state
                /\ pc[i] = "scan" /\ entry'[i] = state.cfg
  BY <1>1, <1>6 DEF Recover, keys
<1>7. ASSUME NEW j \in Instances,
             \/ RecoverExpired(j) \/ Poll(j) \/ ProbeTimer(j)
             \/ LockForAdvance(j) \/ RecheckStage(j) \/ RecheckTimer(j)
      PROVE  entry' = entry
  BY <1>7 DEF RecoverExpired, Poll, ProbeTimer, LockForAdvance, RecheckStage, RecheckTimer, locals
<1>8. ASSUME NEW j \in Instances, ReplicaStep(j) PROVE entry'[i] \in {None, entry[i]}
  <2>1. entry' = entry \/ entry' = [entry EXCEPT ![j] = None]
    BY <1>8 DEF ReplicaStep, Shutdown, Crash, Exit, Boot, Vanish
  <2> QED
    BY <1>2, <2>1
<1>9. ASSUME NEW t \in Turns, TurnStep(t) PROVE entry'[i] \in {None, entry[i]}
  <2>1. entry' = entry \/ entry' = [entry EXCEPT ![turn[t].host] = None]
    BY <1>9 DEF TurnStep, LoadRequest, CallAI, ClearFailed, Notify, SetDispatch, CheckContext, Post, Drop,
                SetDone, Tidy, Forget, Panic, locals
  <2> QED
    BY <1>2, <2>1
<1>10. ASSUME NEW e \in Events, NEW j \in Instances, Accept(e, j) PROVE entry' = entry
  BY <1>10 DEF Accept
<1>11. CASE TimerExpires \/ MediaExpires \/ LockExpires
  BY <1>11 DEF TimerExpires, MediaExpires, LockExpires, locals
<1> QED
  BY <1>1, <1>3, <1>4, <1>5, <1>6, <1>7, <1>8, <1>9, <1>10, <1>11
  DEF Next, EventStep, InstanceStep

\* An event begins to open a window only when it reads that none is open, and has its
\* entry in the map from entries.Store on.
LEMMA OpeningFrom ==
  ASSUME TypeInv, Next, NEW e \in Events, pc'[e] \in Opening
  PROVE  /\ \/ pc[e] \in Opening
            \/ state.stage # "debounce" /\ state' = state
         /\ pc'[e] \in Stored => \/ pc[e] \in Stored
                                 \/ /\ pc[e] = "append"
                                    /\ entry' = [entry EXCEPT ![host[e]] = e]
<1> USE StoreAssumption
<1>1. /\ pc \in [Actors -> EventPcs \cup InstancePcs]
      /\ Events \subseteq Actors /\ Instances \subseteq Actors
  BY DEF TypeInv, TypeOK, Actors
<1> DEFINE Goal == /\ \/ pc[e] \in Opening
                      \/ state.stage # "debounce" /\ state' = state
                   /\ pc'[e] \in Stored => \/ pc[e] \in Stored
                                           \/ /\ pc[e] = "append"
                                              /\ entry' = [entry EXCEPT ![host[e]] = e]
<1>2. CASE pc'[e] = pc[e]
  BY <1>2
<1>3. CASE pc'[e] # pc[e]
  <2>1. ASSUME NEW a \in Actors, NEW l, Goto(a, l) PROVE a = e /\ pc'[e] = l
    BY <1>1, <1>3, <2>1 DEF Goto
  <2>2. CASE ReadStage(e)
    <3>1. pc'[e] \notin Stored
      BY <1>1, <2>2 DEF ReadStage, Goto, Stored
    <3>2. state.stage # "debounce" /\ state' = state
      BY <1>1, <2>2 DEF ReadStage, Goto, Opening, Stored, keys
    <3> QED
      BY <3>1, <3>2
  <2>3. CASE Supersede(e) \/ ClearInterrupted(e) \/ LockForEvent(e) \/ ExtendWindow(e) \/ Unlock(e)
    BY <1>1, <2>3 DEF Supersede, ClearInterrupted, LockForEvent, ExtendWindow, Unlock, Goto,
                      Opening, Stored
  <2>4. CASE StoreAndAppend(e)
    <3>1. ~GiveUp(e)
      BY <1>1 DEF GiveUp, Goto, Opening, Stored
    <3> QED
      BY <2>4, <3>1 DEF StoreAndAppend, Opening
  <2>5. CASE Attach(e) \/ StartTimer(e) \/ OpenWindow(e) \/ ReadBuffer(e) \/ ReadMedia(e) \/ EnterAI(e)
    BY <2>5 DEF Attach, StartTimer, OpenWindow, ReadBuffer, ReadMedia, EnterAI, Opening, Stored
  <2>6. ASSUME NEW f \in Events, EventStep(f) PROVE Goal
    <3>1. \E l : Goto(f, l)
      BY <2>6 DEF EventStep, LockForEvent, ReadStage, Supersede, ClearInterrupted, StoreAndAppend,
                  Attach, StartTimer, OpenWindow, ExtendWindow, ReadBuffer, ReadMedia, EnterAI,
                  Unlock, GiveUp
    <3>2. f = e
      BY <1>1, <2>1, <3>1
    <3> QED
      BY <2>2, <2>3, <2>4, <2>5, <2>6, <3>2 DEF EventStep
  <2>7. ASSUME NEW f \in Events, NEW i \in Instances, Accept(f, i) PROVE FALSE
    <3>1. pc'[e] \in {"accepted", "rejected"}
      BY <1>1, <2>1, <2>7 DEF Accept
    <3> QED
      BY <3>1 DEF Opening, Stored
  <2>8. ASSUME NEW i \in Instances, InstanceStep(i) PROVE FALSE
    <3>1. \E l : Goto(i, l)
      BY <2>8 DEF InstanceStep, Recover, RecoverExpired, Poll, ProbeTimer, LockForAdvance,
                  RecheckStage, RecheckTimer, ReadBuffer, ReadMedia, EnterAI, Unlock, GiveUp, Resume
    <3> QED
      BY <1>1, <2>1, <3>1
  <2>9. ASSUME NEW i \in Instances, ReplicaStep(i) PROVE FALSE
    <3>1. CASE Shutdown(i)
      BY <1>3, <3>1 DEF Shutdown
    <3>2. CASE Boot(i)
      BY <1>1, <2>1, <3>2 DEF Boot
    <3>3. CASE Crash(i) \/ Exit(i)
      <4>1. pc'[e] \in {"off", "crashed", pc[e]}
        BY <1>1, <3>3 DEF Crash, Exit, Vanish
      <4> QED
        BY <1>3, <4>1 DEF Opening, Stored
    <3> QED
      BY <2>9, <3>1, <3>2, <3>3 DEF ReplicaStep
  <2>10. ASSUME NEW t \in Turns, TurnStep(t) PROVE FALSE
    BY <1>3, <2>10 DEF TurnStep, LoadRequest, CallAI, ClearFailed, Notify, SetDispatch, CheckContext, Post, Drop,
                       SetDone, Tidy, Forget, Panic
  <2>11. ASSUME TimerExpires \/ MediaExpires \/ LockExpires PROVE FALSE
    BY <1>3, <2>11 DEF TimerExpires, MediaExpires, LockExpires
  <2> HIDE DEF Goal
  <2>12. Goal
    BY <2>6, <2>7, <2>8, <2>9, <2>10, <2>11 DEF Next
  <2> QED
    BY <2>12 DEF Goal
<1> QED
  BY <1>2, <1>3

\* Every step keeps OwnInv: what it adds to the map of a replica is the entry of the
\* event that alone is opening a window there, or that of the window which is open.
LEMMA NextOwn ==
  ASSUME TypeInv, LockExclusion, LaunchLedger, OwnInv, [Next]_vars
  PROVE  OwnInv'
<1> USE StoreAssumption
<1>1. CASE UNCHANGED vars
  BY <1>1 DEF vars, keys, locals, turns, OwnInv, ConfigMatchesWindow
<1>2. ASSUME Next PROVE OwnInv'
  <2>1. ASSUME NEW e \in Events, NEW a \in Actors, pc[e] \in Opening, Holding(a) PROVE a = e
    BY <2>1, HolderAlone DEF Holding, Opening, Stored, CriticalPcs, SharedPcs, Actors
  <2>2. /\ entry \in [Instances -> Events \cup {None}]
        /\ turn \in [Turns -> TurnRecords]
        /\ Events \subseteq Actors /\ Instances \subseteq Actors
    BY DEF TypeInv, TypeOK, Actors
  <2>3. ASSUME NEW e \in Events, pc'[e] \in Opening PROVE state'.stage # "debounce"
    <3>1. CASE state' = state
      BY <1>2, <2>3, <3>1, OpeningFrom DEF OwnInv
    <3>2. ASSUME NEW f \in Events, pc[f] = "persist", pc'[f] \in Past, pc[e] \in Opening
          PROVE  FALSE
      <4>1. f = e
        BY <2>1, <2>2, <3>2 DEF Holding, CriticalPcs
      <4> QED
        BY <2>3, <3>2, <4>1 DEF Opening, Stored, Past
    <3> QED
      BY <1>2, <2>3, <3>1, <3>2, OpeningFrom, DebounceFrom
  <2>4. ASSUME NEW e \in Events, pc[e] \in Opening, pc[e] # "append",
               entry[host[e]] \in {None, e}
        PROVE  entry'[host'[e]] \in {None, e}
    <3>1. state.stage # "debounce"
      BY <2>4 DEF OwnInv
    <3>2. ASSUME NEW f \in Events, pc[f] = "append" PROVE FALSE
      BY <2>1, <2>2, <2>4, <3>2 DEF Holding, CriticalPcs
    <3>3. host'[e] = host[e] /\ host[e] \in Instances
      BY <1>2, <2>4, HostStays DEF Opening, Stored
    <3> QED
      BY <1>2, <2>4, <3>1, <3>2, <3>3, EntryFrom
  <2>5. ASSUME NEW e \in Events, pc'[e] \in Stored
        PROVE  entry'[host'[e]] \in {None, e}
    <3>1. CASE pc[e] \in Stored
      <4>1. pc[e] \in Opening /\ pc[e] # "append"
        BY <3>1 DEF Opening, Stored
      <4> QED
        BY <2>4, <3>1, <4>1 DEF OwnInv
    <3>2. CASE pc[e] = "append" /\ entry' = [entry EXCEPT ![host[e]] = e]
      <4>1. host'[e] = host[e] /\ host[e] \in Instances
        BY <1>2, <3>2, HostStays
      <4> QED
        BY <2>2, <3>2, <4>1
    <3> QED
      BY <1>2, <2>5, <3>1, <3>2, OpeningFrom DEF Opening
  <2>6. ASSUME state'.stage = "debounce"
        PROVE  entry'[host'[state'.cfg]] \in {None, state'.cfg}
    <3>1. CASE state' = state
      <4>1. ASSUME NEW f \in Events, pc[f] = "append" PROVE FALSE
        BY <2>6, <3>1, <4>1 DEF OwnInv, Opening
      <4>2. entry[host[state.cfg]] \in {None, state.cfg}
        BY <2>6, <3>1 DEF OwnInv
      <4>3. host'[state.cfg] = host[state.cfg] /\ host[state.cfg] \in Instances
        <5>1. Fresh(state.cfg)
          BY <2>6, <3>1 DEF LaunchLedger
        <5> QED
          BY <1>2, <5>1, HostStays DEF Fresh, Past
      <4> QED
        BY <1>2, <3>1, <4>1, <4>2, <4>3, EntryFrom
    <3>2. ASSUME NEW e \in Events, pc[e] = "persist", state'.cfg = e
          PROVE  entry'[host'[state'.cfg]] \in {None, state'.cfg}
      <4>1. pc[e] \in Opening /\ pc[e] \in Stored
        BY <3>2 DEF Opening, Stored
      <4>2. entry[host[e]] \in {None, e}
        BY <4>1 DEF OwnInv
      <4> QED
        BY <2>4, <3>2, <4>1, <4>2
    <3> QED
      BY <1>2, <2>6, <3>1, <3>2, DebounceFrom
  <2>7. ASSUME NEW i \in Instances, pc'[i] \in Advancing, host'[snap'[i].window] = i
        PROVE  entry'[i] \in {None, snap'[i].window}
    <3>1. CASE pc[i] \in Advancing /\ snap'[i].window = snap[i].window
      <4>1. Fresh(snap[i].window)
        BY <3>1 DEF LaunchLedger
      <4>2. entry[i] \in {None, snap[i].window}
        BY <1>2, <2>7, <3>1, <4>1, HostStays DEF OwnInv, Fresh, Past
      <4>3. ASSUME NEW f \in Events, pc[f] = "append" PROVE FALSE
        <5>1. Holding(i) /\ pc[f] \in Opening
          BY <3>1, <4>3 DEF Holding, Advancing, CriticalPcs, SharedPcs, Opening
        <5> QED
          BY <2>1, <2>2, <4>3, <5>1 DEF Advancing
      <4>4. pc[i] # "scan"
        BY <3>1 DEF Advancing
      <4> QED
        BY <1>2, <3>1, <4>2, <4>3, <4>4, EntryFrom
    <3>2. CASE state.stage = "debounce" /\ snap'[i].window = state.cfg
      <4>1. entry[i] \in {None, state.cfg}
        <5>1. Fresh(state.cfg)
          BY <3>2 DEF LaunchLedger
        <5> QED
          BY <1>2, <2>7, <3>2, <5>1, HostStays DEF OwnInv, Fresh, Past
      <4>2. ASSUME NEW f \in Events, pc[f] = "append" PROVE FALSE
        BY <3>2, <4>2 DEF OwnInv, Opening
      <4> QED
        BY <1>2, <3>2, <4>1, <4>2, EntryFrom
    <3> QED
      BY <1>2, <2>7, <3>1, <3>2, AdvancingFrom
  <2>8. ASSUME NEW t \in Turns, turn[t].window # None
        PROVE  host'[turn[t].window] = host[turn[t].window]
    <3>1. turn[t].window \in Events /\ pc[turn[t].window] # "new"
      BY <2>2, <2>8 DEF LaunchLedger, Past, TurnRecords
    <3> QED
      BY <1>2, <3>1, HostStays
  <2>9. ConfigMatchesWindow'
    <3>1. CASE \A a \in Actors : ~EnterAI(a)
      BY <1>2, <2>8, <3>1, WindowsKept DEF SameLaunch, OwnInv, ConfigMatchesWindow
    <3>2. ASSUME NEW a \in Actors, EnterAI(a) PROVE ConfigMatchesWindow'
      <4> DEFINE w == IF a \in Instances THEN snap[a].window ELSE a
      <4>1. /\ pc[a] = "setai" /\ Host(a) \in Instances /\ w \in Events
            /\ host'[w] = host[w]
        <5>1. pc[a] = "setai" /\ Host(a) \in Instances
          BY <3>2 DEF EnterAI, Host, TypeInv, Hosted, Actors
        <5>2. w \in Events /\ pc[w] # "new"
          BY <5>1 DEF LaunchLedger, Fresh, Advancing, Past, Actors
        <5> QED
          BY <1>2, <5>1, <5>2, HostStays
      <4>2. host[w] = Host(a) => entry[Host(a)] \in {None, w}
        BY <4>1 DEF OwnInv, Advancing, Stored, Host, Actors
      <4>3. turn' = turn \/ \E n : /\ turn' = [turn EXCEPT ![n] = turn'[n]]
                                   /\ turn'[n].window = w
                                   /\ turn'[n].host = host[w] => turn'[n].ctx = w
        <5>1. CASE UNCHANGED turns
          BY <5>1 DEF turns
        <5>2. CASE Launch(a) /\ entry[Host(a)] # None
          <6>1. launches + 1 \in Turns
            BY <5>2, PipelineAssumption DEF Launch, Turns, TypeInv, TypeOK
          <6> QED
            BY <2>2, <4>2, <5>2, <6>1 DEF Launch
        <5>3. CASE Launch(a) /\ entry[Host(a)] = None
          BY <5>3 DEF Launch
        <5> QED
          BY <3>2, <5>1, <5>2, <5>3 DEF EnterAI
      <4> HIDE DEF w
      <4>4. CASE turn' = turn
        BY <2>8, <4>4 DEF OwnInv, ConfigMatchesWindow
      <4>5. CASE turn' # turn
        <5>1. PICK n : /\ turn' = [turn EXCEPT ![n] = turn'[n]]
                       /\ turn'[n].window = w
                       /\ turn'[n].host = host[w] => turn'[n].ctx = w
          BY <4>3, <4>5
        <5>2. ASSUME NEW t \in Turns, t # n PROVE turn'[t] = turn[t]
          BY <2>2, <5>1, <5>2
        <5>3. ConfigMatchesWindow
          BY DEF OwnInv
        <5>4. ASSUME NEW t \in Turns, turn'[t].window # None,
                     turn'[t].host = host'[turn'[t].window]
              PROVE  turn'[t].ctx = turn'[t].window
          <6>1. CASE t = n
            BY <4>1, <5>1, <5>4, <6>1
          <6>2. CASE t # n
            BY <2>8, <5>2, <5>3, <5>4, <6>2 DEF ConfigMatchesWindow
          <6> QED
            BY <6>1, <6>2
        <5> QED
          BY <5>4 DEF ConfigMatchesWindow
      <4> QED
        BY <4>4, <4>5
    <3> QED
      BY <3>1, <3>2
  <2> QED
    BY <2>3, <2>5, <2>6, <2>7, <2>9 DEF OwnInv
<1> QED
  BY <1>1, <1>2

\* A turn that is launched by the replica that took its window's event in runs on the
\* context, the BotConfig and the postback URL of that event, for any number of replicas,
\* events, crashes, restarts that rebuild the entry from Redis, failed commands and older
\* turns that delete the entry meanwhile.
THEOREM ConfigOfTheWindow == Spec => []ConfigMatchesWindow
<1>1. OwnInv => ConfigMatchesWindow
  BY DEF OwnInv
<1>2. TypeInv /\ LockExclusion /\ LaunchLedger /\ OwnInv /\ [Next]_vars => OwnInv'
  BY NextOwn
<1> QED
  BY <1>1, <1>2, InitOwn, AlwaysTypeInv, AlwaysLedger, MutualExclusion, PTL DEF Spec

=============================================================================
