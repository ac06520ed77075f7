---------------------------- MODULE PoliteProofs ----------------------------
(***************************************************************************)
(* With a customer who waits, and no fault or crash, a turn answers the    *)
(* message that opened its window and nothing else, for any number of      *)
(* messages and replicas.                                                  *)
(***************************************************************************)
EXTENDS PoliteCustomer, PipelineProofs

-----------------------------------------------------------------------------
(* The inductive invariant: the pair is in the hands of one event, of one  *)
(* window or of one turn, and what waits in Redis is its message.          *)

Live(t) == turn[t].pc \in LivePcs

\* Where a Process goroutine is at work on its event; with Stored, once its message
\* is in the buffer.
Early    == {"accepted", "locked", "replace", "append"}
Handling == Early \cup Stored

\* One event is handled, and nothing else goes on.
HandledAlone(e) ==
    /\ \A f \in Events : f # e => pc[f] \in RestingPcs
    /\ \A i \in Instances : pc[i] = "poll"
    /\ \A t \in Turns : ~Live(t)
    /\ state.stage # "debounce"

\* What it has read and written so far.
HandledRight(e) ==
    /\ pc[e] \in {"accepted", "locked"} => state.stage = "incoming"
    /\ pc[e] \in Early => buffer = {} /\ media = {}
    /\ pc[e] \in Stored => buffer = {e} /\ media \subseteq {e} /\ entry[host[e]] = e
    /\ pc[e] \in {"getatt", "setai"} => snap[e].text = {e}
    /\ pc[e] = "setai" => snap[e].media \subseteq {e}

\* One window is open, with its message in the buffer, and whoever is about to
\* advance it will find an entry for its turn.
WindowAlone ==
    /\ \A t \in Turns : ~Live(t)
    /\ buffer = {state.cfg} /\ media \subseteq {state.cfg}
    /\ \A i \in Instances : pc[i] \notin {"poll", "return"} => entry[i] # None

\* A poller on its way to a launch has read the open window.
AdvancesRight(i) ==
    /\ state.stage = "debounce"
    /\ snap[i].window = state.cfg
    /\ pc[i] \in {"getatt", "setai"} => snap[i].text = {state.cfg}
    /\ pc[i] = "setai" => snap[i].media \subseteq {state.cfg}

\* One turn runs, and it clears the keys before it ends.
TurnAlone(t) ==
    /\ \A u \in Turns : u # t => ~Live(u)
    /\ state.stage # "debounce"
    /\ ~Interrupted(t)
    /\ turn[t].pc \in {"notify", "forget"} => buffer = {} /\ media = {}

\* Nothing waits where nothing goes on.
Idle ==
    /\ \A e \in Events : pc[e] \notin Handling
    /\ \A t \in Turns : ~Live(t)
    /\ state.stage # "debounce"

PoliteInv ==
    /\ \A i \in Instances : mode[i] = "up" /\ pc[i] \notin {"off", "scan", "startTimer"}
    /\ \A e \in Events : pc[e] = "new" => host[e] = None
    /\ \A e \in Events : pc[e] \in RestingPcs \cup Handling \cup {"return"}
    /\ \A e \in Events : pc[e] \in Handling => HandledAlone(e) /\ HandledRight(e)
    /\ state.stage = "debounce" => WindowAlone
    /\ \A i \in Instances : pc[i] \in Advancing => AdvancesRight(i)
    /\ \A t \in Turns : Live(t) => TurnAlone(t)
    /\ Idle => buffer = {} /\ media = {}
    /\ TurnIsItsMessage

\* Everything rests initially.
LEMMA InitPolite == Init => PoliteInv
<1> USE StoreAssumption
<1> SUFFICES ASSUME Init PROVE PoliteInv
  OBVIOUS
<1>1. /\ \A i \in Instances : mode[i] = "up" /\ pc[i] = "poll"
      /\ \A e \in Events : pc[e] = "new" /\ host[e] = None
  BY DEF Init, Actors
<1>2. state.stage = "none" /\ buffer = {} /\ media = {}
  BY DEF Init, StoreInit, NoState
<1>3. \A t \in Turns : turn[t].pc = "unused"
  BY DEF Init, Unused
<1> QED
  BY <1>1, <1>2, <1>3
  DEF PoliteInv, Handling, Early, Stored, RestingPcs, Advancing, Live, LivePcs, TurnIsItsMessage

-----------------------------------------------------------------------------
(* Process. *)

\* Without faults every Redis command is answered.
LEMMA EveryCommandAnswered ==
  ASSUME TypeInv, MaxFaults = 0
  PROVE  ~Unanswered
BY DEF TypeInv, TypeOK, Unanswered

\* What the steps of one actor leave alone.
LEMMA OneMoves ==
  ASSUME TypeInv, NEW a \in Actors, NEW l, Goto(a, l)
  PROVE  pc'[a] = l /\ \A b \in Actors : b # a => pc'[b] = pc[b]
BY DEF TypeInv, TypeOK, Goto

\* An event that is handled goes on being handled.
LEMMA HandlingGoesOn ==
  ASSUME TypeInv, PoliteInv, NEW e \in Events, pc[e] \in Handling, NEW l \in Handling,
         Goto(e, l), UNCHANGED <<mode, host, turn>>, state' = state, HandledRight(e)'
  PROVE  PoliteInv'
<1>1. e \in Actors /\ Events \subseteq Actors /\ Instances \subseteq Actors
  BY DEF Actors
<1>2. pc'[e] = l /\ \A b \in Actors : b # e => pc'[b] = pc[b]
  BY <1>1, OneMoves
<1>3. HandledAlone(e)
  BY DEF PoliteInv
<1>4. e \notin Instances /\ l # "new" /\ \A f \in Events : f # e => pc[f] \notin Handling
  BY <1>3, StoreAssumption DEF HandledAlone, RestingPcs, Handling, Early, Stored
<1>5. /\ \A t \in Turns : ~Live(t)'
      /\ state'.stage # "debounce"
      /\ \A i \in Instances : pc'[i] = "poll"
      /\ \A f \in Events : f # e => pc'[f] = pc[f] /\ pc'[f] \in RestingPcs
  BY <1>1, <1>2, <1>3, <1>4 DEF HandledAlone, Live
<1>6. \A i \in Instances : mode'[i] = "up" /\ pc'[i] \notin {"off", "scan", "startTimer"}
  BY <1>5 DEF PoliteInv
<1>7. \A f \in Events : pc'[f] = "new" => host'[f] = None
  BY <1>2, <1>4, <1>5 DEF PoliteInv
<1>8. \A f \in Events : pc'[f] \in RestingPcs \cup Handling \cup {"return"}
  BY <1>2, <1>5
<1>9. \A f \in Events : pc'[f] \in Handling => HandledAlone(f)' /\ HandledRight(f)'
  <2>1. HandledAlone(e)'
    BY <1>5 DEF HandledAlone
  <2>2. \A f \in Events : f # e => pc'[f] \notin Handling
    BY <1>4, <1>5
  <2> QED
    BY <2>1, <2>2
<1>10. \A i \in Instances : pc'[i] \notin Advancing
  BY <1>5 DEF Advancing
<1>11. ~Idle'
  BY <1>2 DEF Idle
<1>12. TurnIsItsMessage'
  BY DEF PoliteInv, TurnIsItsMessage
<1> QED
  BY <1>5, <1>6, <1>7, <1>8, <1>9, <1>10, <1>11, <1>12 DEF PoliteInv

\* Process up to the window or the launch.
LEMMA HandlingSteps ==
  ASSUME TypeInv, PoliteInv, MaxFaults = 0, NEW e \in Events,
         \/ ReadStage(e) \/ Supersede(e) \/ ClearInterrupted(e) \/ StoreAndAppend(e)
         \/ Attach(e) \/ StartTimer(e) \/ ExtendWindow(e) \/ ReadBuffer(e) \/ ReadMedia(e)
  PROVE  PoliteInv'
<1> USE StoreAssumption, EveryCommandAnswered DEF Fault
<1>1. pc[e] \in RestingPcs \cup Handling \cup {"return"}
  BY DEF PoliteInv
<1>2. pc[e] \in Handling
  BY <1>1
  DEF RestingPcs, Handling, Early, Stored, ReadStage, Supersede, ClearInterrupted,
      StoreAndAppend, Attach, StartTimer, ExtendWindow, ReadBuffer, ReadMedia
<1>3. HandledAlone(e) /\ HandledRight(e)
  BY <1>2 DEF PoliteInv
<1>4. /\ e \in Actors /\ e \notin Instances
      /\ entry \in [Instances -> Events \cup {None}]
      /\ snap \in [Actors -> Snapshots]
      /\ host[e] \in Instances
  <2>1. pc[e] # "new"
    BY <1>2 DEF Handling, Early, Stored
  <2> QED
    BY <2>1 DEF Actors, TypeInv, TypeOK, Hosted
<1>5. ASSUME NEW l, Goto(e, l) PROVE pc'[e] = l
  BY <1>4, <1>5, OneMoves
<1>6. ASSUME NEW l \in Handling, Goto(e, l), UNCHANGED <<mode, host, turn>>, state' = state,
             HandledRight(e)'
      PROVE  PoliteInv'
  BY <1>2, <1>6, HandlingGoesOn
<1>7. CASE ReadStage(e)
  <2>1. pc[e] = "locked" /\ state.stage = "incoming"
    BY <1>3, <1>7 DEF ReadStage, HandledRight
  <2>2. Goto(e, "replace") /\ UNCHANGED <<keys, mode, host, turn>>
    BY <1>7, <2>1 DEF ReadStage, locals, turns
  <2>3. HandledRight(e)'
    BY <1>3, <1>5, <2>1, <2>2 DEF HandledRight, Early, Stored, keys
  <2> QED
    BY <1>6, <2>2, <2>3 DEF Handling, Early, keys
<1>8. CASE Supersede(e)
  <2>1. pc[e] = "replace" /\ Goto(e, "append") /\ UNCHANGED <<keys, mode, host, turn>>
    BY <1>2, <1>8 DEF Supersede, Handling, Early, Stored, turns
  <2>2. HandledRight(e)'
    BY <1>3, <1>5, <2>1 DEF HandledRight, Early, Stored, keys
  <2> QED
    BY <1>6, <2>1, <2>2 DEF Handling, Early, keys
<1>9. CASE ClearInterrupted(e) \/ ExtendWindow(e)
  BY <1>2, <1>9 DEF ClearInterrupted, ExtendWindow, Handling, Early, Stored
<1>10. CASE StoreAndAppend(e)
  <2>1. /\ pc[e] = "append" /\ AppendToBuffer(e) /\ Goto(e, AfterAppend(e))
        /\ entry' = [entry EXCEPT ![host[e]] = e]
        /\ UNCHANGED <<mode, host, turn>>
    BY <1>10 DEF StoreAndAppend, turns
  <2>2. AfterAppend(e) \in {"attach", "timer", "getbuf"}
    BY DEF AfterAppend, AfterAttach
  <2>3. buffer' = {e} /\ media' = {} /\ state' = state /\ entry'[host'[e]] = e
    BY <1>3, <1>4, <2>1 DEF AppendToBuffer, HandledRight, Early
  <2>4. HandledRight(e)'
    BY <1>5, <2>1, <2>2, <2>3 DEF HandledRight, Early, Stored
  <2> QED
    BY <1>6, <2>1, <2>2, <2>3, <2>4 DEF Handling, Stored
<1>11. CASE Attach(e)
  <2>1. /\ pc[e] = "attach" /\ AppendAttachments(e) /\ Goto(e, AfterAttach(e))
        /\ UNCHANGED <<mode, host, turn, entry>>
    BY <1>11 DEF Attach, turns, locals
  <2>2. AfterAttach(e) \in {"timer", "getbuf"}
    BY DEF AfterAttach
  <2>3. /\ buffer' = {e} /\ media' \subseteq {e} /\ state' = state /\ entry'[host'[e]] = e
    BY <1>3, <2>1 DEF AppendAttachments, HandledRight, Stored
  <2>4. HandledRight(e)'
    BY <1>5, <2>1, <2>2, <2>3 DEF HandledRight, Early, Stored
  <2> QED
    BY <1>6, <2>1, <2>2, <2>3, <2>4 DEF Handling, Stored
<1>12. CASE StartTimer(e)
  <2>1. /\ pc[e] = "timer" /\ SetTimer /\ Goto(e, "persist")
        /\ UNCHANGED <<mode, host, turn, entry>>
    BY <1>12 DEF StartTimer, turns, locals
  <2>2. /\ buffer' = {e} /\ media' \subseteq {e} /\ state' = state /\ entry'[host'[e]] = e
    BY <1>3, <2>1 DEF SetTimer, HandledRight, Stored
  <2>3. HandledRight(e)'
    BY <1>5, <2>1, <2>2 DEF HandledRight, Early, Stored
  <2> QED
    BY <1>6, <2>1, <2>2, <2>3 DEF Handling, Stored
<1>13. CASE ReadBuffer(e)
  <2>1. /\ pc[e] = "getbuf" /\ snap' = [snap EXCEPT ![e].text = buffer] /\ Goto(e, "getatt")
        /\ UNCHANGED <<keys, mode, host, turn, entry>>
    BY <1>13 DEF ReadBuffer, turns, locals
  <2>2. /\ buffer' = {e} /\ media' \subseteq {e} /\ state' = state /\ entry'[host'[e]] = e
    BY <1>3, <2>1 DEF keys, HandledRight, Stored
  <2>3. snap'[e].text = {e}
    BY <1>4, <2>1, <2>2 DEF keys, Snapshots
  <2>4. HandledRight(e)'
    BY <1>5, <2>1, <2>2, <2>3 DEF HandledRight, Early, Stored
  <2> QED
    BY <1>6, <2>1, <2>2, <2>4 DEF Handling, Stored
<1>14. CASE ReadMedia(e)
  <2>1. /\ pc[e] = "getatt" /\ snap' = [snap EXCEPT ![e].media = media] /\ Goto(e, "setai")
        /\ UNCHANGED <<keys, mode, host, turn, entry>>
    BY <1>14 DEF ReadMedia, turns, locals
  <2>2. /\ buffer' = {e} /\ media' \subseteq {e} /\ state' = state /\ entry'[host'[e]] = e
    BY <1>3, <2>1 DEF keys, HandledRight, Stored
  <2>3. snap'[e].text = {e} /\ snap'[e].media \subseteq {e}
    BY <1>3, <1>4, <2>1, <2>2 DEF keys, Snapshots, HandledRight
  <2>4. HandledRight(e)'
    BY <1>5, <2>1, <2>2, <2>3 DEF HandledRight, Early, Stored
  <2> QED
    BY <1>6, <2>1, <2>2, <2>4 DEF Handling, Stored
<1> QED
  BY <1>7, <1>8, <1>9, <1>10, <1>11, <1>12, <1>13, <1>14

\* The lock, tried once.
LEMMA LockingPolite ==
  ASSUME TypeInv, PoliteInv, NEW e \in Events, LockForEvent(e)
  PROVE  PoliteInv'
<1> USE StoreAssumption
<1>1. /\ pc[e] = "accepted" /\ pc[e] \in Handling /\ pc[e] \in Early
      /\ UNCHANGED <<keys, mode, entry, host, snap, turn>>
  BY DEF LockForEvent, Handling, Early, locals, turns
<1>2. HandledAlone(e) /\ HandledRight(e)
  BY <1>1 DEF PoliteInv
<1>3. /\ e \in Actors /\ Events \subseteq Actors /\ Instances \subseteq Actors
      /\ e \notin Instances
  BY DEF Actors
<1>4. CASE Goto(e, "locked")
  <2>1. pc'[e] = "locked"
    BY <1>3, <1>4, OneMoves
  <2>2. HandledRight(e)'
    BY <1>1, <1>2, <2>1 DEF HandledRight, Early, Stored, keys
  <2> QED
    BY <1>1, <1>4, <2>2, HandlingGoesOn DEF Handling, Early, keys
<1>5. CASE Goto(e, "busy")
  <2>1. pc'[e] = "busy" /\ \A b \in Actors : b # e => pc'[b] = pc[b]
    BY <1>3, <1>5, OneMoves
  <2>2. /\ \A f \in Events : f # e => pc'[f] = pc[f] /\ pc'[f] \in RestingPcs
        /\ \A i \in Instances : pc'[i] = pc[i] /\ pc'[i] = "poll"
        /\ \A t \in Turns : ~Live(t)'
        /\ state'.stage # "debounce"
    BY <1>1, <1>2, <1>3, <2>1 DEF HandledAlone, Live, keys
  <2>3. \A f \in Events : pc'[f] \in RestingPcs /\ pc'[f] \notin Handling
    BY <2>1, <2>2 DEF RestingPcs, Handling, Early, Stored
  <2>4. buffer' = {} /\ media' = {}
    BY <1>1, <1>2 DEF HandledRight, keys
  <2>5. \A i \in Instances : mode'[i] = "up" /\ pc'[i] \notin {"off", "scan", "startTimer"}
    BY <1>1, <2>2 DEF PoliteInv
  <2>6. \A f \in Events : pc'[f] = "new" => host'[f] = None
    BY <1>1, <2>1, <2>2 DEF PoliteInv
  <2>7. \A i \in Instances : pc'[i] \notin Advancing
    BY <2>2 DEF Advancing
  <2>8. TurnIsItsMessage'
    BY <1>1 DEF PoliteInv, TurnIsItsMessage
  <2> QED
    BY <2>2, <2>3, <2>4, <2>5, <2>6, <2>7, <2>8 DEF PoliteInv
<1> QED
  BY <1>4, <1>5 DEF LockForEvent

\* The window is opened with nothing but its message.
LEMMA OpeningPolite ==
  ASSUME TypeInv, PoliteInv, MaxFaults = 0, NEW e \in Events, OpenWindow(e)
  PROVE  PoliteInv'
<1> USE StoreAssumption
<1>1. /\ pc[e] = "persist" /\ pc[e] \in Handling /\ pc[e] \in Stored
      /\ SetState("debounce", e) /\ Goto(e, "return")
      /\ UNCHANGED <<mode, entry, host, snap, turn>>
  BY EveryCommandAnswered DEF OpenWindow, Handling, Stored, locals, turns, Fault
<1>2. HandledAlone(e) /\ HandledRight(e)
  BY <1>1 DEF PoliteInv
<1>3. /\ e \in Actors /\ Events \subseteq Actors /\ Instances \subseteq Actors
      /\ e \notin Instances
  BY DEF Actors
<1>4. pc'[e] = "return" /\ \A b \in Actors : b # e => pc'[b] = pc[b]
  BY <1>1, <1>3, OneMoves
<1>5. /\ \A f \in Events : f # e => pc'[f] = pc[f] /\ pc'[f] \in RestingPcs
      /\ \A i \in Instances : pc'[i] = "poll"
      /\ \A t \in Turns : ~Live(t)'
  BY <1>1, <1>2, <1>3, <1>4 DEF HandledAlone, Live
<1>6. state'.stage = "debounce" /\ state'.cfg = e /\ buffer' = {e} /\ media' \subseteq {e}
  BY <1>1, <1>2 DEF SetState, HandledRight
<1>7. WindowAlone'
  BY <1>5, <1>6 DEF WindowAlone
<1>8. \A f \in Events : pc'[f] \in RestingPcs \cup {"return"} /\ pc'[f] \notin Handling
  BY <1>4, <1>5 DEF RestingPcs, Handling, Early, Stored
<1>9. \A i \in Instances : mode'[i] = "up" /\ pc'[i] \notin {"off", "scan", "startTimer"}
  BY <1>1, <1>5 DEF PoliteInv
<1>10. \A f \in Events : pc'[f] = "new" => host'[f] = None
  BY <1>1, <1>4, <1>5 DEF PoliteInv
<1>11. \A i \in Instances : pc'[i] \notin Advancing
  BY <1>5 DEF Advancing
<1>12. ~Idle'
  BY <1>6 DEF Idle
<1>13. TurnIsItsMessage'
  BY <1>1 DEF PoliteInv, TurnIsItsMessage
<1> QED
  BY <1>5, <1>7, <1>8, <1>9, <1>10, <1>11, <1>12, <1>13 DEF PoliteInv

-----------------------------------------------------------------------------
(* The launch. *)

\* A launch on an entry that is live, with the message of one window, while no turn
\* runs, makes a turn of that message.
LEMMA LaunchPolite ==
  ASSUME TypeInv, EntriesAreLive, MaxFaults = 0, PoliteInv, NEW a \in Actors, EnterAI(a),
         NEW w \in Events, w = (IF a \in Instances THEN snap[a].window ELSE a),
         snap[a].text = {w}, snap[a].media \subseteq {w}, entry[Host(a)] # None,
         \A t \in Turns : ~Live(t),
         \A e \in Events : e # a => pc[e] \notin Handling,
         \A i \in Instances : i # a => pc[i] \notin Advancing
  PROVE  PoliteInv'
<1> USE StoreAssumption
<1>1. /\ pc[a] = "setai" /\ SetState("ai", None) /\ Launch(a) /\ Goto(a, "return")
      /\ UNCHANGED <<mode, entry, cancelled, host>>
  BY EveryCommandAnswered DEF EnterAI, Fault, locals
<1>2. Events \subseteq Actors /\ Instances \subseteq Actors
  BY DEF Actors
<1>3. pc'[a] = "return" /\ \A b \in Actors : b # a => pc'[b] = pc[b]
  BY <1>1, OneMoves
<1>4. Host(a) \in Instances
  BY <1>1 DEF Host, TypeInv, Hosted, Actors
<1>5. entry[Host(a)] \notin cancelled[Host(a)]
  BY <1>4 DEF EntriesAreLive, PoliteInv
<1>6. PICK u \in Turns : u = launches + 1
  BY <1>1, PipelineAssumption DEF Launch, Turns, TypeInv, TypeOK
<1>7. turn \in [Turns -> TurnRecords]
  BY DEF TypeInv, TypeOK
<1>8. turn' = [turn EXCEPT ![u] =
                  [pc |-> "start", host |-> Host(a), ctx |-> entry[Host(a)], url |-> None,
                   window |-> w, text |-> snap[a].text, media |-> snap[a].media,
                   left |-> 0, sent |-> 0, noticed |-> FALSE]]
  BY <1>1, <1>6 DEF Launch
<1>9. /\ turn'[u].pc = "start" /\ turn'[u].host = Host(a) /\ turn'[u].ctx = entry[Host(a)]
      /\ turn'[u].window = w /\ turn'[u].text = {w} /\ turn'[u].media \subseteq {w}
      /\ \A t \in Turns : t # u => turn'[t] = turn[t]
  BY <1>6, <1>7, <1>8
<1>10. state'.stage = "ai"
  BY <1>1 DEF SetState
<1>11. Live(u)' /\ \A t \in Turns : t # u => ~Live(t)'
  BY <1>6, <1>9 DEF Live, LivePcs
<1>12. TurnAlone(u)'
  <2>1. ~Interrupted(u)'
    BY <1>1, <1>5, <1>9 DEF Interrupted
  <2> QED
    BY <1>9, <1>10, <1>11, <2>1 DEF TurnAlone
<1>13. \A t \in Turns : Live(t)' => TurnAlone(t)'
  BY <1>11, <1>12
<1>14. \A e \in Events : /\ pc'[e] \in RestingPcs \cup Handling \cup {"return"}
                         /\ pc'[e] \notin Handling
                         /\ pc'[e] = "new" => host'[e] = None
  BY <1>1, <1>2, <1>3 DEF PoliteInv, Handling, Early, Stored
<1>15. \A i \in Instances : /\ mode'[i] = "up" /\ pc'[i] \notin {"off", "scan", "startTimer"}
                            /\ pc'[i] \notin Advancing
  BY <1>1, <1>2, <1>3 DEF PoliteInv, Advancing
<1>16. TurnIsItsMessage'
  <2> SUFFICES ASSUME NEW t \in Turns, turn'[t].pc # "unused"
               PROVE  /\ turn'[t].text = {turn'[t].window}
                      /\ turn'[t].media \subseteq turn'[t].text
    BY DEF TurnIsItsMessage
  <2>1. CASE t = u
    BY <1>9, <2>1
  <2>2. CASE t # u
    BY <1>9, <2>2 DEF PoliteInv, TurnIsItsMessage
  <2> QED
    BY <2>1, <2>2
<1>17. ~Idle'
  BY <1>6, <1>11 DEF Idle
<1> QED
  BY <1>10, <1>13, <1>14, <1>15, <1>16, <1>17 DEF PoliteInv

\* skipDebounce launches the message of its event.
LEMMA SkippingPolite ==
  ASSUME TypeInv, EntriesAreLive, MaxFaults = 0, PoliteInv, NEW e \in Events, EnterAI(e)
  PROVE  PoliteInv'
<1> USE StoreAssumption
<1>1. pc[e] = "setai" /\ pc[e] \in Handling /\ pc[e] \in Stored
  BY DEF EnterAI, Handling, Stored
<1>2. HandledAlone(e) /\ HandledRight(e)
  BY <1>1 DEF PoliteInv
<1>3. e \in Actors /\ e \notin Instances /\ Host(e) = host[e]
  BY DEF Actors, Host
<1>4. entry[Host(e)] # None
  BY <1>1, <1>2, <1>3 DEF HandledRight
<1>5. snap[e].text = {e} /\ snap[e].media \subseteq {e}
  BY <1>1, <1>2 DEF HandledRight
<1>6. /\ \A t \in Turns : ~Live(t)
      /\ \A f \in Events : f # e => pc[f] \notin Handling
      /\ \A i \in Instances : pc[i] \notin Advancing
  BY <1>2 DEF HandledAlone, RestingPcs, Handling, Early, Stored, Advancing
<1> QED
  BY <1>3, <1>4, <1>5, <1>6, LaunchPolite

\* advanceToAI launches the message of the open window.
LEMMA AdvancingPolite ==
  ASSUME TypeInv, LockExclusion, EntriesAreLive, MaxFaults = 0, PoliteInv,
         NEW i \in Instances, EnterAI(i)
  PROVE  PoliteInv'
<1> USE StoreAssumption
<1>1. pc[i] = "setai" /\ pc[i] \in Advancing /\ pc[i] \notin {"poll", "return"}
  BY DEF EnterAI, Advancing
<1>2. AdvancesRight(i) /\ WindowAlone
  BY <1>1 DEF PoliteInv, AdvancesRight
<1>3. i \in Actors /\ Host(i) = i /\ Instances \subseteq Actors
  BY DEF Actors, Host
<1>4. entry[i] # None
  BY <1>1, <1>2 DEF WindowAlone
<1>5. PICK w : w = state.cfg
  OBVIOUS
<1>6. w \in Events
  BY <1>2, <1>5 DEF WindowAlone, TypeInv, TypeOK, StoreTypeOK
<1>7. snap[i].window = w /\ snap[i].text = {w} /\ snap[i].media \subseteq {w}
  BY <1>1, <1>2, <1>5 DEF AdvancesRight
<1>8. \A t \in Turns : ~Live(t)
  BY <1>2 DEF WindowAlone
<1>9. \A e \in Events : pc[e] \notin Handling
  BY <1>1 DEF PoliteInv, HandledAlone
<1>10. \A j \in Instances : j # i => pc[j] \notin Advancing
  BY <1>1, <1>3 DEF LockExclusion, Holding, CriticalPcs, SharedPcs, Advancing
<1> QED
  BY <1>3, <1>4, <1>6, <1>7, <1>8, <1>9, <1>10, LaunchPolite

-----------------------------------------------------------------------------
(* The poller and advanceToAI, and who returns. *)

\* Nobody is handled while a poller is at work.
LEMMA PollerAtWork ==
  ASSUME PoliteInv, NEW i \in Instances, pc[i] # "poll" \/ state.stage = "debounce"
  PROVE  \A e \in Events : pc[e] \notin Handling
BY DEF PoliteInv, HandledAlone

\* A step that leaves the keys and the turns alone, while nobody is handled.
LEMMA QuietStepPolite ==
  ASSUME TypeInv, PoliteInv, NEW a \in Actors, NEW l, Goto(a, l),
         UNCHANGED <<keys, mode, entry, cancelled, host, turn>>,
         \A b \in Actors : b # a => snap'[b] = snap[b],
         \A e \in Events : pc[e] \notin Handling,
         a \in Events => l \in RestingPcs /\ l # "new",
         a \in Instances =>
            /\ l \notin {"off", "scan", "startTimer"}
            /\ l \in Advancing => AdvancesRight(a)'
            /\ state.stage = "debounce" /\ l \notin {"poll", "return"} => entry[a] # None
  PROVE  PoliteInv'
<1> USE StoreAssumption
<1>1. Events \subseteq Actors /\ Instances \subseteq Actors
  BY DEF Actors
<1>2. pc'[a] = l /\ \A b \in Actors : b # a => pc'[b] = pc[b]
  BY OneMoves
<1>3. state' = state /\ buffer' = buffer /\ media' = media
  BY DEF keys
<1>4. \A e \in Events : /\ pc'[e] \in RestingPcs \cup {"return"}
                        /\ pc'[e] = "new" => host'[e] = None
  BY <1>1, <1>2 DEF PoliteInv
<1>5. \A e \in Events : pc'[e] \notin Handling
  BY <1>4 DEF RestingPcs, Handling, Early, Stored
<1>6. \A i \in Instances : mode'[i] = "up" /\ pc'[i] \notin {"off", "scan", "startTimer"}
  BY <1>1, <1>2 DEF PoliteInv
<1>7. \A t \in Turns : Live(t)' = Live(t)
  BY DEF Live
<1>8. state'.stage = "debounce" => WindowAlone'
  <2> SUFFICES ASSUME state.stage = "debounce" PROVE WindowAlone'
    BY <1>3
  <2>1. WindowAlone
    BY DEF PoliteInv
  <2>2. \A i \in Instances : pc'[i] \notin {"poll", "return"} => entry'[i] # None
    BY <1>1, <1>2, <2>1 DEF WindowAlone
  <2> QED
    BY <1>3, <1>7, <2>1, <2>2 DEF WindowAlone
<1>9. ASSUME NEW i \in Instances, pc'[i] \in Advancing PROVE AdvancesRight(i)'
  <2>1. CASE i = a
    BY <1>2, <1>9, <2>1
  <2>2. CASE i # a
    <3>1. pc'[i] = pc[i] /\ snap'[i] = snap[i]
      BY <1>1, <1>2, <2>2
    <3>2. AdvancesRight(i)
      BY <1>9, <3>1 DEF PoliteInv
    <3> QED
      BY <1>3, <3>1, <3>2 DEF AdvancesRight
  <2> QED
    BY <2>1, <2>2
<1>10. \A t \in Turns : Live(t)' => TurnAlone(t)'
  BY <1>3, <1>7 DEF PoliteInv, TurnAlone, Interrupted
<1>11. Idle' => buffer' = {} /\ media' = {}
  BY <1>3, <1>7 DEF PoliteInv, Idle
<1>12. TurnIsItsMessage'
  BY DEF PoliteInv, TurnIsItsMessage
<1> QED
  BY <1>4, <1>5, <1>6, <1>8, <1>9, <1>10, <1>11, <1>12 DEF PoliteInv

\* The deferred Unlock and the return.
LEMMA ReturnPolite ==
  ASSUME TypeInv, PoliteInv, MaxFaults = 0, NEW a \in Actors, Unlock(a)
  PROVE  PoliteInv'
<1> USE StoreAssumption
<1>1. /\ pc[a] \in {"return", "fail"} /\ snap' = [snap EXCEPT ![a] = NoSnapshot]
      /\ UNCHANGED <<keys, entry, cancelled, host, turn>>
  BY DEF Unlock, turns
<1>2. \A b \in Actors : b # a => snap'[b] = snap[b]
  BY <1>1 DEF TypeInv, TypeOK
<1>3. CASE a \in Instances
  <2>1. mode[a] = "up" /\ mode \in [Instances -> Modes]
    BY <1>3 DEF PoliteInv, TypeInv, TypeOK, Modes
  <2>2. Goto(a, "poll") /\ mode' = mode
    BY <1>3, <2>1 DEF Unlock, Resume
  <2>3. \A e \in Events : pc[e] \notin Handling
    BY <1>1, <1>3, PollerAtWork
  <2> QED
    BY <1>1, <1>2, <1>3, <2>2, <2>3, QuietStepPolite DEF Advancing, Actors
<1>4. CASE a \in Events
  <2>1. a \notin Instances
    BY <1>4
  <2>2. pc[a] = "return"
    <3>1. pc[a] \in RestingPcs \cup Handling \cup {"return"}
      BY <1>4 DEF PoliteInv
    <3> QED
      BY <1>1, <3>1 DEF RestingPcs, Handling, Early, Stored
  <2>3. Goto(a, "returned") /\ mode' = mode
    BY <2>1, <2>2 DEF Unlock
  <2>4. \A e \in Events : pc[e] \notin Handling
    <3> SUFFICES ASSUME NEW e \in Events, pc[e] \in Handling PROVE FALSE
      OBVIOUS
    <3>1. HandledAlone(e)
      BY DEF PoliteInv
    <3>2. e # a
      BY <2>2 DEF Handling, Early, Stored
    <3> QED
      BY <1>4, <2>2, <3>1, <3>2 DEF HandledAlone, RestingPcs
  <2> QED
    BY <1>1, <1>2, <2>1, <2>3, <2>4, QuietStepPolite DEF RestingPcs
<1> QED
  BY <1>3, <1>4 DEF Actors

\* The poller's steps but for the launch.
LEMMA PollingPolite ==
  ASSUME TypeInv, PoliteInv, MaxFaults = 0, NEW i \in Instances,
         \/ Recover(i) \/ RecoverExpired(i) \/ Poll(i) \/ ProbeTimer(i)
         \/ LockForAdvance(i) \/ RecheckStage(i) \/ RecheckTimer(i)
         \/ ReadBuffer(i) \/ ReadMedia(i)
  PROVE  PoliteInv'
<1> USE StoreAssumption, EveryCommandAnswered
<1>1. /\ i \in Actors /\ i \notin Events /\ Instances \subseteq Actors
      /\ mode[i] = "up" /\ pc[i] \notin {"off", "scan", "startTimer"}
      /\ mode \in [Instances -> Modes] /\ snap \in [Actors -> Snapshots]
  BY DEF Actors, PoliteInv, TypeInv, TypeOK, Modes
<1>2. state.stage = "debounce" => WindowAlone
  BY DEF PoliteInv
<1>3. state.stage = "debounce" /\ pc[i] \notin {"poll", "return"} => entry[i] # None
  BY <1>2 DEF WindowAlone
<1>4. pc[i] \in Advancing => AdvancesRight(i)
  BY DEF PoliteInv
<1>5. ASSUME NEW l, Goto(i, l),
             UNCHANGED <<keys, mode, entry, cancelled, host, turn>>,
             \A b \in Actors : b # i => snap'[b] = snap[b],
             pc[i] # "poll" \/ state.stage = "debounce",
             l \notin {"off", "scan", "startTimer"},
             l \in Advancing => AdvancesRight(i)',
             state.stage = "debounce" /\ l \notin {"poll", "return"} => entry[i] # None
      PROVE  PoliteInv'
  <2>1. \A e \in Events : pc[e] \notin Handling
    BY <1>5, PollerAtWork
  <2> QED
    BY <1>1, <1>5, <2>1, QuietStepPolite
<1>6. CASE Recover(i) \/ RecoverExpired(i)
  BY <1>1, <1>6 DEF Recover, RecoverExpired
<1>7. CASE Poll(i)
  <2>1. /\ Goto(i, "probe") /\ UNCHANGED <<keys, mode, entry, cancelled, host, turn>>
        /\ state.stage = "debounce" /\ entry[i] # None
        /\ \A b \in Actors : b # i => snap'[b] = snap[b]
    BY <1>1, <1>7 DEF Poll, locals, turns
  <2> QED
    BY <1>5, <2>1 DEF Advancing
<1>8. CASE ProbeTimer(i)
  <2>1. PICK l \in {"advance", "poll"} : Goto(i, l)
    BY <1>8 DEF ProbeTimer
  <2>2. /\ pc[i] = "probe" /\ UNCHANGED <<keys, mode, entry, cancelled, host, turn>>
        /\ \A b \in Actors : b # i => snap'[b] = snap[b]
    BY <1>1, <1>8 DEF ProbeTimer, locals, turns
  <2> QED
    BY <1>3, <1>5, <2>1, <2>2 DEF Advancing
<1>9. CASE LockForAdvance(i)
  <2>1. /\ pc[i] = "advance" /\ UNCHANGED <<keys, mode, entry, cancelled, host, snap, turn>>
    BY <1>1, <1>9 DEF LockForAdvance, Resume, turns
  <2>2. PICK l \in {"recheck", "poll"} : Goto(i, l)
    BY <1>9 DEF LockForAdvance, Resume
  <2> QED
    BY <1>3, <1>5, <2>1, <2>2 DEF Advancing
<1>10. CASE RecheckStage(i)
  <2>1. /\ pc[i] = "recheck" /\ UNCHANGED <<keys, mode, entry, cancelled, host, turn>>
        /\ \A b \in Actors : b # i => snap'[b] = snap[b]
    BY <1>1, <1>10 DEF RecheckStage, locals, turns
  <2>2. CASE Goto(i, "return")
    BY <1>5, <2>1, <2>2 DEF Advancing
  <2>3. CASE /\ state.stage = "debounce" /\ Goto(i, "recheckTimer")
             /\ snap' = [snap EXCEPT ![i].window = state.cfg]
    <3>1. pc'[i] = "recheckTimer" /\ snap'[i].window = state.cfg
      BY <1>1, <2>3, OneMoves DEF Snapshots
    <3>2. AdvancesRight(i)'
      BY <2>1, <2>3, <3>1 DEF AdvancesRight, keys
    <3> QED
      BY <1>3, <1>5, <2>1, <2>3, <3>2
  <2> QED
    BY <1>10, <2>2, <2>3 DEF RecheckStage
<1>11. CASE RecheckTimer(i)
  <2>1. /\ pc[i] = "recheckTimer" /\ UNCHANGED <<keys, mode, entry, cancelled, host, snap, turn>>
    BY <1>11 DEF RecheckTimer, locals, turns
  <2>2. PICK l \in {"getbuf", "return"} : Goto(i, l)
    BY <1>11 DEF RecheckTimer
  <2>3. pc'[i] = l
    BY <1>1, <2>2, OneMoves
  <2>4. AdvancesRight(i)'
    BY <1>4, <2>1, <2>2, <2>3 DEF AdvancesRight, Advancing, keys
  <2> QED
    BY <1>3, <1>5, <2>1, <2>2, <2>4
<1>12. CASE ReadBuffer(i)
  <2>1. /\ pc[i] = "getbuf" /\ Goto(i, "getatt") /\ snap' = [snap EXCEPT ![i].text = buffer]
        /\ UNCHANGED <<keys, mode, entry, cancelled, host, turn>>
    BY <1>12 DEF ReadBuffer, locals, turns
  <2>2. AdvancesRight(i) /\ state.stage = "debounce" /\ WindowAlone
    BY <1>2, <1>4, <2>1 DEF AdvancesRight, Advancing
  <2>3. /\ pc'[i] = "getatt" /\ snap'[i].text = {state.cfg} /\ snap'[i].window = snap[i].window
        /\ \A b \in Actors : b # i => snap'[b] = snap[b]
    BY <1>1, <2>1, <2>2, OneMoves DEF Snapshots, WindowAlone
  <2>4. AdvancesRight(i)'
    BY <2>1, <2>2, <2>3 DEF AdvancesRight, keys
  <2> QED
    BY <1>3, <1>5, <2>1, <2>3, <2>4
<1>13. CASE ReadMedia(i)
  <2>1. /\ pc[i] = "getatt" /\ Goto(i, "setai") /\ snap' = [snap EXCEPT ![i].media = media]
        /\ UNCHANGED <<keys, mode, entry, cancelled, host, turn>>
    BY <1>13 DEF ReadMedia, locals, turns
  <2>2. AdvancesRight(i) /\ state.stage = "debounce" /\ WindowAlone
    BY <1>2, <1>4, <2>1 DEF AdvancesRight, Advancing
  <2>3. /\ pc'[i] = "setai" /\ snap'[i].text = snap[i].text /\ snap'[i].window = snap[i].window
        /\ snap'[i].media = media
        /\ \A b \in Actors : b # i => snap'[b] = snap[b]
    BY <1>1, <2>1, OneMoves DEF Snapshots
  <2>4. AdvancesRight(i)'
    BY <2>1, <2>2, <2>3 DEF AdvancesRight, WindowAlone, keys
  <2> QED
    BY <1>3, <1>5, <2>1, <2>3, <2>4
<1> QED
  BY <1>6, <1>7, <1>8, <1>9, <1>10, <1>11, <1>12, <1>13

-----------------------------------------------------------------------------
(* Turns. *)

\* A step of the turn that runs: it goes on, or it ends and has cleared the keys.
LEMMA TurnGoesOn ==
  ASSUME TypeInv, PoliteInv, NEW t \in Turns, Live(t), NEW r \in TurnRecords,
         turn' = [turn EXCEPT ![t] = r], r.pc # "unused",
         r.host = turn[t].host, r.ctx = turn[t].ctx, r.window = turn[t].window,
         r.text = turn[t].text, r.media = turn[t].media,
         UNCHANGED <<mode, cancelled, host, pc, snap>>, state'.stage # "debounce",
         r.pc \notin LivePcs \/ r.pc \in {"notify", "forget"} => buffer' = {} /\ media' = {}
  PROVE  PoliteInv'
<1>1. TurnAlone(t)
  BY DEF PoliteInv
<1>2. /\ turn \in [Turns -> TurnRecords]
      /\ turn'[t] = r /\ \A u \in Turns : u # t => turn'[u] = turn[u]
  BY DEF TypeInv, TypeOK
<1>3. \A u \in Turns : u # t => ~Live(u)'
  BY <1>1, <1>2 DEF TurnAlone, Live
<1>4. Live(t)' => r.pc \in LivePcs
  BY <1>2 DEF Live
<1>5. \A e \in Events : pc[e] \notin Handling
  BY DEF PoliteInv, HandledAlone
<1>6. \A i \in Instances : pc[i] \notin Advancing
  BY <1>1 DEF PoliteInv, AdvancesRight, TurnAlone
<1>7. ~Interrupted(t)'
  BY <1>1, <1>2 DEF TurnAlone, Interrupted
<1>8. Live(t)' => TurnAlone(t)'
  BY <1>2, <1>3, <1>4, <1>7 DEF TurnAlone
<1>9. \A u \in Turns : Live(u)' => TurnAlone(u)'
  BY <1>3, <1>8
<1>10. Idle' => buffer' = {} /\ media' = {}
  BY <1>2 DEF Idle, Live
<1>11. TurnIsItsMessage'
  <2>1. turn[t].pc # "unused"
    BY DEF Live, LivePcs
  <2> SUFFICES ASSUME NEW u \in Turns, turn'[u].pc # "unused"
               PROVE  /\ turn'[u].text = {turn'[u].window}
                      /\ turn'[u].media \subseteq turn'[u].text
    BY DEF TurnIsItsMessage
  <2>2. CASE u = t
    BY <1>2, <2>1, <2>2 DEF PoliteInv, TurnIsItsMessage
  <2>3. CASE u # t
    BY <1>2, <2>3 DEF PoliteInv, TurnIsItsMessage
  <2> QED
    BY <2>2, <2>3
<1> QED
  BY <1>5, <1>6, <1>9, <1>10, <1>11 DEF PoliteInv

\* A turn clears the keys before it ends, whichever way it ends.
LEMMA TurnStepPolite ==
  ASSUME TypeInv, PoliteInv, MaxFaults = 0, NEW t \in Turns, TurnStep(t)
  PROVE  PoliteInv'
<1> USE EveryCommandAnswered DEF Fault
<1>1. Live(t)
  BY DEF TurnStep, LoadRequest, CallAI, ClearFailed, Notify, SetDispatch, CheckContext, Post, Drop, SetDone,
         Tidy, Forget, Panic, Live, LivePcs
<1>2. TurnAlone(t)
  BY <1>1 DEF PoliteInv
<1>3. /\ turn \in [Turns -> TurnRecords] /\ turn[t] \in TurnRecords
      /\ state.stage # "debounce" /\ ~Interrupted(t)
  BY <1>2 DEF TypeInv, TypeOK, TurnAlone
<1>4. ASSUME NEW l \in TurnPcs, l # "unused", To(t, l),
             UNCHANGED <<mode, cancelled, host, pc, snap>>, state'.stage # "debounce",
             l \notin LivePcs \/ l \in {"notify", "forget"} => buffer' = {} /\ media' = {}
      PROVE  PoliteInv'
  <2> DEFINE r == [turn[t] EXCEPT !.pc = l]
  <2>1. /\ r \in TurnRecords /\ r.pc = l
        /\ r.host = turn[t].host /\ r.ctx = turn[t].ctx /\ r.window = turn[t].window
        /\ r.text = turn[t].text /\ r.media = turn[t].media
    BY <1>3 DEF TurnRecords
  <2>2. turn' = [turn EXCEPT ![t] = r]
    BY <1>3, <1>4 DEF To
  <2>3. PICK s \in TurnRecords : s = r
    BY <2>1
  <2> HIDE DEF r
  <2> QED
    BY <1>1, <1>4, <2>1, <2>2, <2>3, TurnGoesOn
<1>5. ASSUME NEW l \in LivePcs \ {"notify", "forget"}, NEW m \in 0..MaxParts, NEW n \in 0..MaxParts,
             turn' = [turn EXCEPT ![t].pc = l, ![t].sent = m, ![t].left = n],
             UNCHANGED <<mode, cancelled, host, pc, snap, state>>
      PROVE  PoliteInv'
  <2> DEFINE r == [turn[t] EXCEPT !.pc = l, !.sent = m, !.left = n]
  <2>1. /\ r \in TurnRecords /\ r.pc = l
        /\ r.host = turn[t].host /\ r.ctx = turn[t].ctx /\ r.window = turn[t].window
        /\ r.text = turn[t].text /\ r.media = turn[t].media
    BY <1>3, <1>5 DEF TurnRecords, TurnPcs
  <2>2. turn' = [turn EXCEPT ![t] = r]
    BY <1>3, <1>5
  <2>3. PICK s \in TurnRecords : s = r
    BY <2>1
  <2> HIDE DEF r
  <2>4. l # "unused" /\ l \in LivePcs /\ l \notin {"notify", "forget"}
    BY <1>5 DEF LivePcs
  <2> QED
    BY <1>1, <1>3, <1>5, <2>1, <2>2, <2>3, <2>4, TurnGoesOn
<1> USE DEF TurnPcs, LivePcs
<1>6. CASE CallAI(t)
  <2>1. UNCHANGED <<mode, cancelled, host, pc, snap, state>>
    BY <1>6 DEF CallAI, locals, keys
  <2>2. CASE To(t, "failclear")
    BY <1>3, <1>4, <2>1, <2>2
  <2>3. CASE \E n \in 0..MaxParts :
                turn' = [turn EXCEPT ![t].pc = "setdispatch", ![t].left = n]
    <3>1. PICK n \in 0..MaxParts :
                turn' = [turn EXCEPT ![t].pc = "setdispatch", ![t].left = n]
      BY <2>3
    <3>2. /\ turn' = [turn EXCEPT ![t].pc = "setdispatch", ![t].sent = turn[t].sent,
                                  ![t].left = n]
          /\ turn[t].sent \in 0..MaxParts
      BY <1>3, <3>1 DEF TurnRecords
    <3> QED
      BY <1>5, <2>1, <3>2
  <2> QED
    BY <1>3, <1>6, <2>2, <2>3 DEF CallAI
<1>7. CASE ClearFailed(t)
  <2>1. ClearState /\ UNCHANGED <<mode, cancelled, host, pc, snap>>
    BY <1>7 DEF ClearFailed, locals
  <2>2. state'.stage # "debounce" /\ buffer' = {} /\ media' = {}
    BY <2>1 DEF ClearState, NoState
  <2>3. To(t, "notify") \/ To(t, "ended")
    BY <1>7 DEF ClearFailed
  <2> QED
    BY <1>4, <2>1, <2>2, <2>3
<1>8. CASE Notify(t)
  <2>1. /\ turn[t].pc = "notify" /\ UNCHANGED <<mode, cancelled, host, pc, snap, keys>>
    BY <1>8 DEF Notify, locals
  <2>2. buffer' = {} /\ media' = {} /\ state'.stage # "debounce"
    BY <1>2, <1>3, <2>1 DEF TurnAlone, keys
  <2>3. PICK b \in BOOLEAN : turn' = [turn EXCEPT ![t].pc = "ended", ![t].noticed = b]
    BY <1>8 DEF Notify
  <2> DEFINE r == [turn[t] EXCEPT !.pc = "ended", !.noticed = b]
  <2>4. /\ r \in TurnRecords /\ r.pc = "ended"
        /\ r.host = turn[t].host /\ r.ctx = turn[t].ctx /\ r.window = turn[t].window
        /\ r.text = turn[t].text /\ r.media = turn[t].media
    BY <1>3, <2>3 DEF TurnRecords
  <2>5. turn' = [turn EXCEPT ![t] = r]
    BY <1>3, <2>3
  <2>6. PICK s \in TurnRecords : s = r
    BY <2>4
  <2> HIDE DEF r
  <2> QED
    BY <1>1, <2>1, <2>2, <2>4, <2>5, <2>6, TurnGoesOn
<1>9. CASE SetDispatch(t)
  <2>1. /\ SetState("dispatch", None) /\ To(t, "send")
        /\ UNCHANGED <<mode, cancelled, host, pc, snap>>
    BY <1>9 DEF SetDispatch, locals
  <2>2. state'.stage # "debounce"
    BY <2>1 DEF SetState
  <2> QED
    BY <1>4, <2>1, <2>2
<1>10. CASE CheckContext(t)
  <2>1. To(t, "setdone") \/ To(t, "post")
    BY <1>3, <1>10 DEF CheckContext
  <2>2. UNCHANGED <<mode, cancelled, host, pc, snap, state>>
    BY <1>10 DEF CheckContext, locals, keys
  <2> QED
    BY <1>3, <1>4, <2>1, <2>2
<1>11. CASE Post(t)
  <2>1. PICK l \in {"send", "drop"}, p \in {0, 1} :
           turn' = [turn EXCEPT ![t].pc = l, ![t].sent = @ + p, ![t].left = @ - 1]
    BY <1>11 DEF Post
  <2>2. UNCHANGED <<mode, cancelled, host, pc, snap, state>>
    BY <1>11 DEF Post, locals, keys
  <2>3. turn[t].sent + p \in 0..MaxParts /\ turn[t].left - 1 \in 0..MaxParts
    <3>1. /\ turn[t].pc = "post" /\ turn[t].left > 0 /\ turn[t].sent + turn[t].left <= MaxParts
      BY <1>11 DEF Post, TypeInv, TurnsSound
    <3>2. turn[t].sent \in 0..MaxParts /\ turn[t].left \in 0..MaxParts /\ MaxParts \in Nat
      BY <1>3, PipelineAssumption DEF TurnRecords
    <3> QED
      BY <2>1, <3>1, <3>2
  <2>4. PICK m \in 0..MaxParts, n \in 0..MaxParts : m = turn[t].sent + p /\ n = turn[t].left - 1
    BY <2>3
  <2>5. turn' = [turn EXCEPT ![t].pc = l, ![t].sent = m, ![t].left = n]
    BY <1>3, <2>1, <2>4 DEF TurnRecords
  <2>6. l \in LivePcs \ {"notify", "forget"}
    BY <2>1
  <2> QED
    BY <1>5, <2>2, <2>5, <2>6
<1>12. CASE Drop(t)
  <2>1. ClearState /\ To(t, "ended") /\ UNCHANGED <<mode, cancelled, host, pc, snap>>
    BY <1>12 DEF Drop, locals
  <2>2. state'.stage # "debounce" /\ buffer' = {} /\ media' = {}
    BY <2>1 DEF ClearState, NoState
  <2> QED
    BY <1>4, <2>1, <2>2
<1>13. CASE SetDone(t)
  <2>1. /\ SetState("done", None) /\ To(t, "tidy")
        /\ UNCHANGED <<mode, cancelled, host, pc, snap>>
    BY <1>13 DEF SetDone, locals
  <2>2. state'.stage # "debounce"
    BY <2>1 DEF SetState
  <2> QED
    BY <1>4, <2>1, <2>2
<1>14. CASE Tidy(t)
  <2>1. ClearState /\ To(t, "forget") /\ UNCHANGED <<mode, cancelled, host, pc, snap>>
    BY <1>14 DEF Tidy, locals
  <2>2. state'.stage # "debounce" /\ buffer' = {} /\ media' = {}
    BY <2>1 DEF ClearState, NoState
  <2> QED
    BY <1>4, <2>1, <2>2
<1>15. CASE Forget(t)
  <2>1. /\ turn[t].pc = "forget" /\ To(t, "ended")
        /\ UNCHANGED <<mode, cancelled, host, pc, snap, keys>>
    BY <1>15 DEF Forget
  <2>2. buffer' = {} /\ media' = {} /\ state'.stage # "debounce"
    BY <1>2, <1>3, <2>1 DEF TurnAlone, keys
  <2> QED
    BY <1>4, <2>1, <2>2
<1>16. CASE Panic(t)
  BY <1>16 DEF Panic
<1>17. CASE LoadRequest(t)
  <2>1. turn[t].pc = "start" /\ UNCHANGED <<mode, cancelled, host, pc, snap, state>>
    BY <1>17 DEF LoadRequest, locals, keys
  <2>2. turn[t].host \in Instances /\ entry \in [Instances -> Events \cup {None}]
    BY <2>1 DEF TypeInv, TypeOK, TurnsSound
  <2>3. PICK u \in Events \cup {None} : turn' = [turn EXCEPT ![t].pc = "call", ![t].url = u]
    BY <1>17, <2>2 DEF LoadRequest
  <2> DEFINE r == [turn[t] EXCEPT !.pc = "call", !.url = u]
  <2>4. /\ r \in TurnRecords /\ r.pc = "call"
        /\ r.host = turn[t].host /\ r.ctx = turn[t].ctx /\ r.window = turn[t].window
        /\ r.text = turn[t].text /\ r.media = turn[t].media
    BY <1>3, <2>3 DEF TurnRecords
  <2>5. turn' = [turn EXCEPT ![t] = r]
    BY <1>3, <2>3
  <2>6. PICK s \in TurnRecords : s = r
    BY <2>4
  <2> HIDE DEF r
  <2> QED
    BY <1>1, <1>3, <2>1, <2>4, <2>5, <2>6, TurnGoesOn
<1> QED
  BY <1>6, <1>7, <1>8, <1>9, <1>10, <1>11, <1>12, <1>13, <1>14, <1>15, <1>16, <1>17 DEF TurnStep

-----------------------------------------------------------------------------
(* Messages, time and replicas. *)

\* The next message comes when nothing is under way, and nothing waits then.
LEMMA AcceptPolite ==
  ASSUME TypeInv, PoliteInv, MaxFaults = 0, NEW e \in Events, NEW i \in Instances,
         Accept(e, i), OneAtATime
  PROVE  PoliteInv'
<1> USE StoreAssumption
<1>1. /\ pc[e] = "new" /\ SetState("incoming", None) /\ Goto(e, "accepted")
      /\ host' = [host EXCEPT ![e] = i]
      /\ UNCHANGED <<mode, entry, cancelled, snap, turn>>
  BY EveryCommandAnswered DEF Accept, Fault, turns
<1>2. Quiet
  <2>1. host[e] = None /\ host'[e] = i /\ i # None
    BY <1>1 DEF PoliteInv, TypeInv, TypeOK
  <2> QED
    BY <2>1 DEF OneAtATime
<1>3. e \in Actors /\ e \notin Instances /\ Events \subseteq Actors /\ Instances \subseteq Actors
  BY DEF Actors
<1>4. pc'[e] = "accepted" /\ \A b \in Actors : b # e => pc'[b] = pc[b]
  BY <1>1, <1>3, OneMoves
<1>5. buffer = {} /\ media = {}
  <2>1. \A f \in Events : pc[f] \notin Handling
    BY <1>2 DEF Quiet, RestingPcs, Handling, Early, Stored
  <2> QED
    BY <1>2, <2>1 DEF PoliteInv, Idle, Quiet, Live
<1>6. state'.stage = "incoming" /\ buffer' = {} /\ media' = {}
  BY <1>1, <1>5 DEF SetState
<1>7. /\ \A f \in Events : f # e => pc'[f] = pc[f] /\ pc'[f] \in RestingPcs
      /\ \A j \in Instances : pc'[j] = "poll" /\ mode'[j] = "up"
      /\ \A t \in Turns : ~Live(t)'
  BY <1>1, <1>2, <1>3, <1>4 DEF PoliteInv, Quiet, Live
<1>8. HandledAlone(e)' /\ HandledRight(e)'
  BY <1>4, <1>6, <1>7 DEF HandledAlone, HandledRight, Stored
<1>9. \A f \in Events : f # e => pc'[f] \notin Handling
  BY <1>7 DEF RestingPcs, Handling, Early, Stored
<1>10. pc'[e] \in Handling
  BY <1>4 DEF Handling, Early
<1>11. \A f \in Events : pc'[f] = "new" => host'[f] = None
  BY <1>1, <1>4, <1>7 DEF PoliteInv, TypeInv, TypeOK
<1>12. \A j \in Instances : pc'[j] \notin Advancing
  BY <1>7 DEF Advancing
<1>13. TurnIsItsMessage'
  BY <1>1 DEF PoliteInv, TurnIsItsMessage
<1>14. ~Idle'
  BY <1>10 DEF Idle
<1> QED
  BY <1>6, <1>7, <1>8, <1>9, <1>10, <1>11, <1>12, <1>13, <1>14 DEF PoliteInv

\* TTLs run out, and the media of a message may be gone before its turn.
LEMMA ExpiryPolite ==
  ASSUME PoliteInv, UNCHANGED <<state, buffer, locals, pc, snap, turn>>, media' \in {media, {}}
  PROVE  PoliteInv'
<1>1. UNCHANGED <<mode, entry, cancelled, host>>
  BY DEF locals
<1>2. \A e \in Events : /\ HandledAlone(e) => HandledAlone(e)'
                        /\ HandledRight(e) => HandledRight(e)'
  BY <1>1 DEF HandledAlone, HandledRight, Live
<1>3. WindowAlone => WindowAlone'
  BY <1>1 DEF WindowAlone, Live
<1>4. \A i \in Instances : AdvancesRight(i) => AdvancesRight(i)'
  BY DEF AdvancesRight
<1>5. \A t \in Turns : Live(t)' = Live(t) /\ (TurnAlone(t) => TurnAlone(t)')
  BY <1>1 DEF TurnAlone, Live, Interrupted
<1>6. Idle' = Idle
  BY DEF Idle, Live
<1>7. TurnIsItsMessage' = TurnIsItsMessage
  BY DEF TurnIsItsMessage
<1> QED
  BY <1>1, <1>2, <1>3, <1>4, <1>5, <1>6, <1>7 DEF PoliteInv

\* Every step keeps the invariant.
LEMMA NextPolite ==
  ASSUME MaxFaults = 0, MaxCrashes = 0
  PROVE  TypeInv /\ LockExclusion /\ MapsInv /\ PoliteInv /\ [Next /\ OneAtATime]_vars
         => PoliteInv'
<1> SUFFICES ASSUME TypeInv, LockExclusion, EntriesAreLive, PoliteInv,
                    [Next /\ OneAtATime]_vars
             PROVE  PoliteInv'
  BY DEF MapsInv
<1> USE DEF keys, turns
<1>1. CASE UNCHANGED vars
  BY <1>1, ExpiryPolite DEF vars
<1>2. ASSUME NEW e \in Events, NEW i \in Instances, Accept(e, i), OneAtATime PROVE PoliteInv'
  BY <1>2, AcceptPolite
<1>3. ASSUME NEW e \in Events, EventStep(e) PROVE PoliteInv'
  <2>1. CASE LockForEvent(e)
    BY <2>1, LockingPolite
  <2>2. CASE OpenWindow(e)
    BY <2>2, OpeningPolite
  <2>3. CASE EnterAI(e)
    BY <2>3, SkippingPolite
  <2>4. CASE Unlock(e)
    BY <2>4, ReturnPolite DEF Actors
  <2> QED
    BY <1>3, <2>1, <2>2, <2>3, <2>4, HandlingSteps DEF EventStep
<1>4. ASSUME NEW i \in Instances, InstanceStep(i) PROVE PoliteInv'
  <2>1. CASE EnterAI(i)
    BY <2>1, AdvancingPolite
  <2>2. CASE Unlock(i)
    BY <2>2, ReturnPolite DEF Actors
  <2> QED
    BY <1>4, <2>1, <2>2, PollingPolite DEF InstanceStep
<1>5. ASSUME NEW i \in Instances, ReplicaStep(i) PROVE FALSE
  <2>1. mode[i] = "up" /\ ~(crashes < MaxCrashes)
    BY DEF PoliteInv, TypeInv, TypeOK
  <2> QED
    BY <1>5, <2>1 DEF ReplicaStep, Shutdown, Crash, Exit, Boot
<1>6. ASSUME NEW t \in Turns, TurnStep(t) PROVE PoliteInv'
  BY <1>6, TurnStepPolite
<1>7. CASE TimerExpires \/ MediaExpires \/ LockExpires
  BY <1>7, ExpiryPolite DEF TimerExpires, MediaExpires, LockExpires, TimerElapses, MediaElapses
<1> QED
  BY <1>1, <1>2, <1>3, <1>4, <1>5, <1>6, <1>7 DEF Next

\* For a customer who waits, and while no Redis command fails and no replica goes
\* away, a turn answers the message that opened its window and nothing left over, for
\* any number of messages, replicas and parts, however the earlier turns ended
\* (ClearState on every way out of a turn).
THEOREM TurnsAreTheirMessages ==
  ASSUME MaxFaults = 0, MaxCrashes = 0
  PROVE  PoliteSpec => []TurnIsItsMessage
<1>1. PoliteSpec => Spec
  <2>1. [Next /\ OneAtATime]_vars => [Next]_vars
    OBVIOUS
  <2> QED
    BY <2>1, PTL DEF PoliteSpec, Spec
<1>2. PoliteInv => TurnIsItsMessage
  BY DEF PoliteInv
<1>3. TypeInv /\ LockExclusion /\ MapsInv /\ PoliteInv /\ [Next /\ OneAtATime]_vars
      => PoliteInv'
  BY NextPolite
<1> QED
  BY <1>1, <1>2, <1>3, InitPolite, AlwaysTypeInv, MutualExclusion, AlwaysMaps, PTL DEF PoliteSpec

=============================================================================
