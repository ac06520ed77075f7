------------------------------ MODULE Pipeline ------------------------------
(***************************************************************************)
(* The pipeline of one contact+conversation pair: the HTTP handler, the    *)
(* Process goroutine of each event, Start's recovery and the debounce      *)
(* poller of each replica, and the AI/dispatch goroutines ("turns") they   *)
(* launch, all interleaved at their Redis commands, HTTP requests and      *)
(* accesses to the in-memory entries map.                                  *)
(*                                                                         *)
(* pc[a] names the call an actor makes next; turn[t].pc likewise.          *)
(***************************************************************************)
EXTENDS Naturals, PairStore

CONSTANTS
    NoticeEnabled,  \* AI_FAILURE_NOTICE is not the empty string
    MaxTurns,       \* bound: launches that can be recorded
    MaxParts,       \* bound: postbacks of one dispatch
    MaxCrashes,     \* bound: replica exits (crash or shutdown)
    MaxFaults       \* bound: failed Redis commands and panics

ASSUME PipelineAssumption ==
    /\ NoticeEnabled \in BOOLEAN
    /\ MaxTurns \in Nat
    /\ MaxParts \in Nat
    /\ MaxCrashes \in Nat
    /\ MaxFaults \in Nat

VARIABLES
    mode,       \* replica -> down, starting (in Start), up, stopping (in Shutdown)
    entry,      \* replica -> event of the pipelineEntry in s.entries, or None
    cancelled,  \* replica -> events whose pipelineEntry.cancel() was called there
    host,       \* event -> replica whose handler accepted it, or None
    pc,         \* actor -> the call it makes next
    snap,       \* actor -> what it has read for the turn it is about to launch
    turn,       \* launch number -> the AI/dispatch goroutine
    launches,   \* how many times launchAIStage was called
    crashes, faults

locals == <<mode, entry, cancelled, host>>
turns  == <<turn, launches>>
counts == <<crashes, faults>>
vars   == <<keys, lock, locals, pc, snap, turns, counts>>

Turns == 1..MaxTurns

-----------------------------------------------------------------------------
(* Where an actor can be. *)

\* handleEvent and Process.  Names with "re" are resetDebounce's calls.
EventOnlyPcs == {"new", "rejected", "accepted", "busy", "locked", "replace", "interrupt",
                 "clear", "append", "attach", "timer", "persist",
                 "reappend", "reattach", "retimer", "fail", "returned", "failed", "crashed"}

\* Start, pollDebounceExpiry and advanceToAI.
InstanceOnlyPcs == {"off", "scan", "startTimer", "poll", "probe", "advance",
                    "recheck", "recheckTimer"}

\* Calls that skipDebounce and advanceToAI have in common, and the deferred Unlock.
SharedPcs == {"getbuf", "getatt", "setai", "return"}

EventPcs    == EventOnlyPcs \cup SharedPcs
InstancePcs == InstanceOnlyPcs \cup SharedPcs

\* Between AcquireLock and the deferred Unlock.
CriticalPcs == {"locked", "replace", "interrupt", "clear", "append", "attach", "timer",
                "persist", "reappend", "reattach", "retimer", "fail",
                "recheck", "recheckTimer"} \cup SharedPcs

\* An event whose Process goroutine does not exist (yet, or any more).
RestingPcs == {"new", "rejected", "busy", "returned", "failed", "crashed"}

\* start is runAIStage's own look at the map, call is aiAdapter.Call, send the ctx
\* check of Dispatch, post its HTTP request.
LivePcs == {"start", "call", "failclear", "notify", "setdispatch", "send", "post", "drop",
            "setdone", "tidy", "forget"}
TurnPcs == LivePcs \cup {"unused", "ended", "crashed"}

Snapshots == [text : SUBSET Events, media : SUBSET Events, window : Events \cup {None}]

\* ctx names the entry of the turn's context, BotConfig and postback URL, url the
\* entry that gave the request its outgoing URL, API key and metadata.
TurnRecords == [pc : TurnPcs, host : Instances \cup {None}, ctx : Events \cup {None},
                url : Events \cup {None}, window : Events \cup {None},
                text : SUBSET Events, media : SUBSET Events,
                left : 0..MaxParts, sent : 0..MaxParts, noticed : BOOLEAN]

NoSnapshot == [text |-> {}, media |-> {}, window |-> None]

Unused == [pc |-> "unused", host |-> None, ctx |-> None, url |-> None, window |-> None,
           text |-> {}, media |-> {}, left |-> 0, sent |-> 0, noticed |-> FALSE]

Host(a) == IF a \in Instances THEN a ELSE host[a]

Holding(a) == pc[a] \in CriticalPcs

-----------------------------------------------------------------------------
(* Steps in terms of which the actions are written. *)

Goto(a, l) == pc' = [pc EXCEPT ![a] = l]

\* A Redis command that returns an error.
Unanswered ==
    /\ faults < MaxFaults
    /\ faults' = faults + 1

\* A write that returns an error may have been applied all the same (the reply
\* was lost), or not.
Fault(Write) ==
    /\ Unanswered
    /\ Write \/ UNCHANGED keys

\* cancel() and entries.Delete on the error paths of startDebounce and
\* skipDebounce; advanceToAI has nothing to undo and just returns.
GiveUp(a) ==
    IF a \in Instances
    THEN /\ Goto(a, "return")
         /\ UNCHANGED locals
    ELSE /\ Goto(a, "fail")
         /\ entry' = [entry EXCEPT ![host[a]] = None]
         /\ cancelled' = [cancelled EXCEPT ![host[a]] = @ \cup {a}]
         /\ UNCHANGED <<mode, host>>

\* The poller's next tick; from Start, the poller and the HTTP server start.
Resume(i) ==
    /\ Goto(i, "poll")
    /\ mode' = [mode EXCEPT ![i] = IF @ = "starting" THEN "up" ELSE @]

CancelPair(i) ==
    /\ entry' = [entry EXCEPT ![i] = None]
    /\ cancelled' = [cancelled EXCEPT ![i] = IF entry[i] = None THEN @ ELSE @ \cup {entry[i]}]

-----------------------------------------------------------------------------
Init ==
    /\ StoreInit
    /\ mode = [i \in Instances |-> "up"]
    /\ entry = [i \in Instances |-> None]
    /\ cancelled = [i \in Instances |-> {}]
    /\ host = [e \in Events |-> None]
    /\ pc = [a \in Actors |-> IF a \in Instances THEN "poll" ELSE "new"]
    /\ snap = [a \in Actors |-> NoSnapshot]
    /\ turn = [t \in Turns |-> Unused]
    /\ launches = 0
    /\ crashes = 0
    /\ faults = 0

-----------------------------------------------------------------------------
(* handleEvent and Process. *)

\* The handler persists StageIncoming, launches the Process goroutine and
\* answers 202; it answers 500 when the write fails.
Accept(e, i) ==
    /\ pc[e] = "new"
    /\ mode[i] = "up"
    /\ \/ SetState("incoming", None) /\ Goto(e, "accepted") /\ UNCHANGED faults
       \/ Fault(SetState("incoming", None)) /\ Goto(e, "rejected")
    /\ host' = [host EXCEPT ![e] = i]
    /\ UNCHANGED <<lock, mode, entry, cancelled, snap, turns, crashes>>

\* Variant: Process goes on when the lock is held.
LockForEventAnyway(e) ==
    /\ pc[e] = "accepted"
    /\ Goto(e, "locked")
    /\ lock' = IF lock = Free THEN e ELSE lock
    /\ UNCHANGED <<keys, locals, snap, turns, counts>>

\* AcquireLock tries once: ErrLockFailed when the lock is held or Redis fails,
\* and then the key may have been set for nobody.
LockForEvent(e) ==
    /\ pc[e] = "accepted"
    /\ \/ AcquireLock(e) /\ Goto(e, "locked") /\ UNCHANGED faults
       \/ lock # Free /\ Goto(e, "busy") /\ UNCHANGED <<lock, faults>>
       \/ Unanswered /\ Goto(e, "busy") /\ (AcquireLock(e) \/ UNCHANGED lock)
    /\ UNCHANGED <<keys, locals, snap, turns, crashes>>

\* GetState and the switch on the stage; StageDone matches no case.
ReadStage(e) ==
    /\ pc[e] = "locked"
    /\ \/ /\ \/ state.stage \in {"none", "incoming"} /\ Goto(e, "replace")
             \/ state.stage = "debounce"              /\ Goto(e, "reappend")
             \/ state.stage \in {"ai", "dispatch"}    /\ Goto(e, "interrupt")
             \/ state.stage = "done"                  /\ Goto(e, "return")
          /\ UNCHANGED faults
       \/ Unanswered /\ Goto(e, "fail")
    /\ UNCHANGED <<keys, lock, locals, snap, turns, crashes>>

\* Variant: cancelPair Loads the entry and does not delete it.
SupersedeInPlace(e) ==
    /\ \/ pc[e] = "replace"   /\ Goto(e, "append")
       \/ pc[e] = "interrupt" /\ Goto(e, "clear")
    /\ cancelled' = [cancelled EXCEPT ![host[e]] =
                        IF entry[host[e]] = None THEN @ ELSE @ \cup {entry[host[e]]}]
    /\ UNCHANGED <<keys, lock, mode, entry, host, snap, turns, counts>>

\* cancelPair, local to the replica that runs Process.
Supersede(e) ==
    /\ \/ pc[e] = "replace"   /\ Goto(e, "append")
       \/ pc[e] = "interrupt" /\ Goto(e, "clear")
    /\ CancelPair(host[e])
    /\ UNCHANGED <<keys, lock, mode, host, snap, turns, counts>>

ClearInterrupted(e) ==
    /\ pc[e] = "clear"
    /\ \/ ClearState /\ Goto(e, "append") /\ UNCHANGED faults
       \/ Fault(ClearState) /\ Goto(e, "fail")
    /\ UNCHANGED <<lock, locals, snap, turns, crashes>>

\* startDebounce and skipDebounce differ after debounce.Start only.
AfterAttach(e) == IF e \in ZeroDebounce THEN "getbuf" ELSE "timer"
AfterAppend(e) == IF e \in WithMedia THEN "attach" ELSE AfterAttach(e)

\* entries.Store, then AppendToBuffer of debounce.Start.
StoreAndAppend(e) ==
    /\ pc[e] = "append"
    /\ \/ /\ AppendToBuffer(e)
          /\ Goto(e, AfterAppend(e))
          /\ entry' = [entry EXCEPT ![host[e]] = e]
          /\ UNCHANGED <<mode, cancelled, host, faults>>
       \/ Fault(AppendToBuffer(e)) /\ GiveUp(e)
    /\ UNCHANGED <<lock, snap, turns, crashes>>

Attach(e) ==
    /\ pc[e] = "attach"
    /\ \/ AppendAttachments(e) /\ Goto(e, AfterAttach(e)) /\ UNCHANGED <<locals, faults>>
       \/ Fault(AppendAttachments(e)) /\ GiveUp(e)
    /\ UNCHANGED <<lock, snap, turns, crashes>>

StartTimer(e) ==
    /\ pc[e] = "timer"
    /\ \/ SetTimer /\ Goto(e, "persist") /\ UNCHANGED <<locals, faults>>
       \/ Fault(SetTimer) /\ GiveUp(e)
    /\ UNCHANGED <<lock, snap, turns, crashes>>

\* Variant: only the stage is persisted, as skipDebounce does.
OpenWindowBare(e) ==
    /\ pc[e] = "persist"
    /\ SetState("debounce", None)
    /\ Goto(e, "return")
    /\ UNCHANGED <<lock, locals, snap, turns, counts>>

\* SetState(StageDebounce) with the event's config: the window is open.
OpenWindow(e) ==
    /\ pc[e] = "persist"
    /\ \/ SetState("debounce", e) /\ Goto(e, "return") /\ UNCHANGED <<locals, faults>>
       \/ Fault(SetState("debounce", e)) /\ GiveUp(e)
    /\ UNCHANGED <<lock, snap, turns, crashes>>

\* Variant: a reset stores an entry of its own in the map.
ExtendWindowWithEntry(e) ==
    /\ pc[e] = "reappend"
    /\ AppendToBuffer(e)
    /\ entry' = [entry EXCEPT ![host[e]] = e]
    /\ Goto(e, "return")
    /\ UNCHANGED <<lock, mode, cancelled, host, snap, turns, counts>>

\* resetDebounce: the same commands on the open window.  The entry and the
\* persisted config stay those of the event that opened it, and an error
\* undoes nothing.
ExtendWindow(e) ==
    /\ \/ /\ pc[e] = "reappend"
          /\ \/ /\ AppendToBuffer(e)
                /\ Goto(e, IF e \in WithMedia THEN "reattach"
                           ELSE IF e \in ZeroDebounce THEN "return" ELSE "retimer")
                /\ UNCHANGED faults
             \/ Fault(AppendToBuffer(e)) /\ Goto(e, "fail")
       \/ /\ pc[e] = "reattach"
          /\ \/ /\ AppendAttachments(e)
                /\ Goto(e, IF e \in ZeroDebounce THEN "return" ELSE "retimer")
                /\ UNCHANGED faults
             \/ Fault(AppendAttachments(e)) /\ Goto(e, "fail")
       \/ /\ pc[e] = "retimer"
          /\ \/ SetTimer /\ Goto(e, "return") /\ UNCHANGED faults
             \/ Fault(SetTimer) /\ Goto(e, "fail")
    /\ UNCHANGED <<lock, locals, snap, turns, crashes>>

-----------------------------------------------------------------------------
(* What skipDebounce and advanceToAI have in common. *)

ReadBuffer(a) ==
    /\ pc[a] = "getbuf"
    /\ \/ /\ snap' = [snap EXCEPT ![a].text = buffer]
          /\ Goto(a, "getatt")
          /\ UNCHANGED <<locals, faults>>
       \/ Unanswered /\ GiveUp(a) /\ UNCHANGED snap
    /\ UNCHANGED <<keys, lock, turns, crashes>>

\* A media read failure is logged and the turn goes on without media.
ReadMedia(a) ==
    /\ pc[a] = "getatt"
    /\ \/ snap' = [snap EXCEPT ![a].media = media] /\ UNCHANGED faults
       \/ Unanswered /\ UNCHANGED snap
    /\ Goto(a, "setai")
    /\ UNCHANGED <<keys, lock, locals, turns, crashes>>

\* launchAIStage: the goroutine runs on the entry the map holds now; with no
\* entry only an error is logged.
Launch(a) ==
    LET i == Host(a)
        w == IF a \in Instances THEN snap[a].window ELSE a
    IN  /\ launches < MaxTurns
        /\ launches' = launches + 1
        /\ turn' = IF entry[i] = None THEN turn
                   ELSE [turn EXCEPT ![launches + 1] =
                            [pc |-> "start", host |-> i, ctx |-> entry[i], url |-> None,
                             window |-> w, text |-> snap[a].text, media |-> snap[a].media,
                             left |-> 0, sent |-> 0, noticed |-> FALSE]]

\* SetState(StageAI), then the launch.
EnterAI(a) ==
    /\ pc[a] = "setai"
    /\ \/ SetState("ai", None) /\ Launch(a) /\ Goto(a, "return") /\ UNCHANGED <<locals, faults>>
       \/ Fault(SetState("ai", None)) /\ GiveUp(a) /\ UNCHANGED turns
    /\ UNCHANGED <<lock, snap, crashes>>

\* The deferred mu.Unlock, whose error nobody reads, and the return.
Unlock(a) ==
    /\ pc[a] \in {"return", "fail"}
    /\ \/ Release(a) /\ UNCHANGED faults
       \/ Unanswered /\ UNCHANGED lock
    /\ snap' = [snap EXCEPT ![a] = NoSnapshot]
    /\ IF a \in Instances THEN Resume(a)
       ELSE /\ Goto(a, IF pc[a] = "return" THEN "returned" ELSE "failed")
            /\ UNCHANGED mode
    /\ UNCHANGED <<keys, entry, cancelled, host, turns, crashes>>

-----------------------------------------------------------------------------
(* Start, pollDebounceExpiry and advanceToAI. *)

\* Variant: Start leaves the entries map empty.
RecoverNothing(i) ==
    /\ pc[i] = "scan"
    /\ Resume(i)
    /\ UNCHANGED <<keys, lock, entry, cancelled, host, snap, turns, counts>>

\* ScanStates and GetState: an open window gets its entry back from the
\* persisted config; a pair whose state cannot be read is passed over.
Recover(i) ==
    /\ pc[i] = "scan"
    /\ \/ /\ state.stage = "debounce"
          /\ entry' = [entry EXCEPT ![i] = IF @ = None THEN state.cfg ELSE @]
          /\ Goto(i, "startTimer")
          /\ UNCHANGED <<mode, faults>>
       \/ state.stage # "debounce" /\ Resume(i) /\ UNCHANGED <<entry, faults>>
       \/ Unanswered /\ Resume(i) /\ UNCHANGED entry
    /\ UNCHANGED <<keys, lock, cancelled, host, snap, turns, crashes>>

\* Start's TimerExists: a timer that ran out during the restart advances now.
RecoverExpired(i) ==
    /\ pc[i] = "startTimer"
    /\ \/ ~timer /\ Goto(i, "advance") /\ UNCHANGED <<mode, faults>>
       \/ timer /\ Resume(i) /\ UNCHANGED faults
       \/ Unanswered /\ Resume(i)
    /\ UNCHANGED <<keys, lock, entry, cancelled, host, snap, turns, crashes>>

\* A tick that finds an entry whose context is live, and StageDebounce.  A tick
\* may still win the select against stopCh once Shutdown has closed it.
Poll(i) ==
    /\ pc[i] = "poll"
    /\ mode[i] \in {"up", "stopping"}
    /\ entry[i] # None
    /\ entry[i] \notin cancelled[i]
    /\ state.stage = "debounce"
    /\ snap' = [snap EXCEPT ![i].window = entry[i]]
    /\ Goto(i, "probe")
    /\ UNCHANGED <<keys, lock, locals, turns, counts>>

\* TimerExists on the context of the entry the tick found: it fails once that
\* is cancelled.
ProbeTimer(i) ==
    /\ pc[i] = "probe"
    /\ \/ ~timer /\ snap[i].window \notin cancelled[i] /\ Goto(i, "advance") /\ UNCHANGED faults
       \/ /\ timer \/ snap[i].window \in cancelled[i]
          /\ Goto(i, "poll")
          /\ UNCHANGED faults
       \/ Unanswered /\ Goto(i, "poll")
    /\ snap' = [snap EXCEPT ![i] = NoSnapshot]
    /\ UNCHANGED <<keys, lock, locals, turns, crashes>>

\* Variant: advanceToAI goes on when the lock is held.
LockForAdvanceAnyway(i) ==
    /\ pc[i] = "advance"
    /\ Goto(i, "recheck")
    /\ lock' = IF lock = Free THEN i ELSE lock
    /\ UNCHANGED <<keys, locals, snap, turns, counts>>

\* advanceToAI: the lock, tried once.
LockForAdvance(i) ==
    /\ pc[i] = "advance"
    /\ \/ AcquireLock(i) /\ Goto(i, "recheck") /\ UNCHANGED <<mode, faults>>
       \/ lock # Free /\ Resume(i) /\ UNCHANGED <<lock, faults>>
       \/ Unanswered /\ Resume(i) /\ (AcquireLock(i) \/ UNCHANGED lock)
    /\ UNCHANGED <<keys, entry, cancelled, host, snap, turns, crashes>>

\* The stage again, now under the lock.
RecheckStage(i) ==
    /\ pc[i] = "recheck"
    /\ \/ /\ state.stage = "debounce"
          /\ snap' = [snap EXCEPT ![i].window = state.cfg]
          /\ Goto(i, "recheckTimer")
          /\ UNCHANGED faults
       \/ state.stage # "debounce" /\ Goto(i, "return") /\ UNCHANGED <<snap, faults>>
       \/ Unanswered /\ Goto(i, "return") /\ UNCHANGED snap
    /\ UNCHANGED <<keys, lock, locals, turns, crashes>>

\* Variant: the poller's first look at the timer is taken for good.
RecheckTimerNot(i) ==
    /\ pc[i] = "recheckTimer"
    /\ Goto(i, "getbuf")
    /\ UNCHANGED <<keys, lock, locals, snap, turns, counts>>

\* And the timer again.
RecheckTimer(i) ==
    /\ pc[i] = "recheckTimer"
    /\ \/ ~timer /\ Goto(i, "getbuf") /\ UNCHANGED faults
       \/ timer /\ Goto(i, "return") /\ UNCHANGED faults
       \/ Unanswered /\ Goto(i, "return")
    /\ UNCHANGED <<keys, lock, locals, snap, turns, crashes>>

-----------------------------------------------------------------------------
(* A turn: runAIStage, then runDispatchStage on the same context. *)

To(t, l) == turn' = [turn EXCEPT ![t].pc = l]

\* pipelineEntry.cancel() was called on the context the goroutine runs on.
Interrupted(t) == turn[t].ctx \in cancelled[turn[t].host]

\* runAIStage loads the entry once more: the outgoing URL, API key and metadata are
\* those of whichever entry the map holds by now, or empty.
LoadRequest(t) ==
    /\ turn[t].pc = "start"
    /\ turn' = [turn EXCEPT ![t].pc = "call", ![t].url = entry[turn[t].host]]
    /\ UNCHANGED <<keys, lock, locals, pc, snap, launches, counts>>

\* aiAdapter.Call: ErrPipelineCancelled leaves everything to the new event; a
\* timeout or any other error clears the state; an answer, which a cancel may have
\* come too late for and a request without URL never gets, has n parts to post.
CallAI(t) ==
    /\ turn[t].pc = "call"
    /\ \/ Interrupted(t) /\ To(t, "ended")
       \/ To(t, "failclear")
       \/ \E n \in 0..MaxParts :
             /\ turn[t].url # None
             /\ turn' = [turn EXCEPT ![t].pc = "setdispatch", ![t].left = n]
    /\ UNCHANGED <<keys, lock, locals, pc, snap, launches, counts>>

\* Variant: the AI error path only sends the notice.
ClearFailedNot(t) ==
    /\ turn[t].pc = "failclear"
    /\ To(t, "notify")
    /\ UNCHANGED <<keys, lock, locals, pc, snap, launches, counts>>

\* clearStateWithLog of the AI error paths, then sendAIFailureNotice.
ClearFailed(t) ==
    /\ turn[t].pc = "failclear"
    /\ \/ ClearState /\ UNCHANGED faults
       \/ Fault(ClearState)
    /\ To(t, IF NoticeEnabled THEN "notify" ELSE "ended")
    /\ UNCHANGED <<lock, locals, pc, snap, launches, crashes>>

\* The notice is dispatched on a context of its own and may not get through.
Notify(t) ==
    /\ turn[t].pc = "notify"
    /\ \E through \in BOOLEAN :
          turn' = [turn EXCEPT ![t].pc = "ended", ![t].noticed = through]
    /\ UNCHANGED <<keys, lock, locals, pc, snap, launches, counts>>

\* SetState(StageDispatch), made even when the context is cancelled by now.
SetDispatch(t) ==
    /\ turn[t].pc = "setdispatch"
    /\ \/ SetState("dispatch", None) /\ To(t, "send") /\ UNCHANGED faults
       \/ Fault(SetState("dispatch", None)) /\ To(t, "drop")
    /\ UNCHANGED <<lock, locals, pc, snap, launches, crashes>>

\* Variant: only the first part waits for a look at the context.
CheckContextOnce(t) ==
    /\ turn[t].pc = "send"
    /\ \/ turn[t].left = 0 /\ To(t, "setdone")
       \/ turn[t].left > 0 /\ turn[t].sent = 0 /\ Interrupted(t) /\ To(t, "ended")
       \/ turn[t].left > 0 /\ (turn[t].sent > 0 \/ ~Interrupted(t)) /\ To(t, "post")
    /\ UNCHANGED <<keys, lock, locals, pc, snap, launches, counts>>

\* Dispatch looks at the context before each part, and only then.
CheckContext(t) ==
    /\ turn[t].pc = "send"
    /\ \/ turn[t].left = 0 /\ To(t, "setdone")
       \/ turn[t].left > 0 /\ Interrupted(t) /\ To(t, "ended")
       \/ turn[t].left > 0 /\ ~Interrupted(t) /\ To(t, "post")
    /\ UNCHANGED <<keys, lock, locals, pc, snap, launches, counts>>

\* Variant: the loop over the parts does not move on.
PostAgain(t) ==
    /\ turn[t].pc = "post"
    /\ turn' = [turn EXCEPT ![t].pc = "send", ![t].sent = @ + 1]
    /\ UNCHANGED <<keys, lock, locals, pc, snap, launches, counts>>

\* sendPart: answered 2xx, or an error that the customer's side may have
\* processed all the same (a cancelled request is such an error).
Post(t) ==
    /\ turn[t].pc = "post"
    /\ \/ turn' = [turn EXCEPT ![t].pc = "send", ![t].sent = @ + 1, ![t].left = @ - 1]
       \/ \E processed \in {0, 1} :
            turn' = [turn EXCEPT ![t].pc = "drop", ![t].sent = @ + processed, ![t].left = @ - 1]
    /\ UNCHANGED <<keys, lock, locals, pc, snap, launches, counts>>

\* clearStateWithLog of the error paths that end the turn.
Drop(t) ==
    /\ turn[t].pc = "drop"
    /\ \/ ClearState /\ UNCHANGED faults
       \/ Fault(ClearState)
    /\ To(t, "ended")
    /\ UNCHANGED <<lock, locals, pc, snap, launches, crashes>>

SetDone(t) ==
    /\ turn[t].pc = "setdone"
    /\ \/ SetState("done", None) /\ UNCHANGED faults
       \/ Fault(SetState("done", None))
    /\ To(t, "tidy")
    /\ UNCHANGED <<lock, locals, pc, snap, launches, crashes>>

\* clearStateWithLog of the success path and of recoverPipeline.
Tidy(t) ==
    /\ turn[t].pc = "tidy"
    /\ \/ ClearState /\ UNCHANGED faults
       \/ Fault(ClearState)
    /\ To(t, "forget")
    /\ UNCHANGED <<lock, locals, pc, snap, launches, crashes>>

\* entries.Delete, whoever's entry the map holds now.
Forget(t) ==
    /\ turn[t].pc = "forget"
    /\ entry' = [entry EXCEPT ![turn[t].host] = None]
    /\ To(t, "ended")
    /\ UNCHANGED <<keys, lock, mode, cancelled, host, pc, snap, launches, counts>>

\* A panic in the adapter or the dispatcher, caught by recoverPipeline.
Panic(t) ==
    /\ turn[t].pc \in {"call", "notify", "send", "post"}
    /\ Unanswered
    /\ To(t, "tidy")
    /\ UNCHANGED <<keys, lock, locals, pc, snap, launches, crashes>>

-----------------------------------------------------------------------------
(* Time, and replicas that come and go. *)

TimerExpires ==
    /\ TimerElapses
    /\ UNCHANGED <<lock, locals, pc, snap, turns, counts>>

MediaExpires ==
    /\ MediaElapses
    /\ UNCHANGED <<lock, locals, pc, snap, turns, counts>>

\* Variant: the lock key has no TTL.
LockNeverExpires == FALSE

\* The 8 seconds of the redsync mutex run out on a holder that is gone or could
\* not unlock.  A holder still at work is taken to be faster than that.
LockExpires ==
    /\ lock # Free
    /\ ~Holding(lock)
    /\ lock' = Free
    /\ UNCHANGED <<keys, locals, pc, snap, turns, counts>>

\* Shutdown: cancel every entry and stop the poller; the process exits later.
Shutdown(i) ==
    /\ mode[i] = "up"
    /\ crashes < MaxCrashes
    /\ crashes' = crashes + 1
    /\ mode' = [mode EXCEPT ![i] = "stopping"]
    /\ cancelled' = [cancelled EXCEPT ![i] = IF entry[i] = None THEN @ ELSE @ \cup {entry[i]}]
    /\ UNCHANGED <<keys, lock, entry, host, pc, snap, turns, faults>>

\* The process is gone with everything it had in memory.
Vanish(i) ==
    /\ mode' = [mode EXCEPT ![i] = "down"]
    /\ entry' = [entry EXCEPT ![i] = None]
    /\ cancelled' = [cancelled EXCEPT ![i] = {}]
    /\ pc' = [a \in Actors |-> IF a = i THEN "off"
                              ELSE IF a \in Events /\ host[a] = i /\ pc[a] \notin RestingPcs
                                   THEN "crashed" ELSE pc[a]]
    /\ snap' = [a \in Actors |-> IF Host(a) = i THEN NoSnapshot ELSE snap[a]]
    /\ turn' = [t \in Turns |-> IF turn[t].host = i /\ turn[t].pc \in LivePcs
                               THEN [turn[t] EXCEPT !.pc = "crashed"] ELSE turn[t]]
    /\ UNCHANGED <<keys, lock, host, launches, faults>>

Crash(i) ==
    /\ mode[i] \in {"starting", "up"}
    /\ crashes < MaxCrashes
    /\ crashes' = crashes + 1
    /\ Vanish(i)

\* main returns after Shutdown.
Exit(i) ==
    /\ mode[i] = "stopping"
    /\ Vanish(i)
    /\ UNCHANGED crashes

Boot(i) ==
    /\ mode[i] = "down"
    /\ mode' = [mode EXCEPT ![i] = "starting"]
    /\ Goto(i, "scan")
    /\ UNCHANGED <<keys, lock, entry, cancelled, host, snap, turns, counts>>

-----------------------------------------------------------------------------
EventStep(e) ==
    \/ LockForEvent(e) \/ ReadStage(e) \/ Supersede(e) \/ ClearInterrupted(e)
    \/ StoreAndAppend(e) \/ Attach(e) \/ StartTimer(e) \/ OpenWindow(e) \/ ExtendWindow(e)
    \/ ReadBuffer(e) \/ ReadMedia(e) \/ EnterAI(e) \/ Unlock(e)

InstanceStep(i) ==
    \/ Recover(i) \/ RecoverExpired(i) \/ Poll(i) \/ ProbeTimer(i)
    \/ LockForAdvance(i) \/ RecheckStage(i) \/ RecheckTimer(i)
    \/ ReadBuffer(i) \/ ReadMedia(i) \/ EnterAI(i) \/ Unlock(i)

TurnStep(t) ==
    \/ LoadRequest(t) \/ CallAI(t) \/ ClearFailed(t) \/ Notify(t) \/ SetDispatch(t) \/ CheckContext(t)
    \/ Post(t) \/ Drop(t) \/ SetDone(t) \/ Tidy(t) \/ Forget(t) \/ Panic(t)

ReplicaStep(i) == Shutdown(i) \/ Crash(i) \/ Exit(i) \/ Boot(i)

Next ==
    \/ \E e \in Events, i \in Instances : Accept(e, i)
    \/ \E e \in Events : EventStep(e)
    \/ \E i \in Instances : InstanceStep(i) \/ ReplicaStep(i)
    \/ \E t \in Turns : TurnStep(t)
    \/ TimerExpires \/ MediaExpires \/ LockExpires

Spec == Init /\ [][Next]_vars

\* Goroutines are scheduled, AI calls and postbacks end (each has a timeout),
\* TTLs run out, a replica told to stop exits and Kubernetes restarts it;
\* customers, faults and crashes owe nothing.
Fairness ==
    /\ \A e \in Events : WF_vars(EventStep(e))
    /\ \A i \in Instances : WF_vars(InstanceStep(i)) /\ WF_vars(Exit(i)) /\ WF_vars(Boot(i))
    /\ \A t \in Turns : WF_vars(TurnStep(t))
    /\ WF_vars(TimerExpires)
    /\ WF_vars(LockExpires)

FairSpec == Spec /\ Fairness

-----------------------------------------------------------------------------
(* Safety. *)

\* Every variable has its type: what Redis, the maps and the goroutines hold.
TypeOK ==
    /\ StoreTypeOK
    /\ mode \in [Instances -> {"down", "starting", "up", "stopping"}]
    /\ entry \in [Instances -> Events \cup {None}]
    /\ cancelled \in [Instances -> SUBSET Events]
    /\ host \in [Events -> Instances \cup {None}]
    /\ pc \in [Actors -> EventPcs \cup InstancePcs]
    /\ \A e \in Events : pc[e] \in EventPcs
    /\ \A i \in Instances : pc[i] \in InstancePcs
    /\ snap \in [Actors -> Snapshots]
    /\ turn \in [Turns -> TurnRecords]
    /\ launches \in 0..MaxTurns
    /\ crashes \in 0..MaxCrashes
    /\ faults \in 0..MaxFaults

\* Whoever is between AcquireLock and Unlock holds the lock, so Process and
\* advanceToAI never run at once for the pair, on one replica or on several,
\* whatever crashed before and whichever Redis reply was lost.
LockExclusion == \A a \in Actors : Holding(a) => lock = a

\* A debounce window is advanced at most once ("exactly-once guarantee holds",
\* advanceToAI): no two turns are launched for the window of one event, though
\* several pollers see it expired, replicas restart and SetState may fail.
WindowLaunchedOnce ==
    \A t, u \in Turns :
        turn[t].window # None /\ turn[t].window = turn[u].window => t = u

\* advanceToAI never cuts short a window whose timer was set again: past the
\* second TimerExists the timer stays off until the turn is launched.
TimerRespected ==
    \A i \in Instances : pc[i] \in {"getbuf", "getatt", "setai"} => ~timer

\* A turn takes along every message that is waiting when it is launched: none
\* is appended between GetBuffer and SetState(StageAI) to be answered by nobody.
SnapshotIsWholeBuffer ==
    \A a \in Actors : pc[a] \in {"getatt", "setai"} => buffer \subseteq snap[a].text

\* A turn runs on the context, BotConfig and postback URL of the event that opened
\* its window when it is launched by the replica that took that event in: also when
\* later messages extended the window, Start rebuilt the entry from Redis, or older
\* turns and other replicas changed maps and windows meanwhile.
ConfigMatchesWindow ==
    \A t \in Turns :
        turn[t].window # None /\ turn[t].host = host[turn[t].window]
            => turn[t].ctx = turn[t].window

\* Until Shutdown cancels them all, the map keeps no entry whose context was
\* cancelled, so the poller never starves on one and no turn is launched already
\* cancelled.
EntriesAreLive ==
    \A i \in Instances : mode[i] # "stopping" => entry[i] \notin cancelled[i]

-----------------------------------------------------------------------------
(* Liveness under Fairness. *)

\* A message was handed to a turn.
Launched(e) == \E t \in Turns : e \in turn[t].text

\* NFR-01 for a pair with one message: once Process has returned nil the
\* message reaches a turn, though its replica crashes or shuts down while the
\* window is open and a poller dies with the lock in its hands, as long as no
\* Redis command fails.
WindowSurvivesCrash ==
    \A e \in Events : pc[e] = "returned" ~> Launched(e) \/ faults > 0

\* The lock never stays taken for good, though its holder dies, its Unlock fails or
\* its key was set for nobody: every holder unlocks, or the TTL does.
LockEventuallyFree == []<>(lock = Free)

-----------------------------------------------------------------------------
(* What comments and tests say that the code does not do. *)

\* e2e_test.go, ExactlyOnce: the event that lost the lock race "is not lost; it
\* is processed once the lock is released", and the race leaves "exactly one
\* pipeline" running.  So if one lost, something is launched.
RaceRunsAPipeline == \A e \in Events : pc[e] = "busy" ~> launches > 0

\* handler.go: StageIncoming "guarantees event durability if the process
\* goroutine never runs".
AcceptedIsDurable == \A e \in Events : pc[e] = "accepted" ~> Launched(e)

\* runDispatchStage: a dispatch that was interrupted does not clear the state, it
\* "would destroy the new active state".
InterruptedDispatchSparesWindow ==
    [][\A t \in Turns :
          turn[t].pc \in {"send", "post", "drop"} /\ Interrupted(t) /\ turn'[t] # turn[t]
             => (state.stage = "debounce" => state'.stage = "debounce")]_vars

\* pipelineEntry: cfg and postbackURL carry those of the MessageEvent to the dispatch
\* stage, whichever replica launches the window.
ConfigReachesDispatch == \A t \in Turns : turn[t].ctx = turn[t].window

\* pipelineEntry: outgoingURL carries that of the MessageEvent to the AI stage; so the
\* request of a turn that nobody has interrupted goes where its entry says.
URLReachesAI ==
    \A t \in Turns : turn[t].pc = "call" /\ ~Interrupted(t) => turn[t].url = turn[t].ctx

=============================================================================
