------------------------------- MODULE Reply -------------------------------
(***************************************************************************)
(* One turn from the claim of its window to its end: runAIStage calls the  *)
(* adapter, stores StageDispatch and launches runDispatchStage with the    *)
(* answer, or sends the failure notice, on the same context or on the      *)
(* notice's own.  What Pipeline.tla takes as one call with an outcome and  *)
(* a number of parts is here the adapter and the dispatch engine.          *)
(***************************************************************************)
EXTENDS AIAdapter, Dispatch

CONSTANTS
    NoticeEnabled,  \* AI_FAILURE_NOTICE is not blank
    Notices         \* its texts

ASSUME ReplyAssumption ==
    /\ NoticeEnabled \in BOOLEAN
    /\ Notices \subseteq Texts

VARIABLE stage      \* where the turn is

replyVars == <<adapterVars, dispatchVars, stage, cancelled>>

Stages == {"ai", "answered", "dispatch", "failed", "notice", "over"}

ReplyInit ==
    /\ CallInit
    /\ content = <<>>
    /\ bot = CHOOSE b \in Bots : TRUE
    /\ plan = <<>>
    /\ next = 1
    /\ sendPc = "idle"
    /\ wire = <<>>
    /\ result = "none"
    /\ stage = "ai"
    /\ ContextInit

-----------------------------------------------------------------------------

CallRuns ==
    /\ stage = "ai"
    /\ CallStep
    /\ UNCHANGED <<dispatchVars, stage, cancelled>>

\* The variables of the call are out of use.
PutAway ==
    /\ config' = CHOOSE c \in Configs : TRUE
    /\ room' = MaxAttachmentsTotal
    /\ items' = <<>>
    /\ forwarded' = <<>>
    /\ callPc' = "done"
    /\ now' = 0 /\ budget' = 0 /\ ceiling' = 0 /\ due' = 0 /\ attempt' = 0
    /\ answered' = FALSE
    /\ outcome' = "none"

CallReturns(o) ==
    /\ stage = "ai"
    /\ callPc = "done"
    /\ outcome = o
    /\ PutAway

\* The answer is there, cancelled or not: StageDispatch is stored on a context of
\* its own.  Where Redis fails the turn ends there, without a word.
AIAnswers ==
    /\ CallReturns("ok")
    /\ \/ stage' = "answered" /\ UNCHANGED result
       \/ stage' = "over" /\ result' = "failed"
    /\ UNCHANGED <<content, bot, plan, next, sendPc, wire, cancelled>>

\* Cancelled: the new message's turn has the state now.
AICancelled ==
    /\ CallReturns("cancelled")
    /\ stage' = "over"
    /\ UNCHANGED <<dispatchVars, cancelled>>

\* Variant: only a timeout is told to the customer.
AIFailsQuietly ==
    /\ \/ CallReturns("timeout") /\ stage' = (IF NoticeEnabled THEN "failed" ELSE "over")
       \/ CallReturns("error") /\ stage' = "over"
    /\ cancelled' = FALSE
    /\ UNCHANGED dispatchVars

\* A timeout or any other error: the state is cleared, and the notice is sent
\* unless it is turned off.  Its context is new.
AIFails ==
    /\ CallReturns("timeout") \/ CallReturns("error")
    /\ stage' = IF NoticeEnabled THEN "failed" ELSE "over"
    /\ cancelled' = FALSE
    /\ UNCHANGED dispatchVars

\* launchDispatchStage and sendAIFailureNotice.
Launch ==
    /\ \/ stage = "answered" /\ stage' = "dispatch" /\ StartDispatch(Texts)
       \/ stage = "failed" /\ stage' = "notice" /\ StartDispatch(Notices)
    /\ UNCHANGED <<adapterVars, cancelled>>

DispatchRuns ==
    /\ stage \in {"dispatch", "notice"}
    /\ DispatchStep
    /\ stage' = IF sendPc' = "done" THEN "over" ELSE stage
    /\ UNCHANGED adapterVars

\* A panic in the adapter or the dispatch engine: recoverPipeline ends the turn, and
\* tells the customer nothing.
Panic ==
    /\ \/ /\ stage = "ai"
          /\ PutAway
          /\ result' = "panicked"
          /\ UNCHANGED <<content, bot, plan, next, sendPc, wire, cancelled>>
       \/ /\ stage \in {"dispatch", "notice"}
          /\ DispatchPanics
          /\ UNCHANGED adapterVars
    /\ stage' = "over"

TimePasses == stage = "ai" /\ Tick /\ UNCHANGED <<dispatchVars, stage>>

\* A new message or Shutdown cancels the turn; the notice's 30 s run out.
ContextEnds ==
    /\ stage # "over"
    /\ Cancel
    /\ UNCHANGED <<adapterVars, dispatchVars, stage>>

ReplyStep == CallRuns \/ AIAnswers \/ AICancelled \/ AIFails \/ Launch \/ DispatchRuns \/ TimePasses

ReplyNext == ReplyStep \/ ContextEnds \/ Panic

ReplySpec == ReplyInit /\ [][ReplyNext]_replyVars

\* Goroutines run, timers fire, and every request has a timeout.  Nothing has to
\* cancel the turn, or panic.
FairReplySpec == ReplySpec /\ WF_replyVars(ReplyStep)

-----------------------------------------------------------------------------

\* Every variable has its type, and the two components are never active at once.
ReplyTypeOK ==
    /\ CallTypeOK
    /\ DispatchTypeOK
    /\ stage \in Stages
    /\ cancelled \in BOOLEAN
    /\ stage # "ai" => callPc = "done" /\ items = <<>>
    /\ sendPc \notin {"idle", "done"} => stage \in {"dispatch", "notice"}

\* A turn that the customer hears nothing of had a reason: its context ended, a
\* post or Redis failed, the adapter or the dispatch engine panicked, the notice is
\* turned off, or there was nothing to say: the answer was empty (runAIStage,
\* runDispatchStage, sendAIFailureNotice, recoverPipeline).
SilenceHasAReason ==
    stage = "over" /\ wire = <<>> =>
        \/ cancelled
        \/ result \in {"failed", "panicked"}
        \/ result = "sent" /\ content = <<>>
        \/ result = "none" /\ ~NoticeEnabled

\* The turn as a window of TurnLedger: it is asking until the answer is cut into
\* pieces, and over for the ledger when the AI has failed.
Window == 0

Phase ==
    CASE stage \in {"ai", "answered"} \/ (stage = "dispatch" /\ sendPc = "cut") -> "asking"
      [] stage = "dispatch" /\ sendPc \in {"check", "delay"} -> "telling"
      [] stage = "dispatch" /\ sendPc = "post" -> "saying"
      [] OTHER -> "over"

Untold == Cardinality({k \in next .. Len(plan) : ~Empty(plan[k])})

Ledger ==
    INSTANCE TurnLedger WITH
        Events <- {Window},
        phase <- [w \in {Window} |-> Phase],
        asked <- [w \in {Window} |-> {Window}],
        left <- [w \in {Window} |-> IF Phase \in {"telling", "saying"} THEN Untold ELSE 0],
        hushed <- IF cancelled /\ Phase # "over" THEN {Window} ELSE {},
        waiting <- {}

\* Every step of the adapter, the service and the dispatch engine is a step of a
\* window in the ledger that Pipeline implements, or none: a turn put together
\* from them tells its pieces one at a time and begins none after it was cancelled.
TurnFollowsLedger == [][Ledger!LedgerNext]_(Ledger!ledgerVars)

\* A turn ends, whatever the media hosts, the AI and the CRM do.
TurnEnds == <>(stage = "over")

=============================================================================
