--------------------------- MODULE PipelineLedger ---------------------------
(***************************************************************************)
(* Pipeline implements TurnLedger: where the ledger's windows are found in *)
(* Redis, in the hands of a poller or of Process, and among the turns.     *)
(***************************************************************************)
EXTENDS Pipeline

\* The turn launched for the window of e, if there is one.
HasTurn(e) == \E t \in Turns : turn[t].window = e
TurnOf(e) == CHOOSE t \in Turns : turn[t].window = e

\* advanceToAI has read the window of e from Redis and not launched it yet.
Claimed(e) ==
    \E i \in Instances :
        pc[i] \in {"recheckTimer", "getbuf", "getatt", "setai"} /\ snap[i].window = e

IsOpen(e) == (state.stage = "debounce" /\ state.cfg = e) \/ Claimed(e)

\* Process is not yet past the calls that can open a window for e.
CanOpen(e) == pc[e] \in {"new", "accepted"} \cup (CriticalPcs \ {"return", "fail"})

PhaseOfTurn(t) ==
    CASE turn[t].pc \in {"start", "call", "failclear", "notify"} -> "asking"
      [] turn[t].pc \in {"setdispatch", "send"}         -> "telling"
      [] turn[t].pc = "post"                            -> "saying"
      [] OTHER                                          -> "over"

Phase(e) ==
    IF HasTurn(e) THEN PhaseOfTurn(TurnOf(e))
    ELSE IF IsOpen(e) THEN "open"
    ELSE IF CanOpen(e) THEN "new" ELSE "lost"

Ledger ==
    INSTANCE TurnLedger WITH
        phase <- [e \in Events |-> Phase(e)],
        asked <- [e \in Events |-> IF HasTurn(e) THEN turn[TurnOf(e)].text ELSE {}],
        left <- [e \in Events |-> IF HasTurn(e) THEN turn[TurnOf(e)].left ELSE 0],
        hushed <- {e \in Events : HasTurn(e) /\ turn[TurnOf(e)].pc \in LivePcs
                                    /\ Interrupted(TurnOf(e))},
        waiting <- buffer

\* The pipeline implements the ledger: whatever replicas, crashes, faults and
\* superseding messages do to it, a window is put to the AI at most once and with
\* every message that waits, is told no more parts than its answer has, begins
\* none after it was superseded, and does not come back once it is lost.
ImplementsLedger == Ledger!LedgerSpec

=============================================================================
