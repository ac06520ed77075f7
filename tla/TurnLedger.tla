----------------------------- MODULE TurnLedger -----------------------------
(***************************************************************************)
(* What the service promises the customer of one pair, told without locks, *)
(* replicas, Redis or timers: the life of each debounce window, named by   *)
(* the event that opens it.  A window is put to the AI at most once, with  *)
(* all that is waiting then; its answer is told part by part, and nothing  *)
(* more is begun once it is hushed.  A window may get lost; it does not    *)
(* come back.                                                              *)
(***************************************************************************)
EXTENDS Naturals

CONSTANT Events

VARIABLES
    phase,      \* event -> where its window is
    asked,      \* event -> the messages its window put to the AI
    left,       \* event -> parts of the answer still to be told
    hushed,     \* windows superseded while they were asking or telling
    waiting     \* messages that wait to be put to the AI

ledgerVars == <<phase, asked, left, hushed, waiting>>

Phases == {"new", "open", "lost", "asking", "telling", "saying", "over"}
Live == {"asking", "telling", "saying"}

LedgerInit ==
    /\ phase = [e \in Events |-> "new"]
    /\ asked = [e \in Events |-> {}]
    /\ left = [e \in Events |-> 0]
    /\ hushed = {}
    /\ waiting = {}

-----------------------------------------------------------------------------
(* One step of one window. *)

Moves(e, from, to) == phase[e] \in from /\ phase'[e] = to

SameQuestion(e) == asked'[e] = asked[e]
SameAnswer(e) == left'[e] = left[e]

Rest(e) == phase'[e] = phase[e] /\ SameQuestion(e) /\ SameAnswer(e)

Open(e) == Moves(e, {"new"}, "open") /\ SameQuestion(e) /\ SameAnswer(e)

Lose(e) == Moves(e, {"new", "open"}, "lost") /\ SameQuestion(e) /\ SameAnswer(e)

\* Nothing that waits is left behind.
Ask(e) ==
    /\ Moves(e, {"new", "open"}, "asking")
    /\ waiting \subseteq asked'[e]
    /\ SameAnswer(e)

\* An answer of some parts; it may come though the window was just hushed.
Answer(e) == Moves(e, {"asking"}, "telling") /\ SameQuestion(e)

BeginPart(e) ==
    /\ Moves(e, {"telling"}, "saying")
    /\ e \notin hushed
    /\ left[e] > 0
    /\ SameQuestion(e)
    /\ SameAnswer(e)

EndPart(e) ==
    /\ Moves(e, {"saying"}, "telling")
    /\ left'[e] = left[e] - 1
    /\ SameQuestion(e)

End(e) ==
    /\ Moves(e, Live, "over")
    /\ left'[e] <= left[e]
    /\ SameQuestion(e)

WindowStep(e) ==
    \/ Rest(e) \/ Open(e) \/ Lose(e) \/ Ask(e)
    \/ Answer(e) \/ BeginPart(e) \/ EndPart(e) \/ End(e)

-----------------------------------------------------------------------------

\* Nothing unhushes a window.
HushStep == \A e \in hushed : phase'[e] \in Live => e \in hushed'

\* A message more, or none any more.
WaitStep ==
    \/ waiting' \in {waiting, {}}
    \/ \E e \in Events : waiting' = waiting \cup {e}

\* Replicas come and go with several windows at once, and what wipes the
\* messages that wait may lose a window.
LedgerNext ==
    /\ \A e \in Events : WindowStep(e)
    /\ HushStep
    /\ WaitStep

LedgerSpec == LedgerInit /\ [][LedgerNext]_ledgerVars

=============================================================================
