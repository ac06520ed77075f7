--------------------------- MODULE PoliteCustomer ---------------------------
(***************************************************************************)
(* Pipeline with a customer who waits for the end of one turn before       *)
(* writing the next message: what is promised where nothing races.         *)
(***************************************************************************)
EXTENDS Pipeline

\* Nothing is under way for the pair.
Quiet ==
    /\ \A e \in Events : pc[e] \in RestingPcs
    /\ \A i \in Instances : pc[i] = "poll"
    /\ \A t \in Turns : turn[t].pc \notin LivePcs
    /\ state.stage # "debounce"

OneAtATime == \A e \in Events : host[e] = None /\ host'[e] # None => Quiet

PoliteSpec == Init /\ [][Next /\ OneAtATime]_vars /\ Fairness

\* A turn answers the message that opened its window and nothing left over from
\* an earlier one: however the earlier turn ended (answered, AI error, failed
\* postback) it cleared text and media, on whichever replica it ran.
TurnIsItsMessage ==
    \A t \in Turns : turn[t].pc # "unused" =>
        /\ turn[t].text = {turn[t].window}
        /\ turn[t].media \subseteq turn[t].text

\* Every message of such a customer that is accepted gets a turn of its own
\* that runs to its end, however the turns before it ended.
EveryMessageAnswered ==
    \A e \in Events :
        pc[e] = "accepted" ~> \E t \in Turns : turn[t].text = {e} /\ turn[t].pc = "ended"

=============================================================================
