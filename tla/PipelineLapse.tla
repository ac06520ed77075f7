---------------------------- MODULE PipelineLapse ----------------------------
(***************************************************************************)
(* Pipeline without the assumption that whoever holds the lock is done     *)
(* with it before its TTL runs out.                                        *)
(***************************************************************************)
EXTENDS Pipeline

\* The 8 seconds of the redsync mutex run out on a holder that is still at work:
\* nothing extends it, and no Redis command looks at it.
LockLapses ==
    /\ lock # Free
    /\ Holding(lock)
    /\ lock' = Free
    /\ UNCHANGED <<keys, locals, pc, snap, turns, counts>>

LapseSpec == Init /\ [][Next \/ LockLapses]_vars

=============================================================================
