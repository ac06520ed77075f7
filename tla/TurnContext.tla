---------------------------- MODULE TurnContext ----------------------------
(***************************************************************************)
(* The context a turn runs on: pipelineEntry.ctx in runAIStage and         *)
(* runDispatchStage, noticeCtx in sendAIFailureNotice.  The AI call and    *)
(* the dispatch are handed it and look at it; neither makes it done.       *)
(***************************************************************************)
VARIABLE cancelled      \* the context is done

ContextInit == cancelled = FALSE

\* cancelPair and Shutdown call the cancel function; the notice's context ends
\* by its timeout.  Either may happen at any time.
Cancel ==
    /\ ~cancelled
    /\ cancelled' = TRUE

=============================================================================
