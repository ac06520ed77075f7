---------------------------- MODULE MCPipeline ----------------------------
(***************************************************************************)
(* Small instances of Pipeline for TLC.                                    *)
(***************************************************************************)
EXTENDS PipelineLedger, PipelineLapse, PoliteCustomer, TLC

Interchangeable == Permutations(Events) \cup Permutations(Instances)

=============================================================================
