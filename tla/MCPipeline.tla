---------------------------- MODULE MCPipeline ----------------------------
(***************************************************************************)
(* Pipeline for TLC: the items and the concurrent requests are             *)
(* interchangeable, and so are the processes of a service, in the runs     *)
(* that check no liveness.                                                 *)
(***************************************************************************)
EXTENDS Pipeline, TLC

Interchangeable == Permutations(Items) \cup Permutations(Analyzers)
                   \cup Permutations(Dispatchers) \cup Permutations(Admins)
=============================================================================
