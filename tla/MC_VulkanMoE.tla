---------------------------- MODULE MC_VulkanMoE ----------------------------
(***************************************************************************)
(* Instances of VulkanMoE for TLC.  With one expert per row the pool has   *)
(* three slots, and a chunk is three rows.                                 *)
(***************************************************************************)
EXTENDS VulkanMoE

FusedModel ==
  [fused |-> TRUE, shared |-> TRUE, depth |-> 1, rows |-> {1, 4}, routed |-> Experts,
   garbage |-> {0}]
TwoDispatchModel ==
  [fused |-> FALSE, shared |-> FALSE, depth |-> 2, rows |-> {1}, routed |-> {0, 1, 2},
   garbage |-> {0, None}]
\* One pass of three rows, and a chunk of three rows, evict on the way.
ChunkModel ==
  [fused |-> FALSE, shared |-> TRUE, depth |-> 1, rows |-> {3}, routed |-> Experts,
   garbage |-> {None}]

\* The fused kernel with several chunks, two dispatches per layer with one.
AllModels == {FusedModel, TwoDispatchModel, ChunkModel}
=============================================================================
