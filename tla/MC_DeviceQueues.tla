-------------------------- MODULE MC_DeviceQueues --------------------------
(***************************************************************************)
(* Instances of DeviceQueues for TLC: two layers, so that a layer finds    *)
(* what the one before it left, and two chunks of rows.                    *)
(***************************************************************************)
EXTENDS DeviceQueues

DenseModels ==
  [backend : {"vulkan"}, layers : {2}, bias : BOOLEAN, norms : BOOLEAN, ffn : {"dense"},
   shared : {FALSE}, gate : {FALSE}, chunks : {1}, transferFamily : {FALSE}]
\* Without a shared expert the fused path zeroes hidden_dev too early, see the README.
FusedModels ==
  [backend : {"vulkan"}, layers : {2}, bias : {FALSE}, norms : {TRUE}, ffn : {"fused"},
   shared : {TRUE}, gate : BOOLEAN, chunks : {1, 2}, transferFamily : BOOLEAN]
\* With two kernels the experts of the next chunk replace those of the chunk that
\* is still queued, see the README: here the rows fit in one chunk.
RoutedModels ==
  [backend : {"vulkan"}, layers : {2}, bias : {TRUE}, norms : {FALSE}, ffn : {"routed"},
   shared : BOOLEAN, gate : {TRUE}, chunks : {1}, transferFamily : BOOLEAN]
HipModels ==
  [backend : {"hip"}, layers : {2}, bias : {TRUE}, norms : {TRUE}, ffn : {"dense", "routed"},
   shared : BOOLEAN, gate : {TRUE}, chunks : {2}, transferFamily : {FALSE}]

AllModels == DenseModels \cup FusedModels \cup RoutedModels \cup HipModels

\* The hypothesis of the theorems of DeviceQueuesProofs.
ASSUME TheoremsApply == SoundModels
=============================================================================
