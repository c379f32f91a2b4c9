---------------------------- MODULE MC_LLMEngine ----------------------------
(***************************************************************************)
(* Instances of LLMEngine for TLC.                                         *)
(***************************************************************************)
EXTENDS LLMEngineInv

BlockSymmetry == Permutations(Blocks)

\* Two prompts that share their first block and a longer one.
SharedPrompts == {<<1, 1, 1>>, <<1, 1, 2>>}
\* One block, which two requests of a batch may complete together, and a prompt
\* that begins with it and is longer than the budget.
BlockAndLong == {<<1, 1>>, <<1, 1, 1, 1, 1>>}
=============================================================================
