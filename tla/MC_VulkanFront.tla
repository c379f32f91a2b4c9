--------------------------- MODULE MC_VulkanFront ---------------------------
(***************************************************************************)
(* Instances of VulkanFront for TLC.                                       *)
(***************************************************************************)
EXTENDS VulkanFront

ShortPrompts == {<<1>>, <<2, 1>>}
RepeatingCorpus == <<1, 2, 1, 3>>
AllModes == {"repl", "bench", "server"}
=============================================================================
