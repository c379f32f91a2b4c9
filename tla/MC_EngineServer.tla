-------------------------- MODULE MC_EngineServer --------------------------
(***************************************************************************)
(* Instances of EngineServer for TLC.                                      *)
(***************************************************************************)
EXTENDS EngineServer

SharedPrompts == {<<1, 1, 1>>, <<1, 1, 2>>}
=============================================================================
