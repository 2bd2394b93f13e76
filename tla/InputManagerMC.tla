---------------------------- MODULE InputManagerMC ----------------------------
(***************************************************************************)
(* Instantiates InputManager for TLC.                                      *)
(***************************************************************************)
EXTENDS InputManager
=============================================================================
