---------------------------- MODULE MCFlashSession ----------------------------
(***************************************************************************)
(* FlashSession for TLC; which threads and faults take part is in the      *)
(* configurations.                                                         *)
(***************************************************************************)
EXTENDS FlashSession
=============================================================================
