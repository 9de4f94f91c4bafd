--------------------------- MODULE MCAdapterRestore ---------------------------
(***************************************************************************)
(* AdapterRestore for TLC.                                                 *)
(***************************************************************************)
EXTENDS AdapterRestore
=============================================================================
