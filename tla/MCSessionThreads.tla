--------------------------- MODULE MCSessionThreads ---------------------------
(***************************************************************************)
(* SessionThreads for TLC: there is one instance, and no bound.            *)
(***************************************************************************)
EXTENDS SessionThreads
=============================================================================
