---------------------------- MODULE MCTftpServer ----------------------------
(***************************************************************************)
(* TftpServer for TLC; the sizes are in the configurations.                *)
(***************************************************************************)
EXTENDS TftpServer
=============================================================================
