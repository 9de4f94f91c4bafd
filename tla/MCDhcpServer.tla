---------------------------- MODULE MCDhcpServer ----------------------------
(***************************************************************************)
(* DhcpServer for TLC: two clients and a pool of two addresses, next to    *)
(* the server's own.                                                       *)
(***************************************************************************)
EXTENDS DhcpServer, TLC

CONSTANTS m1, m2

MCMacs == {m1, m2}
MCIps == 1 .. 4   \* 1 is the server, 2 and 3 are the pool, 4 is beyond it

\* The server does not compare hardware addresses, and every property is a
\* safety property that treats them alike.
Symmetry == Permutations(MCMacs)
=============================================================================
