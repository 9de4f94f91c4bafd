---------------------------- MODULE MCDhcpNetwork ----------------------------
(***************************************************************************)
(* DhcpNetwork for TLC: two clients and a pool of two addresses.           *)
(***************************************************************************)
EXTENDS DhcpNetwork, TLC

CONSTANTS m1, m2

MCMacs == {m1, m2}
MCIps == 1 .. 3   \* the server's own address and the pool

\* Every property is a safety property that treats the clients alike.
Symmetry == Permutations(MCMacs)

\* No step and no property depends on the packet handled last or on whether
\* a lease was acknowledged.
Table == [m \in MCMacs |-> <<leases[m].ip, leases[m].expires>>]
View == <<Table, bad, now, phase, file, sessions, up, client, doubtful>>
=============================================================================
