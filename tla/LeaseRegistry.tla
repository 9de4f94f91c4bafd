---------------------------- MODULE LeaseRegistry ----------------------------
(***************************************************************************)
(* What a DHCP server promises to the clients of one network segment: an   *)
(* address belongs to at most one hardware address, and it changes hands   *)
(* only by way of being free.  How an address comes to be chosen, how long *)
(* it lasts and which message causes a change are the server's business.   *)
(***************************************************************************)
CONSTANTS Macs,     \* hardware addresses
          Pool,     \* the addresses that can be handed out
          NoIp      \* the value of a hardware address that owns nothing

VARIABLE addr       \* addr[m]: the address m owns, or NoIp

Free(ip) == \A m \in Macs : addr[m] # ip

Init == /\ addr \in [Macs -> Pool \cup {NoIp}]
        /\ \A m, n \in Macs : (m # n /\ addr[m] # NoIp) => addr[m] # addr[n]

\* m takes a free address, and gives up the one it had.
Take(m) == \E ip \in Pool : Free(ip) /\ addr' = [addr EXCEPT ![m] = ip]

\* m gives up its address.
Leave(m) == addr[m] # NoIp /\ addr' = [addr EXCEPT ![m] = NoIp]

Next == \E m \in Macs : Take(m) \/ Leave(m)

Spec == Init /\ [][Next]_addr
=============================================================================
