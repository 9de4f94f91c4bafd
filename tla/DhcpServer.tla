------------------------------ MODULE DhcpServer ------------------------------
(***************************************************************************)
(* The DHCP server of crates/core/src/dhcp.rs: the lease table keyed by    *)
(* hardware address, the set of addresses clients declined, the time of    *)
(* the last packet, and one action per message the listener thread         *)
(* handles.  One thread handles the packets one at a time and holds the    *)
(* locks of the table and of the declined set from its first look at them  *)
(* to its last write, so a handler is one step.                            *)
(*                                                                         *)
(* Addresses are numbers, as the code compares them (ip_to_u32); seconds   *)
(* are numbers, and Tick is the clock.  An allocation is stamped with the  *)
(* time at which its handler starts: the seconds the probes of one         *)
(* DISCOVER take are not modelled.                                         *)
(*                                                                         *)
(* Before some definitions stands a form of them with a mistake in it,     *)
(* which no other definition uses: it shows that a property would catch    *)
(* the mistake.                                                            *)
(***************************************************************************)
EXTENDS Naturals, FiniteSets

CONSTANTS Macs,        \* hardware addresses of the clients
          PoolStart,   \* first address of the pool
          PoolSize,    \* number of addresses in the pool
          ServerIp,    \* the server's own address
          Ips,         \* the addresses a packet can name
          OfferSecs,   \* how long an offer lasts (60 in the code)
          LeaseSecs,   \* how long a confirmed lease lasts (LEASE_SECONDS)
          MaxTime      \* bound of the clock, for model checking

Pool == PoolStart .. (PoolStart + PoolSize - 1)

NoIp == 0   \* 0.0.0.0, and an absent option 50

ASSUME MacsAssumption == IsFiniteSet(Macs)
ASSUME PoolAssumption == /\ PoolStart \in Nat \ {0}
                         /\ PoolSize \in Nat \ {0}
ASSUME IpsAssumption == /\ Ips \subseteq Nat \ {NoIp}
                        /\ Pool \subseteq Ips
                        /\ ServerIp \in Ips
ASSUME TimeAssumption == /\ OfferSecs \in Nat \ {0}
                         /\ LeaseSecs \in Nat \ {0}
                         /\ MaxTime \in Nat \ {0}

VARIABLES leases,        \* leases[m]: the table's entry of m, or NoLease
          bad,           \* addresses declined by some client
          lastActivity,  \* time of the last packet, 0 before the first
          now,           \* now_unix()
          last           \* the packet handled last and its answer

vars == <<leases, bad, lastActivity, now, last>>

-----------------------------------------------------------------------------

Lease == [ip : Pool, expires : Nat, acked : BOOLEAN]
NoLease == [ip |-> NoIp, expires |-> 0, acked |-> FALSE]

\* What a client is told: the answer, and the address it carries.
Answers == {"none", "offer", "ack", "nak", "inform"}
Msgs == {"discover", "request", "release", "decline", "inform", "bootp",
         "other"}

NoPacket == [msg |-> "none", mac |-> "none", ciaddr |-> NoIp, req |-> NoIp,
             answer |-> "none", addr |-> NoIp]

\* handle_packet stores the time of every packet with a valid fixed header,
\* before it looks at the magic cookie.
Packet(msg, m, ciaddr, req, answer, addr) ==
    /\ lastActivity' = now
    /\ now' = now
    /\ last' = [msg |-> msg, mac |-> m, ciaddr |-> ciaddr, req |-> req,
                answer |-> answer, addr |-> addr]

Holds(m, ip) == leases[m] # NoLease /\ leases[m].ip = ip
HeldByOther(m, ip) == \E n \in Macs \ {m} : Holds(n, ip)
HeldByAny(ip) == \E n \in Macs : Holds(n, ip)

InPoolInclusive(ip) == PoolStart <= ip /\ ip <= PoolStart + PoolSize   \* mistake
InPool(ip) == PoolStart <= ip /\ ip < PoolStart + PoolSize

Put(m, ip, secs, acked) ==
    leases' = [leases EXCEPT ![m] = [ip |-> ip, expires |-> now + secs,
                                     acked |-> acked]]

-----------------------------------------------------------------------------
(* DISCOVER: keep the address the client has, or allocate the first free.  *)

\* Mistakes: the declined addresses, or the offers, are forgotten.
KeepsDeclined(m) == leases[m] # NoLease /\ leases[m].expires > now
KeepsConfirmed(m) == /\ leases[m] # NoLease /\ leases[m].acked
                     /\ leases[m].expires > now /\ leases[m].ip \notin bad

\* The client's own lease is offered again while it is unexpired and its
\* address was not declined.
Keeps(m) == /\ leases[m] # NoLease
            /\ leases[m].expires > now
            /\ leases[m].ip \notin bad

\* Mistakes: the client's own entry counts, or expired entries do not.
CandidatesUnheld(m, used) ==
    {ip \in Pool : ip # ServerIp /\ ip \notin bad /\ ~HeldByAny(ip) /\ ip \notin used}
CandidatesExpired(m, used) ==
    {ip \in Pool : /\ ip # ServerIp /\ ip \notin bad /\ ip \notin used
                   /\ \A n \in Macs \ {m} : Holds(n, ip) => leases[n].expires <= now}

\* The addresses allocate_free may choose, if "used" answer the probe.  An
\* address in the table of another client is skipped even when its lease
\* has expired.
Candidates(m, used) ==
    {ip \in Pool : /\ ip # ServerIp
                   /\ ip \notin bad
                   /\ ~HeldByOther(m, ip)
                   /\ ip \notin used}

DiscoverKeep(m) ==
    /\ Keeps(m)
    /\ Put(m, leases[m].ip, OfferSecs, FALSE)
    /\ Packet("discover", m, NoIp, NoIp, "offer", leases[m].ip)
    /\ UNCHANGED bad

DiscoverAllocate(m, used) ==
    /\ ~Keeps(m)
    /\ \E ip \in Candidates(m, used) :
          /\ \A j \in Candidates(m, used) : ip <= j
          /\ Put(m, ip, OfferSecs, FALSE)
          /\ Packet("discover", m, NoIp, NoIp, "offer", ip)
    /\ UNCHANGED bad

DiscoverEmpty(m, used) ==
    /\ ~Keeps(m)
    /\ Candidates(m, used) = {}
    /\ Packet("discover", m, NoIp, NoIp, "none", NoIp)
    /\ UNCHANGED <<leases, bad>>

Discover(m) == \/ DiscoverKeep(m)
               \/ \E used \in SUBSET Pool : \/ DiscoverAllocate(m, used)
                                            \/ DiscoverEmpty(m, used)

-----------------------------------------------------------------------------
(* REQUEST.  ciaddr # 0 is a renewal; otherwise the client selects an       *)
(* address with option 50 and, failing that, is given the lease it has.    *)

\* Option 54 names another server: no answer.
RequestOther(m, ciaddr, req) ==
    /\ Packet("request", m, ciaddr, req, "none", NoIp)
    /\ UNCHANGED <<leases, bad>>

\* Mistakes: the lease has the time of an offer, or an entry that is there
\* keeps its address.
AckBrief(m, ciaddr, req, ip) ==
    /\ Put(m, ip, OfferSecs, TRUE)
    /\ Packet("request", m, ciaddr, req, "ack", ip)
    /\ UNCHANGED bad
AckInPlace(m, ciaddr, req, ip) ==
    /\ Put(m, IF leases[m] = NoLease THEN ip ELSE leases[m].ip, LeaseSecs, TRUE)
    /\ Packet("request", m, ciaddr, req, "ack", ip)
    /\ UNCHANGED bad

Ack(m, ciaddr, req, ip) ==
    /\ Put(m, ip, LeaseSecs, TRUE)
    /\ Packet("request", m, ciaddr, req, "ack", ip)
    /\ UNCHANGED bad

Nak(m, ciaddr, req) ==
    /\ Packet("request", m, ciaddr, req, "nak", NoIp)
    /\ UNCHANGED <<leases, bad>>

Renew(m, ciaddr, req) ==
    /\ ciaddr # NoIp
    /\ IF Holds(m, ciaddr) THEN Ack(m, ciaddr, req, ciaddr)
                           ELSE Nak(m, ciaddr, req)

GrantableToAny(m, ip) == InPool(ip) /\ ip \notin bad   \* mistake

\* The address asked for can be confirmed: in the pool, not declined, and
\* the client's own or nobody's.
Grantable(m, ip) == /\ InPool(ip)
                    /\ ip \notin bad
                    /\ Holds(m, ip) \/ ~HeldByAny(ip)

\* What a client gets that asks for an address it cannot have.
FallbackIp(m, req) == leases[m].ip

Select(m, req) ==
    /\ Grantable(m, req)
    /\ Ack(m, NoIp, req, req)

Fallback(m, req) ==
    /\ ~Grantable(m, req)
    /\ leases[m] # NoLease
    /\ Ack(m, NoIp, req, FallbackIp(m, req))

Refuse(m, req) ==
    /\ ~Grantable(m, req)
    /\ leases[m] = NoLease
    /\ Nak(m, NoIp, req)

Request(m) == \E ciaddr, req \in Ips \cup {NoIp} :
                 \/ RequestOther(m, ciaddr, req)
                 \/ Renew(m, ciaddr, req)
                 \/ ciaddr = NoIp /\ Select(m, req)
                 \/ ciaddr = NoIp /\ Fallback(m, req)
                 \/ ciaddr = NoIp /\ Refuse(m, req)

-----------------------------------------------------------------------------
(* The other messages.                                                     *)

\* The entry goes; an address named by ciaddr is fit for use again.
Release(m) == \E ciaddr \in Ips \cup {NoIp} :
    /\ leases' = [leases EXCEPT ![m] = NoLease]
    /\ bad' = bad \ {ciaddr}
    /\ Packet("release", m, ciaddr, NoIp, "none", NoIp)

\* The address is marked, the client's entry stays.
Decline(m) == \E req \in Ips \cup {NoIp} :
    /\ bad' = bad \cup ({req} \ {NoIp})
    /\ Packet("decline", m, NoIp, req, "none", NoIp)
    /\ UNCHANGED leases

\* The answer, an OFFER by its type, carries no address.
Inform(m) == \E ciaddr \in Ips \cup {NoIp} :
    /\ Packet("inform", m, ciaddr, NoIp, "inform", NoIp)
    /\ UNCHANGED <<leases, bad>>

\* A BOOTREQUEST with a valid header that is not DHCP (no magic cookie or no
\* message type), or DHCP of a type the server does not handle.
Ignore(m) == \E msg \in {"bootp", "other"} :
    /\ Packet(msg, m, NoIp, NoIp, "none", NoIp)
    /\ UNCHANGED <<leases, bad>>

Tick == /\ now < MaxTime
        /\ now' = now + 1
        /\ UNCHANGED <<leases, bad, lastActivity, last>>

-----------------------------------------------------------------------------

\* The tables seed_leases can leave: a saved table, of which the records
\* that expired are dropped; nothing is confirmed in this session.
Seeded(table) ==
    /\ \A m \in Macs : \/ table[m] = NoLease
                       \/ /\ table[m].ip \in Pool
                          /\ table[m].expires > now
                          /\ ~table[m].acked
    /\ \A m, n \in Macs :
          (m # n /\ table[m] # NoLease) => table[m].ip # table[n].ip

Init == /\ now = 1
        /\ leases \in [Macs -> [ip : Pool, expires : 2 .. LeaseSecs + 1,
                                acked : {FALSE}] \cup {NoLease}]
        /\ Seeded(leases)
        /\ bad = {}
        /\ lastActivity = 0
        /\ last = NoPacket

Next == \/ \E m \in Macs : \/ Discover(m)
                           \/ Request(m)
                           \/ Release(m)
                           \/ Decline(m)
                           \/ Inform(m)
                           \/ Ignore(m)
        \/ Tick

Spec == Init /\ [][Next]_vars

-----------------------------------------------------------------------------
(* Properties.                                                             *)

\* Every table entry, declined address and answer has its type; table
\* entries lie in the pool.
TypeOK ==
    /\ leases \in [Macs -> Lease \cup {NoLease}]
    /\ bad \subseteq Ips
    /\ lastActivity \in Nat
    /\ now \in Nat
    /\ last \in [msg : Msgs, mac : Macs, ciaddr : Ips \cup {NoIp},
                 req : Ips \cup {NoIp}, answer : Answers,
                 addr : Ips \cup {NoIp}] \cup {NoPacket}

\* No two clients are in the table with one address, whatever requests they
\* make, release or decline, and whatever table the session began with.
UniqueAddress ==
    \A m, n \in Macs :
        (m # n /\ leases[m] # NoLease) => ~Holds(n, leases[m].ip)

\* An OFFER or ACK on its way to a client names the address the table has
\* for that client, and no other client holds it: the answer is built after
\* the locks are dropped, from the address the locked part settled on.
AnswerBacked ==
    last.answer \in {"offer", "ack"} =>
        /\ Holds(last.mac, last.addr)
        /\ ~HeldByOther(last.mac, last.addr)

\* No OFFER carries an address that some client declined and nobody
\* released since (dhcp.rs:6, and the two guards of the DISCOVER path).
OfferNeverDeclined ==
    last.msg = "discover" /\ last.answer = "offer" => last.addr \notin bad

\* A client that discovers again, after a reboot or a lost answer, while
\* its lease runs is offered the address it has, unless it was declined.
StickyOffer ==
    [][ \A m \in Macs :
          (/\ last' # last /\ last'.msg = "discover" /\ last'.mac = m
           /\ leases[m] # NoLease
           /\ leases[m].expires > now
           /\ leases[m].ip \notin bad)
          => last'.answer = "offer" /\ last'.addr = leases[m].ip ]_vars

\* With no address declined and none answering the probe, a pool that is no
\* smaller than the set of clients is never reported empty, although the
\* entries of clients that went away are never reclaimed.
PoolSuffices ==
    [][ \A m \in Macs :
          (/\ Cardinality(Macs) <= PoolSize
           /\ ServerIp \notin Pool
           /\ bad = {})
          => ~DiscoverEmpty(m, {}) ]_vars

\* The table implements the registry: an address changes hands only by way
\* of being free, so neither an expired lease nor a REQUEST for a foreign
\* address takes it from its holder.
Registry == INSTANCE LeaseRegistry WITH addr <- [m \in Macs |-> leases[m].ip]
ImplementsRegistry == Registry!Spec

=============================================================================
