-------------------------- MODULE DhcpNetworkProofs --------------------------
(***************************************************************************)
(* Proofs about DhcpNetwork, for any finite set of clients, any pool, any  *)
(* length of the socket's queue and any number of sessions.                *)
(*                                                                         *)
(* A client believes in its address as long as its lease runs, and the     *)
(* server must keep the address for it although any datagram of the        *)
(* client, however old, may still be in the queue.  What makes this true   *)
(* is the order of the queue: Fits says, for what a client waits for,      *)
(* which of its datagrams can be left there.  A client that has a lease    *)
(* has nothing in the queue but requests for that very address, so no      *)
(* DISCOVER and no RELEASE can shorten or drop the entry (ServeTable); it  *)
(* gets there because datagrams of a client's present exchange come after  *)
(* all the others (Fresh) and its requests after its discovers (AsksLast). *)
(* Backed is the server's half: the table, or between two sessions the     *)
(* file, has the address for at least as long as the client uses it, and   *)
(* since no address is in either of them twice (Unique), no two clients    *)
(* use the same one.  The times are bounded (TimesOK) so that a renewal    *)
(* never ends earlier than what the client counts with.                    *)
(***************************************************************************)
EXTENDS DhcpNetwork, SequenceTheorems, FiniteSetTheorems, TLAPS

\* The types of TypeOK, by name.
Datagrams == [msg : {"discover", "request", "release", "decline"},
              mac : Macs, ciaddr : Pool \cup {NoIp},
              req : Pool \cup {NoIp}, current : BOOLEAN]
Clients == [st : {"off", "selecting", "requesting", "bound", "renewing"},
            ip : Pool \cup {NoIp}, sent : Nat, until : Nat]
Leases == [ip : Pool, expires : Nat, acked : BOOLEAN]
Records == [ip : Pool, expires : Nat, acked : {FALSE}]

\* The datagram asks for ip, to renew it or after a restart or an offer.
AsksFor(d, ip) == d.msg = "request" /\ (d.ciaddr = ip \/ (d.ciaddr = NoIp /\ d.req = ip))

\* In the queue q the datagrams of the exchange m is in come last.
Fresh(q, m) ==
    \A i, j \in 1 .. Len(q) :
        i < j /\ q[i].mac = m /\ q[j].mac = m /\ q[i].current => q[j].current

\* Before it has an offer, all m sent in this exchange are discovers.
OnlyDiscovers(q, m) ==
    \A i \in 1 .. Len(q) : q[i].mac = m /\ q[i].current => q[i].msg = "discover"

\* After the offer of ip it asked for nothing else, and not before it discovered.
AsksLast(q, m, ip) ==
    /\ \A i \in 1 .. Len(q) : q[i].mac = m /\ q[i].current =>
          q[i].msg = "discover" \/ AsksFor(q[i], ip)
    /\ \A i, j \in 1 .. Len(q) :
          i < j /\ q[i].mac = m /\ q[j].mac = m /\ q[i].current /\ q[i].msg = "request"
          => q[j].msg = "request"

\* Whatever is left of m, of this exchange or another, asks for ip.
AllAsk(q, m, ip) ==
    \A i \in 1 .. Len(q) : q[i].mac = m => AsksFor(q[i], ip)

\* The datagrams of m in q fit its state c.
Fits(q, c, m) ==
    /\ Fresh(q, m)
    /\ c.st = "selecting" => OnlyDiscovers(q, m)
    /\ c.st = "requesting" => AsksLast(q, m, c.ip)
    /\ c.st \in {"bound", "renewing"} => AllAsk(q, m, c.ip)

\* The queue fits every client that is not excepted from the properties.
QueueOK == \A m \in Macs \ doubtful : Fits(up, client[m], m)

\* No address is in the table twice.
Unique(table) == \A m, n \in Macs : m # n /\ table[m] # NoLease => table[m].ip # table[n].ip

\* Nothing was sent later than now, and nothing lasts longer than a lease from now.
TimesOK ==
    /\ now \in Nat
    /\ \A m \in Macs : /\ client[m].sent <= now
                       /\ client[m].until <= now + LeaseSecs
                       /\ leases[m].expires <= now + LeaseSecs
                       /\ file[m].expires <= now + LeaseSecs

\* The entry is for the address of the client c, and lasts as long as c counts with.
Backs(table, c) == table # NoLease /\ table.ip = c.ip /\ table.expires >= c.until

\* The table backs the clients, and between two sessions the file does.
Backed == \A m \in Macs \ doubtful :
    Uses(m) => Backs(IF phase = "closed" THEN file[m] ELSE leases[m], client[m])

\* TypeOK, with the names above.
TypesOK ==
    /\ leases \in [Macs -> Leases \cup {NoLease}]
    /\ bad \subseteq Ips
    /\ phase \in {"closed", "open", "saved"}
    /\ file \in [Macs -> Records \cup {NoLease}]
    /\ sessions \in 0 .. MaxSessions
    /\ up \in Seq(Datagrams) /\ Len(up) <= Cap
    /\ client \in [Macs -> Clients]
    /\ doubtful \subseteq Macs

\* The inductive invariant.
Inv == TypesOK /\ TimesOK /\ Unique(leases) /\ Unique(file) /\ QueueOK /\ Backed

-----------------------------------------------------------------------------

\* TypesOK is what the runs check as TypeOK.
LEMMA Types == TypeOK <=> TypesOK
BY DEF TypeOK, TypesOK, Datagrams, Clients, Leases, Records, Server!Lease, Pool

\* The pool is a set of non-zero addresses, in_pool decides membership in it, and the empty
\* entry is no lease.
LEMMA PoolFacts ==
    /\ Pool \subseteq Nat \ {NoIp} /\ Pool \subseteq Ips
    /\ \A ip \in Pool \cup {NoIp} : Server!InPool(ip) <=> ip \in Pool
    /\ NoLease.ip = NoIp /\ NoLease.expires = 0 /\ NoIp = 0
    /\ \A l \in Leases : l # NoLease
    /\ Server!NoLease = NoLease /\ Server!NoIp = NoIp /\ Server!Pool = Pool
BY ServerAssumption DEF Pool, NoIp, NoLease, Leases, Server!Pool, Server!NoIp,
                        Server!InPool, Server!NoLease

\* An entry written for m, of an address nobody else holds.
LEMMA TablePut ==
    ASSUME leases \in [Macs -> Leases \cup {NoLease}], Unique(leases),
           NEW m \in Macs, NEW new \in Leases, ~Server!HeldByOther(m, new.ip),
           leases' = [leases EXCEPT ![m] = new]
    PROVE  /\ leases' \in [Macs -> Leases \cup {NoLease}] /\ Unique(leases')
           /\ leases'[m] = new /\ \A n \in Macs \ {m} : leases'[n] = leases[n]
<1>1. leases'[m] = new /\ \A n \in Macs \ {m} : leases'[n] = leases[n]
  OBVIOUS
<1>2. new # NoLease
  BY PoolFacts
<1>3. \A n \in Macs \ {m} : leases[n] # NoLease => leases[n].ip # new.ip
  BY PoolFacts DEF Server!HeldByOther, Server!Holds
<1>4. ASSUME NEW n \in Macs, NEW k \in Macs, n # k, leases'[n] # NoLease
      PROVE  leases'[n].ip # leases'[k].ip
  <2>1. CASE n = m
    <3>1. leases'[n].ip = new.ip /\ leases'[k] = leases[k] /\ new.ip \in Pool
      BY <1>1, <1>4, <2>1 DEF Leases
    <3>2. CASE leases[k] = NoLease
      BY <3>1, <3>2, PoolFacts
    <3>3. CASE leases[k] # NoLease
      BY <1>3, <1>4, <2>1, <3>1, <3>3
    <3>4. QED
      BY <3>2, <3>3
  <2>2. CASE k = m
    BY <1>1, <1>3, <1>4, <2>2
  <2>3. CASE n # m /\ k # m
    BY <1>1, <1>4, <2>3 DEF Unique
  <2>4. QED
    BY <2>1, <2>2, <2>3
<1>5. Unique(leases')
  BY <1>4 DEF Unique
<1>6. QED
  BY <1>1, <1>5

\* What a client holds nobody else does.
LEMMA HeldOnce ==
    ASSUME leases \in [Macs -> Leases \cup {NoLease}], Unique(leases),
           NEW m \in Macs, leases[m] # NoLease
    PROVE  leases[m].ip \in Pool /\ ~Server!HeldByOther(m, leases[m].ip)
BY PoolFacts DEF Unique, Server!HeldByOther, Server!Holds, Leases

\* The table after a datagram: as before, without the client's entry, or with an entry for
\* an address nobody else holds.
Unmoved == leases' = leases /\ reply'.answer \in {"none", "nak"}
Gone(m) == leases' = [leases EXCEPT ![m] = NoLease] /\ reply'.answer = "none"
Given(m, ip, secs) ==
    /\ ip \in Pool /\ ~Server!HeldByOther(m, ip) /\ reply'.addr = ip
    /\ \E acked \in BOOLEAN :
          leases' = [leases EXCEPT ![m] = [ip |-> ip, expires |-> now + secs, acked |-> acked]]

\* What a packet leaves in the record of the answer.
LEMMA PacketFields ==
    ASSUME NEW msg, NEW m, NEW ciaddr, NEW req, NEW answer, NEW addr,
           Server!Packet(msg, m, ciaddr, req, answer, addr)
    PROVE  /\ now' = now /\ reply'.answer = answer /\ reply'.addr = addr
           /\ reply'.ciaddr = ciaddr /\ reply'.req = req
BY DEF Server!Packet

\* What a DISCOVER does.
LEMMA DiscoverShape ==
    ASSUME leases \in [Macs -> Leases \cup {NoLease}], Unique(leases),
           NEW m \in Macs, NEW used,
           \/ Server!DiscoverKeep(m) \/ Server!DiscoverAllocate(m, used)
           \/ Server!DiscoverEmpty(m, used)
    PROVE  /\ now' = now /\ bad' = bad
           /\ \/ Unmoved
              \/ reply'.answer = "offer" /\ \E ip \in Pool : Given(m, ip, OfferSecs)
<1>1. CASE Server!DiscoverKeep(m)
  <2>1. leases[m].ip \in Pool /\ ~Server!HeldByOther(m, leases[m].ip)
    BY <1>1, HeldOnce, PoolFacts DEF Server!DiscoverKeep, Server!Keeps
  <2>2. Server!Put(m, leases[m].ip, OfferSecs, FALSE) /\ bad' = bad
        /\ now' = now /\ reply'.answer = "offer" /\ reply'.addr = leases[m].ip
    BY <1>1, PacketFields DEF Server!DiscoverKeep
  <2>3. Given(m, leases[m].ip, OfferSecs)
    BY <2>1, <2>2 DEF Given, Server!Put
  <2>4. QED
    BY <2>1, <2>2, <2>3
<1>2. CASE Server!DiscoverAllocate(m, used)
  <2>1. PICK ip \in Pool : /\ ip \in Server!Candidates(m, used)
                           /\ Server!Put(m, ip, OfferSecs, FALSE)
                           /\ Server!Packet("discover", m, Server!NoIp, Server!NoIp, "offer", ip)
    BY <1>2, PoolFacts DEF Server!DiscoverAllocate, Server!Candidates
  <2>2. now' = now /\ reply'.answer = "offer" /\ reply'.addr = ip
    BY <2>1, PacketFields
  <2>3. ~Server!HeldByOther(m, ip)
    BY <2>1 DEF Server!Candidates
  <2>4. Given(m, ip, OfferSecs)
    BY <2>1, <2>2, <2>3 DEF Given, Server!Put
  <2>5. QED
    BY <1>2, <2>2, <2>4 DEF Server!DiscoverAllocate
<1>3. CASE Server!DiscoverEmpty(m, used)
  BY <1>3, PacketFields DEF Server!DiscoverEmpty, Unmoved
<1>4. QED
  BY <1>1, <1>2, <1>3

\* What an acknowledgement does.
LEMMA AckShape ==
    ASSUME leases \in [Macs -> Leases \cup {NoLease}], NEW m \in Macs,
           NEW ip \in Pool, ~Server!HeldByOther(m, ip), NEW ciaddr, NEW req,
           Server!Ack(m, ciaddr, req, ip)
    PROVE  /\ now' = now /\ bad' = bad /\ reply'.answer = "ack"
           /\ Given(m, ip, LeaseSecs)
<1>1. now' = now /\ bad' = bad /\ reply'.answer = "ack" /\ reply'.addr = ip
  BY PacketFields DEF Server!Ack
<1>2. Server!Put(m, ip, LeaseSecs, TRUE)
  BY DEF Server!Ack
<1>3. QED
  BY <1>1, <1>2 DEF Given, Server!Put

\* What a REQUEST does: a client that asks for the address it holds gets it.
LEMMA RequestShape ==
    ASSUME leases \in [Macs -> Leases \cup {NoLease}], Unique(leases),
           NEW d \in Datagrams, d.msg = "request",
           \/ Server!Renew(d.mac, d.ciaddr, d.req)
           \/ /\ d.ciaddr = NoIp
              /\ \/ Server!Select(d.mac, d.req) \/ Server!Fallback(d.mac, d.req)
                 \/ Server!Refuse(d.mac, d.req)
    PROVE  /\ now' = now /\ bad' = bad
           /\ \/ Unmoved
              \/ /\ reply'.answer = "ack"
                 /\ \E ip \in Pool :
                       /\ Given(d.mac, ip, LeaseSecs)
                       /\ \A own \in Pool : AsksFor(d, own) /\ Server!Holds(d.mac, own)
                                            => ip = own
<1> DEFINE m == d.mac
<1>1. m \in Macs /\ d.ciaddr \in Pool \cup {NoIp} /\ d.req \in Pool \cup {NoIp}
  BY DEF Datagrams
<1>2. \A ip : Server!Holds(m, ip) => ip \in Pool /\ ip = leases[m].ip /\ ~Server!HeldByOther(m, ip)
  BY <1>1, HeldOnce, PoolFacts DEF Server!Holds
<1>3. CASE Server!Renew(m, d.ciaddr, d.req)
  <2>1. CASE Server!Holds(m, d.ciaddr)
    <3>1. Server!Ack(m, d.ciaddr, d.req, d.ciaddr) /\ d.ciaddr # NoIp
      BY <1>3, <2>1, PoolFacts DEF Server!Renew
    <3>2. /\ now' = now /\ bad' = bad /\ reply'.answer = "ack"
          /\ Given(m, d.ciaddr, LeaseSecs)
      BY <1>1, <1>2, <2>1, <3>1, AckShape
    <3>3. QED
      BY <1>2, <2>1, <3>1, <3>2 DEF AsksFor
  <2>2. CASE ~Server!Holds(m, d.ciaddr)
    <3>1. Server!Nak(m, d.ciaddr, d.req)
      BY <1>3, <2>2 DEF Server!Renew
    <3>2. QED
      BY <3>1, PacketFields DEF Server!Nak, Unmoved
  <2>3. QED
    BY <2>1, <2>2
<1>4. CASE d.ciaddr = NoIp /\ Server!Select(m, d.req)
  <2>1. d.req \in Pool /\ (Server!Holds(m, d.req) \/ ~Server!HeldByAny(d.req))
    BY <1>1, <1>4, PoolFacts DEF Server!Select, Server!Grantable
  <2>2. ~Server!HeldByOther(m, d.req)
    BY <1>2, <2>1 DEF Server!HeldByAny, Server!HeldByOther
  <2>3. Server!Ack(m, Server!NoIp, d.req, d.req)
    BY <1>4 DEF Server!Select
  <2>4. /\ now' = now /\ bad' = bad /\ reply'.answer = "ack"
        /\ Given(m, d.req, LeaseSecs)
    BY <1>1, <2>1, <2>2, <2>3, AckShape
  <2>5. \A own \in Pool : AsksFor(d, own) => d.req = own
    BY <1>4, PoolFacts DEF AsksFor
  <2>6. QED
    BY <2>1, <2>4, <2>5
<1>5. CASE d.ciaddr = NoIp /\ Server!Fallback(m, d.req)
  <2>1. leases[m].ip \in Pool /\ ~Server!HeldByOther(m, leases[m].ip)
    BY <1>1, <1>5, HeldOnce, PoolFacts DEF Server!Fallback
  <2>2. Server!Ack(m, Server!NoIp, d.req, leases[m].ip)
    BY <1>5 DEF Server!Fallback, Server!FallbackIp
  <2>3. /\ now' = now /\ bad' = bad /\ reply'.answer = "ack"
        /\ Given(m, leases[m].ip, LeaseSecs)
    BY <1>1, <2>1, <2>2, AckShape
  <2>4. QED
    BY <1>2, <2>1, <2>3
<1>6. CASE d.ciaddr = NoIp /\ Server!Refuse(m, d.req)
  <2>1. Server!Nak(m, Server!NoIp, d.req)
    BY <1>6 DEF Server!Refuse
  <2>2. QED
    BY <2>1, PacketFields DEF Server!Nak, Unmoved
<1>7. QED
  BY <1>3, <1>4, <1>5, <1>6

\* What the server does with a datagram.
LEMMA HandleShape ==
    ASSUME leases \in [Macs -> Leases \cup {NoLease}], Unique(leases), bad \subseteq Ips,
           NEW d \in Datagrams, Handle(d)
    PROVE  /\ now' = now /\ bad' \subseteq Ips
           /\ \/ Unmoved
              \/ d.msg = "release" /\ Gone(d.mac)
              \/ /\ d.msg = "discover" /\ reply'.answer = "offer"
                 /\ \E ip \in Pool : Given(d.mac, ip, OfferSecs)
              \/ /\ d.msg = "request" /\ reply'.answer = "ack"
                 /\ \E ip \in Pool :
                       /\ Given(d.mac, ip, LeaseSecs)
                       /\ \A own \in Pool : AsksFor(d, own) /\ Server!Holds(d.mac, own)
                                            => ip = own
<1>1. d.mac \in Macs
  BY DEF Datagrams
<1>2. CASE d.msg = "discover"
  BY <1>1, <1>2, DiscoverShape DEF Handle
<1>3. CASE d.msg = "request"
  BY <1>3, RequestShape DEF Handle
<1>4. CASE d.msg = "release"
  <2>1. Server!Release(d.mac)
    BY <1>4 DEF Handle
  <2>2. QED
    BY <1>4, <2>1, PacketFields, PoolFacts DEF Server!Release, Gone
<1>5. CASE d.msg = "decline"
  <2>1. Server!Decline(d.mac)
    BY <1>5 DEF Handle
  <2>2. QED
    BY <2>1, PacketFields, PoolFacts DEF Server!Decline, Unmoved
<1>6. QED
  BY <1>2, <1>3, <1>4, <1>5 DEF Handle

-----------------------------------------------------------------------------
(* The queue.                                                              *)

\* A datagram of the client's own exchange that fits what the client waits for.
Suits(d, c) ==
    /\ d \in Datagrams /\ d.current
    /\ c.st = "selecting" => d.msg = "discover"
    /\ c.st \in {"requesting", "bound", "renewing"} => AsksFor(d, c.ip)

\* The fields of a datagram a client sends.
LEMMA DatagramFacts ==
    ASSUME NEW m \in Macs, NEW msg \in {"discover", "request", "release", "decline"},
           NEW ciaddr \in Pool \cup {NoIp}, NEW req \in Pool \cup {NoIp}
    PROVE  /\ Datagram(m, msg, ciaddr, req) \in Datagrams
           /\ Datagram(m, msg, ciaddr, req).mac = m
           /\ Datagram(m, msg, ciaddr, req).msg = msg
           /\ Datagram(m, msg, ciaddr, req).ciaddr = ciaddr
           /\ Datagram(m, msg, ciaddr, req).req = req
           /\ Datagram(m, msg, ciaddr, req).current
BY DEF Datagram, Datagrams

\* Outdated leaves the queue as it is but for the mark of m's datagrams.
LEMMA OutdatedFacts ==
    ASSUME NEW q \in Seq(Datagrams), NEW m \in Macs
    PROVE  /\ Outdated(m, q) \in Seq(Datagrams)
           /\ Len(Outdated(m, q)) = Len(q)
           /\ \A i \in 1 .. Len(q) :
                 /\ Outdated(m, q)[i].msg = q[i].msg
                 /\ Outdated(m, q)[i].mac = q[i].mac
                 /\ Outdated(m, q)[i].ciaddr = q[i].ciaddr
                 /\ Outdated(m, q)[i].req = q[i].req
                 /\ Outdated(m, q)[i].current <=> q[i].current /\ q[i].mac # m
<1> DEFINE D(d) == [d EXCEPT !.current = @ /\ d.mac # m]
<1>1. \A d \in Datagrams :
         /\ D(d) \in Datagrams /\ D(d).msg = d.msg /\ D(d).mac = d.mac
         /\ D(d).ciaddr = d.ciaddr /\ D(d).req = d.req
         /\ D(d).current <=> d.current /\ d.mac # m
  BY DEF Datagrams
<1>2. Outdated(m, q) = [i \in 1 .. Len(q) |-> D(q[i])]
  BY DEF Outdated
<1> HIDE DEF D
<1>3. \A i \in 1 .. Len(q) : q[i] \in Datagrams
  OBVIOUS
<1>4. Outdated(m, q) \in Seq(Datagrams) /\ Len(Outdated(m, q)) = Len(q)
  BY <1>1, <1>2, <1>3
<1>5. \A i \in 1 .. Len(q) : Outdated(m, q)[i] = D(q[i])
  BY <1>2
<1>6. QED
  BY <1>1, <1>3, <1>4, <1>5

\* Leaving an exchange makes m's datagrams old and leaves the others'.
LEMMA OutdatedFits ==
    ASSUME NEW q \in Seq(Datagrams), NEW m \in Macs
    PROVE  /\ \A n \in Macs \ {m} : \A c : Fits(q, c, n) => Fits(Outdated(m, q), c, n)
           /\ \A c : (c.st \in {"bound", "renewing"} => AllAsk(q, m, c.ip))
                     => Fits(Outdated(m, q), c, m)
<1>1. ASSUME NEW n \in Macs \ {m}, NEW c, Fits(q, c, n) PROVE Fits(Outdated(m, q), c, n)
  <2> DEFINE r == Outdated(m, q)
  <2>1. /\ Len(r) = Len(q)
        /\ \A i \in 1 .. Len(q) :
              /\ r[i].msg = q[i].msg /\ r[i].mac = q[i].mac
              /\ r[i].ciaddr = q[i].ciaddr /\ r[i].req = q[i].req
              /\ r[i].mac = n => (r[i].current <=> q[i].current)
    <3>1. \A i \in 1 .. Len(q) : r[i].mac = n => q[i].mac # m
      BY OutdatedFacts
    <3>2. QED
      BY <3>1, OutdatedFacts
  <2> HIDE DEF r
  <2>2. Fresh(r, n)
    BY <1>1, <2>1 DEF Fits, Fresh
  <2>3. c.st = "selecting" => OnlyDiscovers(r, n)
    BY <1>1, <2>1 DEF Fits, OnlyDiscovers
  <2>4. c.st = "requesting" => AsksLast(r, n, c.ip)
    <3>1. SUFFICES ASSUME c.st = "requesting" PROVE AsksLast(r, n, c.ip)
      OBVIOUS
    <3>2. AsksLast(q, n, c.ip)
      BY <1>1, <3>1 DEF Fits
    <3>3. \A i \in 1 .. Len(q) : AsksFor(r[i], c.ip) <=> AsksFor(q[i], c.ip)
      BY <2>1 DEF AsksFor
    <3>4. QED
      BY <2>1, <3>2, <3>3 DEF AsksLast
  <2>5. c.st \in {"bound", "renewing"} => AllAsk(r, n, c.ip)
    BY <1>1, <2>1 DEF Fits, AllAsk, AsksFor
  <2>6. QED
    BY <2>2, <2>3, <2>4, <2>5 DEF Fits, r
<1>2. ASSUME NEW c, c.st \in {"bound", "renewing"} => AllAsk(q, m, c.ip)
      PROVE  Fits(Outdated(m, q), c, m)
  <2>1. \A i \in 1 .. Len(Outdated(m, q)) :
           Outdated(m, q)[i].mac = m => ~Outdated(m, q)[i].current
    BY OutdatedFacts
  <2>2. Fresh(Outdated(m, q), m) /\ OnlyDiscovers(Outdated(m, q), m)
        /\ AsksLast(Outdated(m, q), m, c.ip)
    BY <2>1 DEF Fresh, OnlyDiscovers, AsksLast
  <2>3. c.st \in {"bound", "renewing"} => AllAsk(Outdated(m, q), m, c.ip)
    <3> SUFFICES ASSUME c.st \in {"bound", "renewing"}
                 PROVE  AllAsk(Outdated(m, q), m, c.ip)
      OBVIOUS
    <3>1. AllAsk(q, m, c.ip)
      BY <1>2
    <3>2. ASSUME NEW i \in 1 .. Len(Outdated(m, q)), Outdated(m, q)[i].mac = m
          PROVE  AsksFor(Outdated(m, q)[i], c.ip)
      <4> DEFINE o == Outdated(m, q)[i]
      <4>1. /\ i \in 1 .. Len(q) /\ q[i].mac = m
            /\ o.msg = q[i].msg /\ o.ciaddr = q[i].ciaddr /\ o.req = q[i].req
        BY <3>2, OutdatedFacts
      <4>2. AsksFor(q[i], c.ip)
        BY <3>1, <4>1 DEF AllAsk
      <4> HIDE DEF o
      <4>3. AsksFor(o, c.ip)
        BY <4>1, <4>2 DEF AsksFor
      <4>4. QED
        BY <4>3 DEF o
    <3>3. QED
      BY <3>2 DEF AllAsk
  <2>4. QED
    BY <2>2, <2>3 DEF Fits
<1>3. QED
  BY <1>1, <1>2

\* A datagram at the end of the queue changes nothing for the other clients, nor for its own if
\* it suits what the client waits for.
LEMMA AppendFits ==
    ASSUME NEW q \in Seq(Datagrams), NEW d \in Datagrams, d.current
    PROVE  /\ \A n \in Macs \ {d.mac} : \A c : Fits(q, c, n) => Fits(Append(q, d), c, n)
           /\ \A c : Fits(q, c, d.mac) /\ Suits(d, c) => Fits(Append(q, d), c, d.mac)
<1> DEFINE r == Append(q, d)
<1>1. /\ Len(r) = Len(q) + 1 /\ Len(q) \in Nat
      /\ \A i \in 1 .. Len(q) : r[i] = q[i]
      /\ r[Len(q) + 1] = d
  OBVIOUS
<1>2. \A i \in 1 .. Len(r) : i \in 1 .. Len(q) \/ i = Len(q) + 1
  BY <1>1
<1> HIDE DEF r
<1>3. ASSUME NEW n \in Macs \ {d.mac}, NEW c, Fits(q, c, n) PROVE Fits(r, c, n)
  <2>1. \A i \in 1 .. Len(r) : r[i].mac = n => i \in 1 .. Len(q) /\ r[i] = q[i]
    BY <1>1, <1>2
  <2>2. Fresh(r, n)
    BY <1>3, <2>1 DEF Fits, Fresh
  <2>3. c.st = "selecting" => OnlyDiscovers(r, n)
    BY <1>3, <2>1 DEF Fits, OnlyDiscovers
  <2>4. c.st = "requesting" => AsksLast(r, n, c.ip)
    BY <1>3, <2>1 DEF Fits, AsksLast
  <2>5. c.st \in {"bound", "renewing"} => AllAsk(r, n, c.ip)
    BY <1>3, <2>1 DEF Fits, AllAsk
  <2>6. QED
    BY <2>2, <2>3, <2>4, <2>5 DEF Fits
<1>4. ASSUME NEW c, Fits(q, c, d.mac), Suits(d, c) PROVE Fits(r, c, d.mac)
  <2>1. Fresh(r, d.mac)
    BY <1>1, <1>2, <1>4 DEF Fits, Fresh
  <2>2. c.st = "selecting" => OnlyDiscovers(r, d.mac)
    BY <1>1, <1>2, <1>4 DEF Fits, OnlyDiscovers, Suits
  <2>3. c.st = "requesting" => AsksLast(r, d.mac, c.ip)
    <3>1. SUFFICES ASSUME c.st = "requesting" PROVE AsksLast(r, d.mac, c.ip)
      OBVIOUS
    <3>2. AsksLast(q, d.mac, c.ip) /\ AsksFor(d, c.ip) /\ d.msg = "request"
      BY <1>4, <3>1 DEF Fits, Suits, AsksFor
    <3>3. \A i \in 1 .. Len(r) : r[i].mac = d.mac /\ r[i].current =>
             r[i].msg = "discover" \/ AsksFor(r[i], c.ip)
      BY <1>1, <1>2, <3>2 DEF AsksLast
    <3>4. ASSUME NEW i \in 1 .. Len(r), NEW j \in 1 .. Len(r), i < j,
                 r[i].mac = d.mac, r[j].mac = d.mac, r[i].current, r[i].msg = "request"
          PROVE  r[j].msg = "request"
      <4>1. CASE j = Len(q) + 1
        BY <1>1, <3>2, <4>1
      <4>2. CASE j \in 1 .. Len(q)
        <5>1. i \in 1 .. Len(q)
          BY <1>1, <3>4, <4>2
        <5>2. r[i] = q[i] /\ r[j] = q[j]
          BY <1>1, <4>2, <5>1
        <5>3. QED
          BY <3>2, <3>4, <4>2, <5>1, <5>2 DEF AsksLast
      <4>3. QED
        BY <1>2, <4>1, <4>2
    <3>5. QED
      BY <3>3, <3>4 DEF AsksLast
  <2>4. c.st \in {"bound", "renewing"} => AllAsk(r, d.mac, c.ip)
    BY <1>1, <1>2, <1>4 DEF Fits, AllAsk, Suits
  <2>5. QED
    BY <2>1, <2>2, <2>3, <2>4 DEF Fits
<1>5. QED
  BY <1>3, <1>4 DEF r

\* Taking the head of the queue leaves a queue that fits.
LEMMA TailFits ==
    ASSUME NEW q \in Seq(Datagrams), q # << >>
    PROVE  /\ Tail(q) \in Seq(Datagrams) /\ Len(Tail(q)) = Len(q) - 1
           /\ Head(q) \in Datagrams /\ Head(q) = q[1] /\ Len(q) \in Nat \ {0}
           /\ \A i \in 1 .. Len(Tail(q)) : i + 1 \in 2 .. Len(q) /\ Tail(q)[i] = q[i + 1]
           /\ \A n \in Macs : \A c : Fits(q, c, n) => Fits(Tail(q), c, n)
<1>1. /\ Tail(q) \in Seq(Datagrams) /\ Len(Tail(q)) = Len(q) - 1
      /\ Head(q) \in Datagrams /\ Head(q) = q[1] /\ Len(q) \in Nat \ {0}
  OBVIOUS
<1>2. \A i \in 1 .. Len(Tail(q)) : i + 1 \in 2 .. Len(q) /\ Tail(q)[i] = q[i + 1]
  BY <1>1
<1> DEFINE r == Tail(q)
<1>3. \A i \in 1 .. Len(r) : i + 1 \in 1 .. Len(q) /\ r[i] = q[i + 1]
  BY <1>1, <1>2
<1>4. \A i, j \in 1 .. Len(r) : i < j => i + 1 < j + 1
  BY <1>1
<1> HIDE DEF r
<1>5. ASSUME NEW n \in Macs, NEW c, Fits(q, c, n) PROVE Fits(r, c, n)
  <2>1. Fresh(r, n)
    BY <1>3, <1>4, <1>5 DEF Fits, Fresh
  <2>2. c.st = "selecting" => OnlyDiscovers(r, n)
    BY <1>3, <1>5 DEF Fits, OnlyDiscovers
  <2>3. c.st = "requesting" => AsksLast(r, n, c.ip)
    <3> SUFFICES ASSUME c.st = "requesting" PROVE AsksLast(r, n, c.ip)
      OBVIOUS
    <3>1. AsksLast(q, n, c.ip)
      BY <1>5 DEF Fits
    <3>2. \A i \in 1 .. Len(r) : r[i].mac = n /\ r[i].current =>
             r[i].msg = "discover" \/ AsksFor(r[i], c.ip)
      BY <1>3, <3>1 DEF AsksLast
    <3>3. ASSUME NEW i \in 1 .. Len(r), NEW j \in 1 .. Len(r), i < j,
                 r[i].mac = n, r[j].mac = n, r[i].current, r[i].msg = "request"
          PROVE  r[j].msg = "request"
      <4>1. /\ i + 1 \in 1 .. Len(q) /\ r[i] = q[i + 1]
            /\ j + 1 \in 1 .. Len(q) /\ r[j] = q[j + 1] /\ i + 1 < j + 1
        BY <1>3, <1>4, <3>3
      <4>2. QED
        BY <3>1, <3>3, <4>1 DEF AsksLast
    <3>4. QED
      BY <3>2, <3>3 DEF AsksLast
  <2>4. c.st \in {"bound", "renewing"} => AllAsk(r, n, c.ip)
    BY <1>3, <1>5 DEF Fits, AllAsk
  <2>5. QED
    BY <2>1, <2>2, <2>3, <2>4 DEF Fits
<1>6. QED
  BY <1>1, <1>2, <1>5 DEF r

\* What sending does to the queue.
LEMMA SendFits ==
    ASSUME NEW q \in Seq(Datagrams), Len(q) <= Cap, NEW d \in Datagrams, d.current, Send(q, d)
    PROVE  /\ up' \in Seq(Datagrams) /\ Len(up') <= Cap
           /\ \A n \in Macs \ {d.mac} : \A c : Fits(q, c, n) => Fits(up', c, n)
           /\ \A c : Fits(q, c, d.mac) /\ Suits(d, c) => Fits(up', c, d.mac)
<1>1. CASE up' = q
  BY <1>1
<1>2. CASE Len(q) < Cap /\ up' = Append(q, d)
  <2>1. up' \in Seq(Datagrams) /\ Len(up') = Len(q) + 1 /\ Len(q) \in Nat
    BY <1>2
  <2>2. Len(up') <= Cap
    BY <1>2, <2>1, NetworkAssumption
  <2>3. QED
    BY <1>2, <2>1, <2>2, AppendFits
<1>3. QED
  BY <1>1, <1>2 DEF Send

-----------------------------------------------------------------------------
(* The steps of a client.                                                  *)

\* A step of a client that leaves a queue that fits keeps the invariant, if the client has a
\* lease afterwards only where it had the same one before.
LEMMA ClientKeeps ==
    ASSUME Inv, NEW m \in Macs, NEW c \in Clients, client' = [client EXCEPT ![m] = c],
           c.sent <= now, c.until <= now + LeaseSecs,
           up' \in Seq(Datagrams), Len(up') <= Cap,
           \A n \in Macs \ {m} : \A k : Fits(up, k, n) => Fits(up', k, n),
           m \notin doubtful => Fits(up', c, m),
           c.st \in {"bound", "renewing"} =>
              /\ client[m].st \in {"bound", "renewing"}
              /\ c.ip = client[m].ip /\ c.until = client[m].until,
           UNCHANGED <<leases, bad, now, session, doubtful>>
    PROVE  Inv'
<1>1. TypesOK /\ TimesOK /\ Unique(leases) /\ Unique(file) /\ QueueOK /\ Backed
  BY DEF Inv
<1>2. leases' = leases /\ bad' = bad /\ now' = now /\ phase' = phase /\ file' = file
      /\ sessions' = sessions /\ doubtful' = doubtful
  BY DEF session
<1>3. client \in [Macs -> Clients]
  BY <1>1 DEF TypesOK
<1>4. client' \in [Macs -> Clients] /\ client'[m] = c
      /\ \A n \in Macs \ {m} : client'[n] = client[n]
  BY <1>3
<1>5. TypesOK'
  BY <1>1, <1>2, <1>4 DEF TypesOK
<1>6. TimesOK'
  BY <1>1, <1>2, <1>4 DEF TimesOK
<1>7. Unique(leases)' /\ Unique(file)'
  BY <1>1, <1>2 DEF Unique
<1>8. QueueOK'
  BY <1>1, <1>2, <1>4 DEF QueueOK
<1>9. \A n \in Macs : Uses(n)' => Uses(n) /\ client'[n].ip = client[n].ip
                                  /\ client'[n].until = client[n].until
  BY <1>2, <1>4 DEF Uses
<1>10. Backed'
  BY <1>1, <1>2, <1>9 DEF Backed, Backs
<1>11. QED
  BY <1>5, <1>6, <1>7, <1>8, <1>10 DEF Inv

\* What the invariant says of one client.
LEMMA ClientFacts ==
    ASSUME Inv, NEW m \in Macs
    PROVE  /\ client[m] \in Clients /\ client \in [Macs -> Clients]
           /\ client[m].ip \in Pool \cup {NoIp} /\ client[m].sent \in Nat /\ client[m].until \in Nat
           /\ client[m].st \in {"off", "selecting", "requesting", "bound", "renewing"}
           /\ client[m].sent <= now /\ client[m].until <= now + LeaseSecs
           /\ m \notin doubtful => Fits(up, client[m], m)
           /\ up \in Seq(Datagrams) /\ Len(up) <= Cap /\ now \in Nat
           /\ LeaseSecs \in Nat /\ OfferSecs \in Nat /\ OfferSecs <= LeaseSecs
<1>1. client[m] \in Clients
  BY DEF Inv, TypesOK
<1>2. /\ client[m].ip \in Pool \cup {NoIp} /\ client[m].sent \in Nat /\ client[m].until \in Nat
      /\ client[m].st \in {"off", "selecting", "requesting", "bound", "renewing"}
  BY <1>1 DEF Clients
<1>3. QED
  BY <1>1, <1>2, ServerAssumption DEF Inv, TypesOK, TimesOK, QueueOK

\* A client's address is one a datagram can carry.
LEMMA OwnIp ==
    ASSUME Inv, NEW m \in Macs
    PROVE  client[m].ip \in Pool \cup {NoIp} /\ NoIp \in Pool \cup {NoIp}
BY ClientFacts

\* Off is a client without a lease and without anything asked for.
LEMMA OffFacts ==
    /\ Off \in Clients /\ Off.st = "off" /\ Off.sent = 0 /\ Off.until = 0
    /\ \A q : \A m \in Macs : Fits(q, Off, m) <=> Fresh(q, m)
    /\ \A d \in Datagrams : d.current => Suits(d, Off)
BY DEF Off, Clients, Fits, Suits

\* Sending a datagram when leaving the exchange before.
LEMMA SendsAnew ==
    ASSUME NEW q \in Seq(Datagrams), Len(q) <= Cap, NEW d \in Datagrams, d.current,
           Send(Outdated(d.mac, q), d)
    PROVE  /\ up' \in Seq(Datagrams) /\ Len(up') <= Cap
           /\ \A n \in Macs \ {d.mac} : \A k : Fits(q, k, n) => Fits(up', k, n)
           /\ \A k : (k.st \in {"bound", "renewing"} => AllAsk(q, d.mac, k.ip)) /\ Suits(d, k)
                     => Fits(up', k, d.mac)
<1>1. d.mac \in Macs
  BY DEF Datagrams
<1> DEFINE r == Outdated(d.mac, q)
<1>2. r \in Seq(Datagrams) /\ Len(r) <= Cap
  BY <1>1, OutdatedFacts
<1>3. /\ \A n \in Macs \ {d.mac} : \A k : Fits(q, k, n) => Fits(r, k, n)
      /\ \A k : (k.st \in {"bound", "renewing"} => AllAsk(q, d.mac, k.ip)) => Fits(r, k, d.mac)
  BY <1>1, OutdatedFits
<1>4. Send(r, d)
  OBVIOUS
<1> HIDE DEF r
<1>5. /\ up' \in Seq(Datagrams) /\ Len(up') <= Cap
      /\ \A n \in Macs \ {d.mac} : \A k : Fits(r, k, n) => Fits(up', k, n)
      /\ \A k : Fits(r, k, d.mac) /\ Suits(d, k) => Fits(up', k, d.mac)
  BY <1>2, <1>4, SendFits
<1>6. QED
  BY <1>3, <1>5

\* A client that asks for its first lease.
LEMMA AskInv ==
    ASSUME Inv, NEW m \in Macs, Ask(m), UNCHANGED <<leases, bad, now, session, doubtful>>
    PROVE  Inv'
<1> DEFINE c == [client[m] EXCEPT !.st = "selecting"]
           d == Datagram(m, "discover", NoIp, NoIp)
<1>1. /\ c \in Clients /\ c.st = "selecting" /\ c.sent = client[m].sent
      /\ c.until = client[m].until
  BY ClientFacts DEF Clients
<1>2. client' = [client EXCEPT ![m] = c]
  BY ClientFacts DEF Ask
<1>3. d \in Datagrams /\ d.mac = m /\ d.msg = "discover" /\ d.current
  BY DatagramFacts
<1>4. Send(Outdated(d.mac, up), d)
  BY <1>3 DEF Ask
<1> HIDE DEF c, d
<1>5. Suits(d, c)
  BY <1>1, <1>3 DEF Suits
<1>6. /\ up' \in Seq(Datagrams) /\ Len(up') <= Cap
      /\ \A n \in Macs \ {m} : \A k : Fits(up, k, n) => Fits(up', k, n)
      /\ Fits(up', c, m)
  BY <1>1, <1>3, <1>4, <1>5, ClientFacts, SendsAnew
<1>7. c.sent <= now /\ c.until <= now + LeaseSecs
  BY <1>1, ClientFacts
<1>8. QED
  BY <1>1, <1>2, <1>6, <1>7, ClientKeeps

\* A client that renews its lease: the request is for the address it uses.
LEMMA AskToRenewInv ==
    ASSUME Inv, NEW m \in Macs, AskToRenew(m), UNCHANGED <<leases, bad, now, session, doubtful>>
    PROVE  Inv'
<1> DEFINE c == [client[m] EXCEPT !.st = "renewing", !.sent = now]
           d == Datagram(m, "request", client[m].ip, NoIp)
<1>1. /\ c \in Clients /\ c.st = "renewing" /\ c.sent = now
      /\ c.until = client[m].until /\ c.ip = client[m].ip
  BY ClientFacts DEF Clients
<1>2. client' = [client EXCEPT ![m] = c] /\ client[m].st = "bound"
  BY ClientFacts DEF AskToRenew
<1>3. d \in Datagrams /\ d.mac = m /\ d.msg = "request" /\ d.ciaddr = client[m].ip /\ d.current
  BY OwnIp, DatagramFacts
<1>4. Send(Outdated(d.mac, up), d)
  BY <1>3 DEF AskToRenew
<1> HIDE DEF c, d
<1>5. Suits(d, c)
  BY <1>1, <1>3 DEF Suits, AsksFor
<1>6. m \notin doubtful => AllAsk(up, m, c.ip)
  BY <1>1, <1>2, ClientFacts DEF Fits
<1>7. /\ up' \in Seq(Datagrams) /\ Len(up') <= Cap
      /\ \A n \in Macs \ {m} : \A k : Fits(up, k, n) => Fits(up', k, n)
      /\ m \notin doubtful => Fits(up', c, m)
  BY <1>1, <1>3, <1>4, <1>5, <1>6, ClientFacts, SendsAnew
<1>8. c.sent <= now /\ c.until <= now + LeaseSecs
  BY <1>1, ClientFacts
<1>9. QED
  BY <1>1, <1>2, <1>7, <1>8, ClientKeeps

\* A client that restarted and asks for the address it remembers.
LEMMA AskAgainInv ==
    ASSUME Inv, NEW m \in Macs, AskAgain(m), UNCHANGED <<leases, bad, now, session, doubtful>>
    PROVE  Inv'
<1> DEFINE c == [client[m] EXCEPT !.st = "requesting", !.sent = now, !.until = 0]
           d == Datagram(m, "request", NoIp, client[m].ip)
<1>1. /\ c \in Clients /\ c.st = "requesting" /\ c.sent = now
      /\ c.until = 0 /\ c.ip = client[m].ip
  BY ClientFacts DEF Clients
<1>2. client' = [client EXCEPT ![m] = c]
  BY ClientFacts DEF AskAgain
<1>3. /\ d \in Datagrams /\ d.mac = m /\ d.msg = "request" /\ d.ciaddr = NoIp
      /\ d.req = client[m].ip /\ d.current
  BY OwnIp, DatagramFacts
<1>4. Send(Outdated(d.mac, up), d)
  BY <1>3 DEF AskAgain
<1> HIDE DEF c, d
<1>5. Suits(d, c)
  BY <1>1, <1>3 DEF Suits, AsksFor
<1>6. /\ up' \in Seq(Datagrams) /\ Len(up') <= Cap
      /\ \A n \in Macs \ {m} : \A k : Fits(up, k, n) => Fits(up', k, n)
      /\ Fits(up', c, m)
  BY <1>1, <1>3, <1>4, <1>5, ClientFacts, SendsAnew
<1>7. c.sent <= now /\ c.until <= now + LeaseSecs
  BY <1>1, ClientFacts
<1>8. QED
  BY <1>1, <1>2, <1>6, <1>7, ClientKeeps

\* A client that repeats what it sent last.
LEMMA RepeatInv ==
    ASSUME Inv, NEW m \in Macs, Repeat(m), UNCHANGED <<leases, bad, now, session, doubtful>>
    PROVE  Inv'
<1>1. PICK d \in Datagrams : d.mac = m /\ Suits(d, client[m]) /\ up' = Append(up, d)
  <2>1. CASE client[m].st = "selecting" /\ up' = Append(up, Datagram(m, "discover", NoIp, NoIp))
    <3> DEFINE d == Datagram(m, "discover", NoIp, NoIp)
    <3>1. d \in Datagrams /\ d.mac = m /\ d.msg = "discover" /\ d.current
      BY DatagramFacts
    <3>2. Suits(d, client[m])
      BY <2>1, <3>1 DEF Suits
    <3>3. QED
      BY <2>1, <3>1, <3>2
  <2>2. CASE client[m].st = "requesting"
             /\ up' = Append(up, Datagram(m, "request", NoIp, client[m].ip))
    <3> DEFINE d == Datagram(m, "request", NoIp, client[m].ip)
    <3>1. /\ d \in Datagrams /\ d.mac = m /\ d.msg = "request" /\ d.current
          /\ d.ciaddr = NoIp /\ d.req = client[m].ip
      BY OwnIp, DatagramFacts
    <3>2. Suits(d, client[m])
      BY <2>2, <3>1 DEF Suits, AsksFor
    <3>3. QED
      BY <2>2, <3>1, <3>2
  <2>3. CASE client[m].st = "renewing"
             /\ up' = Append(up, Datagram(m, "request", client[m].ip, NoIp))
    <3> DEFINE d == Datagram(m, "request", client[m].ip, NoIp)
    <3>1. /\ d \in Datagrams /\ d.mac = m /\ d.msg = "request" /\ d.current
          /\ d.ciaddr = client[m].ip
      BY OwnIp, DatagramFacts
    <3>2. Suits(d, client[m])
      BY <2>3, <3>1 DEF Suits, AsksFor
    <3>3. QED
      BY <2>3, <3>1, <3>2
  <2>4. QED
    BY <2>1, <2>2, <2>3 DEF Repeat
<1>2. d.current
  BY <1>1 DEF Suits
<1>3. up \in Seq(Datagrams) /\ Len(up) < Cap
  BY ClientFacts DEF Repeat
<1>4. Send(up, d)
  BY <1>1, <1>3 DEF Send, Repeat
<1>5. /\ up' \in Seq(Datagrams) /\ Len(up') <= Cap
      /\ \A n \in Macs \ {m} : \A k : Fits(up, k, n) => Fits(up', k, n)
      /\ m \notin doubtful => Fits(up', client[m], m)
  BY <1>1, <1>2, <1>4, ClientFacts, SendFits
<1>6. client' = [client EXCEPT ![m] = client[m]]
  BY ClientFacts DEF Repeat
<1>7. QED
  BY <1>5, <1>6, ClientFacts, ClientKeeps

\* A client that is switched off or gives its address back.
LEMMA LeaveInv ==
    ASSUME Inv, NEW m \in Macs, Leave(m), UNCHANGED <<leases, bad, now, session, doubtful>>
    PROVE  Inv'
<1>1. client' = [client EXCEPT ![m] = Off]
  BY DEF Leave
<1>2. /\ up' \in Seq(Datagrams) /\ Len(up') <= Cap
      /\ \A n \in Macs \ {m} : \A k : Fits(up, k, n) => Fits(up', k, n)
      /\ Fits(up', Off, m)
  <2>1. CASE up' = Outdated(m, up)
    <3>1. up \in Seq(Datagrams) /\ Len(up) <= Cap
      BY ClientFacts
    <3>2. up' \in Seq(Datagrams) /\ Len(up') = Len(up)
      BY <2>1, <3>1, OutdatedFacts
    <3>3. QED
      BY <2>1, <3>1, <3>2, OutdatedFits, OffFacts
  <2>2. CASE Send(Outdated(m, up), Datagram(m, "release", client[m].ip, NoIp))
    <3> DEFINE d == Datagram(m, "release", client[m].ip, NoIp)
    <3>1. d \in Datagrams /\ d.mac = m /\ d.current
      BY OwnIp, DatagramFacts
    <3>2. Send(Outdated(d.mac, up), d)
      BY <2>2, <3>1
    <3> HIDE DEF d
    <3>3. Suits(d, Off)
      BY <3>1, OffFacts
    <3>4. QED
      BY <3>1, <3>2, <3>3, ClientFacts, SendsAnew, OffFacts
  <2>3. QED
    BY <2>1, <2>2 DEF Leave
<1>3. Off.sent <= now /\ Off.until <= now + LeaseSecs
  BY ClientFacts, OffFacts
<1>4. QED
  BY <1>1, <1>2, <1>3, OffFacts, ClientKeeps

\* Every step of a client keeps the invariant.
LEMMA ClientInv == ASSUME Inv, NEW m \in Macs, ClientStep(m) PROVE Inv'
BY AskInv, AskToRenewInv, AskAgainInv, RepeatInv, LeaveInv DEF ClientStep

-----------------------------------------------------------------------------
(* The listener thread.                                                    *)

\* What handling the datagram at the head of the queue leaves.
Served(d) ==
    /\ now' = now /\ bad' \subseteq Ips
    /\ leases' \in [Macs -> Leases \cup {NoLease}] /\ Unique(leases')
    /\ \A n \in Macs : leases'[n].expires <= now + LeaseSecs
    /\ \A n \in Macs \ doubtful : Uses(n) => Backs(leases'[n], client[n])
    /\ reply'.answer = "offer" => reply'.addr \in Pool
    /\ reply'.answer = "ack" => /\ d.msg = "request" /\ reply'.addr \in Pool
                                /\ leases'[d.mac] # NoLease
                                /\ leases'[d.mac].ip = reply'.addr
                                /\ leases'[d.mac].expires = now + LeaseSecs

\* The table after an entry is written.
LEMMA GivenFacts ==
    ASSUME Inv, NEW m \in Macs, NEW ip \in Pool, NEW secs \in Nat, secs <= LeaseSecs,
           Given(m, ip, secs)
    PROVE  /\ leases' \in [Macs -> Leases \cup {NoLease}] /\ Unique(leases')
           /\ \A n \in Macs : leases'[n].expires <= now + LeaseSecs
           /\ \A n \in Macs \ {m} : leases'[n] = leases[n]
           /\ leases'[m] # NoLease /\ leases'[m].ip = ip
           /\ leases'[m].expires = now + secs /\ reply'.addr = ip
<1>1. PICK acked \in BOOLEAN :
         leases' = [leases EXCEPT ![m] = [ip |-> ip, expires |-> now + secs, acked |-> acked]]
  BY DEF Given
<1> DEFINE new == [ip |-> ip, expires |-> now + secs, acked |-> acked]
<1>2. leases \in [Macs -> Leases \cup {NoLease}] /\ Unique(leases) /\ now \in Nat
      /\ LeaseSecs \in Nat /\ \A n \in Macs : leases[n].expires <= now + LeaseSecs
  BY ServerAssumption DEF Inv, TypesOK, TimesOK
<1>3. new \in Leases /\ new.ip = ip /\ new.expires = now + secs
  BY <1>2 DEF Leases
<1>4. ~Server!HeldByOther(m, new.ip) /\ reply'.addr = ip
  BY <1>3 DEF Given
<1>5. leases' = [leases EXCEPT ![m] = new]
  BY <1>1
<1> HIDE DEF new
<1>6. /\ leases' \in [Macs -> Leases \cup {NoLease}] /\ Unique(leases')
      /\ leases'[m] = new /\ \A n \in Macs \ {m} : leases'[n] = leases[n]
  BY <1>2, <1>3, <1>4, <1>5, TablePut
<1>7. now + secs <= now + LeaseSecs
  BY <1>2
<1>8. \A n \in Macs : leases'[n].expires <= now + LeaseSecs
  BY <1>2, <1>3, <1>6, <1>7
<1>9. QED
  BY <1>3, <1>4, <1>6, <1>8, PoolFacts

\* Handling a datagram leaves every client backed: the entry of the client who sent it is only
\* written while it has no lease, or to renew the address it uses.
LEMMA ServeTable ==
    ASSUME Inv, NEW d, d = Head(up), up # << >>, phase # "closed", Handle(d)
    PROVE  Served(d)
<1>1. TypesOK /\ TimesOK /\ Unique(leases) /\ Unique(file) /\ QueueOK /\ Backed
  BY DEF Inv
<1>2. /\ leases \in [Macs -> Leases \cup {NoLease}] /\ bad \subseteq Ips
      /\ up \in Seq(Datagrams) /\ now \in Nat /\ LeaseSecs \in Nat /\ OfferSecs \in Nat
      /\ OfferSecs <= LeaseSecs
  BY <1>1, ServerAssumption DEF TypesOK, TimesOK
<1>3. d \in Datagrams /\ d.mac \in Macs /\ d = up[1] /\ 1 \in 1 .. Len(up)
  <2>1. d \in Datagrams /\ d = up[1] /\ Len(up) \in Nat \ {0}
    BY <1>2, TailFits
  <2>2. QED
    BY <2>1 DEF Datagrams
<1>4. \A n \in Macs \ doubtful : Uses(n) => Backs(leases[n], client[n])
  BY <1>1 DEF Backed
<1>5. d.mac \notin doubtful /\ Uses(d.mac) =>
         AsksFor(d, client[d.mac].ip) /\ Server!Holds(d.mac, client[d.mac].ip)
         /\ client[d.mac].ip \in Pool
  <2>1. SUFFICES ASSUME d.mac \notin doubtful, Uses(d.mac)
                 PROVE  AsksFor(d, client[d.mac].ip) /\ Server!Holds(d.mac, client[d.mac].ip)
                        /\ client[d.mac].ip \in Pool
    OBVIOUS
  <2>2. AllAsk(up, d.mac, client[d.mac].ip)
    BY <1>1, <1>3, <2>1 DEF QueueOK, Fits, Uses
  <2>3. AsksFor(d, client[d.mac].ip)
    BY <1>3, <2>2 DEF AllAsk
  <2>4. Backs(leases[d.mac], client[d.mac])
    BY <1>3, <1>4, <2>1
  <2>5. leases[d.mac] \in Leases
    BY <1>2, <1>3, <2>4 DEF Backs
  <2>6. QED
    BY <2>3, <2>4, <2>5, PoolFacts DEF Backs, Server!Holds, Leases
<1>6. now' = now /\ bad' \subseteq Ips
  BY <1>1, <1>2, <1>3, HandleShape
<1>7. CASE Unmoved
  BY <1>1, <1>2, <1>4, <1>6, <1>7 DEF Served, Unmoved, TimesOK
<1>8. CASE d.msg = "release" /\ Gone(d.mac)
  <2>1. leases' \in [Macs -> Leases \cup {NoLease}] /\ leases'[d.mac] = NoLease
        /\ \A n \in Macs \ {d.mac} : leases'[n] = leases[n]
    BY <1>2, <1>3, <1>8 DEF Gone
  <2>2. reply'.answer = "none"
    BY <1>8 DEF Gone
  <2>3. \A n \in Macs : leases'[n].expires <= now + LeaseSecs
    BY <1>1, <1>2, <2>1, PoolFacts DEF TimesOK
  <2>4. Unique(leases')
    <3>1. ASSUME NEW n \in Macs, NEW k \in Macs, n # k, leases'[n] # NoLease
          PROVE  leases'[n].ip # leases'[k].ip
      <4>1. leases'[n] = leases[n] /\ leases[n] \in Leases
        BY <1>2, <2>1, <3>1
      <4>2. leases[n].ip \in Pool
        BY <4>1 DEF Leases
      <4>3. CASE k = d.mac
        BY <2>1, <4>1, <4>2, <4>3, PoolFacts
      <4>4. CASE k # d.mac
        BY <1>1, <2>1, <3>1, <4>1, <4>4 DEF Unique
      <4>5. QED
        BY <4>3, <4>4
    <3>2. QED
      BY <3>1 DEF Unique
  <2>5. d.mac \in doubtful \/ ~Uses(d.mac)
    BY <1>5, <1>8 DEF AsksFor
  <2>6. \A n \in Macs \ doubtful : Uses(n) => Backs(leases'[n], client[n])
    BY <1>4, <2>1, <2>5
  <2>7. QED
    BY <1>6, <2>1, <2>2, <2>3, <2>4, <2>6 DEF Served
<1>9. CASE /\ d.msg = "discover" /\ reply'.answer = "offer"
           /\ \E ip \in Pool : Given(d.mac, ip, OfferSecs)
  <2>1. PICK ip \in Pool : Given(d.mac, ip, OfferSecs)
    BY <1>9
  <2>2. /\ leases' \in [Macs -> Leases \cup {NoLease}] /\ Unique(leases')
        /\ \A n \in Macs : leases'[n].expires <= now + LeaseSecs
        /\ \A n \in Macs \ {d.mac} : leases'[n] = leases[n]
        /\ reply'.addr = ip
    BY <1>2, <1>3, <2>1, GivenFacts
  <2>3. d.mac \in doubtful \/ ~Uses(d.mac)
    BY <1>5, <1>9 DEF AsksFor
  <2>4. \A n \in Macs \ doubtful : Uses(n) => Backs(leases'[n], client[n])
    BY <1>4, <2>2, <2>3
  <2>5. QED
    BY <1>6, <1>9, <2>2, <2>4 DEF Served
<1>10. CASE /\ d.msg = "request" /\ reply'.answer = "ack"
            /\ \E ip \in Pool :
                  /\ Given(d.mac, ip, LeaseSecs)
                  /\ \A own \in Pool : AsksFor(d, own) /\ Server!Holds(d.mac, own) => ip = own
  <2>1. PICK ip \in Pool :
           /\ Given(d.mac, ip, LeaseSecs)
           /\ \A own \in Pool : AsksFor(d, own) /\ Server!Holds(d.mac, own) => ip = own
    BY <1>10
  <2>2. LeaseSecs <= LeaseSecs
    BY <1>2
  <2>3. /\ leases' \in [Macs -> Leases \cup {NoLease}] /\ Unique(leases')
        /\ \A n \in Macs : leases'[n].expires <= now + LeaseSecs
        /\ \A n \in Macs \ {d.mac} : leases'[n] = leases[n]
        /\ leases'[d.mac] # NoLease /\ leases'[d.mac].ip = ip
        /\ leases'[d.mac].expires = now + LeaseSecs /\ reply'.addr = ip
    BY <1>2, <1>3, <2>1, <2>2, GivenFacts
  <2>4. d.mac \notin doubtful /\ Uses(d.mac) => Backs(leases'[d.mac], client[d.mac])
    <3>1. client[d.mac].until <= now + LeaseSecs
      BY <1>1, <1>3 DEF TimesOK
    <3>2. client[d.mac].until \in Nat
      BY <1>3, ClientFacts
    <3>3. QED
      BY <1>2, <1>5, <2>1, <2>3, <3>1, <3>2 DEF Backs
  <2>5. \A n \in Macs \ doubtful : Uses(n) => Backs(leases'[n], client[n])
    BY <1>4, <2>3, <2>4
  <2>6. QED
    BY <1>6, <1>10, <2>3, <2>5 DEF Served
<1>11. QED
  BY <1>1, <1>2, <1>3, <1>7, <1>8, <1>9, <1>10, HandleShape

\* Handling a datagram and what its client does with the answer keep the invariant, if the
\* client's new state is backed and fits the queue.
LEMMA ServeKeeps ==
    ASSUME Inv, NEW m \in Macs, NEW d, d.mac = m, Served(d), phase # "closed",
           NEW c \in Clients, client' = [client EXCEPT ![m] = c],
           c.sent <= now, c.until <= now + LeaseSecs,
           up' \in Seq(Datagrams), Len(up') <= Cap,
           \A n \in Macs \ {m} : \A k : Fits(up, k, n) => Fits(up', k, n),
           doubtful \subseteq doubtful', doubtful' \subseteq doubtful \cup {m},
           m \notin doubtful' => Fits(up', c, m),
           m \notin doubtful' /\ c.st \in {"bound", "renewing"} /\ c.until > now
              => Backs(leases'[m], c),
           UNCHANGED session
    PROVE  Inv'
<1>1. TypesOK /\ TimesOK /\ Unique(leases) /\ Unique(file) /\ QueueOK /\ Backed
  BY DEF Inv
<1>2. phase' = phase /\ file' = file /\ sessions' = sessions /\ now' = now
  BY DEF session, Served
<1>3. client \in [Macs -> Clients]
  BY <1>1 DEF TypesOK
<1>4. client' \in [Macs -> Clients] /\ client'[m] = c
      /\ \A n \in Macs \ {m} : client'[n] = client[n]
  BY <1>3
<1>5. TypesOK'
  BY <1>1, <1>2, <1>4 DEF TypesOK, Served
<1>6. TimesOK'
  BY <1>1, <1>2, <1>4 DEF TimesOK, Served
<1>7. Unique(leases)' /\ Unique(file)'
  BY <1>1, <1>2 DEF Unique, Served
<1>8. QueueOK'
  BY <1>1, <1>4 DEF QueueOK
<1>9. Backed'
  <2>1. ASSUME NEW n \in Macs, n \notin doubtful', Uses(n)'
        PROVE  Backs(leases'[n], client'[n])
    <3>1. CASE n = m
      BY <1>2, <1>4, <2>1, <3>1 DEF Uses
    <3>2. CASE n # m
      <4>1. Uses(n) /\ n \notin doubtful /\ client'[n] = client[n]
        BY <1>2, <1>4, <2>1, <3>2 DEF Uses
      <4>2. QED
        BY <4>1 DEF Served
    <3>3. QED
      BY <3>1, <3>2
  <2>2. phase' # "closed"
    BY <1>2
  <2>3. QED
    BY <2>1, <2>2 DEF Backed
<1>10. QED
  BY <1>5, <1>6, <1>7, <1>8, <1>9 DEF Inv

\* The queue once its head is taken.
LEMMA QueueRest ==
    ASSUME Inv, up # << >>
    PROVE  /\ Head(up) \in Datagrams /\ Head(up).mac \in Macs
           /\ Tail(up) \in Seq(Datagrams) /\ Len(Tail(up)) <= Cap
           /\ \A n \in Macs : \A k : Fits(up, k, n) => Fits(Tail(up), k, n)
<1>1. up \in Seq(Datagrams) /\ Len(up) <= Cap
  BY DEF Inv, TypesOK
<1>2. /\ Tail(up) \in Seq(Datagrams) /\ Len(Tail(up)) = Len(up) - 1
      /\ Head(up) \in Datagrams /\ Len(up) \in Nat \ {0}
      /\ \A n \in Macs : \A k : Fits(up, k, n) => Fits(Tail(up), k, n)
  BY <1>1, TailFits
<1>3. Len(Tail(up)) <= Cap
  BY <1>1, <1>2, NetworkAssumption
<1>4. Head(up).mac \in Macs
  BY <1>2 DEF Datagrams
<1>5. QED
  BY <1>2, <1>3, <1>4

\* The answer is lost, or there is none.
LEMMA LostInv ==
    ASSUME Inv, NEW d, d = Head(up), up # << >>, phase # "closed", Served(d),
           up' = Tail(up), UNCHANGED <<client, doubtful>>, UNCHANGED session
    PROVE  Inv'
<1>1. /\ d.mac \in Macs /\ up' \in Seq(Datagrams) /\ Len(up') <= Cap
      /\ \A n \in Macs : \A k : Fits(up, k, n) => Fits(up', k, n)
  BY QueueRest
<1>2. /\ client[d.mac] \in Clients /\ client[d.mac].sent <= now
      /\ client[d.mac].until <= now + LeaseSecs
      /\ d.mac \notin doubtful => Fits(up', client[d.mac], d.mac)
      /\ client' = [client EXCEPT ![d.mac] = client[d.mac]]
  BY <1>1, ClientFacts
<1>3. d.mac \notin doubtful' /\ client[d.mac].st \in {"bound", "renewing"}
      /\ client[d.mac].until > now => Backs(leases'[d.mac], client[d.mac])
  BY <1>1 DEF Served, Uses
<1>4. QED
  BY <1>1, <1>2, <1>3, ServeKeeps

\* The client takes the offer: before it, the exchange had discovers only.
LEMMA OnOfferInv ==
    ASSUME Inv, NEW d, d = Head(up), up # << >>, phase # "closed", Served(d),
           OnOffer(d.mac, Tail(up)), UNCHANGED session
    PROVE  Inv'
<1> DEFINE m == d.mac
           q == Tail(up)
           c == [st |-> "requesting", ip |-> reply'.addr, sent |-> now, until |-> 0]
           r == Datagram(m, "request", NoIp, reply'.addr)
<1>1. /\ m \in Macs /\ q \in Seq(Datagrams) /\ Len(q) <= Cap
      /\ \A n \in Macs : \A k : Fits(up, k, n) => Fits(q, k, n)
  BY QueueRest
<1>2. reply'.addr \in Pool /\ reply'.addr \in Pool \cup {NoIp} /\ NoIp \in Pool \cup {NoIp}
  BY DEF OnOffer, Served
<1>3. now \in Nat /\ LeaseSecs \in Nat
  BY <1>1, ClientFacts
<1>4. /\ c \in Clients /\ c.st = "requesting" /\ c.ip = reply'.addr /\ c.sent = now
      /\ c.until = 0 /\ c.sent <= now /\ c.until <= now + LeaseSecs
  BY <1>2, <1>3 DEF Clients
<1>5. /\ r \in Datagrams /\ r.mac = m /\ r.msg = "request" /\ r.ciaddr = NoIp
      /\ r.req = reply'.addr /\ r.current
  <2> DEFINE ip == reply'.addr
  <2>1. m \in Macs /\ ip \in Pool \cup {NoIp} /\ NoIp \in Pool \cup {NoIp}
    BY <1>1, <1>2
  <2> HIDE DEF m, ip
  <2>2. LET e == Datagram(m, "request", NoIp, ip)
        IN  /\ e \in Datagrams /\ e.mac = m /\ e.msg = "request" /\ e.ciaddr = NoIp
            /\ e.req = ip /\ e.current
    BY <2>1, DatagramFacts
  <2>3. QED
    BY <2>2 DEF ip
<1>6. client' = [client EXCEPT ![m] = c] /\ client[m].st = "selecting" /\ Send(q, r)
      /\ doubtful' = doubtful
  BY DEF OnOffer
<1> HIDE DEF m, q, c, r
<1>7. Suits(r, c)
  BY <1>4, <1>5 DEF Suits, AsksFor
<1>8. m \notin doubtful => Fits(q, c, m)
  <2>1. SUFFICES ASSUME m \notin doubtful PROVE Fits(q, c, m)
    OBVIOUS
  <2>2. Fits(up, client[m], m)
    BY <1>1, <2>1, ClientFacts
  <2>3. Fits(q, client[m], m)
    BY <1>1, <2>2
  <2>4. Fresh(q, m) /\ OnlyDiscovers(q, m)
    BY <1>6, <2>3 DEF Fits
  <2>5. AsksLast(q, m, c.ip)
    BY <2>4 DEF OnlyDiscovers, AsksLast
  <2>6. QED
    BY <1>4, <2>4, <2>5 DEF Fits
<1>9. /\ up' \in Seq(Datagrams) /\ Len(up') <= Cap
      /\ \A n \in Macs \ {m} : \A k : Fits(q, k, n) => Fits(up', k, n)
      /\ \A k : Fits(q, k, m) /\ Suits(r, k) => Fits(up', k, m)
  BY <1>1, <1>5, <1>6, SendFits
<1>10. /\ \A n \in Macs \ {m} : \A k : Fits(up, k, n) => Fits(up', k, n)
       /\ m \notin doubtful => Fits(up', c, m)
  BY <1>1, <1>7, <1>8, <1>9
<1>11. d.mac = m
  BY DEF m
<1>12. QED
  BY <1>1, <1>4, <1>6, <1>9, <1>10, <1>11, ServeKeeps

\* The client is off, and what it asked before is old.
LEMMA EndsInv ==
    ASSUME Inv, NEW d, d = Head(up), up # << >>, phase # "closed", Served(d),
           client' = [client EXCEPT ![d.mac] = Off],
           up' \in Seq(Datagrams), Len(up') <= Cap,
           \A n \in Macs \ {d.mac} : \A k : Fits(Tail(up), k, n) => Fits(up', k, n),
           Fits(up', Off, d.mac),
           doubtful' = doubtful \/ doubtful' = doubtful \cup {d.mac},
           UNCHANGED session
    PROVE  Inv'
<1>1. /\ d.mac \in Macs
      /\ \A n \in Macs \ {d.mac} : \A k : Fits(up, k, n) => Fits(up', k, n)
  BY QueueRest
<1>2. Off \in Clients /\ Off.sent <= now /\ Off.until <= now + LeaseSecs
      /\ ~(Off.st \in {"bound", "renewing"})
  BY <1>1, OffFacts, ClientFacts
<1>3. doubtful \subseteq doubtful' /\ doubtful' \subseteq doubtful \cup {d.mac}
  OBVIOUS
<1>4. QED
  BY <1>1, <1>2, <1>3, ServeKeeps

\* The client is refused its address.
LEMMA OnNakInv ==
    ASSUME Inv, NEW d, d = Head(up), up # << >>, phase # "closed", Served(d),
           OnNak(d.mac, Tail(up)), UNCHANGED session
    PROVE  Inv'
<1> DEFINE q == Tail(up)
<1>1. d.mac \in Macs /\ q \in Seq(Datagrams) /\ Len(q) <= Cap
  BY QueueRest
<1>2. up' = Outdated(d.mac, q) /\ client' = [client EXCEPT ![d.mac] = Off]
      /\ doubtful' = doubtful
  BY DEF OnNak
<1> HIDE DEF q
<1>3. up' \in Seq(Datagrams) /\ Len(up') <= Cap
  BY <1>1, <1>2, OutdatedFacts
<1>4. /\ \A n \in Macs \ {d.mac} : \A k : Fits(q, k, n) => Fits(up', k, n)
      /\ Fits(up', Off, d.mac)
  BY <1>1, <1>2, OutdatedFits, OffFacts
<1>5. QED
  BY <1>2, <1>3, <1>4, EndsInv DEF q

\* The client finds the address in use and declines it.
LEMMA OnAckDeclineInv ==
    ASSUME Inv, NEW d, d = Head(up), up # << >>, phase # "closed", Served(d),
           OnAckDecline(d.mac, Tail(up)), UNCHANGED session
    PROVE  Inv'
<1> DEFINE q == Tail(up)
           r == Datagram(d.mac, "decline", NoIp, reply'.addr)
<1>1. d.mac \in Macs /\ q \in Seq(Datagrams) /\ Len(q) <= Cap
  BY QueueRest
<1>2. reply'.addr \in Pool \cup {NoIp} /\ NoIp \in Pool \cup {NoIp}
  BY DEF OnAckDecline, Served
<1>3. r \in Datagrams /\ r.mac = d.mac /\ r.current
  <2>1. d.mac \in Macs
    BY <1>1
  <2>2. \A a \in Pool \cup {NoIp} :
           /\ Datagram(d.mac, "decline", NoIp, a) \in Datagrams
           /\ Datagram(d.mac, "decline", NoIp, a).mac = d.mac
           /\ Datagram(d.mac, "decline", NoIp, a).current
    BY <1>2, <2>1 DEF Datagram, Datagrams
  <2>3. QED
    BY <1>2, <2>2
<1>4. client' = [client EXCEPT ![d.mac] = Off] /\ doubtful' = doubtful
      /\ Send(Outdated(r.mac, q), r)
  BY <1>3 DEF OnAckDecline
<1> HIDE DEF r, q
<1>5. /\ up' \in Seq(Datagrams) /\ Len(up') <= Cap
      /\ \A n \in Macs \ {d.mac} : \A k : Fits(q, k, n) => Fits(up', k, n)
      /\ Fits(up', Off, d.mac)
  BY <1>1, <1>3, <1>4, SendsAnew, OffFacts
<1>6. \A n \in Macs \ {d.mac} : \A k : Fits(Tail(up), k, n) => Fits(up', k, n)
  BY <1>5 DEF q
<1>7. QED
  BY <1>4, <1>5, <1>6, EndsInv

\* Behind the request that is answered there are only repetitions of it.
LEMMA Repetitions ==
    ASSUME Inv, NEW d, d = Head(up), up # << >>, d.current, d.msg = "request",
           d.mac \notin doubtful, client[d.mac].st \in {"requesting", "renewing"}
    PROVE  AllAsk(Tail(up), d.mac, client[d.mac].ip)
<1>1. up \in Seq(Datagrams) /\ d.mac \in Macs
  BY QueueRest DEF Inv, TypesOK
<1>2. Fits(up, client[d.mac], d.mac)
  BY <1>1 DEF Inv, QueueOK
<1>3. d = up[1] /\ Len(up) \in Nat \ {0}
      /\ \A i \in 1 .. Len(Tail(up)) : i + 1 \in 2 .. Len(up) /\ Tail(up)[i] = up[i + 1]
  BY <1>1, TailFits
<1>4. \A i \in 2 .. Len(up) : i \in 1 .. Len(up) /\ 1 \in 1 .. Len(up) /\ 1 < i
  BY <1>3
<1>5. ASSUME NEW i \in 2 .. Len(up), up[i].mac = d.mac
      PROVE  AsksFor(up[i], client[d.mac].ip)
  <2>1. CASE client[d.mac].st = "requesting"
    <3>1. AsksLast(up, d.mac, client[d.mac].ip) /\ Fresh(up, d.mac)
      BY <1>2, <2>1 DEF Fits
    <3>2. up[i].current
      BY <1>3, <1>4, <1>5, <3>1 DEF Fresh
    <3>3. up[i].msg = "request"
      BY <1>3, <1>4, <1>5, <3>1 DEF AsksLast
    <3>4. QED
      BY <1>4, <1>5, <3>1, <3>2, <3>3 DEF AsksLast
  <2>2. CASE client[d.mac].st = "renewing"
    <3>1. AllAsk(up, d.mac, client[d.mac].ip)
      BY <1>2, <2>2 DEF Fits
    <3>2. QED
      BY <1>4, <1>5, <3>1 DEF AllAsk
  <2>3. QED
    BY <2>1, <2>2
<1>6. QED
  BY <1>3, <1>5 DEF AllAsk

\* The client takes the acknowledged address; it counts its lease from the request, the server
\* from the answer, so the server's lasts at least as long.
LEMMA OnAckInv ==
    ASSUME Inv, NEW d, d = Head(up), up # << >>, phase # "closed", Served(d), d.current,
           OnAck(d.mac, Tail(up)), UNCHANGED session
    PROVE  Inv'
<1> DEFINE until == client[d.mac].sent + LeaseSecs
           c == [st |-> "bound", ip |-> reply'.addr, sent |-> 0, until |-> until]
           q == Tail(up)
<1>1. d.mac \in Macs /\ q \in Seq(Datagrams) /\ Len(q) <= Cap
  BY QueueRest
<1>2. up' = Outdated(d.mac, q)
      /\ doubtful' = IF reply'.addr = client[d.mac].ip THEN doubtful ELSE doubtful \cup {d.mac}
  BY DEF OnAck
<1>3. up' \in Seq(Datagrams) /\ Len(up') <= Cap
  BY <1>1, <1>2, OutdatedFacts
<1>4. \A n \in Macs \ {d.mac} : \A k : Fits(Tail(up), k, n) => Fits(up', k, n)
  BY <1>1, <1>2, OutdatedFits
<1>5. CASE until > now
  <2>1. client' = [client EXCEPT ![d.mac] = c]
    BY <1>5 DEF OnAck
  <2>2. /\ client[d.mac].sent \in Nat /\ client[d.mac].sent <= now /\ now \in Nat
        /\ LeaseSecs \in Nat
    BY <1>1, ClientFacts
  <2>3. until \in Nat /\ until <= now + LeaseSecs
    BY <2>2
  <2>4. reply'.addr \in Pool /\ d.msg = "request" /\ leases'[d.mac] # NoLease
        /\ leases'[d.mac].ip = reply'.addr /\ leases'[d.mac].expires = now + LeaseSecs
    BY DEF OnAck, Served
  <2> HIDE DEF until
  <2>5. /\ c \in Clients /\ c.sent <= now /\ c.until <= now + LeaseSecs
        /\ c.st = "bound" /\ c.ip = reply'.addr /\ c.until = until
    BY <2>2, <2>3, <2>4 DEF Clients
  <2> HIDE DEF c
  <2>6. doubtful \subseteq doubtful' /\ doubtful' \subseteq doubtful \cup {d.mac}
        /\ (d.mac \notin doubtful' => d.mac \notin doubtful /\ reply'.addr = client[d.mac].ip)
    BY <1>2
  <2>7. d.mac \notin doubtful' => Fits(up', c, d.mac)
    <3>1. SUFFICES ASSUME d.mac \notin doubtful' PROVE Fits(up', c, d.mac)
      OBVIOUS
    <3>2. client[d.mac].st \in {"requesting", "renewing"}
      BY DEF OnAck
    <3>3. AllAsk(q, d.mac, c.ip)
      BY <2>4, <2>5, <2>6, <3>1, <3>2, Repetitions
    <3>4. QED
      BY <1>1, <1>2, <3>3, OutdatedFits
  <2>8. Backs(leases'[d.mac], c)
    BY <2>3, <2>4, <2>5 DEF Backs
  <2>9. \A n \in Macs \ {d.mac} : \A k : Fits(up, k, n) => Fits(up', k, n)
    BY <1>4, QueueRest
  <2>10. QED
    BY <1>1, <1>3, <2>1, <2>5, <2>6, <2>7, <2>8, <2>9, ServeKeeps
<1>6. CASE ~(until > now)
  <2>1. client' = [client EXCEPT ![d.mac] = Off]
    BY <1>6 DEF OnAck
  <2>2. Fits(up', Off, d.mac)
    BY <1>1, <1>2, OutdatedFits, OffFacts
  <2>3. doubtful' = doubtful \/ doubtful' = doubtful \cup {d.mac}
    BY <1>2
  <2>4. QED
    BY <1>3, <1>4, <2>1, <2>2, <2>3, EndsInv
<1>7. QED
  BY <1>5, <1>6

\* Every step of the listener thread keeps the invariant.
LEMMA ServeInv == ASSUME Inv, Serve PROVE Inv'
<1> DEFINE d == Head(up)
<1>1. phase # "closed" /\ up # << >> /\ Handle(d) /\ UNCHANGED session
  BY DEF Serve
<1>2. \/ up' = Tail(up) /\ UNCHANGED <<client, doubtful>>
      \/ d.current /\ (OnOffer(d.mac, Tail(up)) \/ OnNak(d.mac, Tail(up))
                       \/ OnAck(d.mac, Tail(up)) \/ OnAckDecline(d.mac, Tail(up)))
  BY DEF Serve
<1>3. d = Head(up)
  OBVIOUS
<1> HIDE DEF d
<1>4. Served(d)
  BY <1>1, <1>3, ServeTable
<1>5. QED
  BY <1>1, <1>2, <1>3, <1>4, LostInv, OnOfferInv, OnNakInv, OnAckInv, OnAckDeclineInv

-----------------------------------------------------------------------------
(* The session.                                                            *)

\* An empty table.
LEMMA EmptyFacts ==
    /\ [m \in Macs |-> NoLease] \in [Macs -> Leases \cup {NoLease}]
    /\ [m \in Macs |-> NoLease] \in [Macs -> Records \cup {NoLease}]
    /\ Unique([m \in Macs |-> NoLease])
    /\ \A m \in Macs : [n \in Macs |-> NoLease][m].expires = 0
BY PoolFacts DEF Unique

\* What the file has of a table: the same addresses and times.
LEMMA RecordedFacts ==
    ASSUME leases \in [Macs -> Leases \cup {NoLease}], Unique(leases)
    PROVE  /\ Recorded(leases) \in [Macs -> Records \cup {NoLease}]
           /\ Unique(Recorded(leases))
           /\ \A m \in Macs : /\ Recorded(leases)[m].ip = leases[m].ip
                              /\ Recorded(leases)[m].expires = leases[m].expires
                              /\ Recorded(leases)[m] = NoLease <=> leases[m] = NoLease
<1> DEFINE R == Recorded(leases)
<1>1. \A m \in Macs : \/ leases[m] = NoLease /\ R[m] = NoLease
                      \/ leases[m] \in Leases /\ R[m] = [leases[m] EXCEPT !.acked = FALSE]
  BY DEF Recorded
<1>2. \A l \in Leases : /\ [l EXCEPT !.acked = FALSE] \in Records
                        /\ [l EXCEPT !.acked = FALSE].ip = l.ip
                        /\ [l EXCEPT !.acked = FALSE].expires = l.expires
  BY DEF Leases, Records
<1>3. \A l \in Records : l # NoLease
  BY PoolFacts DEF Records, Leases
<1>4. \A m \in Macs : /\ R[m] \in Records \cup {NoLease} /\ R[m].ip = leases[m].ip
                      /\ R[m].expires = leases[m].expires
                      /\ R[m] = NoLease <=> leases[m] = NoLease
  <2>1. ASSUME NEW m \in Macs
        PROVE  /\ R[m] \in Records \cup {NoLease} /\ R[m].ip = leases[m].ip
               /\ R[m].expires = leases[m].expires
               /\ R[m] = NoLease <=> leases[m] = NoLease
    <3> HIDE DEF R
    <3>1. CASE leases[m] = NoLease /\ R[m] = NoLease
      BY <3>1
    <3>2. CASE leases[m] \in Leases /\ R[m] = [leases[m] EXCEPT !.acked = FALSE]
      <4>1. R[m] \in Records /\ R[m].ip = leases[m].ip /\ R[m].expires = leases[m].expires
        BY <1>2, <3>2
      <4>2. R[m] # NoLease /\ leases[m] # NoLease
        BY <1>3, <3>2, <4>1, PoolFacts
      <4>3. QED
        BY <4>1, <4>2
    <3>3. QED
      BY <1>1, <3>1, <3>2
  <2>2. QED
    BY <2>1
<1>5. R = [m \in Macs |-> R[m]]
  BY DEF Recorded
<1> HIDE DEF R
<1>6. R \in [Macs -> Records \cup {NoLease}]
  BY <1>4, <1>5
<1>7. Unique(R)
  BY <1>4 DEF Unique
<1>8. QED
  BY <1>4, <1>6, <1>7 DEF R

\* The table a session starts with.
LEMMA SeedFacts ==
    ASSUME Inv, NEW kept \in SUBSET Live(file)
    PROVE  /\ Seed(kept) \in [Macs -> Records \cup {NoLease}]
           /\ Seed(kept) \in [Macs -> Leases \cup {NoLease}]
           /\ Unique(Seed(kept))
           /\ \A m \in Macs : /\ m \in kept => Seed(kept)[m] = file[m] /\ file[m].expires > now
                              /\ m \notin kept => Seed(kept)[m] = NoLease
                              /\ Seed(kept)[m].expires <= now + LeaseSecs
<1>1. /\ file \in [Macs -> Records \cup {NoLease}] /\ Unique(file)
      /\ now \in Nat /\ LeaseSecs \in Nat
      /\ \A m \in Macs : file[m].expires <= now + LeaseSecs
  BY ServerAssumption DEF Inv, TypesOK, TimesOK
<1>2. \A m \in Macs : /\ m \in kept => Seed(kept)[m] = file[m] /\ file[m].expires > now
                      /\ m \notin kept => Seed(kept)[m] = NoLease
                      /\ Seed(kept)[m].expires <= now + LeaseSecs
  BY <1>1, PoolFacts DEF Seed, Live
<1>3. Seed(kept) \in [Macs -> Records \cup {NoLease}]
  BY <1>1 DEF Seed
<1>4. \A l \in Records : l \in Leases /\ l.ip \in Pool
  BY DEF Records, Leases
<1>5. Seed(kept) \in [Macs -> Leases \cup {NoLease}]
  BY <1>3, <1>4
<1>6. Unique(Seed(kept))
  <2>1. ASSUME NEW n \in Macs, NEW k \in Macs, n # k, Seed(kept)[n] # NoLease
        PROVE  Seed(kept)[n].ip # Seed(kept)[k].ip
    <3>1. Seed(kept)[n] = file[n] /\ file[n] # NoLease /\ file[n] \in Records
      BY <1>1, <1>2, <2>1
    <3>2. CASE k \in kept
      BY <1>1, <1>2, <2>1, <3>1, <3>2 DEF Unique
    <3>3. CASE k \notin kept
      BY <1>2, <1>4, <3>1, <3>3, PoolFacts
    <3>4. QED
      BY <3>2, <3>3
  <2>2. QED
    BY <2>1 DEF Unique
<1>7. QED
  BY <1>2, <1>3, <1>5, <1>6

\* The good records of the file never are more than the pool has addresses: no two have the
\* same, so seeding takes all of them.
LEMMA AllKept ==
    ASSUME Inv, NEW kept \in SUBSET Live(file),
           kept = Live(file) \/ Cardinality(kept) = PoolSize
    PROVE  kept = Live(file)
<1>1. /\ file \in [Macs -> Records \cup {NoLease}] /\ Unique(file) /\ now \in Nat
  BY DEF Inv, TypesOK, TimesOK
<1>2. IsFiniteSet(Live(file)) /\ Cardinality(Live(file)) \in Nat
  BY ServerAssumption, FS_Subset, FS_CardinalityType DEF Live
<1>3. IsFiniteSet(Pool) /\ Cardinality(Pool) = PoolSize /\ PoolSize \in Nat
  <2>1. PoolStart \in Int /\ PoolStart + PoolSize - 1 \in Int /\ PoolSize \in Nat
        /\ ~(PoolStart > PoolStart + PoolSize - 1)
        /\ (PoolStart + PoolSize - 1) - PoolStart + 1 = PoolSize
    BY ServerAssumption
  <2>2. QED
    BY <2>1, FS_Interval DEF Pool, Server!Pool
<1>4. \A m \in Live(file) : /\ m \in Macs /\ file[m] # NoLease
                            /\ file[m] \in Records /\ file[m].ip \in Pool
  <2>1. ASSUME NEW m \in Live(file) PROVE m \in Macs /\ file[m] # NoLease
    <3>1. m \in Macs /\ file[m].expires > now
      BY DEF Live
    <3>2. QED
      BY <1>1, <3>1, PoolFacts
  <2>2. QED
    BY <1>1, <2>1 DEF Records
<1>5. ~(Cardinality(Pool) < Cardinality(Live(file)))
  <2>1. SUFFICES ASSUME Cardinality(Pool) < Cardinality(Live(file)) PROVE FALSE
    OBVIOUS
  <2> DEFINE at == [m \in Live(file) |-> file[m].ip]
  <2>2. at \in [Live(file) -> Pool]
    BY <1>4
  <2>3. \A m \in Live(file) : at[m] = file[m].ip
    OBVIOUS
  <2> HIDE DEF at
  <2>4. PICK m, n \in Live(file) : m # n /\ at[m] = at[n]
    BY <1>2, <1>3, <2>1, <2>2, FS_PigeonHole
  <2>5. QED
    BY <1>1, <1>4, <2>3, <2>4 DEF Unique
<1>6. CASE Cardinality(kept) = PoolSize
  <2>1. Cardinality(kept) <= Cardinality(Live(file))
        /\ (Cardinality(Live(file)) = Cardinality(kept) => Live(file) = kept)
    BY <1>2, FS_Subset
  <2>2. Cardinality(Live(file)) = Cardinality(kept)
    BY <1>2, <1>3, <1>5, <1>6, <2>1
  <2>3. QED
    BY <2>1, <2>2
<1>7. QED
  BY <1>6

\* The parts of the invariant a step of the session leaves.
LEMMA ClientsStay ==
    ASSUME Inv, UNCHANGED <<now, client>>
    PROVE  /\ \A n \in Macs : (Uses(n)' <=> Uses(n)) /\ client'[n] = client[n]
           /\ \A n \in Macs : client'[n].sent <= now' /\ client'[n].until <= now' + LeaseSecs
           /\ client' \in [Macs -> Clients] /\ now' \in Nat
BY DEF Inv, TypesOK, TimesOK, Uses

\* A session that starts has every entry of the file that still runs.
LEMMA OpenInv == ASSUME Inv, Open, UNCHANGED <<now, client>> PROVE Inv'
<1>1. TypesOK /\ TimesOK /\ Unique(leases) /\ Unique(file) /\ QueueOK /\ Backed
  BY DEF Inv
<1>2. PICK kept \in SUBSET Live(file) :
         (kept = Live(file) \/ Cardinality(kept) = PoolSize) /\ leases' = Seed(kept)
  BY DEF Open
<1>3. kept = Live(file)
  BY <1>2, AllKept
<1>4. /\ leases' \in [Macs -> Leases \cup {NoLease}] /\ Unique(leases')
      /\ \A m \in Macs : /\ m \in kept => leases'[m] = file[m]
                         /\ leases'[m].expires <= now + LeaseSecs
  BY <1>2, SeedFacts
<1>5. /\ bad' = {} /\ phase' = "open" /\ sessions' = sessions + 1 /\ file' = file
      /\ doubtful' = doubtful /\ up' = up /\ phase = "closed" /\ sessions < MaxSessions
      /\ now' = now /\ client' = client
  BY DEF Open
<1>6. TypesOK'
  <2>1. sessions' \in 0 .. MaxSessions
    BY <1>1, <1>5, NetworkAssumption DEF TypesOK
  <2>2. QED
    BY <1>1, <1>4, <1>5, <2>1 DEF TypesOK
<1>7. TimesOK'
  BY <1>1, <1>4, <1>5 DEF TimesOK
<1>8. Unique(leases)' /\ Unique(file)'
  BY <1>1, <1>4, <1>5 DEF Unique
<1>9. QueueOK'
  BY <1>1, <1>5 DEF QueueOK
<1>10. Backed'
  <2>1. ASSUME NEW m \in Macs, m \notin doubtful', Uses(m)' PROVE Backs(leases'[m], client'[m])
    <3>1. Uses(m) /\ m \notin doubtful
      BY <1>5, <2>1 DEF Uses
    <3>2. Backs(file[m], client[m])
      BY <1>1, <1>5, <3>1 DEF Backed
    <3>3. file[m].expires \in Nat /\ client[m].until \in Nat /\ now \in Nat
      <4>1. file[m] \in Records
        BY <1>1, <3>2 DEF TypesOK, Backs
      <4>2. QED
        BY <4>1, ClientFacts DEF Records
    <3>4. file[m].expires > now
      BY <3>1, <3>2, <3>3 DEF Backs, Uses
    <3>5. m \in kept
      BY <1>3, <3>4 DEF Live
    <3>6. QED
      BY <1>4, <1>5, <3>2, <3>5
  <2>2. QED
    BY <1>5, <2>1 DEF Backed
<1>11. QED
  BY <1>6, <1>7, <1>8, <1>9, <1>10 DEF Inv

\* The first part of a stop writes the table or fails to.
LEMMA StopSaveInv == ASSUME Inv, StopSave, UNCHANGED <<now, client>> PROVE Inv'
<1>1. TypesOK /\ TimesOK /\ Unique(leases) /\ Unique(file) /\ QueueOK /\ Backed
  BY DEF Inv
<1>2. /\ leases' = leases /\ bad' = bad /\ sessions' = sessions /\ doubtful' = doubtful
      /\ up' = up /\ phase = "open" /\ phase' = "saved" /\ now' = now /\ client' = client
      /\ file' = Recorded(leases) \/ file' = file
  BY DEF StopSave, Save
<1>3. leases \in [Macs -> Leases \cup {NoLease}]
  BY <1>1 DEF TypesOK
<1>4. /\ file' \in [Macs -> Records \cup {NoLease}] /\ Unique(file')
      /\ \A m \in Macs : file'[m].expires <= now + LeaseSecs
  BY <1>1, <1>2, <1>3, RecordedFacts DEF TypesOK, TimesOK
<1>5. TypesOK'
  BY <1>1, <1>2, <1>4 DEF TypesOK
<1>6. TimesOK'
  BY <1>1, <1>2, <1>4 DEF TimesOK
<1>7. Unique(leases)' /\ Unique(file)'
  BY <1>1, <1>2, <1>4 DEF Unique
<1>8. QueueOK'
  BY <1>1, <1>2 DEF QueueOK
<1>9. Backed'
  BY <1>1, <1>2 DEF Backed, Uses
<1>10. QED
  BY <1>5, <1>6, <1>7, <1>8, <1>9 DEF Inv

\* When the server goes, the clients whose entry the file has not right are excepted.
LEMMA CloseInv == ASSUME Inv, Close, UNCHANGED <<now, client>> PROVE Inv'
<1>1. TypesOK /\ TimesOK /\ Unique(leases) /\ Unique(file) /\ QueueOK /\ Backed
  BY DEF Inv
<1>2. /\ doubtful' = doubtful \cup {m \in Macs : Recorded(leases)[m] # file[m]}
      /\ phase # "closed" /\ phase' = "closed" /\ leases' = [m \in Macs |-> NoLease]
      /\ bad' = {} /\ up' = << >> /\ sessions' = sessions /\ file' = file
      /\ now' = now /\ client' = client
  BY DEF Close
<1>3. leases \in [Macs -> Leases \cup {NoLease}] /\ Unique(leases)
  BY <1>1 DEF TypesOK
<1>4. /\ leases' \in [Macs -> Leases \cup {NoLease}] /\ Unique(leases')
      /\ \A m \in Macs : leases'[m].expires = 0
  BY <1>2, EmptyFacts
<1>5. TypesOK'
  <2>1. up' \in Seq(Datagrams) /\ Len(up') <= Cap
    BY <1>2, NetworkAssumption
  <2>2. QED
    BY <1>1, <1>2, <1>4, <2>1 DEF TypesOK
<1>6. TimesOK'
  BY <1>1, <1>2, <1>4, ServerAssumption DEF TimesOK
<1>7. Unique(leases)' /\ Unique(file)'
  BY <1>1, <1>2, <1>4 DEF Unique
<1>8. QueueOK'
  BY <1>2 DEF QueueOK, Fits, Fresh, OnlyDiscovers, AsksLast, AllAsk
<1>9. Backed'
  <2>1. ASSUME NEW m \in Macs, m \notin doubtful', Uses(m)' PROVE Backs(file'[m], client'[m])
    <3>1. Uses(m) /\ m \notin doubtful /\ Recorded(leases)[m] = file[m]
      BY <1>2, <2>1 DEF Uses
    <3>2. Backs(leases[m], client[m])
      BY <1>1, <1>2, <3>1 DEF Backed
    <3>3. Backs(file[m], client[m])
      BY <1>3, <3>1, <3>2, RecordedFacts DEF Backs
    <3>4. QED
      BY <1>2, <3>3
  <2>2. QED
    BY <1>2, <2>1 DEF Backed
<1>10. QED
  BY <1>5, <1>6, <1>7, <1>8, <1>9 DEF Inv

\* Every step of the session keeps the invariant.
LEMMA SessionInv == ASSUME Inv, SessionStep PROVE Inv'
BY OpenInv, StopSaveInv, CloseInv DEF SessionStep

-----------------------------------------------------------------------------

\* Time passes; a client stops using its address when its lease is over.
LEMMA TickInv == ASSUME Inv, Tick PROVE Inv'
<1>1. TypesOK /\ TimesOK /\ Unique(leases) /\ Unique(file) /\ QueueOK /\ Backed
  BY DEF Inv
<1>2. /\ leases' = leases /\ bad' = bad /\ phase' = phase /\ file' = file
      /\ sessions' = sessions /\ up' = up /\ doubtful' = doubtful /\ now' = now + 1
  BY DEF Tick, session
<1>3. \A m \in Macs : \/ /\ client'[m] = Off
                         /\ client[m].st \in {"bound", "renewing"} /\ client[m].until <= now + 1
                      \/ client'[m] = client[m]
  BY DEF Tick
<1>4. client' = [m \in Macs |-> client'[m]]
  BY DEF Tick
<1>5. client \in [Macs -> Clients] /\ now \in Nat /\ LeaseSecs \in Nat
  BY <1>1, ServerAssumption DEF TypesOK, TimesOK
<1>6. client' \in [Macs -> Clients]
  BY <1>3, <1>4, <1>5, OffFacts
<1>7. TypesOK'
  BY <1>1, <1>2, <1>6 DEF TypesOK
<1>8. TimesOK'
  <2>1. now' \in Nat
    BY <1>2, <1>5
  <2>2. ASSUME NEW m \in Macs
        PROVE  /\ client'[m].sent <= now + 1 /\ client'[m].until <= now + 1 + LeaseSecs
               /\ leases[m].expires <= now + 1 + LeaseSecs
               /\ file[m].expires <= now + 1 + LeaseSecs
    <3>1. /\ client[m].sent \in Nat /\ client[m].until \in Nat
      BY ClientFacts
    <3>2. leases[m].expires \in Nat /\ file[m].expires \in Nat
      <4>1. /\ leases[m] \in Leases \/ leases[m] = NoLease
            /\ file[m] \in Records \/ file[m] = NoLease
        BY <1>1 DEF TypesOK
      <4>2. /\ \A l \in Leases : l.expires \in Nat
            /\ \A l \in Records : l.expires \in Nat
        BY DEF Leases, Records
      <4>3. QED
        BY <4>1, <4>2, PoolFacts
    <3>3. /\ client[m].sent <= now /\ client[m].until <= now + LeaseSecs
          /\ leases[m].expires <= now + LeaseSecs /\ file[m].expires <= now + LeaseSecs
      BY <1>1 DEF TimesOK
    <3>4. QED
      BY <1>3, <1>5, <3>1, <3>2, <3>3, OffFacts
  <2>3. QED
    BY <1>2, <2>1, <2>2 DEF TimesOK
<1>9. Unique(leases)' /\ Unique(file)'
  BY <1>1, <1>2 DEF Unique
<1>10. QueueOK'
  <2>1. ASSUME NEW m \in Macs, m \notin doubtful PROVE Fits(up, client'[m], m)
    <3>1. Fits(up, client[m], m)
      BY <1>1, <2>1 DEF QueueOK
    <3>2. Fits(up, Off, m)
      BY <3>1, OffFacts DEF Fits
    <3>3. QED
      BY <1>3, <3>1, <3>2
  <2>2. QED
    BY <1>2, <2>1 DEF QueueOK
<1>11. Backed'
  <2>1. ASSUME NEW m \in Macs, Uses(m)' PROVE Uses(m) /\ client'[m] = client[m]
    <3>1. client'[m].st \in {"bound", "renewing"} /\ client'[m].until > now + 1
      BY <1>2, <2>1 DEF Uses
    <3>2. client'[m] = client[m]
      BY <1>3, <3>1, OffFacts
    <3>3. client[m].until \in Nat
      BY ClientFacts
    <3>4. QED
      BY <1>5, <3>1, <3>2, <3>3 DEF Uses
  <2>2. QED
    BY <1>1, <1>2, <2>1 DEF Backed
<1>12. QED
  BY <1>7, <1>8, <1>9, <1>10, <1>11 DEF Inv

\* The invariant holds at the start.
LEMMA InitInv == Init => Inv
<1>1. SUFFICES ASSUME Init PROVE Inv
  OBVIOUS
<1>2. /\ leases = [m \in Macs |-> NoLease] /\ file = [m \in Macs |-> NoLease] /\ bad = {}
      /\ now = 1 /\ phase = "closed" /\ sessions = 0 /\ doubtful = {} /\ up = << >>
      /\ client = [m \in Macs |-> Off]
  BY <1>1 DEF Init
<1>3. TypesOK
  <2>1. up \in Seq(Datagrams) /\ Len(up) <= Cap /\ sessions \in 0 .. MaxSessions
    BY <1>2, NetworkAssumption
  <2>2. client \in [Macs -> Clients]
    BY <1>2, OffFacts
  <2>3. QED
    BY <1>2, <2>1, <2>2, EmptyFacts DEF TypesOK
<1>4. TimesOK
  BY <1>2, EmptyFacts, OffFacts, ServerAssumption DEF TimesOK
<1>5. Unique(leases) /\ Unique(file)
  BY <1>2, EmptyFacts
<1>6. QueueOK
  BY <1>2 DEF QueueOK, Fits, Fresh, OnlyDiscovers, AsksLast, AllAsk
<1>7. Backed
  BY <1>2, OffFacts DEF Backed, Uses
<1>8. QED
  BY <1>3, <1>4, <1>5, <1>6, <1>7 DEF Inv

\* Every step keeps the invariant.
LEMMA NextInv == Inv /\ [Next]_vars => Inv'
<1>1. SUFFICES ASSUME Inv, [Next]_vars PROVE Inv'
  OBVIOUS
<1>2. CASE Next
  <2>1. CASE \E m \in Macs : ClientStep(m)
    BY <1>1, <2>1, ClientInv
  <2>2. CASE Serve
    BY <1>1, <2>2, ServeInv
  <2>3. CASE SessionStep
    BY <1>1, <2>3, SessionInv
  <2>4. CASE Tick
    BY <1>1, <2>4, TickInv
  <2>5. QED
    BY <1>2, <2>1, <2>2, <2>3, <2>4 DEF Next
<1>3. CASE UNCHANGED vars
  <2>1. /\ leases' = leases /\ bad' = bad /\ now' = now /\ phase' = phase /\ file' = file
        /\ sessions' = sessions /\ up' = up /\ client' = client /\ doubtful' = doubtful
    BY <1>3 DEF vars, session
  <2>2. TypesOK' /\ TimesOK' /\ Unique(leases)' /\ Unique(file)'
    BY <1>1, <2>1 DEF Inv, TypesOK, TimesOK, Unique
  <2>3. QueueOK'
    BY <1>1, <2>1 DEF Inv, QueueOK
  <2>4. Backed'
    BY <1>1, <2>1 DEF Inv, Backed, Uses
  <2>5. QED
    BY <2>2, <2>3, <2>4 DEF Inv
<1>4. QED
  BY <1>1, <1>2, <1>3

\* The inductive invariant holds in every reachable state.
THEOREM Invariance == Spec => []Inv
BY InitInv, NextInv, PTL DEF Spec

\* The table, the file, the queue and the clients have their types.
THEOREM TypesKept == Spec => []TypeOK
<1>1. Inv => TypeOK
  BY Types DEF Inv
<1>2. QED
  BY <1>1, Invariance, PTL

\* No two clients use one address, across stops, starts and deaths of the server, lost and late
\* datagrams, restarts of the clients and probes that are blocked: both are backed by the same
\* table or the same file, in which no address is twice.
THEOREM NoAddressShared == Spec => []NoSharedAddress
<1>1. ASSUME Inv PROVE NoSharedAddress
  <2>1. ASSUME NEW m \in Macs \ doubtful, NEW n \in Macs \ doubtful, m # n, Uses(m), Uses(n)
        PROVE  client[m].ip # client[n].ip
    <3>1. CASE phase = "closed"
      BY <1>1, <2>1, <3>1 DEF Inv, Backed, Backs, Unique
    <3>2. CASE phase # "closed"
      BY <1>1, <2>1, <3>2 DEF Inv, Backed, Backs, Unique
    <3>3. QED
      BY <3>1, <3>2
  <2>2. QED
    BY <2>1 DEF NoSharedAddress
<1>2. QED
  BY <1>1, Invariance, PTL

\* A running server has the address a client uses in its table for as long as the client
\* believes.
THEOREM BeliefsBacked == Spec => []BeliefBacked
<1>1. Inv => BeliefBacked
  BY PoolFacts DEF Inv, Backed, Backs, BeliefBacked, Server!Holds
<1>2. QED
  BY <1>1, Invariance, PTL

\* Whatever ended the session before, a session starts with a table DhcpServer starts from.
THEOREM SeedsGood == Spec => StartsSeeded
<1>1. ASSUME Inv, Open
      PROVE  Server!Seeded(leases') /\ \A m \in Macs : leases'[m].expires <= now + LeaseSecs
  <2>1. PICK kept \in SUBSET Live(file) : leases' = Seed(kept)
    BY <1>1 DEF Open
  <2>2. /\ leases' \in [Macs -> Records \cup {NoLease}] /\ Unique(leases')
        /\ \A m \in Macs : /\ m \in kept => leases'[m] = file[m] /\ file[m].expires > now
                           /\ m \notin kept => leases'[m] = NoLease
                           /\ leases'[m].expires <= now + LeaseSecs
    BY <1>1, <2>1, SeedFacts
  <2>3. ASSUME NEW m \in Macs
        PROVE  \/ leases'[m] = NoLease
               \/ leases'[m].ip \in Pool /\ leases'[m].expires > now /\ ~leases'[m].acked
    <3>1. CASE m \in kept
      <4>1. leases'[m] \in Records \/ leases'[m] = NoLease
        BY <2>2
      <4>2. leases'[m].expires > now
        BY <2>2, <3>1
      <4>3. QED
        BY <4>1, <4>2 DEF Records
    <3>2. CASE m \notin kept
      BY <2>2, <3>2
    <3>3. QED
      BY <3>1, <3>2
  <2>4. QED
    BY <2>2, <2>3, PoolFacts DEF Server!Seeded, Unique
<1>2. Inv => [ Open => /\ Server!Seeded(leases')
                       /\ \A m \in Macs : leases'[m].expires <= now + LeaseSecs ]_vars
  BY <1>1
<1>3. QED
  BY <1>2, Invariance, PTL DEF StartsSeeded

-----------------------------------------------------------------------------
(* The server in the composition is DhcpServer.                            *)

\* The addresses in use are of the pool, or a client's mark for none.
LEMMA AnsweringFacts ==
    ASSUME TypesOK, NEW used \in {Answering, {}}, NEW m
    PROVE  /\ used \cap Pool \in SUBSET Pool
           /\ Server!Candidates(m, used) = Server!Candidates(m, used \cap Pool)
<1>1. ASSUME NEW ip
      PROVE  ip \in Pool => (ip \notin used <=> ip \notin used \cap Pool)
  OBVIOUS
<1>2. QED
  BY <1>1 DEF Server!Candidates, Pool

\* Whatever datagram is handled, DhcpServer has a step for it.
LEMMA HandleSteps ==
    ASSUME TypesOK, NEW d \in Datagrams, Handle(d)
    PROVE  Server!Next
<1>1. /\ d.mac \in Macs /\ d.ciaddr \in Ips \cup {NoIp} /\ d.req \in Ips \cup {NoIp}
      /\ Server!NoIp = NoIp /\ Server!Pool = Pool
  BY PoolFacts DEF Datagrams
<1>2. CASE d.msg = "discover"
  <2>1. CASE Server!DiscoverKeep(d.mac)
    BY <1>1, <2>1 DEF Server!Next, Server!Discover
  <2>2. CASE \E used \in {Answering, {}} : \/ Server!DiscoverAllocate(d.mac, used)
                                          \/ Server!DiscoverEmpty(d.mac, used)
    <3>1. PICK used \in {Answering, {}} : \/ Server!DiscoverAllocate(d.mac, used)
                                         \/ Server!DiscoverEmpty(d.mac, used)
      BY <2>2
    <3> DEFINE less == used \cap Pool
    <3>2. /\ less \in SUBSET Server!Pool
          /\ Server!Candidates(d.mac, used) = Server!Candidates(d.mac, less)
      BY <1>1, AnsweringFacts
    <3> HIDE DEF less
    <3>3. \/ Server!DiscoverAllocate(d.mac, less) \/ Server!DiscoverEmpty(d.mac, less)
      BY <3>1, <3>2 DEF Server!DiscoverAllocate, Server!DiscoverEmpty
    <3>4. Server!Discover(d.mac)
      BY <3>2, <3>3 DEF Server!Discover
    <3>5. QED BY <1>1, <3>4 DEF Server!Next
  <2>3. QED BY <1>2, <2>1, <2>2 DEF Handle
<1>3. CASE d.msg = "request"
  <2>1. \/ Server!Renew(d.mac, d.ciaddr, d.req)
        \/ d.ciaddr = Server!NoIp /\ Server!Select(d.mac, d.req)
        \/ d.ciaddr = Server!NoIp /\ Server!Fallback(d.mac, d.req)
        \/ d.ciaddr = Server!NoIp /\ Server!Refuse(d.mac, d.req)
    BY <1>1, <1>3 DEF Handle
  <2>2. Server!Request(d.mac)
    BY <1>1, <2>1 DEF Server!Request
  <2>3. QED BY <1>1, <2>2 DEF Server!Next
<1>4. CASE d.msg = "release" \/ d.msg = "decline"
  <2>1. Server!Release(d.mac) \/ Server!Decline(d.mac)
    BY <1>4 DEF Handle
  <2>2. QED BY <1>1, <2>1 DEF Server!Next
<1>5. QED
  BY <1>2, <1>3, <1>4 DEF Handle

\* A packet is recorded by its message and its sender.
LEMMA PacketNames ==
    ASSUME NEW msg, NEW m, NEW ciaddr, NEW req, NEW answer, NEW addr,
           Server!Packet(msg, m, ciaddr, req, answer, addr)
    PROVE  reply'.msg = msg /\ reply'.mac = m
BY DEF Server!Packet

\* The record of the answer says which datagram was handled.
LEMMA HandleNames ==
    ASSUME NEW d, Handle(d)
    PROVE  reply'.msg = d.msg /\ reply'.mac = d.mac
<1>1. CASE /\ d.msg = "discover"
           /\ \/ Server!DiscoverKeep(d.mac)
              \/ \E used : \/ Server!DiscoverAllocate(d.mac, used)
                           \/ Server!DiscoverEmpty(d.mac, used)
  <2>1. CASE Server!DiscoverKeep(d.mac)
    BY <1>1, <2>1, PacketNames DEF Server!DiscoverKeep
  <2>2. ASSUME NEW used, Server!DiscoverAllocate(d.mac, used)
        PROVE  reply'.msg = d.msg /\ reply'.mac = d.mac
    BY <1>1, <2>2, PacketNames DEF Server!DiscoverAllocate
  <2>3. ASSUME NEW used, Server!DiscoverEmpty(d.mac, used)
        PROVE  reply'.msg = d.msg /\ reply'.mac = d.mac
    BY <1>1, <2>3, PacketNames DEF Server!DiscoverEmpty
  <2>4. QED BY <1>1, <2>1, <2>2, <2>3
<1>2. CASE /\ d.msg = "request"
           /\ \/ Server!Renew(d.mac, d.ciaddr, d.req)
              \/ Server!Select(d.mac, d.req)
              \/ Server!Fallback(d.mac, d.req)
              \/ Server!Refuse(d.mac, d.req)
  <2>1. ASSUME NEW ciaddr, NEW ip, Server!Ack(d.mac, ciaddr, d.req, ip)
        PROVE  reply'.msg = d.msg /\ reply'.mac = d.mac
    BY <1>2, <2>1, PacketNames DEF Server!Ack
  <2>2. ASSUME NEW ciaddr, Server!Nak(d.mac, ciaddr, d.req)
        PROVE  reply'.msg = d.msg /\ reply'.mac = d.mac
    BY <1>2, <2>2, PacketNames DEF Server!Nak
  <2>3. \E ciaddr : \/ \E ip : Server!Ack(d.mac, ciaddr, d.req, ip)
                    \/ Server!Nak(d.mac, ciaddr, d.req)
    BY <1>2 DEF Server!Renew, Server!Select, Server!Fallback, Server!Refuse
  <2>4. QED BY <2>1, <2>2, <2>3
<1>3. CASE d.msg = "release" /\ Server!Release(d.mac)
  BY <1>3, PacketNames DEF Server!Release
<1>4. CASE d.msg = "decline" /\ Server!Decline(d.mac)
  BY <1>4, PacketNames DEF Server!Decline
<1>5. QED
  BY <1>1, <1>2, <1>3, <1>4 DEF Handle

\* A step of the listener handles a datagram of the queue.
LEMMA ServeHandles ==
    ASSUME TypesOK, Serve
    PROVE  Head(up) \in Datagrams /\ Handle(Head(up))
<1>1. up \in Seq(Datagrams) /\ up # << >> /\ Handle(Head(up))
  BY DEF Serve, TypesOK
<1>2. QED BY <1>1, TailFits

\* The listener does nothing DhcpServer does not: what is proved of its steps holds in the
\* composition, with the network, the sessions and the file around them.
THEOREM ServesAsServer == Spec => [][Serve => Server!Next]_vars
<1>1. Inv => [Serve => Server!Next]_vars
  BY ServeHandles, HandleSteps DEF Inv
<1>2. QED
  BY <1>1, Invariance, PTL

\* Every other step leaves the answer empty.
LEMMA OthersSilent ==
    ASSUME [Next]_vars, ~Serve
    PROVE  reply' = Server!NoPacket \/ UNCHANGED vars
BY DEF Next, ClientStep, SessionStep, Tick

\* Across sessions: a client that discovers again while the entry of its address runs, be it
\* one the session took from the file, is offered that address, unless it was declined.
THEOREM StickyAcrossSessions == Spec => Server!StickyOffer
<1>1. ASSUME Inv, Serve, NEW m \in Macs, reply'.msg = "discover", reply'.mac = m,
             leases[m] # Server!NoLease, leases[m].expires > now, leases[m].ip \notin bad
      PROVE  reply'.answer = "offer" /\ reply'.addr = leases[m].ip
  <2> DEFINE d == Head(up)
  <2>1. d \in Datagrams /\ Handle(d)
    BY <1>1, ServeHandles DEF Inv
  <2> HIDE DEF d
  <2>2. d.msg = "discover" /\ d.mac = m
    BY <1>1, <2>1, HandleNames
  <2>3. \/ Server!DiscoverKeep(m)
        \/ \E used : Server!DiscoverAllocate(m, used) \/ Server!DiscoverEmpty(m, used)
    BY <2>1, <2>2 DEF Handle
  <2>4. Server!Keeps(m)
    BY <1>1 DEF Server!Keeps
  <2>5. Server!DiscoverKeep(m)
    BY <2>3, <2>4 DEF Server!DiscoverAllocate, Server!DiscoverEmpty
  <2>6. QED BY <2>5, PacketFields DEF Server!DiscoverKeep
<1>2. ASSUME Inv, [Next]_vars
      PROVE  [ \A m \in Macs :
                 (/\ reply' # reply /\ reply'.msg = "discover" /\ reply'.mac = m
                  /\ leases[m] # Server!NoLease
                  /\ leases[m].expires > now
                  /\ leases[m].ip \notin bad)
                 => reply'.answer = "offer" /\ reply'.addr = leases[m].ip ]_Server!vars
  <2>1. CASE Serve
    BY <1>1, <1>2, <2>1
  <2>2. CASE ~Serve
    <3>1. reply' = Server!NoPacket \/ reply' = reply
      BY <1>2, <2>2, OthersSilent DEF vars
    <3>2. Server!NoPacket.msg # "discover"
      BY DEF Server!NoPacket
    <3>3. QED BY <3>1, <3>2
  <2>3. QED BY <2>1, <2>2
<1>3. QED
  BY <1>2, Invariance, PTL DEF Server!StickyOffer, Spec

\* Across sessions: an offer or an acknowledgement on its way to a client names the address the
\* table has for that client, and for no other.
THEOREM BackedAcrossSessions == Spec => []Server!AnswerBacked
<1>1. Init => Server!AnswerBacked
  BY DEF Init, Server!AnswerBacked, Server!NoPacket
<1>2. ASSUME Inv, Serve PROVE Server!AnswerBacked'
  <2> DEFINE d == Head(up)
  <2>1. d \in Datagrams /\ Handle(d)
    BY <1>2, ServeHandles DEF Inv
  <2> HIDE DEF d
  <2>2. /\ leases \in [Macs -> Leases \cup {NoLease}] /\ Unique(leases) /\ bad \subseteq Ips
        /\ d.mac \in Macs /\ OfferSecs \in Nat /\ LeaseSecs \in Nat /\ OfferSecs <= LeaseSecs
    BY <1>2, <2>1, ServerAssumption DEF Inv, TypesOK, Datagrams
  <2>3. reply'.mac = d.mac
    BY <2>1, HandleNames
  <2>4. CASE reply'.answer \notin {"offer", "ack"}
    BY <2>4 DEF Server!AnswerBacked
  <2>5. CASE reply'.answer \in {"offer", "ack"}
    <3>1. PICK ip \in Pool, secs \in {OfferSecs, LeaseSecs} : Given(d.mac, ip, secs)
      BY <2>1, <2>2, <2>5, HandleShape DEF Unmoved, Gone
    <3>2. /\ Unique(leases') /\ leases'[d.mac] # NoLease
          /\ leases'[d.mac].ip = ip /\ reply'.addr = ip
      BY <1>2, <2>2, <3>1, GivenFacts
    <3>3. ASSUME NEW n \in Macs \ {d.mac} PROVE leases'[n].ip # ip
      BY <2>2, <3>2 DEF Unique
    <3>4. QED
      BY <2>3, <3>2, <3>3, PoolFacts DEF Server!AnswerBacked, Server!Holds,
                                         Server!HeldByOther
  <2>6. QED BY <2>4, <2>5
<1>3. Inv /\ Server!AnswerBacked /\ [Next]_vars => Server!AnswerBacked'
  <2> SUFFICES ASSUME Inv, Server!AnswerBacked, [Next]_vars PROVE Server!AnswerBacked'
    OBVIOUS
  <2>1. CASE Serve
    BY <1>2, <2>1
  <2>2. CASE reply' = Server!NoPacket
    BY <2>2 DEF Server!AnswerBacked, Server!NoPacket
  <2>3. CASE UNCHANGED vars
    <3>1. leases' = leases /\ reply' = reply
      BY <2>3 DEF vars
    <3>2. QED BY <3>1 DEF Server!AnswerBacked, Server!Holds, Server!HeldByOther
  <2>4. QED BY <2>1, <2>2, <2>3, OthersSilent
<1>4. QED
  BY <1>1, <1>3, Invariance, PTL DEF Spec

\* Across sessions: no OFFER on its way to a client names an address that some client declined
\* in this session and nobody released since.
THEOREM DeclinedNotOffered == Spec => []Server!OfferNeverDeclined
<1>1. Init => Server!OfferNeverDeclined
  BY DEF Init, Server!OfferNeverDeclined, Server!NoPacket
<1>2. ASSUME Inv, Serve PROVE Server!OfferNeverDeclined'
  <2> DEFINE d == Head(up)
  <2>1. d \in Datagrams /\ Handle(d)
    BY <1>2, ServeHandles DEF Inv
  <2> HIDE DEF d
  <2>2. CASE d.msg # "discover"
    BY <2>1, <2>2, HandleNames DEF Server!OfferNeverDeclined
  <2>3. CASE Server!DiscoverKeep(d.mac)
    BY <2>3, PacketFields DEF Server!DiscoverKeep, Server!Keeps, Server!OfferNeverDeclined
  <2>4. ASSUME NEW used, Server!DiscoverAllocate(d.mac, used)
        PROVE  Server!OfferNeverDeclined'
    <3>1. PICK ip \in Server!Candidates(d.mac, used) : reply'.addr = ip
      BY <2>4, PacketFields DEF Server!DiscoverAllocate
    <3>2. ip \notin bad
      BY <3>1 DEF Server!Candidates
    <3>3. bad' = bad
      BY <2>4 DEF Server!DiscoverAllocate
    <3>4. QED BY <3>1, <3>2, <3>3 DEF Server!OfferNeverDeclined
  <2>5. ASSUME NEW used, Server!DiscoverEmpty(d.mac, used)
        PROVE  Server!OfferNeverDeclined'
    BY <2>5, PacketFields DEF Server!DiscoverEmpty, Server!OfferNeverDeclined
  <2>6. QED
    BY <2>1, <2>2, <2>3, <2>4, <2>5 DEF Handle
<1>3. Inv /\ Server!OfferNeverDeclined /\ [Next]_vars => Server!OfferNeverDeclined'
  <2> SUFFICES ASSUME Inv, Server!OfferNeverDeclined, [Next]_vars
               PROVE  Server!OfferNeverDeclined'
    OBVIOUS
  <2>1. CASE Serve
    BY <1>2, <2>1
  <2>2. CASE reply' = Server!NoPacket
    BY <2>2 DEF Server!OfferNeverDeclined, Server!NoPacket
  <2>3. CASE UNCHANGED vars
    BY <2>3 DEF vars, Server!OfferNeverDeclined
  <2>4. QED BY <2>1, <2>2, <2>3, OthersSilent
<1>4. QED
  BY <1>1, <1>3, Invariance, PTL DEF Spec
==============================================================================
