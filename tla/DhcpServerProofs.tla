--------------------------- MODULE DhcpServerProofs ---------------------------
(***************************************************************************)
(* Theorems about DhcpServer, for any clients, any pool and any times.     *)
(* The inductive invariant is TypeOK, UniqueAddress and AnswerBacked       *)
(* together: an answer is backed because the step that sends it leaves the *)
(* table unique, and the table stays unique because every step that writes *)
(* it writes an address no other client holds (PutKeepsTable).             *)
(***************************************************************************)
EXTENDS DhcpServer, FiniteSetTheorems, TLAPS

LeasesOK == leases \in [Macs -> Lease \cup {NoLease}]

USE DEF Lease

Inv == TypeOK /\ UniqueAddress /\ AnswerBacked

\* The pool is a set of non-zero addresses a packet can name, and in_pool
\* decides membership in it.
LEMMA PoolFacts ==
    /\ Pool \subseteq Nat \ {NoIp}
    /\ Pool \subseteq Ips
    /\ \A ip \in Ips \cup {NoIp} : InPool(ip) <=> ip \in Pool
BY PoolAssumption, IpsAssumption DEF Pool, InPool, NoIp

\* What writing the table does, if nobody else holds the address written.
LEMMA PutKeepsTable ==
    ASSUME LeasesOK, UniqueAddress, now \in Nat,
           NEW m \in Macs, NEW ip \in Pool, NEW secs \in Nat,
           NEW acked \in BOOLEAN,
           ~HeldByOther(m, ip),
           Put(m, ip, secs, acked)
    PROVE  /\ LeasesOK'
           /\ UniqueAddress'
           /\ Holds(m, ip)'
           /\ ~HeldByOther(m, ip)'
<1> DEFINE new == [ip |-> ip, expires |-> now + secs, acked |-> acked]
<1>1. new \in [ip : Pool, expires : Nat, acked : BOOLEAN]
  OBVIOUS
<1>2. new # NoLease /\ new.ip = ip
  BY PoolFacts DEF NoLease
<1>3. leases' = [leases EXCEPT ![m] = new]
  BY DEF Put
<1> HIDE DEF new
<1>4. LeasesOK'
  BY <1>1, <1>3 DEF LeasesOK
<1>5. /\ leases'[m] = new
      /\ \A n \in Macs \ {m} : leases'[n] = leases[n]
  BY <1>3 DEF LeasesOK
<1>6. Holds(m, ip)' /\ ~HeldByOther(m, ip)'
  BY <1>2, <1>5 DEF Holds, HeldByOther
<1>7. UniqueAddress'
  BY <1>2, <1>5 DEF UniqueAddress, Holds, HeldByOther
<1> QED
  BY <1>4, <1>6, <1>7

\* What a client holds, no other client holds.
LEMMA HeldOnce ==
    ASSUME LeasesOK, UniqueAddress, NEW m \in Macs, leases[m] # NoLease
    PROVE  /\ leases[m].ip \in Pool
           /\ Holds(m, leases[m].ip)
           /\ ~HeldByOther(m, leases[m].ip)
BY DEF LeasesOK, UniqueAddress, Holds, HeldByOther

\* Every DISCOVER step either leaves the table as it is and answers nothing,
\* or offers an address nobody else holds and that was not declined.
LEMMA DiscoverShape ==
    ASSUME Inv, NEW m \in Macs, Discover(m)
    PROVE  \/ /\ UNCHANGED <<leases, bad>>
              /\ Packet("discover", m, NoIp, NoIp, "none", NoIp)
           \/ \E ip \in Pool :
                 /\ ~HeldByOther(m, ip)
                 /\ ip \notin bad
                 /\ Put(m, ip, OfferSecs, FALSE)
                 /\ Packet("discover", m, NoIp, NoIp, "offer", ip)
                 /\ UNCHANGED bad
<1>1. PICK used \in SUBSET Pool : \/ DiscoverKeep(m)
                                  \/ DiscoverAllocate(m, used)
                                  \/ DiscoverEmpty(m, used)
  BY DEF Discover
<1>2. CASE DiscoverKeep(m)
  <2>1. LeasesOK /\ UniqueAddress /\ leases[m] # NoLease
    BY <1>2 DEF Inv, TypeOK, LeasesOK, DiscoverKeep, Keeps
  <2> QED
    BY <2>1, <1>2, HeldOnce DEF DiscoverKeep, Keeps
<1>3. CASE DiscoverAllocate(m, used)
  BY <1>3 DEF DiscoverAllocate, Candidates
<1>4. CASE DiscoverEmpty(m, used)
  BY <1>4 DEF DiscoverEmpty
<1> QED
  BY <1>1, <1>2, <1>3, <1>4

\* Every REQUEST step either leaves the table as it is and acknowledges
\* nothing, or acknowledges an address nobody else holds: one that was free
\* or the client's own.
LEMMA RequestShape ==
    ASSUME Inv, NEW m \in Macs, Request(m)
    PROVE  \E ciaddr, req \in Ips \cup {NoIp} :
              \/ \E answer \in {"none", "nak"} :
                    /\ UNCHANGED <<leases, bad>>
                    /\ Packet("request", m, ciaddr, req, answer, NoIp)
              \/ \E ip \in Pool :
                    /\ ~HeldByOther(m, ip)
                    /\ Put(m, ip, LeaseSecs, TRUE)
                    /\ Packet("request", m, ciaddr, req, "ack", ip)
                    /\ UNCHANGED bad
<1>0. LeasesOK /\ UniqueAddress
  BY DEF Inv, TypeOK, LeasesOK
<1>1. PICK ciaddr \in Ips \cup {NoIp}, req \in Ips \cup {NoIp} :
          \/ RequestOther(m, ciaddr, req)
          \/ Renew(m, ciaddr, req)
          \/ ciaddr = NoIp /\ Select(m, req)
          \/ ciaddr = NoIp /\ Fallback(m, req)
          \/ ciaddr = NoIp /\ Refuse(m, req)
  BY DEF Request
<1>2. CASE RequestOther(m, ciaddr, req)
  BY <1>2 DEF RequestOther
<1>3. CASE Renew(m, ciaddr, req)
  <2>1. CASE Holds(m, ciaddr)
    <3>1. leases[m] # NoLease /\ leases[m].ip = ciaddr
      BY <2>1 DEF Holds
    <3>2. ciaddr \in Pool /\ ~HeldByOther(m, ciaddr)
      BY <1>0, <3>1, HeldOnce
    <3> QED
      BY <1>3, <2>1, <3>2 DEF Renew, Ack
  <2>2. CASE ~Holds(m, ciaddr)
    BY <1>3, <2>2 DEF Renew, Nak
  <2> QED
    BY <2>1, <2>2
<1>4. CASE ciaddr = NoIp /\ Select(m, req)
  <2>1. Grantable(m, req) /\ req \in Pool
    BY <1>4, PoolFacts DEF Select, Grantable
  <2>2. ~HeldByOther(m, req)
    <3>1. CASE Holds(m, req)
      BY <1>0, <3>1, HeldOnce DEF Holds
    <3>2. CASE ~HeldByAny(req)
      BY <3>2 DEF HeldByAny, HeldByOther
    <3> QED
      BY <2>1, <3>1, <3>2 DEF Grantable
  <2> QED
    BY <1>4, <2>1, <2>2 DEF Select, Ack
<1>5. CASE ciaddr = NoIp /\ Fallback(m, req)
  BY <1>0, <1>5, HeldOnce DEF Fallback, FallbackIp, Ack
<1>6. CASE ciaddr = NoIp /\ Refuse(m, req)
  BY <1>6 DEF Refuse, Nak
<1> QED
  BY <1>1, <1>2, <1>3, <1>4, <1>5, <1>6

-----------------------------------------------------------------------------

LEMMA InitInv == Init => Inv
<1> SUFFICES ASSUME Init PROVE Inv
  OBVIOUS
<1>1. LeasesOK
  <2>1. 2 .. LeaseSecs + 1 \subseteq Nat
    BY TimeAssumption
  <2>2. [ip : Pool, expires : 2 .. LeaseSecs + 1, acked : {FALSE}]
          \subseteq [ip : Pool, expires : Nat, acked : BOOLEAN]
    BY <2>1
  <2> QED
    BY <2>2 DEF Init, LeasesOK
<1>2. TypeOK
  BY <1>1 DEF Init, TypeOK, LeasesOK
<1>3. UniqueAddress
  BY DEF Init, Seeded, UniqueAddress, Holds
<1>4. AnswerBacked
  BY DEF Init, AnswerBacked, NoPacket
<1> QED
  BY <1>2, <1>3, <1>4 DEF Inv

\* A packet that writes no table entry keeps the invariant.
LEMMA QuietKeepsInv ==
    ASSUME Inv, NEW m \in Macs,
           NEW msg \in Msgs, NEW answer \in {"none", "nak", "inform"},
           NEW ciaddr \in Ips \cup {NoIp}, NEW req \in Ips \cup {NoIp},
           Packet(msg, m, ciaddr, req, answer, NoIp),
           UNCHANGED leases, bad' \subseteq Ips
    PROVE  Inv'
<1>1. TypeOK'
  BY DEF Inv, TypeOK, Packet, Answers
<1>2. UniqueAddress'
  BY DEF Inv, UniqueAddress, Holds
<1>3. AnswerBacked'
  BY DEF AnswerBacked, Packet
<1> QED
  BY <1>1, <1>2, <1>3 DEF Inv

\* A packet answered with an address nobody else holds keeps the invariant.
LEMMA GrantKeepsInv ==
    ASSUME Inv, NEW m \in Macs, NEW ip \in Pool, ~HeldByOther(m, ip),
           NEW msg \in Msgs, NEW answer \in {"offer", "ack"},
           NEW ciaddr \in Ips \cup {NoIp}, NEW req \in Ips \cup {NoIp},
           NEW secs \in Nat, NEW acked \in BOOLEAN,
           Put(m, ip, secs, acked),
           Packet(msg, m, ciaddr, req, answer, ip),
           UNCHANGED bad
    PROVE  Inv'
<1>1. LeasesOK /\ UniqueAddress /\ now \in Nat
  BY DEF Inv, TypeOK, LeasesOK
<1>2. /\ LeasesOK'
      /\ UniqueAddress'
      /\ Holds(m, ip)'
      /\ ~HeldByOther(m, ip)'
  BY <1>1, PutKeepsTable
<1>3. last' = [msg |-> msg, mac |-> m, ciaddr |-> ciaddr, req |-> req,
               answer |-> answer, addr |-> ip]
  BY DEF Packet
<1>4. ip \in Ips
  BY PoolFacts
<1>5. last' \in [msg : Msgs, mac : Macs, ciaddr : Ips \cup {NoIp},
                 req : Ips \cup {NoIp}, answer : Answers,
                 addr : Ips \cup {NoIp}]
  BY <1>3, <1>4 DEF Answers
<1>6. TypeOK'
  BY <1>2, <1>5 DEF Inv, TypeOK, LeasesOK, Packet
<1>7. last'.mac = m /\ last'.addr = ip
  BY <1>3
<1>8. AnswerBacked'
  BY <1>2, <1>7 DEF AnswerBacked, Holds, HeldByOther
<1> QED
  BY <1>2, <1>6, <1>8 DEF Inv

LEMMA NextInv == Inv /\ [Next]_vars => Inv'
<1> SUFFICES ASSUME Inv, [Next]_vars PROVE Inv'
  OBVIOUS
<1>0. bad \subseteq Ips
  BY DEF Inv, TypeOK
<1>1. ASSUME NEW m \in Macs, Discover(m) PROVE Inv'
  <2>1. CASE /\ UNCHANGED <<leases, bad>>
             /\ Packet("discover", m, NoIp, NoIp, "none", NoIp)
    BY <1>0, <2>1, QuietKeepsInv DEF Msgs
  <2>2. CASE \E ip \in Pool :
                /\ ~HeldByOther(m, ip)
                /\ ip \notin bad
                /\ Put(m, ip, OfferSecs, FALSE)
                /\ Packet("discover", m, NoIp, NoIp, "offer", ip)
                /\ UNCHANGED bad
    BY <2>2, GrantKeepsInv, TimeAssumption DEF Msgs
  <2> QED
    BY <1>1, <2>1, <2>2, DiscoverShape
<1>2. ASSUME NEW m \in Macs, Request(m) PROVE Inv'
  <2>1. PICK ciaddr \in Ips \cup {NoIp}, req \in Ips \cup {NoIp} :
              \/ \E answer \in {"none", "nak"} :
                    /\ UNCHANGED <<leases, bad>>
                    /\ Packet("request", m, ciaddr, req, answer, NoIp)
              \/ \E ip \in Pool :
                    /\ ~HeldByOther(m, ip)
                    /\ Put(m, ip, LeaseSecs, TRUE)
                    /\ Packet("request", m, ciaddr, req, "ack", ip)
                    /\ UNCHANGED bad
    BY <1>2, RequestShape
  <2>2. CASE \E answer \in {"none", "nak"} :
                /\ UNCHANGED <<leases, bad>>
                /\ Packet("request", m, ciaddr, req, answer, NoIp)
    BY <1>0, <2>2, QuietKeepsInv DEF Msgs
  <2>3. CASE \E ip \in Pool :
                /\ ~HeldByOther(m, ip)
                /\ Put(m, ip, LeaseSecs, TRUE)
                /\ Packet("request", m, ciaddr, req, "ack", ip)
                /\ UNCHANGED bad
    BY <2>3, GrantKeepsInv, TimeAssumption DEF Msgs
  <2> QED
    BY <2>1, <2>2, <2>3
<1>3. ASSUME NEW m \in Macs, Release(m) PROVE Inv'
  <2>1. PICK ciaddr \in Ips \cup {NoIp} :
            /\ leases' = [leases EXCEPT ![m] = NoLease]
            /\ bad' = bad \ {ciaddr}
            /\ Packet("release", m, ciaddr, NoIp, "none", NoIp)
    BY <1>3 DEF Release
  <2>2. TypeOK'
    BY <2>1 DEF Inv, TypeOK, Packet, Msgs, Answers
  <2>3. UniqueAddress'
    BY <2>1 DEF Inv, TypeOK, UniqueAddress, Holds
  <2>4. AnswerBacked'
    BY <2>1 DEF AnswerBacked, Packet
  <2> QED
    BY <2>2, <2>3, <2>4 DEF Inv
<1>4. ASSUME NEW m \in Macs, Decline(m) PROVE Inv'
  <2>1. PICK req \in Ips \cup {NoIp} :
            /\ bad' = bad \cup ({req} \ {NoIp})
            /\ Packet("decline", m, NoIp, req, "none", NoIp)
            /\ UNCHANGED leases
    BY <1>4 DEF Decline
  <2> QED
    BY <1>0, <2>1, QuietKeepsInv DEF Msgs
<1>5. ASSUME NEW m \in Macs, Inform(m) PROVE Inv'
  BY <1>0, <1>5, QuietKeepsInv DEF Inform, Msgs
<1>6. ASSUME NEW m \in Macs, Ignore(m) PROVE Inv'
  BY <1>0, <1>6, QuietKeepsInv DEF Ignore, Msgs
<1>7. CASE Tick
  BY <1>7 DEF Tick, Inv, TypeOK, UniqueAddress, AnswerBacked, Holds,
              HeldByOther
<1>8. CASE UNCHANGED vars
  BY <1>8 DEF vars, Inv, TypeOK, UniqueAddress, AnswerBacked, Holds,
              HeldByOther
<1> QED
  BY <1>1, <1>2, <1>3, <1>4, <1>5, <1>6, <1>7, <1>8 DEF Next

\* The inductive invariant holds in every reachable state.
THEOREM Invariance == Spec => []Inv
<1> QED
  BY InitInv, NextInv, PTL DEF Spec

\* Every table entry lies in the pool, every packet and answer has its type.
THEOREM TypeCorrect == Spec => []TypeOK
<1>1. Inv => TypeOK
  BY DEF Inv
<1> QED
  BY <1>1, Invariance, PTL

\* No address is in the table for two clients, for any number of clients and
\* any pool, whatever messages arrive in whatever order.
THEOREM AddressesUnique == Spec => []UniqueAddress
<1>1. Inv => UniqueAddress
  BY DEF Inv
<1> QED
  BY <1>1, Invariance, PTL

\* Every OFFER and ACK names the address the table has for its client, which
\* no other client holds.
THEOREM AnswersBacked == Spec => []AnswerBacked
<1>1. Inv => AnswerBacked
  BY DEF Inv
<1> QED
  BY <1>1, Invariance, PTL

\* What a packet leaves in the record of the last answer.
LEMMA PacketFields ==
    ASSUME NEW msg, NEW m, NEW ciaddr, NEW req, NEW answer, NEW addr,
           Packet(msg, m, ciaddr, req, answer, addr)
    PROVE  /\ last'.msg = msg /\ last'.mac = m
           /\ last'.answer = answer /\ last'.addr = addr
BY DEF Packet

\* Only a DISCOVER is recorded as one.
LEMMA OthersNotDiscover ==
    ASSUME NEW m \in Macs,
           Request(m) \/ Release(m) \/ Decline(m) \/ Inform(m) \/ Ignore(m)
    PROVE  last'.msg # "discover"
<1>1. CASE Request(m)
  <2>1. PICK ciaddr, req, answer, addr :
            Packet("request", m, ciaddr, req, answer, addr)
    BY <1>1 DEF Request, RequestOther, Renew, Select, Fallback, Refuse, Ack, Nak
  <2> QED
    BY <2>1, PacketFields
<1>2. CASE Release(m)
  BY <1>2, PacketFields DEF Release
<1>3. CASE Decline(m)
  BY <1>3, PacketFields DEF Decline
<1>4. CASE Inform(m)
  BY <1>4, PacketFields DEF Inform
<1>5. CASE Ignore(m)
  BY <1>5, PacketFields DEF Ignore
<1> QED
  BY <1>1, <1>2, <1>3, <1>4, <1>5

\* No OFFER carries a declined address.
THEOREM OffersNotDeclined == Spec => []OfferNeverDeclined
<1>1. Init => OfferNeverDeclined
  BY DEF Init, NoPacket, OfferNeverDeclined
<1>2. Inv /\ OfferNeverDeclined /\ [Next]_vars => OfferNeverDeclined'
  <2> SUFFICES ASSUME Inv, OfferNeverDeclined, [Next]_vars
               PROVE  OfferNeverDeclined'
    OBVIOUS
  <2>1. ASSUME NEW m \in Macs, Discover(m) PROVE OfferNeverDeclined'
    <3>1. CASE Packet("discover", m, NoIp, NoIp, "none", NoIp)
      BY <3>1, PacketFields DEF OfferNeverDeclined
    <3>2. ASSUME NEW ip \in Pool, ip \notin bad, UNCHANGED bad,
                 Packet("discover", m, NoIp, NoIp, "offer", ip)
          PROVE  OfferNeverDeclined'
      BY <3>2, PacketFields DEF OfferNeverDeclined
    <3> QED
      BY <2>1, <3>1, <3>2, DiscoverShape
  <2>2. ASSUME NEW m \in Macs,
               Request(m) \/ Release(m) \/ Decline(m) \/ Inform(m) \/ Ignore(m)
        PROVE  OfferNeverDeclined'
    BY <2>2, OthersNotDiscover DEF OfferNeverDeclined
  <2>3. CASE Tick \/ UNCHANGED vars
    BY <2>3 DEF Tick, vars, OfferNeverDeclined
  <2> QED
    BY <2>1, <2>2, <2>3 DEF Next
<1> QED
  BY <1>1, <1>2, Invariance, PTL DEF Spec

\* A client with a running lease on an address nobody declined is offered
\* that address whenever it discovers.
THEOREM OffersSticky == Spec => StickyOffer
<1>1. ASSUME Next, NEW m \in Macs,
             last' # last, last'.msg = "discover", last'.mac = m,
             leases[m] # NoLease, leases[m].expires > now,
             leases[m].ip \notin bad
      PROVE  last'.answer = "offer" /\ last'.addr = leases[m].ip
  <2>1. PICK n \in Macs : Discover(n)
    BY <1>1, OthersNotDiscover DEF Next, Tick
  <2>2. PICK used \in SUBSET Pool :
            DiscoverKeep(n) \/ DiscoverAllocate(n, used) \/ DiscoverEmpty(n, used)
    BY <2>1 DEF Discover
  <2>3. last'.mac = n
    BY <2>2, PacketFields DEF DiscoverKeep, DiscoverAllocate, DiscoverEmpty
  <2>4. Keeps(n)
    BY <1>1, <2>3 DEF Keeps
  <2>5. DiscoverKeep(n)
    BY <2>2, <2>4 DEF DiscoverAllocate, DiscoverEmpty
  <2> QED
    BY <1>1, <2>3, <2>5, PacketFields DEF DiscoverKeep
<1>2. [Next]_vars =>
        [ \A m \in Macs :
            (/\ last' # last /\ last'.msg = "discover" /\ last'.mac = m
             /\ leases[m] # NoLease
             /\ leases[m].expires > now
             /\ leases[m].ip \notin bad)
            => last'.answer = "offer" /\ last'.addr = leases[m].ip ]_vars
  BY <1>1
<1> QED
  BY <1>2, PTL DEF Spec, StickyOffer

\* With nothing declined and nothing answering the probe, a pool no smaller
\* than the set of clients has an address for every client that discovers:
\* if every address were held by another client, two of them would be held
\* by the same one.
THEOREM PoolIsEnough == Spec => PoolSuffices
<1>1. ASSUME Inv, NEW m \in Macs, Cardinality(Macs) <= PoolSize,
             ServerIp \notin Pool, bad = {}, DiscoverEmpty(m, {})
      PROVE  FALSE
  <2> DEFINE others == Macs \ {m}
             holder == [ip \in Pool |-> CHOOSE n \in others : Holds(n, ip)]
  <2>1. \A ip \in Pool : \E n \in others : Holds(n, ip)
    BY <1>1 DEF DiscoverEmpty, Candidates, HeldByOther
  <2>2. holder \in [Pool -> others]
    BY <2>1
  <2>3. \A ip \in Pool : Holds(holder[ip], ip)
    BY <2>1
  <2>4. IsFiniteSet(Pool) /\ Cardinality(Pool) = PoolSize
    <3>1. PoolStart \in Int /\ PoolStart + PoolSize - 1 \in Int
          /\ ~(PoolStart > PoolStart + PoolSize - 1)
          /\ (PoolStart + PoolSize - 1) - PoolStart + 1 = PoolSize
      BY PoolAssumption
    <3> QED
      BY <3>1, FS_Interval DEF Pool
  <2>5. IsFiniteSet(others) /\ Cardinality(others) = Cardinality(Macs) - 1
    BY MacsAssumption, FS_RemoveElement
  <2>6. Cardinality(others) < Cardinality(Pool)
    BY <1>1, <2>4, <2>5, FS_CardinalityType, MacsAssumption, PoolAssumption
  <2> HIDE DEF others, holder
  <2>7. PICK i, j \in Pool : i # j /\ holder[i] = holder[j]
    BY <2>2, <2>4, <2>5, <2>6, FS_PigeonHole
  <2> QED
    BY <2>3, <2>7 DEF Holds
<1>2. Inv => [ \A m \in Macs :
                 (/\ Cardinality(Macs) <= PoolSize
                  /\ ServerIp \notin Pool
                  /\ bad = {})
                 => ~DiscoverEmpty(m, {}) ]_vars
  BY <1>1
<1> QED
  BY <1>2, Invariance, PTL DEF PoolSuffices

-----------------------------------------------------------------------------
(* The table implements the registry.                                      *)

owner == [m \in Macs |-> leases[m].ip]

\* The table's addresses are addresses of the registry, and a client without
\* an entry is one that owns nothing.
LEMMA OwnerFacts ==
    ASSUME Inv
    PROVE  /\ owner \in [Macs -> Pool \cup {NoIp}]
           /\ \A m \in Macs : owner[m] = NoIp <=> leases[m] = NoLease
           /\ \A m \in Macs, ip \in Pool : owner[m] = ip <=> Holds(m, ip)
<1>1. \A m \in Macs : \/ leases[m] = NoLease
                      \/ leases[m] \in [ip : Pool, expires : Nat, acked : BOOLEAN]
  BY DEF Inv, TypeOK
<1>2. NoLease.ip = NoIp /\ NoIp \notin Pool
  BY PoolFacts DEF NoLease
<1> QED
  BY <1>1, <1>2 DEF owner, Holds

LEMMA RegistryInit == Init => Registry!Init
<1> SUFFICES ASSUME Init PROVE Registry!Init
  OBVIOUS
<1>1. Inv
  BY InitInv
<1> QED
  BY <1>1, OwnerFacts DEF Registry!Init, owner, Inv, UniqueAddress, Holds, NoLease

\* An address nobody else holds is either the client's own, and the registry
\* does not change, or free, and the client takes it.
LEMMA GrantRegistry ==
    ASSUME Inv, NEW m \in Macs, NEW ip \in Pool, ~HeldByOther(m, ip),
           NEW secs, NEW acked, Put(m, ip, secs, acked)
    PROVE  Registry!Take(m) \/ UNCHANGED owner
<1>1. owner' = [owner EXCEPT ![m] = ip]
  BY DEF owner, Put, Inv, TypeOK
<1>2. CASE Holds(m, ip)
  BY <1>1, <1>2, OwnerFacts
<1>3. CASE ~Holds(m, ip)
  <2>1. \A n \in Macs : owner[n] # ip
    BY <1>3, OwnerFacts DEF HeldByOther
  <2> QED
    BY <1>1, <2>1 DEF Registry!Take, Registry!Free, owner
<1> QED
  BY <1>2, <1>3

LEMMA RegistryStep == Inv /\ [Next]_vars => [Registry!Next]_owner
<1> SUFFICES ASSUME Inv, [Next]_vars PROVE [Registry!Next]_owner
  OBVIOUS
<1>1. ASSUME NEW m \in Macs, Discover(m)
      PROVE  Registry!Take(m) \/ UNCHANGED owner
  BY <1>1, DiscoverShape, GrantRegistry DEF owner
<1>2. ASSUME NEW m \in Macs, Request(m)
      PROVE  Registry!Take(m) \/ UNCHANGED owner
  BY <1>2, RequestShape, GrantRegistry DEF owner
<1>3. ASSUME NEW m \in Macs, Release(m)
      PROVE  Registry!Leave(m) \/ UNCHANGED owner
  <2>1. owner' = [owner EXCEPT ![m] = NoIp]
    <3>1. leases' = [leases EXCEPT ![m] = NoLease] /\ NoLease.ip = NoIp
      BY <1>3 DEF Release, NoLease
    <3>2. DOMAIN leases = Macs
      BY DEF Inv, TypeOK
    <3> QED
      BY <3>1, <3>2 DEF owner
  <2>2. CASE owner[m] = NoIp
    BY <2>1, <2>2, OwnerFacts
  <2>3. CASE owner[m] # NoIp
    BY <2>1, <2>3 DEF Registry!Leave, owner
  <2> QED
    BY <2>2, <2>3
<1>4. ASSUME NEW m \in Macs, Decline(m) \/ Inform(m) \/ Ignore(m)
      PROVE  UNCHANGED owner
  BY <1>4 DEF Decline, Inform, Ignore, owner
<1>5. CASE Tick \/ UNCHANGED vars
  BY <1>5 DEF Tick, vars, owner
<1> QED
  BY <1>1, <1>2, <1>3, <1>4, <1>5 DEF Next, Registry!Next

\* An address changes hands only by way of being free.
THEOREM ServerImplementsRegistry == Spec => ImplementsRegistry
<1>1. Init => Registry!Init
  BY RegistryInit
<1>2. Inv /\ [Next]_vars => [Registry!Next]_owner
  BY RegistryStep
<1> QED
  BY <1>1, <1>2, Invariance, PTL DEF Spec, ImplementsRegistry, Registry!Spec, owner

=============================================================================
