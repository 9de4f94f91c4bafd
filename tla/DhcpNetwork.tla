------------------------------ MODULE DhcpNetwork -----------------------------
(***************************************************************************)
(* The DHCP server over several sessions, with its clients: DhcpServer     *)
(* composed with the socket's queue, a network that loses datagrams, the   *)
(* lease file of crates/core/src/leases.rs and the session that seeds,     *)
(* saves and closes the server (crates/app/src/session.rs).                *)
(*                                                                         *)
(* A session ends by a stop, which saves the table and then closes the     *)
(* server, still serving in between, or because the process dies.  The     *)
(* next one loads what the file has.  The clients are not part of the      *)
(* repository: they are boot loaders that follow RFC 2131, repeat what is  *)
(* not answered, may restart at any time and count their lease from the    *)
(* time they first sent the request.                                       *)
(*                                                                         *)
(* Before some definitions stands a form of them with a mistake in it,     *)
(* which no other definition uses: it shows that a property would catch    *)
(* the mistake.                                                            *)
(***************************************************************************)
EXTENDS Naturals, Sequences, FiniteSets

CONSTANTS Macs, PoolStart, PoolSize, ServerIp, Ips, OfferSecs, LeaseSecs,
          MaxTime,     \* the constants of DhcpServer
          Cap,         \* datagrams in the server socket's queue, at most
          MaxSessions  \* sessions, at most

ASSUME NetworkAssumption == /\ Cap \in Nat \ {0}
                            /\ MaxSessions \in Nat \ {0}

VARIABLES
    leases,    \* the server's table, empty while there is no server
    bad,       \* the addresses declined in this session
    now,       \* the clock
    reply,     \* the packet handled in the last step and its answer
    phase,     \* of the session: "closed", "open", or "saved" on its way down
    file,      \* leases.json
    sessions,  \* sessions started
    up,        \* the server socket's queue
    client,    \* client[m]: what m does and which lease it has
    doubtful   \* history: the clients whose entry the file did not have
               \* right when a session ended, or who were given another
               \* address than the one they had asked for

Server == INSTANCE DhcpServer WITH lastActivity <- now, last <- reply

session == <<phase, file, sessions>>
vars == <<leases, bad, now, reply, session, up, client, doubtful>>

NoIp == Server!NoIp
NoLease == Server!NoLease
Pool == Server!Pool
Off == [st |-> "off", ip |-> NoIp, sent |-> 0, until |-> 0]

\* The assumptions of DhcpServer, which INSTANCE leaves behind; and an offer
\* lasts no longer than a lease (60 seconds and LEASE_SECONDS, two days).
ASSUME ServerAssumption == /\ IsFiniteSet(Macs)
                           /\ PoolStart \in Nat \ {0} /\ PoolSize \in Nat \ {0}
                           /\ Ips \subseteq Nat \ {NoIp}
                           /\ Pool \subseteq Ips /\ ServerIp \in Ips
                           /\ OfferSecs \in Nat /\ LeaseSecs \in Nat
                           /\ OfferSecs <= LeaseSecs

-----------------------------------------------------------------------------
(* The clients.                                                            *)

\* A client with an unexpired lease uses its address and answers probes.
Uses(m) == /\ client[m].st \in {"bound", "renewing"}
           /\ client[m].until > now

\* A datagram; "current" while it belongs to the exchange its client is in,
\* which the client tells by the transaction number of the answer.
Datagram(m, msg, ciaddr, req) ==
    [msg |-> msg, mac |-> m, ciaddr |-> ciaddr, req |-> req, current |-> TRUE]

\* It reaches the socket's queue, or is lost: on its way, because the queue
\* is full, or because no server has the port.
Send(q, d) ==
    \/ up' = q
    \/ phase # "closed" /\ Len(q) < Cap /\ up' = Append(q, d)

\* The queue q, if m leaves the exchange it is in.
Outdated(m, q) ==
    [i \in DOMAIN q |-> [q[i] EXCEPT !.current = @ /\ q[i].mac # m]]

Ask(m) ==
    /\ client[m].st = "off"
    /\ client' = [client EXCEPT ![m].st = "selecting"]
    /\ Send(Outdated(m, up), Datagram(m, "discover", NoIp, NoIp))

AskToRenew(m) ==
    /\ client[m].st = "bound"
    /\ client' = [client EXCEPT ![m].st = "renewing", ![m].sent = now]
    /\ Send(Outdated(m, up), Datagram(m, "request", client[m].ip, NoIp))

\* It restarted, and asks for the address it remembers.
AskAgain(m) ==
    /\ client[m].st = "bound"
    /\ client' = [client EXCEPT ![m].st = "requesting", ![m].sent = now,
                                 ![m].until = 0]
    /\ Send(Outdated(m, up), Datagram(m, "request", NoIp, client[m].ip))

\* What the client sent last was not answered; it is repeated, not in vain.
Repeat(m) ==
    /\ phase # "closed" /\ Len(up) < Cap
    /\ LET c == client[m] IN
       \/ /\ c.st = "selecting"
          /\ up' = Append(up, Datagram(m, "discover", NoIp, NoIp))
       \/ /\ c.st = "requesting"
          /\ up' = Append(up, Datagram(m, "request", NoIp, c.ip))
       \/ /\ c.st = "renewing"
          /\ up' = Append(up, Datagram(m, "request", c.ip, NoIp))
    /\ UNCHANGED client

\* It is switched off, gives up, or gives its address back.
Leave(m) ==
    /\ client[m].st # "off"
    /\ client' = [client EXCEPT ![m] = Off]
    /\ \/ up' = Outdated(m, up)
       \/ /\ client[m].st = "bound"
          /\ Send(Outdated(m, up), Datagram(m, "release", client[m].ip, NoIp))

ClientStep(m) ==
    /\ Ask(m) \/ AskToRenew(m) \/ AskAgain(m) \/ Repeat(m) \/ Leave(m)
    /\ reply' = Server!NoPacket
    /\ UNCHANGED <<leases, bad, now, session, doubtful>>

\* What the client does with an answer (reply'), the queue being q.
OnOffer(m, q) ==
    /\ client[m].st = "selecting" /\ reply'.answer = "offer"
    /\ client' = [client EXCEPT ![m] =
                     [st |-> "requesting", ip |-> reply'.addr, sent |-> now,
                      until |-> 0]]
    /\ Send(q, Datagram(m, "request", NoIp, reply'.addr))
    /\ UNCHANGED doubtful

\* The address is used for the lease time, counted from the request.
OnAck(m, q) ==
    /\ client[m].st \in {"requesting", "renewing"} /\ reply'.answer = "ack"
    /\ LET until == client[m].sent + LeaseSecs IN
       client' = [client EXCEPT ![m] =
                     IF until > now
                     THEN [st |-> "bound", ip |-> reply'.addr, sent |-> 0,
                           until |-> until]
                     ELSE Off]
    /\ up' = Outdated(m, q)
    /\ doubtful' = IF reply'.addr = client[m].ip THEN doubtful
                   ELSE doubtful \cup {m}

\* It may find the address in use, and declines it.
OnAckDecline(m, q) ==
    /\ client[m].st = "requesting" /\ reply'.answer = "ack"
    /\ \E n \in Macs \ {m} : Uses(n) /\ client[n].ip = reply'.addr
    /\ client' = [client EXCEPT ![m] = Off]
    /\ Send(Outdated(m, q), Datagram(m, "decline", NoIp, reply'.addr))
    /\ UNCHANGED doubtful

OnNak(m, q) ==
    /\ client[m].st \in {"requesting", "renewing"} /\ reply'.answer = "nak"
    /\ client' = [client EXCEPT ![m] = Off]
    /\ up' = Outdated(m, q)
    /\ UNCHANGED doubtful

-----------------------------------------------------------------------------
(* The listener thread handles a datagram and sends its answer.            *)

\* The addresses that answer a probe: those in use, unless it is blocked.
Answering == {client[m].ip : m \in {n \in Macs : Uses(n)}}

Handle(d) ==
    \/ /\ d.msg = "discover"
       /\ \/ Server!DiscoverKeep(d.mac)
          \/ \E used \in {Answering, {}} :
                \/ Server!DiscoverAllocate(d.mac, used)
                \/ Server!DiscoverEmpty(d.mac, used)
    \/ /\ d.msg = "request"
       /\ \/ Server!Renew(d.mac, d.ciaddr, d.req)
          \/ /\ d.ciaddr = NoIp
             /\ \/ Server!Select(d.mac, d.req)
                \/ Server!Fallback(d.mac, d.req)
                \/ Server!Refuse(d.mac, d.req)
    \/ d.msg = "release" /\ Server!Release(d.mac) /\ reply'.ciaddr = d.ciaddr
    \/ d.msg = "decline" /\ Server!Decline(d.mac) /\ reply'.req = d.req

\* The answer may be lost, and reaches a client that still waits for it.
Serve ==
    /\ phase # "closed" /\ up # <<>>
    /\ LET d == Head(up)
           q == Tail(up)
       IN  /\ Handle(d)
           /\ \/ up' = q /\ UNCHANGED <<client, doubtful>>
              \/ /\ d.current
                 /\ \/ OnOffer(d.mac, q) \/ OnNak(d.mac, q)
                    \/ OnAck(d.mac, q) \/ OnAckDecline(d.mac, q)
    /\ UNCHANGED session

-----------------------------------------------------------------------------
(* The session.                                                            *)

RecordedWhole(table) == table   \* mistake: an acknowledgement is kept

\* What leases.json has of a table: address and time, but not whether the
\* client acknowledged.
Recorded(table) ==
    [m \in Macs |-> IF table[m] = NoLease THEN NoLease
                    ELSE [table[m] EXCEPT !.acked = FALSE]]

\* Mistakes: the time of a record is not looked at, or off by one.
LiveAll(records) == {m \in Macs : records[m] # NoLease}
LiveLater(records) == {m \in Macs : records[m].expires > now + 1}

\* The records that are still good.
Live(records) == {m \in Macs : records[m].expires > now}

\* seed_leases takes the good records, as many as the pool has addresses.
Seed(kept) == [m \in Macs |-> IF m \in kept THEN file[m] ELSE NoLease]

Open ==
    /\ phase = "closed" /\ sessions < MaxSessions
    /\ \E kept \in SUBSET Live(file) :
          /\ kept = Live(file) \/ Cardinality(kept) = PoolSize
          /\ leases' = Seed(kept)
    /\ bad' = {}
    /\ phase' = "open"
    /\ sessions' = sessions + 1
    /\ UNCHANGED <<file, doubtful, up>>

\* leases::save writes another file and renames it: all or nothing.
Save == file' = Recorded(leases)

\* stop, first part: the table is written, which may fail.
StopSave ==
    /\ phase = "open"
    /\ Save \/ UNCHANGED file
    /\ phase' = "saved"
    /\ UNCHANGED <<leases, bad, sessions, doubtful, up>>

\* stop, second part: the listener is joined; or the process dies, between
\* any two steps.  The table is gone, and what was in the socket's queue.
Close ==
    /\ phase # "closed"
    /\ doubtful' = doubtful \cup {m \in Macs : Recorded(leases)[m] # file[m]}
    /\ phase' = "closed"
    /\ leases' = [m \in Macs |-> NoLease]
    /\ bad' = {}
    /\ up' = <<>>
    /\ UNCHANGED <<sessions, file>>

SessionStep == /\ Open \/ StopSave \/ Close
               /\ reply' = Server!NoPacket
               /\ UNCHANGED <<now, client>>

-----------------------------------------------------------------------------

\* A client whose lease is over stops using its address.
Tick ==
    /\ now < MaxTime
    /\ now' = now + 1
    /\ client' = [m \in Macs |->
                    IF client[m].st \in {"bound", "renewing"}
                       /\ client[m].until <= now + 1
                    THEN Off ELSE client[m]]
    /\ reply' = Server!NoPacket
    /\ UNCHANGED <<leases, bad, session, up, doubtful>>

Init == /\ leases = [m \in Macs |-> NoLease] /\ bad = {} /\ now = 1
        /\ reply = Server!NoPacket
        /\ phase = "closed" /\ file = [m \in Macs |-> NoLease]
        /\ sessions = 0 /\ doubtful = {}
        /\ up = <<>>
        /\ client = [m \in Macs |-> Off]

Next == \/ \E m \in Macs : ClientStep(m)
        \/ Serve
        \/ SessionStep
        \/ Tick

Spec == Init /\ [][Next]_vars

-----------------------------------------------------------------------------
(* Properties.                                                             *)

\* The table, the file, the queue and the clients have their types.
TypeOK ==
    /\ leases \in [Macs -> Server!Lease \cup {NoLease}]
    /\ bad \subseteq Ips
    /\ phase \in {"closed", "open", "saved"}
    /\ file \in [Macs -> [ip : Pool, expires : Nat, acked : {FALSE}]
                         \cup {NoLease}]
    /\ sessions \in 0 .. MaxSessions
    /\ up \in Seq([msg : {"discover", "request", "release", "decline"},
                  mac : Macs, ciaddr : Pool \cup {NoIp},
                  req : Pool \cup {NoIp}, current : BOOLEAN])
    /\ Len(up) <= Cap
    /\ client \in [Macs -> [st : {"off", "selecting", "requesting", "bound",
                                 "renewing"},
                            ip : Pool \cup {NoIp}, sent : Nat, until : Nat]]
    /\ doubtful \subseteq Macs

\* No two clients use one address, across stops and starts of the server,
\* lost and late datagrams, restarts of the clients and probes that are
\* blocked.  A client is excepted from when a session ended without its
\* entry in the file.
NoSharedAddress ==
    \A m, n \in Macs \ doubtful :
        m # n /\ Uses(m) /\ Uses(n) => client[m].ip # client[n].ip

\* A running server has the address a client uses in its table, for as long
\* as the client believes: a repeated DISCOVER, which cuts a lease to the
\* time of an offer, a late REQUEST or the seeding from the file never leave
\* the server with less (dhcp.rs:202: a client keeps its address across
\* sessions).
BeliefBacked ==
    phase # "closed" =>
        \A m \in Macs \ doubtful :
            Uses(m) => /\ Server!Holds(m, client[m].ip)
                       /\ leases[m].expires >= client[m].until

\* Whatever ended the session before, a stop or the death of the process at
\* any point, and however old the file is, a session starts with a table
\* DhcpServer starts from: addresses of the pool, one client each, none
\* expired or longer than a lease.
StartsSeeded ==
    [][ Open => /\ Server!Seeded(leases')
                /\ \A m \in Macs : leases'[m].expires <= now + LeaseSecs ]_vars

=============================================================================
