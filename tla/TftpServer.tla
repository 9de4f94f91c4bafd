------------------------------ MODULE TftpServer ------------------------------
(***************************************************************************)
(* The TFTP server of crates/core/src/tftp.rs and one client, the router's *)
(* boot loader.  A listener thread starts a session thread for every read  *)
(* request it receives; a session sends the file in blocks from a port of  *)
(* its own, each block after the acknowledgement of the one before.        *)
(*                                                                         *)
(* The network is two queues of datagrams, which loses any of them and, if *)
(* Reorder holds, delivers them in any order.  A file is a number of       *)
(* blocks, the last one short; block n's content is n.  The number on the  *)
(* wire is n % BlockMod (2^16 in the code).  Names, sizes, the option      *)
(* values and the progress figures are left out.                           *)
(*                                                                         *)
(* Before some definitions stands a form of them with a mistake in it,     *)
(* which no other definition uses: it shows that a property would catch    *)
(* the mistake.                                                            *)
(***************************************************************************)
EXTENDS Integers, SequencesExt

CONSTANTS MaxSessions,  \* read requests the client sends, at most
          Blocks,       \* blocks of the file
          BlockMod,     \* block numbers are sent modulo this
          MaxRetries,   \* TFTP_MAX_RETRIES
          ClientTries,  \* times the client repeats a datagram, at most
          Cap,          \* datagrams in a queue, at most
          Reorder       \* the network may reorder datagrams

Sids == 1 .. MaxSessions   \* sessions, in the order they are started

ASSUME TftpAssumption == /\ MaxSessions \in Nat \ {0}
                         /\ Blocks \in Nat \ {0}
                         /\ BlockMod \in Nat /\ BlockMod >= 4
                         /\ MaxRetries \in Nat
                         /\ ClientTries \in Nat
                         /\ Cap \in Nat \ {0}
                         /\ Reorder \in BOOLEAN

VARIABLES running,  \* the server's running flag
          sess,     \* sess[s]: the thread of session s
          up,       \* datagrams on their way to the server
          down,     \* datagrams on their way to the client
          client    \* the client

vars == <<running, sess, up, down, client>>

-----------------------------------------------------------------------------
(* Datagrams.  "sid" is the server's port: 0 is the listener.  "n" is the  *)
(* full block number; in a DATA it is the content.  Only "num" is compared *)
(* by the server.                                                          *)

Num(n) == n % BlockMod

Datagram(op, s, n) == [op |-> op, sid |-> s, num |-> Num(n), n |-> n]

\* The number a precedes e: (a as i16).wrapping_sub(e as i16) < 0.
Before(a, e) == (a - e) % BlockMod >= BlockMod \div 2

\* A datagram is appended to a queue; a full queue drops it.
Send(q, p) == IF Len(q) < Cap THEN Append(q, p) ELSE q

\* The places of a queue whose datagram can be delivered next.
Deliverable(q) == IF Reorder THEN DOMAIN q ELSE (DOMAIN q) \cap {1}

-----------------------------------------------------------------------------
(* The client: it sends a request, takes the first session that answers as *)
(* its peer, keeps the blocks that arrive in order and acknowledges them.  *)

want == Len(client.got) + 1   \* the block it waits for

ClientAsk ==
    /\ client.st = "idle"
    /\ client' = [client EXCEPT !.st = "asking"]
    /\ up' = Send(up, Datagram(client.asks, 0, 0))
    /\ UNCHANGED <<running, sess, down>>

\* A timeout of the client: it repeats the request, or the last
\* acknowledgement.
ClientRepeat ==
    /\ \/ /\ client.st = "asking"
          /\ client.tries < MaxSessions - 1
          /\ up' = Send(up, Datagram(client.asks, 0, 0))
       \/ /\ client.st = "receiving"
          /\ client.tries < ClientTries
          /\ up' = Send(up, Datagram("ack", client.peer, want - 1))
    /\ client' = [client EXCEPT !.tries = @ + 1]
    /\ UNCHANGED <<running, sess, down>>

\* It gives up, telling its peer or not.
ClientGiveUp ==
    /\ client.st \in {"asking", "receiving"}
    /\ client' = [client EXCEPT !.st = "failed"]
    /\ up' \in {up, Send(up, Datagram("error", client.peer, 0))}
    /\ UNCHANGED <<running, sess, down>>

\* Datagram p fits what the client waits for: its first answer, or one of
\* its peer's.
FromPeer(p) == client.peer = p.sid

Starts(p) == /\ client.st = "asking"
             /\ p.op = (IF client.options THEN "oack" ELSE "data")

ClientReceive(p) ==
    \* An OACK is answered with an acknowledgement of block 0.
    \/ /\ p.op = "oack"
       /\ \/ Starts(p)
          \/ FromPeer(p) /\ client.st = "receiving" /\ client.got = <<>>
       /\ client' = [client EXCEPT !.st = "receiving", !.peer = p.sid,
                                   !.tries = 0]
       /\ up' = Send(up, Datagram("ack", p.sid, 0))
    \* The block it waits for is kept; the short block ends the transfer.
    \/ /\ p.op = "data"
       /\ Starts(p) \/ (FromPeer(p) /\ client.st = "receiving")
       /\ p.num = Num(want)
       /\ client' = [client EXCEPT
                        !.st = IF p.n = Blocks THEN "done" ELSE "receiving",
                        !.peer = p.sid, !.got = Append(@, p.n), !.tries = 0]
       /\ up' = Send(up, Datagram("ack", p.sid, want))
    \* The block before is acknowledged again, after the end as well.
    \/ /\ p.op = "data"
       /\ FromPeer(p) /\ client.st \in {"receiving", "done"}
       /\ p.num = Num(want - 1)
       /\ client' = client
       /\ up' = Send(up, Datagram("ack", p.sid, want - 1))
    \* The server refuses.
    \/ /\ p.op = "error" /\ client.st = "asking"
       /\ client' = [client EXCEPT !.st = "failed"]
       /\ UNCHANGED up
    \* A session that is not the peer is told so.
    \/ /\ p.op \in {"oack", "data"} /\ client.peer \notin {0, p.sid}
       /\ client' = client
       /\ up' = Send(up, Datagram("error", p.sid, 0))

FromNetwork ==
    \E i \in Deliverable(down) :
        /\ ClientReceive(down[i])
        /\ down' = RemoveAt(down, i)
        /\ UNCHANGED <<running, sess>>

\* A datagram is lost, or its receiver ignores it or is gone.
LoseDown == /\ \E i \in Deliverable(down) : down' = RemoveAt(down, i)
            /\ UNCHANGED <<running, sess, up, client>>

LoseUp == /\ \E i \in Deliverable(up) : up' = RemoveAt(up, i)
          /\ UNCHANGED <<running, sess, down, client>>

-----------------------------------------------------------------------------
(* The listener and handle_transfer up to the first datagram.              *)

Free == [st |-> "free", blk |-> 0, timeouts |-> 0]
Active(s) == sess[s].st \in {"oack", "data"}

FreeSids == {s \in Sids : sess[s].st = "free"}

\* A read request for a file that is there starts a session: with options
\* it sends the OACK and waits for the acknowledgement of block 0, without
\* it sends block 1.
StartSession(s) ==
    /\ sess' = [sess EXCEPT ![s] =
                  IF client.options
                  THEN [st |-> "oack", blk |-> 0, timeouts |-> 0]
                  ELSE [st |-> "data", blk |-> 1, timeouts |-> 0]]
    /\ down' = IF client.options THEN Send(down, Datagram("oack", s, 0))
                                 ELSE Send(down, Datagram("data", s, 1))

\* The file cannot be opened although it is there: the OACK is out, the
\* session ends.
FailOpening(s) ==
    /\ sess' = [sess EXCEPT ![s] = [Free EXCEPT !.st = "error"]]
    /\ down' = IF client.options THEN Send(down, Datagram("oack", s, 0))
                                 ELSE down

\* A write request, or a read request for a file that is not there, is
\* refused from a socket of its own.
RefuseRequest(p) ==
    /\ p.op \in {"write", "missing"}
    /\ down' = Send(down, Datagram("error", 0, 0))
    /\ UNCHANGED sess

Listen ==
    /\ running
    /\ \E i \in Deliverable(up) :
          /\ \/ RefuseRequest(up[i])
             \/ /\ up[i].op = "read"
                /\ \E s \in FreeSids :
                      /\ \A t \in FreeSids : s <= t
                      /\ StartSession(s) \/ FailOpening(s)
          /\ up' = RemoveAt(up, i)
    /\ UNCHANGED <<running, client>>

-----------------------------------------------------------------------------
(* A session thread: wait_ack and the loop of rrq.                         *)

\* Mistake: the file is read on before the block is sent again.
CurrentReadOn(s) ==
    [Datagram(sess[s].st, s, sess[s].blk) EXCEPT !.n = IF @ < Blocks THEN @ + 1 ELSE @]

\* What the session sent last, and sends again.
Current(s) == Datagram(sess[s].st, s, sess[s].blk)

AcknowledgesUpTo(p, s) == p.num <= Num(sess[s].blk)   \* mistake

\* The datagram acknowledges what was sent last.
Acknowledges(p, s) == p.num = Num(sess[s].blk)

LastBlockEarly(s) == sess[s].blk >= Blocks - 1   \* mistake

\* The block sent last is the short one that ends the file.
LastBlock(s) == sess[s].blk = Blocks

\* After the last block the transfer is done, otherwise the next is sent.
Advance(s) ==
    IF LastBlock(s)
    THEN /\ sess' = [sess EXCEPT ![s].st = "done"]
         /\ UNCHANGED down
    ELSE /\ sess' = [sess EXCEPT ![s] = [st |-> "data", blk |-> @.blk + 1,
                                         timeouts |-> 0]]
         /\ down' = Send(down, Datagram("data", s, sess[s].blk + 1))

\* wait_ack receives a datagram, which resets the count of timeouts.
SessionReceive(s, p) ==
    \/ /\ p.op = "ack" /\ Acknowledges(p, s)
       /\ Advance(s)
    \* The block before is acknowledged again: the current one may be lost.
    \/ /\ p.op = "ack" /\ ~Acknowledges(p, s)
       /\ Before(p.num, Num(sess[s].blk))
       /\ sess' = [sess EXCEPT ![s].timeouts = 0]
       /\ down' = Send(down, Current(s))
    \/ /\ p.op = "ack" /\ ~Acknowledges(p, s)
       /\ ~Before(p.num, Num(sess[s].blk))
       /\ sess' = [sess EXCEPT ![s].timeouts = 0]
       /\ UNCHANGED down
    \/ /\ p.op = "error"
       /\ sess' = [sess EXCEPT ![s].st = "error"]
       /\ UNCHANGED down

FromClient(s) ==
    /\ Active(s)
    /\ \E i \in Deliverable(up) :
          /\ up[i].sid = s
          /\ SessionReceive(s, up[i])
          /\ up' = RemoveAt(up, i)
    /\ UNCHANGED <<running, client>>

GivesUpLate(s) == sess[s].timeouts > MaxRetries   \* mistake

\* More than MaxRetries timeouts in a row end the transfer.
GivesUp(s) == sess[s].timeouts + 1 > MaxRetries

\* Mistake: timeouts are not counted.
SessionTimeoutForever(s) ==
    /\ Active(s)
    /\ down' = Send(down, Current(s))
    /\ UNCHANGED <<running, sess, up, client>>

\* recv timed out: send again, or give up.  The running flag is not looked at.
SessionTimeout(s) ==
    /\ Active(s)
    /\ IF GivesUp(s)
       THEN /\ sess' = [sess EXCEPT ![s].st = "error"]
            /\ UNCHANGED down
       ELSE /\ sess' = [sess EXCEPT ![s].timeouts = @ + 1]
            /\ down' = Send(down, Current(s))
    /\ UNCHANGED <<running, up, client>>

\* stop: the listener's socket is closed and its thread joined; the session
\* threads are left to themselves.
Stop == /\ running
        /\ running' = FALSE
        /\ UNCHANGED <<sess, up, down, client>>

-----------------------------------------------------------------------------

Init == /\ running = TRUE
        /\ sess = [s \in Sids |-> Free]
        /\ up = <<>>
        /\ down = <<>>
        /\ client \in [st : {"idle"}, asks : {"read", "write", "missing"},
                       options : BOOLEAN, peer : {0}, tries : {0},
                       got : {<<>>}]

Client == ClientAsk \/ ClientRepeat \/ ClientGiveUp \/ FromNetwork
Server == Listen \/ \E s \in Sids : FromClient(s) \/ SessionTimeout(s)

Next == Client \/ Server \/ LoseDown \/ LoseUp \/ Stop

Spec == Init /\ [][Next]_vars

\* The timer of a session runs out again and again while it waits.  Nothing
\* is assumed of the client, of the network or of Stop.
FairSpec == Spec /\ \A s \in Sids : WF_vars(SessionTimeout(s))

-----------------------------------------------------------------------------
(* Properties.                                                             *)

Datagrams == [op : {"read", "write", "missing", "oack", "data", "ack", "error"},
              sid : {0} \cup Sids, num : 0 .. BlockMod - 1, n : 0 .. Blocks]

\* Every thread, queue and the client have their types.
TypeOK ==
    /\ running \in BOOLEAN
    /\ sess \in [Sids -> [st : {"free", "oack", "data", "done", "error"},
                          blk : 0 .. Blocks, timeouts : 0 .. MaxRetries]]
    /\ up \in Seq(Datagrams) /\ Len(up) <= Cap
    /\ down \in Seq(Datagrams) /\ Len(down) <= Cap
    /\ client \in [st : {"idle", "asking", "receiving", "done", "failed"},
                   asks : {"read", "write", "missing"}, options : BOOLEAN,
                   peer : {0} \cup Sids, tries : Nat, got : Seq(1 .. Blocks)]

\* The file the client holds is a prefix of the server's, across lost,
\* repeated and (with Reorder) reordered datagrams, two sessions answering
\* one client and block numbers that wrap around.
InOrder == /\ Len(client.got) <= Blocks
           /\ \A i \in 1 .. Len(client.got) : client.got[i] = i

\* A session that reports a transfer without error is the client's peer, and
\* the client has the whole file: neither an acknowledgement for another
\* session's block nor one from before a wrap-around counts.
SuccessMeansDelivered ==
    \A s \in Sids : sess[s].st = "done" =>
        client.peer = s /\ client.st = "done" /\ Len(client.got) = Blocks

\* The session the client reads from is never more than one block ahead of
\* what arrived, and never behind it.
Lockstep ==
    \A s \in Sids :
        Active(s) /\ client.peer = s /\ sess[s].st = "data"
        => sess[s].blk - Len(client.got) \in {0, 1}

\* The transfer implements the delivery of a file.
Delivery == INSTANCE FileDelivery
    WITH arrived <- Len(client.got),
         reported <- (\E s \in Sids : sess[s].st = "done")
ImplementsDelivery == Delivery!Spec

\* Every session thread ends, although each datagram it receives gives it a
\* fresh allowance of timeouts, whether or not the client is still there.
SessionsEnd == \A s \in Sids : Active(s) ~> ~Active(s)

=============================================================================
