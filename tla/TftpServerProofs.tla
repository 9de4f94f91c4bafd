-------------------------- MODULE TftpServerProofs --------------------------
(***************************************************************************)
(* Proofs about TftpServer, for every number of sessions, blocks and       *)
(* retries, every capacity of the queues and every modulus of the block    *)
(* numbers.  The inductive invariant Inv adds to the properties what the   *)
(* datagrams under way say of the sessions and of the client that sent     *)
(* them.  The theorems assume NumbersTell: the network keeps the order of  *)
(* the datagrams, or the file has fewer blocks than there are block        *)
(* numbers.                                                                *)
(***************************************************************************)
EXTENDS TftpServer, SequenceTheorems, TLAPS

Arrived == Len(client.got)

\* The number on the wire tells the block: the network keeps the order, or no
\* number is used twice.
NumbersTell == ~Reorder \/ Blocks < BlockMod

\* The block a session is at before any acknowledgement.
FirstBlock == IF client.options THEN 0 ELSE 1

\* A session that is not the peer stays at its first block; the peer is at the
\* block that arrived last or at the next, and is done only at the end.
SessionsOK ==
    \A s \in Sids :
        /\ sess[s].st \in {"free", "oack"} => sess[s].blk = 0
        /\ sess[s].st = "data" => sess[s].blk > 0
        /\ sess[s].st = "done" =>
              s = client.peer /\ sess[s].blk = Blocks /\ Arrived = Blocks
        /\ s # client.peer => sess[s].blk <= FirstBlock
        /\ s = client.peer => sess[s].blk - Arrived \in {0, 1}

\* The client has a peer once something arrived, and is done when all did.
ClientOK ==
    /\ client.st \in {"idle", "asking"} => client.peer = 0 /\ client.got = <<>>
    /\ client.st \in {"receiving", "done"} => client.peer # 0
    /\ Arrived = Blocks <=> client.st = "done"

\* p is a datagram of the server whose sessions are as in se.
FromServer(p, se) ==
    /\ p.num = Num(p.n)
    /\ p.op \in {"oack", "data", "error"}
    /\ p.op \in {"oack", "data"} => p.sid \in Sids
    /\ p.op = "data" => p.n \in 1 .. se[p.sid].blk

\* p is a block sent by session s.
DataOf(p, s) == p.op = "data" /\ p.sid = s

\* The blocks of session s in the queue q are in order, the first at least n.
DataInOrder(q, s, n) ==
    ~Reorder =>
        \A i \in DOMAIN q : DataOf(q[i], s) =>
            /\ q[i].n >= n
            /\ \A j \in DOMAIN q : i < j /\ DataOf(q[j], s) => q[i].n <= q[j].n

\* No DATA is ahead of its session; in order, none of the peer is older than
\* what arrived last.
DownOK ==
    /\ \A i \in DOMAIN down : FromServer(down[i], sess)
    /\ DataInOrder(down, client.peer, Arrived)

\* p is a datagram of the client c.
FromBootLoader(p, c) ==
    /\ p.num = Num(p.n)
    /\ p.op = "ack" => /\ c.st \notin {"idle", "asking"}
                       /\ p.sid = c.peer /\ p.sid \in Sids
                       /\ p.n <= Len(c.got)

\* The acknowledgements in the queue q are in order, none older than of the
\* block before block n.
AcksInOrder(q, n) ==
    ~Reorder =>
        \A i \in DOMAIN q : q[i].op = "ack" =>
            /\ q[i].n + 1 >= n
            /\ \A j \in DOMAIN q : i < j /\ q[j].op = "ack" => q[i].n <= q[j].n

\* Nothing is acknowledged that has not arrived.
UpOK ==
    /\ \A i \in DOMAIN up : FromBootLoader(up[i], client)
    /\ client.peer \in Sids => AcksInOrder(up, sess[client.peer].blk)

\* The inductive invariant.
Inv == TypeOK /\ InOrder /\ SessionsOK /\ ClientOK /\ DownOK /\ UpOK

-----------------------------------------------------------------------------

\* Two numbers less than M apart that leave the same remainder are equal: the
\* 16 bits of a block number tell apart what is less than a turn apart.
LEMMA ModDistinct ==
    ASSUME NEW M \in Nat \ {0}, NEW a \in Nat, NEW b \in Nat,
           a <= b, b - a < M, a % M = b % M
    PROVE  a = b
<1> DEFINE qa == a \div M
           qb == b \div M
<1>1. a = M * qa + (a % M) /\ qa \in Int
  OBVIOUS
<1>2. b = M * qb + (b % M) /\ qb \in Int
  OBVIOUS
<1> HIDE DEF qa, qb
<1>3. PICK d \in Int : d = qb - qa
  BY <1>1, <1>2
<1>4. b - a = M * d
  BY <1>1, <1>2, <1>3
<1>5. ~(d >= 1)
  <2> SUFFICES ASSUME d >= 1 PROVE FALSE
    OBVIOUS
  <2>1. PICK e \in Nat : d = e + 1
    OBVIOUS
  <2>2. M * d = M * e + M /\ M * e >= 0
    BY <2>1
  <2>3. QED BY <1>4, <2>2
<1>6. ~(d <= -1)
  <2> SUFFICES ASSUME d <= -1 PROVE FALSE
    OBVIOUS
  <2>1. PICK e \in Nat : d = -1 - e
    OBVIOUS
  <2>2. M * d = - M - M * e /\ M * e >= 0
    BY <2>1
  <2>3. QED BY <1>4, <2>2
<1>7. d = 0
  BY <1>5, <1>6
<1>8. QED
  BY <1>4, <1>7

\* What RemoveAt leaves of a sequence: the elements before and after place i, in
\* their order.
LEMMA RemoveAtFacts ==
    ASSUME NEW S, NEW q \in Seq(S), NEW i \in DOMAIN q
    PROVE  /\ RemoveAt(q, i) \in Seq(S)
           /\ Len(RemoveAt(q, i)) = Len(q) - 1
           /\ \A j \in 1 .. Len(q) - 1 :
                 RemoveAt(q, i)[j] = q[IF j < i THEN j ELSE j + 1]
<1>1. i \in 1 .. Len(q) /\ Len(q) \in Nat
  OBVIOUS
<1> DEFINE a == SubSeq(q, 1, i - 1)
           b == SubSeq(q, i + 1, Len(q))
<1>2. /\ a \in Seq(S) /\ Len(a) = i - 1
      /\ \A j \in 1 .. i - 1 : a[j] = q[j]
  BY <1>1, SubSeqProperties
<1>3. /\ b \in Seq(S) /\ Len(b) = Len(q) - i
      /\ \A j \in 1 .. Len(q) - i : b[j] = q[i + j]
  BY <1>1, SubSeqProperties
<1> HIDE DEF a, b
<1>4. /\ a \o b \in Seq(S)
      /\ Len(a \o b) = Len(q) - 1
      /\ \A j \in 1 .. Len(q) - 1 :
            (a \o b)[j] = IF j <= i - 1 THEN a[j] ELSE b[j - (i - 1)]
  <2>1. Len(a) + Len(b) = Len(q) - 1
    BY <1>1, <1>2, <1>3
  <2>2. /\ a \o b \in Seq(S) /\ Len(a \o b) = Len(a) + Len(b)
        /\ \A j \in 1 .. Len(a) + Len(b) :
              (a \o b)[j] = IF j <= Len(a) THEN a[j] ELSE b[j - Len(a)]
    BY <1>2, <1>3, ConcatProperties
  <2>3. QED
    BY <1>2, <2>1, <2>2
<1>5. \A j \in 1 .. Len(q) - 1 :
            (a \o b)[j] = q[IF j < i THEN j ELSE j + 1]
  <2> TAKE j \in 1 .. Len(q) - 1
  <2>1. CASE j < i
    BY <1>1, <1>2, <1>4, <2>1
  <2>2. CASE ~(j < i)
    <3>1. j - (i - 1) \in 1 .. Len(q) - i /\ i + (j - (i - 1)) = j + 1
      BY <1>1, <2>2
    <3>2. b[j - (i - 1)] = q[j + 1]
      BY <1>3, <3>1
    <3>3. QED
      BY <1>1, <1>4, <2>2, <3>2
  <2>3. QED
    BY <2>1, <2>2
<1>6. RemoveAt(q, i) = a \o b
  BY DEF RemoveAt, a, b
<1>7. QED
  BY <1>4, <1>5, <1>6

\* A sent datagram is appended to its queue, or dropped if the queue is full.
LEMMA SendFacts ==
    ASSUME NEW S, NEW q \in Seq(S), NEW p \in S, Len(q) <= Cap
    PROVE  /\ Send(q, p) \in Seq(S)
           /\ Len(Send(q, p)) <= Cap
           /\ \A j \in DOMAIN Send(q, p) :
                 \/ j \in DOMAIN q /\ Send(q, p)[j] = q[j]
                 \/ j = Len(q) + 1 /\ Send(q, p)[j] = p
<1>1. CASE Len(q) < Cap
  BY <1>1, TftpAssumption, AppendProperties DEF Send
<1>2. CASE ~(Len(q) < Cap)
  BY <1>2, TftpAssumption DEF Send
<1>3. QED
  BY <1>1, <1>2

\* A datagram holds what it is made of, and is one of Datagrams.
LEMMA DatagramFacts ==
    ASSUME NEW op \in {"read", "write", "missing", "oack", "data", "ack", "error"},
           NEW s \in {0} \cup Sids, NEW n \in 0 .. Blocks
    PROVE  /\ Datagram(op, s, n) \in Datagrams
           /\ Datagram(op, s, n).op = op /\ Datagram(op, s, n).sid = s
           /\ Datagram(op, s, n).n = n /\ Datagram(op, s, n).num = Num(n)
<1>1. n % BlockMod \in 0 .. BlockMod - 1
  BY TftpAssumption
<1>2. QED
  BY <1>1 DEF Datagram, Datagrams, Num

\* A datagram delivered or lost leaves the others as they are and in their order.
LEMMA RemoveFacts ==
    ASSUME NEW q \in Seq(Datagrams), Len(q) <= Cap, NEW i \in DOMAIN q
    PROVE  /\ RemoveAt(q, i) \in Seq(Datagrams) /\ Len(RemoveAt(q, i)) <= Cap
           /\ \A j \in DOMAIN RemoveAt(q, i) :
                 \E k \in DOMAIN q : RemoveAt(q, i)[j] = q[k]
           /\ \A s, n : DataInOrder(q, s, n) => DataInOrder(RemoveAt(q, i), s, n)
           /\ \A n : AcksInOrder(q, n) => AcksInOrder(RemoveAt(q, i), n)
<1> DEFINE r == RemoveAt(q, i)
           f(j) == IF j < i THEN j ELSE j + 1
<1>1. /\ r \in Seq(Datagrams) /\ Len(r) = Len(q) - 1
      /\ \A j \in 1 .. Len(q) - 1 : r[j] = q[f(j)]
  BY RemoveAtFacts, Zenon
<1> HIDE DEF r
<1>2. Len(q) \in Nat /\ DOMAIN q = 1 .. Len(q) /\ DOMAIN r = 1 .. Len(q) - 1
      /\ i \in 1 .. Len(q)
  BY <1>1
<1>3. \A j \in DOMAIN r : f(j) \in DOMAIN q /\ r[j] = q[f(j)]
  BY <1>1, <1>2
<1>4. \A j, k \in DOMAIN r : j < k => f(j) < f(k)
  BY <1>2
<1> HIDE DEF f
<1>5. \A s, n : DataInOrder(q, s, n) => DataInOrder(r, s, n)
  BY <1>3, <1>4 DEF DataInOrder
<1>6. \A n : AcksInOrder(q, n) => AcksInOrder(r, n)
  BY <1>3, <1>4 DEF AcksInOrder
<1>7. Len(r) <= Cap
  BY <1>1, <1>2, TftpAssumption
<1>8. QED
  BY <1>1, <1>3, <1>5, <1>6, <1>7 DEF r

\* A datagram sent after the ones it must not overtake keeps its queue in order:
\* DATA of one session and acknowledgements leave with ascending block numbers.
LEMMA SendInOrder ==
    ASSUME NEW q \in Seq(Datagrams), Len(q) <= Cap, NEW p \in Datagrams
    PROVE  /\ Send(q, p) \in Seq(Datagrams) /\ Len(Send(q, p)) <= Cap
           /\ \A j \in DOMAIN Send(q, p) :
                 \/ j \in DOMAIN q /\ Send(q, p)[j] = q[j]
                 \/ j = Len(q) + 1 /\ Send(q, p)[j] = p
           /\ \A s, n :
                 /\ DataInOrder(q, s, n)
                 /\ DataOf(p, s) => /\ p.n >= n
                                    /\ \A j \in DOMAIN q : DataOf(q[j], s) => q[j].n <= p.n
                 => DataInOrder(Send(q, p), s, n)
           /\ \A n :
                 /\ AcksInOrder(q, n)
                 /\ p.op = "ack" => /\ p.n + 1 >= n
                                    /\ \A j \in DOMAIN q : q[j].op = "ack" => q[j].n <= p.n
                 => AcksInOrder(Send(q, p), n)
<1> DEFINE r == Send(q, p)
<1>1. /\ r \in Seq(Datagrams) /\ Len(r) <= Cap
      /\ \A j \in DOMAIN r : \/ j \in DOMAIN q /\ r[j] = q[j]
                             \/ j = Len(q) + 1 /\ r[j] = p
  BY SendFacts, Zenon
<1> HIDE DEF r
<1>2. \A j \in DOMAIN q : ~(Len(q) + 1 < j)
  OBVIOUS
<1>3. DOMAIN r \subseteq Nat /\ DOMAIN q \subseteq Nat
  BY <1>1
<1>4. ASSUME NEW s, NEW n, DataInOrder(q, s, n),
             DataOf(p, s) => /\ p.n >= n
                             /\ \A j \in DOMAIN q : DataOf(q[j], s) => q[j].n <= p.n
      PROVE  DataInOrder(r, s, n)
  <2> SUFFICES ASSUME ~Reorder, NEW i \in DOMAIN r, DataOf(r[i], s)
               PROVE  /\ r[i].n >= n
                      /\ \A j \in DOMAIN r : i < j /\ DataOf(r[j], s) => r[i].n <= r[j].n
    BY DEF DataInOrder
  <2>1. CASE i \in DOMAIN q /\ r[i] = q[i]
    BY <2>1, <1>1, <1>2, <1>4 DEF DataInOrder
  <2>2. CASE i = Len(q) + 1 /\ r[i] = p
    <3>1. \A j \in DOMAIN r : ~(i < j)
      BY <2>2, <1>1, <1>2, <1>3
    <3>2. QED
      BY <2>2, <3>1, <1>4
  <2>3. QED
    BY <1>1, <2>1, <2>2
<1>5. ASSUME NEW n, AcksInOrder(q, n),
             p.op = "ack" => /\ p.n + 1 >= n
                             /\ \A j \in DOMAIN q : q[j].op = "ack" => q[j].n <= p.n
      PROVE  AcksInOrder(r, n)
  <2> SUFFICES ASSUME ~Reorder, NEW i \in DOMAIN r, r[i].op = "ack"
               PROVE  /\ r[i].n + 1 >= n
                      /\ \A j \in DOMAIN r : i < j /\ r[j].op = "ack" => r[i].n <= r[j].n
    BY DEF AcksInOrder
  <2>1. CASE i \in DOMAIN q /\ r[i] = q[i]
    BY <2>1, <1>1, <1>2, <1>5 DEF AcksInOrder
  <2>2. CASE i = Len(q) + 1 /\ r[i] = p
    <3>1. \A j \in DOMAIN r : ~(i < j)
      BY <2>2, <1>1, <1>2, <1>3
    <3>2. QED
      BY <2>2, <3>1, <1>5
  <2>3. QED
    BY <1>1, <2>1, <2>2
<1>6. QED
  BY <1>1, <1>4, <1>5 DEF r

\* A network that keeps the order delivers the head of a queue: every DATA or
\* acknowledgement left behind it is at least as recent.
LEMMA HeadTaken ==
    ASSUME NEW q \in Seq(Datagrams), Len(q) <= Cap, NEW i \in Deliverable(q)
    PROVE  /\ \A s, n : DataInOrder(q, s, n) /\ DataOf(q[i], s)
                        => DataInOrder(RemoveAt(q, i), s, q[i].n)
           /\ \A n : AcksInOrder(q, n) /\ q[i].op = "ack"
                     => AcksInOrder(RemoveAt(q, i), q[i].n + 1)
<1>1. CASE Reorder
  BY <1>1 DEF DataInOrder, AcksInOrder
<1>2. CASE ~Reorder
  <2> DEFINE r == RemoveAt(q, i)
  <2>1. i = 1 /\ i \in DOMAIN q
    BY <1>2 DEF Deliverable
  <2>2. /\ Len(r) = Len(q) - 1 /\ r \in Seq(Datagrams)
        /\ \A j \in 1 .. Len(q) - 1 : r[j] = q[IF j < i THEN j ELSE j + 1]
    BY <2>1, RemoveAtFacts, Zenon
  <2> HIDE DEF r
  <2>3. \A j \in DOMAIN r : j + 1 \in DOMAIN q /\ 1 < j + 1 /\ r[j] = q[j + 1] /\ j \in Nat
    BY <2>1, <2>2
  <2>4. \A j, k \in DOMAIN r : j < k => j + 1 < k + 1
    BY <2>3
  <2>5. \A j \in DOMAIN q : q[j].n \in Nat
    <3>1. \A j \in DOMAIN q : q[j] \in Datagrams
      OBVIOUS
    <3>2. \A p \in Datagrams : p.n \in Nat
      BY TftpAssumption DEF Datagrams
    <3>3. QED BY <3>1, <3>2
  <2>6. ASSUME NEW s, NEW n, DataInOrder(q, s, n), DataOf(q[i], s)
        PROVE  DataInOrder(r, s, q[i].n)
    <3>1. \A j, k \in DOMAIN q : j < k /\ DataOf(q[j], s) /\ DataOf(q[k], s)
                                => q[j].n <= q[k].n
      BY <1>2, <2>6 DEF DataInOrder
    <3>2. \A j \in DOMAIN r : DataOf(r[j], s) => r[j].n >= q[i].n
      BY <2>1, <2>3, <2>5, <2>6, <3>1
    <3>3. \A j, k \in DOMAIN r : j < k /\ DataOf(r[j], s) /\ DataOf(r[k], s)
                                => r[j].n <= r[k].n
      BY <2>3, <2>4, <3>1
    <3>4. QED BY <3>2, <3>3 DEF DataInOrder
  <2>7. ASSUME NEW n, AcksInOrder(q, n), q[i].op = "ack"
        PROVE  AcksInOrder(r, q[i].n + 1)
    <3>1. \A j, k \in DOMAIN q : j < k /\ q[j].op = "ack" /\ q[k].op = "ack"
                                => q[j].n <= q[k].n
      BY <1>2, <2>7 DEF AcksInOrder
    <3>2. \A j \in DOMAIN r : r[j].op = "ack" => r[j].n + 1 >= q[i].n + 1
      BY <2>1, <2>3, <2>5, <2>7, <3>1
    <3>3. \A j, k \in DOMAIN r : j < k /\ r[j].op = "ack" /\ r[k].op = "ack"
                                => r[j].n <= r[k].n
      BY <2>3, <2>4, <3>1
    <3>4. QED BY <3>2, <3>3 DEF AcksInOrder
  <2>8. QED
    BY <2>6, <2>7 DEF r
<1>3. QED
  BY <1>1, <1>2

\* The invariant holds when the server has started and no datagram is under way.
LEMMA InitInv == Init => Inv
<1> SUFFICES ASSUME Init PROVE Inv
  OBVIOUS
<1>1. TypeOK
  <2>1. sess \in [Sids -> [st : {"free", "oack", "data", "done", "error"},
                           blk : 0 .. Blocks, timeouts : 0 .. MaxRetries]]
    BY TftpAssumption DEF Init, Free
  <2>2. <<>> \in Seq(Datagrams) /\ Len(<<>>) <= Cap /\ <<>> \in Seq(1 .. Blocks)
    BY TftpAssumption
  <2>3. client \in [st : {"idle", "asking", "receiving", "done", "failed"},
                    asks : {"read", "write", "missing"}, options : BOOLEAN,
                    peer : {0} \cup Sids, tries : Nat, got : Seq(1 .. Blocks)]
    <3>1. client \in [st : {"idle"}, asks : {"read", "write", "missing"},
                      options : BOOLEAN, peer : {0}, tries : {0}, got : {<<>>}]
      BY DEF Init
    <3> HIDE DEF Init
    <3>2. <<>> \in Seq(1 .. Blocks) /\ 0 \in Nat
      BY <2>2
    <3>3. QED BY <3>1, <3>2
  <2>4. QED
    BY <2>1, <2>2, <2>3 DEF Init, TypeOK
<1>2. /\ client.got = <<>> /\ client.st = "idle" /\ client.peer = 0
      /\ up = <<>> /\ down = <<>> /\ \A s \in Sids : sess[s] = Free
  BY DEF Init
<1>3. InOrder /\ ClientOK
  BY <1>2, TftpAssumption DEF InOrder, ClientOK, Arrived
<1>4. SessionsOK
  BY <1>2, TftpAssumption DEF SessionsOK, Free, FirstBlock, Sids
<1>5. DownOK /\ UpOK
  BY <1>2 DEF DownOK, UpOK, DataInOrder, AcksInOrder
<1>6. QED
  BY <1>1, <1>3, <1>4, <1>5 DEF Inv

-----------------------------------------------------------------------------

\* What TypeOK says of one session, one datagram and the client.
LEMMA TypeFacts ==
    ASSUME TypeOK
    PROVE  /\ \A s \in Sids : /\ sess[s].blk \in 0 .. Blocks
                              /\ sess[s].timeouts \in 0 .. MaxRetries
                              /\ sess[s].st \in {"free", "oack", "data", "done", "error"}
           /\ up \in Seq(Datagrams) /\ Len(up) <= Cap
           /\ down \in Seq(Datagrams) /\ Len(down) <= Cap
           /\ \A i \in DOMAIN up : up[i] \in Datagrams
           /\ \A i \in DOMAIN down : down[i] \in Datagrams
           /\ \A p \in Datagrams : p.n \in 0 .. Blocks /\ p.sid \in {0} \cup Sids
           /\ client.peer \in {0} \cup Sids /\ client.options \in BOOLEAN
           /\ client.got \in Seq(1 .. Blocks) /\ Arrived \in Nat
           /\ client.asks \in {"read", "write", "missing"}
           /\ client.st \in {"idle", "asking", "receiving", "done", "failed"}
<1>1. \A p \in Datagrams : p.n \in 0 .. Blocks /\ p.sid \in {0} \cup Sids
  BY DEF Datagrams
<1>2. /\ client.got \in Seq(1 .. Blocks)
      /\ client.peer \in {0} \cup Sids /\ client.options \in BOOLEAN
      /\ client.asks \in {"read", "write", "missing"}
      /\ client.st \in {"idle", "asking", "receiving", "done", "failed"}
  BY DEF TypeOK
<1>3. Arrived \in Nat
  BY <1>2 DEF Arrived
<1>4. \A s \in Sids : /\ sess[s].blk \in 0 .. Blocks
                      /\ sess[s].timeouts \in 0 .. MaxRetries
                      /\ sess[s].st \in {"free", "oack", "data", "done", "error"}
  BY DEF TypeOK
<1>5. /\ up \in Seq(Datagrams) /\ Len(up) <= Cap
      /\ down \in Seq(Datagrams) /\ Len(down) <= Cap
  BY DEF TypeOK
<1>6. /\ \A i \in DOMAIN up : up[i] \in Datagrams
      /\ \A i \in DOMAIN down : down[i] \in Datagrams
  BY <1>5
<1>7. QED
  BY <1>1, <1>2, <1>3, <1>4, <1>5, <1>6

\* Blocks that are less than BlockMod apart have different numbers on the wire.
LEMMA NumDistinct ==
    ASSUME NEW a \in Nat, NEW b \in Nat, Num(a) = Num(b),
           a - b < BlockMod, b - a < BlockMod
    PROVE  a = b
<1>1. BlockMod \in Nat \ {0} /\ a % BlockMod = b % BlockMod
  BY TftpAssumption DEF Num
<1>2. CASE a <= b
  BY <1>1, <1>2, ModDistinct
<1>3. CASE b <= a
  BY <1>1, <1>3, ModDistinct
<1>4. QED
  BY <1>2, <1>3

\* A DATA the client takes for the block it waits for is that block, although only
\* its number is compared: the number of an older block a turn before cannot
\* arrive, and its session is at that block.
LEMMA BlockTold ==
    ASSUME Inv, NumbersTell, NEW i \in Deliverable(down), down[i].op = "data",
           \/ Starts(down[i])
           \/ FromPeer(down[i]) /\ client.st = "receiving",
           down[i].num = Num(want)
    PROVE  /\ i \in DOMAIN down
           /\ down[i].n = want /\ want = Arrived + 1 /\ want <= Blocks
           /\ down[i].sid \in Sids /\ sess[down[i].sid].blk = want
<1> DEFINE p == down[i]
<1>0. want = Arrived + 1 /\ i \in DOMAIN down
  BY DEF want, Arrived, Deliverable
<1>1. /\ p.sid \in Sids /\ p.n \in 1 .. sess[p.sid].blk
      /\ sess[p.sid].blk \in 0 .. Blocks /\ p.num = Num(p.n)
      /\ ~Reorder /\ p.sid = client.peer => p.n >= Arrived
  BY <1>0, TypeFacts DEF Inv, DownOK, FromServer, DataInOrder, DataOf
<1>2. Arrived \in Nat /\ Arrived <= Blocks /\ Blocks \in Nat /\ BlockMod \in Nat /\ BlockMod >= 4
  BY TypeFacts, TftpAssumption DEF Inv, InOrder, Arrived
<1>3. CASE Starts(p)
  <2>1. Arrived = 0 /\ client.peer = 0 /\ ~client.options
    BY <1>3, TypeFacts DEF Inv, ClientOK, Starts, Arrived
  <2>2. sess[p.sid].blk <= 1
    BY <1>1, <2>1, TftpAssumption DEF Inv, SessionsOK, FirstBlock, Sids
  <2>3. QED
    BY <1>0, <1>1, <1>2, <2>1, <2>2
<1>4. CASE FromPeer(p) /\ client.st = "receiving"
  <2>1. Arrived < Blocks /\ sess[p.sid].blk - Arrived \in {0, 1} /\ p.sid = client.peer
    BY <1>1, <1>2, <1>4 DEF Inv, ClientOK, SessionsOK, FromPeer
  <2>2. p.n = want
    <3>1. p.n \in Nat /\ want \in Nat /\ Num(p.n) = Num(want)
      BY <1>0, <1>1, <1>2
    <3>2. CASE ~Reorder
      BY <1>0, <1>1, <1>2, <2>1, <3>1, <3>2, NumDistinct
    <3>3. CASE Blocks < BlockMod
      BY <1>0, <1>1, <1>2, <2>1, <3>1, <3>3, NumDistinct
    <3>4. QED
      BY <3>2, <3>3 DEF NumbersTell
  <2>3. QED
    BY <1>0, <1>1, <1>2, <2>1, <2>2
<1>5. QED
  BY <1>3, <1>4

\* An acknowledgement wait_ack accepts is for the block the session sent last,
\* although only its number is compared, and the client has that block.
LEMMA AckTold ==
    ASSUME Inv, NumbersTell, NEW s \in Sids, NEW i \in DOMAIN up,
           up[i].op = "ack", up[i].sid = s, Acknowledges(up[i], s)
    PROVE  /\ s = client.peer /\ client.st \notin {"idle", "asking"}
           /\ up[i].n = sess[s].blk /\ Arrived = sess[s].blk
<1> DEFINE p == up[i]
<1>1. /\ p.num = Num(p.n) /\ p.sid = client.peer /\ p.n <= Arrived
      /\ client.st \notin {"idle", "asking"}
      /\ ~Reorder => p.n + 1 >= sess[s].blk
  BY DEF Inv, UpOK, FromBootLoader, AcksInOrder, Arrived
<1>2. /\ p.n \in 0 .. Blocks /\ sess[s].blk \in 0 .. Blocks
      /\ Arrived \in Nat /\ Arrived <= Blocks
      /\ Blocks \in Nat /\ BlockMod \in Nat /\ BlockMod >= 4
  BY TypeFacts, TftpAssumption DEF Inv, InOrder, Arrived
<1>3. sess[s].blk - Arrived \in {0, 1}
  BY <1>1 DEF Inv, SessionsOK
<1>4. Num(p.n) = Num(sess[s].blk)
  BY <1>1 DEF Acknowledges
<1>5. CASE ~Reorder
  BY <1>1, <1>2, <1>3, <1>4, <1>5, NumDistinct
<1>6. CASE Blocks < BlockMod
  BY <1>1, <1>2, <1>3, <1>4, <1>6, NumDistinct
<1>7. QED
  BY <1>1, <1>5, <1>6 DEF NumbersTell

-----------------------------------------------------------------------------

\* The states of the client, as in TypeOK.
Clients == [st : {"idle", "asking", "receiving", "done", "failed"},
            asks : {"read", "write", "missing"}, options : BOOLEAN,
            peer : {0} \cup Sids, tries : Nat, got : Seq(1 .. Blocks)]

\* Both queues fit the client's new state and the sessions, which stay.
QueuesFit ==
    /\ \A i \in DOMAIN up : FromBootLoader(up[i], client')
    /\ client'.peer \in Sids => AcksInOrder(up, sess[client'.peer].blk)
    /\ \A i \in DOMAIN down : FromServer(down[i], sess)

\* The client may send a request, an error, or an acknowledgement of what it has.
LEMMA ClientSends ==
    ASSUME Inv, QueuesFit, sess' = sess, client' \in Clients,
           NEW op \in {"read", "write", "missing", "ack", "error"},
           NEW s \in {0} \cup Sids, NEW n \in 0 .. Blocks,
           op = "ack" => /\ client'.st \notin {"idle", "asking"}
                         /\ s = client'.peer /\ s \in Sids
                         /\ n = Arrived' /\ n + 1 >= sess[s].blk,
           up' = Send(up, Datagram(op, s, n))
    PROVE  UpOK' /\ up' \in Seq(Datagrams) /\ Len(up') <= Cap
<1> DEFINE d == Datagram(op, s, n)
<1>1. d \in Datagrams /\ d.op = op /\ d.sid = s /\ d.n = n /\ d.num = Num(n)
  <2>1. op \in {"read", "write", "missing", "oack", "data", "ack", "error"}
    OBVIOUS
  <2>2. QED BY <2>1, DatagramFacts
<1> HIDE DEF d
<1>2. /\ up \in Seq(Datagrams) /\ Len(up) <= Cap
      /\ up' = Send(up, d)
  BY TypeFacts DEF Inv, d
<1>3. /\ up' \in Seq(Datagrams) /\ Len(up') <= Cap
      /\ \A j \in DOMAIN up' : \/ j \in DOMAIN up /\ up'[j] = up[j]
                               \/ j = Len(up) + 1 /\ up'[j] = d
  <2> DEFINE q == Send(up, d)
  <2>1. /\ q \in Seq(Datagrams) /\ Len(q) <= Cap
        /\ \A j \in DOMAIN q : \/ j \in DOMAIN up /\ q[j] = up[j]
                               \/ j = Len(up) + 1 /\ q[j] = d
    BY <1>1, <1>2, SendInOrder, Zenon
  <2>2. QED
    BY <1>2, <2>1
<1>4. FromBootLoader(d, client')
  BY <1>1, TftpAssumption DEF FromBootLoader, Arrived
<1>5. \A j \in DOMAIN up' : FromBootLoader(up'[j], client')
  BY <1>3, <1>4 DEF QueuesFit
<1>6. ASSUME client'.peer \in Sids
      PROVE  AcksInOrder(up', sess'[client'.peer].blk)
  <2>1. AcksInOrder(up, sess[client'.peer].blk)
    BY <1>6 DEF QueuesFit
  <2>2. d.op = "ack" => /\ d.n + 1 >= sess[client'.peer].blk
                        /\ \A j \in DOMAIN up : up[j].op = "ack" => up[j].n <= d.n
    BY <1>1 DEF QueuesFit, FromBootLoader, Arrived
  <2>3. AcksInOrder(Send(up, d), sess[client'.peer].blk)
    BY <1>1, <1>2, <2>1, <2>2, SendInOrder, Zenon
  <2>4. QED
    BY <1>2, <2>3
<1>7. QED
  BY <1>3, <1>5, <1>6 DEF UpOK

\* The client's peer and its blocks stay.
SameTransfer ==
    /\ sess' = sess /\ client' \in Clients
    /\ client'.peer = client.peer /\ client'.got = client.got
    /\ client'.options = client.options
    /\ client'.st \in {"idle", "asking"} => client.st \in {"idle", "asking"}
    /\ client.st \in {"idle", "asking"} /\ client'.st \notin {"idle", "asking"}
          => client'.st = "failed"
    /\ client'.st = "done" <=> client.st = "done"
    /\ client'.st = "receiving" => client.st = "receiving"

\* While the peer and the blocks of the client stay, so does what is said of the
\* sessions and of the datagrams.
LEMMA TransferKept ==
    ASSUME Inv, SameTransfer
    PROVE  /\ InOrder' /\ SessionsOK' /\ ClientOK' /\ QueuesFit
           /\ Arrived' = Arrived
           /\ DataInOrder(down, client'.peer, Arrived')
<1>1. Arrived' = Arrived
  BY DEF SameTransfer, Arrived
<1>2. InOrder'
  BY DEF Inv, InOrder, SameTransfer
<1>3. SessionsOK'
  BY <1>1 DEF Inv, SessionsOK, SameTransfer, FirstBlock
<1>4. ClientOK'
  BY <1>1 DEF Inv, ClientOK, SameTransfer
<1>5. QueuesFit
  BY DEF Inv, UpOK, DownOK, QueuesFit, SameTransfer, FromBootLoader, Clients
<1>6. DataInOrder(down, client'.peer, Arrived')
  BY <1>1 DEF Inv, DownOK, SameTransfer
<1>7. QED
  BY <1>1, <1>2, <1>3, <1>4, <1>5, <1>6

\* A datagram is taken from the queue to the client.
LEMMA DownTaken ==
    ASSUME Inv, sess' = sess, QueuesFit, NEW i \in Deliverable(down),
           down' = RemoveAt(down, i),
           DataInOrder(down', client'.peer, Arrived')
    PROVE  DownOK' /\ down' \in Seq(Datagrams) /\ Len(down') <= Cap
<1>1. /\ down' \in Seq(Datagrams) /\ Len(down') <= Cap
      /\ \A j \in DOMAIN down' : \E k \in DOMAIN down : down'[j] = down[k]
  BY TypeFacts, RemoveFacts DEF Inv, Deliverable
<1>2. \A j \in DOMAIN down' : FromServer(down'[j], sess')
  BY <1>1 DEF QueuesFit
<1>3. QED
  BY <1>1, <1>2 DEF DownOK

\* The client asks, repeats its last datagram or gives up: the invariant stays.
LEMMA ClientAsksOrLeaves ==
    ASSUME Inv, ClientAsk \/ ClientRepeat \/ ClientGiveUp
    PROVE  Inv'
<1>0. client \in Clients /\ client.peer \in {0} \cup Sids /\ 0 \in 0 .. Blocks
  BY TftpAssumption DEF Inv, TypeOK, Clients
<1>1. SameTransfer
  BY <1>0 DEF ClientAsk, ClientRepeat, ClientGiveUp, SameTransfer, Clients
<1>2. /\ InOrder' /\ SessionsOK' /\ ClientOK' /\ QueuesFit
      /\ DataInOrder(down, client'.peer, Arrived') /\ Arrived' = Arrived
  BY <1>1, TransferKept
<1>3. sess' = sess /\ down' = down /\ running' = running /\ client' \in Clients
  BY <1>1 DEF SameTransfer, ClientAsk, ClientRepeat, ClientGiveUp
<1>4. DownOK'
  BY <1>2, <1>3 DEF DownOK, QueuesFit
<1>5. UpOK' /\ up' \in Seq(Datagrams) /\ Len(up') <= Cap
  <2>1. CASE up' = up
    BY <1>2, <1>3, <2>1, TypeFacts DEF QueuesFit, UpOK, Inv
  <2>2. CASE up' = Send(up, Datagram(client.asks, 0, 0))
    BY <1>0, <1>2, <1>3, <2>2, ClientSends, TypeFacts DEF Inv
  <2>3. CASE up' = Send(up, Datagram("error", client.peer, 0))
    BY <1>0, <1>2, <1>3, <2>3, ClientSends
  <2>4. CASE /\ client.st = "receiving"
             /\ up' = Send(up, Datagram("ack", client.peer, want - 1))
             /\ ClientRepeat
    <3>1. want - 1 = Arrived /\ Arrived \in 0 .. Blocks
      BY TypeFacts, TftpAssumption DEF want, Inv, InOrder, Arrived
    <3>2. client.peer \in Sids /\ sess[client.peer].blk <= Arrived + 1
      <4>1. client.peer \in Sids
        BY <1>0, <2>4 DEF Inv, ClientOK
      <4>2. sess[client.peer].blk - Arrived \in {0, 1}
        BY <4>1 DEF Inv, SessionsOK
      <4>3. sess[client.peer].blk \in 0 .. Blocks
        BY <4>1, TypeFacts DEF Inv
      <4>4. QED BY <3>1, <4>1, <4>2, <4>3
    <3>3. client'.st = "receiving" /\ client'.peer = client.peer
      BY <2>4, <1>0 DEF ClientRepeat, Clients
    <3>4. QED
      BY <1>2, <1>3, <2>4, <3>1, <3>2, <3>3, ClientSends
  <2>5. QED
    BY <2>1, <2>2, <2>3, <2>4 DEF ClientAsk, ClientRepeat, ClientGiveUp
<1>6. TypeOK'
  BY <1>3, <1>5 DEF Inv, TypeOK, Clients
<1>7. QED
  BY <1>2, <1>4, <1>5, <1>6 DEF Inv

\* The client takes a datagram that changes nothing of the transfer, and answers it
\* or not: the invariant stays.
LEMMA ClientIgnores ==
    ASSUME Inv, SameTransfer, running' = running,
           NEW i \in Deliverable(down), down' = RemoveAt(down, i),
           \/ up' = up
           \/ \E op \in {"ack", "error"}, s \in Sids, n \in 0 .. Blocks :
                 /\ up' = Send(up, Datagram(op, s, n))
                 /\ op = "ack" => /\ client.st \notin {"idle", "asking"}
                                  /\ s = client.peer /\ n = Arrived
    PROVE  Inv'
<1>1. /\ InOrder' /\ SessionsOK' /\ ClientOK' /\ QueuesFit
      /\ DataInOrder(down, client'.peer, Arrived') /\ Arrived' = Arrived
  BY TransferKept
<1>2. sess' = sess /\ client' \in Clients /\ client'.peer = client.peer
  BY DEF SameTransfer
<1>3. DataInOrder(down', client'.peer, Arrived')
  BY <1>1, TypeFacts, RemoveFacts DEF Inv, Deliverable
<1>4. DownOK' /\ down' \in Seq(Datagrams) /\ Len(down') <= Cap
  BY <1>1, <1>2, <1>3, DownTaken
<1>5. UpOK' /\ up' \in Seq(Datagrams) /\ Len(up') <= Cap
  <2>1. CASE up' = up
    BY <1>1, <1>2, <2>1, TypeFacts DEF QueuesFit, UpOK, Inv
  <2>2. ASSUME NEW op \in {"ack", "error"}, NEW s \in Sids, NEW n \in 0 .. Blocks,
               up' = Send(up, Datagram(op, s, n)),
               op = "ack" => /\ client.st \notin {"idle", "asking"}
                             /\ s = client.peer /\ n = Arrived
        PROVE  UpOK' /\ up' \in Seq(Datagrams) /\ Len(up') <= Cap
    <3>1. op = "ack" => /\ client'.st \notin {"idle", "asking"}
                        /\ s = client'.peer /\ s \in Sids
                        /\ n = Arrived' /\ n + 1 >= sess[s].blk
      <4> SUFFICES ASSUME op = "ack" PROVE n + 1 >= sess[s].blk
        BY <1>1, <1>2, <2>2 DEF SameTransfer
      <4>1. sess[s].blk - Arrived \in {0, 1} /\ sess[s].blk \in 0 .. Blocks
        BY <2>2, TypeFacts DEF Inv, SessionsOK
      <4>2. QED BY <2>2, <4>1
    <3>2. QED
      BY <1>1, <1>2, <2>2, <3>1, ClientSends
  <2>3. QED
    BY <2>1, <2>2
<1>6. TypeOK'
  BY <1>2, <1>4, <1>5 DEF Inv, TypeOK, Clients
<1>7. QED
  BY <1>1, <1>4, <1>5, <1>6 DEF Inv

\* The first OACK that arrives makes its session the peer, whichever of the
\* sessions of a repeated request it is: the invariant stays.
LEMMA PeerChosen ==
    ASSUME Inv, running' = running, sess' = sess, NEW i \in Deliverable(down),
           Starts(down[i]), down[i].op = "oack",
           client' = [client EXCEPT !.st = "receiving", !.peer = down[i].sid,
                                    !.tries = 0],
           up' = Send(up, Datagram("ack", down[i].sid, 0)),
           down' = RemoveAt(down, i)
    PROVE  Inv'
<1> DEFINE s == down[i].sid
<1>0. /\ i \in DOMAIN down /\ s \in Sids /\ Blocks \in Nat \ {0}
      /\ \A t \in Sids : sess[t].blk \in 0 .. Blocks
  BY TypeFacts, TftpAssumption DEF Inv, DownOK, FromServer, Deliverable
<1>1. /\ client.st = "asking" /\ client.options /\ client.peer = 0
      /\ client.got = <<>> /\ client \in Clients
  BY DEF Starts, Inv, ClientOK, TypeOK, Clients
<1>2. /\ client' \in Clients /\ client'.st = "receiving" /\ client'.peer = s
      /\ client'.got = <<>> /\ client'.options = client.options
  BY <1>0, <1>1 DEF Clients
<1>3. Arrived = 0 /\ Arrived' = 0
  BY <1>1, <1>2 DEF Arrived
<1>4. \A t \in Sids : sess[t].blk = 0 /\ sess[t].st # "done" /\ t # client.peer
  BY <1>0, <1>1, <1>3 DEF Inv, SessionsOK, FirstBlock, Sids
<1>5. InOrder' /\ ClientOK'
  BY <1>0, <1>2, <1>3 DEF InOrder, ClientOK, Sids, Arrived
<1>6. SessionsOK'
  BY <1>2, <1>3, <1>4 DEF SessionsOK, FirstBlock, Inv
<1>7. QueuesFit
  <2>1. \A j \in DOMAIN up : up[j].op # "ack"
    BY <1>1 DEF Inv, UpOK, FromBootLoader
  <2>2. QED
    BY <2>1 DEF Inv, UpOK, DownOK, QueuesFit, FromBootLoader, AcksInOrder
<1>8. DataInOrder(down', client'.peer, Arrived')
  <2>1. DataInOrder(down, s, 0)
    <3>1. \A j \in DOMAIN down : ~DataOf(down[j], s)
      BY <1>0, <1>4 DEF Inv, DownOK, FromServer, DataOf
    <3>2. QED
      BY <3>1 DEF DataInOrder
  <2>2. QED
    BY <1>0, <1>2, <1>3, <2>1, TypeFacts, RemoveFacts DEF Inv
<1>9. DownOK' /\ down' \in Seq(Datagrams) /\ Len(down') <= Cap
  BY <1>7, <1>8, DownTaken
<1>10. UpOK' /\ up' \in Seq(Datagrams) /\ Len(up') <= Cap
  BY <1>0, <1>2, <1>3, <1>4, <1>7, ClientSends
<1>11. TypeOK'
  BY <1>2, <1>9, <1>10 DEF Inv, TypeOK, Clients
<1>12. QED
  BY <1>5, <1>6, <1>9, <1>10, <1>11 DEF Inv

\* The block the client waits for arrives: the invariant stays, and exactly one
\* block more has arrived.
LEMMA BlockArrives ==
    ASSUME Inv, NumbersTell, running' = running, sess' = sess,
           NEW i \in Deliverable(down), down[i].op = "data",
           \/ Starts(down[i])
           \/ FromPeer(down[i]) /\ client.st = "receiving",
           down[i].num = Num(want),
           client' = [client EXCEPT
                        !.st = IF down[i].n = Blocks THEN "done" ELSE "receiving",
                        !.peer = down[i].sid, !.got = Append(@, down[i].n),
                        !.tries = 0],
           up' = Send(up, Datagram("ack", down[i].sid, want)),
           down' = RemoveAt(down, i)
    PROVE  Inv' /\ Arrived' = Arrived + 1 /\ Arrived < Blocks
<1> DEFINE s == down[i].sid
<1>1. /\ i \in DOMAIN down /\ down[i].n = want /\ want = Arrived + 1
      /\ want <= Blocks /\ s \in Sids /\ sess[s].blk = want
      /\ Arrived \in Nat /\ Blocks \in Nat
  BY BlockTold, TypeFacts, TftpAssumption DEF Inv
<1>2. client \in Clients /\ Append(client.got, want) \in Seq(1 .. Blocks)
  BY <1>1 DEF Inv, TypeOK, Clients
<1>3. /\ client' \in Clients /\ client'.peer = s /\ client'.options = client.options
      /\ client'.got = Append(client.got, want)
      /\ client'.st = IF want = Blocks THEN "done" ELSE "receiving"
  BY <1>1, <1>2 DEF Clients
<1>4. Arrived' = Arrived + 1
  BY <1>2, <1>3 DEF Arrived, Clients
<1>5. InOrder'
  BY <1>1, <1>2, <1>3, <1>4 DEF Inv, InOrder, Clients, Arrived
<1>6. ClientOK'
  BY <1>1, <1>3, <1>4, TftpAssumption DEF ClientOK, Sids
<1>7. \/ client.st = "receiving" /\ client.peer = s
      \/ /\ client.st = "asking" /\ client.peer = 0 /\ ~client.options
         /\ Arrived = 0
  BY DEF Starts, FromPeer, Inv, ClientOK, Arrived, TypeOK
<1>8. SessionsOK'
  <2> SUFFICES ASSUME NEW t \in Sids
               PROVE  /\ sess[t].st \in {"free", "oack"} => sess[t].blk = 0
                      /\ sess[t].st = "data" => sess[t].blk > 0
                      /\ sess[t].st # "done"
                      /\ t # s => sess[t].blk <= FirstBlock
                      /\ t = s => sess[t].blk - Arrived' \in {0, 1}
    BY <1>3 DEF SessionsOK, FirstBlock
  <2>1. t # s => t # client.peer
    BY <1>7 DEF Sids
  <2>2. QED
    BY <1>1, <1>4, <2>1 DEF Inv, SessionsOK
<1>9. QueuesFit
  <2>1. CASE client.st = "receiving" /\ client.peer = s
    BY <1>1, <1>3, <1>4, <2>1, TypeFacts DEF Inv, UpOK, DownOK, QueuesFit, FromBootLoader,
      Arrived
  <2>2. CASE client.st = "asking"
    <3>1. \A j \in DOMAIN up : up[j].op # "ack"
      BY <2>2 DEF Inv, UpOK, FromBootLoader
    <3>2. QED
      BY <3>1 DEF Inv, UpOK, DownOK, QueuesFit, FromBootLoader, AcksInOrder
  <2>3. QED BY <1>7, <2>1, <2>2
<1>10. DataInOrder(down', client'.peer, Arrived')
  <2>1. \E n : DataInOrder(down, s, n)
    <3>1. CASE client.peer = s
      BY <3>1 DEF Inv, DownOK
    <3>2. CASE Arrived = 0
      <4>1. \A j \in DOMAIN down : DataOf(down[j], s) => down[j].n = 1
        BY <1>1, <3>2 DEF Inv, DownOK, FromServer, DataOf
      <4>2. DataInOrder(down, s, 1)
        BY <4>1 DEF DataInOrder
      <4>3. QED BY <4>2
    <3>3. QED BY <1>7, <3>1, <3>2
  <2>2. DataOf(down[i], s)
    BY DEF DataOf
  <2>3. QED
    <3>1. down \in Seq(Datagrams) /\ Len(down) <= Cap
      BY TypeFacts DEF Inv
    <3>2. DataInOrder(RemoveAt(down, i), s, down[i].n)
      BY <2>1, <2>2, <3>1, HeadTaken, Zenon
    <3>3. QED
      BY <1>1, <1>3, <1>4, <3>2
<1>11. DownOK' /\ down' \in Seq(Datagrams) /\ Len(down') <= Cap
  BY <1>9, <1>10, DownTaken
<1>12. UpOK' /\ up' \in Seq(Datagrams) /\ Len(up') <= Cap
  BY <1>1, <1>3, <1>4, <1>9, ClientSends
<1>13. TypeOK'
  BY <1>3, <1>11, <1>12 DEF Inv, TypeOK, Clients
<1>14. QED
  BY <1>1, <1>4, <1>5, <1>6, <1>8, <1>11, <1>12, <1>13 DEF Inv

\* Whatever datagram reaches the client, the invariant stays.
LEMMA NetworkStep ==
    ASSUME Inv, NumbersTell, FromNetwork
    PROVE  Inv'
<1>1. PICK i \in Deliverable(down) : /\ ClientReceive(down[i])
                                     /\ down' = RemoveAt(down, i)
  BY DEF FromNetwork
<1>2. running' = running /\ sess' = sess /\ i \in DOMAIN down
  BY DEF FromNetwork, Deliverable
<1> DEFINE p == down[i]
<1>3. /\ client \in Clients
      /\ p.op \in {"oack", "data"} => p.sid \in Sids
      /\ Arrived \in 0 .. Blocks /\ want = Arrived + 1 /\ 0 \in 0 .. Blocks
  <2>1. client \in Clients
    BY DEF Inv, TypeOK, Clients
  <2>2. p.op \in {"oack", "data"} => p.sid \in Sids
    BY <1>2 DEF Inv, DownOK, FromServer
  <2>3. Arrived \in 0 .. Blocks /\ want = Arrived + 1 /\ 0 \in 0 .. Blocks
    BY TypeFacts, TftpAssumption DEF Inv, InOrder, Arrived, want
  <2>4. QED BY <2>1, <2>2, <2>3
<1>4. CASE /\ p.op = "oack" /\ Starts(p)
           /\ client' = [client EXCEPT !.st = "receiving", !.peer = p.sid, !.tries = 0]
           /\ up' = Send(up, Datagram("ack", p.sid, 0))
  BY <1>1, <1>2, <1>4, PeerChosen
<1>5. CASE /\ p.op = "oack" /\ ~Starts(p)
           /\ FromPeer(p) /\ client.st = "receiving" /\ client.got = <<>>
           /\ client' = [client EXCEPT !.st = "receiving", !.peer = p.sid, !.tries = 0]
           /\ up' = Send(up, Datagram("ack", p.sid, 0))
  <2>1. SameTransfer
    BY <1>2, <1>3, <1>5 DEF SameTransfer, Clients, FromPeer
  <2>2. Arrived = 0
    BY <1>5 DEF Arrived
  <2>3. QED
    BY <1>1, <1>2, <1>3, <1>5, <2>1, <2>2, ClientIgnores DEF FromPeer
<1>6. CASE /\ p.op = "data"
           /\ Starts(p) \/ (FromPeer(p) /\ client.st = "receiving")
           /\ p.num = Num(want)
           /\ client' = [client EXCEPT
                            !.st = IF p.n = Blocks THEN "done" ELSE "receiving",
                            !.peer = p.sid, !.got = Append(@, p.n), !.tries = 0]
           /\ up' = Send(up, Datagram("ack", p.sid, want))
  BY <1>1, <1>2, <1>6, BlockArrives
<1>7. CASE /\ p.op = "data"
           /\ FromPeer(p) /\ client.st \in {"receiving", "done"}
           /\ client' = client
           /\ up' = Send(up, Datagram("ack", p.sid, want - 1))
  <2>1. SameTransfer
    BY <1>2, <1>3, <1>7 DEF SameTransfer
  <2>2. want - 1 = Arrived
    BY <1>3
  <2>3. QED
    BY <1>1, <1>2, <1>3, <1>7, <2>1, <2>2, ClientIgnores DEF FromPeer
<1>8. CASE /\ p.op = "error" /\ client.st = "asking"
           /\ client' = [client EXCEPT !.st = "failed"]
           /\ up' = up
  <2>1. SameTransfer
    BY <1>2, <1>3, <1>8 DEF SameTransfer, Clients
  <2>2. QED
    BY <1>1, <1>2, <1>8, <2>1, ClientIgnores
<1>9. CASE /\ p.op \in {"oack", "data"} /\ client' = client
           /\ up' = Send(up, Datagram("error", p.sid, 0))
  <2>1. SameTransfer
    BY <1>2, <1>3, <1>9 DEF SameTransfer
  <2>2. QED
    BY <1>1, <1>2, <1>3, <1>9, <2>1, ClientIgnores
<1>10. QED
  BY <1>1, <1>4, <1>5, <1>6, <1>7, <1>8, <1>9 DEF ClientReceive

\* A lost datagram leaves the invariant as it is.
LEMMA Losses ==
    ASSUME Inv, LoseDown \/ LoseUp
    PROVE  Inv'
<1>1. CASE LoseDown
  <2>1. PICK i \in Deliverable(down) : down' = RemoveAt(down, i)
    BY <1>1 DEF LoseDown
  <2>2. UNCHANGED <<running, sess, up, client>>
    BY <1>1 DEF LoseDown
  <2>3. SameTransfer
    BY <2>2 DEF SameTransfer, Inv, TypeOK, Clients
  <2>4. QED
    BY <2>1, <2>2, <2>3, ClientIgnores
<1>2. CASE LoseUp
  <2>1. PICK i \in Deliverable(up) : up' = RemoveAt(up, i)
    BY <1>2 DEF LoseUp
  <2>2. UNCHANGED <<running, sess, down, client>>
    BY <1>2 DEF LoseUp
  <2>3. /\ up' \in Seq(Datagrams) /\ Len(up') <= Cap
        /\ \A j \in DOMAIN up' : \E k \in DOMAIN up : up'[j] = up[k]
        /\ \A n : AcksInOrder(up, n) => AcksInOrder(up', n)
    BY <2>1, TypeFacts, RemoveFacts DEF Inv, Deliverable
  <2>4. UpOK'
    BY <2>2, <2>3 DEF Inv, UpOK
  <2>5. QED
    BY <2>2, <2>3, <2>4 DEF Inv, TypeOK, InOrder, SessionsOK, ClientOK, DownOK, FirstBlock,
      Arrived
<1>3. QED
  BY <1>1, <1>2

-----------------------------------------------------------------------------

\* The states of the session threads, as in TypeOK.
Sessions == [Sids -> [st : {"free", "oack", "data", "done", "error"},
                      blk : 0 .. Blocks, timeouts : 0 .. MaxRetries]]

\* The server may send the block its session is at, an OACK or an error.
LEMMA ServerSends ==
    ASSUME Inv, client' = client, SessionsOK', sess' \in Sessions,
           \A s \in Sids : sess'[s].blk >= sess[s].blk,
           \/ down' = down
           \/ \E op \in {"oack", "data", "error"}, s \in {0} \cup Sids, n \in 0 .. Blocks :
                 /\ down' = Send(down, Datagram(op, s, n))
                 /\ op # "error" => s \in Sids
                 /\ op = "data" => n = sess'[s].blk /\ n > 0
    PROVE  DownOK' /\ down' \in Seq(Datagrams) /\ Len(down') <= Cap
<1>1. /\ down \in Seq(Datagrams) /\ Len(down) <= Cap
      /\ \A s \in Sids : sess[s].blk \in Nat
      /\ Arrived' = Arrived
  BY TypeFacts DEF Inv, Arrived
<1>2. \A s \in Sids : sess'[s].blk \in 0 .. Blocks
  BY DEF Sessions
<1>3. \A j \in DOMAIN down : FromServer(down[j], sess')
  <2> TAKE j \in DOMAIN down
  <2>1. FromServer(down[j], sess) /\ down[j].n \in 0 .. Blocks
    BY TypeFacts DEF Inv, DownOK
  <2>2. QED
    BY <1>1, <1>2, <2>1 DEF FromServer
<1>4. DataInOrder(down, client.peer, Arrived)
  BY DEF Inv, DownOK
<1>5. CASE down' = down
  BY <1>1, <1>3, <1>4, <1>5 DEF DownOK
<1>6. ASSUME NEW op \in {"oack", "data", "error"}, NEW s \in {0} \cup Sids,
             NEW n \in 0 .. Blocks,
             down' = Send(down, Datagram(op, s, n)),
             op # "error" => s \in Sids,
             op = "data" => n = sess'[s].blk /\ n > 0
      PROVE  DownOK' /\ down' \in Seq(Datagrams) /\ Len(down') <= Cap
  <2> DEFINE d == Datagram(op, s, n)
  <2>1. d \in Datagrams /\ d.op = op /\ d.sid = s /\ d.n = n /\ d.num = Num(n)
    <3>1. op \in {"read", "write", "missing", "oack", "data", "ack", "error"}
      OBVIOUS
    <3>2. QED BY <3>1, DatagramFacts
  <2> HIDE DEF d
  <2> DEFINE q == Send(down, d)
  <2>2. /\ q \in Seq(Datagrams) /\ Len(q) <= Cap
        /\ \A j \in DOMAIN q : \/ j \in DOMAIN down /\ q[j] = down[j]
                               \/ j = Len(down) + 1 /\ q[j] = d
    BY <1>1, <2>1, SendInOrder, Zenon
  <2>3. FromServer(d, sess')
    BY <1>2, <1>6, <2>1 DEF FromServer
  <2>4. DataOf(d, client.peer) =>
           /\ d.n >= Arrived
           /\ \A j \in DOMAIN down : DataOf(down[j], client.peer) => down[j].n <= d.n
    <3> SUFFICES ASSUME DataOf(d, client.peer)
                 PROVE  /\ d.n >= Arrived
                        /\ \A j \in DOMAIN down : DataOf(down[j], client.peer) => down[j].n <= d.n
      OBVIOUS
    <3>1. op = "data" /\ s = client.peer /\ s \in Sids /\ d.n = sess'[s].blk
      BY <1>6, <2>1 DEF DataOf
    <3>2. sess'[s].blk - Arrived \in {0, 1}
      BY <1>1, <3>1 DEF SessionsOK
    <3>3. Arrived \in Nat /\ d.n \in Nat
      BY <2>1, TypeFacts DEF Inv
    <3>4. \A j \in DOMAIN down : DataOf(down[j], client.peer) => down[j].n <= sess'[s].blk
      BY <1>3, <3>1 DEF FromServer, DataOf
    <3>5. QED
      BY <3>1, <3>2, <3>3, <3>4
  <2>5. DataInOrder(q, client.peer, Arrived)
    BY <1>1, <1>4, <2>1, <2>4, SendInOrder, Zenon
  <2>6. down' = q
    BY <1>6 DEF d
  <2> HIDE DEF q
  <2>7. \A j \in DOMAIN q : FromServer(q[j], sess')
    BY <1>3, <2>2, <2>3
  <2>8. QED
    BY <1>1, <2>2, <2>5, <2>6, <2>7 DEF DownOK
<1>7. QED
  BY <1>5, <1>6

\* A datagram to the server is taken from its queue.
LEMMA UpTaken ==
    ASSUME Inv, client' = client, NEW i \in DOMAIN up, up' = RemoveAt(up, i),
           client.peer \in Sids => AcksInOrder(up', sess'[client.peer].blk)
    PROVE  UpOK' /\ up' \in Seq(Datagrams) /\ Len(up') <= Cap
<1>1. /\ up' \in Seq(Datagrams) /\ Len(up') <= Cap
      /\ \A j \in DOMAIN up' : \E k \in DOMAIN up : up'[j] = up[k]
  BY TypeFacts, RemoveFacts DEF Inv
<1>2. \A j \in DOMAIN up' : FromBootLoader(up'[j], client')
  BY <1>1 DEF Inv, UpOK
<1>3. QED
  BY <1>1, <1>2 DEF UpOK

\* No block is acknowledged: sessions keep the block they are at, but for one that
\* starts.
LEMMA UpKept ==
    ASSUME Inv, client' = client,
           \A s \in Sids : s = client.peer => AcksInOrder(up, sess'[s].blk),
           up' = up \/ \E i \in DOMAIN up : up' = RemoveAt(up, i)
    PROVE  UpOK' /\ up' \in Seq(Datagrams) /\ Len(up') <= Cap
<1>1. CASE up' = up
  BY <1>1, TypeFacts DEF Inv, UpOK
<1>2. ASSUME NEW i \in DOMAIN up, up' = RemoveAt(up, i)
      PROVE  UpOK' /\ up' \in Seq(Datagrams) /\ Len(up') <= Cap
  <2>1. client.peer \in Sids => AcksInOrder(up', sess'[client.peer].blk)
    BY <1>2, TypeFacts, RemoveFacts DEF Inv
  <2>2. QED
    BY <1>2, <2>1, UpTaken
<1>3. QED
  BY <1>1, <1>2

\* A step of the server that keeps the parts of the invariant it can change keeps
\* the invariant.
LEMMA ServerInv ==
    ASSUME Inv, client' = client, running' \in BOOLEAN, sess' \in Sessions,
           SessionsOK', DownOK', down' \in Seq(Datagrams), Len(down') <= Cap,
           UpOK', up' \in Seq(Datagrams), Len(up') <= Cap
    PROVE  Inv'
BY DEF Inv, TypeOK, InOrder, ClientOK, Arrived, Sessions

\* The listener starts a session for a read request, also for a repeated one, or
\* refuses: the invariant stays.
LEMMA ListenStep ==
    ASSUME Inv, Listen
    PROVE  Inv'
<1>1. PICK i \in Deliverable(up) :
         /\ \/ RefuseRequest(up[i])
            \/ /\ up[i].op = "read"
               /\ \E s \in FreeSids : /\ \A t \in FreeSids : s <= t
                                      /\ StartSession(s) \/ FailOpening(s)
         /\ up' = RemoveAt(up, i)
  BY DEF Listen
<1>2. running' = running /\ client' = client /\ i \in DOMAIN up
  BY DEF Listen, Deliverable
<1>3. /\ sess \in Sessions /\ running \in BOOLEAN /\ client.options \in BOOLEAN
      /\ 0 \in 0 .. Blocks /\ 1 \in 0 .. Blocks /\ 0 \in 0 .. MaxRetries
  BY TftpAssumption DEF Inv, TypeOK, Sessions
<1>4. CASE RefuseRequest(up[i])
  <2>1. sess' = sess /\ down' = Send(down, Datagram("error", 0, 0))
    BY <1>4 DEF RefuseRequest
  <2>2. SessionsOK'
    BY <1>2, <2>1 DEF Inv, SessionsOK, FirstBlock, Arrived
  <2>3. \A s \in Sids : sess'[s].blk >= sess[s].blk
    BY <2>1, TypeFacts DEF Inv
  <2>4. DownOK' /\ down' \in Seq(Datagrams) /\ Len(down') <= Cap
    BY <1>2, <1>3, <2>1, <2>2, <2>3, ServerSends
  <2>5. UpOK' /\ up' \in Seq(Datagrams) /\ Len(up') <= Cap
    <3>1. \A s \in Sids : s = client.peer => AcksInOrder(up, sess'[s].blk)
      BY <2>1 DEF Inv, UpOK
    <3>2. QED BY <1>1, <1>2, <3>1, UpKept
  <2>6. QED
    BY <1>2, <1>3, <2>1, <2>2, <2>4, <2>5, ServerInv
<1>5. ASSUME NEW s \in FreeSids, StartSession(s) \/ FailOpening(s)
      PROVE  Inv'
  <2>1. s \in Sids /\ sess[s].st = "free" /\ sess[s].blk = 0
    BY DEF FreeSids, Inv, SessionsOK
  <2>2. PICK x : /\ sess' = [sess EXCEPT ![s] = x]
                 /\ \/ x = [st |-> "oack", blk |-> 0, timeouts |-> 0]
                    \/ x = [st |-> "data", blk |-> 1, timeouts |-> 0] /\ ~client.options
                    \/ x = [st |-> "error", blk |-> 0, timeouts |-> 0]
    <3>1. CASE StartSession(s) /\ client.options
      BY <3>1, Zenon DEF StartSession
    <3>2. CASE StartSession(s) /\ ~client.options
      BY <3>2, Zenon DEF StartSession
    <3>3. CASE FailOpening(s)
      <4>1. sess' = [sess EXCEPT ![s] = [Free EXCEPT !.st = "error"]]
        BY <3>3 DEF FailOpening
      <4>2. [Free EXCEPT !.st = "error"] = [st |-> "error", blk |-> 0, timeouts |-> 0]
        BY DEF Free
      <4>3. QED BY <4>1, <4>2
    <3>4. QED BY <1>5, <3>1, <3>2, <3>3
  <2>3. sess' \in Sessions
    <3>1. x \in [st : {"free", "oack", "data", "done", "error"},
                 blk : 0 .. Blocks, timeouts : 0 .. MaxRetries]
      BY <1>3, <2>2
    <3>2. QED BY <1>3, <2>1, <2>2, <3>1 DEF Sessions
  <2>4. /\ \A t \in Sids : sess'[t] = IF t = s THEN x ELSE sess[t]
        /\ x.blk \in {0, 1} /\ x.blk <= FirstBlock /\ x.st \notin {"free", "done"}
        /\ x.st = "oack" => x.blk = 0
        /\ x.st = "data" => x.blk = 1
    BY <1>3, <2>2 DEF Sessions, FirstBlock
  <2>5. \A t \in Sids : sess'[t].blk >= sess[t].blk
    BY <2>1, <2>2, <2>4, TypeFacts DEF Inv
  <2>6. s = client.peer => Arrived = 0
    <3>1. s = client.peer => 0 - Arrived \in {0, 1}
      BY <2>1 DEF Inv, SessionsOK
    <3>2. Arrived \in Nat
      BY TypeFacts DEF Inv
    <3>3. QED BY <3>1, <3>2
  <2>7. SessionsOK'
    <3>1. FirstBlock' = FirstBlock /\ Arrived' = Arrived
      BY <1>2 DEF FirstBlock, Arrived
    <3>2. QED
      BY <1>2, <2>4, <2>6, <3>1 DEF Inv, SessionsOK
  <2>8. \/ down' = down
        \/ down' = Send(down, Datagram("oack", s, 0))
        \/ down' = Send(down, Datagram("data", s, 1)) /\ sess'[s].blk = 1
    <3>1. CASE StartSession(s) /\ ~client.options
      <4>1. sess' = [sess EXCEPT ![s] = [st |-> "data", blk |-> 1, timeouts |-> 0]]
        BY <3>1, Zenon DEF StartSession
      <4>2. sess'[s].blk = 1
        BY <1>3, <2>1, <4>1 DEF Sessions
      <4>3. QED BY <3>1, <4>2 DEF StartSession
    <3>2. CASE ~(StartSession(s) /\ ~client.options)
      BY <1>5, <3>2 DEF StartSession, FailOpening
    <3>3. QED BY <3>1, <3>2
  <2>9. DownOK' /\ down' \in Seq(Datagrams) /\ Len(down') <= Cap
    <3>1. \/ down' = down
          \/ \E op \in {"oack", "data", "error"}, t \in {0} \cup Sids, n \in 0 .. Blocks :
                /\ down' = Send(down, Datagram(op, t, n))
                /\ op # "error" => t \in Sids
                /\ op = "data" => n = sess'[t].blk /\ n > 0
      <4>1. "oack" # "error" /\ "data" # "error" /\ 1 > 0
        OBVIOUS
      <4>2. CASE down' = Send(down, Datagram("oack", s, 0))
        BY <1>3, <2>1, <4>2
      <4>3. CASE down' = Send(down, Datagram("data", s, 1)) /\ sess'[s].blk = 1
        <5> SUFFICES \E op \in {"oack", "data", "error"}, t \in {0} \cup Sids, n \in 0 .. Blocks :
                         /\ down' = Send(down, Datagram(op, t, n))
                         /\ op # "error" => t \in Sids
                         /\ op = "data" => n = sess'[t].blk /\ n > 0
          OBVIOUS
        <5>1. 1 \in 0 .. Blocks
          BY <1>3
        <5> WITNESS "data" \in {"oack", "data", "error"}, s \in {0} \cup Sids, 1 \in 0 .. Blocks
        <5>2. QED BY <2>1, <4>1, <4>3
      <4>4. QED BY <2>8, <4>2, <4>3
    <3>2. client' = client
      BY <1>2
    <3>3. QED BY <2>3, <2>5, <2>7, <3>1, <3>2, ServerSends, Zenon
  <2>10. UpOK' /\ up' \in Seq(Datagrams) /\ Len(up') <= Cap
    <3>1. \A t \in Sids : t = client.peer => AcksInOrder(up, sess'[t].blk)
      <4> SUFFICES ASSUME client.peer \in Sids
                   PROVE  AcksInOrder(up, sess'[client.peer].blk)
        OBVIOUS
      <4>1. CASE client.peer # s
        BY <2>4, <4>1 DEF Inv, UpOK
      <4>2. CASE client.peer = s
        <5>1. x.blk \in {0, 1} /\ sess'[s].blk = x.blk
          BY <2>1, <2>4
        <5>2. \A j \in DOMAIN up : up[j].n \in Nat
          BY TypeFacts DEF Inv
        <5>3. QED
          BY <4>2, <5>1, <5>2 DEF Inv, UpOK, AcksInOrder
      <4>3. QED BY <4>1, <4>2
    <3>2. QED BY <1>1, <1>2, <3>1, UpKept
  <2>11. QED
    BY <1>2, <1>3, <2>3, <2>7, <2>9, <2>10, ServerInv
<1>6. QED
  BY <1>1, <1>4, <1>5

\* A session sends again what it is at, after a timeout or an acknowledgement of
\* the block before: the invariant stays.
LEMMA CurrentSent ==
    ASSUME Inv, NEW s \in Sids, Active(s), client' = client, running' = running,
           sess' \in Sessions, \A t \in Sids : sess'[t].blk = sess[t].blk,
           \A t \in Sids : sess'[t].st = sess[t].st,
           down' = down \/ down' = Send(down, Current(s)),
           up' = up \/ \E i \in DOMAIN up : up' = RemoveAt(up, i)
    PROVE  Inv'
<1>1. /\ \A t \in Sids : sess'[t].blk \in 0 .. Blocks /\ sess[t].blk \in 0 .. Blocks
      /\ running \in BOOLEAN
  BY TypeFacts DEF Inv, TypeOK
<1>2. SessionsOK'
  BY DEF Inv, SessionsOK, FirstBlock, Arrived
<1>3. \/ down' = down
      \/ \E op \in {"oack", "data", "error"}, t \in {0} \cup Sids, n \in 0 .. Blocks :
            /\ down' = Send(down, Datagram(op, t, n))
            /\ op # "error" => t \in Sids
            /\ op = "data" => n = sess'[t].blk /\ n > 0
  <2>1. sess[s].st \in {"oack", "data"} /\ (sess[s].st = "data" => sess[s].blk > 0)
    BY DEF Active, Inv, SessionsOK
  <2>2. Current(s) = Datagram(sess[s].st, s, sess[s].blk)
    BY DEF Current
  <2>3. QED
    BY <1>1, <2>1, <2>2
<1>4. DownOK' /\ down' \in Seq(Datagrams) /\ Len(down') <= Cap
  BY <1>1, <1>2, <1>3, ServerSends
<1>5. UpOK' /\ up' \in Seq(Datagrams) /\ Len(up') <= Cap
  <2>1. \A t \in Sids : t = client.peer => AcksInOrder(up, sess'[t].blk)
    BY DEF Inv, UpOK
  <2>2. QED
    BY <2>1, UpKept
<1>6. QED
  BY <1>1, <1>2, <1>4, <1>5, ServerInv

\* A session ends with an error, by an ERROR of the client or after its last
\* timeout: the invariant stays.
LEMMA SessionFails ==
    ASSUME Inv, NEW s \in Sids, client' = client, running' = running, down' = down,
           sess' = [sess EXCEPT ![s].st = "error"],
           up' = up \/ \E i \in DOMAIN up : up' = RemoveAt(up, i)
    PROVE  Inv'
<1>1. sess \in Sessions /\ running \in BOOLEAN
  BY DEF Inv, TypeOK, Sessions
<1>2. sess' \in Sessions
  BY <1>1 DEF Sessions
<1>3. \A t \in Sids : /\ sess'[t].blk = sess[t].blk
                      /\ sess'[t].st = IF t = s THEN "error" ELSE sess[t].st
  BY <1>1 DEF Sessions
<1>4. SessionsOK'
  BY <1>3 DEF Inv, SessionsOK, FirstBlock, Arrived
<1>5. DownOK' /\ down' \in Seq(Datagrams) /\ Len(down') <= Cap
  <2>1. \A t \in Sids : sess'[t].blk >= sess[t].blk
    BY <1>3, TypeFacts DEF Inv
  <2>2. QED
    BY <1>2, <1>4, <2>1, ServerSends
<1>6. UpOK' /\ up' \in Seq(Datagrams) /\ Len(up') <= Cap
  <2>1. \A t \in Sids : t = client.peer => AcksInOrder(up, sess'[t].blk)
    BY <1>3 DEF Inv, UpOK
  <2>2. QED
    BY <2>1, UpKept
<1>7. QED
  BY <1>1, <1>2, <1>4, <1>5, <1>6, ServerInv

\* The block a session is at is acknowledged: the session is the peer, and it ends
\* without error only if every block arrived.
LEMMA Advances ==
    ASSUME Inv, NumbersTell, NEW s \in Sids, Active(s), client' = client,
           running' = running, NEW i \in Deliverable(up), up[i].op = "ack",
           up[i].sid = s, Acknowledges(up[i], s), Advance(s),
           up' = RemoveAt(up, i)
    PROVE  /\ Inv' /\ s = client.peer
           /\ sess'[s].st = "done" => Arrived = Blocks
           /\ \A t \in Sids \ {s} : sess'[t] = sess[t]
<1>0. /\ i \in DOMAIN up /\ sess \in Sessions /\ running \in BOOLEAN
      /\ sess[s].blk \in 0 .. Blocks /\ Blocks \in Nat
      /\ up \in Seq(Datagrams) /\ Len(up) <= Cap
  BY TypeFacts, TftpAssumption DEF Inv, TypeOK, Sessions, Deliverable
<1>1. s = client.peer /\ up[i].n = sess[s].blk /\ Arrived = sess[s].blk
  BY <1>0, AckTold
<1>2. Arrived' = Arrived /\ FirstBlock' = FirstBlock
  BY DEF Arrived, FirstBlock
<1>3. CASE LastBlock(s)
  <2>1. sess' = [sess EXCEPT ![s].st = "done"] /\ down' = down /\ sess[s].blk = Blocks
    BY <1>3 DEF Advance, LastBlock
  <2>2. sess' \in Sessions
    BY <1>0, <2>1 DEF Sessions
  <2>3. \A t \in Sids : /\ sess'[t].blk = sess[t].blk
                        /\ sess'[t].st = IF t = s THEN "done" ELSE sess[t].st
                        /\ t # s => sess'[t] = sess[t]
    BY <1>0, <2>1 DEF Sessions
  <2>4. SessionsOK'
    BY <1>1, <1>2, <2>1, <2>3 DEF Inv, SessionsOK
  <2>5. DownOK' /\ down' \in Seq(Datagrams) /\ Len(down') <= Cap
    <3>1. \A t \in Sids : sess'[t].blk >= sess[t].blk
      BY <2>3, TypeFacts DEF Inv
    <3>2. QED
      BY <2>1, <2>2, <2>4, <3>1, ServerSends
  <2>6. UpOK' /\ up' \in Seq(Datagrams) /\ Len(up') <= Cap
    <3>1. \A t \in Sids : t = client.peer => AcksInOrder(up, sess'[t].blk)
      BY <2>3 DEF Inv, UpOK
    <3>2. QED
      BY <1>0, <3>1, UpKept
  <2>7. Inv'
    BY <1>0, <2>2, <2>4, <2>5, <2>6, ServerInv
  <2>8. QED
    BY <1>1, <2>1, <2>3, <2>7
<1>4. CASE ~LastBlock(s)
  <2> DEFINE n == sess[s].blk + 1
  <2>1. /\ sess' = [sess EXCEPT ![s] = [st |-> "data", blk |-> n, timeouts |-> 0]]
        /\ down' = Send(down, Datagram("data", s, n))
        /\ n \in 0 .. Blocks /\ n > 0
    BY <1>0, <1>4 DEF Advance, LastBlock
  <2>2. sess' \in Sessions
    <3>1. [st |-> "data", blk |-> n, timeouts |-> 0]
             \in [st : {"free", "oack", "data", "done", "error"},
                  blk : 0 .. Blocks, timeouts : 0 .. MaxRetries]
      BY <2>1, TftpAssumption
    <3> HIDE DEF n
    <3>2. QED BY <1>0, <2>1, <3>1 DEF Sessions
  <2>3. /\ sess'[s].blk = n /\ sess'[s].st = "data"
        /\ \A t \in Sids \ {s} : sess'[t] = sess[t]
    BY <1>0, <2>1 DEF Sessions
  <2>4. SessionsOK'
    BY <1>0, <1>1, <1>2, <2>1, <2>3 DEF Inv, SessionsOK
  <2>5. DownOK' /\ down' \in Seq(Datagrams) /\ Len(down') <= Cap
    <3>1. \A t \in Sids : sess'[t].blk >= sess[t].blk
      <4> TAKE t \in Sids
      <4>1. sess[t].blk \in Nat
        BY TypeFacts DEF Inv
      <4>2. t # s => sess'[t].blk = sess[t].blk
        BY <2>3
      <4>3. QED BY <2>3, <4>1, <4>2
    <3>2. \E op \in {"oack", "data", "error"}, t \in {0} \cup Sids, k \in 0 .. Blocks :
             /\ down' = Send(down, Datagram(op, t, k))
             /\ op # "error" => t \in Sids
             /\ op = "data" => k = sess'[t].blk /\ k > 0
      BY <2>1, <2>3
    <3>3. QED
      BY <2>2, <2>4, <3>1, <3>2, ServerSends, Zenon
  <2>6. UpOK' /\ up' \in Seq(Datagrams) /\ Len(up') <= Cap
    <3>1. AcksInOrder(up, sess[s].blk)
      BY <1>1 DEF Inv, UpOK
    <3>2. AcksInOrder(RemoveAt(up, i), up[i].n + 1)
      BY <1>0, <3>1, HeadTaken, Zenon
    <3>3. QED
      BY <1>0, <1>1, <2>3, <3>2, UpTaken
  <2>7. Inv'
    BY <1>0, <2>2, <2>4, <2>5, <2>6, ServerInv
  <2>8. QED
    BY <1>1, <2>3, <2>7
<1>5. QED
  BY <1>3, <1>4

\* wait_ack takes a datagram: the invariant stays, and only the peer can be done by
\* that, once the whole file arrived.
LEMMA FromClientStep ==
    ASSUME Inv, NumbersTell, NEW s \in Sids, FromClient(s)
    PROVE  /\ Inv' /\ client' = client
           /\ \/ \A t \in Sids : sess'[t].st = "done" <=> sess[t].st = "done"
              \/ /\ s = client.peer /\ sess[s].st # "done"
                 /\ sess'[s].st = "done" => Arrived = Blocks
                 /\ \A t \in Sids \ {s} : sess'[t] = sess[t]
<1>1. PICK i \in Deliverable(up) : /\ up[i].sid = s
                                   /\ SessionReceive(s, up[i])
                                   /\ up' = RemoveAt(up, i)
  BY DEF FromClient
<1>2. /\ running' = running /\ client' = client /\ Active(s)
      /\ i \in DOMAIN up /\ sess \in Sessions /\ 0 \in 0 .. MaxRetries
      /\ sess[s].st # "done"
  BY TftpAssumption DEF FromClient, Deliverable, Inv, TypeOK, Sessions, Active
<1>3. CASE up[i].op = "ack" /\ Acknowledges(up[i], s) /\ Advance(s)
  BY <1>1, <1>2, <1>3, Advances
<1>4. CASE /\ sess' = [sess EXCEPT ![s].timeouts = 0]
           /\ down' = down \/ down' = Send(down, Current(s))
  <2>1. /\ sess' \in Sessions
        /\ \A t \in Sids : sess'[t].blk = sess[t].blk /\ sess'[t].st = sess[t].st
    BY <1>2, <1>4 DEF Sessions
  <2>2. Inv'
    BY <1>1, <1>2, <1>4, <2>1, CurrentSent
  <2>3. QED
    BY <1>2, <2>1, <2>2
<1>5. CASE sess' = [sess EXCEPT ![s].st = "error"] /\ down' = down
  <2>1. \A t \in Sids : sess'[t].st = IF t = s THEN "error" ELSE sess[t].st
    BY <1>2, <1>5 DEF Sessions
  <2>2. Inv'
    BY <1>1, <1>2, <1>5, SessionFails
  <2>3. QED
    BY <1>2, <2>1, <2>2
<1>6. QED
  BY <1>1, <1>3, <1>4, <1>5 DEF SessionReceive

\* recv times out: the invariant stays and no session is done by that.
LEMMA TimeoutStep ==
    ASSUME Inv, NEW s \in Sids, SessionTimeout(s)
    PROVE  /\ Inv' /\ client' = client
           /\ \A t \in Sids : sess'[t].st = "done" <=> sess[t].st = "done"
<1>1. /\ running' = running /\ client' = client /\ up' = up /\ Active(s)
      /\ sess \in Sessions /\ sess[s].st # "done"
  BY DEF SessionTimeout, Inv, TypeOK, Sessions, Active
<1>2. CASE GivesUp(s)
  <2>1. sess' = [sess EXCEPT ![s].st = "error"] /\ down' = down
    BY <1>2 DEF SessionTimeout
  <2>2. \A t \in Sids : sess'[t].st = IF t = s THEN "error" ELSE sess[t].st
    BY <1>1, <2>1 DEF Sessions
  <2>3. Inv'
    BY <1>1, <2>1, SessionFails
  <2>4. QED
    BY <1>1, <2>2, <2>3
<1>3. CASE ~GivesUp(s)
  <2>1. /\ sess' = [sess EXCEPT ![s].timeouts = @ + 1]
        /\ down' = Send(down, Current(s))
    BY <1>3 DEF SessionTimeout
  <2>2. sess[s].timeouts + 1 \in 0 .. MaxRetries
    BY <1>1, <1>3, TftpAssumption DEF GivesUp, Sessions
  <2>3. /\ sess' \in Sessions
        /\ \A t \in Sids : sess'[t].blk = sess[t].blk /\ sess'[t].st = sess[t].st
    BY <1>1, <2>1, <2>2 DEF Sessions
  <2>4. Inv'
    BY <1>1, <2>1, <2>3, CurrentSent
  <2>5. QED
    BY <1>1, <2>3, <2>4
<1>4. QED
  BY <1>2, <1>3

\* Every step of the server, the client and the network keeps the invariant.
LEMMA NextInv ==
    ASSUME NumbersTell, Inv, [Next]_vars
    PROVE  Inv'
<1>1. CASE Client
  BY <1>1, ClientAsksOrLeaves, NetworkStep DEF Client
<1>2. CASE Listen
  BY <1>2, ListenStep
<1>3. ASSUME NEW s \in Sids, FromClient(s) PROVE Inv'
  BY <1>3, FromClientStep
<1>4. ASSUME NEW s \in Sids, SessionTimeout(s) PROVE Inv'
  BY <1>4, TimeoutStep
<1>5. CASE LoseDown \/ LoseUp
  BY <1>5, Losses
<1>6. CASE Stop \/ UNCHANGED vars
  <2>1. UNCHANGED <<sess, up, down, client>> /\ running' \in BOOLEAN
    BY <1>6 DEF Stop, vars, Inv, TypeOK
  <2>2. QED
    BY <2>1 DEF Inv, TypeOK, InOrder, SessionsOK, ClientOK, DownOK, UpOK, FirstBlock, Arrived
<1>7. QED
  BY <1>1, <1>2, <1>3, <1>4, <1>5, <1>6 DEF Next, Server

\* The inductive invariant holds in every behaviour of server, client and network.
THEOREM Invariance == ASSUME NumbersTell PROVE Spec => []Inv
<1>1. Init => Inv
  BY InitInv
<1>2. Inv /\ [Next]_vars => Inv'
  BY NextInv
<1>3. QED
  BY <1>1, <1>2, PTL DEF Spec

\* Threads, queues and the client have their types throughout, for files and block
\* numbers of every size: no block number leaves the file and no session counts
\* more than MaxRetries timeouts in a row.
THEOREM TypesKept == ASSUME NumbersTell PROVE Spec => []TypeOK
<1>1. Inv => TypeOK
  BY DEF Inv
<1>2. QED
  BY <1>1, Invariance, PTL

\* The client holds a prefix of the file, however datagrams of the server are lost,
\* repeated by wait_ack or answered by two sessions, and however often the block
\* number wraps around.
THEOREM PrefixKept == ASSUME NumbersTell PROVE Spec => []InOrder
<1>1. Inv => InOrder
  BY DEF Inv
<1>2. QED
  BY <1>1, Invariance, PTL

\* rrq returns without error only in the session the client reads from, and only
\* after the client has the whole file.
THEOREM SuccessTrue == ASSUME NumbersTell PROVE Spec => []SuccessMeansDelivered
<1>1. Inv => SuccessMeansDelivered
  <2> SUFFICES ASSUME Inv, NEW s \in Sids, sess[s].st = "done"
               PROVE  client.peer = s /\ client.st = "done" /\ Len(client.got) = Blocks
    BY DEF SuccessMeansDelivered
  <2>1. s = client.peer /\ Arrived = Blocks
    BY DEF Inv, SessionsOK
  <2>2. QED
    BY <2>1 DEF Inv, ClientOK, Arrived
<1>2. QED
  BY <1>1, Invariance, PTL

\* The session the client reads from is at the block that arrived last or at the
\* next: the window of wait_ack and its resends is one block.
THEOREM PeerInStep == ASSUME NumbersTell PROVE Spec => []Lockstep
<1>1. Inv => Lockstep
  BY DEF Inv, SessionsOK, Lockstep, Arrived
<1>2. QED
  BY <1>1, Invariance, PTL

-----------------------------------------------------------------------------

\* The server reported success.
Done == \E s \in Sids : sess[s].st = "done"

\* A datagram that reaches the client delivers the next block or nothing, and no
\* session is done by it.
LEMMA NetworkDelivers ==
    ASSUME Inv, NumbersTell, FromNetwork
    PROVE  /\ Done' = Done
           /\ \/ Arrived' = Arrived
              \/ Arrived < Blocks /\ Arrived' = Arrived + 1
<1>1. PICK i \in Deliverable(down) : /\ ClientReceive(down[i])
                                     /\ down' = RemoveAt(down, i)
  BY DEF FromNetwork
<1>2. running' = running /\ sess' = sess /\ client \in Clients
  BY DEF FromNetwork, Inv, TypeOK, Clients
<1> DEFINE p == down[i]
<1>3. CASE /\ p.op = "data"
           /\ Starts(p) \/ (FromPeer(p) /\ client.st = "receiving")
           /\ p.num = Num(want)
           /\ client' = [client EXCEPT
                            !.st = IF p.n = Blocks THEN "done" ELSE "receiving",
                            !.peer = p.sid, !.got = Append(@, p.n), !.tries = 0]
           /\ up' = Send(up, Datagram("ack", p.sid, want))
  BY <1>1, <1>2, <1>3, BlockArrives DEF Done
<1>4. CASE \/ client' = [client EXCEPT !.st = "receiving", !.peer = p.sid, !.tries = 0]
           \/ client' = client
           \/ client' = [client EXCEPT !.st = "failed"]
  <2>1. client'.got = client.got
    BY <1>2, <1>4 DEF Clients
  <2>2. QED
    BY <1>2, <2>1 DEF Arrived, Done
<1>5. QED
  BY <1>1, <1>3, <1>4 DEF ClientReceive

\* A step of the server delivers nothing to the client, and one session at most
\* ever reports success, once the file arrived.
LEMMA ServerDelivers ==
    ASSUME Inv, NumbersTell, Server
    PROVE  /\ Arrived' = Arrived
           /\ \/ Done' = Done
              \/ ~Done /\ Done' /\ Arrived = Blocks
<1>1. ASSUME Listen
      PROVE  client' = client /\ Done' = Done
  <2>1. client' = client /\ sess \in Sessions
    BY <1>1 DEF Listen, Inv, TypeOK, Sessions
  <2>2. CASE sess' = sess
    BY <2>1, <2>2 DEF Done
  <2>3. ASSUME NEW s \in FreeSids, StartSession(s) \/ FailOpening(s)
        PROVE  Done' = Done
    <3>1. s \in Sids /\ sess[s].st = "free"
      BY DEF FreeSids
    <3>2. /\ \A t \in Sids \ {s} : sess'[t] = sess[t]
          /\ sess'[s].st # "done"
      BY <2>1, <2>3, <3>1 DEF Sessions, StartSession, FailOpening, Free
    <3>3. QED
      BY <3>1, <3>2 DEF Done
  <2>4. QED
    BY <1>1, <2>1, <2>2, <2>3 DEF Listen, RefuseRequest
<1>2. ASSUME NEW s \in Sids, SessionTimeout(s)
      PROVE  client' = client /\ Done' = Done
  BY <1>2, TimeoutStep DEF Done
<1>3. ASSUME NEW s \in Sids, FromClient(s)
      PROVE  /\ client' = client
             /\ \/ Done' = Done
                \/ ~Done /\ Done' /\ Arrived = Blocks
  <2>1. /\ client' = client
        /\ \/ \A t \in Sids : sess'[t].st = "done" <=> sess[t].st = "done"
           \/ /\ s = client.peer /\ sess[s].st # "done"
              /\ sess'[s].st = "done" => Arrived = Blocks
              /\ \A t \in Sids \ {s} : sess'[t] = sess[t]
    BY <1>3, FromClientStep
  <2>2. \A t \in Sids : sess[t].st = "done" => t = client.peer
    BY DEF Inv, SessionsOK
  <2>3. QED
    BY <2>1, <2>2 DEF Done
<1>4. QED
  BY <1>1, <1>2, <1>3 DEF Server, Arrived

\* The exchange of datagrams implements the delivery of a file: blocks arrive one
\* after the other, and success is reported once, after the last.
THEOREM TransferDelivers == ASSUME NumbersTell PROVE Spec => ImplementsDelivery
<1>1. Init => Delivery!Init
  BY TftpAssumption DEF Init, Delivery!Init, Free
<1>2. Inv /\ [Next]_vars => [Delivery!Next]_(<<Arrived, Done>>)
  <2> SUFFICES ASSUME Inv, [Next]_vars
               PROVE  \/ Arrived' = Arrived /\ Done' = Done
                      \/ Delivery!Next
    OBVIOUS
  <2>1. CASE FromNetwork
    <3>1. /\ Done' = Done
          /\ Arrived' = Arrived \/ (Arrived < Blocks /\ Arrived' = Arrived + 1)
      BY <2>1, NetworkDelivers
    <3>2. QED
      BY <3>1 DEF Delivery!Next, Delivery!Arrive, Arrived, Done
  <2>2. CASE Server
    <3>1. /\ Arrived' = Arrived
          /\ Done' = Done \/ (~Done /\ Done' /\ Arrived = Blocks)
      BY <2>2, ServerDelivers
    <3>2. QED
      BY <3>1 DEF Delivery!Next, Delivery!Report, Arrived, Done
  <2>3. CASE ClientAsk \/ ClientRepeat \/ ClientGiveUp \/ LoseDown \/ LoseUp
             \/ Stop \/ UNCHANGED vars
    <3>1. sess' = sess /\ client'.got = client.got
      BY <2>3 DEF ClientAsk, ClientRepeat, ClientGiveUp, LoseDown, LoseUp, Stop, vars,
        Inv, TypeOK
    <3>2. QED
      BY <3>1 DEF Arrived, Done
  <2>4. QED
    BY <2>1, <2>2, <2>3 DEF Next, Client
<1>3. QED
  BY <1>1, <1>2, Invariance, PTL DEF Spec, ImplementsDelivery, Delivery!Spec, Arrived, Done
=============================================================================
