------------------------- MODULE AdapterRestoreProofs -------------------------
(***************************************************************************)
(* Proofs about AdapterRestore, for every set of addresses, gateways and   *)
(* name servers.  The inductive invariant Inv says, for each command of a  *)
(* restore that is next, what the commands before it have brought back;    *)
(* it needs nothing of what earlier tries, killed halfway, left behind.    *)
(***************************************************************************)
EXTENDS AdapterRestore, SequenceTheorems, TLAPS

\* The adapter uses DHCP for its address.
AddrDhcp == nic.dhcp = TRUE /\ nic.addrs = <<>> /\ nic.gw = None

\* The address and the gateway are the original ones.
AddressBack ==
    nic.dhcp = FALSE /\ nic.addrs = <<original.addrs[1]>> /\ nic.gw = original.gw

\* The commands left, of those for the servers, and what the ones before brought back.
ServersLeft ==
    LET d == original.dns
    IN  \/ todo = ServersOf(d)
        \/ Len(d) = 2 /\ todo = <<AddDns(d[2])>> /\ nic.dns = <<d[1]>>
        \/ todo = <<>> /\ nic.dns = d

\* The commands left of the restore, and what the ones before brought back.
Left ==
    IF original.dhcp
    THEN \/ todo = <<SetDhcp, SetDnsDhcp>>
         \/ todo = <<SetDnsDhcp>> /\ AddrDhcp
         \/ todo = <<>> /\ AddrDhcp /\ nic.dns = <<>>
    ELSE IF original.addrs = <<>> THEN ServersLeft
    ELSE \/ todo = <<SetAddress(original.addrs[1], original.gw)>> \o ServersOf(original.dns)
         \/ AddressBack /\ ServersLeft

\* c has the fields of a configuration.
Record(c) == c = [dhcp |-> c.dhcp, addrs |-> c.addrs, gw |-> c.gw, dns |-> c.dns]

\* The adapter, however far a command got: no gateway but the original one, no
\* servers where there were none.
NicOK ==
    /\ Record(nic) /\ nic.dhcp \in BOOLEAN /\ nic.dns \in Lists
    /\ nic.gw \in {None, original.gw}
    /\ \/ nic.addrs = <<>>
       \/ \E a \in Addrs \cup {Flash} : nic.addrs = <<a>>
       \/ \E a, b \in Addrs \cup {Flash} : nic.addrs = <<a, b>>
    /\ nic.dhcp => nic.addrs = <<>> /\ nic.gw = None
    /\ original.dns = <<>> => nic.dns = <<>>

\* The inductive invariant.
Inv ==
    /\ original \in Configs /\ snap = Snapshot(original)
    /\ NicOK
    /\ phase = "idle" => nic = original
    /\ phase \in {"idle", "set", "restoring", "restored", "failed", "undo",
                  "undoing", "kept"}
    /\ blamed \in BOOLEAN
    /\ ~Busy => todo = <<>>
    /\ Busy \/ phase = "restored" => Left

\* The first command of one or two, and what is left after it.
LEMMA TupleFacts ==
    /\ \A a : Head(<<a>>) = a /\ Tail(<<a>>) = <<>>
    /\ \A a, b : Head(<<a, b>>) = a /\ Tail(<<a, b>>) = <<b>>
OBVIOUS

\* A server appended to a list of one.
LEMMA PairAppended ==
    ASSUME NEW a, NEW b
    PROVE  Append(<<a>>, b) = <<a, b>>
<1> DEFINE S == {a, b}
           q == Append(<<a>>, b)
           p == <<a, b>>
<1>1. <<a>> \in Seq(S) /\ p \in Seq(S) /\ Len(p) = 2 /\ p[1] = a /\ p[2] = b
  OBVIOUS
<1>2. q \in Seq(S) /\ Len(q) = 2 /\ q[1] = a /\ q[2] = b
   BY <1>1, AppendProperties
<1> HIDE DEF p, q, S
<1>3. \A i \in 1 .. Len(q) : q[i] = p[i]
  BY <1>1, <1>2
<1>4. q = p
  BY <1>1, <1>2, <1>3, SeqEqual
<1>5. QED
  BY <1>4 DEF p, q

\* The command in front of a list is its first, and leaves the list.
LEMMA FirstInFront ==
    ASSUME NEW S, NEW c \in S, NEW t \in Seq(S)
    PROVE  Head(<<c>> \o t) = c /\ Tail(<<c>> \o t) = t
<1> DEFINE q == <<c>> \o t
<1>1. <<c>> \in Seq(S) /\ Len(<<c>>) = 1 /\ <<c>>[1] = c
  OBVIOUS
<1>2. /\ q \in Seq(S) /\ Len(q) = 1 + Len(t)
      /\ \A i \in 1 .. 1 + Len(t) : q[i] = IF i <= 1 THEN c ELSE t[i - 1]
  BY <1>1, ConcatProperties
<1> HIDE DEF q
<1>3. Len(t) \in Nat /\ q # <<>>
  BY <1>2
<1>4. Head(q) = c
  BY <1>2, <1>3, HeadTailProperties
<1>5. /\ Tail(q) \in Seq(S) /\ Len(Tail(q)) = Len(t)
      /\ \A i \in 1 .. Len(t) : Tail(q)[i] = t[i]
  BY <1>2, <1>3, HeadTailProperties
<1>6. Tail(q) = t
  BY <1>5, SeqEqual
<1>7. QED
  BY <1>4, <1>6 DEF q

\* A snapshot holds no server, one or two, and ServersOf makes a command of each:
\* the first replaces the list, the second is added.
LEMMA ListShape ==
    ASSUME NEW d \in Lists
    PROVE  \/ d = <<>> /\ ServersOf(d) = <<>>
           \/ \E r \in Resolvers : d = <<r>> /\ ServersOf(d) = <<SetDns(r)>>
           \/ \E r, s \in Resolvers : /\ r # s /\ d = <<r, s>>
                                      /\ ServersOf(d) = <<SetDns(r), AddDns(s)>>
<1>1. CASE d = <<>>
  BY <1>1 DEF ServersOf
<1>2. CASE \E r \in Resolvers : d = <<r>>
  BY <1>2 DEF ServersOf
<1>3. CASE \E r, s \in Resolvers : r # s /\ d = <<r, s>>
  BY <1>3 DEF ServersOf
<1>4. QED
  BY <1>1, <1>2, <1>3 DEF Lists

\* The lists of servers an adapter may have.
LEMMA ListsHave ==
    /\ <<>> \in Lists
    /\ \A r \in Resolvers : <<r>> \in Lists
    /\ \A r, s \in Resolvers : r # s => <<r, s>> \in Lists
BY DEF Lists

\* What a configuration consists of: an adapter with DHCP has no address of its own.
LEMMA ConfigShape ==
    ASSUME NEW c \in Configs
    PROVE  /\ Record(c) /\ c.dns \in Lists /\ c.dhcp \in BOOLEAN
           /\ c.gw \in Gateways \cup {None}
           /\ c.dhcp => c.addrs = <<>> /\ c.gw = None
           /\ \/ c.addrs = <<>>
              \/ \E a \in Addrs : c.addrs = <<a>>
              \/ \E a, b \in Addrs : c.addrs = <<a, b>>
<1>1. CASE c \in [dhcp : {TRUE}, addrs : {<<>>}, gw : {None}, dns : Lists]
  BY <1>1 DEF Record
<1>2. CASE c \in [dhcp : {FALSE}, addrs : {<<>>}, gw : {None}, dns : Lists]
  BY <1>2 DEF Record
<1>3. CASE c \in [dhcp : {FALSE}, addrs : ByHand, gw : Gateways \cup {None}, dns : Lists]
  <2>1. c.addrs \in ByHand => \/ \E a \in Addrs : c.addrs = <<a>>
                              \/ \E a, b \in Addrs : c.addrs = <<a, b>>
    BY DEF ByHand
  <2>2. /\ c.addrs \in ByHand /\ c.gw \in Gateways \cup {None}
        /\ c.dns \in Lists /\ c.dhcp = FALSE /\ Record(c)
    BY <1>3 DEF Record
  <2>3. QED
    BY <2>1, <2>2
<1>4. QED
  BY <1>1, <1>2, <1>3 DEF Configs

\* What each command does to the adapter, as a change of its fields.
LEMMA EffectsOf ==
    /\ \A n : n \in Effects(SetDhcp)
              => n = [nic EXCEPT !.dhcp = TRUE, !.addrs = <<>>, !.gw = None]
    /\ \A n : n \in Effects(SetDnsDhcp) => n = [nic EXCEPT !.dns = <<>>]
    /\ \A ip, gw, n : n \in Effects(SetAddress(ip, gw))
         => \E g : /\ n = [nic EXCEPT !.dhcp = FALSE, !.addrs = <<ip>>, !.gw = g]
                   /\ g \in IF gw = None THEN {nic.gw, None} ELSE {gw}
    /\ \A r, n : n \in Effects(SetDns(r)) => n = [nic EXCEPT !.dns = <<r>>]
    /\ \A r, n : n \in Effects(AddDns(r)) => n = [nic EXCEPT !.dns = Append(@, r)]
<1>1. \A n : n \in Effects(SetDhcp)
              => n = [nic EXCEPT !.dhcp = TRUE, !.addrs = <<>>, !.gw = None]
  BY DEF Effects, SetDhcp
<1>2. \A n : n \in Effects(SetDnsDhcp) => n = [nic EXCEPT !.dns = <<>>]
  BY DEF Effects, SetDnsDhcp
<1>3. ASSUME NEW ip, NEW gw, NEW n, n \in Effects(SetAddress(ip, gw))
      PROVE  \E g : /\ n = [nic EXCEPT !.dhcp = FALSE, !.addrs = <<ip>>, !.gw = g]
                   /\ g \in IF gw = None THEN {nic.gw, None} ELSE {gw}
  BY <1>3 DEF Effects, SetAddress
<1>4. \A r, n : n \in Effects(SetDns(r)) => n = [nic EXCEPT !.dns = <<r>>]
  BY DEF Effects, SetDns
<1>5. \A r, n : n \in Effects(AddDns(r)) => n = [nic EXCEPT !.dns = Append(@, r)]
  BY DEF Effects, AddDns
<1>6. QED
  BY <1>1, <1>2, <1>3, <1>4, <1>5

\* The commands restore_parts derives from a snapshot, by what was enumerated.
LEMMA CommandsOf ==
    ASSUME NEW c \in Configs
    PROVE  Commands(Snapshot(c)) =
             IF c.dhcp THEN <<SetDhcp, SetDnsDhcp>>
             ELSE IF c.addrs = <<>> THEN ServersOf(c.dns)
             ELSE <<SetAddress(c.addrs[1], c.gw)>> \o ServersOf(c.dns)
<1>1. c.addrs # <<>> => c.addrs[1] \in Addrs
  BY ConfigShape
<1>2. QED
  BY <1>1, AdapterAssumption DEF Commands, Snapshot

\* With an address in the snapshot, its command comes before those of the servers.
LEMMA AddressFirst ==
    ASSUME NEW d \in Lists, NEW c
    PROVE  /\ Head(<<c>> \o ServersOf(d)) = c
           /\ Tail(<<c>> \o ServersOf(d)) = ServersOf(d)
<1>1. CASE ServersOf(d) = <<>>
  <2>1. <<>> \in Seq({c})
    OBVIOUS
  <2>2. QED
    BY <1>1, <2>1, FirstInFront
<1>2. ASSUME NEW r, ServersOf(d) = <<SetDns(r)>>
      PROVE  /\ Head(<<c>> \o ServersOf(d)) = c
             /\ Tail(<<c>> \o ServersOf(d)) = ServersOf(d)
  <2>1. <<SetDns(r)>> \in Seq({c, SetDns(r)})
    OBVIOUS
  <2>2. QED
    BY <1>2, <2>1, FirstInFront
<1>3. ASSUME NEW r, NEW s, ServersOf(d) = <<SetDns(r), AddDns(s)>>
      PROVE  /\ Head(<<c>> \o ServersOf(d)) = c
             /\ Tail(<<c>> \o ServersOf(d)) = ServersOf(d)
  <2>1. <<SetDns(r), AddDns(s)>> \in Seq({c, SetDns(r), AddDns(s)})
    OBVIOUS
  <2>2. QED
    BY <1>3, <2>1, FirstInFront
<1>4. QED
  BY <1>1, <1>2, <1>3, ListShape

\* A restore that has an address to set is not at its end.
LEMMA FirstNotLast ==
    ASSUME NEW d \in Lists, NEW c
    PROVE  <<c>> \o ServersOf(d) # <<>>
<1>1. CASE ServersOf(d) = <<>>
  BY <1>1
<1>2. ASSUME NEW r, ServersOf(d) = <<SetDns(r)>> PROVE <<c>> \o ServersOf(d) # <<>>
  BY <1>2
<1>3. ASSUME NEW r, NEW s, ServersOf(d) = <<SetDns(r), AddDns(s)>>
      PROVE  <<c>> \o ServersOf(d) # <<>>
  BY <1>3
<1>4. QED
  BY <1>1, <1>2, <1>3, ListShape

\* A command for the servers has taken effect: the address stays, and with the last
\* command the list is the original one, in its order.
LEMMA ServerSet ==
    ASSUME NicOK, original \in Configs, ServersLeft, todo # <<>>, original' = original,
           nic' \in Effects(Head(todo))
    PROVE  /\ NicOK'
           /\ nic'.dhcp = nic.dhcp /\ nic'.addrs = nic.addrs /\ nic'.gw = nic.gw
           /\ todo' = Tail(todo) => ServersLeft'
<1> DEFINE d == original.dns
<1>1. d \in Lists
  BY ConfigShape
<1>2. ASSUME NEW r \in Resolvers, d = <<r>>, todo = <<SetDns(r)>>
      PROVE  /\ nic' = [nic EXCEPT !.dns = <<r>>] /\ Tail(todo) = <<>>
             /\ nic'.dns \in Lists
  <2>1. Head(todo) = SetDns(r) /\ Tail(todo) = <<>>
    BY <1>2, TupleFacts, Zenon
  <2>2. nic' = [nic EXCEPT !.dns = <<r>>]
    BY <2>1, EffectsOf
  <2>3. QED
    BY <2>1, <2>2, ListsHave DEF NicOK, Record
<1>3. ASSUME NEW r \in Resolvers, NEW s \in Resolvers, r # s, d = <<r, s>>,
             todo = <<SetDns(r), AddDns(s)>>
      PROVE  /\ nic' = [nic EXCEPT !.dns = <<r>>] /\ Tail(todo) = <<AddDns(s)>>
             /\ nic'.dns \in Lists
  <2>1. Head(todo) = SetDns(r) /\ Tail(todo) = <<AddDns(s)>>
    BY <1>3, TupleFacts, Zenon
  <2>2. nic' = [nic EXCEPT !.dns = <<r>>]
    BY <2>1, EffectsOf
  <2>3. QED
    BY <2>1, <2>2, ListsHave DEF NicOK, Record
<1>4. ASSUME NEW r \in Resolvers, NEW s \in Resolvers, r # s, d = <<r, s>>,
             todo = <<AddDns(s)>>, nic.dns = <<r>>
      PROVE  /\ nic' = [nic EXCEPT !.dns = <<r, s>>] /\ Tail(todo) = <<>>
             /\ nic'.dns \in Lists
  <2>0. Head(todo) = AddDns(s) /\ Tail(todo) = <<>>
    BY <1>4, TupleFacts, Zenon
  <2>1. nic' = [nic EXCEPT !.dns = Append(@, s)] /\ Tail(todo) = <<>>
    BY <2>0, EffectsOf
  <2>2. Append(nic.dns, s) = <<r, s>>
    BY <1>4, PairAppended
  <2>3. nic' = [nic EXCEPT !.dns = <<r, s>>]
    BY <2>1, <2>2
  <2>4. nic'.dns = <<r, s>>
    BY <2>3 DEF NicOK, Record
  <2>5. <<r, s>> \in Lists
    BY <1>4, ListsHave
  <2>6. QED
    BY <2>1, <2>3, <2>4, <2>5
<1>5. \/ \E r \in Resolvers : d = <<r>> /\ todo = <<SetDns(r)>>
      \/ \E r, s \in Resolvers :
            /\ r # s /\ d = <<r, s>>
            /\ \/ todo = <<SetDns(r), AddDns(s)>>
               \/ todo = <<AddDns(s)>> /\ nic.dns = <<r>>
  BY <1>1, ListShape DEF ServersLeft
<1>6. ASSUME NEW v, nic' = [nic EXCEPT !.dns = v], v \in Lists, d # <<>>
      PROVE  /\ NicOK' /\ nic'.dns = v
             /\ nic'.dhcp = nic.dhcp /\ nic'.addrs = nic.addrs /\ nic'.gw = nic.gw
  <2>1. /\ nic'.dns = v /\ nic'.dhcp = nic.dhcp /\ nic'.addrs = nic.addrs
        /\ nic'.gw = nic.gw /\ Record(nic)'
    BY <1>6 DEF NicOK, Record
  <2>2. QED
    BY <1>6, <2>1 DEF NicOK
<1>7. QED
  <2>1. CASE \E r \in Resolvers : d = <<r>> /\ todo = <<SetDns(r)>>
    BY <2>1, <1>2, <1>6, ListsHave DEF ServersLeft
  <2>2. CASE \E r, s \in Resolvers : r # s /\ d = <<r, s>> /\ todo = <<SetDns(r), AddDns(s)>>
    <3>1. PICK r, s \in Resolvers : r # s /\ d = <<r, s>> /\ todo = <<SetDns(r), AddDns(s)>>
      BY <2>2
    <3>2. Len(d) = 2 /\ d[1] = r /\ d[2] = s
      BY <3>1
    <3>3. QED
      BY <3>1, <3>2, <1>3, <1>6, ListsHave DEF ServersLeft
  <2>3. CASE \E r, s \in Resolvers : r # s /\ d = <<r, s>> /\ todo = <<AddDns(s)>> /\ nic.dns = <<r>>
    BY <2>3, <1>4, <1>6, ListsHave DEF ServersLeft
  <2>4. QED
    BY <1>5, <2>1, <2>2, <2>3

\* A command of the restore has taken effect: what it was to bring back is back,
\* whatever the flash, or an earlier try that was killed, had left.
LEMMA CommandDone ==
    ASSUME Inv, Busy, todo # <<>>, original' = original, nic' \in Effects(Head(todo))
    PROVE  /\ NicOK'
           /\ todo' = Tail(todo) => Left'
<1>1. Left /\ NicOK /\ original \in Configs /\ original.dhcp \in BOOLEAN
  BY ConfigShape DEF Inv
<1>2. CASE original.dhcp
  <2>1. CASE todo = <<SetDhcp, SetDnsDhcp>>
    <3>1. /\ nic' = [nic EXCEPT !.dhcp = TRUE, !.addrs = <<>>, !.gw = None]
          /\ Tail(todo) = <<SetDnsDhcp>>
      <4>1. Head(todo) = SetDhcp /\ Tail(todo) = <<SetDnsDhcp>>
        BY <2>1, TupleFacts, Zenon
      <4>2. QED
        BY <4>1, EffectsOf
    <3>2. AddrDhcp' /\ nic'.dns = nic.dns /\ Record(nic)'
      BY <1>1, <3>1 DEF AddrDhcp, NicOK, Record
    <3>3. QED
      BY <1>1, <1>2, <3>1, <3>2 DEF NicOK, AddrDhcp, Left
  <2>2. CASE todo = <<SetDnsDhcp>> /\ AddrDhcp
    <3>1. nic' = [nic EXCEPT !.dns = <<>>] /\ Tail(todo) = <<>>
      <4>1. Head(todo) = SetDnsDhcp /\ Tail(todo) = <<>>
        BY <2>2, TupleFacts, Zenon
      <4>2. QED
        BY <4>1, EffectsOf
    <3>2. /\ nic'.dhcp = nic.dhcp /\ nic'.addrs = nic.addrs /\ nic'.gw = nic.gw
          /\ nic'.dns = <<>> /\ Record(nic)'
      BY <1>1, <3>1 DEF NicOK, Record
    <3>3. QED
      BY <1>1, <1>2, <2>2, <3>1, <3>2, ListsHave DEF NicOK, AddrDhcp, Left
  <2>3. QED
    BY <1>1, <1>2, <2>1, <2>2 DEF Left
<1>3. CASE ~original.dhcp /\ ServersLeft /\ (original.addrs # <<>> => AddressBack)
  <2>1. /\ NicOK'
        /\ todo' = Tail(todo) => ServersLeft'
        /\ nic'.dhcp = nic.dhcp /\ nic'.addrs = nic.addrs /\ nic'.gw = nic.gw
    BY <1>1, <1>3, ServerSet
  <2>2. AddressBack => AddressBack'
    BY <2>1 DEF AddressBack
  <2>3. QED
    BY <1>3, <2>1, <2>2 DEF Left
<1>4. CASE /\ ~original.dhcp /\ original.addrs # <<>>
           /\ todo = <<SetAddress(original.addrs[1], original.gw)>> \o ServersOf(original.dns)
  <2> DEFINE c == SetAddress(original.addrs[1], original.gw)
  <2>1. Head(todo) = c /\ Tail(todo) = ServersOf(original.dns)
    BY <1>1, <1>4, ConfigShape, AddressFirst
  <2>2. PICK g : /\ nic' = [nic EXCEPT !.dhcp = FALSE, !.addrs = <<original.addrs[1]>>, !.gw = g]
                 /\ g \in IF original.gw = None THEN {nic.gw, None} ELSE {original.gw}
    BY <2>1, EffectsOf
  <2>3. g = original.gw
    BY <1>1, <2>2 DEF NicOK
  <2>4. AddressBack' /\ nic'.dns = nic.dns /\ Record(nic)'
    BY <1>1, <2>2, <2>3 DEF AddressBack, NicOK, Record
  <2>5. original.addrs[1] \in Addrs
    BY <1>1, <1>4, ConfigShape
  <2>6. NicOK'
    BY <1>1, <2>4, <2>5 DEF NicOK, AddressBack
  <2>7. todo' = Tail(todo) => ServersLeft'
    BY <2>1 DEF ServersLeft
  <2>8. QED
    BY <1>4, <2>4, <2>6, <2>7 DEF Left
<1>5. QED
  BY <1>1, <1>2, <1>3, <1>4 DEF Left

\* Only the first command of a restore to DHCP can be refused as done already.
LEMMA DhcpRefused ==
    ASSUME original \in Configs, Left, todo # <<>>, Head(todo).cmd = "address dhcp"
    PROVE  todo = <<SetDhcp, SetDnsDhcp>> /\ original.dhcp
<1> DEFINE d == original.dns
<1>1. d \in Lists /\ original.dhcp \in BOOLEAN
  BY ConfigShape
<1> DEFINE h == Head(todo)
<1>0. h.cmd = "address dhcp"
  OBVIOUS
<1>2. /\ \A r : SetDns(r).cmd = "dns" /\ AddDns(r).cmd = "add dns"
      /\ \A ip, gw : SetAddress(ip, gw).cmd = "address"
      /\ SetDnsDhcp.cmd = "dns dhcp"
  BY DEF SetDns, AddDns, SetAddress, SetDnsDhcp
<1>3. ASSUME ServersLeft PROVE FALSE
  <2>1. ASSUME NEW r, todo = <<SetDns(r)>> PROVE FALSE
    <3>1. h = SetDns(r)
      BY <2>1, TupleFacts, Zenon
    <3> HIDE DEF h
    <3>2. QED BY <1>0, <1>2, <3>1
  <2>2. ASSUME NEW r, todo = <<AddDns(r)>> PROVE FALSE
    <3>1. h = AddDns(r)
      BY <2>2, TupleFacts, Zenon
    <3> HIDE DEF h
    <3>2. QED BY <1>0, <1>2, <3>1
  <2>3. ASSUME NEW r, NEW s, todo = <<SetDns(r), AddDns(s)>> PROVE FALSE
    <3>1. h = SetDns(r)
      BY <2>3, TupleFacts, Zenon
    <3> HIDE DEF h
    <3>2. QED BY <1>0, <1>2, <3>1
  <2>4. QED
    <3>1. CASE todo = ServersOf(d)
      <4>1. \/ ServersOf(d) = <<>>
            \/ \E r : ServersOf(d) = <<SetDns(r)>>
            \/ \E r, s : ServersOf(d) = <<SetDns(r), AddDns(s)>>
        BY <1>1, ListShape
      <4>2. QED
        BY <2>1, <2>3, <3>1, <4>1, Zenon
    <3>2. CASE todo = <<AddDns(d[2])>>
      BY <2>2, <3>2
    <3>3. QED BY <1>3, <3>1, <3>2 DEF ServersLeft
<1>4. CASE original.dhcp
  <2>1. ASSUME todo = <<SetDnsDhcp>> PROVE FALSE
    <3>1. h = SetDnsDhcp
      BY <2>1, TupleFacts, Zenon
    <3> HIDE DEF h
    <3>2. QED
      BY <1>0, <1>2, <3>1
  <2>2. QED
    BY <1>4, <2>1 DEF Left
<1>5. CASE ~original.dhcp
  <2>1. todo = <<SetAddress(original.addrs[1], original.gw)>> \o ServersOf(d)
    BY <1>3, <1>5 DEF Left
  <2>2. h = SetAddress(original.addrs[1], original.gw)
    BY <1>1, <2>1, AddressFirst, Zenon
  <2> HIDE DEF h
  <2>3. QED
    BY <1>0, <1>2, <2>2
<1>6. QED
  BY <1>1, <1>4, <1>5

\* The invariant holds before the flash.
LEMMA InitInv == Init => Inv
<1> SUFFICES ASSUME Init PROVE Inv
  OBVIOUS
<1>1. /\ original \in Configs /\ nic = original /\ todo = <<>> /\ phase = "idle"
      /\ snap = Snapshot(original) /\ blamed = FALSE
  BY DEF Init
<1>2. NicOK
  <2>1. nic.gw = original.gw
    BY <1>1
  <2>2. QED BY <1>1, ConfigShape DEF NicOK
<1>3. QED
  BY <1>1, <1>2 DEF Inv, Busy

\* Every step keeps the invariant: setting the address, the commands of a restore,
\* and their failure with or without effect.
LEMMA NextInv == Inv /\ [Next]_vars => Inv'
<1> SUFFICES ASSUME Inv, [Next]_vars PROVE Inv'
  OBVIOUS
<1>1. CASE SetStatic
  <2>1. /\ phase = "idle" /\ original' = original /\ todo' = todo /\ blamed' = blamed
        /\ snap' = Snapshot(nic) /\ phase' \in {"set", "undo"}
        /\ nic' \in Effects(SetAddress(Flash, None)) \cup {nic}
    BY <1>1 DEF SetStatic
  <2>2. NicOK'
    <3>1. CASE nic' = nic
      BY <2>1, <3>1 DEF Inv, NicOK, Record
    <3>2. ASSUME NEW g \in {nic.gw, None},
                 nic' = [nic EXCEPT !.dhcp = FALSE, !.addrs = <<Flash>>, !.gw = g]
          PROVE  NicOK'
      <4>1. /\ nic'.dhcp = FALSE /\ nic'.addrs = <<Flash>> /\ nic'.gw = g
            /\ nic'.dns = nic.dns /\ Record(nic)'
        BY <3>2 DEF Inv, NicOK, Record
      <4>2. QED
        BY <2>1, <4>1 DEF Inv, NicOK
    <3>3. QED
      BY <2>1, <3>1, <3>2, EffectsOf
  <2>3. QED
    BY <2>1, <2>2 DEF Inv, Busy
<1>2. CASE Restore
  <2>1. /\ original' = original /\ nic' = nic /\ snap' = snap /\ blamed' = FALSE
        /\ phase' \in {"restoring", "undoing"} /\ todo' = Commands(snap)
    BY <1>2 DEF Restore
  <2>2. Left'
    BY <2>1, CommandsOf DEF Inv, Left, ServersLeft
  <2>3. NicOK'
    BY <2>1 DEF Inv, NicOK, Record
  <2>4. QED
    BY <2>1, <2>2, <2>3 DEF Inv, Busy
<1>3. CASE Command
  <2>1. /\ Busy /\ todo # <<>> /\ original' = original /\ snap' = snap
        /\ phase' = phase /\ blamed' = blamed /\ todo' = Tail(todo)
        /\ \/ nic' \in Effects(Head(todo))
           \/ nic' = nic /\ Head(todo).cmd = "address dhcp" /\ nic.dhcp
    BY <1>3 DEF Command, Ignored, Refused
  <2>2. CASE nic' \in Effects(Head(todo))
    <3>1. NicOK' /\ Left'
      BY <2>1, <2>2, CommandDone
    <3>2. QED
      BY <2>1, <3>1 DEF Inv, Busy
  <2>3. CASE nic' = nic /\ Head(todo).cmd = "address dhcp" /\ nic.dhcp
    <3>1. NicOK'
      BY <2>1, <2>3 DEF Inv, NicOK, Record
    <3>2. todo = <<SetDhcp, SetDnsDhcp>> /\ original.dhcp
      BY <2>1, <2>3, DhcpRefused DEF Inv
    <3>3. Left'
      <4>1. Tail(todo) = <<SetDnsDhcp>>
        BY <3>2, TupleFacts, Zenon
      <4>2. QED
        BY <2>1, <2>3, <3>2, <4>1 DEF Inv, NicOK, Left, AddrDhcp
    <3>4. QED
      BY <2>1, <3>1, <3>3 DEF Inv, Busy
  <2>4. QED
    BY <2>1, <2>2, <2>3
<1>4. CASE CommandFails
  <2>1. /\ Busy /\ todo # <<>> /\ original' = original /\ snap' = snap
        /\ phase' \in {"failed", "kept"} /\ blamed' = TRUE /\ todo' = <<>>
        /\ nic' \in Effects(Head(todo)) \cup {nic}
    BY <1>4 DEF CommandFails, Fails
  <2>2. NicOK'
    <3>1. CASE nic' = nic
      BY <2>1, <3>1 DEF Inv, NicOK, Record
    <3>2. CASE nic' \in Effects(Head(todo))
      BY <2>1, <3>2, CommandDone
    <3>3. QED BY <2>1, <3>1, <3>2
  <2>3. QED
    BY <2>1, <2>2 DEF Inv, Busy
<1>5. CASE Restored \/ UNCHANGED vars
  <2>1. /\ original' = original /\ nic' = nic /\ snap' = snap /\ blamed' = blamed
        /\ todo' = todo
        /\ phase' = phase \/ (Busy /\ todo = <<>> /\ phase' = "restored")
    BY <1>5 DEF Restored, vars
  <2>2. NicOK' /\ Left' = Left
    BY <2>1 DEF Inv, NicOK, Record, Left, AddrDhcp, ServersLeft, AddressBack
  <2>3. QED
    BY <2>1, <2>2 DEF Inv, Busy
<1>6. QED
  BY <1>1, <1>2, <1>3, <1>4, <1>5 DEF Next

\* The inductive invariant holds through a flash and any number of restores.
THEOREM Invariance == Spec => []Inv
<1>1. QED
  BY InitInv, NextInv, PTL DEF Spec

\* A restore that reports success has brought back what the snapshot could tell:
\* DHCP without servers, or the one address with its gateway and servers, after any
\* number of tries that netsh has broken off.
THEOREM Restores == Spec => []RestoreExact
<1>1. Inv => RestoreExact
  <2> SUFFICES ASSUME Inv, phase = "restored", Faithful(original)
               PROVE  nic = original
    BY DEF RestoreExact
  <2> DEFINE d == original.dns
  <2>1. /\ Record(original) /\ Record(nic) /\ d \in Lists /\ original.dhcp \in BOOLEAN
        /\ original.dhcp => original.addrs = <<>> /\ original.gw = None
        /\ todo = <<>> /\ Left
    BY ConfigShape DEF Inv, NicOK, Busy
  <2>2. \A a, b : <<>> # <<a>> /\ <<>> # <<a, b>>
    OBVIOUS
  <2>3. CASE original.dhcp
    <3>1. AddrDhcp /\ nic.dns = <<>>
      BY <2>1, <2>2, <2>3 DEF Left
    <3>2. QED
      BY <2>1, <2>3, <3>1 DEF AddrDhcp, Faithful, Record
  <2>4. CASE ~original.dhcp
    <3>1. \E a : original.addrs = <<a>>
      BY <2>4, ConfigShape DEF Inv, Faithful
    <3>2. original.addrs # <<>> /\ original.addrs = <<original.addrs[1]>>
      BY <3>1
    <3>3. todo # <<SetAddress(original.addrs[1], original.gw)>> \o ServersOf(d)
      BY <2>1, FirstNotLast
    <3>4. AddressBack /\ ServersLeft
      BY <2>1, <2>4, <3>2, <3>3 DEF Left
    <3>5. nic.dns = d
      <4>1. CASE todo = ServersOf(d)
        <5>1. d = <<>>
          BY <2>1, <2>2, <4>1, ListShape
        <5>2. QED
          BY <5>1 DEF Inv, NicOK
      <4>2. QED
        BY <2>1, <2>2, <3>4, <4>1 DEF ServersLeft
    <3>6. QED
      BY <2>1, <2>4, <3>2, <3>4, <3>5 DEF AddressBack, Record
  <2>5. QED
    BY <2>1, <2>3, <2>4
<1>2. QED
  BY <1>1, Invariance, PTL

\* restore_parts fails only if netsh does: the "already enabled" of an adapter that
\* is back at DHCP does not end a repeated restore.
THEOREM FailureBlamed == Spec => []FailsOnlyWithNetsh
<1>1. Init => FailsOnlyWithNetsh
  BY DEF Init, FailsOnlyWithNetsh
<1>2. FailsOnlyWithNetsh /\ [Next]_vars => FailsOnlyWithNetsh'
  <2> SUFFICES ASSUME FailsOnlyWithNetsh, [Next]_vars
               PROVE  FailsOnlyWithNetsh'
    OBVIOUS
  <2>1. CASE SetStatic
    BY <2>1 DEF SetStatic, FailsOnlyWithNetsh
  <2>2. CASE Restore
    BY <2>2 DEF Restore, FailsOnlyWithNetsh
  <2>3. CASE Command
    BY <2>3 DEF Command, Ignored, FailsOnlyWithNetsh
  <2>4. CASE CommandFails
    BY <2>4 DEF CommandFails, FailsOnlyWithNetsh
  <2>5. CASE Restored \/ UNCHANGED vars
    BY <2>5 DEF Restored, vars, FailsOnlyWithNetsh
  <2>6. QED
    BY <2>1, <2>2, <2>3, <2>4, <2>5 DEF Next
<1>3. QED
  BY <1>1, <1>2, PTL DEF Spec

-----------------------------------------------------------------------------

\* The sequence s over S agrees with the end of q.
Ends(s, q, S) ==
    /\ s \in Seq(S) /\ q \in Seq(S) /\ Len(s) <= Len(q)
    /\ \A i \in 1 .. Len(s) : s[i] = q[Len(q) - Len(s) + i]

\* A list that agrees with the end of another, index by index, is a suffix of it.
LEMMA EndIsSuffix ==
    ASSUME NEW S, NEW s, NEW q, Ends(s, q, S)
    PROVE  IsSuffix(s, q)
<1> DEFINE rs == Reverse(s)
           rq == Reverse(q)
           a == SubSeq(rs, 1, Len(s))
           b == SubSeq(rq, 1, Len(s))
<1>1. s \in Seq(S) /\ q \in Seq(S) /\ Len(s) \in Nat /\ Len(q) \in Nat /\ Len(s) <= Len(q)
  BY DEF Ends
<1>2. /\ rs \in Seq(S) /\ Len(rs) = Len(s)
      /\ \A i \in 1 .. Len(s) : rs[i] = s[Len(s) - i + 1]
  BY <1>1 DEF Reverse
<1>3. /\ rq \in Seq(S) /\ Len(rq) = Len(q)
      /\ \A i \in 1 .. Len(q) : rq[i] = q[Len(q) - i + 1]
  BY <1>1 DEF Reverse
<1> HIDE DEF rs, rq
<1>4. a \in Seq(S) /\ Len(a) = Len(s) /\ \A i \in 1 .. Len(s) : a[i] = rs[i]
  BY <1>1, <1>2, SubSeqProperties
<1>5. b \in Seq(S) /\ Len(b) = Len(s) /\ \A i \in 1 .. Len(s) : b[i] = rq[i]
  BY <1>1, <1>3, SubSeqProperties
<1> HIDE DEF a, b
<1>6. ASSUME NEW i \in 1 .. Len(s) PROVE a[i] = b[i]
  <2>1. Len(s) - i + 1 \in 1 .. Len(s) /\ i \in 1 .. Len(q)
    BY <1>1
  <2>2. s[Len(s) - i + 1] = q[Len(q) - Len(s) + (Len(s) - i + 1)]
    BY <2>1 DEF Ends
  <2>3. Len(q) - Len(s) + (Len(s) - i + 1) = Len(q) - i + 1
    BY <1>1
  <2>4. QED
    BY <1>2, <1>3, <1>4, <1>5, <2>1, <2>2, <2>3
<1>7. a = b
  BY <1>4, <1>5, <1>6, SeqEqual
<1>8. QED
  BY <1>1, <1>2, <1>3, <1>7 DEF IsSuffix, IsPrefix, a, b, rs, rq

\* The end of a list is the end of the list with a command put in front.
LEMMA EndsInFront ==
    ASSUME NEW S, NEW s, NEW q, Ends(s, q, S), NEW c \in S
    PROVE  Ends(s, <<c>> \o q, S)
<1>1. <<c>> \in Seq(S) /\ Len(<<c>>) = 1
  OBVIOUS
<1>2. s \in Seq(S) /\ q \in Seq(S) /\ Len(s) \in Nat /\ Len(q) \in Nat /\ Len(s) <= Len(q)
  BY DEF Ends
<1> DEFINE r == <<c>> \o q
<1>3. /\ r \in Seq(S) /\ Len(r) = 1 + Len(q)
      /\ \A i \in 1 .. 1 + Len(q) : i > 1 => r[i] = q[i - 1]
  BY <1>1, <1>2, ConcatProperties
<1> HIDE DEF r
<1>4. ASSUME NEW i \in 1 .. Len(s) PROVE s[i] = r[Len(r) - Len(s) + i]
  <2> DEFINE k == Len(r) - Len(s) + i
  <2>1. k \in 1 .. 1 + Len(q) /\ k > 1 /\ k - 1 = Len(q) - Len(s) + i
    BY <1>2, <1>3
  <2> HIDE DEF k
  <2>2. r[k] = q[k - 1]
    BY <1>3, <2>1
  <2>3. s[i] = q[Len(q) - Len(s) + i]
    BY DEF Ends
  <2>4. s[i] = r[k]
    BY <2>1, <2>2, <2>3
  <2>5. QED
    BY <2>4 DEF k
<1>5. Ends(s, r, S)
  BY <1>2, <1>3, <1>4 DEF Ends
<1>6. QED
  BY <1>5 DEF r

\* The ends of lists of one and two.
LEMMA TupleEnds ==
    ASSUME NEW S, NEW a \in S, NEW b \in S
    PROVE  /\ Ends(<<a>>, <<a>>, S)
           /\ Ends(<<a, b>>, <<a, b>>, S)
           /\ Ends(<<b>>, <<a, b>>, S)
<1> DEFINE one == <<b>>
           two == <<a, b>>
<1>1. /\ one \in Seq(S) /\ Len(one) = 1 /\ one[1] = b
      /\ two \in Seq(S) /\ Len(two) = 2 /\ two[2] = b
  OBVIOUS
<1>2. <<a>> \in Seq(S)
  OBVIOUS
<1>3. \A s \in Seq(S) : Ends(s, s, S)
  BY DEF Ends
<1> HIDE DEF one, two
<1>4. Ends(one, two, S)
  BY <1>1 DEF Ends
<1>5. QED
  BY <1>1, <1>2, <1>3, <1>4 DEF one, two

\* The commands left for the servers are the last of ServersOf.
LEMMA ServersEnd ==
    ASSUME original \in Configs, ServersLeft, NEW c
    PROVE  \/ todo = <<>>
           \/ \E S : c \in S /\ Ends(todo, ServersOf(original.dns), S)
<1> DEFINE d == original.dns
<1>1. d \in Lists
  BY ConfigShape
<1>2. CASE d = <<>> /\ ServersOf(d) = <<>>
  <2>1. ~(Len(d) = 2)
    BY <1>2
  <2>2. QED
    BY <1>2, <2>1 DEF ServersLeft
<1>3. ASSUME NEW r, d = <<r>>, ServersOf(d) = <<SetDns(r)>>, todo # <<>>
      PROVE  \E S : c \in S /\ Ends(todo, ServersOf(d), S)
  <2> DEFINE S == {c, SetDns(r)}
  <2>1. ~(Len(d) = 2)
    BY <1>3
  <2>2. todo = <<SetDns(r)>>
    BY <1>3, <2>1 DEF ServersLeft
  <2>3. c \in S /\ Ends(todo, ServersOf(d), S)
    BY <1>3, <2>2, TupleEnds, Zenon
  <2>4. QED
    BY <2>3
<1>4. ASSUME NEW r, NEW s, d = <<r, s>>, ServersOf(d) = <<SetDns(r), AddDns(s)>>, todo # <<>>
      PROVE  \E S : c \in S /\ Ends(todo, ServersOf(d), S)
  <2> DEFINE S == {c, SetDns(r), AddDns(s)}
  <2>1. d[2] = s
    BY <1>4
  <2>2. todo = <<SetDns(r), AddDns(s)>> \/ todo = <<AddDns(s)>>
    BY <1>4, <2>1 DEF ServersLeft
  <2>3. c \in S /\ Ends(todo, ServersOf(d), S)
    BY <1>4, <2>2, TupleEnds, Zenon
  <2>4. QED
    BY <2>3
<1>5. QED
  BY <1>1, <1>2, <1>3, <1>4, ListShape

\* The commands left are the last of those that restore_parts runs: none is left out
\* and none is repeated.
LEMMA CommandsEnd ==
    ASSUME Inv
    PROVE  todo = <<>> \/ IsSuffix(todo, Commands(snap))
<1> SUFFICES ASSUME todo # <<>> PROVE IsSuffix(todo, Commands(snap))
  OBVIOUS
<1> DEFINE d == original.dns
           cs == Commands(snap)
           c == SetAddress(original.addrs[1], original.gw)
<1>1. /\ original \in Configs /\ Left /\ d \in Lists /\ original.dhcp \in BOOLEAN
      /\ cs = IF original.dhcp THEN <<SetDhcp, SetDnsDhcp>>
               ELSE IF original.addrs = <<>> THEN ServersOf(d) ELSE <<c>> \o ServersOf(d)
  BY CommandsOf, ConfigShape DEF Inv
<1> HIDE DEF cs, c
<1>2. CASE original.dhcp
  <2>1. todo = <<SetDhcp, SetDnsDhcp>> \/ todo = <<SetDnsDhcp>>
    BY <1>1, <1>2 DEF Left
  <2>2. Ends(todo, cs, {SetDhcp, SetDnsDhcp})
    BY <1>1, <1>2, <2>1, TupleEnds, Zenon
  <2>3. QED
    BY <2>2, EndIsSuffix DEF cs
<1>3. CASE ~original.dhcp /\ ServersLeft
  <2>1. PICK S : c \in S /\ Ends(todo, ServersOf(d), S)
    BY <1>1, <1>3, ServersEnd
  <2>2. Ends(todo, cs, S)
    BY <1>1, <1>3, <2>1, EndsInFront
  <2>3. QED
    BY <2>2, EndIsSuffix DEF cs
<1>4. CASE ~original.dhcp /\ original.addrs # <<>> /\ todo = <<c>> \o ServersOf(d)
  <2> DEFINE t == ServersOf(d)
  <2>1. PICK S : c \in S /\ t \in Seq(S)
    <3>1. CASE t = <<>>
      <4>1. <<>> \in Seq({c})
        OBVIOUS
      <4>2. QED BY <3>1, <4>1
    <3>2. ASSUME NEW r, t = <<SetDns(r)>> PROVE \E S : c \in S /\ t \in Seq(S)
      <4>1. <<SetDns(r)>> \in Seq({c, SetDns(r)})
        OBVIOUS
      <4>2. QED BY <3>2, <4>1
    <3>3. ASSUME NEW r, NEW s, t = <<SetDns(r), AddDns(s)>> PROVE \E S : c \in S /\ t \in Seq(S)
      <4>1. <<SetDns(r), AddDns(s)>> \in Seq({c, SetDns(r), AddDns(s)})
        OBVIOUS
      <4>2. QED BY <3>3, <4>1
    <3>4. QED
      BY <1>1, <3>1, <3>2, <3>3, ListShape
  <2> HIDE DEF t
  <2>2. todo \in Seq(S)
    <3>1. <<c>> \in Seq(S)
      BY <2>1
    <3>2. todo = <<c>> \o t
      BY <1>4 DEF t
    <3>3. QED
      BY <2>1, <3>1, <3>2, ConcatProperties
  <2>3. Ends(todo, cs, S)
    <3>1. cs = todo
      BY <1>1, <1>4
    <3>2. QED
      BY <2>2, <3>1 DEF Ends
  <2>4. QED
    BY <2>3, EndIsSuffix DEF cs
<1>5. QED
  BY <1>1, <1>2, <1>3, <1>4 DEF Left, c

\* Every state of the adapter, of the snapshot and of the restore has its type, and
\* what is left to do is the end of what the snapshot says.
THEOREM TypesKept == Spec => []TypeOK
<1>1. Inv => TypeOK
  <2> SUFFICES ASSUME Inv PROVE TypeOK
    OBVIOUS
  <2>1. nic.gw \in Gateways \cup {None}
    BY ConfigShape DEF Inv, NicOK
  <2>2. Range(nic.addrs) \subseteq Addrs \cup {Flash}
    BY DEF Inv, NicOK, Range
  <2>3. QED
    BY <2>1, <2>2, CommandsEnd DEF Inv, NicOK, TypeOK
<1>2. QED
  BY <1>1, Invariance, PTL
=============================================================================
