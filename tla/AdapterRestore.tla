---------------------------- MODULE AdapterRestore ----------------------------
(***************************************************************************)
(* The adapter's configuration through a flash: the snapshot the           *)
(* enumeration takes of it, the static address, and the netsh commands     *)
(* that restore it from the snapshot (crates/core/src/nic.rs), run by the  *)
(* session, or by the elevated child of crates/app/src/main.rs, which      *)
(* takes a snapshot of its own and rolls back what it could not finish.    *)
(*                                                                         *)
(* Any command may fail, with or without effect: after 30 seconds netsh is *)
(* killed.  A restore that fails is tried again from its first command by  *)
(* the session's next stop.  What a command does to the adapter is         *)
(* Windows' part, modelled from how the code uses it.                      *)
(*                                                                         *)
(* Before some definitions stands a form of them with a mistake in it,     *)
(* which no other definition uses: it shows that a property would catch    *)
(* the mistake.                                                            *)
(***************************************************************************)
EXTENDS Naturals, SequencesExt

CONSTANTS Addrs,     \* addresses, with their masks
          Flash,     \* config::STATIC_IP
          Gateways,
          Resolvers  \* DNS servers

None == "none"

ASSUME AdapterAssumption == /\ Flash \notin Addrs
                            /\ None \notin Addrs

VARIABLES
    nic,       \* the adapter: whether it uses DHCP, and what was set by hand
    original,  \* history: the adapter before the flash
    snap,      \* the snapshot: the fields of NicInfo
    todo,      \* the commands that are left of the restore
    phase,     \* "idle", "set", "restoring", "restored" or "failed"; if the
               \* address could not be set, "undo", "undoing" or "kept"
    blamed     \* history: a command of this restore has failed

vars == <<nic, original, snap, todo, phase, blamed>>

\* An adapter without servers of its own uses those DHCP gives it.
Lists == {<<>>} \cup UNION {{<<r, s>> : s \in Resolvers \ {r}} \cup {<<r>>} :
                             r \in Resolvers}

\* Addresses set by hand, usually one.
ByHand == {<<a>> : a \in Addrs} \cup {<<a, b>> : a, b \in Addrs}

\* Either DHCP, or addresses and perhaps a gateway.
Configs ==
    [dhcp : {TRUE}, addrs : {<<>>}, gw : {None}, dns : Lists]
    \cup [dhcp : {FALSE}, addrs : {<<>>}, gw : {None}, dns : Lists]
    \cup [dhcp : {FALSE}, addrs : ByHand, gw : Gateways \cup {None}, dns : Lists]

-----------------------------------------------------------------------------
(* The snapshot and the commands.                                          *)

\* The enumeration sees the first address and the servers in use; those that
\* come from DHCP play no part in the restore.
Snapshot(c) == [dhcp |-> c.dhcp,
                ip |-> IF c.addrs = <<>> THEN None ELSE c.addrs[1],
                gw |-> c.gw, dns |-> c.dns]

SetDhcp == [cmd |-> "address dhcp"]
SetDnsDhcp == [cmd |-> "dns dhcp"]
SetAddress(ip, gw) == [cmd |-> "address", ip |-> ip, gw |-> gw]
SetDns(r) == [cmd |-> "dns", server |-> r]
AddDns(r) == [cmd |-> "add dns", server |-> r]

\* Mistake: the list that is there is not replaced.
ServersAdded(dns) == [i \in DOMAIN dns |-> AddDns(dns[i])]

\* The first server replaces the list, the others are added.
ServersOf(dns) ==
    [i \in DOMAIN dns |-> IF i = 1 THEN SetDns(dns[i]) ELSE AddDns(dns[i])]

\* Mistake: the gateway is forgotten.
CommandsNoGateway(s) ==
    IF s.dhcp THEN <<SetDhcp, SetDnsDhcp>>
    ELSE IF s.ip = None THEN ServersOf(s.dns)
    ELSE <<SetAddress(s.ip, None)>> \o ServersOf(s.dns)

\* restore_parts.  Without an address in the snapshot there is none to set.
Commands(s) ==
    IF s.dhcp THEN <<SetDhcp, SetDnsDhcp>>
    ELSE IF s.ip = None THEN ServersOf(s.dns)
    ELSE <<SetAddress(s.ip, s.gw)>> \o ServersOf(s.dns)

\* What a command does.  Without a gateway in it, a static adapter may keep
\* the one it has.
Effects(c) ==
    CASE c.cmd = "address dhcp" ->
           {[nic EXCEPT !.dhcp = TRUE, !.addrs = <<>>, !.gw = None]}
      [] c.cmd = "dns dhcp" -> {[nic EXCEPT !.dns = <<>>]}
      [] c.cmd = "address" ->
           {[nic EXCEPT !.dhcp = FALSE, !.addrs = <<c.ip>>, !.gw = g] :
               g \in IF c.gw = None THEN {nic.gw, None} ELSE {c.gw}}
      [] c.cmd = "dns" -> {[nic EXCEPT !.dns = <<c.server>>]}
      [] c.cmd = "add dns" -> {[nic EXCEPT !.dns = Append(@, c.server)]}

\* netsh refuses what is so already, and says so.
Refused(c) == c.cmd = "address dhcp" /\ nic.dhcp

\* Mistake: that is an error like any other.
IgnoredNothing(c) == FALSE

\* restore_parts takes it for success.
Ignored(c) == Refused(c)

-----------------------------------------------------------------------------
(* A session.                                                              *)

\* set_static fails, or the firewall rule after it, or neither does.
SetStatic ==
    /\ phase = "idle"
    /\ snap' = Snapshot(nic)
    /\ \/ nic' \in Effects(SetAddress(Flash, None)) /\ phase' = "set"
       \/ /\ nic' \in Effects(SetAddress(Flash, None)) \cup {nic}
          /\ phase' = "undo"
    /\ UNCHANGED <<original, todo, blamed>>

\* The session's stop restores, and a later stop tries again; the child rolls
\* back once.
Restore ==
    /\ \/ phase \in {"set", "failed"} /\ phase' = "restoring"
       \/ phase = "undo" /\ phase' = "undoing"
    /\ todo' = Commands(snap)
    /\ blamed' = FALSE
    /\ UNCHANGED <<nic, original, snap>>

Busy == phase \in {"restoring", "undoing"}
Fails == /\ phase' = IF phase = "restoring" THEN "failed" ELSE "kept"
         /\ todo' = <<>>

Command ==
    /\ Busy /\ todo # <<>>
    /\ LET c == Head(todo) IN
       \/ ~Refused(c) /\ nic' \in Effects(c) /\ todo' = Tail(todo)
          /\ UNCHANGED <<phase, blamed>>
       \/ Refused(c) /\ Ignored(c) /\ todo' = Tail(todo)
          /\ UNCHANGED <<nic, phase, blamed>>
       \/ Refused(c) /\ ~Ignored(c) /\ Fails
          /\ UNCHANGED <<nic, blamed>>
    /\ UNCHANGED <<original, snap>>

CommandFails ==
    /\ Busy /\ todo # <<>>
    /\ nic' \in Effects(Head(todo)) \cup {nic}
    /\ Fails /\ blamed' = TRUE
    /\ UNCHANGED <<original, snap>>

Restored ==
    /\ Busy /\ todo = <<>>
    /\ phase' = "restored"
    /\ UNCHANGED <<nic, original, snap, todo, blamed>>

Init ==
    /\ nic \in Configs /\ original = nic
    /\ snap = Snapshot(nic) /\ todo = <<>>
    /\ phase = "idle" /\ blamed = FALSE

Next == SetStatic \/ Restore \/ Command \/ CommandFails \/ Restored

Spec == Init /\ [][Next]_vars

-----------------------------------------------------------------------------
(* Properties.                                                             *)

TypeOK ==
    /\ original \in Configs
    /\ nic.dhcp \in BOOLEAN /\ nic.dns \in Lists
    /\ nic.gw \in Gateways \cup {None}
    /\ Range(nic.addrs) \subseteq Addrs \cup {Flash}
    /\ nic.dhcp => nic.addrs = <<>> /\ nic.gw = None
    /\ snap = Snapshot(original)
    /\ todo = <<>> \/ IsSuffix(todo, Commands(snap))
    /\ phase \in {"idle", "set", "restoring", "restored", "failed", "undo",
                  "undoing", "kept"}
    /\ blamed \in BOOLEAN

\* What a snapshot can tell: no servers of one's own next to DHCP, and
\* otherwise one address.
Faithful(c) == IF c.dhcp THEN c.dns = <<>> ELSE Len(c.addrs) = 1

\* A restore that reports success has brought back such a configuration,
\* whichever commands of earlier tries have failed, and whether the flash's
\* address was set at all (README.md:18).
RestoreExact == phase = "restored" /\ Faithful(original) => nic = original

\* A restore fails only if a command of it has failed: what earlier tries
\* have restored already is no obstacle (nic.rs:254).
FailsOnlyWithNetsh == phase \in {"failed", "kept"} => blamed

\* README.md:18: the original configuration comes back, DHCP or the static
\* address and the DNS servers.
DnsRestored == phase = "restored" => nic.dns = original.dns
=============================================================================
