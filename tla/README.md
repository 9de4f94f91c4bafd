# A formal model of MiWiFiRepairTool

The program brings back a router whose flash is broken. It gives the adapter the
address 192.168.31.1, answers the boot loader's DHCP and TFTP requests itself,
and puts the adapter back when it is done. This directory holds TLA+ models of
its servers and of the session that runs them, configurations for TLC, and
theorems checked by TLAPS. Paths below are relative to
`rust/crates/`; `core` and `app` are its two main crates.

## 1. Inventory

| component | state it keeps | operations | interacts with |
| --- | --- | --- | --- |
| DHCP server `core/src/dhcp.rs` | lease table by MAC, declined addresses, time of the last packet, running flag | DISCOVER, REQUEST (renew, select, fall back, refuse), RELEASE, DECLINE, INFORM, seed, snapshot, start, stop | clients over UDP; probe callback before an allocation; lease callback into the session |
| TFTP server `core/src/tftp.rs` | running flag, a thread and a socket per transfer: block, timeouts, progress | read request, refusals, block by block transfer, resend, give up, stop | the boot loader over UDP; transfer callback into the session |
| flash session `app/src/session.rs` | the two servers, the snapshot of the adapter, auto-stop flag, epoch | start, stop, idle tick | both servers, the adapter (netsh), the elevated child, the shared state |
| status view `app/src/status.rs` | renderer thread, modal flag | redraw, idle tick, Ctrl+C; the input loop of the main thread | the session under its mutex |
| main menu `app/src/menu.rs` | adapters and firmware files found, selections (indices), watchdog's flag | refresh, select, download, name a path, start, quit | the session; the watchdog thread; the user's files |
| elevated child `app/src/main.rs`, `run_elevated` in `app/src/util.rs` | none; result file and exit code | set, restore | netsh, firewall; killed by the parent after 60 s |
| adapter `core/src/nic.rs` | the adapter itself | enumerate, set static, restore | netsh, killed after 30 s |
| lease file `core/src/leases.rs` | `leases.json` | load, save (another file, renamed) | session start and stop |
| probe `core/src/probe.rs` | throttling of warnings | ARP and ICMP probes, ARP cache clearing | called by the DHCP thread |
| ROM list `core/src/rom.rs`, download in `app/src/cli.rs` | none | list, download | HTTP, the menu |
| logger, constants, help, self test, archived C# version | - | - | - |

What is hard here:

* *Threads.* Main, renderer, watchdog, DHCP listener, TFTP listener, one thread
  per transfer. The session's mutex serialises stop and tick; Ctrl+C, the end of
  the input, the user and the idle timer can all stop a session, at once.
* *Late callbacks.* Transfer threads are never joined, so they call back into
  shared state after their session is over.
* *Locks and joins.* A stop holds the session's mutex and joins the servers'
  threads, which call back into the logger and the state with their own locks
  held; each listener holds its socket's mutex whenever it waits for a packet.
* *What moves under the menu.* Selections are indices into lists that are scanned
  again at every prompt, while the user copies, deletes and downloads files.
* *Failure half-way.* Every netsh call, the question for administrator rights,
  the child and each bind can fail, after part of the work has taken effect.
* *The network.* Datagrams are lost, repeated and reordered; the boot loader
  repeats requests; block numbers wrap around.
* *Sequences and restarts.* The lease table is the result of any sequence of
  messages of any clients, with expiry and with a file from a session before,
  which may be older than the last session if the process died.

`PROJECT.json` lists every hazard at the line where it bites, with the
properties that cover it, or the reason why none does.

What makes each component correct: the DHCP server gives an address to one
client at a time and answers what its table says; the TFTP server delivers the
file intact and reports success only then, and its threads end; the session
leaves the adapter as it found it whatever ends it, shows nothing of an earlier
session, and never leaves Ctrl+C without an answer; its threads never wait for
each other in a circle; the menu starts a session with the adapter and the whole
firmware the user saw; over sessions and crashes, no two clients use one address.

## 2. Modules

| module | role |
| --- | --- |
| `LeaseRegistry` | abstract: an address changes hands only by way of being free |
| `DhcpServer` | the DHCP server; implements `LeaseRegistry` |
| `DhcpServerProofs` | its theorems |
| `FileDelivery` | abstract: blocks arrive one after the other, success is reported once, after the last |
| `TftpServer` | listener, transfer threads, client and network; implements `FileDelivery` |
| `FlashSession` | session, status view, menu loop, watchdog, elevated child; the servers as the session sees them |
| `DhcpNetwork` | composes `DhcpServer` with its clients, a network that loses datagrams, the lease file, and sessions that stop or die |
| `FirmwareMenu` | the menu's choices, the user's files and adapters, the download, the copy to the TFTP root |
| `FirmwareMenuProofs` | theorems about `FirmwareMenu` |
| `TftpServerProofs`, `FlashSessionProofs`, `AdapterRestoreProofs`, `DhcpNetworkProofs`, `SessionThreadsProofs` | theorems about these modules |
| `SessionThreads` | the threads of a session, the mutexes they share, and how a stop ends the servers |
| `AdapterRestore` | snapshot, static address and restore, netsh command by netsh command |
| `MC...` | instances for TLC |

### DhcpServer

One listener thread handles one packet at a time, and a handler holds the locks
of the table and of the declined set from its first look to its last write, so
each handler is one action. `leases`, `bad_ips` (here `bad`) and `last_activity`
are the fields of the struct; `now` is `now_unix()`; `last` is the packet
handled last with its answer, which makes the answer, built after the locks are
dropped, part of the state. `Discover` is `handle_discover` and `allocate_free`:
`DiscoverKeep` renews the client's own unexpired entry as a 60 second offer,
`DiscoverAllocate` takes the lowest address that is not the server's, declined,
in another client's entry (expired or not) or answering the probe,
`DiscoverEmpty` stays silent. `Request` has the branches of `handle_request` in
their order. The option-54 branch may be taken for any request, as the option is
not modelled. `Init` allows every table `seed_leases` can leave. A saved table
could name addresses outside the pool only if the file was edited by hand; that
is excluded. Expiry uses small numbers of ticks; an allocation is stamped with
the time its handler starts (the code reads the clock before the probes, too).

### TftpServer

`sess[s]` is a transfer thread: waiting for the acknowledgement of the OACK
(`"oack"`) or of block `blk` (`"data"`), or ended. `up` and `down` are the
network: queues of at most `Cap` datagrams, from which any deliverable datagram
can be lost; with `Reorder` any datagram can be delivered, otherwise the first.
A datagram carries the number on the wire, `n % BlockMod`, and as history the
full number, which for data is the content; the server compares only the former.
`wait_ack` is `FromClient` (a datagram, which resets the count of timeouts) and
`SessionTimeout`. The signed wrap-around comparison is `Before`. The client is
not in the repository: it is a plain TFTP client that follows the first session
that answers, repeats itself a bounded number of times and may give up. Its
definitions and the network's are marked external. Errors of the file or of the
socket in mid-transfer (`tftp.rs:396`) are left out: they end the session
with an error in its last callback, as giving up does.

### FlashSession

Each thread has a place in the code (`main.pc`, `renderer`, `child.at`) and each
step is a piece of code between points where another thread can interfere or
something can fail. The session's mutex is the variable `stop`: a stop in
progress holds it, and its steps are save, close both servers, restore (in the
process, or by the child), reset. Everything else done under the mutex is a
single step. `st` is `CliState`, whose own mutex is a leaf lock. `ses` is the
`Session`, including its snapshot. `menuNic` is what the menu enumerated last,
which is where a snapshot comes from. `dirty` and `silent` are history.
In a `faulty` process (chosen by `Init` from `FaultModes`) each call may fail, a
failing netsh may or may not have taken effect, and a child may be killed
between any two of its steps.

Simplifications: `running = true` and the start of the renderer are one step
(nothing blocks between them); the watchdog's two loads and its `exit` are one
step, so an exit delayed for seconds between them is not covered (`FirmwareMenu`
has them as two steps, without an adapter); copying the firmware and the checks
before it fail before anything is changed, are part of `MenuOther`, and are
modelled in `FirmwareMenu`; the transfer callback's comparison of file names is
left out, as it leads where the comparison of remotes does; the modal flag only
suspends drawing.

### DhcpNetwork

`Server == INSTANCE DhcpServer` supplies the handlers; `Serve` is the listener's
loop: it takes a datagram from the socket's queue, handles it by `DhcpServer`'s
actions and sends the answer, which may be lost. `Open` seeds the server from
`leases.json` (`Live`, `Seed`), `StopSave` writes it, `Close` ends the server,
after a save or without one: the latter is the death of the process at any
point. Between `StopSave` and `Close` the server still answers, as in the code.
A save is all or nothing, since the code renames a finished file. The clients
are not in the repository: they repeat what is not answered, match answers to
their exchange by the transaction number (`current`), restart, remember their
address, give it back or decline it, and count a lease from the time they first
sent the request, as RFC 2131 has it. A probe is answered by every client that
uses the address, or is blocked.

`doubtful` collects the clients of which the properties say nothing: those whose
entry the file did not have right when a session ended (the process died, the
save failed, or the server went on after it), because nothing the program could
do would help them, and those who accepted another address than they had asked
for, because a late copy of their first request may then move the entry.

### FirmwareMenu

`MenuState` is `nics`, `nicSel`, `cands`, `fwSel` with indices from 1 and 0 for
`None`; a path is a number, which gives the order the code sorts by. `Place` and
`Served` say where a path lies and what its copy is called. `Refresh` is
`MenuState::refresh`, which the code calls when the menu is made, drawn and when
[2] is entered; adapters may be enumerated in any order, in part, or not at all.
`pc` is the prompt the main thread waits at. A download is two steps, between
which the process may end. [3] takes the choices (`Begin`), and the start of a
session is a step per access to the disk: `is_file` (`FindFirmware`),
`canonicalize` and the beginning of the copy (`StartCopy`) or its omission
(`GoOn`), the end of the copy (`CopyEnds`, `CopyFails`), and the rest of
`start_session` (`Start`, `StartFails`), which `FlashSession` has in detail. The
code copies only if both calls of `canonicalize` succeed and says nothing if one
does not; `GoOn` may therefore be taken for any firmware, and `session.resolved`
tells whether they succeeded. `session.image` and `session.copy` are histories:
the image found at the chosen path, and the one under its name in the served
directory, when the copy was made or omitted.

`Put` is the user's hand on the files at any moment, also between the steps of a
start, except on the file that is being written. `shown` and
`chosen` are histories: what was drawn last, and what was picked last and is
still there. When a choice has vanished, the code selects a single candidate in
its place although a choice was made before (`menu.rs:101` reads otherwise), but
it shows it before [3] can be pressed, and `StartsAsShown` is what holds.
Assumed:

* the HTTP client reports a body that is cut short as an error;
* a file the user copies is there at once, and the user does not touch a file
  while the program writes it;
* a firmware is copied as it was when the copy began;
* the removal of what a failed download or copy has written succeeds. The code
  makes one try and ignores its result (`let _ = remove_file`, `rom.rs:97`,
  `session.rs:67`): if this fails as well, the part stays and the next scan
  finds it, against `NoPartServed`. `StartFails` does allow it to fail for a
  copy that has not written anything.

`Sorted` says of the sorted list that
each entry has as many before it as are smaller, not how the code sorts; with
that, what it yields can be proved.

### SessionThreads

Each thread has the list `todo[t]` of what it does until it is back at the head
of its loop: take or release a mutex, use one for an access that takes no other,
join, stop, and so on, taken from the source in order. `Goes` merges the release
of a mutex with the step before it: nothing can hold a release up. The listeners
hold their socket's mutex while they receive and look at the running flag when
they have a packet. The callbacks of probe, logger and lease table run with the
locks of their callers held. Left out, because whoever holds one takes no other
of these locks: the logger's file and its list of subscribers (only the state's
is taken below them, which nobody holds who logs), the warning that `lease_changed`
logs when the ARP cache cannot be cleared (it is logged under the locks under
which the probe's are), and the transfers' threads, which are not joined.

### AdapterRestore

`Commands` is `restore_parts` as a sequence of netsh commands computed from the
snapshot, run one by one; each may fail with or without effect. A restore that
failed starts again from the first command at the next stop; the child's
roll-back has one try. What a command does to the adapter, and that netsh
refuses to set DHCP where it is set, is `Effects` and `Refused`, marked external.
`Init` allows DHCP with or without servers of one's own, and no, one or two
static addresses with or without gateway and servers.

Some definitions are preceded by a form of themselves with a plausible mistake
in it (`KeepsDeclined`, `GivesUpLate`, ...). No specification uses these.
`PROJECT.json` pairs each with the property that fails if it replaces the right
form.

## 3. Runs

| run | bounds | shows |
| --- | --- | --- |
| `dhcp` | 2 clients, pool of 2, server's address and one beyond the pool, offers last 1 tick, leases 2, clock to 2 | `TypeOK`, `UniqueAddress`, `AnswerBacked`, `OfferNeverDeclined`, `StickyOffer`, `PoolSuffices`, `ImplementsRegistry` |
| `dhcp_network` | 2 clients, pool of 2, 1 datagram in the server's queue, offers 1 tick, leases 2, clock to 3, 2 sessions | `TypeOK`, `NoSharedAddress`, `BeliefBacked`, `StartsSeeded` |
| `tftp_wrap` | 2 sessions, 5 blocks, numbers modulo 4, 1 retry on each side, queues of 2, in order | `TypeOK`, `InOrder`, `SuccessMeansDelivered` across a wrap, `Lockstep`, `ImplementsDelivery`, `SessionsEnd` |
| `tftp_reorder` | 1 session, 5 blocks, numbers modulo 6, queues of 3, any order | `InOrder`, `SuccessMeansDelivered` under reordering |
| `flash` | 2 sessions, both modes of rights, with and without faults | `TypeOK`, `CleanAtRest`, `RestoreTried`, `RunningIsWatched`, `RestoreOnce`, `CtrlCExits` |
| `flash_callbacks` | 2 sessions, 2 transfer threads, 2 remotes, 1 lease change | `NothingStale`, `BannerMatchesTransfer` |
| `firmware_menu` | 2 paths in the program's directory, one of them in the cloud, 1 elsewhere with the name of the other, 2 images, 2 adapters, one with an odd name | `TypeOK`, `ChoiceKept`, `StartsAsShown`, `NoPartServed`, `ServesTheChoice`, `CtrlCEndsMenu` |
| `session_threads` | none: 4 threads and 7 mutexes are what there is | `TypeOK`, `NoDeadlock`, `RestoredWhenQuiet`, `StopEnds` |
| `adapter_restore` | 2 addresses, 1 gateway, 2 DNS servers | `TypeOK`, `RestoreExact`, `FailsOnlyWithNetsh` |

Why the bounds are enough: two clients contend for two addresses, so the pool is
exhausted, an address is wanted by the other client and entries expire (an offer
made at time 1 has expired at 2). In `dhcp_network` a client may be between its
offer and its request while its entry expires, a session may end in between, and
a file from time 1 may be loaded when its leases have expired; a client repeats
itself without end and its messages wait in the queue beside the exchange they
belong to, so late ones are handled with a queue of one. Five blocks with
numbers modulo four wrap around with a block to spare, and two sessions are the
least with which a repeated request has two answers. Two session starts give an
earlier session whose threads are still about; a third adds nothing that the
second does not have. Two remotes and two threads are what the "new round" test
of the callback compares. Reordering is checked without a wrap, since a delayed
datagram from a full cycle ago cannot be told from a new one by any TFTP server;
in-order delivery is checked with it. Three paths are enough for a list in which
the chosen one moves, a file outside that is dropped from a scan, a single
candidate that would take its place, and a copy over a file of the same name.
Two servers and two addresses are the least for "set, then add" and for a
configuration a snapshot cannot tell. In `firmware_menu` a copy may begin, end,
fail or be skipped while files come and go. In the `dhcp` and `dhcp_network` runs
clients are interchangeable (symmetry): the server never compares hardware
addresses for order. `MCDhcpNetwork` leaves the last packet and the flag `acked`
out of its view; no step of the composition and no property reads them.

Fairness. `TftpServer!FairSpec`: a waiting thread's receive timer runs out again
and again (a socket timeout); nothing is assumed of client, network or `Stop`.
The datagrams that can put a timeout off are finitely many, since the client
repeats itself a bounded number of times. `FlashSession!FairSpec`: each thread
and netsh goes on while it can; nothing is assumed of user, device and clock.
`UserSpec` adds that the user answers a prompt that is on the screen, which
`CtrlCExits` needs (see below). `FirmwareMenu!Spec`: the watchdog and the start
of a session go on; the user, the network and a session need not.
`SessionThreads!Spec`: each thread goes on while it can, but the main thread's
prompt may never be answered. Strong fairness is assumed for the session's and
the lease table's mutex only: those who hold these release them for a second at
a time, or for as long as no packet comes. None is assumed for the sockets'
mutexes, which their listeners take again at once. That a stop ends all the same
is due to the running flag, cleared before the socket is closed (`StopEnds`; in
the other order it fails).
Deadlock is not checked for `TftpServer`, `FlashSession`, `SessionThreads`,
`AdapterRestore` and `DhcpNetwork`: transfers end, the process exits, a restored
adapter is done with, clock and sessions are bounded.

### What the code does not do

Each of these runs checks a sentence of the repository that TLC refutes:

* `flash_start_fails` / `StartFailureRollsBack`: as administrator, if the
  firewall rule fails after `set_static`, the adapter stays on 192.168.31.1,
  although `session.rs:35` says it has been rolled back. (The elevated path does
  roll back.)
* `flash_snapshot` / `SnapshotKept`: a restore that fails in the automatic stop
  keeps its snapshot in a session that is dropped on the way to the menu; there
  is no retry (`README.md:19`, `docs/architecture.md:43`).
* `adapter_dns` / `DnsRestored`: an adapter with its address from DHCP and DNS
  servers of its own loses the servers (`nic.rs:260`), where `README.md:18`
  promises the original configuration. `RestoreExact` states what does come back:
  every configuration but this one and those with more or less than one address.

Disagreements of less weight. For the first seven there is a configuration to run
by hand, with `tlc -config <cfg> <module>`:

* `MCFlashDone.cfg` (`MCFlashSession`), `DoneSticks`: a router that repeats its
  request is served twice; the loser's error takes back the winner's success
  (`session.rs:173`, against the comment at 175).
* `MCFlashIdle.cfg`, `AutoStopWhenSilent`: only DHCP counts as activity, so a
  session is stopped as idle while a transfer runs (`session.rs:386`, against
  `rust/README.md:98`).
* `MCFlashLeases.cfg`, `LeasesSaved`: a lease granted between the save and the
  close of the DHCP server is not in `leases.json` (`session.rs:294`, against
  `dhcp.rs:202`).
* `MCFlashUnanswered.cfg`, `CtrlCExits` without the user's help: after an
  automatic stop the renderer is gone and the watchdog disarmed, and Ctrl+C does
  nothing until the user presses Enter (`status.rs:88`).
* `MCFirmwareCut.cfg` (`MCFirmwareMenu`), `NeverCut`: Ctrl+C during a download
  ends the process by the watchdog (`menu.rs:161`), nothing removes the half
  file, and the next run may select it by itself (against `rom.rs:95`).
* `MCFirmwareUncopied.cfg`, `AlwaysServed`: if `canonicalize` fails (a RAM drive,
  some network drives), the copy of the firmware is skipped without an error or a
  warning (`session.rs:55`); where the program's directory has another image of
  the same name, that one is served (against `docs/cli-design.md:52` and
  `rust/README.md:76`). What holds is `ServesTheChoice`: the right image is
  served if `canonicalize` succeeded and the file is not in a subdirectory.
* `MCFirmwareBelow.cfg`, `AlwaysServed`: a firmware in a subdirectory of the
  program's directory is not copied (`session.rs:58`), so the router does not
  find it (against `docs/cli-design.md:52`).
* The fall-back of a REQUEST acknowledges an address that was declined
  (`dhcp.rs:608`, against `dhcp.rs:6`).
* A BOOTP packet that is not DHCP refreshes the activity time (`dhcp.rs:248`,
  against the comment above it).
* The answer to INFORM is an OFFER with ciaddr 0 where the comment says it is
  echoed (`dhcp.rs:346`, `701`).
* Transfer threads outlive `stop` by more than one timeout (`tftp.rs:170`).
* A copy of the firmware that fails deletes a file of the same name that was in
  the program's directory before (`session.rs:67`).
* An adapter that had no address, neither static nor from DHCP, keeps
  192.168.31.1 and the restore reports success (`nic.rs:266`).
* "Already DHCP" is recognised by an English and a Chinese word of netsh's text
  (`nic.rs:255`); under another language a second try of a restore fails.

## 4. Proofs

`DhcpServerProofs` proves every property of the `dhcp` run for any finite set of
clients, any pool, any addresses and any durations, from the assumptions named
in `DhcpServer` (the pool lies within the addresses a packet can name and does
not contain 0; durations are positive). The pool may contain the server's own
address.

The inductive invariant `Inv` is `TypeOK`, `UniqueAddress` and `AnswerBacked`
together. `UniqueAddress` is not inductive without `TypeOK`, which gives each
entry a shape and puts it in the pool, so that it is never mistaken for
`NoLease`. The argument is that every write to the table writes an address no
other client holds (`PutKeepsTable`), which `DiscoverShape` and `RequestShape`
establish branch by branch: a kept or renewed address is the client's own, an
allocated one was skipped if any other entry had it, and a selected one is the
client's or nobody's. `NextInv` puts the steps together. On the invariant rest:

* `TypeCorrect`, `AddressesUnique`, `AnswersBacked`, `OffersNotDeclined`;
* `OffersSticky`, from the shape of a DISCOVER;
* `PoolIsEnough`: with `TypeOK` and no declined address, the addresses the other
  clients hold number fewer than the clients, hence fewer than the pool, by
  cardinality of finite sets, so a candidate is left;
* `ServerImplementsRegistry`: initial states map to initial states of the
  registry and every step to `Take`, `Leave` or a stutter.

`FirmwareMenuProofs` proves every safety property of the `firmware_menu` run for
any files, directories, images and adapters, from `MenuAssumption` (files and
adapters are finitely many; a file of the program's directory is served under
its own path; the cloud's files are downloaded to that directory; an image is
not one of the marks for no file or a broken one). There are two inductive
invariants. The first adds four facts to `StartsAsShown`: only the file of a
running download or copy is partly written (`DiskOK`); a session has read no such
file, exists only from [3] to its end, and has a firmware that was there once
`is_file` was passed (`SessionOK`); a copy under way is of the image that was
found and goes to its name, and from the end of the copy to the end of the
session that image is what the name stands for (`StartOK`); and while the prompt
of the menu is open it shows what [3] would take (`MenuShown`). `StartOK` is
`ServesTheChoice` for the whole of a start and not inductive without `DiskOK`,
which gives the disk its shape and the copy its only writer; `StartsAsShown` is
not inductive without `MenuShown`. The lemmas `QuietSession`, `NoneLeft` and
`SameDisk` settle the actions that touch one part only, `SessionLearns`,
`BeginsToWrite` and `EndsWriting` those of a start and of a download.

The second, `ChoiceInv`, has `ChoiceKept`, that an index is a place in its list
or 0 (`ListsOK`), and the types of the rest (`StateOK`). A refresh replaces the
list under the index, so that the same number would mean another file.
`SortedFacts` proves of any finite set of paths that its sorted list exists, in
order and with every element once; `PositionFacts` that looking for an element
of a list finds it. `RefreshKeeps` and `SelectKeeps` rest on these.

* `MenuStartsAsShown`: a conjunct of the first invariant;
* `MenuServesTheChoice`: from `StartOK`;
* `MenuServesNoPart`: from `SessionOK`, as no image is the mark of a part;
* `MenuTypeOK`, `MenuKeepsTheChoice`: from the second.

`TftpServerProofs` proves the safety properties of the `tftp_wrap` and
`tftp_reorder` runs for any number of sessions, blocks and retries, any capacity
of the queues and any modulus of the block numbers, under one condition,
`NumbersTell`: the network keeps the order, or the file has fewer blocks than
there are numbers. It cannot be dropped: with `Reorder` and as many blocks as
numbers (4 and 4) TLC finds `InOrder` and `SuccessMeansDelivered` violated,
because an old datagram has the number of a new one. Each of the two runs meets
it in its own way. A firmware of more than 65535 blocks is covered as long as
the order is kept, whatever is lost or repeated.

The properties say nothing of the datagrams under way, and are not inductive.
`Inv` adds that a DATA in the queue is not ahead of its session and, in order,
not older than what the client has (`DownOK`); that an acknowledgement is for
something that arrived and, in order, not older than the block before the
session's (`UpOK`); and the states of session and client that go together
(`SessionsOK`, `ClientOK`). The steps that compare numbers rest on
`ModDistinct`: two blocks less than a turn apart with the same number are the
same block. The lemmas on `Append`, `Tail` and `RemoveAt` carry the queues
through each step.

* `PrefixKept`, `SuccessTrue`, `PeerInStep`, `TypesKept`: from the invariant;
* `TransferDelivers`: the refinement of `FileDelivery`; a step of the client
  that takes a block is `Arrive`, the session's reading of the last
  acknowledgement `Report`, and everything else a stutter.

`FlashSessionProofs` proves every safety property of the `flash` and
`flash_callbacks` runs, for any number of sessions, of transfer threads, of
remotes and of lease changes, either mode of rights, with and without faults.
For each place of the main thread and of a stop, `Inv` says where the other
threads can be (`StopOK`, `PlaceOK`), which servers run (`ServersOK`), what is
still to be restored (`RestoreOK`), what the adapter, the firewall and the child
are where nothing fails (`CleanOK`), which transfers can still call back
(`LateOK`) and how many stops a session has left, which bounds the epoch
(`EpochOK`). None of the properties is inductive: that the adapter is
clean at rest depends on every place a session passes through before.

* `LeavesClean`, `TriesRestore`, `ShowsNothingStale`, `BannerTrue`,
  `WatchesRunning`, `TypesKept`: from the invariant;
* `RestoresOnce`, an action property: a restore is a step of a stop that found
  the session running, and with `RestoreOK` such a stop happens once.

`AdapterRestoreProofs` proves the properties of the `adapter_restore` run for
any addresses, gateways and name servers, from `AdapterAssumption` (the flash's
address and the mark for none are not addresses of the user's). `Inv` says, of
the command that is next, what those before it have brought back (`Left`, by
the kind of the snapshot); a first command replaces whatever earlier tries left,
so nothing need be known of these.

* `Restores`, `TypesKept`: from the invariant;
* `FailureBlamed`: a command that fails without blame would be "set DHCP" on an
  adapter that has it, which the code takes for success (`Ignored`); the property is
  inductive by itself.

`DhcpNetworkProofs` proves the properties of the `dhcp_network` run for any
finite set of clients, any pool, any queue and any number of sessions, from
`ServerAssumption`: what `DhcpServer` assumes, and that an offer lasts no longer
than a lease. `Inv` adds to the types:

* no address is twice in the table, nor in the file (`Unique`);
* the table, or between two sessions the file, has the address of every client
  that uses one, for at least as long (`Backed`);
* nothing lasts longer than a lease from now (`TimesOK`), so that a renewal
  outlasts what the client counts from its request;
* what each client's state allows in the socket's queue (`QueueOK`). This is
  what makes `Backed` inductive: a client with a lease has nothing there but
  requests for its own address, so no late DISCOVER or RELEASE of its own can
  cut or drop the entry. To get there, the datagrams of a client's present
  exchange come last, and its requests after its discovers.

The clients in `doubtful` are excepted from the last two, as in the properties.

* `NoAddressShared`: two clients are backed by one table or one file;
* `BeliefsBacked`, `TypesKept`: from the invariant;
* `SeedsGood`, an action property, from what the file has. That a session takes
  all records that still run (`AllKept`) is by cardinality: they have different
  addresses of the pool. Without it a client could lose its entry at a start;
* `ServesAsServer`: every step of the listener is a step of `DhcpServer`
  (`HandleSteps`, branch by branch; `AnsweringFacts` for the addresses that
  answer the probe). So what `DhcpServer` promises of its answers is promised
  to the clients of the composition, with a table that comes from the file and
  whatever the network does: `StickyAcrossSessions`, `BackedAcrossSessions` and
  `DeclinedNotOffered` state `StickyOffer`, `AnswerBacked` and
  `OfferNeverDeclined` of it. No run checks these three in the composition,
  whose view leaves the last packet out.

`SessionThreadsProofs` proves the safety properties of the `session_threads`
run. There are no constants to generalise, and the run covers all states; what
the proof adds is the reason, which survives a change of the threads' programs
that respects it. A list of operations is a *path* (`Path`) of a thread, from
one set of mutexes held and threads waited for to another, if each operation is
allowed with what the thread then has (`May`): above all, it waits only for what
ranks higher (`Limit`) than every mutex it holds (`Rank`). The ranks are

> end of the renderer < session < end of a server < leases < bad < warning < the rest < state.

Every program the threads are given is a path (from `PathCat` and the shorter
paths it consists of), and a step takes the first operation off a path and
leaves one (`PathHead`). The invariant `Inv` is that every thread is on a path
to nothing from the mutexes it is marked as the holder of, and from servers and
a renderer that have ended. None of the three properties is inductive by itself.

* `MutexesReleased`: a path to nothing releases what it holds (`PathReleases`,
  `PathGivesBack`);
* `RestoresWhenQuiet`: a restore is allowed only with both servers waited for,
  and one that was waited for is not started before the restore;
* `NeverDeadlocked`: in a circle, the thread that waits for the highest rank
  would wait for one that waits for something higher still (`WaitsUpwards`).

What stays with TLC: liveness (`SessionsEnd`, `CtrlCExits`, `CtrlCEndsMenu`,
`StopEnds`), as the prover has no rule for fairness and ENABLED, and the three
runs that find a violation. Every other property of a run has a theorem.

## 5. Not modelled

Text: packet and option layout, relay routing, option values, command lines,
JSON, drawing, the levels and files of the log. Windows calls: the walk through
the adapters' structure, ARP and ICMP, UAC itself. `wrq` in `tftp.rs` cannot be
reached. Time spent in a probe. The fetching of the ROM list. The self test, the
help and the archived C# program. A closed console window ends the process
without a restore; nothing in the program deals with it, so there is nothing to
check.

## 6. Plan

The modules of section 2 and the proofs of section 4 are complete. When the code
changes, the definitions whose lines change are found by `map` in `PROJECT.json`.
What could be added: the parts of section 5 that keep state (the fetched ROM
list, the log's file), an adapter in `FirmwareMenu`, with which a watchdog that
exits late would be covered (`menu.rs:160`), and clients that ask anew while they
use a lease. The other hazards that `PROJECT.json` lists without a property are
those where the repository makes no promise that a property could state, or
where what goes wrong is described above.
