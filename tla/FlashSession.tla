----------------------------- MODULE FlashSession -----------------------------
(***************************************************************************)
(* A flash session of the application: crates/app/src/session.rs, the      *)
(* threads of status.rs and menu.rs, and the elevated child of main.rs.    *)
(*                                                                         *)
(*   main       shows the menu, starts a session, reads the user's input   *)
(*   renderer   watches Ctrl+C and the idle time while a session runs      *)
(*   watchdog   ends the process on Ctrl+C while the menu is shown         *)
(*   DHCP       one thread, joined by the server's stop                    *)
(*   TFTP       one thread per transfer, never joined; it calls back       *)
(*   child      runs netsh with administrator rights, killed after 60 s    *)
(*                                                                         *)
(* The session's mutex is held from the first to the last step of a stop:  *)
(* "stop" is that step, and a thread that needs the mutex waits for        *)
(* NoStop.  The servers are reduced to what the session sees of them.      *)
(*                                                                         *)
(* Before some definitions stands a form of them with a mistake in it,     *)
(* which no other definition uses: it shows that a property would catch    *)
(* the mistake.                                                            *)
(***************************************************************************)
EXTENDS Naturals

CONSTANTS AdminModes,  \* whether the process may run as administrator
          FaultModes,  \* whether netsh, UAC, saving or binding a port may fail
          MaxStarts,   \* sessions started, at most
          IdleLimit,   \* IDLE_AUTO_STOP_SECS, in ticks
          MaxGrants,   \* changes of the lease table, at most
          Transfers,   \* TFTP threads that exist at the same time
          Remotes      \* addresses the requests come from

ASSUME FlashAssumption == /\ AdminModes \subseteq BOOLEAN
                          /\ FaultModes \subseteq BOOLEAN
                          /\ MaxStarts \in Nat
                          /\ IdleLimit \in Nat \ {0}
                          /\ MaxGrants \in Nat

VARIABLES
    admin,     \* nic::is_admin()
    faulty,    \* what the operating system is asked to do may fail
    main,      \* [pc, line]: where the main thread is, the line it read
    renderer,  \* where the renderer is
    ctrlC,     \* the CTRL_C flag
    menuOn,    \* menu_active, which arms the watchdog
    exited,    \* the process ended
    nic,       \* the adapter's configuration: the user's own, or for flashing
    rule,      \* the firewall rule exists
    menuNic,   \* the configuration the menu enumerated last
    ses,       \* the Session
    st,        \* the CliState shared by all threads
    stop,      \* the stop in progress, holding the session's mutex
    child,     \* the elevated child process
    idle,      \* ticks since the last DHCP packet, or since the start
    heard,     \* a DHCP packet arrived in this session
    transfer,  \* transfer[t]: a TFTP thread
    granted,   \* version of the DHCP server's lease table
    saved,     \* version of the table in leases.json
    starts,    \* sessions started
    dirty,     \* history: a session ran and no restore was tried since
    silent     \* history: ticks since the device was heard of by any server

modes == <<admin, faulty>>
control == <<main, renderer, ctrlC, menuOn, exited>>
network == <<nic, rule, child>>
servers == <<idle, heard, transfer, granted, silent>>
vars == <<modes, control, network, servers, menuNic, ses, st, stop, saved,
          starts, dirty>>

-----------------------------------------------------------------------------

Own == "own"
Flash == "flash"
None == "none"
NoStop == [by |-> None, at |-> None, restore |-> FALSE, then |-> None]
NoChild == [at |-> None, snap |-> None]
NoSession == [snapshot |-> None, dhcp |-> FALSE, tftp |-> FALSE,
              auto |-> FALSE, epoch |-> 0]
Off == [on |-> FALSE, epoch |-> 0, remote |-> None]
NoTransfer == [remote |-> None, done |-> FALSE, ok |-> FALSE]

MutexFree == stop = NoStop

At(pc) == main' = [pc |-> pc, line |-> None]

\* Mistake: the renderer stops the servers only.
BeginStopBare(by, restore, then) ==
    stop' = [by |-> by, at |-> "save", restore |-> restore /\ by = "main",
             then |-> then]

\* stop(restore) begins, called by a thread that goes on at "then".
BeginStop(by, restore, then) ==
    stop' = [by |-> by, at |-> "save", restore |-> restore, then |-> then]

-----------------------------------------------------------------------------
(* start_session, step by step.  A failure stops without a restore.        *)

FailStart ==
    /\ BeginStop("main", FALSE, "menu")
    /\ At("stopping")

\* [3] of the menu: the watchdog is disarmed; the session gets a new epoch
\* and, as its snapshot, the adapter as the menu saw it last.
StartSession ==
    /\ main.pc = "menu" /\ starts < MaxStarts
    /\ At("dhcp")
    /\ menuOn' = FALSE
    /\ starts' = starts + 1
    /\ ses' = [NoSession EXCEPT !.snapshot = menuNic, !.epoch = st.epoch + 1]
    /\ st' = [st EXCEPT !.epoch = @ + 1]
    /\ granted' = saved
    /\ heard' = FALSE
    /\ UNCHANGED <<modes, renderer, ctrlC, exited, network, idle, transfer,
                   silent, menuNic, stop, saved, dirty>>

StartDhcp ==
    /\ main.pc = "dhcp"
    /\ \/ ses' = [ses EXCEPT !.dhcp = TRUE] /\ At("tftp") /\ UNCHANGED stop
       \/ faulty /\ FailStart /\ UNCHANGED ses
    /\ UNCHANGED <<modes, renderer, ctrlC, menuOn, exited, network, servers,
                   menuNic, st, saved, starts, dirty>>

StartTftp ==
    /\ main.pc = "tftp"
    /\ \/ ses' = [ses EXCEPT !.tftp = TRUE] /\ At("nic") /\ UNCHANGED stop
       \/ faulty /\ FailStart /\ UNCHANGED ses
    /\ UNCHANGED <<modes, renderer, ctrlC, menuOn, exited, network, servers,
                   menuNic, st, saved, starts, dirty>>

\* As administrator: set_static, then the firewall rule.  A netsh that fails,
\* or is killed after 30 seconds, may have taken effect.
SetStatic ==
    /\ main.pc = "nic" /\ admin
    /\ \/ nic' = Flash /\ At("rule") /\ UNCHANGED stop
       \/ faulty /\ FailStart /\ nic' \in {nic, Flash}
    /\ UNCHANGED <<modes, renderer, ctrlC, menuOn, exited, rule, child,
                   servers, menuNic, ses, st, saved, starts, dirty>>

AddRule ==
    /\ main.pc = "rule"
    /\ \/ rule' = TRUE /\ At("started") /\ UNCHANGED stop
       \/ faulty /\ FailStart /\ rule' \in {rule, TRUE}
    /\ UNCHANGED <<modes, renderer, ctrlC, menuOn, exited, nic, child,
                   servers, menuNic, ses, st, saved, starts, dirty>>

\* Otherwise: run_elevated("set").  The child takes a snapshot of its own.
Elevate ==
    /\ main.pc = "nic" /\ ~admin
    /\ \/ /\ child' = [at |-> "set", snap |-> nic]
          /\ At("elevated") /\ UNCHANGED stop
       \/ faulty /\ FailStart /\ UNCHANGED child    \* UAC refused
    /\ UNCHANGED <<modes, renderer, ctrlC, menuOn, exited, nic, rule, servers,
                   menuNic, ses, st, saved, starts, dirty>>

\* The child ended, or is killed after 60 seconds.
ElevatedDone ==
    /\ main.pc = "elevated"
    /\ \/ child.at = "ok" /\ At("started") /\ UNCHANGED stop
       \/ child.at = "err" /\ FailStart
       \/ faulty /\ child.at \notin {"ok", "err"} /\ FailStart
    /\ child' = NoChild
    /\ UNCHANGED <<modes, renderer, ctrlC, menuOn, exited, nic, rule, servers,
                   menuNic, ses, st, saved, starts, dirty>>

\* The services run: the renderer is started and the input loop entered.
Started ==
    /\ main.pc = "started"
    /\ st' = [st EXCEPT !.running = TRUE]
    /\ idle' = IF heard THEN idle ELSE 0
    /\ renderer' = "top"
    /\ dirty' = TRUE
    /\ At("view")
    /\ UNCHANGED <<modes, ctrlC, menuOn, exited, network, heard, transfer,
                   granted, silent, menuNic, ses, stop, saved, starts>>

Starting == \/ StartDhcp \/ StartTftp \/ SetStatic \/ AddRule
            \/ Elevate \/ ElevatedDone \/ Started

-----------------------------------------------------------------------------
(* The elevated child, main.rs.                                            *)

\* restore_parts sets the address, then the name servers: it may fail before
\* or after the address took effect.
Restored(from, to) == IF faulty THEN {from, to} ELSE {to}

ChildSet ==
    /\ child.at = "set"
    /\ \/ nic' = Flash /\ child' = [child EXCEPT !.at = "rule"]
       \/ faulty /\ child' = [child EXCEPT !.at = "undo"] /\ nic' \in {nic, Flash}
    /\ UNCHANGED rule

ChildRule ==
    /\ child.at = "rule"
    /\ \/ rule' = TRUE /\ child' = [child EXCEPT !.at = "ok"]
       \/ faulty /\ child' = [child EXCEPT !.at = "undo"] /\ rule' \in {rule, TRUE}
    /\ UNCHANGED nic

\* A failed "set" restores the child's snapshot as best it can.
ChildUndo ==
    /\ child.at = "undo"
    /\ nic' \in Restored(nic, child.snap)
    /\ child' = [child EXCEPT !.at = "err"]
    /\ UNCHANGED rule

ChildRestore ==
    /\ child.at = "restore"
    /\ \/ nic' = child.snap /\ child' = [child EXCEPT !.at = "unrule"]
       \/ /\ faulty
          /\ nic' \in Restored(nic, child.snap)
          /\ child' = [child EXCEPT !.at = "err"]
    /\ UNCHANGED rule

\* netsh also fails if there is no rule to delete.
ChildUnrule ==
    /\ child.at = "unrule"
    /\ \/ rule /\ rule' = FALSE /\ child' = [child EXCEPT !.at = "ok"]
       \/ ~rule /\ child' = [child EXCEPT !.at = "err"] /\ UNCHANGED rule
       \/ faulty /\ child' = [child EXCEPT !.at = "err"] /\ UNCHANGED rule
    /\ UNCHANGED nic

ChildStep ==
    /\ ChildSet \/ ChildRule \/ ChildUndo \/ ChildRestore \/ ChildUnrule
    /\ UNCHANGED <<modes, control, servers, menuNic, ses, st, stop, saved,
                   starts, dirty>>

-----------------------------------------------------------------------------
(* Session::stop, step by step under the session's mutex.                  *)

\* The lease table is written to leases.json while both servers still run.
StopSave ==
    /\ stop.at = "save"
    /\ \/ ses.dhcp /\ saved' = granted
       \/ (faulty \/ ~ses.dhcp) /\ UNCHANGED saved
    /\ stop' = [stop EXCEPT !.at = "servers"]
    /\ UNCHANGED <<network, ses, st, dirty>>

RestoresAlways == stop.restore   \* mistake

\* The adapter is restored once: the snapshot goes with the restore.
Restores == stop.restore /\ ses.snapshot # None

WithoutSnapshotKept == ses   \* mistake
WithoutSnapshot == [ses EXCEPT !.snapshot = None]

\* Both listeners are closed and joined.
StopServers ==
    /\ stop.at = "servers"
    /\ ses' = [ses EXCEPT !.tftp = FALSE, !.dhcp = FALSE]
    /\ stop' = [stop EXCEPT !.at = IF Restores THEN "restore" ELSE "reset"]
    /\ UNCHANGED <<network, st, saved, dirty>>

\* As administrator: delete the rule, whatever comes of it, and restore.
\* A snapshot that could not be restored is kept.
StopRestore ==
    /\ stop.at = "restore" /\ admin
    /\ rule' \in IF faulty THEN {FALSE, rule} ELSE {FALSE}
    /\ \/ nic' = ses.snapshot /\ ses' = WithoutSnapshot
       \/ faulty /\ nic' \in Restored(nic, ses.snapshot) /\ UNCHANGED ses
    /\ stop' = [stop EXCEPT !.at = "reset"]
    /\ dirty' = FALSE
    /\ UNCHANGED <<child, st, saved>>

\* Otherwise: run_elevated("restore").
StopElevate ==
    /\ stop.at = "restore" /\ ~admin
    /\ \/ /\ child' = [at |-> "restore", snap |-> ses.snapshot]
          /\ stop' = [stop EXCEPT !.at = "elevated"]
       \/ /\ faulty   \* UAC refused
          /\ stop' = [stop EXCEPT !.at = "reset"]
          /\ UNCHANGED child
    /\ dirty' = FALSE
    /\ UNCHANGED <<nic, rule, ses, st, saved>>

StopElevated ==
    /\ stop.at = "elevated"
    /\ \/ child.at = "ok" /\ ses' = WithoutSnapshot
       \/ child.at = "err" /\ UNCHANGED ses
       \/ faulty /\ child.at \notin {"ok", "err"} /\ UNCHANGED ses
    /\ child' = NoChild
    /\ stop' = [stop EXCEPT !.at = "reset"]
    /\ UNCHANGED <<nic, rule, st, saved, dirty>>

\* Mistakes: the flag, or the epoch, is left as it is.
ClearedRunning == [st EXCEPT !.device = FALSE, !.transfer = NoTransfer,
                             !.done = FALSE, !.epoch = @ + 1]
ClearedEpoch == [st EXCEPT !.running = FALSE, !.device = FALSE,
                           !.transfer = NoTransfer, !.done = FALSE]

\* What stop leaves in the shared state: nothing of this session, and an
\* epoch that its threads' late callbacks do not have.
Cleared == [st EXCEPT !.running = FALSE, !.device = FALSE,
                      !.transfer = NoTransfer, !.done = FALSE,
                      !.epoch = @ + 1]

\* The last step; the mutex is released and the caller goes on.  A session
\* that failed to start is dropped.
StopReset ==
    /\ stop.at = "reset"
    /\ st' = Cleared
    /\ stop' = NoStop
    /\ ses' = IF stop.then = "menu" THEN NoSession ELSE ses
    /\ UNCHANGED <<network, saved, dirty>>

\* Where the caller of stop goes on: a failed start back in the menu, the
\* main thread to the join, the renderer to its end or to exit(0).
Return ==
    \/ /\ stop.then = "menu" /\ At("top") /\ menuOn' = TRUE
       /\ UNCHANGED <<renderer, ctrlC, exited>>
    \/ /\ stop.then \in {"join", "quit"} /\ At(stop.then)
       /\ UNCHANGED <<renderer, ctrlC, menuOn, exited>>
    \/ /\ stop.then = "gone" /\ renderer' = "gone"
       /\ UNCHANGED <<main, ctrlC, menuOn, exited>>
    \/ /\ stop.then = "exit" /\ renderer' = "gone" /\ exited' = TRUE
       /\ UNCHANGED <<main, ctrlC, menuOn>>

StopStep ==
    /\ \/ /\ \/ StopSave \/ StopServers \/ StopRestore \/ StopElevate
             \/ StopElevated
          /\ UNCHANGED control
       \/ StopReset /\ Return
    /\ UNCHANGED <<modes, servers, menuNic, starts>>

-----------------------------------------------------------------------------
(* The renderer, status.rs.                                                *)

\* Mistake: Ctrl+C is left to the main thread.
RenderTopDeaf == renderer = "top" /\ renderer' = "tick" /\ UNCHANGED <<ses, stop>>

\* Ctrl+C is looked at before the mutex is taken.
RenderTop ==
    /\ renderer = "top"
    /\ \/ ctrlC /\ MutexFree /\ BeginStop("renderer", TRUE, "exit")
                /\ renderer' = "stopping"
       \/ ~ctrlC /\ renderer' = "tick" /\ UNCHANGED stop
    /\ UNCHANGED ses

\* tick_connection stops the session once when the idle time is over.
AutoStops == st.running /\ ses.dhcp /\ idle >= IdleLimit /\ ~ses.auto

RenderTick ==
    /\ renderer = "tick" /\ MutexFree
    /\ \/ /\ AutoStops
          /\ ses' = [ses EXCEPT !.auto = TRUE]
          /\ BeginStop("renderer", TRUE, "gone")
          /\ renderer' = "stopping"
       \/ /\ ~AutoStops
          /\ renderer' = IF st.running THEN "top" ELSE "gone"
          /\ UNCHANGED <<ses, stop>>

RenderStep ==
    /\ RenderTop \/ RenderTick
    /\ UNCHANGED <<modes, main, ctrlC, menuOn, exited, network, servers,
                   menuNic, st, saved, starts, dirty>>

-----------------------------------------------------------------------------
(* The main thread: the menu and the input loop of run_status_view.        *)

\* The menu ends the process on Ctrl+C, or enumerates the adapters, which
\* may fail and leave it with what it knew, and waits for a line.
MenuTop ==
    /\ main.pc = "top"
    /\ \/ ctrlC /\ exited' = TRUE /\ UNCHANGED <<main, menuNic>>
       \/ ~ctrlC /\ At("menu") /\ menuNic' \in {nic, menuNic} /\ UNCHANGED exited
    /\ UNCHANGED <<renderer, menuOn, ses, stop, ctrlC>>

\* [0] or the end of the input.
MenuQuit == /\ main.pc = "menu" /\ exited' = TRUE
            /\ UNCHANGED <<main, renderer, menuOn, menuNic, ses, stop, ctrlC>>

\* The menu's other choices, and a start refused before it changed anything.
MenuOther == /\ main.pc = "menu" /\ At("top")
             /\ UNCHANGED <<renderer, menuOn, exited, menuNic, ses, stop, ctrlC>>

ViewTop ==
    /\ main.pc = "view"
    /\ \/ ctrlC /\ At("join")
       \/ ~ctrlC /\ MutexFree /\ At(IF st.running THEN "read" ELSE "join")
    /\ UNCHANGED <<renderer, menuOn, exited, menuNic, ses, stop, ctrlC>>

Lines == {"enter", "1", "2", "0", "eof"}

\* A line is read, for the panel or for the action menu that Enter opens.
ReadLine ==
    /\ \/ /\ main.pc = "read"
          /\ \E l \in Lines : main' = [pc |-> "panel", line |-> l]
       \/ /\ main.pc = "menu2"
          /\ \E l \in Lines : main' = [pc |-> "act", line |-> l]
    /\ UNCHANGED <<renderer, menuOn, exited, menuNic, ses, stop, ctrlC>>

\* At the end of the input the session is stopped whether or not it runs;
\* otherwise a session that stopped meanwhile ends the loop.
Panel ==
    /\ main.pc = "panel" /\ MutexFree
    /\ \/ /\ main.line = "eof"
          /\ BeginStop("main", TRUE, "join") /\ At("stopping")
       \/ /\ main.line # "eof" /\ ~st.running
          /\ At("join") /\ UNCHANGED stop
       \/ /\ main.line = "enter" /\ st.running
          /\ At("menu2") /\ UNCHANGED stop
       \/ /\ main.line \notin {"enter", "eof"} /\ st.running
          /\ main' = [main EXCEPT !.pc = "act"] /\ UNCHANGED stop
    /\ UNCHANGED <<renderer, menuOn, exited, menuNic, ses, ctrlC>>

\* The chosen action; whether the session still runs is not looked at.
Act ==
    /\ main.pc = "act"
    /\ \/ /\ main.line \in {"1", "0"} /\ MutexFree /\ At("stopping")
          /\ BeginStop("main", TRUE, IF main.line = "1" THEN "join" ELSE "quit")
       \/ /\ main.line \notin {"1", "0"} /\ At("view") /\ UNCHANGED stop
    /\ UNCHANGED <<renderer, menuOn, exited, menuNic, ses, ctrlC>>

\* [0] raises Ctrl+C itself, after the stop.
Quit == /\ main.pc = "quit" /\ ctrlC' = TRUE /\ At("join")
        /\ UNCHANGED <<renderer, menuOn, exited, menuNic, ses, stop>>

\* The renderer is joined and the session dropped, its snapshot with it;
\* the menu is shown again, or the process ends.
Join ==
    /\ main.pc = "join" /\ renderer = "gone"
    /\ renderer' = "off"
    /\ ses' = NoSession
    /\ \/ ctrlC /\ exited' = TRUE /\ UNCHANGED <<main, menuOn>>
       \/ ~ctrlC /\ At("top") /\ menuOn' = TRUE /\ UNCHANGED exited
    /\ UNCHANGED <<menuNic, stop, ctrlC>>

MainStep ==
    /\ MenuTop \/ ViewTop \/ Panel \/ Act \/ Quit \/ Join
    /\ UNCHANGED <<modes, network, servers, st, saved, starts, dirty>>

UserLine ==
    /\ MenuQuit \/ MenuOther \/ ReadLine
    /\ UNCHANGED <<modes, network, servers, st, saved, starts, dirty>>

\* The console's control handler.
PressCtrlC ==
    /\ ~ctrlC /\ ctrlC' = TRUE
    /\ UNCHANGED <<modes, main, renderer, menuOn, exited, network, servers,
                   menuNic, ses, st, stop, saved, starts, dirty>>

\* Mistake: the watchdog is not disarmed while a session runs.
WatchdogArmed ==
    /\ ctrlC /\ exited' = TRUE
    /\ UNCHANGED <<modes, main, renderer, ctrlC, menuOn, network, servers,
                   menuNic, ses, st, stop, saved, starts, dirty>>

\* The menu's watchdog; it looks at both flags and exits in one step.
Watchdog ==
    /\ ctrlC /\ menuOn /\ exited' = TRUE
    /\ UNCHANGED <<modes, main, renderer, ctrlC, menuOn, network, servers,
                   menuNic, ses, st, stop, saved, starts, dirty>>

-----------------------------------------------------------------------------
(* The servers' threads, as far as the session sees them.                  *)

\* A packet reaches the DHCP thread; it may change the lease table, and the
\* callback then records the device.
DhcpPacket ==
    /\ ses.dhcp
    /\ idle' = 0 /\ heard' = TRUE /\ silent' = 0
    /\ \/ UNCHANGED <<granted, st>>
       \/ /\ granted < MaxGrants
          /\ granted' = granted + 1
          /\ st' = [st EXCEPT !.device = TRUE]
    /\ UNCHANGED transfer

\* A read request starts a transfer, whose callback carries the epoch of the
\* session that set it.
Request(t) ==
    /\ ses.tftp /\ ~transfer[t].on
    /\ \E r \in Remotes : transfer' = [transfer EXCEPT ![t] =
                              [on |-> TRUE, epoch |-> ses.epoch, remote |-> r]]
    /\ silent' = 0
    /\ UNCHANGED <<st, idle, heard, granted>>

\* The callback drops what an earlier session's thread reports.
Current(t) == transfer[t].epoch = st.epoch

Snapshot(t, done, ok) ==
    [remote |-> transfer[t].remote, done |-> done, ok |-> ok]

AnotherRemote(t) == /\ st.transfer # NoTransfer   \* mistake
                    /\ st.transfer.remote # transfer[t].remote

\* Progress takes a success reported before back if it is another round's.
AnotherRound(t) == /\ st.transfer # NoTransfer
                   /\ \/ st.transfer.done
                      \/ st.transfer.remote # transfer[t].remote

Progress(t) ==
    /\ transfer[t].on
    /\ st' = IF Current(t)
             THEN [st EXCEPT !.transfer = Snapshot(t, FALSE, FALSE),
                             !.done = @ /\ ~AnotherRound(t)]
             ELSE st
    /\ silent' = 0
    /\ UNCHANGED <<transfer, idle, heard, granted>>

\* The end of a transfer, with or without an error, decides.
Finish(t) ==
    /\ transfer[t].on
    /\ transfer' = [transfer EXCEPT ![t] = Off]
    /\ \E ok \in BOOLEAN :
          st' = IF Current(t)
                THEN [st EXCEPT !.transfer = Snapshot(t, TRUE, ok), !.done = ok]
                ELSE st
    /\ UNCHANGED <<idle, heard, granted, silent>>

\* Time passes.
Tick == /\ ses.dhcp /\ idle < IdleLimit
        /\ idle' = idle + 1
        /\ silent' = IF silent < IdleLimit THEN silent + 1 ELSE silent
        /\ UNCHANGED <<st, heard, transfer, granted>>

ServerStep ==
    /\ \/ DhcpPacket \/ Tick
       \/ \E t \in Transfers : Request(t) \/ Progress(t) \/ Finish(t)
    /\ UNCHANGED <<modes, control, network, menuNic, ses, stop, saved, starts,
                   dirty>>

-----------------------------------------------------------------------------

Init == /\ admin \in AdminModes
        /\ faulty \in FaultModes
        /\ main = [pc |-> "top", line |-> None]
        /\ renderer = "off"
        /\ ctrlC = FALSE /\ menuOn = TRUE /\ exited = FALSE
        /\ nic = Own /\ rule = FALSE /\ child = NoChild /\ menuNic = Own
        /\ ses = NoSession /\ stop = NoStop
        /\ st = [running |-> FALSE, device |-> FALSE, transfer |-> NoTransfer,
                 done |-> FALSE, epoch |-> 0]
        /\ idle = 0 /\ heard = FALSE /\ silent = 0
        /\ transfer = [t \in Transfers |-> Off]
        /\ granted = 0 /\ saved = 0 /\ starts = 0 /\ dirty = FALSE

\* Nothing runs once the process has ended.
Next == \/ ~exited /\ StartSession
        \/ ~exited /\ Starting
        \/ ~exited /\ MainStep
        \/ ~exited /\ UserLine
        \/ ~exited /\ RenderStep
        \/ ~exited /\ StopStep
        \/ ~exited /\ ServerStep
        \/ ~exited /\ PressCtrlC
        \/ ~exited /\ Watchdog
        \/ ~exited /\ ChildStep

Spec == Init /\ [][Next]_vars

\* Every thread of the program goes on while it can, and so does netsh; the
\* user, the device and the clock owe nothing.
FairSpec == Spec /\ WF_vars(~exited /\ Starting) /\ WF_vars(~exited /\ MainStep)
                 /\ WF_vars(~exited /\ RenderStep) /\ WF_vars(~exited /\ StopStep)
                 /\ WF_vars(~exited /\ Watchdog) /\ WF_vars(~exited /\ ChildStep)

\* The user answers what the session's screens ask.
Answered == main.pc \in {"read", "menu2"} /\ ~exited /\ UserLine
UserSpec == FairSpec /\ WF_vars(Answered)

-----------------------------------------------------------------------------
(* Properties.                                                             *)

Confs == {Own, Flash}
Epochs == 0 .. (6 * MaxStarts)

TypeOK ==
    /\ admin \in BOOLEAN /\ faulty \in BOOLEAN
    /\ ctrlC \in BOOLEAN /\ menuOn \in BOOLEAN
    /\ exited \in BOOLEAN /\ rule \in BOOLEAN /\ heard \in BOOLEAN
    /\ dirty \in BOOLEAN
    /\ main \in [pc : {"top", "menu", "dhcp", "tftp", "nic", "rule",
                       "elevated", "started", "view", "read", "panel",
                       "menu2", "act", "stopping", "quit", "join"},
                 line : Lines \cup {None}]
    /\ renderer \in {"off", "top", "tick", "stopping", "gone"}
    /\ nic \in Confs /\ menuNic \in Confs
    /\ ses \in [snapshot : Confs \cup {None}, dhcp : BOOLEAN, tftp : BOOLEAN,
                auto : BOOLEAN, epoch : Epochs]
    /\ st \in [running : BOOLEAN, device : BOOLEAN, done : BOOLEAN,
               transfer : [remote : Remotes \cup {None}, done : BOOLEAN,
                           ok : BOOLEAN],
               epoch : Epochs]
    /\ stop \in [by : {"main", "renderer", None}, restore : BOOLEAN,
                 at : {"save", "servers", "restore", "elevated", "reset", None},
                 then : {"menu", "join", "quit", "gone", "exit", None}]
    /\ child \in [at : {"set", "rule", "undo", "restore", "unrule", "ok",
                        "err", None},
                  snap : Confs \cup {None}]
    /\ transfer \in [Transfers -> [on : BOOLEAN, epoch : Epochs,
                                   remote : Remotes \cup {None}]]
    /\ idle \in 0 .. IdleLimit /\ silent \in 0 .. IdleLimit
    /\ granted \in 0 .. MaxGrants /\ saved \in 0 .. MaxGrants
    /\ starts \in 0 .. MaxStarts

\* The program is where no session is in progress.
AtRest == exited \/ main.pc \in {"top", "menu"}

\* Where nothing can fail, the process never ends, and the menu never returns,
\* with the adapter or the firewall changed: not by way of Ctrl+C at any
\* step of a start or stop, of the watchdog, of a stop by both threads, of
\* the end of the input or of an automatic stop.
CleanAtRest == AtRest /\ ~faulty => nic = Own /\ ~rule

\* Whatever fails, a session that ran does not end without a restore having
\* been tried.
RestoreTried == AtRest => ~dirty

\* Where nothing can fail, a session's adapter is restored, and the user asked for
\* administrator rights, at most once, however often the session is stopped.
RestoreOnce == [][ (StopRestore \/ StopElevate) => dirty \/ faulty ]_vars

\* Nothing of an earlier session shows in the menu or while the next session
\* starts: the threads of its transfers may still be running, and their
\* callbacks come in at any time.
NothingStale ==
    main.pc \in {"top", "menu", "dhcp", "tftp"} =>
        /\ ~st.running
        /\ st.transfer = NoTransfer
        /\ ~st.done
        /\ main.pc # "tftp" => ~st.device

\* The banner announces a finished flash exactly while the transfer shown is
\* one that ended well.
BannerMatchesTransfer == st.done <=> (st.transfer.done /\ st.transfer.ok)

\* While a session is shown as running and no stop is in progress, both
\* servers run and the renderer watches over them.
RunningIsWatched ==
    st.running /\ MutexFree =>
        /\ ses.dhcp /\ ses.tftp
        /\ renderer \in {"top", "tick"}

\* Ctrl+C ends the process, whatever the threads are doing, if the user
\* answers the prompt the main thread is blocked in.
CtrlCExits == ctrlC ~> exited

-----------------------------------------------------------------------------
(* What the repository says of the session and the program does not do.    *)

\* session.rs, start_session: on failure the adapter has been rolled back.
StartFailureRollsBack ==
    AtRest /\ starts > 0 => nic = Own

\* README.md:19 and architecture.md:43: the snapshot of a session whose
\* adapter could not be restored is kept for another try.
SnapshotKept ==
    [][ renderer = "gone" /\ ses.snapshot # None /\ ses'.snapshot = None
        => nic = ses.snapshot ]_vars

\* cli.rs, transfer_done: whether the flash has finished; only the start of a
\* new round takes it back (session.rs, the transfer callback).
DoneSticks ==
    [][ st.done /\ st.running /\ st'.running /\ ~st'.done
        => ~st'.transfer.done ]_vars

\* rust/README.md:98 and the message of tick_connection: the automatic stop
\* follows five minutes without activity of the device.
AutoStopWhenSilent ==
    [][ ~ses.auto /\ ses'.auto => silent >= IdleLimit ]_vars

\* dhcp.rs, seed_leases: an address lasts across sessions, so what the server
\* granted must have been saved when the session is over.
LeasesSaved == AtRest => saved = granted

=============================================================================
