-------------------------- MODULE FlashSessionProofs --------------------------
(***************************************************************************)
(* Proofs about FlashSession, for every number of sessions, of transfers   *)
(* and of remotes, every idle limit, with and without administrator        *)
(* rights and faults.                                                      *)
(*                                                                         *)
(* The inductive invariant Inv names, for each place of the main thread    *)
(* and of the stop in progress: which thread is in the stop (StopOK),      *)
(* where the renderer, the watchdog and the child are (PlaceOK), which     *)
(* servers run (ServersOK), what is still to be restored (RestoreOK), what *)
(* the adapter and the firewall are where nothing can fail (CleanOK), what *)
(* late callbacks can reach (LateOK), and how many times the epoch can     *)
(* still move on (EpochOK).  There is a lemma for each kind of step.       *)
(***************************************************************************)
EXTENDS FlashSession, TLAPS

\* Where the main thread is: without a session, starting one, in its input loop.
IdlePcs == {"top", "menu"}
StartPcs == {"dhcp", "tftp", "nic", "rule", "elevated", "started"}
RunPcs == {"view", "read", "panel", "menu2", "act", "quit", "join"}

\* A session was started and the main thread has not left it.
InRun == \/ main.pc \in RunPcs
         \/ main.pc = "stopping" /\ stop.then \in {"join", "quit"}

\* A stop in progress is the main thread's or the renderer's, never both; with a restore
\* it has a snapshot, and the child that restores is this stop's.
StopOK ==
    /\ \/ stop = NoStop /\ main.pc # "stopping" /\ renderer # "stopping"
       \/ /\ stop.by = "main" /\ stop.at # None
          /\ main.pc = "stopping" /\ renderer # "stopping"
          /\ \/ stop.then = "menu" /\ ~stop.restore
             \/ stop.then \in {"join", "quit"} /\ stop.restore
       \/ /\ stop.by = "renderer" /\ stop.at # None
          /\ renderer = "stopping" /\ main.pc \in RunPcs
          /\ stop.restore /\ stop.then \in {"gone", "exit"}
    /\ stop.at = "restore" => stop.restore /\ ses.snapshot # None
    /\ stop.at = "elevated" =>
          /\ stop.restore /\ ses.snapshot # None
          /\ child.at \in {"restore", "unrule", "ok", "err"}
          /\ child.snap = ses.snapshot

\* The renderer exists while a session runs, the watchdog is armed in the menu only, and
\* a child exists only while somebody waits for it.
PlaceOK ==
    /\ ~InRun => renderer = "off"
    /\ InRun /\ renderer = "off" => exited
    /\ menuOn <=> main.pc \in IdlePcs
    /\ \/ child = NoChild
       \/ stop.at = "elevated"
       \/ /\ main.pc = "elevated" /\ child.snap # None
          /\ child.at \in {"set", "rule", "undo", "ok", "err"}

\* The servers that run, by the progress of a start and of a stop.
ServersOK ==
    /\ main.pc \in IdlePcs \cup {"dhcp"} => ~ses.dhcp /\ ~ses.tftp
    /\ main.pc = "tftp" => ses.dhcp /\ ~ses.tftp
    /\ main.pc \in {"nic", "rule", "elevated", "started"} => ses.dhcp /\ ses.tftp
    /\ st.running => InRun
    /\ renderer = "gone" => ~st.running
    /\ InRun => IF st.running /\ stop.at \in {None, "save", "servers"}
                THEN ses.dhcp /\ ses.tftp
                ELSE ~ses.dhcp /\ ~ses.tftp

\* What is to be restored: a session shown as running, until its stop has tried; its
\* snapshot is kept until then, and the process does not end before.
RestoreOK ==
    /\ dirty <=> InRun /\ st.running /\ stop.at \notin {"elevated", "reset"}
    /\ dirty \/ main.pc \in StartPcs => ses.snapshot # None
    /\ exited => ~dirty

\* Where nothing can fail: what the adapter, the firewall and the child are in each place.
CleanOK ==
    ~faulty =>
        /\ menuNic = Own /\ ses.snapshot \in {None, Own}
        /\ child.snap \in {None, Own}
        /\ ~(main.pc = "stopping" /\ stop.then = "menu")
        /\ main.pc \in IdlePcs \cup {"dhcp", "tftp", "nic"} => nic = Own /\ ~rule
        /\ main.pc = "started" => rule
        /\ main.pc = "elevated" => /\ child.at \in {"set", "rule", "ok"}
                                   /\ child.at = "ok" => rule
                                   /\ child.at = "set" => nic = Own
        /\ dirty => rule
        /\ stop.at = "elevated" =>
              /\ child.at # "err"
              /\ child.at # "ok" => rule
              /\ child.at = "ok" => ~rule
              /\ child.at # "restore" => nic = Own
        /\ InRun /\ ~dirty /\ stop.at # "elevated" =>
              nic = Own /\ ~rule /\ ses.snapshot = None
        /\ exited => nic = Own /\ ~rule

\* The states in which nothing of a transfer may show.
Quiet == main.pc \in IdlePcs \cup {"dhcp", "tftp"} \/ (InRun /\ ~st.running)

\* A transfer that is still on has an epoch of the past, an older one if nothing may show.
LateOK ==
    /\ ses.epoch <= st.epoch
    /\ \A t \in Transfers : transfer[t].on => transfer[t].epoch <= st.epoch
    /\ Quiet => /\ \A t \in Transfers : transfer[t].on => transfer[t].epoch # st.epoch
                /\ st.transfer = NoTransfer /\ ~st.done
                /\ main.pc # "tftp" => ~st.device

\* The stops that are still to come, at most.
StopsLeft ==
    IF main.pc \in IdlePcs THEN 0
    ELSE IF main.pc \in StartPcs THEN 2
    ELSE IF main.pc = "stopping" /\ stop.then = "menu" THEN 1
    ELSE (IF main.pc \in {"quit", "join"} THEN 0 ELSE 1)
         + (IF renderer \in {"off", "gone"} THEN 0 ELSE 1)

\* Three a session: its start, and a stop by each thread.
EpochOK == st.epoch + StopsLeft <= 3 * starts

\* The inductive invariant.
Inv == /\ TypeOK /\ StopOK /\ PlaceOK /\ ServersOK /\ RestoreOK /\ CleanOK
       /\ LateOK /\ EpochOK /\ BannerMatchesTransfer

-----------------------------------------------------------------------------

\* The types of TypeOK by name, so that a step can be typed field by field.
Mains == [pc : {"top", "menu", "dhcp", "tftp", "nic", "rule", "elevated",
                "started", "view", "read", "panel", "menu2", "act", "stopping",
                "quit", "join"},
          line : Lines \cup {None}]
Sess == [snapshot : Confs \cup {None}, dhcp : BOOLEAN, tftp : BOOLEAN,
         auto : BOOLEAN, epoch : Epochs]
Shared == [running : BOOLEAN, device : BOOLEAN, done : BOOLEAN,
           transfer : [remote : Remotes \cup {None}, done : BOOLEAN, ok : BOOLEAN],
           epoch : Epochs]
Stops == [by : {"main", "renderer", None}, restore : BOOLEAN,
          at : {"save", "servers", "restore", "elevated", "reset", None},
          then : {"menu", "join", "quit", "gone", "exit", None}]
Children == [at : {"set", "rule", "undo", "restore", "unrule", "ok", "err", None},
             snap : Confs \cup {None}]
Threads == [on : BOOLEAN, epoch : Epochs, remote : Remotes \cup {None}]

\* TypeOK, with those names.
TypesOK ==
    /\ admin \in BOOLEAN /\ faulty \in BOOLEAN /\ ctrlC \in BOOLEAN
    /\ menuOn \in BOOLEAN /\ exited \in BOOLEAN /\ rule \in BOOLEAN
    /\ heard \in BOOLEAN /\ dirty \in BOOLEAN
    /\ main \in Mains /\ renderer \in {"off", "top", "tick", "stopping", "gone"}
    /\ nic \in Confs /\ menuNic \in Confs
    /\ ses \in Sess /\ st \in Shared /\ stop \in Stops /\ child \in Children
    /\ transfer \in [Transfers -> Threads]
    /\ idle \in 0 .. IdleLimit /\ silent \in 0 .. IdleLimit
    /\ granted \in 0 .. MaxGrants /\ saved \in 0 .. MaxGrants
    /\ starts \in 0 .. MaxStarts

\* TypesOK says what TypeOK says.
LEMMA Types == (TypeOK <=> TypesOK) /\ (TypeOK' <=> TypesOK')
BY DEF TypeOK, TypesOK, Mains, Sess, Shared, Stops, Children, Threads

\* The main thread at a place, with no line read.
LEMMA MainFacts ==
    /\ \A pc : [pc |-> pc, line |-> None].pc = pc
    /\ \A pc \in {"top", "menu", "dhcp", "tftp", "nic", "rule", "elevated",
                "started", "view", "read", "panel", "menu2", "act", "stopping",
                "quit", "join"} : [pc |-> pc, line |-> None] \in Mains
BY DEF Mains, None, Lines

\* A start fails: nothing is known of the adapter, and the stop will not restore.
LEMMA StartFails ==
    ASSUME Inv, faulty, main.pc \in StartPcs, FailStart,
           nic' \in Confs, rule' \in BOOLEAN, child' \in {child, NoChild},
           main.pc = "elevated" => child' = NoChild,
           UNCHANGED <<modes, renderer, ctrlC, menuOn, exited, servers,
                       menuNic, ses, st, saved, starts, dirty>>
    PROVE  Inv'
<1> USE DEF IdlePcs, StartPcs, RunPcs, InRun, None
<1>1. TypesOK /\ StopOK /\ PlaceOK /\ ServersOK /\ RestoreOK /\ CleanOK /\ LateOK /\ EpochOK
  BY Types DEF Inv
<1>2. /\ main' = [pc |-> "stopping", line |-> None] /\ main'.pc = "stopping"
      /\ stop' = [by |-> "main", at |-> "save", restore |-> FALSE, then |-> "menu"]
      /\ stop'.by = "main" /\ stop'.at = "save" /\ stop'.restore = FALSE /\ stop'.then = "menu"
      /\ UNCHANGED <<admin, faulty, renderer, ctrlC, menuOn, exited, idle, heard, transfer,
                     granted, silent, menuNic, ses, st, saved, starts, dirty>>
  BY DEF FailStart, At, BeginStop, modes, servers
<1>3. child' \in Children /\ main' \in Mains /\ stop' \in Stops
  BY <1>1, <1>2, MainFacts DEF TypesOK, Children, NoChild, Stops
<1>4. TypeOK'
  BY <1>1, <1>2, <1>3, Types, Zenon DEF TypesOK
<1>5. StopOK' /\ PlaceOK'
  BY <1>1, <1>2 DEF StopOK, PlaceOK, NoStop
<1>6. ServersOK' /\ RestoreOK'
  BY <1>1, <1>2 DEF ServersOK, RestoreOK
<1>7. CleanOK' /\ LateOK'
  BY <1>1, <1>2 DEF CleanOK, LateOK, Quiet
<1>8. EpochOK'
  BY <1>1, <1>2, FlashAssumption DEF EpochOK, StopsLeft, TypesOK, Shared, Epochs
<1>9. QED
  BY <1>2, <1>4, <1>5, <1>6, <1>7, <1>8 DEF Inv, BannerMatchesTransfer

\* The menu starts a session.
LEMMA SessionStarts ==
    ASSUME Inv, StartSession
    PROVE  Inv'
<1> USE DEF IdlePcs, StartPcs, RunPcs, InRun, None
<1>1. TypesOK /\ StopOK /\ PlaceOK /\ ServersOK /\ RestoreOK /\ CleanOK /\ LateOK /\ EpochOK
  BY Types DEF Inv
<1>2. /\ main.pc = "menu" /\ starts < MaxStarts
      /\ main' = [pc |-> "dhcp", line |-> None] /\ main'.pc = "dhcp"
      /\ menuOn' = FALSE /\ starts' = starts + 1 /\ heard' = FALSE /\ granted' = saved
      /\ ses' = [snapshot |-> menuNic, dhcp |-> FALSE, tftp |-> FALSE,
                 auto |-> FALSE, epoch |-> st.epoch + 1]
      /\ ses'.snapshot = menuNic /\ ~ses'.dhcp /\ ~ses'.tftp /\ ses'.epoch = st.epoch + 1
      /\ UNCHANGED <<admin, faulty, renderer, ctrlC, exited, nic, rule, child, idle,
                     transfer, silent, menuNic, stop, saved, dirty>>
  BY DEF StartSession, At, NoSession, modes, network
<1>3. /\ st' = [st EXCEPT !.epoch = st.epoch + 1]
      /\ st'.epoch = st.epoch + 1 /\ st'.running = st.running /\ st'.device = st.device
      /\ st'.transfer = st.transfer /\ st'.done = st.done
  BY <1>1 DEF StartSession, TypesOK, Shared
<1>4. menuNic # None
  BY <1>1 DEF TypesOK, Confs, Own, Flash
<1>5. st.epoch \in Nat /\ starts \in Nat /\ \A t \in Transfers : transfer[t].epoch \in Nat
  BY <1>1, FlashAssumption DEF TypesOK, Shared, Threads, Epochs
<1>6. EpochOK' /\ st'.epoch \in Epochs
  BY <1>1, <1>2, <1>3, <1>5, FlashAssumption DEF EpochOK, StopsLeft, TypesOK, Epochs
<1>7. starts' \in 0 .. MaxStarts /\ main' \in Mains /\ ses' \in Sess /\ st' \in Shared
  <2>1. main' \in Mains /\ starts' \in 0 .. MaxStarts
    BY <1>2, <1>5, MainFacts, FlashAssumption
  <2>2. ses' \in Sess
    BY <1>1, <1>2, <1>3, <1>6 DEF TypesOK, Sess
  <2>3. st' \in Shared
    BY <1>1, <1>3, <1>6 DEF TypesOK, Shared
  <2>4. QED BY <2>1, <2>2, <2>3
<1>8. TypeOK'
  BY <1>1, <1>2, <1>7, Types, Zenon DEF TypesOK
<1>9. StopOK' /\ PlaceOK'
  BY <1>1, <1>2 DEF StopOK, PlaceOK, NoStop
<1>10. ServersOK' /\ RestoreOK'
  BY <1>1, <1>2, <1>3, <1>4 DEF ServersOK, RestoreOK
<1>11. CleanOK'
  BY <1>1, <1>2 DEF CleanOK
<1>12. LateOK'
  BY <1>1, <1>2, <1>3, <1>5 DEF LateOK, Quiet
<1>13. QED
  BY <1>3, <1>6, <1>8, <1>9, <1>10, <1>11, <1>12 DEF Inv, BannerMatchesTransfer

\* A server is started.
LEMMA ServerStarts ==
    ASSUME Inv, StartDhcp \/ StartTftp
    PROVE  Inv'
<1>1. CASE faulty /\ FailStart /\ ses' = ses
  <2>1. /\ main.pc \in StartPcs /\ main.pc # "elevated" /\ nic' = nic /\ rule' = rule /\ child' = child
        /\ UNCHANGED <<modes, renderer, ctrlC, menuOn, exited, servers,
                       menuNic, st, saved, starts, dirty>>
    BY DEF StartDhcp, StartTftp, StartPcs, network
  <2>2. nic \in Confs /\ rule \in BOOLEAN
    BY DEF Inv, TypeOK
  <2>3. QED
    BY <1>1, <2>1, <2>2, StartFails, Zenon
<1>2. CASE /\ stop' = stop
           /\ \/ main.pc = "dhcp" /\ ses' = [ses EXCEPT !.dhcp = TRUE] /\ At("tftp")
              \/ main.pc = "tftp" /\ ses' = [ses EXCEPT !.tftp = TRUE] /\ At("nic")
  <2> USE DEF IdlePcs, StartPcs, RunPcs, InRun, None
  <2>1. TypesOK /\ StopOK /\ PlaceOK /\ ServersOK /\ RestoreOK /\ CleanOK /\ LateOK /\ EpochOK
    BY Types DEF Inv
  <2>2. UNCHANGED <<modes, renderer, ctrlC, menuOn, exited, nic, rule, child, servers,
                    menuNic, st, stop, saved, starts, dirty>>
    BY <1>2 DEF StartDhcp, StartTftp, network
  <2>3. /\ \/ main.pc = "dhcp" /\ main'.pc = "tftp" /\ ses'.dhcp /\ ses'.tftp = ses.tftp
           \/ main.pc = "tftp" /\ main'.pc = "nic" /\ ses'.tftp /\ ses'.dhcp = ses.dhcp
        /\ ses'.snapshot = ses.snapshot /\ ses'.epoch = ses.epoch
        /\ ses' \in Sess /\ main' \in Mains
    <3>1. ses \in Sess
      BY <2>1 DEF TypesOK
    <3>2. CASE main.pc = "dhcp" /\ ses' = [ses EXCEPT !.dhcp = TRUE] /\ At("tftp")
      <4>1. main'.pc = "tftp" /\ main' \in Mains
        BY <3>2, MainFacts DEF At
      <4>2. ses' \in Sess /\ ses'.dhcp /\ ses'.tftp = ses.tftp
            /\ ses'.snapshot = ses.snapshot /\ ses'.epoch = ses.epoch
        BY <3>1, <3>2 DEF Sess
      <4>3. QED BY <3>2, <4>1, <4>2
    <3>3. CASE main.pc = "tftp" /\ ses' = [ses EXCEPT !.tftp = TRUE] /\ At("nic")
      <4>1. main'.pc = "nic" /\ main' \in Mains
        BY <3>3, MainFacts DEF At
      <4>2. ses' \in Sess /\ ses'.tftp /\ ses'.dhcp = ses.dhcp
            /\ ses'.snapshot = ses.snapshot /\ ses'.epoch = ses.epoch
        BY <3>1, <3>3 DEF Sess
      <4>3. QED BY <3>3, <4>1, <4>2
    <3>4. QED BY <1>2, <3>2, <3>3
  <2>4. UNCHANGED <<admin, faulty, idle, heard, transfer, granted, silent>>
    BY <2>2 DEF modes, servers
  <2>5. TypeOK'
    BY <2>1, <2>2, <2>3, <2>4, Types, Zenon DEF TypesOK
  <2>6. StopOK' /\ PlaceOK'
    BY <2>1, <2>2, <2>3, <2>4 DEF StopOK, PlaceOK, NoStop
  <2>7. ServersOK' /\ RestoreOK'
    BY <2>1, <2>2, <2>3, <2>4 DEF ServersOK, RestoreOK
  <2>8. CleanOK' /\ LateOK'
    BY <2>1, <2>2, <2>3, <2>4 DEF CleanOK, LateOK, Quiet
  <2>9. EpochOK'
    BY <2>1, <2>2, <2>3 DEF EpochOK, StopsLeft
  <2>10. QED
    BY <2>2, <2>5, <2>6, <2>7, <2>8, <2>9 DEF Inv, BannerMatchesTransfer
<1>3. QED
  BY <1>1, <1>2 DEF StartDhcp, StartTftp

\* While a session starts no stop is in progress, and where nothing can fail the
\* elevated child does not.
LEMMA NoStopAtStart ==
    ASSUME Inv, main.pc \in StartPcs
    PROVE  /\ stop = NoStop
           /\ FailStart => stop' # stop
           /\ main.pc = "elevated" /\ child.at = "err" => faulty
<1>1. main.pc # "stopping" /\ renderer # "stopping"
  BY DEF Inv, PlaceOK, InRun, RunPcs, StartPcs
<1>2. stop = NoStop
  BY <1>1 DEF Inv, StopOK
<1>3. FailStart => stop'.by = "main"
  BY DEF FailStart, BeginStop
<1>4. QED
  BY <1>2, <1>3 DEF NoStop, None, Inv, CleanOK

\* The adapter is set, by the program or by its child.
LEMMA AdapterSet ==
    ASSUME Inv, ~exited, SetStatic \/ AddRule \/ Elevate \/ ElevatedDone
    PROVE  Inv'
<1>1. main.pc \in StartPcs
  BY DEF SetStatic, AddRule, Elevate, ElevatedDone, StartPcs
<1>2. /\ stop = NoStop
      /\ FailStart => stop' # stop
      /\ main.pc = "elevated" /\ child.at = "err" => faulty
  BY <1>1, NoStopAtStart
<1>3. TypesOK /\ StopOK /\ PlaceOK /\ ServersOK /\ RestoreOK /\ CleanOK /\ LateOK /\ EpochOK
  BY Types DEF Inv
<1>4. CASE faulty /\ FailStart
  <2>1. /\ nic' \in {nic, Flash} /\ rule' \in {rule, TRUE} /\ child' \in {child, NoChild}
        /\ main.pc = "elevated" => child' = NoChild
        /\ UNCHANGED <<modes, renderer, ctrlC, menuOn, exited, servers,
                       menuNic, ses, st, saved, starts, dirty>>
    BY <1>4, <1>2 DEF SetStatic, AddRule, Elevate, ElevatedDone
  <2>2. nic' \in Confs /\ rule' \in BOOLEAN
    BY <2>1 DEF Inv, TypeOK, Confs
  <2>3. QED
    BY <1>1, <1>4, <2>1, <2>2, StartFails, Zenon
<1>5. CASE ~FailStart /\ stop' = stop
  <2> USE DEF IdlePcs, StartPcs, RunPcs, InRun, None
  <2>1. /\ \/ main.pc = "nic" /\ nic' = Flash /\ At("rule") /\ rule' = rule /\ child' = child
         \/ /\ main.pc = "rule" /\ rule' = TRUE /\ At("started")
            /\ nic' = nic /\ child' = child
         \/ /\ main.pc = "nic" /\ child' = [at |-> "set", snap |-> nic] /\ At("elevated")
            /\ nic' = nic /\ rule' = rule
         \/ /\ main.pc = "elevated" /\ child.at = "ok" /\ child' = NoChild
            /\ At("started") /\ nic' = nic /\ rule' = rule
      /\ UNCHANGED <<modes, renderer, ctrlC, menuOn, exited, servers, menuNic, ses, st, stop,
                     saved, starts, dirty>>
    BY <1>5 DEF SetStatic, AddRule, Elevate, ElevatedDone
  <2>2. /\ \/ main.pc = "nic" /\ nic' = Flash /\ main'.pc = "rule" /\ rule' = rule /\ child' = child
         \/ /\ main.pc = "rule" /\ rule' = TRUE /\ main'.pc = "started"
            /\ nic' = nic /\ child' = child
         \/ /\ main.pc = "nic" /\ child' # NoChild /\ child'.at = "set" /\ child'.snap = nic
            /\ main'.pc = "elevated" /\ nic' = nic /\ rule' = rule
         \/ /\ main.pc = "elevated" /\ child.at = "ok" /\ child' = NoChild
            /\ child'.at = None /\ child'.snap = None /\ main'.pc = "started" /\ nic' = nic /\ rule' = rule
      /\ main' \in Mains
      /\ UNCHANGED <<admin, faulty, renderer, ctrlC, menuOn, exited, idle, heard, transfer,
                     granted, silent, menuNic, ses, st, stop, saved, starts, dirty>>
    BY <1>3, <2>1, MainFacts DEF At, NoChild, modes, servers
  <2>3. nic' \in Confs /\ rule' \in BOOLEAN /\ child' \in Children
    <3>1. nic' \in Confs /\ rule' \in BOOLEAN /\ nic \in Confs /\ child \in Children
      BY <1>3, <2>1 DEF TypesOK, Confs
    <3>2. child' \in {child, NoChild, [at |-> "set", snap |-> nic]}
      BY <2>1
    <3>3. QED
      BY <3>1, <3>2 DEF Children, NoChild
  <2>4. nic # None /\ Flash # None
    BY <1>3 DEF TypesOK, Confs, Own, Flash
  <2>5. TypeOK'
    BY <1>3, <2>3, <2>2, Types, Zenon DEF TypesOK
  <2>6. StopOK' /\ PlaceOK'
    BY <1>3, <1>2, <2>2, <2>4 DEF StopOK, PlaceOK, NoStop, NoChild
  <2>7. ServersOK' /\ RestoreOK'
    BY <1>3, <2>2 DEF ServersOK, RestoreOK
  <2>8. CleanOK'
    <3>1. CASE main.pc = "nic" /\ main'.pc = "rule"
      BY <3>1, <1>3, <1>2, <2>2 DEF CleanOK, NoStop
    <3>2. CASE main.pc = "rule"
      BY <3>2, <1>3, <1>2, <2>2 DEF CleanOK, NoStop
    <3>3. CASE main.pc = "nic" /\ main'.pc = "elevated"
      BY <3>3, <1>3, <1>2, <2>2 DEF CleanOK, NoStop
    <3>4. CASE main.pc = "elevated"
      <4>1. /\ child.at = "ok" /\ child'.at = None /\ child'.snap = None /\ main'.pc = "started"
            /\ UNCHANGED <<nic, rule, faulty, menuNic, ses, stop, dirty, exited, st>>
        BY <3>4, <2>2
      <4>2. QED
        BY <3>4, <4>1, <1>3, <1>2 DEF CleanOK, NoStop
    <3>5. QED
      BY <3>1, <3>2, <3>3, <3>4, <2>2
  <2>9. LateOK'
    BY <1>3, <2>2 DEF LateOK, Quiet
  <2>10. EpochOK'
    BY <1>3, <2>2 DEF EpochOK, StopsLeft
  <2>11. BannerMatchesTransfer'
    BY <1>3, <2>2 DEF Inv, BannerMatchesTransfer
  <2>12. QED
    BY <2>5, <2>6, <2>7, <2>8, <2>9, <2>10, <2>11 DEF Inv
<1>6. QED
  BY <1>2, <1>4, <1>5 DEF SetStatic, AddRule, Elevate, ElevatedDone

\* The services run, and the user sees the session.
LEMMA SessionStarted ==
    ASSUME Inv, ~exited, Started
    PROVE  Inv'
<1> USE DEF IdlePcs, StartPcs, RunPcs, InRun, None
<1>1. TypesOK /\ StopOK /\ PlaceOK /\ ServersOK /\ RestoreOK /\ CleanOK /\ LateOK /\ EpochOK
  BY Types DEF Inv
<1>2. stop = NoStop
  BY NoStopAtStart DEF Started
<1>3. /\ main.pc = "started" /\ main' = [pc |-> "view", line |-> None] /\ main'.pc = "view"
    /\ st' = [st EXCEPT !.running = TRUE]
    /\ st'.running /\ st'.epoch = st.epoch /\ st'.device = st.device
    /\ st'.transfer = st.transfer /\ st'.done = st.done
    /\ idle' = (IF heard THEN idle ELSE 0) /\ renderer' = "top" /\ dirty' = TRUE
    /\ UNCHANGED <<admin, faulty, ctrlC, menuOn, exited, nic, rule, child, heard, transfer,
                   granted, silent, menuNic, ses, stop, saved, starts>>
  BY <1>1 DEF Started, At, modes, network, TypesOK, Shared
<1>4. idle' \in 0 .. IdleLimit
  BY <1>1, <1>3, FlashAssumption DEF TypesOK
<1>5. /\ idle' \in 0 .. IdleLimit /\ main' \in Mains /\ st' \in Shared
      /\ stop = NoStop /\ stop.at = None
  BY <1>1, <1>3, <1>2, <1>4, MainFacts DEF TypesOK, Shared, NoStop
<1>6. TypeOK'
  BY <1>1, <1>3, <1>5, Types, Zenon DEF TypesOK
<1>7. StopOK' /\ PlaceOK'
  BY <1>1, <1>3, <1>5 DEF StopOK, PlaceOK, NoStop, NoChild
<1>8. ServersOK' /\ RestoreOK'
  BY <1>1, <1>3, <1>5 DEF ServersOK, RestoreOK
<1>9. CleanOK'
  BY <1>1, <1>3, <1>5 DEF CleanOK
<1>10. LateOK'
  BY <1>1, <1>3, <1>5 DEF LateOK, Quiet
<1>11. EpochOK'
  BY <1>1, <1>3, <1>5 DEF EpochOK, StopsLeft
<1>12. BannerMatchesTransfer'
  BY <1>1, <1>3, <1>5 DEF Inv, BannerMatchesTransfer
<1>13. QED
  BY <1>6, <1>7, <1>8, <1>9, <1>10, <1>11, <1>12 DEF Inv

\* The elevated child takes a step.
LEMMA ChildGoes ==
    ASSUME Inv, ~exited, ChildStep
    PROVE  Inv'
<1> USE DEF IdlePcs, StartPcs, RunPcs, InRun, None
<1>1. TypesOK /\ StopOK /\ PlaceOK /\ ServersOK /\ RestoreOK /\ CleanOK /\ LateOK /\ EpochOK
  BY Types DEF Inv
<1>2. UNCHANGED <<admin, faulty, main, renderer, ctrlC, menuOn, exited, idle, heard,
                  transfer, granted, silent, menuNic, ses, st, stop, saved, starts, dirty>>
  BY DEF ChildStep, modes, control, servers
<1>3. /\ child.at \in {"set", "rule", "undo", "restore", "unrule"}
      /\ child.snap \in Confs
      /\ \/ stop.at = "elevated" /\ child.at \in {"restore", "unrule"}
         \/ main.pc = "elevated" /\ child.at \in {"set", "rule", "undo"}
  <2>1. child.at \in {"set", "rule", "undo", "restore", "unrule"}
    BY DEF ChildStep, ChildSet, ChildRule, ChildUndo, ChildRestore, ChildUnrule
  <2>2. child # NoChild
    BY <2>1 DEF NoChild
  <2>3. child.snap # None
    BY <1>1, <2>2 DEF PlaceOK, StopOK
  <2>4. child.snap \in Confs
    BY <1>1, <2>3 DEF TypesOK, Children
  <2>5. \/ stop.at = "elevated"
        \/ main.pc = "elevated" /\ child.at \in {"set", "rule", "undo", "ok", "err"}
    BY <1>1, <2>2, Zenon DEF PlaceOK
  <2>6. stop.at = "elevated" => child.at \in {"restore", "unrule", "ok", "err"}
    BY <1>1 DEF StopOK
  <2>7. QED
    BY <2>1, <2>4, <2>5, <2>6
<1>4. /\ child'.snap = child.snap /\ child' \in Children /\ child' # NoChild
      /\ nic' \in {nic, Flash, child.snap} /\ rule' \in BOOLEAN
      /\ \/ child.at = "set" /\ child'.at = "rule" /\ rule' = rule
         \/ child.at = "set" /\ child'.at = "undo" /\ rule' = rule /\ faulty
         \/ child.at = "rule" /\ child'.at = "ok" /\ rule' /\ nic' = nic
         \/ child.at = "rule" /\ child'.at = "undo" /\ nic' = nic /\ faulty
         \/ child.at = "undo" /\ child'.at = "err" /\ rule' = rule
         \/ child.at = "restore" /\ child'.at = "unrule" /\ nic' = child.snap /\ rule' = rule
         \/ child.at = "restore" /\ child'.at = "err" /\ rule' = rule /\ faulty
         \/ child.at = "unrule" /\ child'.at = "ok" /\ nic' = nic /\ ~rule'
         \/ child.at = "unrule" /\ child'.at = "err" /\ nic' = nic /\ rule' = rule
            /\ (~rule \/ faulty)
  <2>1. child' = [child EXCEPT !.at = child'.at]
        /\ child'.at \in {"rule", "undo", "ok", "err", "unrule"}
    BY <1>1 DEF ChildStep, ChildSet, ChildRule, ChildUndo, ChildRestore, ChildUnrule,
                TypesOK, Children
  <2>2. child'.snap = child.snap /\ child' \in Children /\ child' # NoChild
    BY <1>1, <2>1 DEF TypesOK, Children, NoChild
  <2>3. CASE ChildSet
    BY <1>1, <2>2, <2>3 DEF ChildSet, TypesOK, Children
  <2>4. CASE ChildRule
    BY <1>1, <2>2, <2>4 DEF ChildRule, TypesOK, Children
  <2>5. CASE ChildUndo
    BY <1>1, <2>2, <2>5 DEF ChildUndo, Restored, TypesOK, Children
  <2>6. CASE ChildRestore
    BY <1>1, <2>2, <2>6 DEF ChildRestore, Restored, TypesOK, Children
  <2>7. CASE ChildUnrule
    BY <1>1, <2>2, <2>7 DEF ChildUnrule, TypesOK, Children
  <2>8. QED
    BY <2>3, <2>4, <2>5, <2>6, <2>7 DEF ChildStep
<1>5. TypeOK'
  <2>1. nic' \in Confs
    BY <1>1, <1>3, <1>4 DEF TypesOK, Confs
  <2>2. QED
    BY <1>1, <1>2, <1>4, <2>1, Types, Zenon DEF TypesOK
<1>6. StopOK' /\ PlaceOK'
  <2>1. child'.at \in {"rule", "undo", "ok", "err", "unrule"} /\ child'.snap # None
    BY <1>1, <1>3, <1>4 DEF Confs, Own, Flash
  <2>2. stop.at = "elevated" => child'.at \in {"unrule", "ok", "err"}
    <3>1. main.pc = "elevated" => stop = NoStop
      BY NoStopAtStart
    <3>2. QED
      BY <1>3, <1>4, <3>1 DEF NoStop
  <2>3. main.pc = "elevated" => child'.at \in {"rule", "undo", "ok", "err"}
    <3>1. main.pc = "elevated" => stop = NoStop
      BY NoStopAtStart
    <3>2. QED
      BY <1>3, <1>4, <3>1 DEF NoStop
  <2>4. StopOK'
    BY <1>1, <1>2, <1>4, <2>2 DEF StopOK
  <2>5. PlaceOK'
    BY <1>1, <1>2, <1>3, <2>1, <2>3 DEF PlaceOK
  <2>6. QED BY <2>4, <2>5
<1>7. ServersOK' /\ RestoreOK'
  BY <1>1, <1>2 DEF ServersOK, RestoreOK
<1>8. CleanOK'
  <2>1. main.pc = "elevated" => stop.at = None
    <3>1. main.pc = "elevated" => stop = NoStop
      BY NoStopAtStart
    <3>2. QED
      BY <3>1 DEF NoStop
  <2>2. stop.at = "elevated" => InRun /\ ~dirty
    BY <1>1 DEF StopOK, RestoreOK, NoStop
  <2>3. CASE main.pc = "elevated"
    BY <1>1, <1>2, <1>3, <1>4, <2>1, <2>3 DEF CleanOK
  <2>4. CASE stop.at = "elevated"
    <3>1. child.at \in {"restore", "unrule"} /\ main.pc # "elevated"
      BY <1>3, <2>2, <2>4
    <3>2. ~faulty => rule /\ child.snap = Own /\ (child.at = "unrule" => nic = Own)
      BY <1>1, <1>3, <2>4, <3>1 DEF CleanOK, Confs, Own, Flash
    <3>3. ~faulty => \/ child'.at = "unrule" /\ nic' = Own /\ rule'
                     \/ child'.at = "ok" /\ nic' = Own /\ ~rule'
      <4>1. CASE child.at = "restore" /\ ~faulty
        <5>1. child'.at = "unrule" /\ nic' = child.snap /\ rule' = rule
          BY <1>4, <4>1
        <5>2. QED
          BY <3>2, <4>1, <5>1
      <4>2. CASE child.at = "unrule" /\ ~faulty
        <5>1. child'.at = "ok" /\ nic' = nic /\ ~rule'
          BY <1>4, <3>2, <4>2
        <5>2. QED
          BY <3>2, <4>2, <5>1
      <4>3. QED
        BY <3>1, <4>1, <4>2
    <3>4. QED
      BY <1>1, <1>2, <1>4, <2>2, <2>4, <3>1, <3>2, <3>3 DEF CleanOK
  <2>5. QED
    BY <1>3, <2>3, <2>4
<1>9. LateOK' /\ EpochOK'
  BY <1>1, <1>2 DEF LateOK, Quiet, EpochOK, StopsLeft
<1>10. QED
  BY <1>2, <1>5, <1>6, <1>7, <1>8, <1>9 DEF Inv, BannerMatchesTransfer

\* A stop is in progress: main or renderer is in it, the program is past the start or
\* gives it up, and the child is the one the stop started.
LEMMA InStop ==
    ASSUME Inv, stop.at # None
    PROVE  /\ stop # NoStop /\ stop.by # None
           /\ \/ stop.by = "main" /\ main.pc = "stopping" /\ renderer # "stopping"
              \/ stop.by = "renderer" /\ renderer = "stopping" /\ main.pc \in RunPcs
           /\ main.pc \notin IdlePcs \cup StartPcs
           /\ stop.at # "elevated" => child = NoChild
           /\ InRun => stop.restore
           /\ ~InRun => main.pc = "stopping" /\ stop.then = "menu" /\ ~stop.restore
<1> USE DEF IdlePcs, StartPcs, RunPcs, InRun, None
<1>1. stop # NoStop
  BY DEF NoStop
<1>2. StopOK /\ PlaceOK
  BY DEF Inv
<1>3. /\ \/ stop.by = "main" /\ main.pc = "stopping" /\ renderer # "stopping"
         \/ stop.by = "renderer" /\ renderer = "stopping" /\ main.pc \in RunPcs
      /\ InRun => stop.restore
      /\ ~InRun => main.pc = "stopping" /\ stop.then = "menu" /\ ~stop.restore
  BY <1>1, <1>2 DEF StopOK
<1>4. stop.at # "elevated" => child = NoChild
  BY <1>2, <1>3 DEF PlaceOK
<1>5. QED
  BY <1>1, <1>3, <1>4

\* What a step of the stop leaves alone, and where it is then.
LEMMA StopMoves ==
    ASSUME Inv, StopStep, UNCHANGED control,
           StopSave \/ StopServers \/ StopRestore \/ StopElevate \/ StopElevated
    PROVE  /\ stop.at # None /\ stop'.at # None /\ stop' \in Stops
           /\ stop' = [stop EXCEPT !.at = stop'.at]
           /\ stop'.by = stop.by /\ stop'.restore = stop.restore /\ stop'.then = stop.then
           /\ UNCHANGED <<admin, faulty, main, renderer, ctrlC, menuOn, exited, idle, heard,
                          transfer, granted, silent, menuNic, st, starts>>
<1>1. /\ stop.at # None
      /\ \E at \in {"servers", "restore", "reset", "elevated"} : stop' = [stop EXCEPT !.at = at]
  BY DEF StopSave, StopServers, StopRestore, StopElevate, StopElevated, None
<1>2. stop \in Stops
  BY Types DEF Inv, TypesOK
<1>3. UNCHANGED st
  BY DEF StopSave, StopServers, StopRestore, StopElevate, StopElevated
<1>4. QED
  BY <1>1, <1>2, <1>3 DEF Stops, StopStep, modes, control, servers, None


\* The lease table is saved, or not.
LEMMA TableSaved ==
    ASSUME Inv, StopStep, UNCHANGED control, StopSave
    PROVE  Inv'
<1> USE DEF IdlePcs, StartPcs, RunPcs, InRun, None
<1>1. TypesOK /\ StopOK /\ PlaceOK /\ ServersOK /\ RestoreOK /\ CleanOK /\ LateOK /\ EpochOK
  BY Types DEF Inv
<1>2. /\ stop.at # None /\ stop'.at # None /\ stop' \in Stops
      /\ stop'.by = stop.by /\ stop'.restore = stop.restore /\ stop'.then = stop.then
      /\ UNCHANGED <<admin, faulty, main, renderer, ctrlC, menuOn, exited, idle, heard,
                     transfer, granted, silent, menuNic, st, starts>>
  BY StopMoves
<1>3. /\ stop # NoStop /\ stop.by # None
      /\ \/ stop.by = "main" /\ main.pc = "stopping" /\ renderer # "stopping"
         \/ stop.by = "renderer" /\ renderer = "stopping" /\ main.pc \in RunPcs
      /\ main.pc \notin IdlePcs \cup StartPcs
      /\ stop.at # "elevated" => child = NoChild
      /\ InRun => stop.restore
      /\ ~InRun => main.pc = "stopping" /\ stop.then = "menu" /\ ~stop.restore
  BY <1>2, InStop
<1>4. /\ stop.at = "save" /\ stop'.at = "servers" /\ saved' \in 0 .. MaxGrants
      /\ UNCHANGED <<nic, rule, child, ses, dirty>>
  BY <1>1 DEF StopSave, network, TypesOK, Stops
<1>5. TypeOK'
  BY <1>1, <1>2, <1>4, Types, Zenon DEF TypesOK
<1>6. StopOK' /\ PlaceOK'
  BY <1>1, <1>2, <1>3, <1>4 DEF StopOK, PlaceOK
<1>7. ServersOK' /\ RestoreOK'
  BY <1>1, <1>2, <1>3, <1>4 DEF ServersOK, RestoreOK
<1>8. CleanOK'
  BY <1>1, <1>2, <1>3, <1>4 DEF CleanOK
<1>9. LateOK' /\ EpochOK'
  BY <1>1, <1>2, <1>3, <1>4 DEF LateOK, Quiet, EpochOK, StopsLeft
<1>10. QED
  BY <1>2, <1>5, <1>6, <1>7, <1>8, <1>9 DEF Inv, BannerMatchesTransfer

\* Both servers are stopped; the restore is next if there is one.
LEMMA ServersStopped ==
    ASSUME Inv, StopStep, UNCHANGED control, StopServers
    PROVE  Inv'
<1> USE DEF IdlePcs, StartPcs, RunPcs, InRun, None
<1>1. TypesOK /\ StopOK /\ PlaceOK /\ ServersOK /\ RestoreOK /\ CleanOK /\ LateOK /\ EpochOK
  BY Types DEF Inv
<1>2. /\ stop.at # None /\ stop'.at # None /\ stop' \in Stops
      /\ stop'.by = stop.by /\ stop'.restore = stop.restore /\ stop'.then = stop.then
      /\ UNCHANGED <<admin, faulty, main, renderer, ctrlC, menuOn, exited, idle, heard,
                     transfer, granted, silent, menuNic, st, starts>>
  BY StopMoves
<1>3. /\ stop # NoStop /\ stop.by # None
      /\ \/ stop.by = "main" /\ main.pc = "stopping" /\ renderer # "stopping"
         \/ stop.by = "renderer" /\ renderer = "stopping" /\ main.pc \in RunPcs
      /\ main.pc \notin IdlePcs \cup StartPcs
      /\ stop.at # "elevated" => child = NoChild
      /\ InRun => stop.restore
      /\ ~InRun => main.pc = "stopping" /\ stop.then = "menu" /\ ~stop.restore
  BY <1>2, InStop
<1>4. /\ stop.at = "servers" /\ stop'.at = IF Restores THEN "restore" ELSE "reset"
      /\ ses' \in Sess /\ ~ses'.dhcp /\ ~ses'.tftp /\ ses'.snapshot = ses.snapshot
      /\ ses'.epoch = ses.epoch
      /\ UNCHANGED <<nic, rule, child, saved, dirty>>
  BY <1>1 DEF StopServers, network, TypesOK, Stops, Sess
<1>5. TypeOK'
  BY <1>1, <1>2, <1>4, Types, Zenon DEF TypesOK
<1>6. StopOK' /\ PlaceOK'
  BY <1>1, <1>2, <1>3, <1>4 DEF StopOK, PlaceOK, Restores
<1>7. ServersOK' /\ RestoreOK'
  BY <1>1, <1>2, <1>3, <1>4 DEF ServersOK, RestoreOK, Restores
<1>8. CleanOK'
  BY <1>1, <1>2, <1>3, <1>4 DEF CleanOK
<1>9. LateOK' /\ EpochOK'
  BY <1>1, <1>2, <1>3, <1>4 DEF LateOK, Quiet, EpochOK, StopsLeft
<1>10. QED
  BY <1>2, <1>5, <1>6, <1>7, <1>8, <1>9 DEF Inv, BannerMatchesTransfer

\* The program restores the adapter itself, or fails to.
LEMMA AdapterRestored ==
    ASSUME Inv, StopStep, UNCHANGED control, StopRestore
    PROVE  Inv'
<1> USE DEF IdlePcs, StartPcs, RunPcs, InRun, None
<1>1. TypesOK /\ StopOK /\ PlaceOK /\ ServersOK /\ RestoreOK /\ CleanOK /\ LateOK /\ EpochOK
  BY Types DEF Inv
<1>2. /\ stop.at # None /\ stop'.at # None /\ stop' \in Stops
      /\ stop'.by = stop.by /\ stop'.restore = stop.restore /\ stop'.then = stop.then
      /\ UNCHANGED <<admin, faulty, main, renderer, ctrlC, menuOn, exited, idle, heard,
                     transfer, granted, silent, menuNic, st, starts>>
  BY StopMoves
<1>3. /\ stop # NoStop /\ stop.by # None
      /\ \/ stop.by = "main" /\ main.pc = "stopping" /\ renderer # "stopping"
         \/ stop.by = "renderer" /\ renderer = "stopping" /\ main.pc \in RunPcs
      /\ main.pc \notin IdlePcs \cup StartPcs
      /\ stop.at # "elevated" => child = NoChild
      /\ InRun => stop.restore
      /\ ~InRun => main.pc = "stopping" /\ stop.then = "menu" /\ ~stop.restore
  BY <1>2, InStop
<1>4. /\ stop.at = "restore" /\ stop'.at = "reset" /\ rule' \in BOOLEAN
      /\ nic' \in Confs /\ ~dirty' /\ dirty' \in BOOLEAN
      /\ ses' \in Sess /\ ses'.dhcp = ses.dhcp /\ ses'.tftp = ses.tftp /\ ses'.epoch = ses.epoch
      /\ ses'.snapshot \in {None, ses.snapshot}
      /\ ~faulty => ~rule' /\ nic' = ses.snapshot /\ ses'.snapshot = None
      /\ UNCHANGED <<child, saved>>
  BY <1>1 DEF StopRestore, Restored, WithoutSnapshot, StopOK, TypesOK, Stops, Sess
<1>5. TypeOK'
  BY <1>1, <1>2, <1>4, Types, Zenon DEF TypesOK
<1>6. StopOK' /\ PlaceOK'
  BY <1>1, <1>2, <1>3, <1>4 DEF StopOK, PlaceOK
<1>7. ServersOK' /\ RestoreOK'
  BY <1>1, <1>2, <1>3, <1>4 DEF ServersOK, RestoreOK
<1>8. CleanOK'
  <2>1. ~faulty => ses.snapshot = Own
    BY <1>1, <1>4 DEF CleanOK, StopOK
  <2>2. ~faulty => nic' = Own /\ ~rule' /\ ses'.snapshot = None /\ child'.snap \in {None, Own}
    BY <1>1, <1>4, <2>1 DEF CleanOK
  <2>3. QED
    BY <1>1, <1>2, <1>3, <1>4, <2>2 DEF CleanOK
<1>9. LateOK' /\ EpochOK'
  BY <1>1, <1>2, <1>3, <1>4 DEF LateOK, Quiet, EpochOK, StopsLeft
<1>10. QED
  BY <1>2, <1>5, <1>6, <1>7, <1>8, <1>9 DEF Inv, BannerMatchesTransfer

\* The elevated child is started for the restore, or refused.
LEMMA ChildRestores ==
    ASSUME Inv, StopStep, UNCHANGED control, StopElevate
    PROVE  Inv'
<1> USE DEF IdlePcs, StartPcs, RunPcs, InRun, None
<1>1. TypesOK /\ StopOK /\ PlaceOK /\ ServersOK /\ RestoreOK /\ CleanOK /\ LateOK /\ EpochOK
  BY Types DEF Inv
<1>2. /\ stop.at # None /\ stop'.at # None /\ stop' \in Stops
      /\ stop'.by = stop.by /\ stop'.restore = stop.restore /\ stop'.then = stop.then
      /\ UNCHANGED <<admin, faulty, main, renderer, ctrlC, menuOn, exited, idle, heard,
                     transfer, granted, silent, menuNic, st, starts>>
  BY StopMoves
<1>3. /\ stop # NoStop /\ stop.by # None
      /\ \/ stop.by = "main" /\ main.pc = "stopping" /\ renderer # "stopping"
         \/ stop.by = "renderer" /\ renderer = "stopping" /\ main.pc \in RunPcs
      /\ main.pc \notin IdlePcs \cup StartPcs
      /\ stop.at # "elevated" => child = NoChild
      /\ InRun => stop.restore
      /\ ~InRun => main.pc = "stopping" /\ stop.then = "menu" /\ ~stop.restore
  BY <1>2, InStop
<1>4. /\ stop.at = "restore" /\ child' \in Children
      /\ ~dirty' /\ dirty' \in BOOLEAN
      /\ \/ child' = [at |-> "restore", snap |-> ses.snapshot] /\ stop'.at = "elevated"
            /\ child'.at = "restore" /\ child'.snap = ses.snapshot
         \/ faulty /\ stop'.at = "reset" /\ child' = child
      /\ UNCHANGED <<nic, rule, ses, saved>>
  <2>1. /\ stop.at = "restore" /\ dirty' = FALSE
        /\ \/ child' = [at |-> "restore", snap |-> ses.snapshot]
              /\ stop' = [stop EXCEPT !.at = "elevated"]
           \/ faulty /\ stop' = [stop EXCEPT !.at = "reset"] /\ child' = child
        /\ UNCHANGED <<nic, rule, ses, saved>>
    BY DEF StopElevate
  <2>2. /\ \/ child' = [at |-> "restore", snap |-> ses.snapshot] /\ stop'.at = "elevated"
              /\ child'.at = "restore" /\ child'.snap = ses.snapshot
           \/ faulty /\ stop'.at = "reset" /\ child' = child
        /\ ses.snapshot \in Confs \cup {None} /\ child \in Children
    BY <1>1, <2>1 DEF TypesOK, Stops, Sess
  <2>3. child' \in Children
    BY <2>2 DEF Children
  <2>4. QED
    BY <2>1, <2>2, <2>3
<1>5. TypeOK'
  BY <1>1, <1>2, <1>4, Types, Zenon DEF TypesOK
<1>6. StopOK' /\ PlaceOK'
  BY <1>1, <1>2, <1>3, <1>4 DEF StopOK, PlaceOK
<1>7. ServersOK' /\ RestoreOK'
  BY <1>1, <1>2, <1>3, <1>4 DEF ServersOK, RestoreOK
<1>8. CleanOK'
  <2>1. ~faulty => InRun /\ dirty /\ rule /\ ses.snapshot = Own
    BY <1>1, <1>3, <1>4 DEF CleanOK, StopOK
  <2>2. ~faulty => child'.snap = Own /\ child'.at = "restore" /\ stop'.at = "elevated"
    BY <1>1, <1>4, <2>1 DEF CleanOK
  <2>3. QED
    BY <1>1, <1>2, <1>3, <1>4, <2>1, <2>2 DEF CleanOK
<1>9. LateOK' /\ EpochOK'
  BY <1>1, <1>2, <1>3, <1>4 DEF LateOK, Quiet, EpochOK, StopsLeft
<1>10. QED
  BY <1>2, <1>5, <1>6, <1>7, <1>8, <1>9 DEF Inv, BannerMatchesTransfer

\* The elevated child has ended, or is killed.
LEMMA ChildRestored ==
    ASSUME Inv, StopStep, UNCHANGED control, StopElevated
    PROVE  Inv'
<1> USE DEF IdlePcs, StartPcs, RunPcs, InRun, None
<1>1. TypesOK /\ StopOK /\ PlaceOK /\ ServersOK /\ RestoreOK /\ CleanOK /\ LateOK /\ EpochOK
  BY Types DEF Inv
<1>2. /\ stop.at # None /\ stop'.at # None /\ stop' \in Stops
      /\ stop'.by = stop.by /\ stop'.restore = stop.restore /\ stop'.then = stop.then
      /\ UNCHANGED <<admin, faulty, main, renderer, ctrlC, menuOn, exited, idle, heard,
                     transfer, granted, silent, menuNic, st, starts>>
  BY StopMoves
<1>3. /\ stop # NoStop /\ stop.by # None
      /\ \/ stop.by = "main" /\ main.pc = "stopping" /\ renderer # "stopping"
         \/ stop.by = "renderer" /\ renderer = "stopping" /\ main.pc \in RunPcs
      /\ main.pc \notin IdlePcs \cup StartPcs
      /\ stop.at # "elevated" => child = NoChild
      /\ InRun => stop.restore
      /\ ~InRun => main.pc = "stopping" /\ stop.then = "menu" /\ ~stop.restore
  BY <1>2, InStop
<1>4. /\ stop.at = "elevated" /\ stop'.at = "reset" /\ child' = NoChild /\ child' \in Children
      /\ child'.snap = None
      /\ ses' \in Sess /\ ses'.dhcp = ses.dhcp /\ ses'.tftp = ses.tftp /\ ses'.epoch = ses.epoch
      /\ ses'.snapshot \in {None, ses.snapshot}
      /\ ~faulty => child.at \in {"ok", "err"} /\ (child.at = "ok" => ses'.snapshot = None)
      /\ UNCHANGED <<nic, rule, saved, dirty>>
  BY <1>1 DEF StopElevated, WithoutSnapshot, TypesOK, Stops, Sess, Children, NoChild
<1>5. TypeOK'
  BY <1>1, <1>2, <1>4, Types, Zenon DEF TypesOK
<1>6. StopOK' /\ PlaceOK'
  BY <1>1, <1>2, <1>3, <1>4 DEF StopOK, PlaceOK
<1>7. ServersOK' /\ RestoreOK'
  BY <1>1, <1>2, <1>3, <1>4 DEF ServersOK, RestoreOK
<1>8. CleanOK'
  BY <1>1, <1>2, <1>3, <1>4 DEF CleanOK
<1>9. LateOK' /\ EpochOK'
  BY <1>1, <1>2, <1>3, <1>4 DEF LateOK, Quiet, EpochOK, StopsLeft
<1>10. QED
  BY <1>2, <1>5, <1>6, <1>7, <1>8, <1>9 DEF Inv, BannerMatchesTransfer

\* The stop ends: the shared state is cleared, the epoch has moved on, and the caller
\* goes on where the stop's kind says.
LEMMA StopEnds ==
    ASSUME Inv, StopReset, Return, UNCHANGED <<modes, servers, menuNic, starts>>
    PROVE  Inv'
<1> USE DEF IdlePcs, StartPcs, RunPcs, InRun, None
<1>1. TypesOK /\ StopOK /\ PlaceOK /\ ServersOK /\ RestoreOK /\ CleanOK /\ LateOK /\ EpochOK
  BY Types DEF Inv
<1>2. /\ stop.at = "reset" /\ stop' = NoStop
      /\ stop'.at = None /\ stop'.then = None /\ stop' \in Stops
      /\ UNCHANGED <<admin, faulty, idle, heard, transfer, granted, silent, menuNic, starts,
                     nic, rule, child, saved, dirty>>
  BY DEF StopReset, NoStop, Stops, modes, servers, network
<1>3. /\ \/ stop.by = "main" /\ main.pc = "stopping" /\ renderer # "stopping"
         \/ stop.by = "renderer" /\ renderer = "stopping" /\ main.pc \in RunPcs
      /\ child = NoChild
      /\ InRun => stop.restore
      /\ ~InRun => main.pc = "stopping" /\ stop.then = "menu" /\ ~stop.restore
  BY <1>2, InStop
<1>4. /\ st.epoch \in Nat /\ ses.epoch \in Nat /\ starts \in Nat
      /\ \A t \in Transfers : transfer[t].epoch \in Nat
  BY <1>1, FlashAssumption DEF TypesOK, Shared, Sess, Threads, Epochs
<1>5. /\ ~st'.running /\ ~st'.device /\ ~st'.done /\ st'.transfer = NoTransfer
      /\ st'.epoch = st.epoch + 1
      /\ st' = [st EXCEPT !.running = FALSE, !.device = FALSE, !.transfer = NoTransfer,
                          !.done = FALSE, !.epoch = st.epoch + 1]
  BY <1>1 DEF StopReset, Cleared, TypesOK, Shared
<1>6. \* Where the caller goes on.
      \/ /\ stop.then = "menu" /\ main.pc = "stopping" /\ main'.pc = "top" /\ menuOn' = TRUE
         /\ renderer = "off" /\ renderer' = renderer /\ exited' = exited
         /\ ses' = NoSession
      \/ /\ stop.then \in {"join", "quit"} /\ main.pc = "stopping" /\ main'.pc = stop.then
         /\ renderer' = renderer /\ renderer # "stopping" /\ exited' = exited /\ menuOn' = menuOn
         /\ ses' = ses
      \/ /\ stop.then \in {"gone", "exit"} /\ main' = main /\ main.pc \in RunPcs
         /\ renderer = "stopping" /\ renderer' = "gone" /\ menuOn' = menuOn
         /\ exited' \in {exited, TRUE} /\ ses' = ses
  <2>1. CASE stop.then = "menu"
    BY <1>1, <1>2, <1>3, <2>1 DEF StopOK, PlaceOK, NoStop, StopReset, Return, At
  <2>2. CASE stop.then \in {"join", "quit"}
    <3>1. stop.by = "main"
      BY <1>1, <1>2, <2>2 DEF StopOK
    <3>2. /\ main' = [pc |-> stop.then, line |-> None]
          /\ UNCHANGED <<renderer, menuOn, exited>> /\ ses' = ses
      BY <2>2 DEF StopReset, Return, At
    <3>3. main'.pc = stop.then
      BY <3>2
    <3>4. QED
      BY <1>3, <2>2, <3>1, <3>2, <3>3
  <2>3. CASE stop.then \in {"gone", "exit"}
    BY <1>1, <1>2, <1>3, <2>3 DEF StopOK, NoStop, StopReset, Return
  <2>4. QED
    BY <1>1, <2>1, <2>2, <2>3 DEF StopOK, NoStop, Return
<1>7. ctrlC' = ctrlC /\ main' \in Mains /\ renderer' \in {"off", "top", "tick", "stopping", "gone"}
      /\ menuOn' \in BOOLEAN /\ exited' \in BOOLEAN
  <2>1. ctrlC' = ctrlC /\ main' \in Mains
    BY <1>1, MainFacts DEF Return, At, TypesOK
  <2>2. QED
    BY <1>1, <1>6, <2>1 DEF TypesOK
<1>8. ses' \in Sess /\ (ses' = NoSession \/ ses' = ses)
      /\ NoSession \in Sess /\ NoSession.snapshot = None /\ ~NoSession.dhcp /\ ~NoSession.tftp
      /\ NoSession.epoch = 0
  <2>1. NoSession \in Sess
    BY FlashAssumption DEF NoSession, Sess, Epochs
  <2>2. QED
    BY <1>1, <1>6, <2>1 DEF TypesOK, NoSession
<1>9. EpochOK' /\ st'.epoch \in Epochs
  <2>1. StopsLeft \in Nat /\ StopsLeft' \in Nat /\ StopsLeft' + 1 <= StopsLeft
    <3>1. CASE stop.then = "menu"
      BY <1>2, <1>6, <3>1 DEF StopsLeft
    <3>2. CASE stop.then \in {"join", "quit"}
      <4>1. /\ main.pc = "stopping" /\ main'.pc \in {"join", "quit"} /\ renderer' = renderer
        BY <1>6, <3>2
      <4>2. /\ StopsLeft = 1 + (IF renderer \in {"off", "gone"} THEN 0 ELSE 1)
            /\ StopsLeft' = 0 + (IF renderer \in {"off", "gone"} THEN 0 ELSE 1)
        BY <3>2, <4>1 DEF StopsLeft
      <4>3. QED
        BY <4>2
    <3>3. CASE stop.then \in {"gone", "exit"}
      <4>1. main.pc \in RunPcs /\ main' = main /\ renderer = "stopping" /\ renderer' = "gone"
        BY <1>6, <3>3
      <4>2. /\ StopsLeft = (IF main.pc \in {"quit", "join"} THEN 0 ELSE 1) + 1
            /\ StopsLeft' = (IF main.pc \in {"quit", "join"} THEN 0 ELSE 1) + 0
        BY <4>1 DEF StopsLeft
      <4>3. QED
        BY <4>2
    <3>4. QED
      BY <1>6, <3>1, <3>2, <3>3
  <2> HIDE DEF StopsLeft
  <2>2. st'.epoch + StopsLeft' <= 3 * starts'
    BY <1>1, <1>2, <1>4, <1>5, <2>1 DEF EpochOK
  <2>3. 3 * starts <= 6 * MaxStarts
    BY <1>1, FlashAssumption DEF TypesOK
  <2>4. QED
    BY <1>2, <1>4, <1>5, <2>1, <2>2, <2>3, FlashAssumption DEF EpochOK, Epochs
<1>10. TypeOK'
  <2>1. st' \in Shared
    BY <1>1, <1>5, <1>9 DEF TypesOK, Shared, NoTransfer
  <2>2. QED
    BY <1>1, <1>2, <1>7, <1>8, <2>1, Types, Zenon DEF TypesOK
<1>11. StopOK' /\ PlaceOK'
  <2>1. StopOK'
    BY <1>2, <1>6 DEF StopOK
  <2>2. child' = NoChild
    BY <1>2, <1>3
  <2>3. menuOn' <=> main'.pc \in IdlePcs
    <3>1. menuOn \in BOOLEAN /\ (menuOn <=> main.pc \in IdlePcs)
      BY <1>1 DEF PlaceOK, TypesOK
    <3>2. CASE stop.then = "menu"
      BY <1>6, <3>2
    <3>3. CASE stop.then # "menu"
      <4>1. menuOn' = menuOn /\ main.pc \notin IdlePcs /\ main'.pc \notin IdlePcs
        BY <1>3, <1>6, <3>3
      <4>2. QED
        BY <3>1, <4>1
    <3>4. QED
      BY <3>2, <3>3
  <2>4. /\ ~InRun' => renderer' = "off"
        /\ InRun' /\ renderer' = "off" => exited'
    BY <1>1, <1>2, <1>3, <1>6 DEF PlaceOK
  <2>5. QED
    BY <2>1, <2>2, <2>3, <2>4 DEF PlaceOK
<1>12. ServersOK' /\ RestoreOK'
  BY <1>1, <1>2, <1>3, <1>5, <1>6, <1>8 DEF ServersOK, RestoreOK
<1>13. CleanOK'
  BY <1>1, <1>2, <1>3, <1>5, <1>6, <1>8 DEF CleanOK, RestoreOK
<1>14. LateOK'
  BY <1>1, <1>2, <1>4, <1>5, <1>8 DEF LateOK
<1>15. BannerMatchesTransfer'
  BY <1>5 DEF BannerMatchesTransfer, NoTransfer
<1>16. QED
  BY <1>9, <1>10, <1>11, <1>12, <1>13, <1>14, <1>15 DEF Inv

\* The renderer goes on, or ends with a session that no longer runs.
LEMMA RendererMoves ==
    ASSUME Inv, RenderStep, UNCHANGED stop
    PROVE  Inv'
<1> USE DEF IdlePcs, StartPcs, RunPcs, InRun, None
<1>1. TypesOK /\ StopOK /\ PlaceOK /\ ServersOK /\ RestoreOK /\ CleanOK /\ LateOK /\ EpochOK
  BY Types DEF Inv
<1>2. /\ renderer \in {"top", "tick"} /\ renderer' \in {"top", "tick", "gone"}
      /\ renderer' = "gone" => ~st.running /\ stop = NoStop
      /\ UNCHANGED <<admin, faulty, main, ctrlC, menuOn, exited, nic, rule, child, idle, heard,
                     transfer, granted, silent, menuNic, ses, st, stop, saved, starts, dirty>>
  <2>1. CASE RenderTop
    <3>1. stop' = stop => ~(MutexFree /\ BeginStop("renderer", TRUE, "exit"))
      BY DEF MutexFree, BeginStop, NoStop
    <3>2. QED
      BY <2>1, <3>1 DEF RenderStep, RenderTop, modes, network, servers
  <2>2. CASE RenderTick
    <3>1. stop' = stop => ~(MutexFree /\ BeginStop("renderer", TRUE, "gone"))
      BY DEF MutexFree, BeginStop, NoStop
    <3>2. QED
      BY <2>2, <3>1 DEF RenderStep, RenderTick, MutexFree, modes, network, servers
  <2>3. QED
    BY <2>1, <2>2 DEF RenderStep
<1>3. /\ renderer' \in {"off", "top", "tick", "stopping", "gone"}
      /\ st.epoch \in Nat /\ starts \in Nat
  BY <1>1, <1>2, FlashAssumption DEF TypesOK, Shared, Epochs
<1>4. TypeOK'
  BY <1>1, <1>2, <1>3, Types, Zenon DEF TypesOK
<1>5. StopOK'
  BY <1>1, <1>2, <1>3 DEF StopOK
<1>6. PlaceOK'
  BY <1>1, <1>2, <1>3 DEF PlaceOK
<1>7. ServersOK' /\ RestoreOK'
  BY <1>1, <1>2, <1>3 DEF ServersOK, RestoreOK
<1>8. CleanOK'
  BY <1>1, <1>2, <1>3 DEF CleanOK, RestoreOK
<1>9. LateOK'
  BY <1>1, <1>2, <1>3 DEF LateOK, Quiet
<1>10. EpochOK'
  BY <1>1, <1>2, <1>3 DEF EpochOK, StopsLeft
<1>11. BannerMatchesTransfer'
  BY <1>1, <1>2, <1>3 DEF Inv, BannerMatchesTransfer
<1>12. QED
  BY <1>4, <1>5, <1>6, <1>7, <1>8, <1>9, <1>10, <1>11 DEF Inv

\* The renderer stops the session: on Ctrl+C, or when the device has been silent.
LEMMA RendererStops ==
    ASSUME Inv, RenderStep, stop' # stop
    PROVE  Inv'
<1> USE DEF IdlePcs, StartPcs, RunPcs, InRun, None
<1>1. TypesOK /\ StopOK /\ PlaceOK /\ ServersOK /\ RestoreOK /\ CleanOK /\ LateOK /\ EpochOK
  BY Types DEF Inv
<1>2. /\ stop = NoStop /\ renderer \in {"top", "tick"} /\ renderer' = "stopping"
      /\ stop'.by = "renderer" /\ stop'.at = "save" /\ stop'.restore = TRUE
      /\ stop'.then \in {"gone", "exit"} /\ stop' \in Stops
      /\ ses' \in Sess /\ ses'.snapshot = ses.snapshot /\ ses'.epoch = ses.epoch
      /\ ses'.dhcp = ses.dhcp /\ ses'.tftp = ses.tftp
      /\ UNCHANGED <<admin, faulty, main, ctrlC, menuOn, exited, nic, rule, child, idle, heard,
                     transfer, granted, silent, menuNic, st, saved, starts, dirty>>
  <2>1. CASE RenderTop
    <3>1. /\ stop = NoStop /\ renderer = "top" /\ renderer' = "stopping" /\ ses' = ses
          /\ stop' = [by |-> "renderer", at |-> "save", restore |-> TRUE, then |-> "exit"]
      BY <2>1 DEF RenderTop, MutexFree, BeginStop
    <3>2. stop' \in Stops
      BY <3>1 DEF Stops
    <3>3. QED
      BY <1>1, <3>1, <3>2 DEF RenderStep, modes, network, servers, TypesOK
  <2>2. CASE RenderTick
    <3>1. /\ stop = NoStop /\ renderer = "tick" /\ renderer' = "stopping"
          /\ ses' = [ses EXCEPT !.auto = TRUE]
          /\ stop' = [by |-> "renderer", at |-> "save", restore |-> TRUE, then |-> "gone"]
      BY <2>2 DEF RenderTick, MutexFree, BeginStop
    <3>2. stop' \in Stops
      BY <3>1 DEF Stops
    <3>3. /\ ses' \in Sess /\ ses'.snapshot = ses.snapshot /\ ses'.epoch = ses.epoch
          /\ ses'.dhcp = ses.dhcp /\ ses'.tftp = ses.tftp
      BY <1>1, <3>1 DEF TypesOK, Sess
    <3>4. QED
      BY <3>1, <3>2, <3>3 DEF RenderStep, modes, network, servers
  <2>3. QED
    BY <2>1, <2>2 DEF RenderStep
<1>3. main.pc \in RunPcs /\ stop.at = None
  BY <1>1, <1>2 DEF PlaceOK, StopOK, NoStop
<1>4. TypeOK'
  BY <1>1, <1>2, <1>3, Types, Zenon DEF TypesOK
<1>5. StopOK'
  BY <1>1, <1>2, <1>3 DEF StopOK, NoStop
<1>6. PlaceOK'
  BY <1>1, <1>2, <1>3 DEF PlaceOK
<1>7. ServersOK' /\ RestoreOK'
  BY <1>1, <1>2, <1>3 DEF ServersOK, RestoreOK
<1>8. CleanOK'
  BY <1>1, <1>2, <1>3 DEF CleanOK, RestoreOK
<1>9. LateOK'
  BY <1>1, <1>2, <1>3 DEF LateOK, Quiet
<1>10. EpochOK'
  BY <1>1, <1>2, <1>3 DEF EpochOK, StopsLeft
<1>11. BannerMatchesTransfer'
  BY <1>1, <1>2, <1>3 DEF Inv, BannerMatchesTransfer
<1>12. QED
  BY <1>4, <1>5, <1>6, <1>7, <1>8, <1>9, <1>10, <1>11 DEF Inv

\* The menu is shown, or waits for a line, with the adapter as it enumerated it.
LEMMA MenuGoes ==
    ASSUME Inv, MainStep \/ UserLine, main.pc \in IdlePcs, exited' = exited
    PROVE  Inv'
<1> USE DEF IdlePcs, StartPcs, RunPcs, InRun, None
<1>1. TypesOK /\ StopOK /\ PlaceOK /\ ServersOK /\ RestoreOK /\ CleanOK /\ LateOK /\ EpochOK
  BY Types DEF Inv
<1>2. /\ main'.pc \in {"top", "menu"} /\ main' \in Mains
      /\ menuNic' \in {nic, menuNic}
      /\ UNCHANGED <<admin, faulty, renderer, ctrlC, menuOn, exited, nic, rule, child, idle, heard,
                     transfer, granted, silent, ses, st, stop, saved, starts, dirty>>
  <2>1. CASE MenuTop
    BY <1>1, <2>1, MainFacts DEF MenuTop, At, MainStep, UserLine, modes, network, servers,
                                 TypesOK
  <2>2. CASE MenuOther
    BY <2>2, MainFacts DEF MenuOther, At, MainStep, UserLine, modes, network, servers
  <2>3. CASE MenuQuit
    BY <1>1, <2>3 DEF MenuQuit, MainStep, UserLine, modes, network, servers, TypesOK
  <2>4. QED
    BY <2>1, <2>2, <2>3 DEF MainStep, UserLine, ViewTop, Panel, Act, Quit, Join, ReadLine
<1>3. menuNic' \in Confs /\ stop = NoStop
  BY <1>1, <1>2 DEF TypesOK, StopOK, PlaceOK
<1>4. TypeOK'
  BY <1>1, <1>2, <1>3, Types, Zenon DEF TypesOK
<1>5. StopOK'
  BY <1>1, <1>2, <1>3 DEF StopOK
<1>6. PlaceOK'
  BY <1>1, <1>2, <1>3 DEF PlaceOK
<1>7. ServersOK' /\ RestoreOK'
  BY <1>1, <1>2, <1>3 DEF ServersOK, RestoreOK
<1>8. CleanOK'
  BY <1>1, <1>2, <1>3 DEF CleanOK, RestoreOK
<1>9. LateOK'
  BY <1>1, <1>2, <1>3 DEF LateOK, Quiet
<1>10. EpochOK'
  BY <1>1, <1>2, <1>3 DEF EpochOK, StopsLeft
<1>11. BannerMatchesTransfer'
  BY <1>1, <1>2, <1>3 DEF Inv, BannerMatchesTransfer
<1>12. QED
  BY <1>4, <1>5, <1>6, <1>7, <1>8, <1>9, <1>10, <1>11 DEF Inv

\* The process ends in the menu: by the watchdog, by Ctrl+C or by the user's choice.
LEMMA MenuExits ==
    ASSUME Inv, exited' # exited, Watchdog \/ ((MainStep \/ UserLine) /\ main.pc \in IdlePcs)
    PROVE  Inv'
<1> USE DEF IdlePcs, StartPcs, RunPcs, InRun, None
<1>1. TypesOK /\ StopOK /\ PlaceOK /\ ServersOK /\ RestoreOK /\ CleanOK /\ LateOK /\ EpochOK
  BY Types DEF Inv
<1>2. /\ main.pc \in IdlePcs /\ exited' = TRUE
      /\ UNCHANGED <<admin, faulty, main, renderer, ctrlC, menuOn, nic, rule, child, idle, heard,
                     transfer, granted, silent, menuNic, ses, st, stop, saved, starts, dirty>>
  <2>1. CASE Watchdog
    BY <1>1, <2>1 DEF Watchdog, PlaceOK, modes, network, servers
  <2>2. CASE MenuTop
    BY <2>2 DEF MenuTop, MainStep, UserLine, Watchdog, modes, network, servers
  <2>3. CASE MenuQuit
    BY <2>3 DEF MenuQuit, MainStep, UserLine, Watchdog, modes, network, servers
  <2>4. QED
    BY <2>1, <2>2, <2>3 DEF MainStep, UserLine, ViewTop, Panel, Act, Quit, Join, ReadLine,
                            MenuOther
<1>3. TypeOK'
  BY <1>1, <1>2, Types, Zenon DEF TypesOK
<1>4. StopOK'
  BY <1>1, <1>2 DEF StopOK
<1>5. PlaceOK'
  BY <1>1, <1>2 DEF PlaceOK
<1>6. ServersOK' /\ RestoreOK'
  BY <1>1, <1>2 DEF ServersOK, RestoreOK
<1>7. CleanOK'
  BY <1>1, <1>2 DEF CleanOK, RestoreOK
<1>8. LateOK'
  BY <1>1, <1>2 DEF LateOK, Quiet
<1>9. EpochOK'
  BY <1>1, <1>2 DEF EpochOK, StopsLeft
<1>10. BannerMatchesTransfer'
  BY <1>1, <1>2 DEF Inv, BannerMatchesTransfer
<1>11. QED
  BY <1>3, <1>4, <1>5, <1>6, <1>7, <1>8, <1>9, <1>10 DEF Inv

\* The input loop goes on while no stop of its own begins.
LEMMA InputGoes ==
    ASSUME Inv, MainStep \/ UserLine, main.pc \in RunPcs, main'.pc \in RunPcs,
           UNCHANGED <<exited, ses, renderer>>
    PROVE  Inv'
<1> USE DEF IdlePcs, StartPcs, RunPcs, InRun, None
<1>1. TypesOK /\ StopOK /\ PlaceOK /\ ServersOK /\ RestoreOK /\ CleanOK /\ LateOK /\ EpochOK
  BY Types DEF Inv
<1>2. /\ main' \in Mains /\ stop' = stop /\ ctrlC' \in BOOLEAN
      /\ main.pc \in {"quit", "join"} => main'.pc = "join"
      /\ UNCHANGED <<admin, faulty, renderer, menuOn, exited, nic, rule, child, idle, heard,
                     transfer, granted, silent, menuNic, ses, st, saved, starts, dirty>>
  <2>1. UNCHANGED <<admin, faulty, nic, rule, child, idle, heard, transfer, granted, silent,
                    st, saved, starts, dirty>>
    BY DEF MainStep, UserLine, modes, network, servers
  <2>2. CASE ViewTop
    BY <1>1, <2>1, <2>2, MainFacts DEF ViewTop, At, TypesOK
  <2>3. CASE ReadLine
    <3>1. \E l \in Lines : \/ main' = [pc |-> "panel", line |-> l]
                           \/ main' = [pc |-> "act", line |-> l]
      BY <2>3 DEF ReadLine
    <3>2. main' \in Mains
      BY <3>1 DEF Mains
    <3>3. QED
      BY <1>1, <2>1, <2>3, <3>2 DEF ReadLine, TypesOK
  <2>4. CASE Panel
    <3>1. At("stopping") => main'.pc = "stopping"
      BY DEF At
    <3>2. At("join") \/ At("menu2") \/ main' = [main EXCEPT !.pc = "act"]
      BY <2>4, <3>1 DEF Panel
    <3>3. main' \in Mains
      <4>1. main \in Mains
        BY <1>1 DEF TypesOK
      <4>2. QED
        BY <3>2, <4>1, MainFacts DEF At, Mains
    <3>4. QED
      BY <1>1, <2>1, <2>4, <3>1, <3>3 DEF Panel, TypesOK
  <2>5. CASE Act
    <3>1. At("stopping") => main'.pc = "stopping"
      BY DEF At
    <3>2. QED
      BY <1>1, <2>1, <2>5, <3>1, MainFacts DEF Act, At, TypesOK
  <2>6. CASE Quit
    BY <1>1, <2>1, <2>6, MainFacts DEF Quit, At, TypesOK
  <2>7. CASE Join
    BY <2>7 DEF Join
  <2>8. QED
    BY <2>2, <2>3, <2>4, <2>5, <2>6, <2>7 DEF MainStep, UserLine, MenuTop, MenuQuit, MenuOther
<1>3. st.epoch \in Nat /\ starts \in Nat
  BY <1>1, FlashAssumption DEF TypesOK, Shared, Epochs
<1>4. TypeOK'
  BY <1>1, <1>2, <1>3, Types, Zenon DEF TypesOK
<1>5. StopOK'
  BY <1>1, <1>2, <1>3 DEF StopOK
<1>6. PlaceOK'
  BY <1>1, <1>2, <1>3 DEF PlaceOK
<1>7. ServersOK' /\ RestoreOK'
  BY <1>1, <1>2, <1>3 DEF ServersOK, RestoreOK
<1>8. CleanOK'
  BY <1>1, <1>2, <1>3 DEF CleanOK, RestoreOK
<1>9. LateOK'
  BY <1>1, <1>2, <1>3 DEF LateOK, Quiet
<1>10. EpochOK'
  BY <1>1, <1>2, <1>3 DEF EpochOK, StopsLeft
<1>11. BannerMatchesTransfer'
  BY <1>1, <1>2, <1>3 DEF Inv, BannerMatchesTransfer
<1>12. QED
  BY <1>4, <1>5, <1>6, <1>7, <1>8, <1>9, <1>10, <1>11 DEF Inv

\* The user ends the session, or the input does: the main thread stops it.
LEMMA InputStops ==
    ASSUME Inv, MainStep \/ UserLine, main.pc \in RunPcs, main'.pc \notin RunPcs,
           UNCHANGED <<exited, ses, renderer>>
    PROVE  Inv'
<1> USE DEF IdlePcs, StartPcs, RunPcs, InRun, None
<1>1. TypesOK /\ StopOK /\ PlaceOK /\ ServersOK /\ RestoreOK /\ CleanOK /\ LateOK /\ EpochOK
  BY Types DEF Inv
<1>2. /\ main' \in Mains /\ main'.pc = "stopping" /\ stop = NoStop
      /\ main.pc \in {"panel", "act"} /\ renderer # "stopping"
      /\ stop'.by = "main" /\ stop'.at = "save" /\ stop'.restore = TRUE
      /\ stop'.then \in {"join", "quit"} /\ stop' \in Stops /\ ctrlC' \in BOOLEAN
      /\ UNCHANGED <<admin, faulty, renderer, menuOn, exited, nic, rule, child, idle, heard,
                     transfer, granted, silent, menuNic, ses, st, saved, starts, dirty>>
  <2>1. UNCHANGED <<admin, faulty, nic, rule, child, idle, heard, transfer, granted, silent,
                    st, saved, starts, dirty>>
    BY DEF MainStep, UserLine, modes, network, servers
  <2>2. ~ViewTop /\ ~ReadLine /\ ~Quit /\ ~Join
    BY DEF ViewTop, ReadLine, Quit, Join, At
  <2>3. Panel \/ Act
    BY <2>2 DEF MainStep, UserLine, MenuTop, MenuQuit, MenuOther
  <2>4. /\ main.pc \in {"panel", "act"} /\ stop = NoStop /\ At("stopping")
        /\ BeginStop("main", TRUE, "join") \/ BeginStop("main", TRUE, "quit")
        /\ UNCHANGED <<ctrlC, menuOn, menuNic>>
    <3>1. CASE Panel
      <4>1. /\ At("join") => main'.pc = "join"
            /\ At("menu2") => main'.pc = "menu2"
            /\ main' = [main EXCEPT !.pc = "act"] => main'.pc = "act"
        BY <1>1 DEF TypesOK, Mains, At
      <4>2. QED
        BY <3>1, <4>1 DEF Panel, MutexFree
    <3>2. CASE Act
      <4>1. At("view") => main'.pc = "view"
        BY DEF At
      <4>2. BeginStop("main", TRUE, IF main.line = "1" THEN "join" ELSE "quit")
            => BeginStop("main", TRUE, "join") \/ BeginStop("main", TRUE, "quit")
        BY DEF BeginStop
      <4>3. QED
        BY <3>2, <4>1, <4>2 DEF Act, MutexFree
    <3>3. QED
      BY <2>3, <3>1, <3>2
  <2>5. main' \in Mains /\ main'.pc = "stopping"
    BY <2>4, MainFacts DEF At
  <2>6. \E then \in {"join", "quit"} :
           stop' = [by |-> "main", at |-> "save", restore |-> TRUE, then |-> then]
    BY <2>4 DEF BeginStop
  <2>7. /\ stop'.by = "main" /\ stop'.at = "save" /\ stop'.restore = TRUE
        /\ stop'.then \in {"join", "quit"} /\ stop' \in Stops
    BY <2>6 DEF Stops
  <2>8. renderer # "stopping" /\ ctrlC' \in BOOLEAN
    BY <1>1, <2>4 DEF StopOK, TypesOK, NoStop
  <2>9. QED
    BY <2>1, <2>4, <2>5, <2>7, <2>8
<1>3. st.epoch \in Nat /\ starts \in Nat /\ stop.at = None
  BY <1>1, <1>2, FlashAssumption DEF TypesOK, Shared, Epochs, NoStop
<1>4. TypeOK'
  BY <1>1, <1>2, <1>3, Types, Zenon DEF TypesOK
<1>5. StopOK'
  BY <1>1, <1>2, <1>3 DEF StopOK
<1>6. PlaceOK'
  BY <1>1, <1>2, <1>3 DEF PlaceOK
<1>7. ServersOK' /\ RestoreOK'
  BY <1>1, <1>2, <1>3 DEF ServersOK, RestoreOK
<1>8. CleanOK'
  BY <1>1, <1>2, <1>3 DEF CleanOK, RestoreOK
<1>9. LateOK'
  BY <1>1, <1>2, <1>3 DEF LateOK, Quiet
<1>10. EpochOK'
  BY <1>1, <1>2, <1>3 DEF EpochOK, StopsLeft
<1>11. BannerMatchesTransfer'
  BY <1>1, <1>2, <1>3 DEF Inv, BannerMatchesTransfer
<1>12. QED
  BY <1>4, <1>5, <1>6, <1>7, <1>8, <1>9, <1>10, <1>11 DEF Inv

\* The renderer is joined and the session dropped; the menu returns or the process ends.
LEMMA SessionLeft ==
    ASSUME Inv, Join, MainStep
    PROVE  Inv'
<1> USE DEF IdlePcs, StartPcs, RunPcs, InRun, None
<1>1. TypesOK /\ StopOK /\ PlaceOK /\ ServersOK /\ RestoreOK /\ CleanOK /\ LateOK /\ EpochOK
  BY Types DEF Inv
<1>2. /\ main.pc = "join" /\ renderer = "gone" /\ renderer' = "off"
      /\ ses' = NoSession /\ ses' \in Sess /\ ses'.snapshot = None /\ ~ses'.dhcp /\ ~ses'.tftp
      /\ ses'.epoch = 0 /\ main' \in Mains /\ stop = NoStop /\ stop.at = None /\ ~st.running /\ ~dirty
      /\ \/ exited' = TRUE /\ main' = main /\ menuOn' = menuOn
         \/ exited' = exited /\ main'.pc = "top" /\ menuOn' = TRUE
      /\ UNCHANGED <<admin, faulty, ctrlC, nic, rule, child, idle, heard,
                     transfer, granted, silent, menuNic, st, stop, saved, starts, dirty>>
  <2>1. UNCHANGED <<admin, faulty, nic, rule, child, idle, heard, transfer, granted, silent,
                    st, saved, starts, dirty>>
    BY DEF MainStep, modes, network, servers
  <2>2. /\ ses' = NoSession /\ ses' \in Sess /\ ses'.snapshot = None /\ ~ses'.dhcp /\ ~ses'.tftp
        /\ ses'.epoch = 0
    BY FlashAssumption DEF Join, NoSession, Sess, Epochs
  <2>3. stop = NoStop /\ stop.at = None /\ ~st.running /\ ~dirty
    BY <1>1 DEF Join, StopOK, ServersOK, RestoreOK, NoStop
  <2>4. main' \in Mains
    BY <1>1, MainFacts DEF Join, At, TypesOK
  <2>5. QED
    BY <2>1, <2>2, <2>3, <2>4 DEF Join, At
<1>3. st.epoch \in Nat /\ starts \in Nat
  BY <1>1, FlashAssumption DEF TypesOK, Shared, Epochs
<1>4. TypeOK'
  BY <1>1, <1>2, <1>3, Types, Zenon DEF TypesOK
<1>5. StopOK'
  BY <1>1, <1>2, <1>3 DEF StopOK
<1>6. PlaceOK'
  BY <1>1, <1>2, <1>3 DEF PlaceOK
<1>7. ServersOK' /\ RestoreOK'
  BY <1>1, <1>2, <1>3 DEF ServersOK, RestoreOK
<1>8. CleanOK'
  BY <1>1, <1>2, <1>3 DEF CleanOK, RestoreOK
<1>9. LateOK'
  BY <1>1, <1>2, <1>3 DEF LateOK, Quiet
<1>10. EpochOK'
  BY <1>1, <1>2, <1>3 DEF EpochOK, StopsLeft
<1>11. BannerMatchesTransfer'
  BY <1>1, <1>2, <1>3 DEF Inv, BannerMatchesTransfer
<1>12. QED
  BY <1>4, <1>5, <1>6, <1>7, <1>8, <1>9, <1>10, <1>11 DEF Inv

\* The user presses Ctrl+C.
LEMMA CtrlCPressed ==
    ASSUME Inv, PressCtrlC
    PROVE  Inv'
<1> USE DEF IdlePcs, StartPcs, RunPcs, InRun, None
<1>1. TypesOK /\ StopOK /\ PlaceOK /\ ServersOK /\ RestoreOK /\ CleanOK /\ LateOK /\ EpochOK
  BY Types DEF Inv
<1>2. /\ ctrlC' = TRUE
      /\ UNCHANGED <<admin, faulty, main, renderer, menuOn, exited, nic, rule, child, idle, heard,
                     transfer, granted, silent, menuNic, ses, st, stop, saved, starts, dirty>>
  BY DEF PressCtrlC, modes, network, servers
<1>3. TypeOK'
  BY <1>1, <1>2, Types, Zenon DEF TypesOK
<1>4. StopOK'
  BY <1>1, <1>2 DEF StopOK
<1>5. PlaceOK'
  BY <1>1, <1>2 DEF PlaceOK
<1>6. ServersOK' /\ RestoreOK'
  BY <1>1, <1>2 DEF ServersOK, RestoreOK
<1>7. CleanOK'
  BY <1>1, <1>2 DEF CleanOK, RestoreOK
<1>8. LateOK'
  BY <1>1, <1>2 DEF LateOK, Quiet
<1>9. EpochOK'
  BY <1>1, <1>2 DEF EpochOK, StopsLeft
<1>10. BannerMatchesTransfer'
  BY <1>1, <1>2 DEF Inv, BannerMatchesTransfer
<1>11. QED
  BY <1>3, <1>4, <1>5, <1>6, <1>7, <1>8, <1>9, <1>10 DEF Inv

\* A server's step keeps the invariant if it keeps the epoch and the flag of the session,
\* the epochs of the transfers, and what a session at rest shows.
LEMMA ServerKeeps ==
    ASSUME Inv, ServerStep,
           st' \in Shared, st'.epoch = st.epoch, st'.running = st.running,
           transfer' \in [Transfers -> Threads],
           idle' \in 0 .. IdleLimit, silent' \in 0 .. IdleLimit, heard' \in BOOLEAN,
           granted' \in 0 .. MaxGrants,
           LateOK', BannerMatchesTransfer'
    PROVE  Inv'
<1> USE DEF IdlePcs, StartPcs, RunPcs, InRun, None
<1>1. TypesOK /\ StopOK /\ PlaceOK /\ ServersOK /\ RestoreOK /\ CleanOK /\ LateOK /\ EpochOK
  BY Types DEF Inv
<1>2. UNCHANGED <<admin, faulty, main, renderer, ctrlC, menuOn, exited, nic, rule, child,
                     menuNic, ses, stop, saved, starts, dirty>>
  BY DEF ServerStep, modes, control, network
<1>3. TypeOK'
  BY <1>1, <1>2, Types, Zenon DEF TypesOK
<1>4. StopOK' /\ PlaceOK'
  BY <1>1, <1>2 DEF StopOK, PlaceOK
<1>5. ServersOK' /\ RestoreOK' /\ CleanOK'
  BY <1>1, <1>2 DEF ServersOK, RestoreOK, CleanOK
<1>6. EpochOK'
  BY <1>1, <1>2 DEF EpochOK, StopsLeft
<1>7. QED
  BY <1>3, <1>4, <1>5, <1>6 DEF Inv

\* Where no session is shown no server runs, but for DHCP during a start.
LEMMA QuietServers ==
    ASSUME Inv, Quiet
    PROVE  ~ses.tftp /\ (main.pc # "tftp" => ~ses.dhcp)
BY DEF Inv, ServersOK, Quiet, IdlePcs, StartPcs, RunPcs, InRun

\* A DHCP packet, or the clock.
LEMMA DhcpHeard ==
    ASSUME Inv, ServerStep, DhcpPacket \/ Tick
    PROVE  Inv'
<1> USE DEF IdlePcs, StartPcs, RunPcs, InRun, None
<1>1. TypesOK /\ StopOK /\ PlaceOK /\ ServersOK /\ RestoreOK /\ CleanOK /\ LateOK /\ EpochOK
  BY Types DEF Inv
<1>2. UNCHANGED <<admin, faulty, main, renderer, ctrlC, menuOn, exited, nic, rule, child,
                     menuNic, ses, stop, saved, starts, dirty>>
  BY DEF ServerStep, modes, control, network
<1>3. /\ ses.dhcp /\ transfer' = transfer
      /\ st' = st \/ st' = [st EXCEPT !.device = TRUE]
      /\ heard' \in BOOLEAN
  BY <1>1 DEF DhcpPacket, Tick, TypesOK
<1>4. /\ st' \in Shared /\ st'.epoch = st.epoch /\ st'.running = st.running
      /\ st'.transfer = st.transfer /\ st'.done = st.done
  BY <1>1, <1>3 DEF TypesOK, Shared
<1>5. idle' \in 0 .. IdleLimit /\ silent' \in 0 .. IdleLimit /\ granted' \in 0 .. MaxGrants
  <2>1. CASE DhcpPacket
    BY <1>1, <2>1, FlashAssumption DEF DhcpPacket, TypesOK
  <2>2. CASE Tick
    BY <1>1, <2>2, FlashAssumption DEF Tick, TypesOK
  <2>3. QED
    BY <2>1, <2>2
<1>6. LateOK'
  <2>1. Quiet' <=> Quiet
    BY <1>2, <1>4 DEF Quiet
  <2>2. Quiet => main.pc = "tftp"
    BY <1>3, QuietServers
  <2>3. QED
    BY <1>1, <1>2, <1>3, <1>4, <2>1, <2>2 DEF LateOK
<1>7. BannerMatchesTransfer'
  BY <1>4 DEF Inv, BannerMatchesTransfer
<1>8. QED
  BY <1>1, <1>3, <1>4, <1>5, <1>6, <1>7, ServerKeeps DEF TypesOK

\* A read request starts a transfer with the epoch of its session.
LEMMA TransferStarts ==
    ASSUME Inv, ServerStep, NEW t \in Transfers, Request(t)
    PROVE  Inv'
<1> USE DEF IdlePcs, StartPcs, RunPcs, InRun, None
<1>1. TypesOK /\ StopOK /\ PlaceOK /\ ServersOK /\ RestoreOK /\ CleanOK /\ LateOK /\ EpochOK
  BY Types DEF Inv
<1>2. UNCHANGED <<admin, faulty, main, renderer, ctrlC, menuOn, exited, nic, rule, child,
                     menuNic, ses, stop, saved, starts, dirty>>
  BY DEF ServerStep, modes, control, network
<1>3. PICK r \in Remotes : transfer' = [transfer EXCEPT ![t] =
                              [on |-> TRUE, epoch |-> ses.epoch, remote |-> r]]
  BY DEF Request
<1>4. ses.tftp /\ silent' = 0 /\ UNCHANGED <<st, idle, heard, granted>>
  BY DEF Request
<1>5. transfer' \in [Transfers -> Threads]
  <2>1. [on |-> TRUE, epoch |-> ses.epoch, remote |-> r] \in Threads
    BY <1>1 DEF TypesOK, Sess, Threads
  <2>2. QED
    BY <1>1, <1>3, <2>1 DEF TypesOK
<1>6. \A u \in Transfers : transfer'[u].epoch \in {transfer[u].epoch, ses.epoch}
                           /\ (transfer'[u].epoch # ses.epoch => transfer'[u] = transfer[u])
  BY <1>1, <1>3 DEF TypesOK
<1>7. LateOK'
  <2>1. ~Quiet /\ (Quiet' <=> Quiet)
    BY <1>2, <1>4, QuietServers DEF Quiet
  <2>2. \A u \in Transfers : transfer'[u].on => transfer'[u].epoch <= st.epoch
    BY <1>1, <1>6 DEF LateOK
  <2>3. QED
    BY <1>1, <1>2, <1>4, <2>1, <2>2 DEF LateOK
<1>8. silent' \in 0 .. IdleLimit
  BY <1>4, FlashAssumption
<1>9. BannerMatchesTransfer'
  BY <1>4 DEF Inv, BannerMatchesTransfer
<1>10. QED
  BY <1>1, <1>4, <1>5, <1>7, <1>8, <1>9, ServerKeeps DEF TypesOK

\* A transfer reports its progress or its end; the report of a transfer of an earlier
\* session is dropped.
LEMMA TransferReports ==
    ASSUME Inv, ServerStep, NEW t \in Transfers, Progress(t) \/ Finish(t)
    PROVE  Inv'
<1> USE DEF IdlePcs, StartPcs, RunPcs, InRun, None
<1>1. TypesOK /\ StopOK /\ PlaceOK /\ ServersOK /\ RestoreOK /\ CleanOK /\ LateOK /\ EpochOK
  BY Types DEF Inv
<1>2. UNCHANGED <<admin, faulty, main, renderer, ctrlC, menuOn, exited, nic, rule, child,
                     menuNic, ses, stop, saved, starts, dirty>>
  BY DEF ServerStep, modes, control, network
<1>3. /\ transfer[t].on /\ UNCHANGED <<idle, heard, granted>> /\ silent' \in {0, silent}
      /\ transfer' \in {transfer, [transfer EXCEPT ![t] = Off]}
  BY DEF Progress, Finish
<1>4. \/ ~Current(t) /\ st' = st
      \/ /\ Current(t)
         /\ \/ st' = [st EXCEPT !.transfer = Snapshot(t, FALSE, FALSE),
                                !.done = @ /\ ~AnotherRound(t)]
            \/ \E ok \in BOOLEAN :
                  st' = [st EXCEPT !.transfer = Snapshot(t, TRUE, ok), !.done = ok]
  BY DEF Progress, Finish
<1>5. /\ transfer[t].remote \in Remotes \cup {None} /\ st.done \in BOOLEAN
      /\ transfer \in [Transfers -> Threads] /\ st \in Shared
  BY <1>1 DEF TypesOK, Threads, Shared
<1>6. /\ st' \in Shared /\ st'.epoch = st.epoch /\ st'.running = st.running
      /\ st'.device = st.device
      /\ (st'.transfer = st.transfer /\ st'.done = st.done) \/ Current(t)
      /\ BannerMatchesTransfer'
  <2>1. CASE ~Current(t)
    BY <1>4, <1>5, <2>1 DEF Inv, BannerMatchesTransfer
  <2>2. CASE st' = [st EXCEPT !.transfer = Snapshot(t, FALSE, FALSE),
                              !.done = @ /\ ~AnotherRound(t)] /\ Current(t)
    <3>1. st.done => AnotherRound(t)
      BY DEF Inv, BannerMatchesTransfer, AnotherRound, NoTransfer
    <3>2. st' = [st EXCEPT !.transfer = Snapshot(t, FALSE, FALSE), !.done = FALSE]
      BY <1>5, <2>2, <3>1
    <3>3. st'.done = FALSE /\ st'.transfer = Snapshot(t, FALSE, FALSE)
          /\ UNCHANGED <<st.running, st.device, st.epoch>>
      BY <1>5, <3>2 DEF Shared
    <3>4. Snapshot(t, FALSE, FALSE) \in [remote : Remotes \cup {None}, done : BOOLEAN, ok : BOOLEAN]
          /\ Snapshot(t, FALSE, FALSE).done = FALSE
      BY <1>5 DEF Snapshot
    <3>5. st' \in Shared
      BY <1>5, <3>2, <3>4 DEF Shared
    <3>6. QED
      BY <2>2, <3>3, <3>4, <3>5 DEF BannerMatchesTransfer
  <2>3. CASE Current(t) /\ \E ok \in BOOLEAN :
                  st' = [st EXCEPT !.transfer = Snapshot(t, TRUE, ok), !.done = ok]
    <3>1. PICK ok \in BOOLEAN :
                  st' = [st EXCEPT !.transfer = Snapshot(t, TRUE, ok), !.done = ok]
      BY <2>3
    <3>2. st'.done = ok /\ st'.transfer = Snapshot(t, TRUE, ok)
          /\ UNCHANGED <<st.running, st.device, st.epoch>>
      BY <1>5, <3>1 DEF Shared
    <3>3. Snapshot(t, TRUE, ok) \in [remote : Remotes \cup {None}, done : BOOLEAN, ok : BOOLEAN]
          /\ Snapshot(t, TRUE, ok).done = TRUE /\ Snapshot(t, TRUE, ok).ok = ok
      BY <1>5 DEF Snapshot
    <3>4. st' \in Shared
      BY <1>5, <3>1, <3>3 DEF Shared
    <3>5. QED
      BY <2>3, <3>2, <3>3, <3>4 DEF BannerMatchesTransfer
  <2>4. QED
    BY <1>4, <2>1, <2>2, <2>3
<1>7. /\ transfer' \in [Transfers -> Threads]
      /\ \A u \in Transfers : transfer'[u].on => transfer'[u] = transfer[u]
  <2>1. Off \in Threads /\ ~Off.on
    BY FlashAssumption DEF Off, Threads, Epochs
  <2>2. QED
    BY <1>3, <1>5, <2>1
<1>8. LateOK'
  <2>1. Quiet' <=> Quiet
    BY <1>2, <1>6 DEF Quiet
  <2>2. Quiet => ~Current(t)
    BY <1>1, <1>3 DEF LateOK, Current
  <2>3. QED
    BY <1>1, <1>2, <1>6, <1>7, <2>1, <2>2 DEF LateOK
<1>9. silent' \in 0 .. IdleLimit
  BY <1>1, <1>3, FlashAssumption DEF TypesOK
<1>10. QED
  BY <1>1, <1>3, <1>6, <1>7, <1>8, <1>9, ServerKeeps DEF TypesOK

\* The invariant holds when the program starts.
LEMMA InitInv ==
    ASSUME Init
    PROVE  Inv
<1> USE DEF IdlePcs, StartPcs, RunPcs, InRun, None
<1>1. /\ main.pc = "top" /\ main \in Mains /\ renderer = "off" /\ child \in Children
      /\ child.snap = None /\ child = NoChild /\ stop = NoStop /\ stop.at = None
      /\ stop.then = None /\ stop \in Stops
  BY DEF Init, NoChild, NoStop, Mains, Children, Stops
<1>2. /\ ses \in Sess /\ ses.epoch = 0 /\ ses.snapshot = None /\ ~ses.dhcp /\ ~ses.tftp
  BY FlashAssumption DEF Init, NoSession, Sess, Epochs
<1>3. /\ st \in Shared /\ st.epoch = 0 /\ ~st.running /\ ~st.device /\ ~st.done
      /\ st.transfer = NoTransfer
  BY FlashAssumption DEF Init, NoTransfer, Shared, Epochs
<1>4. /\ transfer \in [Transfers -> Threads]
      /\ \A t \in Transfers : ~transfer[t].on
  BY FlashAssumption DEF Init, Off, Threads, Epochs
<1>5. TypeOK
  <2>1. /\ admin \in BOOLEAN /\ faulty \in BOOLEAN /\ idle = 0 /\ silent = 0
        /\ granted = 0 /\ saved = 0 /\ starts = 0
        /\ 0 \in 0 .. IdleLimit /\ 0 \in 0 .. MaxGrants /\ 0 \in 0 .. MaxStarts
    BY FlashAssumption DEF Init
  <2>2. QED
    BY <1>1, <1>2, <1>3, <1>4, <2>1, Types DEF TypesOK, Init, Confs
<1>6. StopOK /\ PlaceOK /\ ServersOK /\ RestoreOK /\ CleanOK
  BY <1>1, <1>2, <1>3 DEF Init, StopOK, PlaceOK, ServersOK, RestoreOK, CleanOK
<1>7. LateOK /\ EpochOK /\ BannerMatchesTransfer
  BY <1>1, <1>2, <1>3, <1>4 DEF Init, LateOK, Quiet, EpochOK, StopsLeft,
                               BannerMatchesTransfer, NoTransfer
<1>8. QED
  BY <1>5, <1>6, <1>7 DEF Inv

\* A step of the main thread keeps the invariant.
LEMMA MainInv ==
    ASSUME Inv, ~exited, MainStep \/ UserLine
    PROVE  Inv'
<1>1. main.pc \in IdlePcs \/ main.pc \in RunPcs
  BY DEF MainStep, UserLine, MenuTop, ViewTop, Panel, Act, Quit, Join, MenuQuit, MenuOther,
         ReadLine, IdlePcs, RunPcs
<1>2. CASE main.pc \in IdlePcs
  BY <1>2, MenuGoes, MenuExits
<1>3. CASE main.pc \in RunPcs
  <2>1. CASE Join
    BY <2>1, SessionLeft DEF MainStep, UserLine, Join, MenuQuit, MenuOther, ReadLine
  <2>2. CASE ~Join
    <3>1. UNCHANGED <<exited, ses, renderer>>
      BY <1>3, <2>2 DEF MainStep, UserLine, MenuTop, ViewTop, Panel, Act, Quit, MenuQuit,
                        MenuOther, ReadLine, RunPcs
    <3>2. QED
      BY <1>3, <3>1, InputGoes, InputStops
  <2>3. QED
    BY <2>1, <2>2
<1>4. QED
  BY <1>1, <1>2, <1>3

\* Every step keeps the invariant, whatever thread takes it.
LEMMA NextInv ==
    ASSUME Inv, [Next]_vars
    PROVE  Inv'
<1>1. CASE StartSession
  BY <1>1, SessionStarts
<1>2. CASE ~exited /\ Starting
  BY <1>2, ServerStarts, AdapterSet, SessionStarted DEF Starting
<1>3. CASE ~exited /\ (MainStep \/ UserLine)
  BY <1>3, MainInv
<1>4. CASE RenderStep
  BY <1>4, RendererMoves, RendererStops
<1>5. CASE StopStep
  <2>1. CASE UNCHANGED control /\ (StopSave \/ StopServers \/ StopRestore \/ StopElevate
                                   \/ StopElevated)
    BY <1>5, <2>1, TableSaved, ServersStopped, AdapterRestored, ChildRestores, ChildRestored
  <2>2. CASE StopReset /\ Return
    BY <1>5, <2>2, StopEnds DEF StopStep
  <2>3. QED
    BY <1>5, <2>1, <2>2 DEF StopStep
<1>6. CASE ServerStep
  BY <1>6, DhcpHeard, TransferStarts, TransferReports DEF ServerStep
<1>7. CASE PressCtrlC
  BY <1>7, CtrlCPressed
<1>8. CASE ~exited /\ Watchdog
  BY <1>8, MenuExits DEF Watchdog
<1>9. CASE ~exited /\ ChildStep
  BY <1>9, ChildGoes
<1>10. CASE UNCHANGED vars
  <2> USE DEF vars, modes, control, network, servers
  <2>1. TypeOK' /\ StopOK' /\ PlaceOK'
    BY <1>10 DEF Inv, TypeOK, StopOK, PlaceOK, InRun
  <2>2. ServersOK' /\ RestoreOK' /\ CleanOK'
    BY <1>10 DEF Inv, ServersOK, RestoreOK, CleanOK, InRun
  <2>3. LateOK' /\ EpochOK' /\ BannerMatchesTransfer'
    BY <1>10 DEF Inv, LateOK, Quiet, EpochOK, StopsLeft, BannerMatchesTransfer, InRun
  <2>4. QED
    BY <2>1, <2>2, <2>3 DEF Inv
<1>11. QED
  BY <1>1, <1>2, <1>3, <1>4, <1>5, <1>6, <1>7, <1>8, <1>9, <1>10 DEF Next

\* The inductive invariant holds through any number of sessions and failures, with any
\* number of transfers, and for every order of the threads' steps.
THEOREM Invariance == Spec => []Inv
<1>1. Init => Inv
  BY InitInv
<1>2. Inv /\ [Next]_vars => Inv'
  BY NextInv
<1>3. QED
  BY <1>1, <1>2, PTL DEF Spec

\* Every variable has its type; in particular the epoch stays within twice what the
\* sessions and their stops can use.
THEOREM TypesKept == Spec => []TypeOK
<1>1. Inv => TypeOK
  BY DEF Inv
<1>2. QED
  BY <1>1, Invariance, PTL

\* Where nothing can fail the process never ends, and the menu never returns, with the
\* adapter or the firewall changed.
THEOREM LeavesClean == Spec => []CleanAtRest
<1>1. Inv => CleanAtRest
  BY DEF Inv, CleanAtRest, AtRest, CleanOK, IdlePcs
<1>2. QED
  BY <1>1, Invariance, PTL

\* Whatever fails, no session that ran ends without a restore having been tried.
THEOREM TriesRestore == Spec => []RestoreTried
<1>1. Inv => RestoreTried
  BY DEF Inv, RestoreTried, AtRest, RestoreOK, InRun, RunPcs
<1>2. QED
  BY <1>1, Invariance, PTL

\* Where nothing can fail, a session's adapter is restored at most once, however many
\* stops the two threads begin.
THEOREM RestoresOnce == Spec => RestoreOnce
<1>1. Inv => ((StopRestore \/ StopElevate) => dirty \/ faulty)
  <2> SUFFICES ASSUME Inv, StopRestore \/ StopElevate, ~dirty, ~faulty
               PROVE  FALSE
    OBVIOUS
  <2>1. stop.at = "restore"
    BY DEF StopRestore, StopElevate
  <2>2. stop.restore /\ ses.snapshot # None
    BY <2>1 DEF Inv, StopOK
  <2>3. InRun
    BY <2>1, <2>2, InStop DEF None
  <2>4. QED
    BY <2>1, <2>2, <2>3 DEF Inv, CleanOK
<1>2. QED
  BY <1>1, Invariance, PTL DEF RestoreOnce

\* Nothing of an earlier session shows in the menu or while the next one starts.
THEOREM ShowsNothingStale == Spec => []NothingStale
<1>1. Inv => NothingStale
  BY DEF Inv, NothingStale, LateOK, Quiet, ServersOK, IdlePcs, InRun, RunPcs
<1>2. QED
  BY <1>1, Invariance, PTL

\* The banner announces a finished flash exactly while the transfer shown ended well.
THEOREM BannerTrue == Spec => []BannerMatchesTransfer
<1>1. Inv => BannerMatchesTransfer
  BY DEF Inv
<1>2. QED
  BY <1>1, Invariance, PTL

\* While a session is shown as running and is not being stopped, both servers run and
\* the renderer watches over them.
THEOREM WatchesRunning == Spec => []RunningIsWatched
<1>1. Inv => RunningIsWatched
  <2> SUFFICES ASSUME Inv, st.running, stop = NoStop
               PROVE  ses.dhcp /\ ses.tftp /\ renderer \in {"top", "tick"}
    BY DEF RunningIsWatched, MutexFree
  <2>1. InRun /\ renderer # "gone"
    BY DEF Inv, ServersOK
  <2>2. stop.at = None /\ renderer # "stopping"
    BY DEF Inv, StopOK, NoStop, None
  <2>3. ses.dhcp /\ ses.tftp
    BY <2>1, <2>2 DEF Inv, ServersOK
  <2>4. renderer # "off"
    BY <2>1, <2>2 DEF Inv, PlaceOK, RestoreOK, None
  <2>5. QED
    BY <2>1, <2>2, <2>3, <2>4 DEF Inv, TypeOK
<1>2. QED
  BY <1>1, Invariance, PTL
===============================================================================
