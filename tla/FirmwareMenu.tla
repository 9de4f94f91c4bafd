----------------------------- MODULE FirmwareMenu -----------------------------
(***************************************************************************)
(* The main menu of crates/app/src/menu.rs: which adapter and which        *)
(* firmware file a flash is started with.  The menu keeps both choices as  *)
(* indices into lists it scans again before every prompt, while the user   *)
(* copies files, deletes them and plugs adapters; a firmware may also be   *)
(* downloaded (crates/core/src/rom.rs) or named by its path.  A thread of  *)
(* its own, the watchdog, ends the process on Ctrl+C at any prompt, and    *)
(* leaves it alone once [3] was entered.  The start of a session looks     *)
(* whether the firmware is there, finds out where it is, and copies it to  *)
(* the directory the TFTP server serves; the user may change the files     *)
(* between any two of these.                                               *)
(*                                                                         *)
(* Before some definitions stands a form of them with a mistake in it,     *)
(* which no other definition uses: it shows that a property would catch    *)
(* the mistake.                                                            *)
(***************************************************************************)
EXTENDS Naturals, FiniteSets, SequencesExt

CONSTANTS
    Paths,     \* the paths of firmware files, numbers in the order of paths
    Place(_),  \* of a path: "root" for the program's own directory, "below"
               \* for a directory in it, "away" for any other
    Served(_), \* the path in the program's directory with the same file name
    Cloud,     \* the paths the cloud's files are downloaded to
    Images,    \* complete firmware images
    Adapters,  \* names of network adapters
    Odd        \* those with a quote or a backslash in their name

ASSUME MenuAssumption ==
    /\ Paths \subseteq Nat \ {0} /\ IsFiniteSet(Paths)
    /\ \A p \in Paths :
           /\ Place(p) \in {"root", "below", "away"}
           /\ Served(p) \in Paths /\ Place(Served(p)) = "root"
           /\ Place(p) = "root" => Served(p) = p
    /\ Cloud \subseteq {p \in Paths : Place(p) = "root"}
    /\ Odd \subseteq Adapters /\ IsFiniteSet(Adapters)
    /\ Images \cap {"none", "part", "cut"} = {}

VARIABLES
    disk,     \* disk[p]: an image, "none", "part" while it is written, or
              \* "cut" when the process ended while it was
    nics,     \* MenuState.nics, the names only
    nicSel,   \* MenuState.nic_sel, from 1; 0 for None
    cands,    \* MenuState.fw_candidates
    fwSel,    \* MenuState.fw_sel, from 1; 0 for None
    pc,       \* where the main thread is; "off" while no process runs
    target,   \* the file being written by a download or a copy, or None
    session,  \* what [3] starts a session with; the image that is chosen and
              \* the one under its name in the directory that is served, and
              \* if canonicalize could tell where the chosen one is
    ctrlC,    \* util::CTRL_C
    watch,    \* the watchdog: "off" in a session, "asleep", or "exiting"
    shown,    \* history: the adapter and the firmware the menu showed last
    chosen    \* history: those the user chose, as long as they are there

None == 0
NoPick == [nic |-> None, fw |-> None]
NoSession == [nic |-> None, fw |-> None, image |-> "none", copy |-> "none",
              resolved |-> FALSE]

menu == <<nics, nicSel, cands, fwSel>>
process == <<pc, target, session, ctrlC, watch>>
vars == <<disk, menu, process, shown, chosen>>

-----------------------------------------------------------------------------
(* The lists and the choices.                                              *)

Files == {p \in Paths : disk[p] # "none"}
At(i, list) == IF i \in DOMAIN list THEN list[i] ELSE None
Position(x, list) == SelectInSeq(list, LAMBDA y : y = x)

Nic == At(nicSel, nics)
Fw == At(fwSel, cands)

\* The paths of S in their order: the i-th is the one up to which there are i.
Sorted(S) ==
    [i \in 1 .. Cardinality(S) |->
        CHOOSE p \in S : Cardinality({q \in S : q <= p}) = i]

\* The program's own directory, as scan_bin_files lists it.
Scan == {p \in Files : Place(p) = "root"}

\* A single candidate is taken without being asked for.
AutoSelect(list) == IF Len(list) = 1 THEN 1 ELSE 0

\* Mistake: the choice of an adapter is kept as an index.
RefreshNicsByIndex ==
    \E seen \in SetToAllKPermutations(Adapters) :
        nics' = seen /\ UNCHANGED nicSel

\* The choice is kept by its name.  An enumeration that fails changes
\* nothing.
RefreshNics ==
    \/ UNCHANGED <<nics, nicSel>>
    \/ \E seen \in SetToAllKPermutations(Adapters) :
           nics' = seen /\ nicSel' = Position(Nic, seen)

\* Mistake: what is not in the program's directory is dropped.
KeptInRoot == Scan

\* The file that is selected stays in the list wherever it is.
Kept == Scan \cup ({Fw} \cap Files)

RefreshFiles ==
    LET list == Sorted(Kept)
        kept == Position(Fw, list)
    IN  /\ cands' = list
        /\ fwSel' = IF kept # 0 THEN kept ELSE AutoSelect(list)

Refresh ==
    /\ RefreshNics
    /\ RefreshFiles
    /\ chosen' = [nic |-> IF Position(chosen.nic, nics') # 0
                          THEN chosen.nic ELSE None,
                  fw |-> IF chosen.fw \in Files THEN chosen.fw ELSE None]

\* The path p joins the list and is selected.
Add(p) ==
    LET list == Sorted({p} \cup Range(cands))
    IN  cands' = list /\ fwSel' = Position(p, list)

SelectFw(p) ==
    /\ Add(p)
    /\ chosen' = [chosen EXCEPT !.fw = p]
    /\ UNCHANGED <<nics, nicSel>>

-----------------------------------------------------------------------------
(* The main thread.                                                        *)

Goto(p, q) == pc = p /\ pc' = q

\* What a step of the menu that starts no session leaves alone.
Quiet == UNCHANGED <<session, ctrlC, watch, shown>>

\* The end of the process, and with it of the menu's state.
Off ==
    /\ pc' = "off" /\ target' = None /\ session' = NoSession
    /\ ctrlC' = FALSE /\ watch' = "asleep"
    /\ nics' = <<>> /\ nicSel' = 0 /\ cands' = <<>> /\ fwSel' = 0
    /\ shown' = NoPick /\ chosen' = NoPick

Launch ==
    /\ Goto("off", "top")
    /\ Refresh
    /\ UNCHANGED <<disk, target>> /\ Quiet

\* The head of the loop: Ctrl+C is looked at, then the menu is drawn.
Top ==
    /\ pc = "top" /\ UNCHANGED disk
    /\ \/ ctrlC /\ Off
       \/ /\ ~ctrlC /\ pc' = "menu"
          /\ Refresh
          /\ shown' = [nic |-> At(nicSel', nics'), fw |-> At(fwSel', cands')]
          /\ UNCHANGED <<target, session, ctrlC, watch>>

Leave == pc = "menu" /\ Off /\ UNCHANGED disk

\* [1] shows the list of the last scan; it returns at once if that is empty.
SelectNic ==
    /\ nics # <<>> /\ Goto("menu", "nic list")
    /\ UNCHANGED <<disk, menu, target, chosen>> /\ Quiet

PickNic ==
    /\ Goto("nic list", "top")
    /\ nicSel' \in DOMAIN nics
    /\ chosen' = [chosen EXCEPT !.nic = nics[nicSel']]
    /\ UNCHANGED <<disk, nics, cands, fwSel, target>> /\ Quiet

\* [2] scans again.
SelectFirmware ==
    /\ Goto("menu", "fw list") /\ Refresh
    /\ UNCHANGED <<disk, target>> /\ Quiet

PickListed ==
    /\ Goto("fw list", "top")
    /\ fwSel' \in DOMAIN cands
    /\ chosen' = [chosen EXCEPT !.fw = cands[fwSel']]
    /\ UNCHANGED <<disk, nics, nicSel, cands, target>> /\ Quiet

\* An empty list can be scanned once more.
Rescan ==
    /\ cands = <<>> /\ Goto("fw list", "top") /\ Refresh
    /\ UNCHANGED <<disk, target>> /\ Quiet

\* The cloud's list was fetched, or a path is asked for.
Ask ==
    /\ Goto("fw list", "cloud list") \/ Goto("fw list", "path")
    /\ UNCHANGED <<disk, menu, target, chosen>> /\ Quiet

\* The path must be that of a file.
PickPath ==
    /\ Goto("path", "top")
    /\ \E p \in Files : SelectFw(p)
    /\ UNCHANGED <<disk, target>> /\ Quiet

\* Nothing is chosen: 0, invalid input, no such file, or an HTTP request or
\* the creation of the file that fails.
GiveUp ==
    /\ \E p \in {"menu", "nic list", "fw list", "cloud list", "path"} :
           Goto(p, "top")
    /\ UNCHANGED <<disk, menu, target, chosen>> /\ Quiet

\* The file is created, which empties one that is there.
StartDownload ==
    /\ Goto("cloud list", "download")
    /\ target' \in Cloud
    /\ disk' = [disk EXCEPT ![target'] = "part"]
    /\ UNCHANGED <<menu, chosen>> /\ Quiet

\* A size that is not the one of the cloud's list only causes a warning.
DownloadEnds ==
    /\ Goto("download", "top")
    /\ \E i \in Images : disk' = [disk EXCEPT ![target] = i]
    /\ SelectFw(target)
    /\ target' = None /\ Quiet

\* Mistake: a download that fails leaves what it has written.
DownloadFailsDirty ==
    /\ Goto("download", "top")
    /\ target' = None
    /\ UNCHANGED <<disk, menu, chosen>> /\ Quiet

\* An error while it is read or written removes the file.
DownloadFails ==
    /\ Goto("download", "top")
    /\ disk' = [disk EXCEPT ![target] = "none"]
    /\ target' = None
    /\ UNCHANGED <<menu, chosen>> /\ Quiet

-----------------------------------------------------------------------------
(* [3]: a session.                                                         *)

\* Mistake: the lists are scanned again before what was selected is taken.
BeginRefreshed ==
    /\ Goto("menu", "start")
    /\ Refresh
    /\ nicSel' # 0 /\ fwSel' # 0 /\ nics'[nicSel'] \notin Odd
    /\ session' = [NoSession EXCEPT !.nic = nics'[nicSel'],
                                    !.fw = cands'[fwSel']]
    /\ watch' = IF watch = "exiting" THEN watch ELSE "off"
    /\ UNCHANGED <<disk, target, ctrlC, shown>>

\* Without both, or with an odd name, [3] only says so (GiveUp).  It is too
\* late for a watchdog that has seen Ctrl+C and is about to exit.
Begin ==
    /\ Nic # None /\ Nic \notin Odd /\ Fw # None
    /\ Goto("menu", "start")
    /\ session' = [NoSession EXCEPT !.nic = Nic, !.fw = Fw]
    /\ watch' = IF watch = "exiting" THEN watch ELSE "off"
    /\ UNCHANGED <<disk, menu, target, ctrlC, shown, chosen>>

\* What the steps of a start leave alone.
Starting == UNCHANGED <<menu, ctrlC, shown, chosen>>

\* is_file.
FindFirmware ==
    /\ session.fw \in Files
    /\ Goto("start", "resolve")
    /\ UNCHANGED <<disk, target, session, watch>> /\ Starting

\* Mistake: a file of the same name in the program's directory is taken for
\* the firmware.
NeedsCopyOnce(p) == Place(p) = "away" /\ disk[Served(p)] = "none"

\* What is under the program's directory stays where it is.
NeedsCopy(p) == Place(p) = "away"

\* The session goes on with what the disk has: the firmware is in place, or
\* canonicalize failed, which the code does not take for an error.  It fails
\* if the file is gone by now and on drives without a full path.
GoOn ==
    /\ Goto("resolve", "serve")
    /\ \E resolved \in BOOLEAN :
          /\ resolved => session.fw \in Files /\ ~NeedsCopy(session.fw)
          /\ session' = [session EXCEPT !.image = disk[session.fw],
                                        !.copy = disk[Served(session.fw)],
                                        !.resolved = resolved]
    /\ UNCHANGED <<disk, target, watch>> /\ Starting

\* The copy overwrites what has the name of the firmware.
StartCopy ==
    /\ session.fw \in Files /\ NeedsCopy(session.fw)
    /\ Goto("resolve", "copy")
    /\ target' = Served(session.fw)
    /\ disk' = [disk EXCEPT ![target'] = "part"]
    /\ session' = [session EXCEPT !.image = disk[session.fw], !.resolved = TRUE]
    /\ UNCHANGED watch /\ Starting

CopyEnds ==
    /\ Goto("copy", "serve")
    /\ disk' = [disk EXCEPT ![target] = session.image]
    /\ target' = None
    /\ session' = [session EXCEPT !.copy = disk'[Served(session.fw)]]
    /\ UNCHANGED watch /\ Starting

\* Mistake: only a session that was started wakes the watchdog again.
BackUnwatched ==
    /\ session' = NoSession
    /\ watch' = watch

\* The watchdog is woken again when [3] is done.
Back ==
    /\ session' = NoSession
    /\ watch' = IF watch = "exiting" THEN watch ELSE "asleep"

\* At once or half-way; what was there under the name is removed, too.
CopyFails ==
    /\ \/ session.fw \in Files /\ NeedsCopy(session.fw) /\ Goto("resolve", "top")
       \/ Goto("copy", "top")
    /\ disk' = [disk EXCEPT ![Served(session.fw)] = "none"]
    /\ target' = None
    /\ Back /\ Starting

\* The servers, the adapter and the firewall rule are set up.
Start ==
    /\ Goto("serve", "session")
    /\ UNCHANGED <<disk, target, session, watch>> /\ Starting

\* Which may fail, as may is_file; a copy that cannot even be opened may
\* leave the disk as it is.
StartFails ==
    /\ \E p \in {"start", "resolve", "serve"} : Goto(p, "top")
    /\ UNCHANGED <<disk, target>> /\ Back /\ Starting

StartStep == \/ FindFirmware \/ GoOn \/ StartCopy \/ CopyEnds \/ CopyFails
             \/ Start \/ StartFails

\* Ctrl+C, or [0] of the session's last menu, ends the program; otherwise
\* the session goes back to the main menu.
SessionEnds ==
    /\ pc = "session" /\ UNCHANGED disk
    /\ \/ Off
       \/ /\ ~ctrlC /\ pc' = "top" /\ Back
          /\ UNCHANGED <<menu, target, ctrlC, shown, chosen>>

-----------------------------------------------------------------------------
(* Ctrl+C and the watchdog; the user's files.                              *)

CtrlC ==
    /\ pc # "off" /\ ctrlC' = TRUE
    /\ UNCHANGED <<disk, menu, pc, target, session, watch, shown, chosen>>

\* It has looked at CTRL_C and at menu_active.
WatchdogSees ==
    /\ pc # "off" /\ watch = "asleep" /\ ctrlC
    /\ watch' = "exiting"
    /\ UNCHANGED <<disk, menu, pc, target, session, ctrlC, shown, chosen>>

\* What a download or a copy has written stays where it is.
WatchdogExits ==
    /\ watch = "exiting"
    /\ disk' = [p \in Paths |-> IF disk[p] = "part" THEN "cut" ELSE disk[p]]
    /\ Off

\* The user copies a file, or deletes one.
Put ==
    /\ \E p \in Paths \ {target}, i \in Images \cup {"none"} :
           disk' = [disk EXCEPT ![p] = i]
    /\ UNCHANGED <<menu, process, shown, chosen>>

-----------------------------------------------------------------------------
Init ==
    /\ disk \in [Paths -> Images \cup {"none"}]
    /\ nics = <<>> /\ nicSel = 0 /\ cands = <<>> /\ fwSel = 0
    /\ pc = "off" /\ target = None /\ session = NoSession
    /\ ctrlC = FALSE /\ watch = "asleep"
    /\ shown = NoPick /\ chosen = NoPick

MainStep ==
    \/ Launch \/ Top \/ Leave \/ SelectNic \/ PickNic \/ SelectFirmware
    \/ PickListed \/ Rescan \/ Ask \/ PickPath \/ GiveUp
    \/ StartDownload \/ DownloadEnds \/ DownloadFails
    \/ Begin \/ StartStep \/ SessionEnds

Next == MainStep \/ CtrlC \/ WatchdogSees \/ WatchdogExits \/ Put

\* The threads run; what waits for the user, the network or a device may
\* wait for ever.
Fairness == /\ WF_vars(WatchdogSees) /\ WF_vars(WatchdogExits)
            /\ WF_vars(StartStep)

Spec == Init /\ [][Next]_vars /\ Fairness

-----------------------------------------------------------------------------
(* Properties.                                                             *)

\* The types, and that no index is out of its list.
TypeOK ==
    /\ disk \in [Paths -> Images \cup {"none", "part", "cut"}]
    /\ Range(nics) \subseteq Adapters /\ nicSel \in 0 .. Len(nics)
    /\ Range(cands) \subseteq Paths /\ fwSel \in 0 .. Len(cands)
    /\ pc \in {"off", "top", "menu", "nic list", "fw list", "cloud list",
               "path", "download", "start", "resolve", "copy", "serve",
               "session"}
    /\ target \in {p \in Paths : Place(p) = "root"} \cup {None}
    /\ session \in [nic : Adapters \cup {None}, fw : Paths \cup {None},
                    image : Images \cup {"none", "cut"},
                    copy : Images \cup {"none", "cut"}, resolved : BOOLEAN]
    /\ ctrlC \in BOOLEAN
    /\ watch \in {"off", "asleep", "exiting"}
    /\ shown \in [nic : Adapters \cup {None}, fw : Paths \cup {None}]
    /\ chosen \in [nic : Adapters \cup {None}, fw : Paths \cup {None}]

\* What the user has chosen stays selected, however often the lists are
\* scanned, sorted or added to and wherever the file is (menu.rs:91), as
\* long as it is there.
ChoiceKept ==
    /\ chosen.nic # None => Nic = chosen.nic
    /\ chosen.fw # None => Fw = chosen.fw

\* A session is started with the adapter and the firmware that the menu
\* showed when [3] was entered.
StartsAsShown ==
    session # NoSession =>
        session.nic = shown.nic /\ session.fw = shown.fw

\* No firmware is served of which a failed download has written only a part
\* (rom.rs:95), unless the process was ended while it was downloaded.
NoPartServed == "part" \notin {session.image, session.copy}

\* A session serves under the name of the firmware the image that was chosen
\* (session.rs:54), whatever had that name before, unless it is in a directory
\* below the program's own or the code could not find out where it is.
ServesTheChoice ==
    pc = "session" /\ session.resolved =>
        /\ session.image # "none"
        /\ session.copy = session.image \/ Place(session.fw) = "below"

\* Ctrl+C ends the program wherever it waits for the user outside a session,
\* also after a session or a start that failed.
CtrlCEndsMenu == ctrlC /\ pc # "session" ~> pc \in {"off", "session"}

\* rom.rs:95: no firmware is served that was downloaded in part only.
NeverCut == "cut" \notin {session.image, session.copy}

\* docs/cli-design.md:52: before a session every firmware is copied to the
\* program's directory, so that the router finds it under its name.
AlwaysServed ==
    pc = "session" /\ session.image # "none" => session.copy = session.image
=============================================================================
