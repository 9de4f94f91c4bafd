-------------------------- MODULE FirmwareMenuProofs --------------------------
(***************************************************************************)
(* Theorems about FirmwareMenu, for any files, images and adapters.  What  *)
(* a session serves depends on the disk, so the invariant says who may be  *)
(* writing to it: a file is partly written only while the main thread      *)
(* downloads or copies it, hence never when a session looks at the disk;   *)
(* and a copy is that of the image the session has found (StartOK), which  *)
(* may have changed or gone in the meantime.                               *)
(* That a session starts with what was shown holds because the prompt of   *)
(* the menu is the one place where both are looked at (MenuShown).  That   *)
(* the choices outlast every scan rests on what a scan returns: a sorted   *)
(* list names every path it was made of, so that the position of a path in *)
(* it is a place the index may point to.                                   *)
(***************************************************************************)
EXTENDS FirmwareMenu, FiniteSetTheorems, WellFoundedInduction, TLAPS

\* What a file has while nothing is written to it.
Content == Images \cup {"none", "cut"}

\* Where the main thread is from [3] to the end of a session.
Places == {"start", "resolve", "copy", "serve", "session"}

\* Only the file of a running download or copy is partly written.
DiskOK ==
    /\ disk \in [Paths -> Content \cup {"part"}]
    /\ \A p \in Paths : disk[p] = "part" => pc \in {"download", "copy"} /\ p = target

\* A session has no part of a file, and exists only from [3] to its end.  It
\* has a firmware, which was there once is_file has been passed.
SessionOK ==
    /\ session = [nic |-> session.nic, fw |-> session.fw, image |-> session.image,
                  copy |-> session.copy, resolved |-> session.resolved]
    /\ session.image \in Content /\ session.copy \in Content
    /\ session.resolved \in BOOLEAN
    /\ session # NoSession => pc \in Places
    /\ pc = "start" => session.fw # None
    /\ pc \in Places \ {"start"} => session.fw \in Paths

\* A copy is made of the image that was found, under its name; and then that
\* is what the name stands for.
StartOK ==
    /\ pc = "copy" => /\ NeedsCopy(session.fw) /\ target = Served(session.fw)
                      /\ session.image # "none"
    /\ pc \in {"serve", "session"} /\ session.resolved =>
           /\ session.image # "none"
           /\ session.copy = session.image \/ Place(session.fw) = "below"

\* While the menu is shown, what it shows is what [3] would take.
MenuShown == pc = "menu" => shown = [nic |-> Nic, fw |-> Fw]

\* The inductive invariant.
Inv == DiskOK /\ SessionOK /\ StartOK /\ MenuShown /\ StartsAsShown

\* The program starts with no session, nothing shown and whole files.
LEMMA InitInv == Init => Inv
  BY MenuAssumption DEF Init, Inv, DiskOK, SessionOK, StartOK, MenuShown, StartsAsShown,
    Content, NoSession, Places

\* A step of a prompt that leaves the session and what was shown alone
\* keeps what is said of them.
LEMMA QuietSession ==
    ASSUME SessionOK, StartOK, StartsAsShown, UNCHANGED <<session, shown>>,
           \/ UNCHANGED <<pc, target>>
           \/ pc \notin Places /\ pc' \notin Places
    PROVE  SessionOK' /\ StartOK' /\ StartsAsShown'
  BY DEF SessionOK, StartOK, StartsAsShown, Places

\* A step after which there is no session keeps what is said of one.
LEMMA NoneLeft ==
    ASSUME session' = NoSession, pc' \notin Places
    PROVE  SessionOK' /\ StartOK' /\ StartsAsShown'
  BY DEF SessionOK, StartOK, StartsAsShown, NoSession, Content, Places

\* A start that learns of its firmware keeps its adapter and its path.
LEMMA SessionLearns ==
    ASSUME SessionOK, StartsAsShown, pc \in Places \ {"start"}, pc' \in Places \ {"start"},
           NEW image \in Content, NEW copy \in Content, NEW resolved \in BOOLEAN,
           session' = [nic |-> session.nic, fw |-> session.fw, image |-> image,
                       copy |-> copy, resolved |-> resolved],
           UNCHANGED shown
    PROVE  SessionOK' /\ StartsAsShown'
<1>1. session.fw \in Paths /\ session # NoSession
  BY MenuAssumption DEF SessionOK, NoSession, None
<1>2. /\ session'.nic = session.nic /\ session'.fw = session.fw
      /\ session'.image = image /\ session'.copy = copy /\ session'.resolved = resolved
  OBVIOUS
<1>3. SessionOK'
  BY <1>1, <1>2 DEF SessionOK
<1>4. StartsAsShown'
  BY <1>1, <1>2 DEF StartsAsShown
<1>5. QED BY <1>3, <1>4

\* A step that leaves the disk alone and is not the end of a download or of a
\* copy keeps what is said of the disk.
LEMMA SameDisk ==
    ASSUME DiskOK, UNCHANGED <<disk, target>>, pc' # pc => pc \notin {"download", "copy"}
    PROVE  DiskOK'
  BY DEF DiskOK

\* So does a step that begins to write a file, if no other is being written.
LEMMA BeginsToWrite ==
    ASSUME DiskOK, pc \notin {"download", "copy"}, pc' \in {"download", "copy"},
           target' \in Paths, disk' = [disk EXCEPT ![target'] = "part"]
    PROVE  DiskOK'
<1>1. \A p \in Paths : disk[p] # "part"
  BY DEF DiskOK
<1>2. disk' \in [Paths -> Content \cup {"part"}]
  BY DEF DiskOK
<1>3. \A p \in Paths : disk'[p] = "part" => p = target'
  BY <1>1 DEF DiskOK
<1>4. QED BY <1>2, <1>3 DEF DiskOK

\* And the one that leaves the file that is written complete, or removed.
LEMMA EndsWriting ==
    ASSUME DiskOK, pc \in {"download", "copy"}, NEW c \in Content,
           disk' = [disk EXCEPT ![target] = c]
    PROVE  DiskOK' /\ disk' \in [Paths -> Content]
<1>1. \A p \in Paths : p # target => disk[p] \in Content
  BY DEF DiskOK
<1>2. disk' \in [Paths -> Content]
  BY <1>1 DEF DiskOK
<1>3. QED BY <1>2, MenuAssumption DEF DiskOK, Content

\* Every step of the menu, the watchdog and the user keeps the invariant.
LEMMA NextInv == Inv /\ [Next]_vars => Inv'
<1> SUFFICES ASSUME Inv, [Next]_vars PROVE Inv'
  OBVIOUS
<1> USE DEF Inv
<1>1. CASE Launch
  <2>1. DiskOK'
    BY <1>1, SameDisk DEF Launch, Goto
  <2>2. SessionOK' /\ StartOK' /\ StartsAsShown'
    BY <1>1, QuietSession DEF Launch, Goto, Quiet, Places
  <2>3. MenuShown'
    BY <1>1 DEF Launch, Goto, MenuShown
  <2>4. QED BY <2>1, <2>2, <2>3
<1>2. CASE Top
  <2>1. DiskOK'
    BY <1>2 DEF Top, Off, DiskOK, None
  <2>2. SessionOK' /\ StartOK' /\ StartsAsShown'
    <3>1. CASE ctrlC /\ Off
      BY <3>1, NoneLeft DEF Off, Places
    <3>2. CASE ~(ctrlC /\ Off)
      <4>1. session' = session /\ session = NoSession /\ pc' \notin Places
        BY <1>2, <3>2 DEF Top, SessionOK, Places
      <4>2. QED BY <4>1, NoneLeft
    <3>3. QED BY <3>1, <3>2
  <2>3. MenuShown'
    BY <1>2 DEF Top, Off, MenuShown, Nic, Fw
  <2>4. QED BY <2>1, <2>2, <2>3
<1>3. CASE Leave
  <2>1. DiskOK'
    BY <1>3 DEF Leave, Off, DiskOK
  <2>2. SessionOK' /\ StartOK' /\ StartsAsShown'
    BY <1>3, NoneLeft DEF Leave, Off, Places
  <2>3. MenuShown'
    BY <1>3 DEF Leave, Off, MenuShown
  <2>4. QED BY <2>1, <2>2, <2>3
<1>4. CASE \/ SelectNic \/ PickNic \/ SelectFirmware \/ PickListed \/ Rescan
           \/ Ask \/ PickPath \/ GiveUp
  <2> USE <1>4 DEF SelectNic, PickNic, SelectFirmware, PickListed, Rescan, Ask,
        PickPath, GiveUp, Goto
  <2>1. DiskOK'
    <3>1. UNCHANGED <<disk, target>> /\ pc \notin {"download", "copy"}
      OBVIOUS
    <3>2. QED BY <3>1, SameDisk
  <2>2. SessionOK' /\ StartOK' /\ StartsAsShown'
    <3>1. UNCHANGED <<session, shown>> /\ pc \notin Places /\ pc' \notin Places
      BY DEF Quiet, Places
    <3>2. QED BY <3>1, QuietSession
  <2>3. MenuShown'
    BY DEF MenuShown
  <2>4. QED BY <2>1, <2>2, <2>3
<1>5. CASE StartDownload
  <2>1. DiskOK'
    <3>1. /\ target' \in Paths /\ pc = "cloud list" /\ pc' = "download"
          /\ disk' = [disk EXCEPT ![target'] = "part"]
      BY <1>5, MenuAssumption DEF StartDownload, Goto
    <3>2. QED BY <3>1, BeginsToWrite
  <2>2. SessionOK' /\ StartOK' /\ StartsAsShown'
    BY <1>5, QuietSession DEF StartDownload, Goto, Quiet, Places
  <2>3. MenuShown'
    BY <1>5 DEF StartDownload, Goto, MenuShown
  <2>4. QED BY <2>1, <2>2, <2>3
<1>6. CASE DownloadEnds
  <2>1. DiskOK'
    <3>1. PICK i \in Images : disk' = [disk EXCEPT ![target] = i]
      BY <1>6 DEF DownloadEnds
    <3>2. QED BY <1>6, <3>1, EndsWriting DEF DownloadEnds, Goto, Content
  <2>2. SessionOK' /\ StartOK' /\ StartsAsShown'
    BY <1>6, QuietSession DEF DownloadEnds, Goto, Quiet, Places
  <2>3. MenuShown'
    BY <1>6 DEF DownloadEnds, Goto, MenuShown
  <2>4. QED BY <2>1, <2>2, <2>3
<1>7. CASE DownloadFails
  <2>1. DiskOK'
    BY <1>7, EndsWriting DEF DownloadFails, Goto, Content
  <2>2. SessionOK' /\ StartOK' /\ StartsAsShown'
    BY <1>7, QuietSession DEF DownloadFails, Goto, Quiet, Places
  <2>3. MenuShown'
    BY <1>7 DEF DownloadFails, Goto, MenuShown
  <2>4. QED BY <2>1, <2>2, <2>3
<1>8. CASE Begin
  <2>1. DiskOK'
    BY <1>8, SameDisk DEF Begin, Goto
  <2>2. session' = [nic |-> Nic, fw |-> Fw, image |-> "none", copy |-> "none",
                    resolved |-> FALSE]
    BY <1>8 DEF Begin, NoSession
  <2>3. SessionOK' /\ StartOK'
    <3>1. /\ session'.nic = Nic /\ session'.fw = Fw /\ session'.resolved = FALSE
          /\ session'.image = "none" /\ session'.copy = "none"
      BY <2>2
    <3>2. pc' = "start" /\ Fw # None
      BY <1>8 DEF Begin, Goto
    <3>3. QED BY <2>2, <3>1, <3>2 DEF SessionOK, StartOK, Content, Places
  <2>4. StartsAsShown'
    BY <1>8, <2>2 DEF Begin, Goto, MenuShown, StartsAsShown
  <2>5. MenuShown'
    BY <1>8 DEF Begin, Goto, MenuShown
  <2>6. QED BY <2>1, <2>3, <2>4, <2>5
<1>9. CASE StartStep
  <2>1. MenuShown'
    <3>1. pc' # "menu"
      BY <1>9 DEF StartStep, FindFirmware, GoOn, StartCopy, CopyEnds, CopyFails, Start,
        StartFails, Goto
    <3>2. QED BY <3>1 DEF MenuShown
  <2>2. shown' = shown
    BY <1>9 DEF StartStep, FindFirmware, GoOn, StartCopy, CopyEnds, CopyFails, Start,
      StartFails, Starting
  <2>3. CASE FindFirmware
    <3>1. DiskOK'
      BY <2>3, SameDisk DEF FindFirmware, Goto
    <3>2. session' = session /\ pc = "start" /\ pc' = "resolve" /\ session.fw \in Paths
      BY <2>3 DEF FindFirmware, Goto, Files
    <3>3. SessionOK' /\ StartOK' /\ StartsAsShown'
      BY <2>2, <3>2 DEF SessionOK, StartOK, StartsAsShown, Places
    <3>4. QED BY <2>1, <3>1, <3>3
  <2>4. CASE GoOn
    <3>1. pc = "resolve" /\ pc' = "serve" /\ UNCHANGED <<disk, target>>
      BY <2>4 DEF GoOn, Goto
    <3>2. DiskOK'
      BY <3>1, SameDisk
    <3> DEFINE p == session.fw
    <3>3. PICK resolved \in BOOLEAN :
             /\ resolved => p \in Files /\ ~NeedsCopy(p)
             /\ session' = [session EXCEPT !.image = disk[p], !.copy = disk[Served(p)],
                                           !.resolved = resolved]
      BY <2>4 DEF GoOn
    <3>4. session' = [nic |-> session.nic, fw |-> p, image |-> disk[p],
                      copy |-> disk[Served(p)], resolved |-> resolved]
      BY <3>3 DEF SessionOK
    <3>5. p \in Paths /\ Served(p) \in Paths
      BY <3>1, MenuAssumption DEF SessionOK, Places
    <3>6. disk[p] \in Content /\ disk[Served(p)] \in Content
      BY <3>1, <3>5 DEF DiskOK
    <3>7. SessionOK' /\ StartsAsShown'
      BY <2>2, <3>1, <3>4, <3>6, SessionLearns DEF Places
    <3>8. resolved => /\ disk[p] # "none"
                      /\ disk[Served(p)] = disk[p] \/ Place(p) = "below"
      BY <3>3, <3>5, MenuAssumption DEF Files, NeedsCopy
    <3>9. StartOK'
      BY <3>1, <3>4, <3>8 DEF StartOK
    <3>10. QED BY <2>1, <3>2, <3>7, <3>9
  <2>5. CASE StartCopy
    <3> DEFINE p == session.fw
    <3>1. /\ p \in Paths /\ disk[p] # "none" /\ NeedsCopy(p)
          /\ pc = "resolve" /\ pc' = "copy" /\ target' = Served(p)
          /\ disk' = [disk EXCEPT ![target'] = "part"]
      BY <2>5 DEF StartCopy, Goto, Files
    <3>2. DiskOK'
      BY <3>1, BeginsToWrite, MenuAssumption
    <3>3. session' = [nic |-> session.nic, fw |-> p, image |-> disk[p],
                      copy |-> session.copy, resolved |-> TRUE]
      BY <2>5 DEF StartCopy, SessionOK
    <3>4. disk[p] \in Content /\ session.copy \in Content
      BY <3>1 DEF DiskOK, SessionOK
    <3>5. SessionOK' /\ StartsAsShown'
      BY <2>2, <3>1, <3>3, <3>4, SessionLearns DEF Places
    <3>6. StartOK'
      BY <3>1, <3>3 DEF StartOK
    <3>7. QED BY <2>1, <3>2, <3>5, <3>6
  <2>6. CASE CopyEnds
    <3> DEFINE p == session.fw
    <3>1. /\ pc = "copy" /\ pc' = "serve"
          /\ disk' = [disk EXCEPT ![target] = session.image]
          /\ session' = [session EXCEPT !.copy = disk'[Served(p)]]
      BY <2>6 DEF CopyEnds, Goto
    <3>2. session.image \in Content
      BY DEF SessionOK
    <3>3. DiskOK' /\ disk' \in [Paths -> Content]
      BY <3>1, <3>2, EndsWriting
    <3>4. p \in Paths /\ Served(p) \in Paths /\ target = Served(p) /\ session.image # "none"
      BY <3>1, MenuAssumption DEF SessionOK, StartOK, Places
    <3>5. disk'[Served(p)] = session.image
      BY <3>1, <3>4 DEF DiskOK
    <3>6. session' = [nic |-> session.nic, fw |-> p, image |-> session.image,
                      copy |-> session.image, resolved |-> session.resolved]
      BY <3>1, <3>5 DEF SessionOK
    <3>7. SessionOK' /\ StartsAsShown'
      <4>1. session.resolved \in BOOLEAN
        BY DEF SessionOK
      <4>2. QED BY <2>2, <3>1, <3>2, <3>6, <4>1, SessionLearns DEF Places
    <3>8. StartOK'
      BY <3>1, <3>4, <3>6 DEF StartOK
    <3>9. QED BY <2>1, <3>3, <3>7, <3>8
  <2>7. CASE CopyFails
    <3>1. /\ pc \in {"resolve", "copy"} /\ pc' = "top" /\ session' = NoSession
          /\ disk' = [disk EXCEPT ![Served(session.fw)] = "none"]
      BY <2>7 DEF CopyFails, Goto, Back
    <3>2. DiskOK'
      <4>1. CASE pc = "copy"
        BY <3>1, <4>1, EndsWriting DEF StartOK, Content
      <4>2. CASE pc = "resolve"
        <5>1. disk' \in [Paths -> Content]
          BY <3>1, <4>2 DEF DiskOK, Content
        <5>2. QED BY <5>1, MenuAssumption DEF DiskOK, Content
      <4>3. QED BY <3>1, <4>1, <4>2
    <3>3. SessionOK' /\ StartOK' /\ StartsAsShown'
      BY <3>1, NoneLeft DEF Places
    <3>4. QED BY <2>1, <3>2, <3>3
  <2>8. CASE Start
    <3>1. DiskOK'
      BY <2>8, SameDisk DEF Start, Goto
    <3>2. session' = session /\ pc = "serve" /\ pc' = "session"
      BY <2>8 DEF Start, Goto
    <3>3. SessionOK' /\ StartOK' /\ StartsAsShown'
      BY <2>2, <3>2 DEF SessionOK, StartOK, StartsAsShown, Places
    <3>4. QED BY <2>1, <3>1, <3>3
  <2>9. CASE StartFails
    <3>1. DiskOK'
      BY <2>9, SameDisk DEF StartFails, Goto
    <3>2. SessionOK' /\ StartOK' /\ StartsAsShown'
      BY <2>9, NoneLeft DEF StartFails, Back, Goto, Places
    <3>3. QED BY <2>1, <3>1, <3>2
  <2>10. QED
    BY <1>9, <2>3, <2>4, <2>5, <2>6, <2>7, <2>8, <2>9 DEF StartStep
<1>10. CASE SessionEnds
  <2>1. DiskOK'
    BY <1>10 DEF SessionEnds, Off, DiskOK
  <2>2. SessionOK' /\ StartOK' /\ StartsAsShown'
    BY <1>10, NoneLeft DEF SessionEnds, Off, Back, Places
  <2>3. MenuShown'
    BY <1>10 DEF SessionEnds, Off, MenuShown
  <2>4. QED BY <2>1, <2>2, <2>3
<1>11. CASE CtrlC \/ WatchdogSees \/ UNCHANGED vars
  <2>1. UNCHANGED <<disk, menu, pc, target, session, shown>>
    BY <1>11 DEF CtrlC, WatchdogSees, vars, process
  <2>2. DiskOK'
    BY <2>1, SameDisk
  <2>3. SessionOK' /\ StartOK' /\ StartsAsShown'
    BY <2>1, QuietSession
  <2>4. MenuShown'
    BY <2>1 DEF MenuShown, menu, Nic, Fw
  <2>5. QED BY <2>2, <2>3, <2>4
<1>12. CASE WatchdogExits
  <2>1. DiskOK'
    BY <1>12, MenuAssumption DEF WatchdogExits, DiskOK, Content
  <2>2. SessionOK' /\ StartOK' /\ StartsAsShown'
    BY <1>12, NoneLeft DEF WatchdogExits, Off, Places
  <2>3. MenuShown'
    BY <1>12 DEF WatchdogExits, Off, MenuShown
  <2>4. QED BY <2>1, <2>2, <2>3
<1>13. CASE Put
  <2>1. DiskOK'
    BY <1>13, MenuAssumption DEF Put, process, DiskOK, Content
  <2>2. SessionOK' /\ StartOK' /\ StartsAsShown'
    BY <1>13, QuietSession DEF Put, process
  <2>3. MenuShown'
    BY <1>13 DEF Put, process, menu, MenuShown, Nic, Fw
  <2>4. QED BY <2>1, <2>2, <2>3
<1>14. QED
  BY <1>1, <1>2, <1>3, <1>4, <1>5, <1>6, <1>7, <1>8, <1>9, <1>10, <1>11, <1>12, <1>13
  DEF Next, MainStep

\* The invariant holds throughout.
LEMMA Invariance == Spec => []Inv
  BY InitInv, NextInv, PTL DEF Spec

\* A session is started with the adapter and the firmware the menu showed
\* when [3] was entered, although every prompt scans the lists again and the
\* choices are indices into them.
THEOREM MenuStartsAsShown == Spec => []StartsAsShown
  BY Invariance, PTL DEF Inv

\* The image the TFTP server finds under the name of the firmware is the one
\* of the chosen path when a session starts, although the user may change or
\* delete either file while it does.  Excepted are a path below the program's
\* directory, where start_session copies nothing, and a canonicalize that
\* fails, after which it does not copy either.
THEOREM MenuServesTheChoice == Spec => []ServesTheChoice
<1>1. Inv => ServesTheChoice
  BY DEF Inv, StartOK, ServesTheChoice
<1>2. QED BY <1>1, Invariance, PTL

\* No session serves a file that a download or a copy is still writing.
THEOREM MenuServesNoPart == Spec => []NoPartServed
<1>1. Inv => NoPartServed
  BY MenuAssumption DEF Inv, SessionOK, NoPartServed, Content
<1>2. QED BY <1>1, Invariance, PTL

-----------------------------------------------------------------------------
(* The choices.  A choice is an index into a list that is sorted again, or *)
(* enumerated again, before every prompt: the proof needs that a sorted    *)
(* list has every element of its set, and that Position finds it.          *)

\* A non-empty set of numbers has a least one.
LEMMA NatMin ==
    ASSUME NEW T, T \subseteq Nat, T # {}
    PROVE  Min(T) \in T /\ \A y \in T : Min(T) <= y
<1>1. \E x \in T : \A y \in T : ~ (<<y, x>> \in OpToRel(<, Nat))
  BY WFMin, NatLessThanWellFounded
<1>2. \E x \in T : \A y \in T : ~ (y < x)
  BY <1>1 DEF OpToRel
<1>3. \E x \in T : \A y \in T : x <= y
  BY <1>2
<1>4. QED
  BY <1>3 DEF Min

\* Position is a place where the list has x, or 0 if it has it nowhere.
LEMMA PositionFacts ==
    ASSUME NEW S, NEW q \in Seq(S), NEW x
    PROVE  /\ Position(x, q) \in 0 .. Len(q)
           /\ Position(x, q) # 0 => Position(x, q) \in DOMAIN q /\ q[Position(x, q)] = x
           /\ Position(x, q) = 0 => x \notin Range(q)
<1> DEFINE I == {i \in 1 .. Len(q) : q[i] = x}
<1>1. Position(x, q) = IF I # {} THEN Min(I) ELSE 0
  BY DEF Position, SelectInSeq
<1>2. Len(q) \in Nat /\ DOMAIN q = 1 .. Len(q) /\ I \subseteq Nat
  OBVIOUS
<1>3. CASE I # {}
  <2>1. Min(I) \in I
    BY <1>2, <1>3, NatMin
  <2>2. QED
    BY <1>1, <1>2, <1>3, <2>1
<1>4. CASE I = {}
  BY <1>1, <1>2, <1>4 DEF Range
<1>5. QED
  BY <1>3, <1>4

\* The sorted list of a finite set of numbers has its elements, in their order.
\* The number of elements up to one is an injection into 1 .. n, hence onto it.
LEMMA SortedFacts ==
    ASSUME NEW S, S \subseteq Nat, IsFiniteSet(S)
    PROVE  /\ Sorted(S) \in Seq(S) /\ Range(Sorted(S)) = S
           /\ \A i, j \in DOMAIN Sorted(S) : i < j => Sorted(S)[i] < Sorted(S)[j]
<1> DEFINE n == Cardinality(S)
           upTo(x) == {y \in S : y <= x}
           rank == [x \in S |-> Cardinality(upTo(x))]
<1>1. n \in Nat /\ IsFiniteSet(1 .. n) /\ Cardinality(1 .. n) = n
  BY FS_CardinalityType, FS_Interval
<1>2. ASSUME NEW x \in S PROVE rank[x] \in 1 .. n
  <2>1. IsFiniteSet(upTo(x)) /\ Cardinality(upTo(x)) <= n
    BY FS_Subset
  <2>2. x \in upTo(x)
    OBVIOUS
  <2>3. Cardinality(upTo(x)) \in Nat /\ Cardinality(upTo(x)) # 0
    BY <2>1, <2>2, FS_CardinalityType, FS_EmptySet
  <2>4. QED
    BY <1>1, <2>1, <2>3
<1>3. ASSUME NEW x \in S, NEW y \in S, x < y PROVE rank[x] < rank[y]
  <2>1. upTo(x) \subseteq upTo(y) /\ y \in upTo(y) /\ y \notin upTo(x)
    <3>1. x \in Nat /\ y \in Nat /\ ~(y <= x) /\ y <= y
      BY <1>3
    <3>2. ASSUME NEW z \in S, z <= x PROVE z <= y
      BY <1>3, <3>1, <3>2
    <3>3. QED
      BY <3>1, <3>2
  <2>2. IsFiniteSet(upTo(y))
    BY FS_Subset
  <2>3. Cardinality(upTo(x)) <= Cardinality(upTo(y)) /\ Cardinality(upTo(x)) # Cardinality(upTo(y))
    BY <2>1, <2>2, FS_Subset
  <2>4. rank[x] \in Nat /\ rank[y] \in Nat
    BY <1>1, <1>2
  <2>5. QED
    BY <2>3, <2>4
<1>4. rank \in [S -> 1 .. n]
  BY <1>2
<1> HIDE DEF rank
<1>5. \A x, y \in S : rank[x] = rank[y] => x = y
  <2> SUFFICES ASSUME NEW x \in S, NEW y \in S, rank[x] = rank[y], x # y PROVE FALSE
    OBVIOUS
  <2>1. x < y \/ y < x
    OBVIOUS
  <2>2. rank[x] \in Nat /\ rank[y] \in Nat
    BY <1>1, <1>4
  <2>3. QED
    BY <1>3, <2>1, <2>2
<1>6. rank \in Injection(S, 1 .. n)
  BY <1>4, <1>5 DEF Injection, IsInjective
<1>7. \A i \in 1 .. n : \E x \in S : rank[x] = i
  <2>1. rank \in Surjection(S, 1 .. n)
    BY <1>1, <1>6, FS_Injection
  <2>2. QED
    BY <2>1 DEF Surjection
<1>8. /\ Sorted(S) = [i \in 1 .. n |-> Sorted(S)[i]]
      /\ \A i \in 1 .. n : Sorted(S)[i] \in S /\ rank[Sorted(S)[i]] = i
  <2>1. \A i \in 1 .. n : \E x \in S : Cardinality({y \in S : y <= x}) = i
    BY <1>7 DEF rank
  <2>2. /\ Sorted(S) = [i \in 1 .. n |-> Sorted(S)[i]]
        /\ \A i \in 1 .. n : /\ Sorted(S)[i] \in S
                             /\ Cardinality({y \in S : y <= Sorted(S)[i]}) = i
    <3> DEFINE at(i) == CHOOSE x \in S : Cardinality({y \in S : y <= x}) = i
    <3>1. \A i \in 1 .. n : at(i) \in S /\ Cardinality({y \in S : y <= at(i)}) = i
      BY <2>1, Zenon
    <3>2. Sorted(S) = [i \in 1 .. n |-> at(i)]
      BY DEF Sorted
    <3> HIDE DEF at
    <3>3. \A i \in 1 .. n : Sorted(S)[i] = at(i)
      BY <3>2
    <3>4. Sorted(S) = [i \in 1 .. n |-> Sorted(S)[i]]
      BY <3>2
    <3>5. QED
      BY <3>1, <3>3, <3>4, Zenon
  <2>3. \A i \in 1 .. n : rank[Sorted(S)[i]] = i
    <3> SUFFICES ASSUME NEW i \in 1 .. n PROVE rank[Sorted(S)[i]] = i
      OBVIOUS
    <3>1. \A x \in S : rank[x] = Cardinality({y \in S : y <= x})
      BY DEF rank
    <3>2. QED
      BY <2>2, <3>1, Zenon
  <2>4. QED
    BY <2>2, <2>3
<1> DEFINE q == Sorted(S)
<1>9. q \in Seq(S) /\ Len(q) = n /\ DOMAIN q = 1 .. n
  BY <1>1, <1>8
<1>10. S \subseteq Range(q)
  <2> SUFFICES ASSUME NEW x \in S PROVE x \in Range(q)
    OBVIOUS
  <2>1. rank[x] \in DOMAIN q /\ q[rank[x]] = x
    BY <1>4, <1>5, <1>8, <1>9
  <2>2. QED
    BY <2>1 DEF Range
<1>11. Range(q) \subseteq S
  BY <1>8, <1>9 DEF Range
<1>12. ASSUME NEW i \in DOMAIN q, NEW j \in DOMAIN q, i < j PROVE q[i] < q[j]
  <2>1. q[i] \in S /\ q[j] \in S /\ rank[q[i]] = i /\ rank[q[j]] = j /\ i \in Nat /\ j \in Nat
    BY <1>1, <1>8, <1>9
  <2> HIDE DEF n, upTo, q
  <2>2. q[i] \in Nat /\ q[j] \in Nat
    BY <2>1
  <2>3. q[j] < q[i] => rank[q[j]] < rank[q[i]]
    BY <1>3, <2>1
  <2>4. q[i] # q[j] /\ ~(q[j] < q[i])
    BY <1>12, <2>1, <2>3
  <2>5. QED
    BY <2>2, <2>4
<1>13. QED
  BY <1>9, <1>10, <1>11, <1>12

\* What the menu shows, or the user has chosen.
Picks == [nic : Adapters \cup {None}, fw : Paths \cup {None}]

\* The lists, and the indices into them.
ListsOK ==
    /\ nics \in Seq(Adapters) /\ nicSel \in 0 .. Len(nics)
    /\ cands \in Seq(Paths) /\ fwSel \in 0 .. Len(cands)

\* The rest of the menu's state but for the files' content; a download has a
\* target, and what is written lies in the program's directory.
StateOK ==
    /\ pc \in {"off", "top", "menu", "nic list", "fw list", "cloud list",
               "path", "download", "start", "resolve", "copy", "serve", "session"}
    /\ target \in {p \in Paths : Place(p) = "root"} \cup {None}
    /\ pc = "download" => target \in Cloud
    /\ session.nic \in Adapters \cup {None} /\ session.fw \in Paths \cup {None}
    /\ ctrlC \in BOOLEAN /\ watch \in {"off", "asleep", "exiting"}
    /\ shown \in Picks /\ chosen \in Picks

\* The inductive invariant of the choices.
ChoiceInv == ListsOK /\ StateOK /\ ChoiceKept

\* An index that is in its list selects an element of it.
LEMMA Selected ==
    ASSUME ListsOK
    PROVE  /\ Nic \in Adapters \cup {None} /\ Fw \in Paths \cup {None}
           /\ Files \subseteq Paths
  BY DEF ListsOK, Nic, Fw, At, Files

\* An enumeration of the adapters is a list of adapters.
LEMMA EnumerationFacts ==
    ASSUME NEW q \in SetToAllKPermutations(Adapters)
    PROVE  q \in Seq(Adapters)
<1>1. PICK S \in SUBSET Adapters : q \in [1 .. Cardinality(S) -> S]
  BY DEF SetToAllKPermutations, SetToSeqs
<1>2. Cardinality(S) \in Nat
  BY MenuAssumption, FS_Subset, FS_CardinalityType
<1>3. QED
  BY <1>1, <1>2

\* A list of paths that was sorted: it is a list, and selecting the place of one
\* of its paths selects the path.
LEMMA SortedPaths ==
    ASSUME NEW S, S \subseteq Paths
    PROVE  /\ Sorted(S) \in Seq(Paths)
           /\ \A p : Position(p, Sorted(S)) \in 0 .. Len(Sorted(S))
           /\ \A p \in S : At(Position(p, Sorted(S)), Sorted(S)) = p
           /\ \A p \in S : Position(p, Sorted(S)) # 0
<1> DEFINE q == Sorted(S)
<1>1. S \subseteq Nat /\ IsFiniteSet(S)
  BY MenuAssumption, FS_Subset
<1>2. q \in Seq(S) /\ Range(q) = S
  BY <1>1, SortedFacts
<1> HIDE DEF q
<1>3. q \in Seq(Paths)
  BY <1>2
<1>4. ASSUME NEW p PROVE Position(p, q) \in 0 .. Len(q)
  BY <1>2, PositionFacts
<1>5. ASSUME NEW p \in S PROVE Position(p, q) # 0 /\ At(Position(p, q), q) = p
  <2>1. Position(p, q) # 0
    BY <1>2, PositionFacts
  <2>2. Position(p, q) \in DOMAIN q /\ q[Position(p, q)] = p
    BY <1>2, <2>1, PositionFacts
  <2>3. QED
    BY <2>1, <2>2 DEF At
<1>6. QED
  BY <1>3, <1>4, <1>5 DEF q

\* Scanning both lists keeps what is selected, and with it what was chosen.
LEMMA RefreshKeeps ==
    ASSUME ListsOK, ChoiceKept, chosen \in Picks, Refresh
    PROVE  ListsOK' /\ ChoiceKept' /\ chosen' \in Picks
<1>1. Nic \in Adapters \cup {None} /\ Fw \in Paths \cup {None} /\ Files \subseteq Paths
  BY Selected
<1>2. nics' \in Seq(Adapters) /\ nicSel' \in 0 .. Len(nics')
  <2>1. CASE UNCHANGED <<nics, nicSel>>
    BY <2>1 DEF ListsOK
  <2>2. ASSUME NEW seen \in SetToAllKPermutations(Adapters),
               nics' = seen, nicSel' = Position(Nic, seen)
        PROVE  nics' \in Seq(Adapters) /\ nicSel' \in 0 .. Len(nics')
    BY <2>2, EnumerationFacts, PositionFacts
  <2>3. QED
    BY <2>1, <2>2 DEF Refresh, RefreshNics
<1>3. Position(Nic, nics') # 0 => Nic' = Nic
  <2>1. CASE UNCHANGED <<nics, nicSel>>
    BY <2>1 DEF Nic
  <2>2. CASE nicSel' = Position(Nic, nics')
    <3>1. Position(Nic, nics') # 0 =>
             nicSel' \in DOMAIN nics' /\ nics'[nicSel'] = Nic
      BY <1>2, <2>2, PositionFacts
    <3>2. Nic' = At(nicSel', nics')
      BY DEF Nic
    <3>3. QED
      BY <3>1, <3>2 DEF At
  <2>3. QED
    BY <2>1, <2>2 DEF Refresh, RefreshNics
<1>4. Kept \subseteq Paths /\ (Fw \in Files => Fw \in Kept)
  BY <1>1 DEF Kept, Scan
<1>5. /\ cands' = Sorted(Kept)
      /\ fwSel' = IF Position(Fw, Sorted(Kept)) # 0 THEN Position(Fw, Sorted(Kept))
                  ELSE AutoSelect(Sorted(Kept))
  BY DEF Refresh, RefreshFiles
<1> DEFINE list == Sorted(Kept)
           place == Position(Fw, list)
<1>6. /\ list \in Seq(Paths) /\ place \in 0 .. Len(list)
      /\ Fw \in Kept => place # 0 /\ At(place, list) = Fw
  BY <1>4, SortedPaths
<1>7. cands' = list /\ fwSel' = IF place # 0 THEN place ELSE AutoSelect(list)
  BY <1>5
<1> HIDE DEF list, place
<1>8. AutoSelect(list) \in 0 .. Len(list)
  BY <1>6 DEF AutoSelect
<1>9. cands' \in Seq(Paths) /\ fwSel' \in 0 .. Len(cands')
  BY <1>6, <1>7, <1>8
<1>10. Fw \in Files => Fw' = Fw
  <2>1. Fw' = At(fwSel', cands')
    BY DEF Fw
  <2>2. QED
    BY <1>4, <1>6, <1>7, <2>1
<1>11. /\ chosen' = [nic |-> chosen'.nic, fw |-> chosen'.fw]
       /\ chosen'.nic = IF Position(chosen.nic, nics') # 0 THEN chosen.nic ELSE None
       /\ chosen'.fw = IF chosen.fw \in Files THEN chosen.fw ELSE None
  BY DEF Refresh
<1>12. chosen.nic \in Adapters \cup {None} /\ chosen.fw \in Paths \cup {None}
  BY DEF Picks
<1>13. chosen' \in Picks
  BY <1>11, <1>12 DEF Picks
<1>14. chosen'.nic # None => Nic' = chosen'.nic
  BY <1>3, <1>11 DEF ChoiceKept
<1>15. chosen'.fw # None => Fw' = chosen'.fw
  BY <1>10, <1>11 DEF ChoiceKept
<1>16. QED
  BY <1>2, <1>9, <1>13, <1>14, <1>15 DEF ListsOK, ChoiceKept

\* A path that joins the list is selected, and the adapter stays.
LEMMA SelectKeeps ==
    ASSUME ListsOK, ChoiceKept, chosen \in Picks, NEW p \in Paths, SelectFw(p)
    PROVE  ListsOK' /\ ChoiceKept' /\ chosen' \in Picks
<1> DEFINE S == {p} \cup Range(cands)
           list == Sorted(S)
<1>1. S \subseteq Paths /\ p \in S
  BY DEF ListsOK, Range
<1>2. cands' = list /\ fwSel' = Position(p, list)
      /\ chosen' = [chosen EXCEPT !.fw = p] /\ UNCHANGED <<nics, nicSel>>
  BY DEF SelectFw, Add
<1> HIDE DEF S
<1>3. /\ list \in Seq(Paths) /\ Position(p, list) \in 0 .. Len(list)
      /\ At(Position(p, list), list) = p
  BY <1>1, SortedPaths
<1> HIDE DEF list
<1>4. ListsOK'
  BY <1>2, <1>3 DEF ListsOK
<1>5. chosen' \in Picks /\ chosen'.fw = p /\ chosen'.nic = chosen.nic
  BY <1>2 DEF Picks
<1>6. Fw' = p /\ Nic' = Nic
  <2>1. Fw' = At(fwSel', cands') /\ Nic' = Nic
    BY <1>2 DEF Fw, Nic
  <2>2. QED
    BY <1>2, <1>3, <2>1
<1>7. QED
  BY <1>4, <1>5, <1>6 DEF ChoiceKept

\* The menu of a process that has ended is empty.
LEMMA OffKeeps ==
    ASSUME Off
    PROVE  ChoiceInv'
<1>1. /\ nics' = <<>> /\ nicSel' = 0 /\ cands' = <<>> /\ fwSel' = 0
      /\ pc' = "off" /\ target' = None /\ session' = NoSession
      /\ ctrlC' = FALSE /\ watch' = "asleep" /\ shown' = NoPick /\ chosen' = NoPick
  BY DEF Off
<1>2. ListsOK'
  BY <1>1 DEF ListsOK
<1>3. NoPick \in Picks /\ NoPick.nic = None /\ NoPick.fw = None
      /\ NoSession.nic = None /\ NoSession.fw = None
  BY DEF NoPick, NoSession, Picks
<1>4. StateOK'
  BY <1>1, <1>3 DEF StateOK
<1>5. ChoiceKept'
  BY <1>1, <1>3 DEF ChoiceKept
<1>6. QED
  BY <1>2, <1>4, <1>5 DEF ChoiceInv

\* A step that leaves the lists, the indices and the choices alone keeps them.
LEMMA SameMenu ==
    ASSUME ListsOK, ChoiceKept, UNCHANGED <<menu, chosen>>
    PROVE  ListsOK' /\ ChoiceKept'
  BY DEF ListsOK, ChoiceKept, menu, Nic, Fw

\* The program starts with empty lists and nothing chosen.
LEMMA InitChoices == Init => ChoiceInv
<1> SUFFICES ASSUME Init PROVE ChoiceInv
  OBVIOUS
<1>1. ListsOK
  BY DEF Init, ListsOK
<1>2. StateOK
  BY DEF Init, StateOK, NoPick, NoSession, Picks
<1>3. ChoiceKept
  BY DEF Init, ChoiceKept, NoPick
<1>4. QED
  BY <1>1, <1>2, <1>3 DEF ChoiceInv

\* Every step keeps the lists, the indices and the choices right.
LEMMA NextChoices == ChoiceInv /\ [Next]_vars => ChoiceInv'
<1> SUFFICES ASSUME ChoiceInv, [Next]_vars PROVE ChoiceInv'
  OBVIOUS
<1>1. ListsOK /\ StateOK /\ ChoiceKept /\ chosen \in Picks
  BY DEF ChoiceInv, StateOK
<1>2. /\ Nic \in Adapters \cup {None} /\ Fw \in Paths \cup {None}
      /\ Files \subseteq Paths
  BY <1>1, Selected
<1>3. Cloud \subseteq {p \in Paths : Place(p) = "root"}
  BY MenuAssumption
<1>4. CASE Launch \/ SelectFirmware \/ Rescan
  <2>1. Refresh /\ UNCHANGED <<target, session, ctrlC, watch, shown>>
        /\ pc' \in {"top", "fw list"}
    BY <1>4 DEF Launch, SelectFirmware, Rescan, Goto, Quiet
  <2>2. ListsOK' /\ ChoiceKept' /\ chosen' \in Picks
    BY <1>1, <2>1, RefreshKeeps
  <2>3. StateOK'
    BY <1>1, <2>1, <2>2 DEF StateOK
  <2>4. QED BY <2>2, <2>3 DEF ChoiceInv
<1>5. CASE Top
  <2>1. CASE Off
    BY <2>1, OffKeeps
  <2>2. CASE ~Off
    <3>1. /\ Refresh /\ UNCHANGED <<target, session, ctrlC, watch>> /\ pc' = "menu"
          /\ shown' = [nic |-> At(nicSel', nics'), fw |-> At(fwSel', cands')]
      BY <1>5, <2>2 DEF Top
    <3>2. ListsOK' /\ ChoiceKept' /\ chosen' \in Picks
      BY <1>1, <3>1, RefreshKeeps
    <3>3. At(nicSel', nics') \in Adapters \cup {None}
          /\ At(fwSel', cands') \in Paths \cup {None}
      BY <3>2 DEF ListsOK, At
    <3>4. shown' \in Picks
      BY <3>1, <3>3 DEF Picks
    <3>5. StateOK'
      BY <1>1, <3>1, <3>2, <3>4 DEF StateOK
    <3>6. QED BY <3>2, <3>5 DEF ChoiceInv
  <2>3. QED BY <2>1, <2>2
<1>6. CASE Leave
  BY <1>6, OffKeeps DEF Leave
<1>7. CASE SelectNic \/ Ask \/ GiveUp
  <2>1. /\ UNCHANGED <<menu, chosen>>
        /\ UNCHANGED <<target, session, ctrlC, watch, shown>>
        /\ pc' \in {"nic list", "cloud list", "path", "top"}
    BY <1>7 DEF SelectNic, Ask, GiveUp, Goto, Quiet
  <2>2. ListsOK' /\ ChoiceKept'
    BY <1>1, <2>1, SameMenu
  <2>3. StateOK'
    BY <1>1, <2>1 DEF StateOK
  <2>4. QED BY <2>2, <2>3 DEF ChoiceInv
<1>8. CASE PickNic
  <2>1. /\ UNCHANGED <<nics, cands, fwSel, target>> /\ nicSel' \in DOMAIN nics
        /\ chosen' = [chosen EXCEPT !.nic = nics[nicSel']]
        /\ UNCHANGED <<session, ctrlC, watch, shown>> /\ pc' = "top"
    BY <1>8 DEF PickNic, Goto, Quiet
  <2>2. nics[nicSel'] \in Adapters /\ nicSel' \in 0 .. Len(nics)
    BY <1>1, <2>1 DEF ListsOK
  <2>3. chosen' \in Picks /\ chosen'.nic = nics[nicSel'] /\ chosen'.fw = chosen.fw
    BY <1>1, <2>1, <2>2 DEF Picks
  <2>4. Nic' = nics[nicSel'] /\ Fw' = Fw
    BY <2>1 DEF Nic, Fw, At
  <2>5. ListsOK' /\ ChoiceKept'
    BY <1>1, <2>1, <2>2, <2>3, <2>4 DEF ListsOK, ChoiceKept
  <2>6. StateOK'
    BY <1>1, <2>1, <2>3 DEF StateOK
  <2>7. QED BY <2>5, <2>6 DEF ChoiceInv
<1>9. CASE PickListed
  <2>1. /\ UNCHANGED <<nics, nicSel, cands, target>> /\ fwSel' \in DOMAIN cands
        /\ chosen' = [chosen EXCEPT !.fw = cands[fwSel']]
        /\ UNCHANGED <<session, ctrlC, watch, shown>> /\ pc' = "top"
    BY <1>9 DEF PickListed, Goto, Quiet
  <2>2. cands[fwSel'] \in Paths /\ fwSel' \in 0 .. Len(cands)
    BY <1>1, <2>1 DEF ListsOK
  <2>3. chosen' \in Picks /\ chosen'.fw = cands[fwSel'] /\ chosen'.nic = chosen.nic
    BY <1>1, <2>1, <2>2 DEF Picks
  <2>4. Fw' = cands[fwSel'] /\ Nic' = Nic
    BY <2>1 DEF Nic, Fw, At
  <2>5. ListsOK' /\ ChoiceKept'
    BY <1>1, <2>1, <2>2, <2>3, <2>4 DEF ListsOK, ChoiceKept
  <2>6. StateOK'
    BY <1>1, <2>1, <2>3 DEF StateOK
  <2>7. QED BY <2>5, <2>6 DEF ChoiceInv
<1>10. CASE PickPath \/ DownloadEnds
  <2>1. PICK p \in Paths : SelectFw(p)
    <3>1. CASE PickPath
      BY <1>2, <3>1 DEF PickPath
    <3>2. CASE DownloadEnds
      BY <1>1, <1>3, <3>2 DEF DownloadEnds, Goto, StateOK
    <3>3. QED BY <1>10, <3>1, <3>2
  <2>2. /\ target' \in {target, None} /\ UNCHANGED <<session, ctrlC, watch, shown>>
        /\ pc' = "top"
    BY <1>10 DEF PickPath, DownloadEnds, Goto, Quiet
  <2>3. ListsOK' /\ ChoiceKept' /\ chosen' \in Picks
    BY <1>1, <2>1, SelectKeeps
  <2>4. StateOK'
    BY <1>1, <2>2, <2>3 DEF StateOK
  <2>5. QED BY <2>3, <2>4 DEF ChoiceInv
<1>11. CASE StartDownload \/ DownloadFails
  <2>1. /\ UNCHANGED <<menu, chosen>> /\ UNCHANGED <<session, ctrlC, watch, shown>>
        /\ \/ pc' = "download" /\ target' \in Cloud
           \/ pc' = "top" /\ target' = None
    BY <1>11 DEF StartDownload, DownloadFails, Goto, Quiet
  <2>2. ListsOK' /\ ChoiceKept'
    BY <1>1, <2>1, SameMenu
  <2>3. StateOK'
    BY <1>1, <1>3, <2>1 DEF StateOK
  <2>4. QED BY <2>2, <2>3 DEF ChoiceInv
<1>12. CASE Begin \/ StartStep
  <2> USE DEF StartStep, FindFirmware, GoOn, StartCopy, CopyEnds, CopyFails, Start,
        StartFails, Goto
  <2>1. /\ UNCHANGED <<menu, chosen>> /\ UNCHANGED <<ctrlC, shown>>
        /\ pc' \in {"start", "resolve", "copy", "serve", "session", "top"}
        /\ watch' \in {watch, "off", "asleep"}
    BY <1>12 DEF Begin, Starting, Back
  <2>2. target' \in {p \in Paths : Place(p) = "root"} \cup {None}
    <3>1. CASE StartCopy
      BY <3>1, MenuAssumption DEF Files
    <3>2. CASE ~StartCopy
      <4>1. target' \in {target, None}
        BY <1>12, <3>2 DEF Begin
      <4>2. QED BY <1>1, <4>1 DEF StateOK
    <3>3. QED BY <3>1, <3>2
  <2>3. session'.nic \in {session.nic, Nic, None} /\ session'.fw \in {session.fw, Fw, None}
    <3>1. CASE Begin
      BY <3>1 DEF Begin, NoSession
    <3>2. CASE FindFirmware \/ Start
      BY <3>2
    <3>3. CASE StartCopy
      BY <3>3
    <3>4. CASE GoOn
      BY <3>4
    <3>5. CASE CopyEnds
      BY <3>5
    <3>6. CASE CopyFails \/ StartFails
      BY <3>6 DEF Back, NoSession
    <3>7. QED BY <1>12, <3>1, <3>2, <3>3, <3>4, <3>5, <3>6
  <2>4. ListsOK' /\ ChoiceKept'
    BY <1>1, <2>1, SameMenu
  <2>5. session'.nic \in Adapters \cup {None} /\ session'.fw \in Paths \cup {None}
    BY <1>1, <1>2, <2>3 DEF StateOK
  <2>6. StateOK'
    BY <1>1, <2>1, <2>2, <2>5 DEF StateOK
  <2>7. QED BY <2>4, <2>6 DEF ChoiceInv
<1>13. CASE SessionEnds
  <2>1. CASE Off
    BY <2>1, OffKeeps
  <2>2. CASE ~Off
    <3>1. /\ UNCHANGED <<menu, chosen>> /\ UNCHANGED <<target, ctrlC, shown>>
          /\ pc' = "top" /\ session' = NoSession /\ watch' \in {watch, "asleep"}
      BY <1>13, <2>2 DEF SessionEnds, Back
    <3>2. ListsOK' /\ ChoiceKept'
      BY <1>1, <3>1, SameMenu
    <3>3. StateOK'
      BY <1>1, <3>1 DEF StateOK, NoSession
    <3>4. QED BY <3>2, <3>3 DEF ChoiceInv
  <2>3. QED BY <2>1, <2>2
<1>14. CASE CtrlC \/ WatchdogSees \/ Put \/ UNCHANGED vars
  <2>1. /\ UNCHANGED <<menu, chosen>> /\ UNCHANGED <<pc, target, session, shown>>
        /\ ctrlC' \in {ctrlC, TRUE} /\ watch' \in {watch, "exiting"}
    BY <1>14 DEF CtrlC, WatchdogSees, Put, vars, process
  <2>2. ListsOK' /\ ChoiceKept'
    BY <1>1, <2>1, SameMenu
  <2>3. StateOK'
    BY <1>1, <2>1 DEF StateOK
  <2>4. QED BY <2>2, <2>3 DEF ChoiceInv
<1>15. CASE WatchdogExits
  BY <1>15, OffKeeps DEF WatchdogExits
<1>16. QED
  BY <1>4, <1>5, <1>6, <1>7, <1>8, <1>9, <1>10, <1>11, <1>12, <1>13, <1>14, <1>15
  DEF Next, MainStep

\* The lists, the indices and the choices are right throughout.
LEMMA ChoiceInvariance == Spec => []ChoiceInv
  BY InitChoices, NextChoices, PTL DEF Spec

\* The types, and that no index is ever out of the list it is used with, though
\* both lists change at every prompt.
THEOREM MenuTypeOK == Spec => []TypeOK
<1>1. Inv /\ ChoiceInv => TypeOK
  <2> SUFFICES ASSUME Inv, ChoiceInv PROVE TypeOK
    OBVIOUS
  <2>1. disk \in [Paths -> Images \cup {"none", "part", "cut"}]
    BY DEF Inv, DiskOK, Content
  <2>2. /\ Range(nics) \subseteq Adapters /\ nicSel \in 0 .. Len(nics)
        /\ Range(cands) \subseteq Paths /\ fwSel \in 0 .. Len(cands)
    BY DEF ChoiceInv, ListsOK, Range
  <2>3. session \in [nic : Adapters \cup {None}, fw : Paths \cup {None},
                     image : Images \cup {"none", "cut"},
                     copy : Images \cup {"none", "cut"}, resolved : BOOLEAN]
    <3>1. /\ session.nic \in Adapters \cup {None} /\ session.fw \in Paths \cup {None}
          /\ session.image \in Images \cup {"none", "cut"}
          /\ session.copy \in Images \cup {"none", "cut"}
          /\ session.resolved \in BOOLEAN
      BY DEF Inv, SessionOK, Content, ChoiceInv, StateOK
    <3>2. session = [nic |-> session.nic, fw |-> session.fw, image |-> session.image,
                     copy |-> session.copy, resolved |-> session.resolved]
      BY DEF Inv, SessionOK
    <3>3. QED BY <3>1, <3>2
  <2>4. QED
    BY <2>1, <2>2, <2>3 DEF TypeOK, ChoiceInv, StateOK, Picks
<1>2. QED BY <1>1, Invariance, ChoiceInvariance, PTL

\* What the user has chosen stays selected, however often the lists are scanned,
\* sorted or added to, for as long as it is there.
THEOREM MenuKeepsTheChoice == Spec => []ChoiceKept
<1>1. ChoiceInv => ChoiceKept
  BY DEF ChoiceInv
<1>2. QED BY <1>1, ChoiceInvariance, PTL

=============================================================================
