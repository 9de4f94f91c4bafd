---------------------------- MODULE SessionThreads ----------------------------
(***************************************************************************)
(* The threads of a session and the mutexes they share: the main thread    *)
(* and the renderer of crates/app/src/status.rs, the DHCP server's thread  *)
(* (crates/core/src/dhcp.rs) and the TFTP listener's                       *)
(* (crates/core/src/tftp.rs), with the logger (log.rs) and the probe       *)
(* (probe.rs) they call.  What they do with the data is in the other       *)
(* modules; here is the order in which each takes, holds and releases      *)
(* mutexes, and how a stop ends the servers.                               *)
(*                                                                         *)
(* todo[t] is what thread t still does before it is back at the head of    *)
(* its loop.  A mutex that is held for an access that takes no other is    *)
(* taken and released in one step ("use").  The mutexes of the logger's    *)
(* file and subscribers are left out: while they are held only the state's *)
(* is taken, which nobody holds who logs.  So are the threads of the       *)
(* transfers, which hold one mutex at a time and nobody waits for.         *)
(*                                                                         *)
(* Before some definitions stands a form of them with a mistake in it,     *)
(* which no other definition uses: it shows that a property would catch    *)
(* the mistake.                                                            *)
(***************************************************************************)
EXTENDS Naturals, SequencesExt

VARIABLES
    owner,    \* owner[m]: the thread that holds m, or "none"
    todo,     \* todo[t]: what t does next, a sequence of <<operation, on>>
    alive,    \* the threads there are
    serving,  \* the servers whose running flag is set
    open,     \* the servers that have their socket
    taken,    \* stop has taken the servers from the session
    running,  \* CliState.running
    ctrlC     \* util::CTRL_C

flags == <<serving, open, taken, running>>
vars == <<owner, todo, alive, flags, ctrlC>>

Servers == {"dhcp", "tftp"}
Threads == Servers \cup {"main", "renderer"}

\* The mutex a server's socket is kept in.
Socket(s) == IF s = "dhcp" THEN "dhcp socket" ELSE "tftp socket"
Sockets == {Socket(s) : s \in Servers}

\* PROBE_WARN is "warn".
Mutexes == Sockets \cup {"session", "leases", "bad", "warn", "state"}

-----------------------------------------------------------------------------
(* What the threads do.                                                    *)

Lock(m) == <<"lock", m>>
Unlock(m) == <<"unlock", m>>
Use(m) == <<"use", m>>
Join(t) == <<"join", t>>
CallStop == <<"stop", "session">>
End == <<"end", "thread">>

\* A line of the log: the subscriber of cli.rs appends it to the state.
Emit == <<Use("state")>>

\* A probe says so when it is blocked, and logs its result.
Probes == {Emit, <<Lock("warn")>> \o Emit \o <<Unlock("warn")>> \o Emit}

LeaseChanged == <<Use("state")>>
SendReply == <<Use("dhcp socket")>>

\* The table and the declined addresses are held during the probes, the
\* log's callbacks and lease_changed.
Discover(probes) ==
    <<Lock("leases"), Lock("bad")>> \o probes \o Emit \o LeaseChanged
    \o <<Unlock("bad"), Unlock("leases")>> \o SendReply

Release ==
    Emit \o <<Lock("leases")>> \o Emit \o <<Use("bad"), Unlock("leases")>>

Decline == Emit \o <<Use("bad")>>
Inform == Emit \o SendReply

\* What a listener does with a packet.  A REQUEST is a DISCOVER without
\* probes; the TFTP listener only starts a thread.
Handling(s) ==
    IF s = "tftp" THEN {<<>>}
    ELSE {<<>>, Discover(<<>>), Release, Decline, Inform}
         \cup {Discover(p) : p \in Probes}

\* A listener waits for a packet with its socket's mutex held.
Listening(s) ==
    IF s \in serving
    THEN {<<Lock(Socket(s)), <<"receive", s>>, Unlock(Socket(s))>>}
    ELSE {<<End>>}

\* Mistake: the flag is cleared after the socket is closed.
ShutDownFlagLast(s) ==
    <<Lock(Socket(s)), <<"close", s>>, Unlock(Socket(s)), <<"clear", s>>,
      Join(s)>>

\* Mistake: the thread is not waited for.
ShutDownUnjoined(s) ==
    <<<<"clear", s>>, Lock(Socket(s)), <<"close", s>>, Unlock(Socket(s))>>

\* stop of a server: its flag, its socket, its thread.
ShutDown(s) ==
    <<<<"clear", s>>, Lock(Socket(s)), <<"close", s>>, Unlock(Socket(s)),
      Join(s)>>

\* Session.stop: the table is saved, the servers are stopped, the adapter is
\* restored, the result is logged and the state reset.  A second stop finds
\* neither servers nor a snapshot.
Ending == Emit \o <<Use("state"), <<"stopped", "state">>>>
Stop ==
    IF taken THEN Ending
    ELSE <<Use("leases")>> \o ShutDown("tftp") \o ShutDown("dhcp")
         \o <<<<"restore", "adapter">>>> \o Ending

\* Whoever sees that the session is not running leaves its loop.
Look == <<"look", "state">>

\* A turn of the renderer: tick_connection stops the session or notes how
\* long the router has been silent; then the view is drawn.
Turns ==
    {<<Lock("session"), Look>> \o tick \o <<Look, Unlock("session"),
       Lock("session"), Use("state"), Unlock("session")>> :
         tick \in {Emit, Emit \o <<CallStop>>}}

OnCtrlC ==
    {<<Lock("session")>> \o Emit
     \o <<CallStop, Unlock("session"), <<"exit", "process">>>>}

\* Mistake: the session is held while the renderer is waited for.
InputsHolding ==
    {<<Lock("session"), Look, Unlock("session")>>,
     <<Lock("session"), CallStop, Join("renderer"), Unlock("session"), End>>}

\* The main thread looks at the state around its prompts, and stops the
\* session if the user says so.
Inputs ==
    {<<Lock("session"), Look, Unlock("session")>>,
     <<Lock("session"), CallStop, Unlock("session"), Join("renderer"), End>>}

\* Mistake: the session is not released.
LeavesHolding(t) == IF t = "main" THEN <<Join("renderer"), End>> ELSE <<End>>

Leaves(t) ==
    IF t = "main" THEN <<Unlock("session"), Join("renderer"), End>>
    ELSE <<Unlock("session"), End>>

-----------------------------------------------------------------------------
(* The steps of a thread.                                                  *)

Op(t) == IF todo[t] = <<>> THEN "none" ELSE Head(todo[t])[1]
On(t) == Head(todo[t])[2]
Rest(t) == Tail(todo[t])
Free(m) == owner[m] = "none"

\* t has w left to do, and the mutexes are held as in held, but for those that
\* w starts with releasing: nothing can hold a release up, and it is part of
\* the step before it.
Goes(t, w, held) ==
    LET next == SelectInSeq(w, LAMBDA o : o[1] # "unlock")
        n == IF next = 0 THEN Len(w) ELSE next - 1
        released == {w[i][2] : i \in 1 .. n}
    IN  /\ todo' = [todo EXCEPT ![t] = SubSeq(w, n + 1, Len(w))]
        /\ owner' = [m \in Mutexes |->
                        IF m \in released THEN "none" ELSE held[m]]

Acquire(t) ==
    /\ Op(t) = "lock" /\ Free(On(t))
    /\ Goes(t, Rest(t), [owner EXCEPT ![On(t)] = t])
    /\ UNCHANGED <<alive, flags, ctrlC>>

Access(t) ==
    /\ Op(t) = "use" /\ Free(On(t))
    /\ Goes(t, Rest(t), owner)
    /\ UNCHANGED <<alive, flags, ctrlC>>

\* A packet or the timeout of 250 ms; without its socket the thread ends.
Receive(s) ==
    /\ Op(s) = "receive"
    /\ \/ s \in open
          /\ \E w \in Handling(s) :
                 Goes(s, Rest(s) \o <<<<"heed", s>>>> \o w, owner)
       \/ s \notin open /\ Goes(s, Rest(s) \o <<End>>, owner)
    /\ UNCHANGED <<alive, flags, ctrlC>>

\* A packet that arrived before the stop is not handled after it.
Heed(s) ==
    /\ Op(s) = "heed"
    /\ Goes(s, IF s \in serving THEN Rest(s) ELSE <<>>, owner)
    /\ UNCHANGED <<alive, flags, ctrlC>>

Clear(t) ==
    /\ Op(t) = "clear" /\ Goes(t, Rest(t), owner)
    /\ serving' = serving \ {On(t)}
    /\ UNCHANGED <<alive, open, taken, running, ctrlC>>

Close(t) ==
    /\ Op(t) = "close" /\ Goes(t, Rest(t), owner)
    /\ open' = open \ {On(t)}
    /\ UNCHANGED <<alive, serving, taken, running, ctrlC>>

\* A thread is waited for.
Joins(t) ==
    /\ Op(t) = "join" /\ On(t) \notin alive /\ Goes(t, Rest(t), owner)
    /\ UNCHANGED <<alive, flags, ctrlC>>

Stops(t) ==
    /\ Op(t) = "stop" /\ Goes(t, Stop \o Rest(t), owner)
    /\ taken' = TRUE
    /\ UNCHANGED <<alive, serving, open, running, ctrlC>>

Restores(t) ==
    /\ Op(t) = "restore" /\ Goes(t, Rest(t), owner)
    /\ UNCHANGED <<alive, flags, ctrlC>>

Stopped(t) ==
    /\ Op(t) = "stopped" /\ Goes(t, Rest(t), owner)
    /\ running' = FALSE
    /\ UNCHANGED <<alive, serving, open, taken, ctrlC>>

Looks(t) ==
    /\ Op(t) = "look" /\ Free("state")
    /\ Goes(t, IF running THEN Rest(t) ELSE Leaves(t), owner)
    /\ UNCHANGED <<alive, flags, ctrlC>>

Ends(t) ==
    /\ Op(t) = "end" /\ Goes(t, <<>>, owner)
    /\ alive' = alive \ {t}
    /\ UNCHANGED <<flags, ctrlC>>

\* The end of the process.
Exits(t) ==
    /\ Op(t) = "exit"
    /\ alive' = {}
    /\ todo' = [u \in Threads |-> <<>>]
    /\ owner' = [m \in Mutexes |-> "none"]
    /\ UNCHANGED <<flags, ctrlC>>

\* The head of a loop.
Turn(t, options) ==
    /\ t \in alive /\ todo[t] = <<>>
    /\ \E w \in options : Goes(t, w, owner)
    /\ UNCHANGED <<alive, flags, ctrlC>>

Listen(s) == Turn(s, Listening(s))
Render == Turn("renderer", IF ctrlC THEN OnCtrlC ELSE Turns)

\* At a prompt the main thread waits for the user.
Input == Turn("main", IF ctrlC THEN {<<Join("renderer"), End>>} ELSE Inputs)

CtrlC ==
    /\ alive # {} /\ ctrlC' = TRUE
    /\ UNCHANGED <<owner, todo, alive, flags>>

-----------------------------------------------------------------------------
Init ==
    /\ owner = [m \in Mutexes |-> "none"]
    /\ todo = [t \in Threads |-> <<>>]
    /\ alive = Threads
    /\ serving = Servers /\ open = Servers
    /\ taken = FALSE /\ running = TRUE /\ ctrlC = FALSE

Step(t) ==
    \/ Acquire(t) \/ Access(t) \/ Receive(t) \/ Heed(t) \/ Clear(t)
    \/ Close(t) \/ Joins(t) \/ Stops(t) \/ Restores(t) \/ Stopped(t)
    \/ Looks(t) \/ Ends(t) \/ Exits(t)

Next ==
    \/ \E t \in Threads : Step(t)
    \/ \E s \in Servers : Listen(s)
    \/ Render \/ Input \/ CtrlC

\* The threads run, but the user may never answer.  The session and the table
\* come to whoever waits for them, since they are released for a second at a
\* time, or for as long as no packet comes; a socket need not, for its
\* listener takes it again as soon as it has released it.
Fairness ==
    /\ \A s \in Servers : WF_vars(Step(s) \/ Listen(s))
    /\ WF_vars(Step("renderer") \/ Render) /\ WF_vars(Step("main"))
    /\ \A t \in {"renderer", "main"} :
           /\ SF_vars(Op(t) = "lock" /\ On(t) = "session" /\ Acquire(t))
           /\ SF_vars(Op(t) = "use" /\ On(t) = "leases" /\ Access(t))

Spec == Init /\ [][Next]_vars /\ Fairness

-----------------------------------------------------------------------------
(* Properties.                                                             *)

\* The types; a thread that holds a mutex is going to release it.
TypeOK ==
    /\ owner \in [Mutexes -> Threads \cup {"none"}]
    /\ \A m \in Mutexes : owner[m] # "none" =>
           Contains(todo[owner[m]], Unlock(m))
    /\ alive \subseteq Threads
    /\ serving \subseteq Servers /\ open \subseteq Servers
    /\ {taken, running, ctrlC} \subseteq BOOLEAN

\* t waits for u: for a mutex that u holds, or for the end of u.
WaitsFor(t, u) ==
    \/ Op(t) \in {"lock", "use"} /\ owner[On(t)] = u
    \/ Op(t) = "look" /\ owner["state"] = u
    \/ Op(t) = "join" /\ On(t) = u /\ u \in alive

\* No threads wait for each other in a circle, a thread for itself included:
\* not through the callbacks that the logger, the probe and the DHCP server
\* call with mutexes held (dhcp.rs:380), and not through the threads that are
\* waited for after, or during, a stop with the session held (session.rs:310).
NoDeadlock ==
    ~\E S \in (SUBSET Threads) \ {{}} :
        \A t \in S : \E u \in S : WaitsFor(t, u)

\* When the adapter gets its old configuration back, the threads of both
\* servers have ended: none answers, or changes the table, any more
\* (session.rs:310-317).
RestoredWhenQuiet ==
    \A t \in Threads : Op(t) = "restore" => alive \cap Servers = {}

\* A stop that has begun, and Ctrl+C, end the session (status.rs:29), though
\* the listeners hold what the stop needs nearly all the time.
StopEnds == (ctrlC \/ \E t \in Threads : Op(t) = "stop") ~> ~running
=============================================================================
