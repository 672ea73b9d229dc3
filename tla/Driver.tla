-------------------------------- MODULE Driver --------------------------------
(***************************************************************************)
(* The CoreMIDI driver and its link to the bridge.                         *)
(*                                                                         *)
(* The bridge (apps/desktop-bridge/src/midi/DriverPort.ts, DriverLink.ts)  *)
(* opens ports on devices the driver publishes, and tells the driver, by a *)
(* DEVICE_STATE frame, when a device's first port opens and its last one   *)
(* closes.  The driver (native/coremidi-driver/src/Link.h, VrmcDriver.cpp) *)
(* runs in MIDIServer: a thread of the link connects, reads frames and     *)
(* notes which devices are wanted, and the server's main thread applies    *)
(* that, and starts and stops the driver.  Either process may die, and the *)
(* server launches the driver on demand and stops it when idle.            *)
(*                                                                         *)
(* MIDI frames are left out: they change no state of either side.          *)
(***************************************************************************)
EXTENDS Naturals, Sequences, FiniteSets

CONSTANTS
    Devices,    \* the models the driver publishes, as device indices
    Ports,      \* port indices of a device
    Handles,    \* names of the port objects that can be open at one time
    Conns,      \* names of the socket connections that can exist at one time
    MaxWire     \* bound on the frames under way on a connection

None == 0

ASSUME ConnsAssumption == Conns \subseteq Nat \ {None}
ASSUME HandlesAssumption == Handles \subseteq Nat \ {None} /\ IsFiniteSet(Handles)

Addresses == Devices \X Ports

VARIABLES
    (* The bridge *)
    bridgeUp,   \* the bridge runs and listens
    backlog,    \* connections that were made and not accepted yet
    socket,     \* DriverLink.socket
    handles,    \* port object -> its address, or <<>> if it is not open
    sources,    \* DriverPorts.sources: address -> port object, or None
    openPorts,  \* DriverPorts.openPorts: device -> how many are open
    (* The connections *)
    ends,       \* connection -> which of its ends are open
    wire,       \* connection -> the frames on their way to the driver
    cut,        \* connections that were shut down under a blocked read
    (* The driver *)
    main,       \* the main thread: "off", "up" or "joining" in Link::Stop()
    running,    \* Link.running_
    thread,     \* Link::Loop(): "off", "loop", "trying", "connected", "reading", "done"
    mine,       \* the local fd of Loop()
    fd,         \* Link.fd_
    wanted,     \* gWantedPresent
    signalled,  \* gPresenceSource is signalled
    shown,      \* devices whose kMIDIPropertyOffline is 0
    (* History *)
    missed      \* devices of which the driver has not been told the truth

portVars == <<handles, sources, openPorts>>
threadVars == <<thread, mine, fd>>
presenceVars == <<wanted, signalled, shown>>
vars == <<bridgeUp, backlog, socket, portVars, ends, wire, cut, main, running,
          threadVars, presenceVars, missed>>

Frames == [device : Devices, present : BOOLEAN]

TypeOK ==
    /\ bridgeUp \in BOOLEAN
    /\ backlog \subseteq Conns
    /\ socket \in Conns \cup {None}
    /\ handles \in [Handles -> Addresses \cup {<<>>}]
    /\ sources \in [Addresses -> Handles \cup {None}]
    /\ openPorts \in [Devices -> 0..Cardinality(Handles)]
    /\ ends \in [Conns -> SUBSET {"bridge", "driver"}]
    /\ wire \in [Conns -> Seq(Frames)]
    /\ cut \subseteq Conns
    /\ main \in {"off", "up", "joining"}
    /\ running \in BOOLEAN
    /\ thread \in {"off", "loop", "trying", "connected", "reading", "done"}
    /\ mine \in Conns \cup {None}
    /\ fd \in Conns \cup {None}
    /\ wanted \subseteq Devices
    /\ signalled \in BOOLEAN
    /\ shown \subseteq Devices
    /\ missed \subseteq Devices

Init ==
    /\ bridgeUp = FALSE
    /\ backlog = {}
    /\ socket = None
    /\ handles = [h \in Handles |-> <<>>]
    /\ sources = [a \in Addresses |-> None]
    /\ openPorts = [d \in Devices |-> 0]
    /\ ends = [c \in Conns |-> {}]
    /\ wire = [c \in Conns |-> <<>>]
    /\ cut = {}
    /\ main = "off"
    /\ running = FALSE
    /\ thread = "off"
    /\ mine = None
    /\ fd = None
    /\ wanted = {}
    /\ signalled = FALSE
    /\ shown = {}
    /\ missed = {}

-----------------------------------------------------------------------------
(* The bridge's ports.                                                     *)

\* Frames written to the socket arrive unless the driver has closed its end.
Carried == socket # None /\ "driver" \in ends[socket]

\* setPresent(): whether it was written is not asked.
Tell(d, present) ==
    /\ Carried => Len(wire[socket]) < MaxWire
    /\ wire' = IF Carried
               THEN [wire EXCEPT ![socket] = Append(@, [device |-> d, present |-> present])]
               ELSE wire
    /\ missed' = IF Carried THEN missed \ {d} ELSE missed \cup {d}

TellNothing == UNCHANGED <<wire, missed>>

\* open(), reached by the device manager's openPort() while a driver is
\* connected: the device appears with its first port.
Open(h, a) ==
    /\ socket # None
    /\ handles[h] = <<>>
    /\ handles' = [handles EXCEPT ![h] = a]
    /\ sources' = [sources EXCEPT ![a] = h]
    /\ openPorts' = [openPorts EXCEPT ![a[1]] = @ + 1]
    /\ IF openPorts[a[1]] = 0 THEN Tell(a[1], TRUE) ELSE TellNothing
    /\ UNCHANGED <<bridgeUp, backlog, socket, ends, cut, main, running, threadVars, presenceVars>>

\* Mutant: the address stays in the map of sources.
CloseKeepingTheSource(h) ==
    LET a == handles[h] IN
    /\ a # <<>>
    /\ handles' = [handles EXCEPT ![h] = <<>>]
    /\ openPorts' = [openPorts EXCEPT ![a[1]] = @ - 1]
    /\ IF openPorts[a[1]] = 1 THEN Tell(a[1], FALSE) ELSE TellNothing
    /\ UNCHANGED <<bridgeUp, backlog, socket, sources, ends, cut, main, running, threadVars, presenceVars>>

\* Mutant: the device goes away with the first port that closes.
CloseTheDevice(h) ==
    LET a == handles[h] IN
    /\ a # <<>>
    /\ handles' = [handles EXCEPT ![h] = <<>>]
    /\ sources' = [sources EXCEPT ![a] = None]
    /\ openPorts' = [openPorts EXCEPT ![a[1]] = @ - 1]
    /\ Tell(a[1], FALSE)
    /\ UNCHANGED <<bridgeUp, backlog, socket, ends, cut, main, running, threadVars, presenceVars>>

\* close() of a port: whoever has its address is taken out of the map, and
\* the device goes away with its last port.
Close(h) ==
    LET a == handles[h] IN
    /\ a # <<>>
    /\ handles' = [handles EXCEPT ![h] = <<>>]
    /\ sources' = [sources EXCEPT ![a] = None]
    /\ openPorts' = [openPorts EXCEPT ![a[1]] = @ - 1]
    /\ IF openPorts[a[1]] = 1 THEN Tell(a[1], FALSE) ELSE TellNothing
    /\ UNCHANGED <<bridgeUp, backlog, socket, ends, cut, main, running, threadVars, presenceVars>>

-----------------------------------------------------------------------------
(* The bridge's end of the connection.                                     *)

\* accept(): a second connection replaces the first.  Ports that are open are
\* not mentioned to it.
Accept(c) ==
    /\ c \in backlog
    /\ backlog' = backlog \ {c}
    /\ socket' = c
    /\ ends' = IF socket = None THEN ends ELSE [ends EXCEPT ![socket] = @ \ {"bridge"}]
    /\ UNCHANGED <<bridgeUp, portVars, wire, cut, main, running, threadVars, presenceVars, missed>>

\* The socket's close event.
SeesEnd ==
    /\ socket # None
    /\ "driver" \notin ends[socket]
    /\ socket' = None
    /\ ends' = [ends EXCEPT ![socket] = {}]
    /\ UNCHANGED <<bridgeUp, backlog, portVars, wire, cut, main, running, threadVars, presenceVars, missed>>

\* The devices the driver will believe present once it has read what is on its
\* way: those the last frame about them says are.
Unread == IF mine = None THEN <<>> ELSE wire[mine]
Believed ==
    {d \in Devices :
        \/ d \in wanted /\ \A k \in 1..Len(Unread) : Unread[k].device # d
        \/ \E k \in 1..Len(Unread) :
                /\ Unread[k] = [device |-> d, present |-> TRUE]
                /\ \A j \in k+1..Len(Unread) : Unread[j].device # d}

BridgeStarts ==
    /\ ~bridgeUp
    /\ bridgeUp' = TRUE
    /\ UNCHANGED <<backlog, socket, portVars, ends, wire, cut, main, running,
                   threadVars, presenceVars, missed>>

\* The bridge dies: its ends close, its ports are gone, and what it wrote can
\* still be read.
BridgeDies ==
    /\ bridgeUp
    /\ bridgeUp' = FALSE
    /\ backlog' = {}
    /\ socket' = None
    /\ handles' = [h \in Handles |-> <<>>]
    /\ sources' = [a \in Addresses |-> None]
    /\ openPorts' = [d \in Devices |-> 0]
    /\ ends' = [c \in Conns |-> ends[c] \ {"bridge"}]
    /\ missed' = Believed
    /\ UNCHANGED <<wire, cut, main, running, threadVars, presenceVars>>

-----------------------------------------------------------------------------
(* The link's thread.                                                      *)

\* The top of Loop(): the only place that asks whether to go on.
ThreadLoops ==
    /\ thread = "loop"
    /\ thread' = IF running THEN "trying" ELSE "done"
    /\ UNCHANGED <<bridgeUp, backlog, socket, portVars, ends, wire, cut, main, running,
                   mine, fd, presenceVars, missed>>

\* Connect() succeeds: the bridge listens, and will accept.
ThreadConnects(c) ==
    /\ thread = "trying"
    /\ bridgeUp
    /\ ends[c] = {}
    /\ ends' = [ends EXCEPT ![c] = {"bridge", "driver"}]
    /\ wire' = [wire EXCEPT ![c] = <<>>]
    /\ backlog' = backlog \cup {c}
    /\ thread' = "connected"
    /\ mine' = c
    /\ UNCHANGED <<bridgeUp, socket, portVars, cut, main, running, fd, presenceVars, missed>>

\* Mutant: the first attempt that fails is the last.
ThreadFailsForGood ==
    /\ thread = "trying"
    /\ ~bridgeUp
    /\ thread' = "done"
    /\ UNCHANGED <<bridgeUp, backlog, socket, portVars, ends, wire, cut, main, running,
                   mine, fd, presenceVars, missed>>

\* Connect() fails: nobody listens.  The thread sleeps and starts over.
ThreadFails ==
    /\ thread = "trying"
    /\ ~bridgeUp
    /\ thread' = "loop"
    /\ UNCHANGED <<bridgeUp, backlog, socket, portVars, ends, wire, cut, main, running,
                   mine, fd, presenceVars, missed>>

\* fd_ is stored, HELLO written, and the thread goes on to read.
ThreadPublishes ==
    /\ thread = "connected"
    /\ thread' = "reading"
    /\ fd' = mine
    /\ UNCHANGED <<bridgeUp, backlog, socket, portVars, ends, wire, cut, main, running,
                   mine, presenceVars, missed>>

\* A DEVICE_STATE frame is read: the bit is changed and the main thread woken.
ThreadReads ==
    /\ thread = "reading"
    /\ mine \notin cut
    /\ wire[mine] # <<>>
    /\ LET f == Head(wire[mine]) IN
        wanted' = IF f.present THEN wanted \cup {f.device} ELSE wanted \ {f.device}
    /\ signalled' = TRUE
    /\ wire' = [wire EXCEPT ![mine] = Tail(@)]
    /\ UNCHANGED <<bridgeUp, backlog, socket, portVars, ends, cut, main, running,
                   threadVars, shown, missed>>

\* recv() returns 0: it was cut, or the bridge is gone and all was read.
ThreadEnds ==
    /\ thread = "reading"
    /\ \/ mine \in cut
       \/ "bridge" \notin ends[mine] /\ wire[mine] = <<>>
    /\ thread' = "loop"
    /\ fd' = None
    /\ mine' = None
    /\ ends' = [ends EXCEPT ![mine] = @ \ {"driver"}]
    /\ wire' = [wire EXCEPT ![mine] = <<>>]
    /\ cut' = cut \ {mine}
    /\ UNCHANGED <<bridgeUp, backlog, socket, portVars, main, running, presenceVars, missed>>

-----------------------------------------------------------------------------
(* MIDIServer's main thread.                                               *)

\* Start(), in a new process: every device is marked absent.
DriverStarts ==
    /\ main = "off"
    /\ main' = "up"
    /\ running' = TRUE
    /\ thread' = "loop"
    /\ UNCHANGED <<bridgeUp, backlog, socket, portVars, ends, wire, cut, mine, fd,
                   presenceVars, missed>>

\* The run loop performs gPresenceSource.
ApplyPresence ==
    /\ main = "up"
    /\ signalled
    /\ signalled' = FALSE
    /\ shown' = wanted
    /\ UNCHANGED <<bridgeUp, backlog, socket, portVars, ends, wire, cut, main, running,
                   threadVars, wanted, missed>>

\* Stop() up to its pthread_join(): a read that is blocked is woken, if fd_
\* says that there is one.
StopBegins ==
    /\ main = "up"
    /\ main' = "joining"
    /\ running' = FALSE
    /\ cut' = IF fd = None THEN cut ELSE cut \cup {fd}
    /\ UNCHANGED <<bridgeUp, backlog, socket, portVars, ends, wire, threadVars,
                   presenceVars, missed>>

\* The process is gone, and with it what it knew: a device with open ports is
\* one that the next process will not have heard of.
Gone ==
    /\ main' = "off"
    /\ running' = FALSE
    /\ thread' = "off"
    /\ mine' = None
    /\ fd' = None
    /\ wanted' = {}
    /\ signalled' = FALSE
    /\ shown' = {}
    /\ missed' = {d \in Devices : openPorts[d] # 0}
    /\ ends' = [c \in Conns |-> ends[c] \ {"driver"}]
    /\ wire' = [c \in Conns |-> <<>>]
    /\ cut' = {}
    /\ UNCHANGED <<bridgeUp, backlog, socket, portVars>>

\* pthread_join() returns, and MIDIServer exits.
StopEnds ==
    /\ main = "joining"
    /\ thread = "done"
    /\ Gone

\* MIDIServer is killed.
DriverDies ==
    /\ main # "off"
    /\ Gone

-----------------------------------------------------------------------------

ThreadStep ==
    \/ ThreadLoops
    \/ \E c \in Conns : ThreadConnects(c)
    \/ ThreadFails
    \/ ThreadPublishes
    \/ ThreadReads
    \/ ThreadEnds

BridgeStep == SeesEnd \/ \E c \in Conns : Accept(c)

Next ==
    \/ \E h \in Handles : Close(h) \/ \E a \in Addresses : Open(h, a)
    \/ BridgeStep
    \/ BridgeStarts
    \/ BridgeDies
    \/ ThreadStep
    \/ DriverStarts
    \/ ApplyPresence
    \/ StopBegins
    \/ StopEnds
    \/ DriverDies

Spec == Init /\ [][Next]_vars

\* Threads and event loops run on.  Nothing is assumed of the processes' lives.
FairSpec ==
    /\ Spec
    /\ WF_vars(ThreadStep)
    /\ WF_vars(BridgeStep)
    /\ WF_vars(ApplyPresence)

=============================================================================
