------------------------------- MODULE Bridge -------------------------------
(***************************************************************************)
(* The desktop bridge put together (apps/desktop-bridge/src/index.ts): the *)
(* transports that count clients (net/WsServer.ts, net/RtcTransport.ts),   *)
(* the presence gate, the packet router (core/Router.ts), the device       *)
(* manager, and the roster the clients are sent.                           *)
(*                                                                         *)
(* The gate and the manager are the modules of those names, the manager    *)
(* extended here and the gate instantiated; an action is a handler of the  *)
(* bridge and takes a step of either, or of both.                          *)
(* Handlers run to completion on the one JavaScript thread.  The function  *)
(* that opens the session's devices awaits add() after add(): what it does *)
(* after an await runs before the next handler, so every handler below     *)
(* waits while such a continuation is Due.                                 *)
(***************************************************************************)
EXTENDS DeviceManager, Sequences

CONSTANTS
    Clients,        \* connections that can exist
    Session,        \* the session's devices: a sequence of <<id, model>>
    UdpEnabled      \* the UDP transport is on: packets from uncounted senders

ASSUME SessionAssumption == Session \in Seq(Ids \X Models)
ASSUME UdpAssumption == UdpEnabled \in BOOLEAN

VARIABLES
    clients, opened, opening, timer, deferred,      \* see PresenceGate
    inFlight, sets, disposed,
    stage,      \* the device openSessionDevices() is at, 0 while it is not running
    awaited,    \* the instance whose add() it awaits, 0 while it does not
    seen,       \* client -> the roster it was last sent
    evicted     \* the gate has closed under a client, and not opened since

Gate == INSTANCE PresenceGate

gateVars == <<clients, opened, opening, timer, deferred, inFlight, sets, disposed>>
managerVars == vars
sessionVars == <<stage, awaited>>
bridgeVars == <<gateVars, managerVars, sessionVars, seen, evicted>>

\* The roster: the status of every device of the map.
Roster == [d \in Ids |-> IF devices[d] = NoInst THEN "none" ELSE status[devices[d]]]
Unseen == [d \in Ids |-> "unseen"]
Rosters == [Ids -> {"none", "pending", "ready", "failed"}] \cup {Unseen}

BridgeTypeOK ==
    /\ Gate!TypeOK
    /\ TypeOK
    /\ stage \in 0..Len(Session) + 1
    /\ awaited \in Inst \cup {NoInst}
    /\ seen \in [Clients -> Rosters]
    /\ evicted \in BOOLEAN

BridgeInit ==
    /\ Gate!Init
    /\ Init
    /\ stage = 0
    /\ awaited = NoInst
    /\ seen = [c \in Clients |-> Unseen]
    /\ evicted = FALSE

-----------------------------------------------------------------------------

\* openSessionDevices() has been called, or resumed, and has not run on yet.
Due == stage # 0 /\ awaited = NoInst
Idle == ~Due /\ ~disposed

\* The bound: clients leave the session the instances it may still need.
Room(n) ==
    fresh + n + (IF stage = 0 THEN 0 ELSE Len(Session) + 1 - stage) <= MaxInstances

\* Broadcaster.sendRoster(): whoever is connected gets the roster as it is now.
Tell == seen' = [c \in Clients |-> IF c \in clients' THEN Roster' ELSE Unseen]

\* The gate was told a count: onOpen() was called if it had to, and a count
\* above zero resyncs the headsets, at once unless an open is in flight.
Notified ==
    /\ opening' /\ ~opening => Room(Len(Session))
    /\ stage' = IF opening' /\ ~opening THEN 1 ELSE stage
    /\ IF opened' THEN evicted' = FALSE ELSE UNCHANGED evicted
    /\ IF clients' # {} /\ ~opening' THEN Tell
       ELSE seen' = [c \in Clients |-> IF c \in clients' THEN seen[c] ELSE Unseen]
    /\ UNCHANGED awaited

\* A socket connects, or the channel of a WebRTC peer opens.
Connect(c) ==
    /\ Idle
    /\ UNCHANGED managerVars
    /\ Gate!ClientConnects(c)
    /\ Notified

\* Mutant: a client that goes takes its notes' releases with it.
LeaveSounding(c) ==
    /\ Idle
    /\ UNCHANGED managerVars
    /\ Gate!ClientLeaves(c)
    /\ Notified

\* Mutant: a client that goes is not reported to the gate.
LeaveUnreported(c) ==
    /\ Idle
    /\ c \in clients
    /\ clients' = clients \ {c}
    /\ PanicAll
    /\ UNCHANGED <<opened, opening, timer, deferred, inFlight, sets, disposed>>
    /\ Notified

\* It goes: whatever it left sounding is released, on every device.
Leave(c) ==
    /\ Idle
    /\ PanicAll
    /\ Gate!ClientLeaves(c)
    /\ Notified

\* A WebRTC peer that never opened its channel is dropped in the same way.
PeerGivesUp ==
    /\ Idle
    /\ PanicAll
    /\ Gate!Renotify
    /\ Notified

-----------------------------------------------------------------------------
(* Opening the session's devices.                                          *)

\* add() of the device openSessionDevices() is at.  A device that exists is
\* kept, one over the limit is refused, and neither is awaited for long.
SessionAdds ==
    /\ Due
    /\ ~disposed
    /\ UNCHANGED <<gateVars, evicted>>
    /\ stage <= Len(Session)
    /\ LET d == Session[stage][1]
           m == Session[stage][2]
       IN
       \/ /\ devices[d] # NoInst
          /\ stage' = stage + 1
          /\ UNCHANGED <<managerVars, awaited, seen>>
       \/ /\ AddRefused(d, m)
          /\ stage' = stage + 1
          /\ Tell
          /\ UNCHANGED awaited
       \/ /\ AddBegins(d, m)
          /\ awaited' = fresh'
          /\ Tell
          /\ UNCHANGED stage

\* Its last await is over: the gate's open succeeds, and then everybody who
\* came meanwhile is brought up to date.  add() does not reject.
SessionOpened ==
    /\ Due
    /\ ~disposed
    /\ UNCHANGED <<clients, managerVars, awaited, evicted>>
    /\ stage = Len(Session) + 1
    /\ Gate!OpenSucceeds
    /\ stage' = 0
    /\ IF clients # {} THEN Tell ELSE UNCHANGED seen

\* Mutant: an add() that ends tells nobody its status.
SettlePortQuietly(i, ok) ==
    /\ Idle
    /\ UNCHANGED <<gateVars, evicted, seen>>
    /\ PortSettles(i, ok)
    /\ IF step'[i] = 0 /\ i = awaited
       THEN awaited' = NoInst /\ stage' = stage + 1
       ELSE UNCHANGED sessionVars

\* openPort() settles for some add(), the session's or a client's.  An add()
\* that ends sends the roster.
SettlePort(i, ok) ==
    /\ Idle
    /\ UNCHANGED <<gateVars, evicted>>
    /\ PortSettles(i, ok)
    /\ IF step'[i] = 0 /\ i = awaited
       THEN awaited' = NoInst /\ stage' = stage + 1
       ELSE UNCHANGED sessionVars
    /\ IF step'[i] = 0 THEN Tell ELSE UNCHANGED seen

\* The grace period is over: removeAll(), if the gate still stands open.
Expire ==
    /\ Idle
    /\ Gate!Expire
    /\ IF opened THEN RemoveAll /\ Tell ELSE UNCHANGED <<managerVars, seen>>
    /\ IF opened /\ clients # {} THEN evicted' = TRUE ELSE UNCHANGED evicted
    /\ UNCHANGED sessionVars

-----------------------------------------------------------------------------
(* Packets: Router.handlePacket().  They come from connected clients, and  *)
(* over UDP from senders nobody counts.                                    *)

Reachable == Idle /\ (clients # {} \/ UdpEnabled)

DeviceAdd(d, m) ==
    /\ Reachable
    /\ Room(1)
    /\ UNCHANGED <<gateVars, sessionVars, evicted>>
    /\ \/ AddRefused(d, m)
       \/ AddBegins(d, m)
    /\ Tell

DeviceRemove(d) ==
    /\ Reachable
    /\ UNCHANGED <<gateVars, sessionVars, evicted>>
    /\ Remove(d)
    /\ Tell

\* PANIC and BYE.
Panic ==
    /\ Reachable
    /\ PanicAll
    /\ UNCHANGED <<gateVars, sessionVars, seen, evicted>>

Play(d) ==
    /\ Reachable
    /\ Event(d)
    /\ UNCHANGED <<gateVars, sessionVars, seen, evicted>>

\* HELLO resyncs every headset, not only the one that said it; so does a
\* DEVICE_ADD for a device that exists.
Hello ==
    /\ Reachable
    /\ UNCHANGED <<gateVars, managerVars, sessionVars, evicted>>
    /\ Tell

\* SIGINT, SIGTERM or the tray: notes are released, the transports closed,
\* the gate disposed of, and the process exits.
Shutdown ==
    /\ Idle
    /\ Gate!Shutdown
    /\ IF opened THEN RemoveAll ELSE PanicAll
    /\ seen' = [c \in Clients |-> Unseen]
    /\ UNCHANGED <<sessionVars, evicted>>

-----------------------------------------------------------------------------

SessionStep == SessionAdds \/ SessionOpened

Settles(i) == \E ok \in BOOLEAN : SettlePort(i, ok)

BridgeNext ==
    \/ \E c \in Clients : Connect(c) \/ Leave(c)
    \/ PeerGivesUp
    \/ SessionAdds
    \/ SessionOpened
    \/ \E i \in Inst : Settles(i)
    \/ Expire
    \/ \E d \in Ids, m \in Models : DeviceAdd(d, m)
    \/ \E d \in Ids : DeviceRemove(d) \/ Play(d)
    \/ Panic
    \/ Hello
    \/ Shutdown

BridgeSpec == BridgeInit /\ [][BridgeNext]_bridgeVars

\* Continuations run, calls into the MIDI backend settle, and an armed timer
\* fires unless it is cancelled.
BridgeFairSpec ==
    /\ BridgeSpec
    /\ WF_bridgeVars(SessionStep)
    /\ \A i \in Inst : WF_bridgeVars(Settles(i))
    /\ WF_bridgeVars(Expire)

=============================================================================
