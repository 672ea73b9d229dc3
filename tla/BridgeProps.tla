----------------------------- MODULE BridgeProps -----------------------------
(***************************************************************************)
(* What the gate, the router, the manager and the transports of the bridge *)
(* keep true together.                                                     *)
(***************************************************************************)
EXTENDS Bridge

\* With nobody connected nothing sounds and no button is down in the DAW, in
\* whatever order clients left, ports opened and devices were removed
\* (WsServer.ts:143-149, RtcTransport.ts:266-287).  Without UDP, whose senders
\* come and go unnoticed.
SilentWhenAlone ==
    clients = {} /\ ~UdpEnabled => sounding = {} /\ latched = {}

\* What a client draws is what there is: every change of the map or of a
\* status reaches everyone connected, and whoever arrives is brought up to
\* date, at the latest when the open that is in flight ends
\* (index.ts:315-357, DeviceManager.ts:172-340).
RosterIsCurrent ==
    \A c \in clients : seen[c] = Roster \/ (seen[c] = Unseen /\ opening)

\* No device is out of the gate's reach: while there is one the gate stands
\* open and so will close it, except after it closed under a client.
GateCoversDevices ==
    RegisteredSet # {} => opened \/ evicted \/ disposed \/ UdpEnabled

\* When everybody is gone the devices go too, unless somebody returns.
AbsenceUnplugs ==
    clients = {} ~> (RegisteredSet = {} \/ clients # {} \/ evicted \/ disposed)

=============================================================================
