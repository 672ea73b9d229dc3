----------------------------- MODULE BridgeLink -----------------------------
(***************************************************************************)
(* The headset's end of the link to the bridge                             *)
(* (apps/xr-client/src/net/BridgeLink.ts): it runs a transport factory,    *)
(* keeps the transport it yields, and runs the factory again, after a      *)
(* delay, when the attempt fails or the transport is lost.                 *)
(*                                                                         *)
(* A run of the factory is an attempt.  The code numbers attempts by       *)
(* bumping `generation` and lets each callback compare the number it       *)
(* captured with the current one; here `current` is the attempt whose      *)
(* number is the current one, 0 when there is none, and the names of       *)
(* attempts that are over are used again.                                  *)
(*                                                                         *)
(* The factories (net/Transport.ts) and the network are the environment:   *)
(* an attempt is pending until its promise settles, its transport is open, *)
(* is lost when the network has taken it and the close event has not been  *)
(* delivered yet, and is over when it is closed.  A data channel may also  *)
(* report its end without having come to it: its peer connection is        *)
(* "disconnected" for a while.  Nothing closes it then, and it is open and *)
(* adrift.                                                                 *)
(***************************************************************************)
EXTENDS Naturals, FiniteSets

CONSTANTS
    Attempts,   \* names of the attempts that can exist at one time
    MaxAdrift   \* bound: connections that are adrift at one time

None == 0

ASSUME AttemptsAssumption == Attempts \subseteq Nat \ {None} /\ MaxAdrift \in Nat

VARIABLES
    state,      \* BridgeLink.state: "idle", "connecting", "reconnecting", "open"
    transport,  \* the attempt whose transport is BridgeLink.transport, or None
    current,    \* the attempt that is of the current generation, or None
    retrying,   \* BridgeLink.attempt # 0
    timer,      \* the reconnect timer is armed
    pinging,    \* BridgeLink.pingTimer # null
    closedByUs, \* BridgeLink.closedByUs
    target,     \* BridgeLink.factory # null: connect() has been called
    conn,       \* attempt -> "over", "pending", "open" or "lost"
    adrift      \* the attempts that are open and whose DataChannelTransport.fail() has run

vars == <<state, transport, current, retrying, timer, pinging, closedByUs, target, conn, adrift>>

TypeOK ==
    /\ state \in {"idle", "connecting", "reconnecting", "open"}
    /\ transport \in Attempts \cup {None}
    /\ current \in Attempts \cup {None}
    /\ retrying \in BOOLEAN
    /\ timer \in BOOLEAN
    /\ pinging \in BOOLEAN
    /\ closedByUs \in BOOLEAN
    /\ target \in BOOLEAN
    /\ conn \in [Attempts -> {"over", "pending", "open", "lost"}]
    /\ adrift \subseteq {a \in Attempts : conn[a] = "open"}

Init ==
    /\ state = "idle"
    /\ transport = None
    /\ current = None
    /\ retrying = FALSE
    /\ timer = FALSE
    /\ pinging = FALSE
    /\ closedByUs = FALSE
    /\ target = FALSE
    /\ conn = [a \in Attempts |-> "over"]
    /\ adrift = {}

-----------------------------------------------------------------------------

\* teardownTransport(): its handlers are taken away, so a loss that has not
\* been reported never will be, and it is closed.
TornDown == [a \in Attempts |-> IF a = transport THEN "over" ELSE conn[a]]

\* open(): tears down what there is and starts a new attempt.  The ping timer
\* is left alone; what it sends without a transport goes nowhere.
Open(again) ==
    \E a \in Attempts :
        /\ conn[a] = "over"
        /\ conn' = [TornDown EXCEPT ![a] = "pending"]
        /\ current' = a
        /\ transport' = None
        /\ state' = IF again THEN "reconnecting" ELSE "connecting"

\* connect(): a new factory, and an attempt at once.
Connect ==
    /\ Open(FALSE)
    /\ closedByUs' = FALSE
    /\ retrying' = FALSE
    /\ target' = TRUE
    /\ UNCHANGED <<timer, pinging, adrift>>

\* scheduleReconnect(): there is one timer, and it starts over.
ScheduleReconnect ==
    /\ state' = "reconnecting"
    /\ retrying' = TRUE
    /\ timer' = TRUE

\* Mutant: the timer fires once and tries nothing.
TimerFiresIdly ==
    /\ timer
    /\ timer' = FALSE
    /\ UNCHANGED <<state, transport, current, retrying, pinging, closedByUs, target, conn, adrift>>

\* The reconnect timer fires.
TimerFires ==
    /\ timer
    /\ timer' = FALSE
    /\ Open(retrying)
    /\ UNCHANGED <<retrying, pinging, closedByUs, target, adrift>>

\* Mutant: the generation is not compared.
FulfilsAnyway(a) ==
    /\ conn[a] = "pending"
    /\ conn' = [conn EXCEPT ![a] = "open"]
    /\ transport' = a
    /\ retrying' = FALSE
    /\ state' = "open"
    /\ pinging' = TRUE
    /\ UNCHANGED <<current, timer, closedByUs, target, adrift>>

\* A factory's promise fulfils.  A transport that comes too late is closed;
\* otherwise it is ours, and HELLO and the first PING are sent.
Fulfils(a) ==
    /\ conn[a] = "pending"
    /\ UNCHANGED <<current, timer, closedByUs, target, adrift>>
    /\ \/ /\ a # current \/ closedByUs
          /\ conn' = [conn EXCEPT ![a] = "over"]
          /\ UNCHANGED <<state, transport, retrying, pinging>>
       \/ /\ a = current
          /\ ~closedByUs
          /\ conn' = [conn EXCEPT ![a] = "open"]
          /\ transport' = a
          /\ retrying' = FALSE
          /\ state' = "open"
          /\ pinging' = TRUE

\* A factory's promise rejects; the factory has closed what it had opened.
Rejects(a) ==
    /\ conn[a] = "pending"
    /\ conn' = [conn EXCEPT ![a] = "over"]
    /\ UNCHANGED <<transport, current, pinging, closedByUs, target, adrift>>
    /\ \/ /\ a # current \/ closedByUs
          /\ UNCHANGED <<state, retrying, timer>>
       \/ /\ a = current
          /\ ~closedByUs
          /\ ScheduleReconnect

\* The network takes a transport: the channel or the socket closes.  One that
\* is adrift has reported that already.
Drops(a) ==
    /\ conn[a] = "open"
    /\ conn' = [conn EXCEPT ![a] = IF a \in adrift THEN "over" ELSE "lost"]
    /\ adrift' = adrift \ {a}
    /\ UNCHANGED <<state, transport, current, retrying, timer, pinging, closedByUs, target>>

\* onClose(), of the transport in use: it is forgotten, and nothing is closed.
Forgets(a) ==
    /\ transport = a
    /\ a = current
    /\ transport' = None
    /\ pinging' = FALSE
    /\ UNCHANGED <<current, closedByUs, target>>
    /\ \/ /\ closedByUs
          /\ state' = "idle"
          /\ UNCHANGED <<retrying, timer>>
       \/ /\ ~closedByUs
          /\ ScheduleReconnect

\* The close event of a socket or a channel.
OnClose(a) ==
    /\ conn[a] = "lost"
    /\ conn' = [conn EXCEPT ![a] = "over"]
    /\ Forgets(a)
    /\ UNCHANGED adrift

\* A peer connection is disconnected, and may recover: fail() reports the end
\* of its transport, whose channel stays open.
Falters(a) ==
    /\ conn[a] = "open" /\ Cardinality(adrift) < MaxAdrift
    /\ adrift' = adrift \cup {a}
    /\ Forgets(a)
    /\ UNCHANGED conn

\* Mutant: the reconnect timer survives a goodbye.
DisconnectLeavingTheTimer ==
    /\ closedByUs' = TRUE
    /\ current' = None
    /\ pinging' = FALSE
    /\ conn' = TornDown
    /\ transport' = None
    /\ state' = "idle"
    /\ UNCHANGED <<retrying, timer, target, adrift>>

\* disconnect(): no attempt is current any more and no timer is left.
Disconnect ==
    /\ closedByUs' = TRUE
    /\ current' = None
    /\ timer' = FALSE
    /\ pinging' = FALSE
    /\ conn' = TornDown
    /\ transport' = None
    /\ state' = "idle"
    /\ UNCHANGED <<retrying, target, adrift>>

-----------------------------------------------------------------------------

Settles(a) == Fulfils(a) \/ Rejects(a)

CurrentFulfils == current # None /\ Fulfils(current)

Next ==
    \/ Connect
    \/ Disconnect
    \/ TimerFires
    \/ \E a \in Attempts : Fulfils(a) \/ Rejects(a) \/ Drops(a) \/ OnClose(a) \/ Falters(a)

Spec == Init /\ [][Next]_vars

\* Timers fire, every factory has a time limit of its own, a close event is
\* delivered, and a network that is tried again and again answers in the end.
FairSpec ==
    /\ Spec
    /\ WF_vars(TimerFires)
    /\ SF_vars(CurrentFulfils)
    /\ \A a \in Attempts : WF_vars(Settles(a)) /\ WF_vars(OnClose(a))

=============================================================================
