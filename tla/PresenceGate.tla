---------------------------- MODULE PresenceGate ----------------------------
(***************************************************************************)
(* The presence gate of the desktop bridge                                 *)
(* (apps/desktop-bridge/src/core/PresenceGate.ts): it opens the session's  *)
(* MIDI ports when the first client arrives, keeps them open for a grace   *)
(* period after the last one leaves, and closes them if nobody returns.    *)
(*                                                                         *)
(* The gate is driven by update(n): every transport reports a change of    *)
(* its client list and the bridge passes on the sum.  An open is           *)
(* asynchronous, so clients come and go while one is in flight; everything *)
(* else runs to completion on the one JavaScript thread and is one action. *)
(***************************************************************************)
EXTENDS Naturals

CONSTANT Clients    \* the connections that can exist, over every transport

VARIABLES
    clients,    \* the connections the transports count: bus.clientCount of them
    opened,     \* PresenceGate.opened
    opening,    \* PresenceGate.opening # null: onOpen() has not settled
    timer,      \* PresenceGate.pendingClose # null: the grace timer is armed
    deferred,   \* a depart() is queued behind the open that is in flight
    inFlight,   \* onOpen() calls that have not settled yet
    sets,       \* sets of session devices that onOpen() built and nobody closed
    disposed    \* dispose() has run: the process is shutting down

gateVars == <<opened, opening, timer, deferred, inFlight, sets, disposed>>
vars == <<clients, gateVars>>

TypeOK ==
    /\ clients \subseteq Clients
    /\ opened \in BOOLEAN
    /\ opening \in BOOLEAN
    /\ timer \in BOOLEAN
    /\ deferred \in BOOLEAN
    /\ inFlight \in Nat
    /\ sets \in Nat
    /\ disposed \in BOOLEAN

Init ==
    /\ clients = {}
    /\ opened = FALSE
    /\ opening = FALSE
    /\ timer = FALSE
    /\ deferred = FALSE
    /\ inFlight = 0
    /\ sets = 0
    /\ disposed = FALSE

-----------------------------------------------------------------------------
(* The gate's own operations, without the change of the client count that  *)
(* triggers them.                                                          *)

\* arrive() has to call onOpen(): neither in flight nor already open.
MustOpen == ~opening /\ ~opened

\* Mutant: arrive() leaves a pending close armed.
ArriveKeepingTheTimer ==
    /\ \/ /\ MustOpen
          /\ opened' = TRUE
          /\ opening' = TRUE
          /\ inFlight' = inFlight + 1
       \/ /\ ~MustOpen
          /\ UNCHANGED <<opened, opening, inFlight>>
    /\ UNCHANGED <<timer, deferred, sets, disposed>>

\* arrive(): a pending close is cancelled, and an open is started unless one
\* is in flight or done.
Arrive ==
    /\ timer' = FALSE
    /\ \/ /\ MustOpen
          /\ opened' = TRUE
          /\ opening' = TRUE
          /\ inFlight' = inFlight + 1
       \/ /\ ~MustOpen
          /\ UNCHANGED <<opened, opening, inFlight>>
    /\ UNCHANGED <<deferred, sets, disposed>>

\* Mutant: a departure arms the timer whether or not the open is done.
DepartAtOnce ==
    /\ timer' = IF opened THEN TRUE ELSE timer
    /\ UNCHANGED <<opened, opening, deferred, inFlight, sets, disposed>>

\* depart(): never while an open is running - it is queued behind it -
\* otherwise it arms the one grace timer, if there is anything to close.
Depart ==
    /\ \/ /\ opening
          /\ deferred' = TRUE
          /\ UNCHANGED timer
       \/ /\ ~opening
          /\ opened
          /\ timer' = TRUE
          /\ UNCHANGED deferred
       \/ /\ ~opening
          /\ ~opened
          /\ UNCHANGED <<timer, deferred>>
    /\ UNCHANGED <<opened, opening, inFlight, sets, disposed>>

\* update(n), where n is the number of connections in `now`.
Update(now) == IF now # {} THEN Arrive ELSE Depart

\* The promise onOpen() returned fulfils: `opening` is reset first, then every
\* queued depart() runs, and the first of them arms the timer.  Nothing asks
\* who is connected by now.
OpenSucceeds ==
    /\ opening
    /\ opening' = FALSE
    /\ inFlight' = inFlight - 1
    /\ sets' = sets + 1
    /\ timer' = IF deferred /\ opened THEN TRUE ELSE timer
    /\ deferred' = FALSE
    /\ UNCHANGED <<opened, disposed>>

\* onOpen() rejects: the gate forgets that it opened, and a queued depart()
\* finds nothing to close.
OpenFails ==
    /\ opening
    /\ opening' = FALSE
    /\ inFlight' = inFlight - 1
    /\ opened' = FALSE
    /\ deferred' = FALSE
    /\ UNCHANGED <<timer, sets, disposed>>

\* The grace timer fires.
GraceExpires ==
    /\ timer
    /\ timer' = FALSE
    /\ opened' = FALSE
    /\ sets' = IF opened THEN 0 ELSE sets
    /\ UNCHANGED <<opening, deferred, inFlight, disposed>>

\* dispose(): the pending close is cancelled and the ports are closed now.
\* Shutdown closes every transport first, so no client is left or arrives.
Dispose ==
    /\ ~disposed
    /\ disposed' = TRUE
    /\ timer' = FALSE
    /\ opened' = FALSE
    /\ sets' = IF opened THEN 0 ELSE sets
    /\ UNCHANGED <<opening, deferred, inFlight>>

-----------------------------------------------------------------------------
(* The gate with its clients.                                              *)

ClientConnects(c) ==
    /\ ~disposed
    /\ c \notin clients
    /\ clients' = clients \cup {c}
    /\ Update(clients')

ClientLeaves(c) ==
    /\ ~disposed
    /\ c \in clients
    /\ clients' = clients \ {c}
    /\ Update(clients')

\* A transport reports a change that leaves the count alone: a WebRTC peer
\* that never opened its channel is dropped.
Renotify ==
    /\ ~disposed
    /\ Update(clients)
    /\ UNCHANGED clients

OpenSettles == (OpenSucceeds \/ OpenFails) /\ UNCHANGED clients

Expire == GraceExpires /\ UNCHANGED clients

\* Shutdown drops the clients, then disposes of the gate.
Shutdown ==
    /\ clients' = {}
    /\ Dispose

Next ==
    \/ \E c \in Clients : ClientConnects(c) \/ ClientLeaves(c)
    \/ Renotify
    \/ OpenSettles
    \/ Expire
    \/ Shutdown

Spec == Init /\ [][Next]_vars

\* A call into the MIDI backend settles one way or the other, and a timer that
\* is armed fires unless it is cancelled.
FairSpec == Spec /\ WF_vars(OpenSettles) /\ WF_vars(Expire)

=============================================================================
