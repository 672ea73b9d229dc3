------------------------- MODULE PresenceGateProofs -------------------------
(***************************************************************************)
(* Proofs about the presence gate, for any set of clients.  The invariant  *)
(* is inductive once the three properties are taken together with the fact *)
(* that a departure is only ever queued behind an open in flight.          *)
(***************************************************************************)
EXTENDS PresenceGateProps, TLAPS

\* The inductive invariant.
GateInv ==
    /\ inFlight \in Nat
    /\ sets \in Nat
    /\ OneSet
    /\ AbsenceIsScheduled
    /\ NeverClosesAnOpening
    /\ deferred => opening

LEMMA InitGateInv == Init => GateInv
  BY DEF Init, GateInv, OneSet, AbsenceIsScheduled, NeverClosesAnOpening

\* Every step of the gate keeps the invariant.
LEMMA StepGateInv == GateInv /\ [Next]_vars => GateInv'
<1> SUFFICES ASSUME GateInv, [Next]_vars
             PROVE  GateInv'
  OBVIOUS
<1> USE DEF GateInv, OneSet, AbsenceIsScheduled, NeverClosesAnOpening
<1>1. ASSUME NEW c \in Clients, ClientConnects(c) PROVE GateInv'
  <2>1. clients' # {}
    BY <1>1 DEF ClientConnects
  <2>2. Arrive
    BY <1>1, <2>1 DEF ClientConnects, Update
  <2>. QED BY <2>1, <2>2 DEF Arrive, MustOpen
<1>2. ASSUME NEW c \in Clients, ClientLeaves(c) PROVE GateInv'
  <2>2. CASE clients' # {}
    <3>1. Arrive
      BY <1>2, <2>2 DEF ClientLeaves, Update
    <3>. QED BY <2>2, <3>1 DEF Arrive, MustOpen
  <2>3. CASE clients' = {}
    <3>1. Depart
      BY <1>2, <2>3 DEF ClientLeaves, Update
    <3>. QED BY <2>3, <3>1 DEF Depart
  <2>. QED BY <2>2, <2>3
<1>3. CASE Renotify
  <2>1. CASE clients # {}
    BY <1>3, <2>1 DEF Renotify, Update, Arrive, MustOpen
  <2>2. CASE clients = {}
    BY <1>3, <2>2 DEF Renotify, Update, Depart
  <2>. QED BY <2>1, <2>2
<1>4. CASE OpenSucceeds /\ UNCHANGED clients
  BY <1>4 DEF OpenSucceeds
<1>5. CASE OpenFails /\ UNCHANGED clients
  BY <1>5 DEF OpenFails
<1>6. CASE Expire
  BY <1>6 DEF Expire, GraceExpires
<1>7. CASE Shutdown
  BY <1>7 DEF Shutdown, Dispose
<1>8. CASE UNCHANGED vars
  BY <1>8 DEF vars, gateVars
<1>. QED
  BY <1>1, <1>2, <1>3, <1>4, <1>5, <1>6, <1>7, <1>8 DEF Next, OpenSettles

\* The gate never builds or keeps two sets of session devices.
THEOREM GateOneSet == Spec => []OneSet
<1>1. GateInv => OneSet
  BY DEF GateInv
<1>. QED BY <1>1, InitGateInv, StepGateInv, PTL DEF Spec

\* With nobody connected, ports that are open are on their way to a close.
THEOREM GateAbsence == Spec => []AbsenceIsScheduled
<1>1. GateInv => AbsenceIsScheduled
  BY DEF GateInv
<1>. QED BY <1>1, InitGateInv, StepGateInv, PTL DEF Spec

\* The grace timer never runs over an open that is still building.
THEOREM GateNeverClosesAnOpening == Spec => []NeverClosesAnOpening
<1>1. GateInv => NeverClosesAnOpening
  BY DEF GateInv
<1>. QED BY <1>1, InitGateInv, StepGateInv, PTL DEF Spec

\* Every flag stays a truth value; the counters are the invariant's.
Flags ==
    /\ clients \subseteq Clients
    /\ opened \in BOOLEAN
    /\ opening \in BOOLEAN
    /\ timer \in BOOLEAN
    /\ deferred \in BOOLEAN
    /\ disposed \in BOOLEAN

LEMMA StepFlags == Flags /\ [Next]_vars => Flags'
<1> SUFFICES ASSUME Flags, [Next]_vars
             PROVE  Flags'
  OBVIOUS
<1> USE DEF Flags
<1>1. ASSUME NEW c \in Clients, ClientConnects(c) PROVE Flags'
  BY <1>1, Zenon DEF ClientConnects, Update, Arrive, Depart
<1>2. ASSUME NEW c \in Clients, ClientLeaves(c) PROVE Flags'
  BY <1>2, Zenon DEF ClientLeaves, Update, Arrive, Depart
<1>3. CASE Renotify
  BY <1>3, Zenon DEF Renotify, Update, Arrive, Depart
<1>4. CASE OpenSettles
  BY <1>4, Zenon DEF OpenSettles, OpenSucceeds, OpenFails
<1>5. CASE Expire
  BY <1>5, Zenon DEF Expire, GraceExpires
<1>6. CASE Shutdown
  BY <1>6, Zenon DEF Shutdown, Dispose
<1>7. CASE UNCHANGED vars
  BY <1>7, Zenon DEF vars, gateVars
<1>. QED
  BY <1>1, <1>2, <1>3, <1>4, <1>5, <1>6, <1>7, Zenon DEF Next

\* The variables keep their types; in particular the counts of opens never go
\* below zero.
THEOREM GateTypeOK == Spec => []TypeOK
<1>1. Init => Flags
  BY Zenon DEF Init, Flags
<1>2. Spec => []Flags
  BY <1>1, StepFlags, PTL DEF Spec
<1>3. Spec => []GateInv
  BY InitGateInv, StepGateInv, PTL DEF Spec
<1>4. Flags /\ GateInv => TypeOK
  BY Zenon DEF Flags, GateInv, TypeOK
<1>. QED BY <1>2, <1>3, <1>4, PTL

-----------------------------------------------------------------------------

\* Every step of the gate is a step, or a stutter, of the session lifecycle.
LEMMA StepSession ==
  GateInv /\ [Next]_vars => [Session!Next]_<<clients # {}, SessionState>>
<1> SUFFICES ASSUME GateInv, [Next]_vars
             PROVE  Session!Next \/ UNCHANGED <<clients # {}, SessionState>>
  OBVIOUS
<1> USE DEF GateInv, NeverClosesAnOpening, AbsenceIsScheduled, SessionState
<1>1. ASSUME Arrive, ~disposed, clients' # {}
      PROVE  Session!Arrival
  <2>1. (clients # {})' = TRUE
    BY <1>1
  <2>2. CASE MustOpen
    BY <1>1, <2>1, <2>2 DEF Arrive, MustOpen, Session!Arrival
  <2>3. CASE ~MustOpen /\ opening
    <3>1. opened
      BY <1>1, <2>3 DEF OneSet
    <3>2. opened' /\ opening'
      BY <1>1, <2>3, <3>1 DEF Arrive
    <3>. QED BY <2>1, <2>3, <3>1, <3>2 DEF Session!Arrival
  <2>4. CASE ~MustOpen /\ ~opening
    <3>1. opened /\ SessionState' = "open" /\ SessionState \in {"closing", "open"}
      BY <1>1, <2>4 DEF Arrive, MustOpen
    <3>. QED BY <2>1, <3>1, <2>4 DEF Session!Arrival
  <2>. QED BY <2>2, <2>3, <2>4
<1>2. ASSUME Depart, clients' = {}
      PROVE  Session!Departure
  BY <1>2 DEF Depart, Session!Departure
<1>3. ASSUME NEW c \in Clients, ClientConnects(c) PROVE Session!Next
  BY <1>3, <1>1 DEF ClientConnects, Update, Session!Next
<1>4. ASSUME NEW c \in Clients, ClientLeaves(c) PROVE Session!Next
  BY <1>4, <1>1, <1>2 DEF ClientLeaves, Update, Session!Next
<1>5. CASE Renotify
  BY <1>5, <1>1, <1>2 DEF Renotify, Update, Session!Next
<1>6. CASE OpenSucceeds /\ UNCHANGED clients
  BY <1>6 DEF OpenSucceeds, Session!Next, Session!Settled
<1>7. CASE OpenFails /\ UNCHANGED clients
  BY <1>7 DEF OpenFails, Session!Next, Session!Settled
<1>8. CASE Expire
  BY <1>8 DEF Expire, GraceExpires, Session!Next, Session!Closed
<1>9. CASE Shutdown
  BY <1>9 DEF Shutdown, Dispose, Session!Next, Session!Stop
<1>10. CASE UNCHANGED vars
  BY <1>10 DEF vars, gateVars
<1>. QED
  BY <1>3, <1>4, <1>5, <1>6, <1>7, <1>8, <1>9, <1>10 DEF Next, OpenSettles

\* The gate implements the session lifecycle: its initial state is a closed
\* session, and whatever clients do, ports open, close and are kept only the
\* way SessionPorts allows.
THEOREM GateImplementsSession == Spec => SessionSafety
<1>1. Init => Session!Init
  BY DEF Init, Session!Init, SessionState
<1>. QED
  BY <1>1, InitGateInv, StepGateInv, StepSession, PTL DEF Spec, SessionSafety

=============================================================================
