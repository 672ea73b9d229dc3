------------------------- MODULE PresenceGateProps -------------------------
(***************************************************************************)
(* What the presence gate keeps true while clients come, go and come back  *)
(* during an open, and the lifecycle of SessionPorts that it implements.   *)
(***************************************************************************)
EXTENDS PresenceGate

\* At most one set of session devices exists or is being built, whatever the
\* clients do during a slow open: opening twice publishes a second set of
\* endpoints under the same names (PresenceGate.ts:56-65).
OneSet ==
    /\ inFlight = (IF opening THEN 1 ELSE 0)
    /\ ~disposed => inFlight + sets <= 1
    /\ ~disposed => (opened <=> inFlight + sets = 1)

\* An absence is always on its way to a close: with nobody connected, ports
\* that are open or opening have a close armed or a departure queued, so no
\* device is left behind in a DAW for good (PresenceGate.ts:22-24).
AbsenceIsScheduled ==
    clients = {} /\ opened => timer \/ (opening /\ deferred)

\* The grace timer is armed only over ports that are completely open, so a
\* close never lands on an open that is still building (depart()'s comment,
\* PresenceGate.ts:130-143).
NeverClosesAnOpening == timer => opened /\ ~opening

\* Ports do not outlive the session: once nobody is connected the session's
\* devices are eventually closed, unless somebody returns.
PortsFollowTheLastClient ==
    (clients = {} /\ ~disposed) ~> (sets = 0 /\ ~opening) \/ clients # {} \/ disposed

\* PresenceGate.ts:4, "Ports exist while a headset is connected": outside
\* shutdown, the session's ports are closed only when nobody is connected.
ClosesOnlyWhenAway ==
    [][(sets > 0 /\ sets' = 0 /\ ~disposed') => clients = {}]_vars

-----------------------------------------------------------------------------
(* The gate implements SessionPorts.                                       *)

SessionState ==
    IF ~opened THEN "closed"
    ELSE IF opening THEN "opening"
    ELSE IF timer THEN "closing"
    ELSE "open"

Session == INSTANCE SessionPorts WITH here <- clients # {}, session <- SessionState

SessionSpec == Session!Spec

\* The part of it that needs no fairness.
SessionSafety == Session!Init /\ [][Session!Next]_<<clients # {}, SessionState>>

=============================================================================
