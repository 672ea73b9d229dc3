---------------------------- MODULE SessionPorts ----------------------------
(***************************************************************************)
(* What the presence gate promises about the session's MIDI ports, without *)
(* timers, promises or queued calls: one session at a time that is closed, *)
(* opening, open, or waiting out its grace period, and an absence that     *)
(* always ends in a grace period or in somebody's return.                  *)
(***************************************************************************)
VARIABLES
    here,       \* somebody is connected
    session     \* the state of the session's ports

sessionVars == <<here, session>>

States == {"closed", "opening", "open", "closing"}

Init == here = FALSE /\ session = "closed"

\* Somebody arrives: a closed session opens, a closing one is kept.
Arrival ==
    /\ here' = TRUE
    /\ session' = CASE session = "closed"  -> "opening"
                    [] session = "closing" -> "open"
                    [] OTHER               -> session

\* The last one leaves: an open session starts its grace period, one that is
\* opening will do so when it is open.
Departure ==
    /\ here' = FALSE
    /\ session' = IF session = "open" THEN "closing" ELSE session

\* Opening ends: in an open session, in one that goes straight into its grace
\* period (the only way if nobody is here), or in none.
Settled ==
    /\ session = "opening"
    /\ session' \in {"closed", "closing"} \cup (IF here THEN {"open"} ELSE {})
    /\ UNCHANGED here

\* The grace period is over.
Closed ==
    /\ session = "closing"
    /\ session' = "closed"
    /\ UNCHANGED here

\* The process shuts down.
Stop == here' = FALSE /\ session' = "closed"

Next == Arrival \/ Departure \/ Settled \/ Closed \/ Stop

Spec == Init /\ [][Next]_sessionVars /\ WF_sessionVars(Settled) /\ WF_sessionVars(Closed)

=============================================================================
