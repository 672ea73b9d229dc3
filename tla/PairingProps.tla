---------------------------- MODULE PairingProps -----------------------------
(***************************************************************************)
(* What pairing promises: a computer that runs is found, one that has gone *)
(* is not, and a page goes where it was told.                              *)
(***************************************************************************)
EXTENDS Pairing

VARIABLES
    missed,     \* history: publications that failed since the last that did not;
                \* 2 for more, or after what a publication cannot make good
    withdrawn,  \* history: a withdrawal arrived, nothing was under way, and the
                \* bridge has not been started since
    away,       \* history: ticks since the bridge was last up
    via,        \* history: where the code of each lookup was entered, or that an
                \* address was entered since
    hasty       \* history: while something was looked up, a key was pressed or a
                \* code entered before the page was drawn that locks both

askVars == <<via, hasty>>
history == <<missed, withdrawn, away, askVars>>

More(n) == IF n < 2 THEN n + 1 ELSE 2

PropsInit ==
    /\ PairingInit
    /\ missed = 2 /\ withdrawn = FALSE /\ away = Ttl
    /\ via = [i \in Lookups |-> "page"] /\ hasty = FALSE

\* How a step of the bridge or of the service counts.
Counts(A, misses, gone, ticks) ==
    A /\ missed' = misses /\ withdrawn' = gone /\ away' = ticks /\ UNCHANGED askVars
Same(A) == Counts(A, missed, withdrawn, away)

\* A step of the page: what is looked up, and since when.
PageStep(A, by) ==
    /\ A
    /\ via' = [i \in Lookups |-> IF i \notin Running' THEN "page" ELSE IF i \in Running THEN via[i] ELSE by]
    /\ UNCHANGED <<missed, withdrawn, away>>
Asks(A, by) == PageStep(A, by) /\ hasty' = (hasty \/ (busy /\ ~locked))
Goes(A) == PageStep(A, "page") /\ hasty' = (hasty /\ Running' # {})
Overtakes(A) ==
    /\ A
    /\ via' = [i \in Lookups |-> IF i \in Running THEN "overtaken" ELSE "page"]
    /\ UNCHANGED <<missed, withdrawn, away, hasty>>

Accepted == Allowed /\ HasRoom(Own)

PropsNext ==
    \/ Counts(Start, 2, FALSE, 0)
    \/ Counts(TimerFires, IF reachable THEN missed ELSE More(missed), withdrawn, 0)
    \/ \E heard \in BOOLEAN : Counts(PostArrives(heard), IF Accepted THEN 0
                                     ELSE IF Allowed /\ Live(Own) THEN missed
                                     ELSE IF awaited = "post" THEN More(missed) ELSE missed, withdrawn, away)
    \/ Counts(GivesUp, IF awaited = "post" THEN More(missed) ELSE missed, withdrawn, away)
    \/ Counts(DeleteArrives, 2, withdrawn \/ (Allowed /\ run # "up" /\ wire = {"delete"}), away)
    \/ Same(Stop) \/ Same(Crash) \/ Same(Lost("post")) \/ Same(Lost("delete")) \/ Same(NetworkChanges)
    \/ Counts(Tick, missed, withdrawn, IF run = "up" THEN 0 ELSE IF away < Ttl THEN away + 1 ELSE away)
    \/ \E c \in Strangers : Same(StrangerRegisters(c))
    \/ Counts(ServiceRestarts, 2, withdrawn, away)
    \/ \E k \in Alphabet \cup {Backspace} : Asks(Press(k), "keypad")
    \/ \E c \in {Own} \cup Strangers : Asks(Enter(c), "page")
    \/ Goes(Draw) \/ Overtakes(ConnectByAddress) \/ Goes(Visit)
    \/ \E i \in Lookups, ok \in BOOLEAN : Goes(ConfigSettles(i, ok)) \/ Goes(LookupArrives(i, ok))
    \/ \E i \in Lookups : Goes(NotConfigured(i)) \/ Goes(LookupLost(i))
    \/ Goes(LinkChanges) \/ Goes(SessionChanges) \/ Goes(ShowKeypad)

PropsSpec == PropsInit /\ [][PropsNext]_<<vars, history>>

-----------------------------------------------------------------------------
\* "a single failed request never makes the bridge unreachable" (pairing.ts): a
\* bridge that is up is found as long as no two publications in a row have
\* failed; whatever else the service keeps, and however long the request of a
\* publication takes.
FoundWhileRunning == run = "up" /\ missed < 2 => Live(Own)

\* A bridge that has withdrawn its code, with no publication under way, is not
\* found until it runs again; and one that has just gone, not for longer than
\* a registration is kept.
GoneIsForgotten == (withdrawn \/ (away = Ttl /\ run # "up" /\ wire = {})) => ~Live(Own)

\* The code that was typed in the headset stays on the panel while it is looked
\* up, or is gone with the panel, and the page is busy as long as something is
\* looked up (KeypadController.ts:97, App.tsx:571): whatever the session, the link
\* and the page do meanwhile, and in whatever order that is drawn.  The exception
\* is a key or a code that comes before the drawing which would have locked it out.
PanelKeepsTheCode ==
    \/ hasty
    \/ /\ busy <=> Running # {}
       /\ \A i \in Running : via[i] = "keypad" => typed \in {lookups[i].code, <<>>}

-----------------------------------------------------------------------------
\* Claims of the repository that the code does not keep.

\* "Withdraw on the way out, so a code stops resolving the moment the bridge is
\* closed rather than lingering until it expires" (pairing.ts:81).
ClosedIsGone == [][run = "up" /\ run' = "off" /\ Stop => ~Live(Own)]_vars

\* "An address entered by hand replaces the paired computer" (App.tsx:219).
AddressStands == [][\A i \in Running \ Running' : via[i] = "overtaken" => target' \in {target, remembered}]_vars

\* "Asked once" (net/pairing.ts:35): and what no answer came to, is not supported.
PairsAgain == \A i \in Lookups : lookups[i].stage # "refused"

\* "Lock the keypad while a connection is attempted.  Without this, a user who pokes
\* a seventh key during the handshake would clear the field they just filled in"
\* (KeypadController.ts:98-103).
LockedWhileLookingUp == \A i \in Running : via[i] = "keypad" => typed \in {lookups[i].code, <<>>}
=============================================================================
