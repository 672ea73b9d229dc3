------------------------- MODULE DeviceManagerProps -------------------------
(***************************************************************************)
(* What the device manager keeps true about notes, ports and statuses      *)
(* while devices are added, removed and played in any order.               *)
(***************************************************************************)
EXTENDS DeviceManager

\* No voice is stranded: whatever sounds in the DAW was sent by a device that
\* is still in the map, through a port that is still open, and is in that
\* device's tracker, so a panic, a disconnect or a removal will release it
\* (DeviceManager.ts:116-118, NoteTracker.ts).
SoundingIsTracked ==
    \A s \in sounding : Registered(s[1]) /\ Carries(s[1]) /\ s[2] \in held[s[1]]

\* The same for buttons: a switch the DAW has down is pressed on a device that
\* can still send its release.
LatchedIsPressed ==
    \A s \in latched : Registered(s[1]) /\ Carries(s[1]) /\ s[2] \in pressed[s[1]]

\* The emulator and the tracker of one device never disagree about a note:
\* two records of the same fact, written by different code.
EmulatorAgreesWithTracker ==
    \A i \in Inst : Emulated(i) => held[i] = pressed[i] \cap Notes

\* A removed device leaves no published port behind, unless it was removed
\* while its add() was still opening ports.
OnlyInterruptedAddsLeak ==
    \A i \in Inst, k \in Slots :
        ports[i][k] = "open" => Registered(i) \/ i \in orphaned

\* The devices that publish ports, or are about to.
Active == {i \in RegisteredSet : step[i] # 0 \/ \E k \in Slots : ports[i][k] # "none"}

\* However adds, refusals and removals interleave, no more than Limit devices
\* of the map hold or open ports (DeviceManager.ts:175-184).
ActiveWithinLimit == Cardinality(Active) <= Limit

\* The roster does not lie about silence: a device reported failed has no open
\* port, and one reported ready has at least one.
StatusMatchesPorts ==
    \A i \in RegisteredSet :
        LET some == \E k \in Slots : ports[i][k] = "open" IN
        /\ status[i] = "failed" => ~some
        /\ status[i] = "ready" => some

\* A device does not stay pending: opening its ports comes to an end.
PendingSettles ==
    \A i \in Inst : (Registered(i) /\ status[i] = "pending")
                        ~> (status[i] # "pending" \/ ~Registered(i))

-----------------------------------------------------------------------------
(* Claims of the repository that the code does not keep.                   *)

\* DeviceManager.ts:112-114, "remove it and the ports close": a port that is
\* open belongs to a device of the map.
PortsBelongToDevices ==
    \A i \in Inst, k \in Slots : ports[i][k] = "open" => Registered(i)

=============================================================================
