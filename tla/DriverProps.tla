------------------------------ MODULE DriverProps ------------------------------
(***************************************************************************)
(* What the bridge and the driver keep true about ports and devices while  *)
(* either process comes and goes under the other.                          *)
(***************************************************************************)
EXTENDS Driver

PortsOpenOn(d) == {h \in Handles : handles[h] # <<>> /\ handles[h][1] = d}

\* The two books of DriverPorts agree with the ports there are: the count that
\* decides when a device goes away, and the map that says where MIDI goes,
\* which never names a port that is closed (DriverPort.ts:98-102).
BooksAreKept ==
    /\ \A d \in Devices : openPorts[d] = Cardinality(PortsOpenOn(d))
    /\ \A a \in Addresses : sources[a] # None => handles[sources[a]] = a

\* What the driver believes, or will once it has read what is under way, is
\* what the bridge has open, for every device whose last change was not lost
\* with a connection or a process; and a DAW sees what the driver believes.
PresenceIsTrue ==
    main = "up" =>
        /\ \A d \in Devices \ missed : d \in Believed <=> openPorts[d] # 0
        /\ ~signalled => shown = wanted

\* A device whose port was opened is shown in the end, unless the port closes
\* or the news of it is lost with the driver.
OpenedIsShown ==
    \A d \in Devices :
        (main = "up" /\ openPorts[d] # 0 /\ d \notin missed)
            ~> (d \in shown \/ main # "up" \/ openPorts[d] = 0 \/ d \in missed)

\* While both processes live the link comes up, however the one before it
\* ended (Link.h:128-166, DriverLink.ts:113-149).
LinkComesBack ==
    (main = "up" /\ bridgeUp) ~> (Carried \/ main # "up" \/ ~bridgeUp)

-----------------------------------------------------------------------------
(* Claims of the repository that the code does not keep.                   *)

\* Link.h:84, "Shutting the socket down is what wakes a blocked read": a thread
\* that Stop() waits for does not read from a socket that was left open.
JoinIsWoken == main = "joining" /\ thread = "reading" => mine \in cut

\* DriverLink.ts:59, "The driver connected or went away; the device follows
\* this": over a link that is up and idle, a DAW sees the devices with open
\* ports and no others.
DevicesFollowTheLink ==
    main = "up" /\ Carried /\ socket = fd /\ wire[fd] = <<>> /\ ~signalled
        => shown = {d \in Devices : openPorts[d] # 0}

=============================================================================
