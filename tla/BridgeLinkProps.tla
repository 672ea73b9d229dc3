--------------------------- MODULE BridgeLinkProps ---------------------------
(***************************************************************************)
(* What the headset's link keeps true while attempts, timers and losses    *)
(* overlap and the user connects and disconnects at any moment.            *)
(***************************************************************************)
EXTENDS BridgeLink

\* No connection is left open without the link knowing it: whatever was
\* superseded, or came after a goodbye, has been closed (BridgeLink.ts:186).
\* The one exception is a data channel that reported its end itself; a
\* WebSocket never does so before it is closed.
NoOrphan == \A a \in Attempts : conn[a] \in {"open", "lost"} => transport = a \/ a \in adrift

\* The link is never wedged: once pointed at a bridge, and until it is told to
\* stop, it has a transport, an attempt under way that it will listen to, or a
\* timer that starts one.
NeverWedged ==
    target /\ ~closedByUs =>
        \/ transport # None
        \/ timer
        \/ current # None /\ conn[current] = "pending"

\* After disconnect() nothing comes back by itself: no transport, no timer, no
\* attempt that would be listened to (BridgeLink.ts:461-463).
GoodbyeIsFinal ==
    closedByUs => /\ transport = None /\ current = None
                  /\ ~timer /\ ~pinging /\ state = "idle"

\* The state that is shown is the state there is: open means a transport that
\* is pinged, and only a transport of the current generation is ever used.
StateIsTrue ==
    /\ state = "open" <=> transport # None
    /\ transport # None => transport = current /\ pinging /\ ~retrying

\* The link gets there: while the user wants it open, it opens.
LinkOpens == (target /\ ~closedByUs) ~> (state = "open" \/ closedByUs)

\* BridgeLink.ts:163, connect(): "Point the link at a bridge and keep it
\* there" - the reconnect timer replaces only a connection that is gone.
KeepsItThere == [][TimerFires => transport = None]_vars

\* BridgeLink.ts:186-187, of a transport that is not closed when it is given
\* up: "would otherwise sit open and unreferenced".
NothingIsLeftOpen == \A a \in Attempts : conn[a] = "open" => transport = a

=============================================================================
