---------------------------- MODULE FramingProps -----------------------------
(***************************************************************************)
(* What the bytes between the bridge and the driver carry, by a history of *)
(* what was sent on a connection and not read yet.                         *)
(***************************************************************************)
EXTENDS Framing

VARIABLES
    owed,       \* frames sent to an end and not read by it, on this connection
    wrong,      \* what went wrong on it: an end that read something else, a song that was spoiled
    marks,      \* what happened to it: "spoiled", "cut", "stale"
    song        \* what the DAW is playing, and whether by one driver
linkHistory == <<owed, wrong, marks, song>>
framingPropsVars == <<framingVars, linkHistory>>

Silence == [is |-> <<>>, whole |-> FALSE]
FramingPropsInit ==
    /\ FramingInit
    /\ owed = [driver |-> <<>>, bridge |-> <<>>] /\ wrong = {} /\ marks = {} /\ song = Silence

Connected ==
    /\ owed' = [driver |-> <<>>, bridge |-> <<>>]
    /\ wrong' = wrong \ {"driver", "bridge"}
    /\ marks' = IF reader = <<>> THEN {} ELSE {"stale"}
    /\ UNCHANGED song

\* The bridge wrote a frame; one that waited in the buffer meanwhile is lost.
Wrote(note) ==
    /\ owed' = [owed EXCEPT !.driver = Append(@, Frame(MIDI, note[1], Sink(note[2])))]
    /\ marks' = IF waiting = <<>> THEN marks ELSE marks \cup {"spoiled"}
    /\ UNCHANGED <<wrong, song>>

\* An end read some frames.
Read(end, ok, frames) ==
    LET n == Len(frames)
    IN  /\ IF ok /\ IsPrefix(frames, owed[end])
           THEN owed' = [owed EXCEPT ![end] = SubSeq(@, n + 1, Len(@))] /\ UNCHANGED wrong
           ELSE wrong' = wrong \cup {end} /\ UNCHANGED owed
        /\ UNCHANGED <<marks, song>>

\* The driver was given a packet: what it made of it was sent, in part, or not at all.
Delivered(p, expected) ==
    LET messages == Decode(dec, p).messages
        bytes == DriverEncoded(Frame(MIDI, Port, messages[1]))
        n == Len(up') - Len(up)
    IN  /\ owed' = IF messages # <<>> /\ conn /\ n = Len(bytes) /\ n > 0
                   THEN [owed EXCEPT !.bridge = Append(@, Frame(MIDI, Port, messages[1]))] ELSE owed
        /\ marks' = IF messages # <<>> /\ conn /\ n > 0 /\ n < Len(bytes) THEN marks \cup {"cut"} ELSE marks
        /\ wrong' = IF messages = expected THEN wrong ELSE wrong \cup {"song"}

Begun(m) ==
    LET fits == Len(m) <= MaxSysEx
    IN  /\ song' = IF IsSysEx(m) THEN [is |-> m, whole |-> TRUE] ELSE song
        /\ Delivered(PacketsOf(m)[1], IF Len(PacketsOf(m)) = 1 /\ (fits \/ ~IsSysEx(m)) THEN <<m>> ELSE <<>>)
WentOn ==
    /\ UNCHANGED song
    /\ Delivered(Head(daw), IF Len(daw) = 1 /\ song.whole /\ Len(song.is) <= MaxSysEx THEN <<song.is>> ELSE <<>>)

LinkNext ==
    \/ Connect /\ Connected
    \/ (LinkEnds \/ BridgeRestarts \/ Drains) /\ UNCHANGED linkHistory
    \/ DriverRestarts /\ song' = [song EXCEPT !.whole = FALSE] /\ UNCHANGED <<owed, wrong, marks>>
    \/ \E n \in 1..Room :
        \/ /\ DriverReads(n)
           /\ LET push == DriverPush(held, SubSeq(down, 1, n)) IN Read("driver", push.ok, OnFromBridge(push.frames))
        \/ /\ BridgeReads(n)
           /\ LET push == BridgePush(reader, SubSeq(up, 1, n)) IN Read("bridge", push.ok, Handle(push.frames))
NotesNext == \E note \in Notes : BridgeSends(note) /\ Wrote(note)
SongsNext ==
    \/ DawGoesOn /\ WentOn
    \/ \E m \in Songs : DawBegins(m) /\ Begun(m)
FramingPropsNext == LinkNext \/ NotesNext \/ SongsNext

FramingPropsSpec == FramingPropsInit /\ [][FramingPropsNext]_framingPropsVars

\* Wherever reads end and writes stop, the driver reads the frames the bridge sent on the connection, in order
\* and whole (Framing.h, FrameReader::Push), unless a frame was put in the scratch buffer while the socket still
\* had to take one from it.
DriverHearsTheBridge == "driver" \in wrong => "spoiled" \in marks

\* The bridge reads the frames the driver sent on the connection (driverFraming.ts, FrameReader), unless the
\* socket took a part of one or the reader began with bytes of the connection before.
BridgeHearsTheDriver == "bridge" \in wrong => marks \cap {"cut", "stale"} # {}

\* A SysEx message of the DAW, in any number of packets, with others abandoned before it and short messages in
\* its midst, is put together as it was if it fits, and nothing else is (Ump.h, DecodeSysEx7).
SongsArriveWhole == "song" \notin wrong
-----------------------------------------------------------------------------
(* What comments say of this and the code does not do.                     *)

\* DriverLink.ts:79-81, "Safe because `send` writes and hands the bytes to the socket synchronously".
ScratchIsSafe == "driver" \notin wrong

\* Link.h:118-120, "So a frame goes entirely or not at all".
FramesGoWhole == "bridge" \in wrong => "stale" \in marks

\* DriverLink.ts:121: a connection is read from its beginning.
ConnectionsStartAfresh == "bridge" \in wrong => "cut" \in marks

\* DriverLink.ts:127-131: what cannot be read ends the connection, not those after it.
ReaderCanRead == conn => Parsed(reader).ok
=============================================================================
