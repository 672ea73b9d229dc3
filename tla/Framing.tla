------------------------------- MODULE Framing -------------------------------
(***************************************************************************)
(* The bytes between the bridge and the CoreMIDI driver, both ways:        *)
(* midi/driverFraming.ts and midi/DriverLink.ts at one end, Framing.h,     *)
(* Link.h and Ump.h at the other, and the Universal MIDI Packets a DAW     *)
(* sends, out of which the driver puts MIDI messages together.             *)
(*                                                                         *)
(* Driver has the connection and who notices its end; here a connection is *)
(* there or not, and its bytes are followed one by one, since a read ends  *)
(* anywhere in a frame and a full socket takes a part of one.  Sizes are   *)
(* parameters: what matters is which is larger.                            *)
(***************************************************************************)
EXTENDS Naturals, Sequences, SequencesExt

CONSTANTS
    MaxPayload,     \* MAX_PAYLOAD_BYTES, 8192
    MaxSysEx,       \* kMaxSysExBytes, 4096
    PacketBytes,    \* data bytes a SysEx packet carries, 6
    Room,           \* bytes a socket holds in a direction
    Songs,          \* what a DAW plays: MIDI messages
    Notes,          \* what the bridge plays: <<address, three bytes>>
    DeviceCount,    \* kDeviceCount, and
    PortsPerDevice, \* kMaxPortsPerDevice, of the driver
    Port,           \* the address the DAW plays to
    MaxSends,       \* bound: messages that either side starts
    Reads,          \* what a read gets, if not all there is
    MaxConns        \* bound: connections

VARIABLES
    conn,       \* a connection is there
    down,       \* bytes on their way to the driver
    waiting,    \* the bridge's writes that found no room: ranges of scratch
    scratch,    \* DriverLink.scratch
    reader,     \* the bytes in DriverLink.reader
    up,         \* bytes on their way to the bridge
    held,       \* the bytes in Link.reader_
    dec,        \* the UmpDecoder of the port
    daw,        \* the packets the DAW has still to send of its message
    sends, conns

framingVars == <<conn, down, waiting, scratch, reader, up, held, dec, daw, sends, conns>>

HeaderBytes == 4
MaxFrame == HeaderBytes + MaxPayload
HELLO == 0
MIDI == 1
Frame(kind, port, payload) == [kind |-> kind, port |-> port, payload |-> payload]
Hello == Frame(HELLO, 0, <<2>>)

EncodeAddress(device, port) == 16 * (device % 16) + (port % 16)
DeviceOf(address) == (address \div 16) % 16
PortOf(address) == address % 16

\* encodeFrame(): nothing for a payload that is too long.
Encoded(f) ==
    LET n == Len(f.payload)
    IN  IF n > MaxPayload THEN <<>> ELSE <<n % 256, (n \div 256) % 256, f.port, f.kind>> \o f.payload

\* The same of the driver, EncodeFrame().
DriverEncoded(f) == Encoded(f)

\* The header has two bytes for a length.  Of macOS: a socket takes at least a hello, and holds no more than a
\* reader can take with a part of a frame before it, so that neither ends a connection by itself.
ASSUME SizesAssumption ==
    /\ MaxPayload \in 1..65535 /\ MaxSysEx \in Nat \ {0} /\ PacketBytes \in Nat \ {0}
    /\ Room \in HeaderBytes + 1..7 * MaxFrame
    /\ {DeviceCount, PortsPerDevice, Port, MaxSends, MaxConns} \cup Reads \subseteq Nat

Lesser(a, b) == IF a < b THEN a ELSE b
LengthAt(bytes) == bytes[1] + 256 * bytes[2]

\* A whole frame, of a length that may be, is at the front of some bytes.
Complete(bytes) ==
    Len(bytes) >= HeaderBytes /\ LengthAt(bytes) <= MaxPayload /\ Len(bytes) >= HeaderBytes + LengthAt(bytes)

\* The loop of a reader, which visits one frame after another.
Visit(r) ==
    LET end == HeaderBytes + LengthAt(r.left)
    IN  IF ~Complete(r.left) THEN r
        ELSE [frames |-> Append(r.frames, Frame(r.left[4], r.left[3], SubSeq(r.left, HeaderBytes + 1, end))),
              left |-> SubSeq(r.left, end + 1, Len(r.left))]

\* The whole frames at the front of some bytes, what is left, and whether it can still be read.
Parsed(bytes) ==
    LET visited[n \in 0..Len(bytes)] == IF n = 0 THEN [frames |-> <<>>, left |-> bytes] ELSE Visit(visited[n - 1])
        last == visited[Len(bytes)]
    IN  [frames |-> last.frames, left |-> last.left,
         ok |-> Len(last.left) < HeaderBytes \/ LengthAt(last.left) <= MaxPayload]

\* FrameReader.ensure(): the buffer has four frames' room, and is doubled once.
Ensured(have, incoming) == have + incoming <= 8 * MaxFrame

\* The frames an end acts on: the driver's OnFrame() and OnFromBridge(), and handle().
OnFrame(f) == f.kind = MIDI
ActsOn(end, f) ==
    /\ OnFrame(f)
    /\ end = "driver" => f.payload # <<>> /\ DeviceOf(f.port) < DeviceCount /\ PortOf(f.port) < PortsPerDevice
ActedOn(end, frames) ==
    LET acted[n \in 0..Len(frames)] ==
            IF n = 0 THEN <<>> ELSE IF ActsOn(end, frames[n]) THEN Append(acted[n - 1], frames[n]) ELSE acted[n - 1]
    IN  acted[Len(frames)]
OnFromBridge(frames) == ActedOn("driver", frames)
Handle(frames) == ActedOn("bridge", frames)

BridgePushForgetful(have, chunk) ==
    LET now == Parsed(have \o chunk) IN IF now.frames = <<>> THEN now ELSE [now EXCEPT !.left = <<>>]
BridgePush(have, chunk) ==
    IF Ensured(Len(have), Len(chunk)) THEN Parsed(have \o chunk) ELSE [frames |-> <<>>, left |-> have, ok |-> FALSE]

\* FrameReader::Push(): a buffer of four frames, filled as often as the chunk needs.
Fill(r) ==
    LET take == Lesser(Len(r.chunk), 4 * MaxFrame - Len(r.left))
        now == Parsed(r.left \o SubSeq(r.chunk, 1, take))
    IN  IF r.chunk = <<>> \/ ~r.ok THEN r
        ELSE IF take = 0 THEN [r EXCEPT !.ok = FALSE]
        ELSE [frames |-> r.frames \o now.frames, left |-> now.left, ok |-> now.ok,
              chunk |-> SubSeq(r.chunk, take + 1, Len(r.chunk))]
DriverPush(have, chunk) ==
    LET filled[n \in 0..Len(chunk)] ==
            IF n = 0 THEN [frames |-> <<>>, left |-> have, ok |-> TRUE, chunk |-> chunk] ELSE Fill(filled[n - 1])
    IN  filled[Len(chunk)]
-----------------------------------------------------------------------------
(* Universal MIDI Packets.                                                 *)

\* How many bytes a status introduces, itself included.
Midi1MessageLength(status) ==
    CASE status < 128 -> 0
      [] status \in 128..191 \cup 224..239 \cup {242} -> 3
      [] status \in 192..223 \cup {241, 243} -> 2
      [] status \in {246, 248, 250, 251, 252, 254, 255} -> 1
      [] OTHER -> 0

IsSysEx(m) == m[1] = 240
Start == 1
Continue == 2
End == 3
Whole == 0

\* What is played: SysEx with its ends, or as many bytes as the status says, and notes for the driver's ports.
ASSUME SongsAssumption ==
    \A m \in Songs :
        /\ m \in Seq(Nat) /\ m # <<>>
        /\ IF IsSysEx(m) THEN Len(m) > 1 /\ m[Len(m)] = 247 ELSE Len(m) = Midi1MessageLength(m[1])
ASSUME NotesAssumption ==
    \A note \in Notes :
        /\ note[1] \in Nat /\ DeviceOf(note[1]) < DeviceCount /\ PortOf(note[1]) < PortsPerDevice
        /\ note[2] \in Seq(Nat) /\ Len(note[2]) = 3

\* The packets of a message, as a host cuts it.
PacketsOf(m) ==
    LET data == SubSeq(m, 2, Len(m) - 1)
        last == (Len(data) \div PacketBytes) + (IF Len(data) % PacketBytes = 0 /\ data # <<>> THEN 0 ELSE 1)
        Status(i) == CASE 1 = i /\ i = last -> Whole [] 1 = i /\ i < last -> Start [] 1 < i /\ i = last -> End [] OTHER -> Continue
    IN  IF ~IsSysEx(m) THEN <<[type |-> "voice", data |-> m \o <<0, 0>>]>>
        ELSE [i \in 1..last |->
                [type |-> "sysex", status |-> Status(i),
                 data |-> SubSeq(data, ((i - 1) * PacketBytes) + 1, Lesser(i * PacketBytes, Len(data)))]]

NewDecoder == [active |-> FALSE, buffer |-> <<>>]

DecodeSysEx7Splicing(d, p) ==
    LET full == (IF d.active THEN d.buffer ELSE <<240>>) \o p.data
    IN  IF p.status \in {Whole, End} THEN [decoder |-> NewDecoder, messages |-> <<Append(full, 247)>>]
        ELSE [decoder |-> [active |-> TRUE, buffer |-> full], messages |-> <<>>]

\* DecodeSysEx7(): the decoder after a packet, and the messages that makes.
DecodeSysEx7(d, p) ==
    LET begun == IF p.status \in {Whole, Start} THEN [active |-> TRUE, buffer |-> <<240>>] ELSE d
        full == begun.buffer \o p.data
    IN  CASE ~begun.active -> [decoder |-> d, messages |-> <<>>]
          [] begun.active /\ Len(full) > MaxSysEx - 1 -> [decoder |-> NewDecoder, messages |-> <<>>]
          [] OTHER ->
                IF p.status \in {Whole, End} THEN [decoder |-> NewDecoder, messages |-> <<Append(full, 247)>>]
                ELSE [decoder |-> [active |-> TRUE, buffer |-> full], messages |-> <<>>]

Decode(d, p) ==
    LET n == Midi1MessageLength(p.data[1])
    IN  CASE p.type = "sysex" -> DecodeSysEx7(d, p)
          [] p.type = "voice" /\ n > 0 -> [decoder |-> d, messages |-> <<SubSeq(p.data, 1, n)>>]
          [] OTHER -> [decoder |-> d, messages |-> <<>>]
-----------------------------------------------------------------------------
FramingInit ==
    /\ conn = FALSE
    /\ down = <<>> /\ waiting = <<>> /\ scratch = <<>>
    /\ reader = <<>> /\ up = <<>> /\ held = <<>>
    /\ dec = NewDecoder /\ daw = <<>>
    /\ sends = 0 /\ conns = 0

\* A write that does not wait: what there is room for.
Taken(wire, bytes) == SubSeq(bytes, 1, Lesser(Room - Len(wire), Len(bytes)))

\* WriteAll(), which takes a part for a failure and leaves it in the socket.
WriteAll(bytes) == up' = up \o Taken(up, bytes)

\* SendMidi(), for every message a packet completes.
SendMidi(messages) ==
    IF conn /\ messages # <<>> THEN WriteAll(DriverEncoded(Frame(MIDI, Port, messages[1]))) ELSE UNCHANGED up

\* A new frame in the scratch buffer, over the one before.
Over(old, bytes) == bytes \o SubSeq(old, Len(bytes) + 1, Len(old))

\* socket.write(): what finds no room, or stands behind something that did not, is kept as a view.
Write(wire, queue, bytes) ==
    LET n == IF queue = <<>> THEN Len(Taken(wire, bytes)) ELSE 0
    IN  /\ down' = wire \o SubSeq(bytes, 1, n)
        /\ waiting' = IF n = Len(bytes) THEN queue ELSE Append(queue, [from |-> n + 1, to |-> Len(bytes)])
        /\ scratch' = Over(scratch, bytes)

ConnectUnreset ==
    /\ ~conn /\ conns < MaxConns
    /\ conn' = TRUE /\ conns' = conns + 1
    /\ up' = Taken(<<>>, DriverEncoded(Hello))
    /\ Write(<<>>, <<>>, Encoded(Hello))
    /\ UNCHANGED <<held, reader, dec, daw, sends>>

\* accept() and the top of Loop(): each end says hello on the new socket.
Connect ==
    /\ ~conn /\ conns < MaxConns
    /\ conn' = TRUE /\ conns' = conns + 1
    /\ held' = <<>>
    /\ up' = Taken(<<>>, DriverEncoded(Hello))
    /\ Write(<<>>, <<>>, Encoded(Hello))
    /\ UNCHANGED <<reader, dec, daw, sends>>

Ends == conn' = FALSE /\ down' = <<>> /\ up' = <<>> /\ waiting' = <<>>

LinkEnds == conn /\ Ends /\ UNCHANGED <<scratch, reader, held, dec, daw, sends, conns>>

\* MIDIServer, or the bridge, starts again.
DriverRestarts ==
    /\ Ends /\ held' = <<>> /\ dec' = NewDecoder
    /\ dec # NewDecoder \/ conn
    /\ UNCHANGED <<scratch, reader, daw, sends, conns>>
BridgeRestarts ==
    /\ conn \/ reader # <<>>
    /\ Ends /\ reader' = <<>> /\ scratch' = <<>>
    /\ UNCHANGED <<held, dec, daw, sends, conns>>

\* DriverSink.send(): three bytes, of which some messages have but two.
Sink(three) == IF three[1] \in 192..223 THEN SubSeq(three, 1, 2) ELSE three

\* DriverLink.send(), of a port's sink.
BridgeSends(note) ==
    LET bytes == Encoded(Frame(MIDI, note[1], Sink(note[2])))
    IN  /\ conn /\ sends < MaxSends /\ bytes # <<>>
        /\ sends' = sends + 1
        /\ Write(down, waiting, bytes)
        /\ UNCHANGED <<conn, reader, up, held, dec, daw, conns>>

\* The socket has room again, and the bytes are what the buffer holds now.
Drains ==
    LET r == Head(waiting)
        n == Len(Taken(down, SubSeq(scratch, r.from, r.to)))
    IN  /\ waiting # <<>> /\ n > 0
        /\ down' = down \o SubSeq(scratch, r.from, r.from + n - 1)
        /\ waiting' = IF r.from + n > r.to THEN Tail(waiting) ELSE <<[r EXCEPT !.from = @ + n]>> \o Tail(waiting)
        /\ UNCHANGED <<conn, scratch, reader, up, held, dec, daw, sends, conns>>

\* The driver reads, and hands what is MIDI on; what it cannot read ends the connection.
DriverReads(n) ==
    LET push == DriverPush(held, SubSeq(down, 1, n))
    IN  /\ conn /\ n \in 1..Len(down) /\ (n \in Reads \/ n = Len(down))
        /\ held' = push.left
        /\ IF push.ok THEN down' = SubSeq(down, n + 1, Len(down)) /\ UNCHANGED <<conn, waiting, up>> ELSE Ends
        /\ UNCHANGED <<scratch, reader, dec, daw, sends, conns>>

\* The "data" handler of accept().
BridgeReads(n) ==
    LET push == BridgePush(reader, SubSeq(up, 1, n))
    IN  /\ conn /\ n \in 1..Len(up) /\ (n \in Reads \/ n = Len(up))
        /\ reader' = push.left
        /\ IF push.ok THEN up' = SubSeq(up, n + 1, Len(up)) /\ UNCHANGED <<conn, waiting, down>> ELSE Ends
        /\ UNCHANGED <<scratch, held, dec, daw, sends, conns>>

\* SendPackets(): a packet of the DAW's is decoded, and what it completes is sent.
SendPackets(p) ==
    LET d == Decode(dec, p)
    IN  /\ dec' = d.decoder
        /\ SendMidi(d.messages)
        /\ UNCHANGED <<conn, down, waiting, scratch, reader, held, conns>>

\* A message is begun, whatever became of the one before; a short one may come in the midst of another.
DawBegins(m) ==
    /\ sends < MaxSends /\ sends' = sends + 1
    /\ daw' = IF IsSysEx(m) THEN Tail(PacketsOf(m)) ELSE daw
    /\ SendPackets(PacketsOf(m)[1])
DawGoesOn == daw # <<>> /\ daw' = Tail(daw) /\ SendPackets(Head(daw)) /\ UNCHANGED sends

FramingNext ==
    \/ Connect \/ LinkEnds \/ DriverRestarts \/ BridgeRestarts
    \/ Drains \/ DawGoesOn
    \/ \E note \in Notes : BridgeSends(note)
    \/ \E m \in Songs : DawBegins(m)
    \/ \E n \in 1..Room : DriverReads(n) \/ BridgeReads(n)

FramingSpec == FramingInit /\ [][FramingNext]_framingVars
=============================================================================
