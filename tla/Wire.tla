--------------------------------- MODULE Wire ---------------------------------
(***************************************************************************)
(* What crosses the headset's link, as bytes and as packets: the bodies of *)
(* packages/protocol (codec.ts, control.ts, pose.ts), the frames that      *)
(* BridgeLink batches its events in, and what LinkStats makes of them.     *)
(*                                                                         *)
(* A byte holds one of Byte values and a body Capacity of them; a number   *)
(* that takes several bytes on the wire takes one here, and the floats of  *)
(* a placement take one together.                                          *)
(***************************************************************************)
EXTENDS Integers, Sequences, FiniteSets, SequencesExt

CONSTANTS
    Byte,           \* what a byte can tell apart, 256
    Capacity,       \* bytes of a body, MAX_CONTROL_BYTES
    MaxDetail,      \* units of a detail, 200
    MaxText,        \* units of a text to show, 120
    MaxTextBytes,   \* bytes of it, 200
    MaxNameBytes,   \* MAX_MODEL_NAME_BYTES
    NameBytes,      \* bytes a model's name may have,
    NameStart,      \* and those it may begin with
    Replacement,    \* what a lone surrogate is encoded as, U+FFFD
    Entries,        \* what the devices of a roster are like
    Texts,          \* what a device is told to show
    Names,          \* what a device is said to be
    MaxDevices,     \* bound: devices of a roster
    MaxEvents,      \* MAX_EVENTS_PER_PACKET
    Clients,        \* pages that play
    MaxPackets,     \* bound: packets that are sent and heard
    MaxTime         \* bound: the clock

None == <<>>
Least(a, b) == IF a < b THEN a ELSE b
Shut(body) == [bytes |-> body, fits |-> TRUE]

\* PacketWriter: what does not fit is refused, and so is all that the caller would have pushed after it.
PushRaw(w, bytes) ==
    IF w.fits /\ Len(w.bytes) + Len(bytes) <= Capacity THEN [w EXCEPT !.bytes = @ \o bytes]
    ELSE [w EXCEPT !.fits = FALSE]
PushU8(w, v) == PushRaw(w, <<v % Byte>>)
PushU16(w, v) == PushRaw(w, <<v>>)

\* A text is a sequence of UTF-16 units.  A unit has the bytes of its character, or, as the high or the low half of
\* one, its part of them; a half without the other is encoded as the replacement.
IsPair(text, i) == i \in DOMAIN text /\ i + 1 \in DOMAIN text /\ text[i].half = "high" /\ text[i + 1].half = "low"
Spelled(text, i) ==
    IF text[i].half = "none" \/ IsPair(text, i) \/ IsPair(text, i - 1) THEN text[i].bytes ELSE Replacement
Encode(text) == FlattenSeq([i \in DOMAIN text |-> Spelled(text, i)])
Sent(w) == IF w.fits THEN w.bytes ELSE None
Rest(body, n) == SubSeq(body, n + 1, Len(body))
Cut(body, from, length) == SubSeq(body, from, from + length - 1)
-----------------------------------------------------------------------------
(* Bodies of one thing.                                                    *)

IsValidModelName(model) ==
    /\ model # <<>> /\ Len(model) <= MaxNameBytes
    /\ Head(model) \in NameStart /\ ToSet(model) \subseteq NameBytes

WriteDeviceAdd(id, model) ==
    IF Len(model) >= Byte THEN None ELSE Sent(PushRaw(PushU8(PushU8(Shut(<<>>), id), Len(model)), model))

\* A length and as many bytes behind it, if they are all there.
ReadCounted(body) ==
    IF Len(body) < 2 \/ Len(body) < 2 + body[2] THEN None ELSE <<body[1], Cut(body, 3, body[2])>>

ReadDeviceAdd(body) ==
    LET add == ReadCounted(body) IN IF add # None /\ IsValidModelName(add[2]) THEN add ELSE None

\* As many units of a text as are allowed, and as their bytes are.
Clipped(text) ==
    LET fitting == {n \in 0..Least(MaxText, Len(text)) : Len(Encode(SubSeq(text, 1, n))) <= MaxTextBytes}
    IN  SubSeq(text, 1, CHOOSE n \in fitting : \A m \in fitting : m <= n)
WriteDeviceText(id, text) ==
    LET bytes == Encode(Clipped(text))
    IN  Sent(PushRaw(PushU8(PushU8(Shut(<<>>), id), Len(bytes)), bytes))
ReadDeviceText(body) == ReadCounted(body)

WriteSysEx(id, bytes) == Sent(PushRaw(PushU16(PushU8(Shut(<<>>), id), Len(bytes)), bytes))
ReadSysEx(body) == ReadCounted(body)
-----------------------------------------------------------------------------
(* The roster.                                                             *)

PlacementBytes == 3
WritePlacement(w, p) == PushRaw(PushU8(PushU8(w, p.deviceId), p.flags), <<p.pose>>)
ReadPlacement(body, at) ==
    IF at + PlacementBytes - 1 > Len(body) THEN None
    ELSE <<[deviceId |-> body[at], flags |-> body[at + 1], pose |-> body[at + 2]]>>

WriteEntry(w, e) ==
    LET detail == Encode(SubSeq(e.detail, 1, Least(MaxDetail, Len(e.detail))))
        named == PushRaw(PushU8(PushU8(PushU8(w, e.deviceId), e.status), Len(e.model)), e.model)
        said == PushRaw(PushU8(named, Len(detail)), detail)
    IN  IF e.placement = None THEN PushU8(said, 0) ELSE WritePlacement(PushU8(said, 1), e.placement[1])

WriteDeviceState(entries) ==
    LET written[n \in 0..Len(entries)] ==
            IF n = 0 THEN PushU8(Shut(<<>>), Len(entries)) ELSE WriteEntry(written[n - 1], entries[n])
    IN  written[Len(entries)]

\* The entry at the front of some bytes: where its detail begins, where it says whether it is placed, where it ends.
DetailAt(body) == 5 + body[3]
PlacedAt(body) == DetailAt(body) + body[4 + body[3]]
IsPlaced(body) == body[PlacedAt(body)] = 1
EndOf(body) == PlacedAt(body) + (IF IsPlaced(body) THEN PlacementBytes ELSE 0)
ReadableTooFar(body) ==
    /\ Len(body) >= 3 /\ Len(body) >= 4 + body[3]
    /\ Len(body) >= PlacedAt(body)
Readable(body) ==
    /\ Len(body) >= 3 /\ Len(body) >= 4 + body[3]
    /\ Len(body) >= PlacedAt(body) /\ Len(body) >= EndOf(body)

EntryOf(body) ==
    [deviceId |-> body[1], status |-> body[2], model |-> Cut(body, 4, body[3]),
     detail |-> Cut(body, DetailAt(body), body[4 + body[3]]),
     placement |-> IF IsPlaced(body) THEN ReadPlacement(body, PlacedAt(body) + 1) ELSE None]

\* The reader goes on until an entry is not all there: left[k] is what k entries leave of the body.
ReadEntries(body, n) ==
    LET left[k \in 0..n] == IF k = 0 THEN body ELSE IF Readable(left[k - 1]) THEN Rest(left[k - 1], EndOf(left[k - 1])) ELSE None
    IN  [k \in {i \in 1..n : Readable(left[i - 1])} |-> EntryOf(left[k - 1])]
ReadDeviceState(body) == IF body = <<>> THEN <<>> ELSE ReadEntries(Tail(body), body[1])
-----------------------------------------------------------------------------
VARIABLES
    roster,     \* the devices a roster was last made of, and
    body,       \* its body, as it was last sent
    ordered,    \* the transport keeps the order and loses nothing: a WebSocket, not a data channel
    now,
    pages,      \* page -> when it was loaded, whether a frame is open, events in it, the writer's sequence
    net,        \* packets that were sent and may arrive
    stats       \* LinkStats

rosterVars == <<roster, body>>
statsVars == <<ordered, now, pages, net, stats>>
wireVars == <<rosterVars, statsVars>>

Page(t) == [loaded |-> t, batching |-> FALSE, count |-> 0, seq |-> 0]
NewStats == [packets |-> 0, events |-> 0, dropped |-> 0, reordered |-> 0, peak |-> 0, last |-> None]

WireInit ==
    /\ roster = <<>> /\ body = <<>>
    /\ ordered \in BOOLEAN /\ now = 0
    /\ pages = [c \in Clients |-> Page(0)]
    /\ net = {} /\ stats = NewStats

\* Broadcaster.sendRoster(): a roster that does not fit is not sent at all.
SendRoster(entries) ==
    LET w == WriteDeviceState(entries)
    IN  /\ roster' = (IF w.fits THEN entries ELSE roster)
        /\ body' = (IF w.fits THEN w.bytes ELSE body)
        /\ UNCHANGED statsVars

Sends == stats.packets + Cardinality(net) < MaxPackets

BeginFrame(c) ==
    /\ ~pages[c].batching
    /\ pages' = [pages EXCEPT ![c].batching = TRUE, ![c].count = 0]
    /\ UNCHANGED <<rosterVars, ordered, now, net, stats>>

\* PacketWriter.finish(), stamped with performance.now(), the time since its page was loaded.
Finish(c, after) ==
    LET page == pages[c]
        packet == [from |-> c, loaded |-> page.loaded, seq |-> page.seq + 1, at |-> now - page.loaded,
                   count |-> page.count]
    IN  Sends /\ net' = net \cup {packet} /\ pages' = [pages EXCEPT ![c] = [after EXCEPT !.seq = page.seq + 1]]

\* BridgeLink.push(): a full packet goes at once, and the event begins the next, if the transport is open.
Push(c, open) ==
    LET page == pages[c]
    IN  /\ page.batching
        /\ \/ page.count < MaxEvents /\ pages' = [pages EXCEPT ![c].count = @ + 1] /\ UNCHANGED net
           \/ page.count = MaxEvents /\ open /\ Finish(c, [page EXCEPT !.count = 1])
           \/ page.count = MaxEvents /\ ~open /\ pages' = [pages EXCEPT ![c].batching = FALSE] /\ UNCHANGED net
        /\ UNCHANGED <<rosterVars, ordered, now, stats>>

\* BridgeLink.endFrame(): what no transport takes is forgotten.
EndFrame(c, open) ==
    LET ended == [pages[c] EXCEPT !.batching = FALSE]
    IN  /\ pages[c].batching
        /\ IF pages[c].count > 0 /\ open THEN Finish(c, ended)
           ELSE pages' = [pages EXCEPT ![c] = ended] /\ UNCHANGED net
        /\ UNCHANGED <<rosterVars, ordered, now, stats>>

\* LinkStats.onPacket()
Away(a, b) == IF a < b THEN b - a ELSE a - b
OnPacketOffByOne(s, p) ==
    LET gap == s.last # None /\ p.seq > s.last[1].seq + 1
        late == s.last # None /\ p.seq <= s.last[1].seq
        newest == IF late THEN s.last[1].seq ELSE p.seq
    IN  [s EXCEPT !.packets = @ + 1, !.dropped = IF gap THEN @ + p.seq - s.last[1].seq ELSE @,
                  !.reordered = IF late THEN @ + 1 ELSE @,
                  !.last = <<[seq |-> newest, at |-> p.at, arrived |-> now]>>]
OnPacket(s, p) ==
    LET last == s.last[1]
        gap == s.last # None /\ p.seq > last.seq + 1
        late == s.last # None /\ p.seq <= last.seq
        jitter == IF s.last = None THEN 0 ELSE Away(now + last.at, last.arrived + p.at)
        newest == IF late THEN last.seq ELSE p.seq
    IN  [packets |-> s.packets + 1, events |-> s.events + p.count,
         dropped |-> IF gap THEN s.dropped + p.seq - last.seq - 1 ELSE s.dropped,
         reordered |-> IF late THEN s.reordered + 1 ELSE s.reordered,
         peak |-> IF jitter > s.peak THEN jitter ELSE s.peak,
         last |-> <<[seq |-> newest, at |-> p.at, arrived |-> now]>>]

\* A packet arrives, the first that its page sent or any of them, and any of them once more.
Arrive(p) ==
    /\ ordered => \A q \in net : q.from = p.from => p.seq <= q.seq
    /\ stats' = OnPacket(stats, p)
    /\ net' = net \ {p} \/ (~ordered /\ Sends /\ UNCHANGED net)
    /\ UNCHANGED <<rosterVars, ordered, now, pages>>

ResetWindow ==
    stats' = [stats EXCEPT !.peak = 0] /\ UNCHANGED <<rosterVars, ordered, now, pages, net>>

\* A page is loaded again, and its connection goes with what is on it.
ReloadPage(c) ==
    /\ pages' = [pages EXCEPT ![c] = Page(now)] /\ pages[c].seq > 0
    /\ net' = {p \in net : p.from # c \/ ~ordered}
    /\ UNCHANGED <<rosterVars, ordered, now, stats>>

Tick == now < MaxTime /\ now' = now + 1 /\ UNCHANGED <<rosterVars, ordered, pages, net, stats>>

Rosters == Len(roster) < MaxDevices /\ \E e \in Entries : SendRoster(Append(roster, e))
Packets ==
    \/ \E c \in Clients : BeginFrame(c) \/ ReloadPage(c)
    \/ \E c \in Clients, open \in BOOLEAN : Push(c, open) \/ EndFrame(c, open)
    \/ \E p \in net : Arrive(p)
    \/ ResetWindow \/ Tick
WireNext == Rosters \/ Packets

WireSpec == WireInit /\ [][WireNext]_wireVars
=============================================================================
