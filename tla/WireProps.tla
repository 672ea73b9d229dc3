------------------------------- MODULE WireProps -------------------------------
(***************************************************************************)
(* What bodies tell the one who reads them, whole or cut short, and what   *)
(* the statistics of a link say of the packets that were sent over it.     *)
(***************************************************************************)
EXTENDS Wire

VARIABLES
    heard,      \* the packets that arrived, and the first of them
    first,
    slowest,    \* how long any of them took
    mixed       \* not all of them are of one page, loaded once
heardVars == <<heard, first, slowest, mixed>>
wirePropsVars == <<wireVars, heardVars>>

WirePropsInit == WireInit /\ heard = {} /\ first = 0 /\ slowest = 0 /\ mixed = FALSE

Hears(p) ==
    /\ heard' = heard \cup {p}
    /\ first' = IF heard = {} THEN p.seq ELSE first
    /\ slowest' = LET took == now - p.loaded - p.at IN IF took > slowest THEN took ELSE slowest
    /\ mixed' = (mixed \/ \E q \in heard : q.from # p.from)

RostersNext == Rosters /\ UNCHANGED heardVars
PacketsNext ==
    \/ \E c \in Clients : BeginFrame(c) /\ UNCHANGED heardVars
    \/ \E c \in Clients : ReloadPage(c) /\ mixed' = TRUE /\ UNCHANGED <<heard, first, slowest>>
    \/ \E c \in Clients, open \in BOOLEAN : (Push(c, open) \/ EndFrame(c, open)) /\ UNCHANGED heardVars
    \/ \E p \in net : Arrive(p) /\ Hears(p)
    \/ (ResetWindow \/ Tick) /\ UNCHANGED heardVars
WirePropsNext == RostersNext \/ PacketsNext

WirePropsSpec == WirePropsInit /\ [][WirePropsNext]_wirePropsVars

\* Whether what a device's detail came to can be told by its length.
Tellable(e) == Len(Encode(SubSeq(e.detail, 1, Least(MaxDetail, Len(e.detail))))) < Byte
AsTold(e) == [e EXCEPT !.detail = Encode(SubSeq(@, 1, Least(MaxDetail, Len(@))))]
Told == [i \in DOMAIN roster |-> AsTold(roster[i])]
Part(n) == ReadDeviceState(SubSeq(body, 1, n))

Arrives(written, Read(_), told) ==
    written # None =>
        \A n \in 0..Len(written) : Read(SubSeq(written, 1, n)) = (IF n = Len(written) THEN told ELSE None)
LettersArrive ==
    /\ \A t \in Texts : Arrives(WriteDeviceText(1, t), ReadDeviceText, <<1, Encode(Clipped(t))>>)
    /\ \A t \in Texts : Arrives(WriteSysEx(1, Encode(t)), ReadSysEx, <<1, Encode(t)>>)
    /\ \A m \in Names : Arrives(WriteDeviceAdd(1, m), ReadDeviceAdd, IF IsValidModelName(m) THEN <<1, m>> ELSE None)

\* A roster that ends anywhere is read as the devices that came before its end, as they were told, and never as
\* ones that are not there, if every detail is short enough; any other body is read whole or not at all
\* (control.ts, readDeviceState, readDeviceAdd, readDeviceText, readSysEx).
BodiesArriveInPart ==
    /\ (\A i \in DOMAIN roster : Tellable(roster[i])) =>
            /\ \A n \in 0..Len(body) : IsPrefix(Part(n), Told)
            /\ Part(Len(body)) = Told
    /\ LettersArrive

Missing == (first + 1..stats.last[1].seq - 1) \ {p.seq : p \in heard}

\* Of one page that was loaded once, every packet that is missing between the first that arrived and the last
\* is counted, nothing is counted as lost that was not at least late, and a transport that keeps the order shows
\* neither loss nor a packet out of turn (Stats.ts, onPacket; BridgeLink.ts, push and endFrame).
LossIsCounted ==
    ~mixed /\ heard # {} =>
        /\ Cardinality(Missing) <= stats.dropped
        /\ stats.dropped <= Cardinality(Missing) + stats.reordered
        /\ ordered => stats.dropped = 0 /\ stats.reordered = 0
-----------------------------------------------------------------------------
(* What comments say of this and the code does not do.                     *)

\* control.ts:183-185, "reading them anyway would report devices that are not there".
RostersAreTrue == \A n \in 0..Len(body) : IsPrefix(Part(n), Told)

\* control.ts:274-275, "a multi-byte one is never cut in half into a replacement character".
CharactersStayWhole == \A t \in Texts : IsPrefix(Encode(Clipped(t)), Encode(t))

\* Stats.ts:22, "Packets that arrived after a later one. UDP only."
ReorderedIsLate == ordered => stats.reordered = 0

\* Stats.ts:7-8, "because the sender's clock cancels out of the difference".
SenderClockCancels == stats.peak <= slowest
=============================================================================
