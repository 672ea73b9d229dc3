-------------------------------- MODULE MCHost --------------------------------
(***************************************************************************)
(* Parts of the system that share nothing, one at a time: the bytes of the *)
(* driver's link one way and the other, what the bridge leaves on the      *)
(* machine, the bodies of rosters, and the packets of the headset's link.  *)
(* SetupProps and WireProps say what holds of the machine and of packets.  *)
(***************************************************************************)
EXTENDS SetupProps, WireProps, FramingProps

\* What the set-up and the bodies ask of their constants.
ASSUME HostAssumption ==
    /\ MaxActs \in Nat /\ IsFiniteSet(Addresses)
    /\ {Byte, Capacity, MaxDetail, MaxText, MaxTextBytes, MaxNameBytes, MaxDevices, MaxEvents, MaxPackets, MaxTime} \subseteq Nat

VARIABLE subject

HostInit ==
    /\ subject \in {"notes", "songs", "setup", "rosters", "packets"}
    /\ FramingPropsInit /\ PropsInit /\ WirePropsInit
    /\ subject # "setup" => ~plist
    /\ subject # "packets" => ordered

HostNext ==
    /\ UNCHANGED subject
    /\ \/ subject \in {"notes", "songs"} /\ LinkNext /\ UNCHANGED <<propsVars, wirePropsVars>>
       \/ subject = "notes" /\ NotesNext /\ UNCHANGED <<propsVars, wirePropsVars>>
       \/ subject = "songs" /\ SongsNext /\ UNCHANGED <<propsVars, wirePropsVars>>
       \/ subject = "setup" /\ PropsNext /\ UNCHANGED <<framingPropsVars, wirePropsVars>>
       \/ subject = "rosters" /\ RostersNext /\ UNCHANGED <<framingPropsVars, propsVars>>
       \/ subject = "packets" /\ PacketsNext /\ UNCHANGED <<framingPropsVars, propsVars>>

HostSpec == HostInit /\ [][HostNext]_<<subject, framingPropsVars, propsVars, wirePropsVars>>
-----------------------------------------------------------------------------
MCNotes == {<<1, <<144, 60, 9>>>>, <<16, <<200, 7, 0>>>>}
MCSongs == {<<248>>, <<240, 1, 247>>, <<240, 2, 3, 247>>, <<240, 4, 5, 6, 247>>}
Device(id, model, detail, placement) ==
    [deviceId |-> id, status |-> 1, model |-> model, detail |-> detail, placement |-> placement]
Unit(bytes) == [half |-> "none", bytes |-> bytes]
Pair == <<[half |-> "high", bytes |-> <<2, 2>>], [half |-> "low", bytes |-> <<2, 2>>]>>
MCReplacement == <<4, 4, 4>>
MCEntries == {Device(1, <<2, 3>>, <<Unit(<<1>>)>> \o Pair, <<>>),
              Device(1, <<1>>, <<>>, <<[deviceId |-> 1, flags |-> 1, pose |-> 1]>>),
              Device(2, <<1>>, Pair \o Pair, <<>>),
              Device(2, <<1>>, <<Unit(<<3, 3, 3>>), Unit(<<3, 3, 3>>), Unit(<<3, 3, 3>>)>>, <<>>),
              Device(2, <<1>>, <<Unit(<<3, 3, 3, 3>>), Unit(<<3, 3, 3, 3>>)>>, <<>>)}
MCTexts == {<<>>, <<Unit(<<1>>), Unit(<<2, 2>>)>>, <<Unit(<<3, 3, 3>>), Unit(<<1, 1>>), Unit(<<1>>)>>,
            Pair, <<Unit(<<1>>)>> \o Pair, <<Unit(<<1>>), Unit(<<1>>)>> \o Pair, Tail(Pair)}
MCNames == {<<>>, <<1, 2>>, <<3, 1>>, <<1, 5>>, <<1, 2, 3, 1>>, <<1, 1, 1, 1, 1, 1, 1, 1, 1>>}
=============================================================================
