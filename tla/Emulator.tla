------------------------------- MODULE Emulator ------------------------------
(***************************************************************************)
(* What a Launchpad is to its host: packages/devices/src/                  *)
(* LaunchpadEmulator.ts with sysex.ts, and the way a touch takes through   *)
(* the wire (codec.ts) and DeviceManager.handleEvent() to the DAW.         *)
(*                                                                         *)
(* A device is a sequence of controls as Surface has them: an id, and the  *)
(* kind and the data byte of what it sends.  A colour is the palette entry *)
(* it comes from; which of them look alike does not matter here.           *)
(***************************************************************************)
EXTENDS Surface

Hardware == Models \ {"vrmc"}       \* HARDWARE_MODELS
None == -1

-----------------------------------------------------------------------------
\* Numbers.

MinSlots == 110
LedSlots(spec) == LET ids == {MinSlots - 1} \cup {spec[i].id : i \in DOMAIN spec}
                  IN  1 + CHOOSE i \in ids : \A j \in ids : j <= i

\* Mutant: one table for notes and CCs, in which the later control replaces the earlier.
OneLookup(spec, kind, byte) ==
    LET at == {i \in DOMAIN spec : spec[i].data = byte}
    IN  IF at = {} THEN None ELSE spec[CHOOSE i \in at : \A j \in at : j <= i].id

\* reverseLookup(): a data byte to the id of the first control that sends it.
Lookup(spec, kind, byte) ==
    LET at == {i \in DOMAIN spec : spec[i].kind = kind /\ spec[i].data = byte}
    IN  IF at = {} THEN None ELSE spec[CHOOSE i \in at : \A j \in at : i <= j].id

ControlAt(spec, id) == {i \in DOMAIN spec : spec[i].id = id}

\* pushEvent() keeps seven bits of a data byte.
OnTheWire(n) == n % 128

-----------------------------------------------------------------------------
\* SysEx.

Static == 0
Flashing == 1
Pulsing == 2
Rgb == 3

\* How many bytes follow the LED's number.
Args(type) == CASE type \in {Static, Pulsing} -> 1 [] type = Flashing -> 2 [] type = Rgb -> 3

\* A write at i that is there to its last byte.
Fits(body, i) == body[i] \in Static..Rgb /\ i + 1 + Args(body[i]) <= Len(body)

\* parseLedMessage(): the writes of a message, up to a malformed tail.
Writes(body) ==
    LET at[i \in 1..(Len(body) + 1)] ==
            IF i > Len(body) \/ ~Fits(body, i) THEN <<>>
            ELSE <<[led |-> body[i + 1], type |-> body[i], args |-> SubSeq(body, i + 2, i + 1 + Args(body[i]))]>>
                    \o at[i + 2 + Args(body[i])]
    IN  at[1]

\* What an LED shows: a colour, and 0 steady, 1 flashing or 2 pulsing.  The
\* second colour of a flashing one goes nowhere.
Cell(colour, blink) == [colour |-> colour, blink |-> blink]
Dark == Cell(<<0>>, Static)
CellOf(w) ==
    CASE w.type # Rgb -> Cell(<<w.args[1]>>, w.type)
      [] w.type = Rgb /\ \A i \in 1..3 : w.args[i] % 64 = 0 -> Dark
      [] OTHER -> Cell([i \in 1..3 |-> w.args[i] % 64], Static)

-----------------------------------------------------------------------------
\* The emulator e: its LEDs, its mode, what is pressed; and what it tells of
\* LEDs and sends while it handles a message.

Live == 0
Programmer == 1
NewEmulator(slots) == [leds |-> [l \in slots |-> Dark], mode |-> Live, pressed |-> {}, told |-> <<>>, out |-> <<>>]
Heard(e) == [e EXCEPT !.told = <<>>, !.out = <<>>]

\* writeLed(): an LED that changes is told, one outside the surface is not there.
WriteLed(e, led, cell) ==
    IF led \notin DOMAIN e.leds \/ e.leds[led] = cell THEN e
    ELSE [e EXCEPT !.leds[led] = cell, !.told = Append(@, <<led, cell>>)]

ClearAllLeds(e) ==
    LET lit == SetToSeq({l \in DOMAIN e.leds : e.leds[l] # Dark})
    IN  [e EXCEPT !.leds = [l \in DOMAIN e.leds |-> Dark],
                  !.told = @ \o [i \in DOMAIN lit |-> <<lit[i], Dark>>]]

SetMode(e, mode) ==
    LET next == IF mode = Programmer THEN Programmer ELSE Live
    IN  IF next = e.mode THEN e ELSE ClearAllLeds([e EXCEPT !.mode = next])

\* The channel says how: 1 flashes, 2 pulses.
SetPalette(spec, e, kind, byte, colour, channel) ==
    LET led == Lookup(spec, kind, byte)
    IN  IF led = None THEN e
        ELSE WriteLed(e, led, Cell(<<colour>>, IF channel \in {Flashing, Pulsing} THEN channel ELSE Static))

\* One write after another.
WriteLeds(e, ws) ==
    LET after[i \in 0..Len(ws)] == IF i = 0 THEN e ELSE WriteLed(after[i - 1], ws[i].led, CellOf(ws[i]))
    IN  after[Len(ws)]

\* handleHostMessage() and handleSysEx()
HandleHostMessage(spec, e, m) ==
    CASE m.is = "off" -> SetPalette(spec, e, "note", m.data1, 0, Static)
      [] m.is \in {"note", "cc"} -> SetPalette(spec, e, m.is, m.data1, m.data2, m.channel)
      [] m.is = "inquiry" -> [e EXCEPT !.out = Append(@, [is |-> "identity", data1 |-> 0, data2 |-> 0])]
      [] m.is = "mode" -> SetMode(e, m.data1)
      [] m.is = "leds" -> WriteLeds(e, Writes(m.body))
      [] OTHER -> e

Emit(e, kind, byte, value) ==
    [e EXCEPT !.out = Append(@, [is |-> kind, data1 |-> byte % 128, data2 |-> value % 128])]

Press(spec, e, id, velocity) ==
    LET at == ControlAt(spec, id)
        c == spec[CHOOSE i \in at : TRUE]
    IN  IF at = {} THEN e
        ELSE Emit([e EXCEPT !.pressed = @ \cup {id}], c.kind, c.data,
                  IF c.kind = "cc" THEN 127 ELSE Clamp(velocity, 1, 127))

Release(spec, e, id) ==
    LET at == ControlAt(spec, id)
        c == spec[CHOOSE i \in at : TRUE]
    IN  IF at = {} \/ id \notin e.pressed THEN e
        ELSE Emit([e EXCEPT !.pressed = @ \ {id}], c.kind, c.data, 0)

ReleaseAll(spec, e) == FoldLeft(LAMBDA a, id : Release(spec, a, id), e, SetToSortSeq(e.pressed, <))

\* Only of models whose pads feel it, only grid pads, and by the number they are given.
PolyAftertouch == {"launchpad-x", "launchpad-pro-mk3", "vrmc"}
Aftertouch(model, e, id, pressure) ==
    IF model \notin PolyAftertouch \/ id \notin e.pressed \/ id \div 10 \notin 1..8 \/ id % 10 \notin 1..8 THEN e
    ELSE Emit(e, "touch", id, Clamp(pressure, 0, 127))

-----------------------------------------------------------------------------
\* From a zone of the headset to the DAW.

\* LaunchpadInstance.noteOn() sends the id, its knobs the CC's own number.
Sends(zone, velocity) ==
    [type |-> IF zone.continuous THEN "cc14" ELSE "note-on", channel |-> zone.channel, value |-> velocity,
     data1 |-> OnTheWire(IF zone.continuous THEN zone.data ELSE zone.id)]

\* DeviceManager.handleEvent(): hardware goes through its emulator, which only
\* takes presses; a plain device is passed on, a CC of 14 bits as a pair.
HandleEvent(model, e, ev) ==
    CASE model \in Hardware /\ ev.type = "note-on" -> Press(Zones[model], e, ev.data1, ev.value).out
      [] model \in Hardware /\ ev.type # "note-on" -> <<>>
      [] model \notin Hardware /\ ev.type = "cc14" ->
            <<[is |-> "cc", data1 |-> ev.data1, data2 |-> ev.value \div 128],
              [is |-> "cc", data1 |-> (ev.data1 + 32) % 128, data2 |-> ev.value % 128]>>
      [] OTHER -> <<[is |-> "note", data1 |-> ev.data1, data2 |-> ev.value]>>

Arrives(model, zone, velocity) ==
    LET e == NewEmulator({c.id : c \in ToSet(Zones[model])})
    IN  HandleEvent(model, e, Sends(zone, velocity))
=============================================================================
