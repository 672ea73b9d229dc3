------------------------------ MODULE Surface -------------------------------
(***************************************************************************)
(* What a device is made of and where a point on it falls: the tables of   *)
(* the four models (packages/devices), the layouts that place and locate   *)
(* their zones (packages/layout) and the composite that joins regions.     *)
(*                                                                         *)
(* Lengths are in steps of 5 micrometres, in which every length of the     *)
(* source is an integer.  A zone is a number from 1, as in its sequence,   *)
(* and 0 is the -1 of the source.                                          *)
(***************************************************************************)
EXTENDS Integers, FiniteSets, SequencesExt

mm == 200

\* A sequence spelled out, which TLC works out once.
Table(seq) == <<>> \o seq

Models == {"launchpad-x", "launchpad-pro-mk3", "launchkey-mk3-49", "vrmc"}

\* The keypad for a pairing code and the console on the wrist are surfaces too.
Panels == {"keypad", "wrist"}

-----------------------------------------------------------------------------
\* Shapes: what a region's zones are, in its own frame.

IsAccidental(note) == note % 12 \in {1, 3, 6, 8, 10}

WhiteWidth == 4500
WhiteLength == 125 * mm
BlackWidth == 12 * mm
BlackLength == 80 * mm
\* How far an accidental is from the boundary it straddles.
BlackKeyOffset(note) == LET w == WhiteWidth IN
    CASE note % 12 = 1 -> -(w \div 18) [] note % 12 = 3 -> w \div 18
      [] note % 12 = 6 -> -(w \div 12) [] note % 12 = 10 -> w \div 12 [] OTHER -> 0

Keys(low, count) ==
    LET Whites(i) == Cardinality({j \in 0..(i - 1) : ~IsAccidental(low + j)})
        Key(i) == IF IsAccidental(low + i)
                  THEN [x |-> Whites(i) * WhiteWidth + BlackKeyOffset(low + i) - BlackWidth \div 2,
                        y |-> WhiteLength - BlackLength, w |-> BlackWidth, h |-> BlackLength, raise |-> 14 * mm]
                  ELSE [x |-> Whites(i) * WhiteWidth, y |-> 0, w |-> WhiteWidth, h |-> WhiteLength, raise |-> 4 * mm]
    IN  [form |-> "keys", width |-> Whites(count) * WhiteWidth, height |-> WhiteLength,
         zones |-> Table([n \in 1..count |-> Key(n - 1)]),
         black |-> {n \in 1..count : IsAccidental(low + n - 1)},
         ordinal |-> Table([n \in 1..count |-> Whites(n - 1)])]

Pads(rows, cols, size, gap, raise) ==
    LET pitch == size + gap
    IN  [form |-> "pads", rows |-> rows, cols |-> cols, size |-> size, pitch |-> pitch,
         width |-> cols * pitch - gap, height |-> rows * pitch - gap,
         zones |-> Table([n \in 1..(rows * cols) |->
             [x |-> ((n - 1) % cols) * pitch, y |-> ((n - 1) \div cols) * pitch, w |-> size, h |-> size, raise |-> raise]])]

Strip(count, w, h, gap, raise) ==
    [form |-> "strip", count |-> count, size |-> w, pitch |-> w + gap,
     width |-> count * (w + gap) - gap, height |-> h,
     zones |-> Table([n \in 1..count |-> [x |-> (n - 1) * (w + gap), y |-> 0, w |-> w, h |-> h, raise |-> raise]])]

\* LaunchpadLayout: the pitch and bounds of the controls there are; cells
\* without a control, the logo's among them, are left out of the lookup.
Board(controls, size, gap) ==
    LET pitch == size + gap
        rowsOf == {controls[i].row : i \in DOMAIN controls}
        colsOf == {controls[i].col : i \in DOMAIN controls}
        minRow == CHOOSE r \in rowsOf : \A q \in rowsOf : r <= q
        minCol == CHOOSE c \in colsOf : \A q \in colsOf : c <= q
        rows == Cardinality(rowsOf)
        cols == Cardinality(colsOf)
    IN  [form |-> "board", rows |-> rows, cols |-> cols, size |-> size, pitch |-> pitch,
         width |-> cols * pitch - gap, height |-> rows * pitch - gap,
         cell |-> Table([n \in 1..(rows * cols) |->
             LET at == {i \in DOMAIN controls : (controls[i].row - minRow) * cols + controls[i].col - minCol = n - 1}
             IN  IF at = {} THEN 0 ELSE CHOOSE i \in at : TRUE]),
         zones |-> Table([i \in DOMAIN controls |->
             [x |-> (controls[i].col - minCol) * pitch, y |-> (controls[i].row - minRow) * pitch, w |-> size, h |-> size,
              raise |-> IF controls[i].row \in 1..8 /\ controls[i].col \in 1..8 THEN 4 * mm ELSE 3 * mm]])]

\* Read from the top: the first zone is in the highest row.
Panel(count, cols, w, h, gap, readout, raise) ==
    LET rows == (count + cols - 1) \div cols
    IN  [form |-> "panel", rows |-> rows, cols |-> cols, count |-> count, size |-> [x |-> w, y |-> h], gap |-> gap,
         width |-> cols * (w + gap) - gap, height |-> rows * (h + gap) - gap + readout,
         zones |-> Table([n \in 1..count |->
             [x |-> ((n - 1) % cols) * (w + gap), y |-> (rows - 1 - (n - 1) \div cols) * (h + gap),
              w |-> w, h |-> h, raise |-> raise]])]

\* KeypadLayout: the alphabet and backspace, in five columns.
KeypadLayout == Panel(25, 5, 40 * mm, 40 * mm, 9 * mm, 0, 6 * mm)

\* WristMenuLayout: the rows, under the readout.
WristMenuLayout(rows) == Panel(rows, 1, 100 * mm, 22 * mm, 4 * mm, 48 * mm, 5 * mm)

-----------------------------------------------------------------------------
\* locate(), shape by shape, inside the bounds of the shape.

\* Mutant: the black key at the boundary on the left of the point.
LocateKeyLeft(s, x, y) ==
    LET black == {n \in s.black : s.ordinal[n] = x \div WhiteWidth
                                   /\ s.zones[n].x <= x /\ x <= s.zones[n].x + BlackWidth}
        white == {n \in DOMAIN s.zones \ s.black : s.ordinal[n] = x \div WhiteWidth}
        first == IF y >= WhiteLength - BlackLength /\ black # {} THEN black ELSE white
    IN  IF first = {} THEN 0 ELSE CHOOSE n \in first : TRUE

\* A black key of the nearest boundary, or the white key the point is on.
LocateKey(s, x, y) ==
    LET boundary == (2 * x + WhiteWidth) \div (2 * WhiteWidth)
        black == {n \in s.black : s.ordinal[n] = boundary
                                   /\ s.zones[n].x <= x /\ x <= s.zones[n].x + BlackWidth}
        white == {n \in DOMAIN s.zones \ s.black : s.ordinal[n] = x \div WhiteWidth}
        first == IF y >= WhiteLength - BlackLength /\ black # {} THEN black ELSE white
    IN  IF first = {} THEN 0 ELSE CHOOSE n \in first : TRUE

Clamp(v, lo, hi) == IF v < lo THEN lo ELSE IF v > hi THEN hi ELSE v

\* By division, and a point in the gutter is a miss.
LocatePad(s, x, y) ==
    LET col == Clamp(x \div s.pitch, 0, s.cols - 1)
        row == Clamp(y \div s.pitch, 0, s.rows - 1)
    IN  IF x - col * s.pitch > s.size \/ y - row * s.pitch > s.size THEN 0 ELSE row * s.cols + col + 1

LocateCell(s, x, y) ==
    LET col == x \div s.pitch
        row == y \div s.pitch
    IN  IF col >= s.cols \/ row >= s.rows \/ x - col * s.pitch > s.size \/ y - row * s.pitch > s.size
        THEN 0 ELSE s.cell[row * s.cols + col + 1]

LocateStrip(s, x, y) ==
    LET i == x \div s.pitch
    IN  IF i >= s.count \/ x - i * s.pitch > s.size THEN 0 ELSE i + 1

\* By division, upside down; the readout is no row.
LocateOnPanel(s, x, y) ==
    LET col == x \div (s.size.x + s.gap)
        up == y \div (s.size.y + s.gap)
        n == (s.rows - 1 - up) * s.cols + col + 1
    IN  IF \/ col >= s.cols \/ up >= s.rows \/ n > s.count
           \/ x - col * (s.size.x + s.gap) > s.size.x \/ y - up * (s.size.y + s.gap) > s.size.y
        THEN 0 ELSE n

LocateIn(s, x, y) ==
    IF x < 0 \/ y < 0 \/ x > s.width \/ y > s.height THEN 0
    ELSE CASE s.form = "keys" -> LocateKey(s, x, y) [] s.form = "pads" -> LocatePad(s, x, y)
           [] s.form = "strip" -> LocateStrip(s, x, y) [] s.form = "panel" -> LocateOnPanel(s, x, y) [] OTHER -> LocateCell(s, x, y)

-----------------------------------------------------------------------------
\* The models.  A region has a shape, its place, the ids of its controls and
\* what they send: a note or a CC, a number, a channel.

Consecutive(first, n) == Table([i \in 1..n |-> first + i - 1])
Controls(id, data, kind) == [id |-> id, data |-> data, kind |-> kind]

\* Zones are numbered by the ids of the controls, not by what they send.
Region(shape, x, y, controls, channel, continuous, isLit) ==
    [shape |-> shape, x |-> x, y |-> y, channel |-> channel, continuous |-> continuous, lit |-> isLit,
     ids |-> Consecutive(controls.id, Len(shape.zones)), data |-> Consecutive(controls.data, Len(shape.zones)),
     kinds |-> Table([i \in DOMAIN shape.zones |-> controls.kind])]

Square(row, col) == [row |-> row, col |-> col]
GridControls == [n \in 1..64 |-> Square(1 + ((n - 1) \div 8), 1 + ((n - 1) % 8))]
TopRow == [n \in 1..8 |-> Square(9, n)]
SceneColumn == [n \in 1..8 |-> Square(9 - n, 9)]
LeftColumn == [n \in 1..8 |-> Square(9 - n, 0)]
BottomRow == [n \in 1..8 |-> Square(0, n)]

\* A Launchpad's control has one number, row * 10 + column, for everything.
Launchpad(controls, size, gap) ==
    LET xy == [i \in DOMAIN controls |-> controls[i].row * 10 + controls[i].col]
        grid == {i \in DOMAIN controls : controls[i].row \in 1..8 /\ controls[i].col \in 1..8}
    IN  <<[shape |-> Board(controls, size, gap), x |-> 0, y |-> 0, ids |-> xy, data |-> xy,
           kinds |-> [i \in DOMAIN controls |-> IF i \in grid THEN "note" ELSE "cc"],
           channel |-> 0, continuous |-> FALSE, lit |-> TRUE]>>

LaunchpadX == Launchpad(GridControls \o TopRow \o SceneColumn, 20 * mm, 4 * mm)
LaunchpadProMk3 ==
    Launchpad(GridControls \o TopRow \o SceneColumn \o LeftColumn \o BottomRow, 21 * mm, 900)

LaunchkeyControls == [keys |-> Controls(0, 36, "note"), pads |-> Controls(100, 96, "note"),
                      knobs |-> Controls(200, 21, "cc"), faders |-> Controls(300, 41, "cc")]

LaunchkeyRegions ==
    LET keys == Keys(36, 49)
        pads == Pads(2, 8, 22 * mm, 5 * mm, 5 * mm)
        knobs == Strip(8, 20 * mm, 20 * mm, 14 * mm, 8 * mm)
        faders == Strip(9, 12 * mm, 60 * mm, 22 * mm, 4 * mm)
        controlsY == keys.height + 18 * mm
        c == LaunchkeyControls
    IN  <<Region(keys, 0, 0, c.keys, 0, FALSE, FALSE),
          Region(pads, keys.width - pads.width, controlsY, c.pads, 0, FALSE, TRUE),
          Region(knobs, 0, controlsY + faders.height + 12 * mm, c.knobs, 0, TRUE, FALSE),
          Region(faders, 0, controlsY, c.faders, 0, TRUE, FALSE)>>

VrmcControls == [keys |-> Controls(0, 48, "note"), pads |-> Controls(100, 36, "note"), knobs |-> Controls(200, 21, "cc")]

VrmcRegions ==
    LET keys == Keys(48, 25)
        pads == Pads(4, 4, 50 * mm, 8 * mm, 6 * mm)
        knobs == Strip(4, 30 * mm, 30 * mm, 26 * mm, 12 * mm)
        controlsY == keys.height + 20 * mm
        c == VrmcControls
    IN  <<Region(keys, 0, 0, c.keys, 0, FALSE, FALSE),
          Region(pads, keys.width - pads.width, controlsY, c.pads, 9, FALSE, FALSE),
          Region(knobs, 0, controlsY + (pads.height - knobs.height) \div 2, c.knobs, 0, TRUE, FALSE)>>

\* What a zone of a panel is for is its number: a character, or an item to run.
PanelRegions(shape) == <<Region(shape, 0, 0, Controls(0, 0, "panel"), 0, FALSE, FALSE)>>
Keypad == PanelRegions(KeypadLayout)
Wrist == PanelRegions(WristMenuLayout(8))

Regions == ("launchpad-x" :> LaunchpadX) @@ ("launchpad-pro-mk3" :> LaunchpadProMk3)
           @@ ("launchkey-mk3-49" :> LaunchkeyRegions) @@ ("vrmc" :> VrmcRegions)
           @@ ("keypad" :> Keypad) @@ ("wrist" :> Wrist)

-----------------------------------------------------------------------------
\* CompositeLayout: zones renumbered across the regions, in their order.

ZonesOf(r) == [i \in DOMAIN r.shape.zones |->
    LET z == r.shape.zones[i]
    IN  [x |-> z.x + r.x, y |-> z.y + r.y, w |-> z.w, h |-> z.h, raise |-> z.raise, id |-> r.ids[i], data |-> r.data[i],
         kind |-> r.kinds[i], channel |-> r.channel, continuous |-> r.continuous, lit |-> r.lit]]

Joined(regions) ==
    ZonesOf(regions[1]) \o ZonesOf(regions[2]) \o ZonesOf(regions[3])
        \o (IF Len(regions) > 3 THEN ZonesOf(regions[4]) ELSE <<>>)

Zones == ("launchpad-x" :> Table(ZonesOf(LaunchpadX[1]))) @@ ("launchpad-pro-mk3" :> Table(ZonesOf(LaunchpadProMk3[1])))
         @@ ("launchkey-mk3-49" :> Joined(LaunchkeyRegions)) @@ ("vrmc" :> Joined(VrmcRegions))
         @@ ("keypad" :> Table(ZonesOf(Keypad[1]))) @@ ("wrist" :> Table(ZonesOf(Wrist[1])))

\* base: how many zones come before region i.
Base(m, i) == Cardinality({at \in (1..(i - 1)) \X (1..64) : at[2] \in DOMAIN Regions[m][at[1]].shape.zones})

\* The first region with a zone there.
LocateInRegion(m, i, x, y) == LocateIn(Regions[m][i].shape, x - Regions[m][i].x, y - Regions[m][i].y)
FirstHit(m, hits, x, y) ==
    IF hits = {} THEN 0
    ELSE LET first == CHOOSE i \in hits : \A j \in hits : i <= j
         IN  Base(m, first) + LocateInRegion(m, first, x, y)
Locate(m, x, y) == FirstHit(m, {i \in DOMAIN Regions[m] : LocateInRegion(m, i, x, y) # 0}, x, y)

\* maskPokeable(): a fingertip over a knob or a fader finds nothing.
Hit(m, x, y) ==
    LET z == Locate(m, x, y) IN IF z # 0 /\ Zones[m][z].continuous THEN 0 ELSE z

\* zoneForIndex(): the zone an LED message lights.
ZoneForIndex(m, id) ==
    LET at == {z \in DOMAIN Zones[m] : Zones[m][z].lit /\ Zones[m][z].id = id}
    IN  IF at = {} THEN 0 ELSE CHOOSE z \in at : \A y \in at : y <= z

\* The zones that hold a point, its edge counted or not.
Over(m, x, y) == {i \in DOMAIN Zones[m] : LET z == Zones[m][i] IN x \in z.x..(z.x + z.w) /\ y \in z.y..(z.y + z.h)}
Inside(m, x, y) == {i \in DOMAIN Zones[m] : LET z == Zones[m][i] IN
    z.x < x /\ x < z.x + z.w /\ z.y < y /\ y < z.y + z.h}
=============================================================================
