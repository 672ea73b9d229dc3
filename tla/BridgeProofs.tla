---------------------------- MODULE BridgeProofs ----------------------------
(***************************************************************************)
(* Proofs about the device manager, for any ids, models, controls and      *)
(* bounds, and about the bridge put together.                              *)
(*                                                                         *)
(* In the manager the properties about notes need to know which instances  *)
(* are still being built (they have sent nothing yet), the ones about      *)
(* ports need to know who is still building them.  Every step of the       *)
(* bridge is a step of the manager or leaves it alone, so what is proved   *)
(* of the manager holds in the bridge; what the gate and the client count  *)
(* add is in GateInv.                                                      *)
(***************************************************************************)
EXTENDS BridgeProps, DeviceManagerProps, FiniteSetTheorems, TLAPS

-----------------------------------------------------------------------------
(* The manager: its invariant.                                             *)

\* The map points at instances that exist, at each one once.
MapInv ==
    /\ \A d \in Ids : devices[d] <= fresh
    /\ \A d, e \in Ids : devices[d] = devices[e] /\ devices[d] # NoInst => d = e

\* An instance that does not exist yet has done nothing.
UnbornInv ==
    \A i \in Inst : i > fresh =>
        /\ step[i] = 0
        /\ daw[i] = 0
        /\ \A k \in Slots : ports[i][k] = "none"

\* An add() in flight has not assigned dawPort or the status, and is either
\* in the map or was removed meanwhile.
BuildingInv ==
    \A i \in Inst : step[i] # 0 =>
        /\ daw[i] = 0
        /\ status[i] = "pending"
        /\ step[i] <= PortsOf[model[i]]
        /\ Registered(i) \/ i \in orphaned

\* Without a dawPort nothing has been played.
QuietInv == \A i \in Inst : daw[i] = 0 => pressed[i] = {} /\ held[i] = {}

\* The inductive invariant of the ports and the map.
PortInv ==
    /\ TypeOK
    /\ MapInv
    /\ UnbornInv
    /\ BuildingInv
    /\ OnlyInterruptedAddsLeak
    /\ StatusMatchesPorts

\* ... and of the notes.
NoteInv ==
    /\ QuietInv
    /\ SoundingIsTracked
    /\ LatchedIsPressed
    /\ EmulatorAgreesWithTracker

LEMMA InitInv == Init => PortInv /\ NoteInv
<1> SUFFICES ASSUME Init PROVE PortInv /\ NoteInv
  OBVIOUS
<1> USE ModelsAssumption, IdsAssumption, BoundsAssumption DEF Init
<1>1. TypeOK
  BY DEF TypeOK, Inst, NoInst
<1>2. \A d \in Ids : devices[d] = NoInst
  OBVIOUS
<1>3. \A i \in Inst : ~Registered(i)
  BY <1>2 DEF Registered, Inst, NoInst
<1>4. MapInv /\ UnbornInv /\ BuildingInv
  BY <1>2 DEF MapInv, UnbornInv, BuildingInv, NoInst
<1>5. OnlyInterruptedAddsLeak /\ StatusMatchesPorts
  BY <1>3 DEF OnlyInterruptedAddsLeak, StatusMatchesPorts, RegisteredSet
<1>6. NoteInv
  BY DEF NoteInv, QuietInv, SoundingIsTracked, LatchedIsPressed,
         EmulatorAgreesWithTracker, Emulated
<1>. QED BY <1>1, <1>4, <1>5, <1>6 DEF PortInv

-----------------------------------------------------------------------------
(* The shapes of a step: both outcomes of add() up to its first await are   *)
(* one, and so are the two ways to remove.                                  *)

Entry(d, m, st, first) ==
    /\ devices[d] = NoInst
    /\ st = "pending" <=> first = 1
    /\ NewInstance(d, m, st, first)
    /\ UNCHANGED <<daw, ports, noteVars, orphaned>>

Shapes ==
    \/ \E d \in Ids, m \in Models, st \in {"pending", "failed"}, first \in {0, 1} :
            Entry(d, m, st, first)
    \/ \E i \in Inst, ok \in BOOLEAN : PortSettles(i, ok)
    \/ \E ds \in SUBSET Ids : Drop(ds)
    \/ PanicAll
    \/ \E d \in Ids, c \in Controls : Press(d, c)
    \/ \E d \in Ids, c \in Controls : Lift(d, c)
    \/ \E d \in Ids, n \in Notes, on \in BOOLEAN : PlainNote(d, n, on)

LEMMA NextShapes == Next => Shapes
<1> SUFFICES ASSUME Next PROVE Shapes
  OBVIOUS
<1>1. ASSUME NEW d \in Ids, NEW m \in Models, AddRefused(d, m)
      PROVE  Entry(d, m, "failed", 0)
  BY <1>1 DEF AddRefused, Entry
<1>2. ASSUME NEW d \in Ids, NEW m \in Models, AddBegins(d, m)
      PROVE  Entry(d, m, "pending", 1)
  BY <1>2 DEF AddBegins, Entry
<1>3. ASSUME NEW d \in Ids, Remove(d) PROVE Drop({d}) /\ {d} \in SUBSET Ids
  BY <1>3 DEF Remove
<1>4. ASSUME RemoveAll PROVE \E ds \in SUBSET Ids : Drop(ds)
  BY <1>4 DEF RemoveAll
<1>5. ASSUME NEW d \in Ids, Event(d)
      PROVE  \/ \E c \in Controls : Press(d, c)
             \/ \E c \in Controls : Lift(d, c)
             \/ \E n \in Notes, on \in BOOLEAN : PlainNote(d, n, on)
  BY <1>5 DEF Event
<1>6. CASE \E d \in Ids, m \in Models : AddRefused(d, m) \/ AddBegins(d, m)
  BY <1>1, <1>2, <1>6 DEF Shapes
<1>7. CASE \E d \in Ids : Event(d)
  BY <1>5, <1>7 DEF Shapes
<1>8. CASE \E d \in Ids : Remove(d)
  BY <1>3, <1>8 DEF Shapes
<1>. QED BY <1>4, <1>6, <1>7, <1>8 DEF Next, Settle, Shapes

-----------------------------------------------------------------------------
(* Every step keeps the types.                                             *)

LEMMA NextPort ==
    ASSUME NEW k, NEW n, NEW top \in Nat, k \in 1..n, n \in 1..top
    PROVE  (IF k = n THEN 0 ELSE k + 1) \in 0..top
OBVIOUS

LEMMA TypeStep == TypeOK /\ BuildingInv /\ [Next]_vars => TypeOK'
<1> SUFFICES ASSUME TypeOK, BuildingInv, [Next]_vars
             PROVE  TypeOK'
  OBVIOUS
<1> USE ModelsAssumption, BoundsAssumption DEF TypeOK
<1>1. ASSUME NEW d \in Ids, NEW m \in Models, NEW st \in {"pending", "failed"},
             NEW first \in {0, 1}, Entry(d, m, st, first)
      PROVE  TypeOK'
  <2>1. fresh + 1 \in Inst
    BY <1>1 DEF Entry, NewInstance, Inst
  <2>2. 1 \in 0..MaxPorts
    OBVIOUS
  <2>3. fresh' \in 0..MaxInstances /\ devices' \in [Ids -> Inst \cup {NoInst}]
    BY <1>1, <2>1 DEF Entry, NewInstance
  <2>4. model' \in [Inst -> Models] /\ status' \in [Inst -> {"pending", "ready", "failed"}]
    BY <1>1, <2>1 DEF Entry, NewInstance
  <2>5. step' \in [Inst -> 0..MaxPorts]
    BY <1>1, <2>1, <2>2 DEF Entry, NewInstance
  <2>. QED BY <1>1, <2>3, <2>4, <2>5 DEF Entry, noteVars
<1>2. ASSUME NEW i \in Inst, NEW ok \in BOOLEAN, PortSettles(i, ok)
      PROVE  TypeOK'
  <2> DEFINE k == step[i]
             now == [ports[i] EXCEPT ![k] = IF ok THEN "open" ELSE "null"]
             last == k = PortsOf[model[i]]
  <2>1. now \in [Slots -> {"none", "open", "null", "closed"}]
    OBVIOUS
  <2>2. ports' \in [Inst -> [Slots -> {"none", "open", "null", "closed"}]]
    BY <1>2, <2>1 DEF PortSettles
  <2>3. k \in 1..PortsOf[model[i]] /\ PortsOf[model[i]] \in 1..MaxPorts
    BY <1>2 DEF PortSettles, BuildingInv
  <2>4. step' \in [Inst -> 0..MaxPorts]
    <3>1. (IF step[i] = PortsOf[model[i]] THEN 0 ELSE step[i] + 1) \in 0..MaxPorts
      BY <2>3, NextPort
    <3>. QED BY <1>2, <3>1 DEF PortSettles
  <2>5. DawPort[model[i]] \in 0..MaxPorts
    BY <2>3
  <2>6. daw' \in [Inst -> 0..MaxPorts]
    BY <1>2, <2>5 DEF PortSettles
  <2>7. status' \in [Inst -> {"pending", "ready", "failed"}]
    BY <1>2 DEF PortSettles
  <2>. QED BY <1>2, <2>2, <2>4, <2>6, <2>7 DEF PortSettles, noteVars
<1>3. ASSUME NEW gone, Release(gone)
      PROVE  /\ pressed' \in [Inst -> SUBSET Controls]
             /\ held' \in [Inst -> SUBSET Notes]
             /\ sounding' \subseteq Inst \X Notes
             /\ latched' \subseteq Inst \X Switches
  BY <1>3 DEF Release
<1>4. ASSUME NEW ds \in SUBSET Ids, Drop(ds)
      PROVE  TypeOK'
  <2> DEFINE gone == {devices[d] : d \in ds}
  <2>1. Release(gone) /\ ClosePorts(gone) /\ UNCHANGED addVars
    BY <1>4 DEF Drop
  <2>2. ports' \in [Inst -> [Slots -> {"none", "open", "null", "closed"}]]
    BY <2>1 DEF ClosePorts
  <2>3. devices' \in [Ids -> Inst \cup {NoInst}]
    BY <1>4 DEF Drop
  <2>4. orphaned' \subseteq Inst
    BY <1>4 DEF Drop
  <2>. QED BY <1>3, <2>1, <2>2, <2>3, <2>4 DEF addVars
<1>5. ASSUME PanicAll PROVE TypeOK'
  BY <1>3, <1>5 DEF PanicAll, addVars
<1>6. ASSUME NEW d \in Ids, NEW c \in Controls, Press(d, c) PROVE TypeOK'
  <2>1. devices[d] \in Inst
    BY <1>6 DEF Press
  <2>2. pressed' \in [Inst -> SUBSET Controls] /\ held' \in [Inst -> SUBSET Notes]
    BY <1>6, <2>1 DEF Press
  <2>3. sounding' \subseteq Inst \X Notes
    BY <1>6, <2>1 DEF Press, Switched
  <2>4. latched' \subseteq Inst \X Switches
    BY <1>6, <2>1 DEF Press, Switched
  <2>. QED BY <1>6, <2>2, <2>3, <2>4 DEF Press, addVars
<1>7. ASSUME NEW d \in Ids, NEW c \in Controls, Lift(d, c) PROVE TypeOK'
  <2>1. devices[d] \in Inst
    BY <1>7 DEF Lift
  <2>2. pressed' \in [Inst -> SUBSET Controls] /\ held' \in [Inst -> SUBSET Notes]
    BY <1>7, <2>1 DEF Lift
  <2>3. sounding' \subseteq Inst \X Notes
    BY <1>7, <2>1 DEF Lift, Switched
  <2>4. latched' \subseteq Inst \X Switches
    BY <1>7, <2>1 DEF Lift, Switched
  <2>. QED BY <1>7, <2>2, <2>3, <2>4 DEF Lift, addVars
<1>8. ASSUME NEW d \in Ids, NEW n \in Notes, NEW on \in BOOLEAN, PlainNote(d, n, on)
      PROVE  TypeOK'
  <2>1. devices[d] \in Inst
    BY <1>8 DEF PlainNote
  <2>2. held' \in [Inst -> SUBSET Notes]
    BY <1>8, <2>1 DEF PlainNote
  <2>3. sounding' \subseteq Inst \X Notes
    BY <1>8, <2>1 DEF PlainNote, Switched
  <2>. QED BY <1>8, <2>2, <2>3 DEF PlainNote, addVars
<1>9. CASE UNCHANGED vars
  BY <1>9 DEF vars, addVars, noteVars
<1>. QED
  <2>1. CASE Shapes
    BY <1>1, <1>2, <1>4, <1>5, <1>6, <1>7, <1>8, <2>1 DEF Shapes
  <2>. QED BY <1>9, <2>1, NextShapes

-----------------------------------------------------------------------------
(* What each shape does to one instance, as facts the invariants rest on.  *)

LEMMA EntryFacts ==
    ASSUME TypeOK, MapInv, NEW d \in Ids, NEW m \in Models,
           NEW st \in {"pending", "failed"}, NEW first \in {0, 1}, Entry(d, m, st, first)
    PROVE  /\ fresh + 1 \in Inst /\ fresh' = fresh + 1
           /\ \A e \in Ids : devices'[e] = IF e = d THEN fresh + 1 ELSE devices[e]
           /\ \A i \in Inst : i # fresh + 1 =>
                /\ Registered(i)' <=> Registered(i)
                /\ model'[i] = model[i] /\ status'[i] = status[i] /\ step'[i] = step[i]
           /\ \A i \in Inst : i = fresh + 1 => Registered(i)'
           /\ model'[fresh + 1] = m /\ status'[fresh + 1] = st /\ step'[fresh + 1] = first
           /\ daw' = daw /\ ports' = ports /\ pressed' = pressed /\ held' = held
           /\ sounding' = sounding /\ latched' = latched /\ orphaned' = orphaned
<1> USE BoundsAssumption
<1>1. fresh + 1 \in Inst /\ fresh' = fresh + 1
  BY DEF Entry, NewInstance, Inst, TypeOK
<1>2. \A e \in Ids : devices'[e] = IF e = d THEN fresh + 1 ELSE devices[e]
  BY DEF Entry, NewInstance, TypeOK
<1>3. \A i \in Inst : i # fresh + 1 => (Registered(i)' <=> Registered(i))
  <2> SUFFICES ASSUME NEW i \in Inst, i # fresh + 1
               PROVE  Registered(i)' <=> Registered(i)
    OBVIOUS
  <2>1. devices[d] # i
    BY DEF Entry, Inst, NoInst
  <2>. QED BY <1>2, <2>1 DEF Registered
<1>4. \A i \in Inst : i = fresh + 1 => Registered(i)'
  BY <1>1, <1>2 DEF Registered
<1>5. \A i \in Inst : i # fresh + 1 =>
        model'[i] = model[i] /\ status'[i] = status[i] /\ step'[i] = step[i]
  BY <1>1 DEF Entry, NewInstance, TypeOK
<1>6. model'[fresh + 1] = m /\ status'[fresh + 1] = st /\ step'[fresh + 1] = first
  BY <1>1 DEF Entry, NewInstance, TypeOK
<1>. QED BY <1>1, <1>2, <1>3, <1>4, <1>5, <1>6 DEF Entry, noteVars

\* Of the other instances nothing changes; of its own, the port it awaited,
\* and at the end dawPort and the status.
LEMMA SettleFacts ==
    ASSUME TypeOK, NEW i \in Inst, NEW ok \in BOOLEAN, PortSettles(i, ok)
    PROVE  /\ step[i] # 0
           /\ \A j \in Inst : j # i =>
                /\ step'[j] = step[j] /\ daw'[j] = daw[j]
                /\ status'[j] = status[j] /\ ports'[j] = ports[j]
           /\ step[i] # PortsOf[model[i]] =>
                step'[i] = step[i] + 1 /\ daw'[i] = daw[i] /\ status'[i] = status[i]
           /\ step[i] = PortsOf[model[i]] =>
                /\ step'[i] = 0 /\ daw'[i] = DawPort[model[i]]
                /\ status'[i] = IF \E k \in Slots : ports'[i][k] = "open"
                                THEN "ready" ELSE "failed"
           /\ devices' = devices /\ fresh' = fresh /\ model' = model
           /\ pressed' = pressed /\ held' = held /\ sounding' = sounding
           /\ latched' = latched /\ orphaned' = orphaned
<1> USE DEF TypeOK, PortSettles
<1>1. \A j \in Inst : j # i =>
        /\ step'[j] = step[j] /\ daw'[j] = daw[j]
        /\ status'[j] = status[j] /\ ports'[j] = ports[j]
  OBVIOUS
<1>2. step[i] # PortsOf[model[i]] =>
        step'[i] = step[i] + 1 /\ daw'[i] = daw[i] /\ status'[i] = status[i]
  OBVIOUS
<1>3. step[i] = PortsOf[model[i]] => step'[i] = 0 /\ daw'[i] = DawPort[model[i]]
  OBVIOUS
<1>4. step[i] = PortsOf[model[i]] =>
        status'[i] = IF \E k \in Slots : ports'[i][k] = "open" THEN "ready" ELSE "failed"
  OBVIOUS
<1>. QED BY <1>1, <1>2, <1>3, <1>4 DEF noteVars

\* An instance that is not dropped is untouched, one that is has no open port.
LEMMA DropFacts ==
    ASSUME TypeOK, MapInv, NEW ds \in SUBSET Ids, Drop(ds)
    PROVE  /\ \A i \in Inst : Registered(i)' <=>
                Registered(i) /\ i \notin {devices[d] : d \in ds}
           /\ \A i \in Inst, k \in Slots : ports'[i][k] =
                IF i \in {devices[d] : d \in ds} /\ ports[i][k] = "open"
                THEN "closed" ELSE ports[i][k]
           /\ \A i \in Inst : i \in orphaned' <=>
                i \in orphaned \/ (i \in {devices[d] : d \in ds} /\ step[i] # 0)
           /\ Release({devices[d] : d \in ds})
           /\ \A d \in Ids : devices'[d] = IF d \in ds THEN NoInst ELSE devices[d]
           /\ fresh' = fresh /\ model' = model /\ status' = status
           /\ step' = step /\ daw' = daw
<1> DEFINE gone == {devices[d] : d \in ds}
<1>1. \A d \in Ids : devices'[d] = IF d \in ds THEN NoInst ELSE devices[d]
  BY DEF Drop
<1>2. ASSUME NEW i \in Inst PROVE Registered(i)' <=> Registered(i) /\ i \notin gone
  <2>1. i # NoInst
    BY DEF Inst, NoInst
  <2>2. ASSUME NEW d \in Ids, devices'[d] = i
        PROVE  devices[d] = i /\ \A e \in ds : devices[e] # i
    BY <1>1, <2>1, <2>2 DEF MapInv
  <2>. QED BY <1>1, <2>1, <2>2 DEF Registered
<1>3. \A i \in Inst, k \in Slots : ports'[i][k] =
        IF i \in gone /\ ports[i][k] = "open" THEN "closed" ELSE ports[i][k]
  BY DEF Drop, ClosePorts
<1>4. \A i \in Inst : i \in orphaned' <=> i \in orphaned \/ (i \in gone /\ step[i] # 0)
  BY DEF Drop, Inst, NoInst
<1>. QED BY <1>1, <1>2, <1>3, <1>4 DEF Drop, addVars

-----------------------------------------------------------------------------
(* The port half: the invariants of the map, the adds and the ports.       *)

LEMMA MapStep == PortInv /\ [Next]_vars => MapInv'
<1> SUFFICES ASSUME PortInv, [Next]_vars PROVE MapInv'
  OBVIOUS
<1>0. TypeOK /\ MapInv
  BY DEF PortInv
<1>1. ASSUME NEW d \in Ids, NEW m \in Models, NEW st \in {"pending", "failed"},
             NEW first \in {0, 1}, Entry(d, m, st, first)
      PROVE  MapInv'
  <2>1. fresh \in Nat /\ fresh' = fresh + 1 /\ NoInst = 0
    BY <1>0, <1>1, EntryFacts DEF TypeOK, NoInst
  <2>2. \A e \in Ids : devices[e] \in Nat /\ devices[e] <= fresh
    BY <1>0 DEF TypeOK, MapInv, Inst, NoInst
  <2>3. \A e \in Ids : devices'[e] = IF e = d THEN fresh + 1 ELSE devices[e]
    BY <1>0, <1>1, EntryFacts
  <2>. QED BY <1>0, <2>1, <2>2, <2>3 DEF MapInv
<1>2. ASSUME NEW i \in Inst, NEW ok \in BOOLEAN, PortSettles(i, ok) PROVE MapInv'
  BY <1>0, <1>2 DEF PortSettles, MapInv
<1>3. ASSUME NEW ds \in SUBSET Ids, Drop(ds) PROVE MapInv'
  <2>1. fresh \in Nat /\ fresh' = fresh
    BY <1>0, <1>3 DEF Drop, addVars, TypeOK
  <2>2. \A d \in Ids : devices'[d] = IF d \in ds THEN NoInst ELSE devices[d]
    BY <1>0, <1>3, DropFacts
  <2>3. \A d \in Ids : devices'[d] <= fresh'
    BY <1>0, <2>1, <2>2 DEF MapInv, NoInst
  <2>4. \A d, e \in Ids : devices'[d] = devices'[e] /\ devices'[d] # NoInst => d = e
    BY <1>0, <2>2 DEF MapInv
  <2>. QED BY <2>3, <2>4 DEF MapInv, NoInst
<1>4. ASSUME devices' = devices, fresh' = fresh PROVE MapInv'
  BY <1>0, <1>4 DEF MapInv
<1>5. CASE Shapes
  BY <1>1, <1>2, <1>3, <1>4, <1>5 DEF Shapes, PanicAll, addVars, Press, Lift, PlainNote
<1>. QED BY <1>4, <1>5, NextShapes DEF vars, addVars

LEMMA AddStep == PortInv /\ [Next]_vars => UnbornInv' /\ BuildingInv'
<1> SUFFICES ASSUME PortInv, [Next]_vars PROVE UnbornInv' /\ BuildingInv'
  OBVIOUS
<1>0. TypeOK /\ MapInv /\ UnbornInv /\ BuildingInv
  BY DEF PortInv
<1>1. ASSUME NEW d \in Ids, NEW m \in Models, NEW st \in {"pending", "failed"},
             NEW first \in {0, 1}, Entry(d, m, st, first)
      PROVE  UnbornInv' /\ BuildingInv'
  <2> DEFINE new == fresh + 1
  <2>1. new \in Inst /\ fresh \in Nat /\ fresh' = new /\ daw' = daw /\ ports' = ports
        /\ orphaned' = orphaned
    BY <1>0, <1>1, EntryFacts DEF TypeOK
  <2>2. \A i \in Inst : i # new =>
            (Registered(i)' <=> Registered(i)) /\ model'[i] = model[i]
            /\ status'[i] = status[i] /\ step'[i] = step[i]
    BY <1>0, <1>1, EntryFacts
  <2>3. \A i \in Inst : i = new => Registered(i)'
    BY <1>0, <1>1, EntryFacts
  <2>4. model'[new] = m /\ status'[new] = st /\ step'[new] = first
    BY <1>0, <1>1, EntryFacts
  <2>5. daw[new] = 0
    BY <1>0, <2>1 DEF UnbornInv
  <2>6. UnbornInv'
    BY <1>0, <2>1, <2>2 DEF UnbornInv, Inst
  <2>7. first # 0 => st = "pending" /\ first <= PortsOf[m]
    BY <1>1, ModelsAssumption DEF Entry
  <2>8. BuildingInv'
    BY <1>0, <2>1, <2>2, <2>3, <2>4, <2>5, <2>7 DEF BuildingInv
  <2>. QED BY <2>6, <2>8
<1>2. ASSUME NEW i \in Inst, NEW ok \in BOOLEAN, PortSettles(i, ok)
      PROVE  UnbornInv' /\ BuildingInv'
  <2>1. step[i] # 0 /\ step[i] \in Nat /\ PortsOf[model[i]] \in Nat
        /\ step[i] <= PortsOf[model[i]]
    BY <1>0, <1>2, SettleFacts, ModelsAssumption DEF TypeOK, BuildingInv
  <2>2. i <= fresh
    BY <1>0, <2>1 DEF UnbornInv, Inst, TypeOK
  <2>3. UnbornInv'
    BY <1>0, <1>2, <2>2, SettleFacts DEF UnbornInv
  <2>4. \A j \in Inst : Registered(j)' <=> Registered(j)
    BY <1>0, <1>2, SettleFacts DEF Registered
  <2>5. BuildingInv'
    BY <1>0, <1>2, <2>1, <2>4, SettleFacts DEF BuildingInv
  <2>. QED BY <2>3, <2>5
<1>3. ASSUME NEW ds \in SUBSET Ids, Drop(ds) PROVE UnbornInv' /\ BuildingInv'
  <2> DEFINE gone == {devices[d] : d \in ds}
  <2>6. \A i \in Inst, k \in Slots : ports[i][k] = "none" => ports'[i][k] = "none"
    BY <1>3 DEF Drop, ClosePorts
  <2>3. \A i \in Inst : Registered(i)' <=> Registered(i) /\ i \notin gone
    BY <1>0, <1>3, DropFacts
  <2>4. \A i \in Inst : i \in orphaned' <=> i \in orphaned \/ (i \in gone /\ step[i] # 0)
    BY <1>0, <1>3, DropFacts
  <2>5. UNCHANGED addVars
    BY <1>3 DEF Drop
  <2> HIDE DEF gone
  <2>1. UnbornInv'
    BY <1>0, <2>5, <2>6 DEF UnbornInv, addVars
  <2>2. BuildingInv'
    BY <1>0, <2>3, <2>4, <2>5 DEF BuildingInv, addVars
  <2>. QED BY <2>1, <2>2
<1>4. ASSUME UNCHANGED <<devices, addVars, ports, orphaned>>
      PROVE  UnbornInv' /\ BuildingInv'
  BY <1>0, <1>4 DEF addVars, UnbornInv, BuildingInv, Registered
<1>5. CASE Shapes
  BY <1>1, <1>2, <1>3, <1>4, <1>5 DEF Shapes, PanicAll, Press, Lift, PlainNote
<1>. QED BY <1>4, <1>5, NextShapes DEF vars

LEMMA PortStep == PortInv /\ [Next]_vars => OnlyInterruptedAddsLeak' /\ StatusMatchesPorts'
<1> SUFFICES ASSUME PortInv, [Next]_vars
             PROVE  OnlyInterruptedAddsLeak' /\ StatusMatchesPorts'
  OBVIOUS
<1>0. /\ TypeOK /\ MapInv /\ UnbornInv /\ BuildingInv
      /\ OnlyInterruptedAddsLeak /\ StatusMatchesPorts
  BY DEF PortInv
<1>1. ASSUME NEW d \in Ids, NEW m \in Models, NEW st \in {"pending", "failed"},
             NEW first \in {0, 1}, Entry(d, m, st, first)
      PROVE  OnlyInterruptedAddsLeak' /\ StatusMatchesPorts'
  <2> DEFINE new == fresh + 1
  <2>1. new \in Inst /\ fresh \in Nat /\ ports' = ports /\ orphaned' = orphaned
    BY <1>0, <1>1, EntryFacts DEF TypeOK
  <2>2. \A i \in Inst : i # new =>
            (Registered(i)' <=> Registered(i)) /\ status'[i] = status[i]
    BY <1>0, <1>1, EntryFacts
  <2>3. \A k \in Slots : ports[new][k] = "none"
    BY <1>0, <2>1 DEF UnbornInv
  <2>4. status'[new] # "ready"
    BY <1>0, <1>1, EntryFacts
  <2>5. OnlyInterruptedAddsLeak'
    BY <1>0, <2>1, <2>2, <2>3 DEF OnlyInterruptedAddsLeak
  <2>6. StatusMatchesPorts'
    BY <1>0, <2>1, <2>2, <2>3, <2>4 DEF StatusMatchesPorts, RegisteredSet
  <2>. QED BY <2>5, <2>6
<1>2. ASSUME NEW i \in Inst, NEW ok \in BOOLEAN, PortSettles(i, ok)
      PROVE  OnlyInterruptedAddsLeak' /\ StatusMatchesPorts'
  <2>1. step[i] # 0 /\ (Registered(i) \/ i \in orphaned) /\ status[i] = "pending"
    BY <1>0, <1>2, SettleFacts DEF BuildingInv
  <2>2. \A j \in Inst : Registered(j)' <=> Registered(j)
    BY <1>0, <1>2, SettleFacts DEF Registered
  <2>3. orphaned' = orphaned /\ \A j \in Inst : j # i =>
            ports'[j] = ports[j] /\ status'[j] = status[j]
    BY <1>0, <1>2, SettleFacts
  <2>4. \/ status'[i] = "pending"
        \/ status'[i] = IF \E k \in Slots : ports'[i][k] = "open" THEN "ready" ELSE "failed"
    BY <1>0, <1>2, <2>1, SettleFacts
  <2>5. OnlyInterruptedAddsLeak'
    BY <1>0, <2>1, <2>2, <2>3 DEF OnlyInterruptedAddsLeak
  <2>6. StatusMatchesPorts'
    BY <1>0, <2>2, <2>3, <2>4 DEF StatusMatchesPorts, RegisteredSet
  <2>. QED BY <2>5, <2>6
<1>3. ASSUME NEW ds \in SUBSET Ids, Drop(ds)
      PROVE  OnlyInterruptedAddsLeak' /\ StatusMatchesPorts'
  <2> DEFINE gone == {devices[d] : d \in ds}
  <2>1. \A i \in Inst : Registered(i)' <=> Registered(i) /\ i \notin gone
    BY <1>0, <1>3, DropFacts
  <2>2. \A i \in Inst, k \in Slots : ports'[i][k] =
            IF i \in gone /\ ports[i][k] = "open" THEN "closed" ELSE ports[i][k]
    BY <1>0, <1>3, DropFacts
  <2>3. \A i \in Inst : i \in orphaned => i \in orphaned'
    BY <1>0, <1>3, DropFacts
  <2>4. status' = status
    BY <1>3 DEF Drop, addVars
  <2> HIDE DEF gone
  <2>5. OnlyInterruptedAddsLeak'
    BY <1>0, <2>1, <2>2, <2>3 DEF OnlyInterruptedAddsLeak
  <2>6. StatusMatchesPorts'
    BY <1>0, <2>1, <2>2, <2>4 DEF StatusMatchesPorts, RegisteredSet
  <2>. QED BY <2>5, <2>6
<1>4. ASSUME UNCHANGED <<devices, addVars, ports, orphaned>>
      PROVE  OnlyInterruptedAddsLeak' /\ StatusMatchesPorts'
  BY <1>0, <1>4 DEF addVars, OnlyInterruptedAddsLeak, StatusMatchesPorts,
                    RegisteredSet, Registered
<1>5. CASE Shapes
  BY <1>1, <1>2, <1>3, <1>4, <1>5 DEF Shapes, PanicAll, Press, Lift, PlainNote
<1>. QED BY <1>4, <1>5, NextShapes DEF vars

LEMMA PortInvStep == PortInv /\ [Next]_vars => PortInv'
<1>1. PortInv => TypeOK /\ BuildingInv
  BY DEF PortInv
<1>. QED BY <1>1, TypeStep, MapStep, AddStep, PortStep DEF PortInv

-----------------------------------------------------------------------------
(* The note half.                                                          *)

\* Releasing an instance ends all it has sounding: what the DAW has on is in
\* the tracker and has an open port to be ended through.
LEMMA ReleaseFacts ==
    ASSUME TypeOK, NoteInv, NEW gone, Release(gone), daw' = daw, model' = model
    PROVE  /\ \A s \in sounding' : s \in sounding /\ s[1] \notin gone
           /\ \A s \in latched' : s \in latched /\ s[1] \notin gone
           /\ \A i \in Inst : i \notin gone => held'[i] = held[i] /\ pressed'[i] = pressed[i]
           /\ QuietInv' /\ EmulatorAgreesWithTracker'
<1>1. \A s \in sounding' : s \in sounding /\ s[1] \notin gone
  BY DEF Release, NoteInv, SoundingIsTracked
<1>2. \A s \in latched' : s \in latched /\ s[1] \notin gone
  BY DEF Release, NoteInv, LatchedIsPressed
<1>3. \A i \in Inst : i \notin gone => held'[i] = held[i] /\ pressed'[i] = pressed[i]
  BY DEF Release
<1>4. QuietInv'
  BY DEF Release, NoteInv, QuietInv
<1>5. ASSUME NEW i \in Inst, Emulated(i)' PROVE held'[i] = pressed'[i] \cap Notes
  <2>1. Emulated(i) /\ held[i] = pressed[i] \cap Notes /\ daw[i] # 0
    BY <1>5 DEF Emulated, NoteInv, EmulatorAgreesWithTracker
  <2>2. CASE i \in gone
    BY <2>1, <2>2 DEF Release
  <2>3. CASE i \notin gone
    BY <1>3, <2>1, <2>3
  <2>. QED BY <2>2, <2>3
<1>. QED BY <1>1, <1>2, <1>3, <1>4, <1>5 DEF EmulatorAgreesWithTracker

\* A step that leaves the notes alone, and the map and the ports of every
\* instance that has sent some.
LEMMA NotesUntouched ==
    ASSUME TypeOK, NoteInv, UNCHANGED noteVars,
           \A i \in Inst : daw[i] # 0 =>
                /\ daw'[i] = daw[i] /\ model'[i] = model[i] /\ ports'[i] = ports[i]
                /\ Registered(i)' <=> Registered(i)
    PROVE  NoteInv'
<1>1. QuietInv'
  BY DEF QuietInv, NoteInv, noteVars
<1>2. \A s \in sounding : s[1] \in Inst
  BY DEF TypeOK
<1>3. SoundingIsTracked'
  BY <1>2 DEF SoundingIsTracked, NoteInv, noteVars, Carries
<1>4. \A s \in latched : s[1] \in Inst
  BY DEF TypeOK
<1>5. LatchedIsPressed'
  BY <1>4 DEF LatchedIsPressed, NoteInv, noteVars, Carries
<1>6. ASSUME NEW i \in Inst, Emulated(i)' PROVE held'[i] = pressed'[i] \cap Notes
  <2>1. CASE daw[i] = 0
    BY <2>1 DEF NoteInv, QuietInv, noteVars
  <2>2. CASE daw[i] # 0
    BY <1>6, <2>2 DEF NoteInv, EmulatorAgreesWithTracker, Emulated, noteVars
  <2>. QED BY <2>1, <2>2
<1>. QED BY <1>1, <1>3, <1>5, <1>6 DEF NoteInv, EmulatorAgreesWithTracker

LEMMA DropNotes ==
    ASSUME TypeOK, MapInv, NoteInv, NEW ds \in SUBSET Ids, Drop(ds)
    PROVE  NoteInv'
<1> DEFINE gone == {devices[d] : d \in ds}
<1>1. Release(gone) /\ daw' = daw /\ model' = model
  BY DEF Drop, addVars
<1>2. /\ \A s \in sounding' : s \in sounding /\ s[1] \notin gone
      /\ \A s \in latched' : s \in latched /\ s[1] \notin gone
      /\ \A i \in Inst : i \notin gone => held'[i] = held[i] /\ pressed'[i] = pressed[i]
      /\ QuietInv' /\ EmulatorAgreesWithTracker'
  BY <1>1, ReleaseFacts
<1>3. \A i \in Inst : i \notin gone => (Registered(i)' <=> Registered(i))
  BY DropFacts
<1>4. \A i \in Inst, k \in Slots : i \notin gone => ports'[i][k] = ports[i][k]
  BY DEF Drop, ClosePorts
<1> HIDE DEF gone
<1>5. \A i \in Inst : daw[i] # 0 => daw[i] \in Slots
  BY ModelsAssumption DEF TypeOK, Slots
<1>6. \A i \in Inst : i \notin gone /\ Carries(i) => Carries(i)'
  BY <1>1, <1>4, <1>5 DEF Carries
<1>7. SoundingIsTracked'
  BY <1>2, <1>3, <1>6 DEF SoundingIsTracked, NoteInv, TypeOK
<1>8. LatchedIsPressed'
  BY <1>2, <1>3, <1>6 DEF LatchedIsPressed, NoteInv, TypeOK
<1>. QED BY <1>2, <1>7, <1>8 DEF NoteInv

\* An event reaches one instance, whose dawPort is set; ports, map and models
\* stay as they are.
LEMMA EventNotes ==
    ASSUME TypeOK, NoteInv, UNCHANGED <<devices, addVars, ports>>,
           NEW i \in Inst, daw[i] # 0,
           \A j \in Inst : j # i => held'[j] = held[j] /\ pressed'[j] = pressed[j],
           \A s \in sounding' : s \in Inst \X Notes
                /\ (s \in sounding \/ (s[1] = i /\ Registered(i) /\ Carries(i)))
                /\ (s[1] = i => s[2] \in held'[i]),
           \A s \in latched' : s \in Inst \X Switches
                /\ (s \in latched \/ (s[1] = i /\ Registered(i) /\ Carries(i)))
                /\ (s[1] = i => s[2] \in pressed'[i]),
           Emulated(i) => held'[i] = pressed'[i] \cap Notes
    PROVE  NoteInv'
<1>1. \A j \in Inst : /\ Registered(j)' <=> Registered(j)
                      /\ Carries(j)' <=> Carries(j)
                      /\ Emulated(j)' <=> Emulated(j)
  BY DEF Registered, Carries, Emulated, addVars
<1>2. SoundingIsTracked'
  BY <1>1 DEF SoundingIsTracked, NoteInv
<1>3. LatchedIsPressed'
  BY <1>1 DEF LatchedIsPressed, NoteInv
<1>4. QuietInv'
  BY DEF QuietInv, NoteInv, addVars
<1>5. EmulatorAgreesWithTracker'
  BY <1>1 DEF EmulatorAgreesWithTracker, NoteInv
<1>. QED BY <1>2, <1>3, <1>4, <1>5 DEF NoteInv

LEMMA PressNotes ==
    ASSUME TypeOK, NoteInv, NEW d \in Ids, NEW c \in Controls, Press(d, c)
    PROVE  NoteInv'
<1> DEFINE i == devices[d]
<1>1. i \in Inst /\ Emulated(i) /\ daw[i] # 0 /\ Registered(i)
  BY DEF Press, TypeOK, Emulated, Registered
<1>2. UNCHANGED <<devices, addVars, ports>>
  BY DEF Press
<1>3. /\ pressed'[i] = pressed[i] \cup {c}
      /\ held'[i] = IF c \in Notes THEN held[i] \cup {c} ELSE held[i]
      /\ \A j \in Inst : j # i => held'[j] = held[j] /\ pressed'[j] = pressed[j]
  BY <1>1 DEF Press, TypeOK
<1>4. \A s \in sounding' : s \in Inst \X Notes
        /\ (s \in sounding \/ (Carries(i) /\ s = <<i, c>> /\ c \in Notes))
  BY <1>1 DEF Press, Switched, TypeOK
<1>5. \A s \in latched' : s \in Inst \X Switches
        /\ (s \in latched \/ (Carries(i) /\ s = <<i, c>>))
  BY <1>1 DEF Press, Switched, TypeOK
<1>6. held[i] = pressed[i] \cap Notes
  BY <1>1 DEF NoteInv, EmulatorAgreesWithTracker
<1>7. held'[i] = pressed'[i] \cap Notes
  BY <1>3, <1>6
<1> HIDE DEF i
<1>8. \A s \in sounding' : /\ s[1] = i => s[2] \in held'[i]
                           /\ s \in sounding \/ (s[1] = i /\ Registered(i) /\ Carries(i))
  BY <1>1, <1>3, <1>4 DEF NoteInv, SoundingIsTracked
<1>9. \A s \in latched' : /\ s[1] = i => s[2] \in pressed'[i]
                          /\ s \in latched \/ (s[1] = i /\ Registered(i) /\ Carries(i))
  BY <1>1, <1>3, <1>5 DEF NoteInv, LatchedIsPressed
<1>. QED BY <1>1, <1>2, <1>3, <1>4, <1>5, <1>7, <1>8, <1>9, EventNotes

LEMMA LiftNotes ==
    ASSUME TypeOK, NoteInv, NEW d \in Ids, NEW c \in Controls, Lift(d, c)
    PROVE  NoteInv'
<1> DEFINE i == devices[d]
<1>1. i \in Inst /\ Emulated(i) /\ daw[i] # 0
  BY DEF Lift, TypeOK, Emulated
<1>2. UNCHANGED <<devices, addVars, ports>>
  BY DEF Lift
<1>3. /\ pressed'[i] = pressed[i] \ {c} /\ held'[i] = held[i] \ {c}
      /\ \A j \in Inst : j # i => held'[j] = held[j] /\ pressed'[j] = pressed[j]
  BY <1>1 DEF Lift, TypeOK
<1>4. \A s \in sounding' : s \in sounding /\ s \in Inst \X Notes
        /\ (Carries(i) /\ s[1] = i => s[2] # c)
  BY <1>1, ControlsAssumption DEF Lift, Switched, TypeOK
<1>5. \A s \in latched' : s \in latched /\ s \in Inst \X Switches
        /\ (Carries(i) /\ s[1] = i => s[2] # c)
  BY <1>1, ControlsAssumption DEF Lift, Switched, TypeOK
<1>6. held[i] = pressed[i] \cap Notes
  BY <1>1 DEF NoteInv, EmulatorAgreesWithTracker
<1>7. held'[i] = pressed'[i] \cap Notes
  BY <1>3, <1>6
<1> HIDE DEF i
<1>8. \A s \in sounding' : s[1] = i => s[2] \in held'[i]
  BY <1>3, <1>4 DEF NoteInv, SoundingIsTracked
<1>9. \A s \in latched' : s[1] = i => s[2] \in pressed'[i]
  BY <1>3, <1>5 DEF NoteInv, LatchedIsPressed
<1>. QED BY <1>1, <1>2, <1>3, <1>4, <1>5, <1>7, <1>8, <1>9, EventNotes

LEMMA PlainNotes ==
    ASSUME TypeOK, NoteInv, NEW d \in Ids, NEW n \in Notes, NEW on \in BOOLEAN,
           PlainNote(d, n, on)
    PROVE  NoteInv'
<1> DEFINE i == devices[d]
<1>1. i \in Inst /\ ~Emulated(i) /\ daw[i] # 0 /\ Registered(i)
  BY DEF PlainNote, TypeOK, Emulated, Plain, Registered
<1>2. UNCHANGED <<devices, addVars, ports, pressed, latched>>
  BY DEF PlainNote
<1>3. /\ held'[i] = IF on THEN held[i] \cup {n} ELSE held[i] \ {n}
      /\ \A j \in Inst : j # i => held'[j] = held[j]
  BY <1>1 DEF PlainNote, TypeOK
<1>4. \A s \in sounding' : s \in Inst \X Notes
        /\ (s \in sounding \/ (on /\ Carries(i) /\ s = <<i, n>>))
        /\ (~on /\ Carries(i) /\ s[1] = i => s[2] # n)
  BY <1>1 DEF PlainNote, Switched, TypeOK
<1> HIDE DEF i
<1>5. \A s \in sounding' : s[1] = i => s[2] \in held'[i]
  BY <1>3, <1>4 DEF NoteInv, SoundingIsTracked
<1>6. \A s \in latched' : s \in Inst \X Switches /\ s \in latched
        /\ (s[1] = i => s[2] \in pressed'[i])
  BY <1>2 DEF NoteInv, LatchedIsPressed, TypeOK
<1>. QED BY <1>1, <1>2, <1>3, <1>4, <1>5, <1>6, EventNotes

LEMMA NoteInvStep == PortInv /\ NoteInv /\ [Next]_vars => NoteInv'
<1> SUFFICES ASSUME PortInv, NoteInv, [Next]_vars PROVE NoteInv'
  OBVIOUS
<1>0. TypeOK /\ MapInv /\ UnbornInv /\ BuildingInv
  BY DEF PortInv
<1>1. ASSUME NEW d \in Ids, NEW m \in Models, NEW st \in {"pending", "failed"},
             NEW first \in {0, 1}, Entry(d, m, st, first)
      PROVE  NoteInv'
  <2>1. UNCHANGED noteVars /\ daw' = daw /\ ports' = ports
    BY <1>1 DEF Entry
  <2>2. fresh \in Nat /\ fresh + 1 \in Inst /\ daw[fresh + 1] = 0
    BY <1>0, <1>1, EntryFacts DEF UnbornInv, TypeOK
  <2>3. \A i \in Inst : i # fresh + 1 =>
            (Registered(i)' <=> Registered(i)) /\ model'[i] = model[i]
    BY <1>0, <1>1, EntryFacts
  <2>. QED BY <1>0, <2>1, <2>2, <2>3, NotesUntouched
<1>2. ASSUME NEW i \in Inst, NEW ok \in BOOLEAN, PortSettles(i, ok) PROVE NoteInv'
  <2>1. daw[i] = 0
    BY <1>0, <1>2, SettleFacts DEF BuildingInv
  <2>2. \A j \in Inst : j # i => daw'[j] = daw[j] /\ ports'[j] = ports[j]
    BY <1>0, <1>2, SettleFacts
  <2>3. UNCHANGED <<devices, model, noteVars>>
    BY <1>2 DEF PortSettles
  <2>. QED BY <1>0, <2>1, <2>2, <2>3, NotesUntouched DEF Registered
<1>3. ASSUME NEW ds \in SUBSET Ids, Drop(ds) PROVE NoteInv'
  BY <1>0, <1>3, DropNotes
<1>4. CASE PanicAll
  <2>1. Release(RegisteredSet) /\ UNCHANGED <<devices, addVars, ports>>
    BY <1>4 DEF PanicAll
  <2>2. sounding' = {} /\ latched' = {} /\ QuietInv' /\ EmulatorAgreesWithTracker'
    <3>1. \A s \in sounding \cup latched : s[1] \in RegisteredSet
      BY <1>0 DEF NoteInv, SoundingIsTracked, LatchedIsPressed, RegisteredSet, TypeOK
    <3>. QED BY <1>0, <2>1, <3>1, ReleaseFacts DEF addVars
  <2>. QED BY <2>2 DEF NoteInv, SoundingIsTracked, LatchedIsPressed
<1>5. CASE Shapes
  BY <1>0, <1>1, <1>2, <1>3, <1>4, <1>5, PressNotes, LiftNotes, PlainNotes DEF Shapes
<1>6. CASE UNCHANGED vars
  BY <1>0, <1>6, NotesUntouched DEF vars, addVars, Registered
<1>. QED BY <1>5, <1>6, NextShapes

-----------------------------------------------------------------------------

THEOREM InductiveInvariant == Spec => [](PortInv /\ NoteInv)
<1>1. PortInv /\ NoteInv /\ [Next]_vars => (PortInv /\ NoteInv)'
  BY PortInvStep, NoteInvStep
<1>. QED BY <1>1, InitInv, PTL DEF Spec

\* The types of the device manager's state (DeviceManager.ts:66-101).
THEOREM DeviceTypes == Spec => []TypeOK
BY InductiveInvariant, PTL DEF PortInv

\* No interleaving of adds, removals, panics and events strands a voice or a
\* button (DeviceManager.ts:324-438, NoteTracker.ts).
THEOREM NoVoiceIsStranded == Spec => [](SoundingIsTracked /\ LatchedIsPressed)
BY InductiveInvariant, PTL DEF NoteInv

\* The two records of what is held agree (DeviceManager.ts:497-532).
THEOREM TwoRecordsAgree == Spec => []EmulatorAgreesWithTracker
BY InductiveInvariant, PTL DEF NoteInv

\* A published port has a device in the map, or an add() that was overtaken by
\* a removal (DeviceManager.ts:172-340).
THEOREM PortsAreAccountedFor == Spec => []OnlyInterruptedAddsLeak
BY InductiveInvariant, PTL DEF PortInv

\* The status the roster reports fits the ports (DeviceManager.ts:312-320).
THEOREM StatusIsTruthful == Spec => []StatusMatchesPorts
BY InductiveInvariant, PTL DEF PortInv

-----------------------------------------------------------------------------
(* The ceiling: the map counts entries, refused ones too, the bound is on   *)
(* the devices that have ports or are about to.                            *)

Entries == {d \in Ids : devices[d] # NoInst}

\* Each instance of the map has an entry of its own.
LEMMA RegisteredAreCounted ==
    ASSUME TypeOK
    PROVE  /\ IsFiniteSet(RegisteredSet) /\ IsFiniteSet(Entries)
           /\ Cardinality(RegisteredSet) \in Nat /\ Cardinality(Entries) \in Nat
           /\ Cardinality(RegisteredSet) <= Cardinality(Entries)
<1>1. IsFiniteSet(Entries)
  BY IdsAssumption, FS_Subset DEF Entries
<1> DEFINE f == [d \in Entries |-> devices[d]]
<1>2. f \in Surjection(Entries, RegisteredSet)
  <2>1. \A d \in Entries : devices[d] \in RegisteredSet
    BY DEF TypeOK, Entries, RegisteredSet, Registered
  <2>2. \A i \in RegisteredSet : \E d \in Entries : devices[d] = i
    BY DEF RegisteredSet, Registered, Entries, Inst, NoInst
  <2>. QED BY <2>1, <2>2 DEF Surjection
<1>3. /\ IsFiniteSet(RegisteredSet)
      /\ Cardinality(RegisteredSet) <= Cardinality(Entries)
  BY <1>1, <1>2, FS_Surjection
<1>. QED BY <1>1, <1>3, FS_CardinalityType

LEMMA ActiveIsCounted ==
    ASSUME TypeOK
    PROVE  IsFiniteSet(Active) /\ Cardinality(Active) \in Nat
BY RegisteredAreCounted, FS_Subset, FS_CardinalityType DEF Active

\* An add() below the ceiling makes room for one more; nothing else makes an
\* instance active that was not.
LEMMA ActiveStep ==
    ASSUME PortInv, Next
    PROVE  \/ Active' \subseteq Active
           \/ ~AtLimit /\ \E i : Active' \subseteq RegisteredSet \cup {i}
<1>0. TypeOK /\ MapInv /\ UnbornInv
  BY DEF PortInv
<1>1. ASSUME NEW d \in Ids, NEW m \in Models, NEW st \in {"pending", "failed"},
             NEW first \in {0, 1}, Entry(d, m, st, first)
      PROVE  /\ Active' \subseteq RegisteredSet \cup {fresh + 1}
             /\ first = 0 => Active' \subseteq Active
  <2>1. ports' = ports /\ step'[fresh + 1] = first /\ fresh + 1 \in Inst /\ fresh \in Nat
    BY <1>0, <1>1, EntryFacts DEF TypeOK
  <2>2. \A i \in Inst : i # fresh + 1 =>
            (Registered(i)' <=> Registered(i)) /\ step'[i] = step[i]
    BY <1>0, <1>1, EntryFacts
  <2>3. \A k \in Slots : ports[fresh + 1][k] = "none"
    BY <1>0, <2>1 DEF UnbornInv
  <2>. QED BY <2>1, <2>2, <2>3 DEF Active, RegisteredSet
<1>2. ASSUME NEW d \in Ids, NEW m \in Models, AddRefused(d, m)
      PROVE  Active' \subseteq Active
  BY <1>1, <1>2 DEF AddRefused, Entry
<1>3. ASSUME NEW d \in Ids, NEW m \in Models, AddBegins(d, m)
      PROVE  ~AtLimit /\ \E i : Active' \subseteq RegisteredSet \cup {i}
  <2>1. Entry(d, m, "pending", 1)
    BY <1>3 DEF AddBegins, Entry
  <2>. QED BY <1>1, <1>3, <2>1 DEF AddBegins
<1>4. ASSUME NEW i \in Inst, NEW ok \in BOOLEAN, PortSettles(i, ok)
      PROVE  Active' \subseteq Active
  <2>1. /\ step[i] # 0 /\ devices' = devices
        /\ \A j \in Inst : j # i => step'[j] = step[j] /\ ports'[j] = ports[j]
    BY <1>0, <1>4, SettleFacts
  <2>. QED BY <2>1 DEF Active, RegisteredSet, Registered
<1>5. ASSUME NEW ds \in SUBSET Ids, Drop(ds) PROVE Active' \subseteq Active
  <2>1. \A i \in Inst : Registered(i)' => Registered(i)
    BY <1>0, <1>5, DropFacts
  <2>2. \A i \in Inst, k \in Slots : ports[i][k] = "none" => ports'[i][k] = "none"
    BY <1>5 DEF Drop, ClosePorts
  <2>3. step' = step
    BY <1>0, <1>5, DropFacts
  <2>. QED BY <2>1, <2>2, <2>3 DEF Active, RegisteredSet
<1>6. ASSUME UNCHANGED <<devices, addVars, ports, orphaned>> PROVE Active' \subseteq Active
  BY <1>6 DEF addVars, Active, RegisteredSet, Registered
<1>7. ASSUME NEW d \in Ids, Remove(d) PROVE Active' \subseteq Active
  <2>1. Drop({d}) /\ {d} \in SUBSET Ids
    BY <1>7 DEF Remove
  <2>. QED BY <1>5, <2>1
<1>8. ASSUME RemoveAll PROVE Active' \subseteq Active
  BY <1>5, <1>8 DEF RemoveAll
<1>9. ASSUME NEW d \in Ids, Event(d) PROVE Active' \subseteq Active
  BY <1>6, <1>9 DEF Event, Press, Lift, PlainNote
<1>10. ASSUME PanicAll PROVE Active' \subseteq Active
  BY <1>6, <1>10 DEF PanicAll
<1>. QED BY <1>2, <1>3, <1>4, <1>7, <1>8, <1>9, <1>10 DEF Next, Settle

LEMMA CeilingStep == PortInv /\ ActiveWithinLimit /\ [Next]_vars => ActiveWithinLimit'
<1> SUFFICES ASSUME PortInv, ActiveWithinLimit, [Next]_vars PROVE ActiveWithinLimit'
  OBVIOUS
<1>0. TypeOK /\ Limit \in Nat
  BY BoundsAssumption DEF PortInv
<1>1. CASE Active' \subseteq Active
  <2>1. Cardinality(Active') <= Cardinality(Active) /\ Cardinality(Active') \in Nat
    BY <1>0, <1>1, ActiveIsCounted, FS_Subset, FS_CardinalityType
  <2>2. Cardinality(Active) <= Limit /\ Cardinality(Active) \in Nat
    BY <1>0, ActiveIsCounted DEF ActiveWithinLimit
  <2>3. Cardinality(Active') <= Limit
    BY <1>0, <2>1, <2>2
  <2>. QED BY <2>3 DEF ActiveWithinLimit
<1>2. ASSUME ~AtLimit, NEW i, Active' \subseteq RegisteredSet \cup {i}
      PROVE  ActiveWithinLimit'
  <2> DEFINE more == RegisteredSet \cup {i}
  <2>1. Cardinality(Entries) \in Nat /\ ~(Cardinality(Entries) >= Limit)
    BY <1>0, <1>2, RegisteredAreCounted DEF AtLimit, Entries
  <2>2. /\ IsFiniteSet(RegisteredSet) /\ Cardinality(RegisteredSet) \in Nat
        /\ Cardinality(RegisteredSet) <= Cardinality(Entries)
    BY <1>0, RegisteredAreCounted
  <2>3. IsFiniteSet(more) /\ Cardinality(more) <= Cardinality(RegisteredSet) + 1
        /\ Cardinality(more) \in Nat
    <3>1. /\ IsFiniteSet(more)
          /\ Cardinality(more) = IF i \in RegisteredSet THEN Cardinality(RegisteredSet)
                                ELSE Cardinality(RegisteredSet) + 1
      BY <2>2, FS_AddElement
    <3>. QED BY <2>2, <3>1
  <2>4. Cardinality(Active') <= Cardinality(more) /\ Cardinality(Active') \in Nat
    BY <1>2, <2>3, FS_Subset, FS_CardinalityType
  <2> HIDE DEF more
  <2>5. Cardinality(Active') <= Limit
    BY <1>0, <2>1, <2>2, <2>3, <2>4
  <2>. QED BY <2>5 DEF ActiveWithinLimit
<1>3. CASE UNCHANGED vars
  BY <1>1, <1>3 DEF vars, addVars, Active, RegisteredSet, Registered
<1>. QED BY <1>1, <1>2, <1>3, ActiveStep

\* However adds, refusals and removals interleave, no more than the allowed
\* number of devices of the map hold or open ports (DeviceManager.ts:175-184).
THEOREM Ceiling == Spec => []ActiveWithinLimit
<1>1. Init => ActiveWithinLimit
  <2> SUFFICES ASSUME Init PROVE ActiveWithinLimit
    OBVIOUS
  <2>1. Active = {}
    BY DEF Init, Active, RegisteredSet, Registered, Inst, NoInst
  <2>2. Cardinality(Active) <= Limit
    BY <2>1, FS_EmptySet, BoundsAssumption
  <2>. QED BY <2>2 DEF ActiveWithinLimit
<1>. QED BY <1>1, CeilingStep, InductiveInvariant, PTL DEF Spec

-----------------------------------------------------------------------------
(* The bridge: its invariant.                                              *)

\* The session's devices are opened only for a gate that stands open, and
\* with somebody connected it does, unless it closed under them.
GateInv ==
    /\ stage \in Nat
    /\ stage # 0 => opening
    /\ awaited # NoInst => stage # 0
    /\ timer => ~opening
    /\ opening => opened \/ disposed
    /\ clients # {} => opened \/ evicted \/ disposed

-----------------------------------------------------------------------------
(* The manager inside the bridge.                                          *)

LEMMA SessionDevice ==
    ASSUME stage \in Nat, stage # 0, stage <= Len(Session)
    PROVE  Session[stage][1] \in Ids /\ Session[stage][2] \in Models
BY SessionAssumption

LEMMA ManagerStep == GateInv /\ [BridgeNext]_bridgeVars => [Next]_vars
<1> SUFFICES ASSUME GateInv, [BridgeNext]_bridgeVars PROVE [Next]_vars
  OBVIOUS
<1>1. ASSUME SessionAdds PROVE Next \/ UNCHANGED vars
  <2>1. Session[stage][1] \in Ids /\ Session[stage][2] \in Models
    BY <1>1, SessionDevice DEF SessionAdds, Due, GateInv
  <2>. QED BY <1>1, <2>1 DEF SessionAdds, Next, managerVars
<1>2. ASSUME NEW i \in Inst, Settles(i) PROVE Next
  BY <1>2 DEF Settles, SettlePort, Next, Settle
<1>3. ASSUME Expire PROVE Next \/ UNCHANGED vars
  BY <1>3 DEF Expire, Next, managerVars
<1>4. ASSUME NEW d \in Ids, NEW m \in Models, DeviceAdd(d, m) PROVE Next
  BY <1>4 DEF DeviceAdd, Next
<1>5. ASSUME NEW d \in Ids, DeviceRemove(d) \/ Play(d) PROVE Next
  BY <1>5 DEF DeviceRemove, Play, Next
<1>6. ASSUME NEW c \in Clients, Connect(c) \/ Leave(c) PROVE Next \/ UNCHANGED vars
  BY <1>6 DEF Connect, Leave, Next, managerVars
<1>7. ASSUME PeerGivesUp \/ Panic \/ Shutdown PROVE Next
  BY <1>7 DEF PeerGivesUp, Panic, Shutdown, Next
<1>8. ASSUME SessionOpened \/ Hello PROVE UNCHANGED vars
  BY <1>8 DEF SessionOpened, Hello, managerVars
<1>9. CASE UNCHANGED bridgeVars
  BY <1>9 DEF bridgeVars, managerVars
<1>. QED BY <1>1, <1>2, <1>3, <1>4, <1>5, <1>6, <1>7, <1>8, <1>9 DEF BridgeNext

-----------------------------------------------------------------------------
(* The gate inside the bridge.                                             *)

\* Being told a count never closes the gate, opens it if somebody is there,
\* and starts the session's opening exactly when the gate starts to open.
LEMMA UpdateFacts ==
    ASSUME GateInv, ~disposed, NEW now, Gate!Update(now), Notified
    PROVE  /\ opened => opened'
           /\ now # {} => opened'
           /\ opened' \/ (evicted' = evicted)
           /\ stage' \in Nat
           /\ stage' # 0 => opening'
           /\ awaited' # NoInst => stage' # 0
           /\ timer' => ~opening'
           /\ opening' => opened' \/ disposed'
           /\ disposed' = disposed
<1>1. CASE now # {}
  <2>1. Gate!Arrive
    BY <1>1 DEF Gate!Update
  <2>2. CASE Gate!MustOpen
    BY <2>1, <2>2 DEF GateInv, Gate!Arrive, Gate!MustOpen, Notified
  <2>3. CASE ~Gate!MustOpen
    BY <2>1, <2>3 DEF GateInv, Gate!Arrive, Gate!MustOpen, Notified
  <2>. QED BY <2>2, <2>3
<1>2. CASE now = {}
  BY <1>2 DEF GateInv, Gate!Update, Gate!Depart, Notified
<1>. QED BY <1>1, <1>2

LEMMA GateStep == GateInv /\ [BridgeNext]_bridgeVars => GateInv'
<1> SUFFICES ASSUME GateInv, [BridgeNext]_bridgeVars PROVE GateInv'
  OBVIOUS
<1>1. ASSUME NEW now, Gate!Update(now), Notified, clients' = now, Idle PROVE GateInv'
  BY <1>1, UpdateFacts DEF GateInv, Idle
<1>2. ASSUME UNCHANGED <<gateVars, evicted>>, stage # 0, stage' \in {stage, stage + 1}
      PROVE  GateInv'
  BY <1>2 DEF GateInv, gateVars
<1>10. CASE SessionAdds
  <2>1. UNCHANGED <<gateVars, evicted>> /\ stage # 0 /\ stage' \in {stage, stage + 1}
    BY <1>10 DEF SessionAdds, Due
  <2>. QED BY <1>2, <2>1
<1>3. CASE SessionOpened
  BY <1>3 DEF SessionOpened, Gate!OpenSucceeds, GateInv, Due
<1>4. ASSUME NEW i \in Inst, Settles(i) PROVE GateInv'
  <2>1. UNCHANGED <<gateVars, evicted>>
    BY <1>4 DEF Settles, SettlePort
  <2>2. i # NoInst
    BY DEF Inst, NoInst
  <2>3. CASE UNCHANGED sessionVars
    BY <2>1, <2>3 DEF GateInv, gateVars, sessionVars
  <2>4. CASE i = awaited /\ stage' = stage + 1
    BY <1>2, <2>1, <2>2, <2>4 DEF GateInv
  <2>. QED BY <1>4, <2>3, <2>4 DEF Settles, SettlePort
<1>5. CASE Expire
  BY <1>5 DEF Expire, Gate!Expire, Gate!GraceExpires, GateInv, sessionVars
<1>6. CASE Shutdown
  BY <1>6 DEF Shutdown, Gate!Shutdown, Gate!Dispose, GateInv, sessionVars
<1>7. ASSUME UNCHANGED <<gateVars, sessionVars, evicted>> PROVE GateInv'
  BY <1>7 DEF GateInv, gateVars, sessionVars
<1>8. ASSUME NEW c \in Clients, Connect(c) \/ Leave(c) PROVE GateInv'
  BY <1>1, <1>8 DEF Connect, Leave, Gate!ClientConnects, Gate!ClientLeaves
<1>9. CASE PeerGivesUp
  BY <1>1, <1>9 DEF PeerGivesUp, Gate!Renotify
<1>. QED
  BY <1>3, <1>4, <1>5, <1>6, <1>7, <1>8, <1>9, <1>10
  DEF BridgeNext, DeviceAdd, DeviceRemove, Play, Panic, Hello, bridgeVars

-----------------------------------------------------------------------------
(* Silence.                                                                *)

LEMMA PanicSilences ==
    ASSUME TypeOK, NoteInv, PanicAll
    PROVE  sounding' = {} /\ latched' = {}
<1>1. Release(RegisteredSet) /\ daw' = daw /\ model' = model
  BY DEF PanicAll, addVars
<1>2. \A s \in sounding \cup latched : s[1] \in RegisteredSet
  BY DEF NoteInv, SoundingIsTracked, LatchedIsPressed, RegisteredSet, TypeOK
<1>. QED BY <1>1, <1>2, ReleaseFacts

LEMMA DropQuietens ==
    ASSUME NEW ds, Drop(ds)
    PROVE  sounding' \subseteq sounding /\ latched' \subseteq latched
BY DEF Drop, Release

LEMMA RemoveAllSilences ==
    ASSUME TypeOK, NoteInv, RemoveAll
    PROVE  sounding' = {} /\ latched' = {} /\ RegisteredSet' = {}
<1> DEFINE all == {d \in Ids : devices[d] # NoInst}
           gone == {devices[d] : d \in all}
<1>1. Drop(all)
  BY DEF RemoveAll
<1>2. Release(gone) /\ daw' = daw /\ model' = model
  BY <1>1 DEF Drop, addVars
<1>3. \A s \in sounding \cup latched : s[1] \in gone
  <2>1. \A s \in sounding \cup latched : Registered(s[1]) /\ s[1] # NoInst
    BY DEF NoteInv, SoundingIsTracked, LatchedIsPressed, TypeOK, Inst, NoInst
  <2>. QED BY <2>1 DEF Registered
<1>4. \A d \in Ids : devices'[d] = NoInst
  BY <1>1 DEF Drop
<1>5. RegisteredSet' = {}
  BY <1>4 DEF RegisteredSet, Registered, Inst, NoInst
<1> HIDE DEF gone
<1>. QED BY <1>2, <1>3, <1>5, ReleaseFacts

LEMMA SilentStep ==
    PortInv /\ NoteInv /\ SilentWhenAlone /\ [BridgeNext]_bridgeVars => SilentWhenAlone'
<1> SUFFICES ASSUME PortInv, NoteInv, SilentWhenAlone, [BridgeNext]_bridgeVars, ~UdpEnabled
             PROVE  clients' = {} => sounding' = {} /\ latched' = {}
  BY DEF SilentWhenAlone
<1>0. TypeOK
  BY DEF PortInv
<1>1. ASSUME PanicAll PROVE sounding' = {} /\ latched' = {}
  BY <1>0, <1>1, PanicSilences
<1>2. ASSUME RemoveAll PROVE sounding' = {} /\ latched' = {}
  BY <1>0, <1>2, RemoveAllSilences
<1>3. ASSUME UNCHANGED <<clients, noteVars>>
      PROVE  clients' = {} => sounding' = {} /\ latched' = {}
  BY <1>3 DEF SilentWhenAlone, noteVars
<1>4. ASSUME NEW c \in Clients, Connect(c) PROVE clients' # {}
  BY <1>4 DEF Connect, Gate!ClientConnects
<1>5. ASSUME NEW c \in Clients, Leave(c) PROVE PanicAll
  BY <1>5 DEF Leave
<1>6. CASE SessionAdds
  BY <1>3, <1>6 DEF SessionAdds, AddRefused, AddBegins, gateVars, managerVars, vars
<1>7. CASE SessionOpened
  BY <1>3, <1>7 DEF SessionOpened, managerVars, vars
<1>8. ASSUME NEW i \in Inst, Settles(i) PROVE UNCHANGED <<clients, noteVars>>
  BY <1>8 DEF Settles, SettlePort, PortSettles, gateVars
<1>9. CASE Expire
  BY <1>2, <1>3, <1>9 DEF Expire, Gate!Expire, managerVars, vars
<1>10. ASSUME NEW d \in Ids, NEW m \in Models, DeviceAdd(d, m)
       PROVE  UNCHANGED <<clients, noteVars>>
  BY <1>10 DEF DeviceAdd, AddRefused, AddBegins, gateVars
<1>11. ASSUME NEW d \in Ids, DeviceRemove(d) \/ Play(d) PROVE clients' # {}
  BY <1>11 DEF DeviceRemove, Play, Reachable, gateVars
<1>12. CASE PeerGivesUp \/ Panic
  BY <1>1, <1>12 DEF PeerGivesUp, Panic
<1>13. CASE Hello
  BY <1>3, <1>13 DEF Hello, gateVars, managerVars, vars
<1>14. CASE Shutdown
  BY <1>1, <1>2, <1>14 DEF Shutdown
<1>15. CASE UNCHANGED bridgeVars
  BY <1>3, <1>15 DEF bridgeVars, gateVars, managerVars, vars
<1>. QED
  BY <1>1, <1>3, <1>4, <1>5, <1>6, <1>7, <1>8, <1>9, <1>10, <1>11, <1>12, <1>13, <1>14, <1>15
  DEF BridgeNext

-----------------------------------------------------------------------------
(* Every device is within the gate's reach.                                *)

LEMMA CoverStep ==
    PortInv /\ NoteInv /\ GateInv /\ GateCoversDevices /\ [BridgeNext]_bridgeVars
        => GateCoversDevices'
<1> DEFINE Covered == opened \/ evicted \/ disposed \/ UdpEnabled
<1> SUFFICES ASSUME PortInv, NoteInv, GateInv, GateCoversDevices, [BridgeNext]_bridgeVars,
                    RegisteredSet' # {}
             PROVE  Covered'
  BY DEF GateCoversDevices
<1>0. TypeOK
  BY DEF PortInv
<1>1. ASSUME devices' = devices PROVE Covered
  BY <1>1 DEF GateCoversDevices, RegisteredSet, Registered
<1>2. ASSUME Covered, UNCHANGED <<gateVars, evicted>> PROVE Covered'
  BY <1>2 DEF gateVars
<1>3. ASSUME NEW now, Gate!Update(now), Notified, Idle, devices' = devices PROVE Covered'
  BY <1>1, <1>3, UpdateFacts DEF Idle
<1>4. ASSUME NEW c \in Clients, Connect(c) \/ Leave(c) PROVE Covered'
  <2>1. devices' = devices /\ Idle /\ Notified /\ Gate!Update(clients')
    BY <1>4 DEF Connect, Leave, Gate!ClientConnects, Gate!ClientLeaves, PanicAll,
                managerVars, vars
  <2>. QED BY <1>3, <2>1
<1>5. CASE PeerGivesUp
  <2>1. devices' = devices /\ Idle /\ Notified /\ Gate!Update(clients)
    BY <1>5 DEF PeerGivesUp, Gate!Renotify, PanicAll
  <2>. QED BY <1>3, <2>1
<1>6. CASE SessionAdds
  BY <1>2, <1>6 DEF SessionAdds, Due, GateInv
<1>7. CASE SessionOpened
  BY <1>1, <1>7 DEF SessionOpened, Gate!OpenSucceeds, managerVars, vars
<1>8. ASSUME NEW i \in Inst, Settles(i) PROVE Covered'
  BY <1>1, <1>2, <1>8 DEF Settles, SettlePort, PortSettles
<1>9. CASE Expire
  <2>1. ~opened
    BY <1>0, <1>9, RemoveAllSilences DEF Expire
  <2>2. Covered /\ UNCHANGED <<evicted, disposed>>
    BY <1>1, <1>9, <2>1 DEF Expire, Gate!Expire, Gate!GraceExpires, managerVars, vars
  <2>. QED BY <2>1, <2>2
<1>10. ASSUME NEW d \in Ids, NEW m \in Models, DeviceAdd(d, m) \/ DeviceRemove(d) \/ Play(d)
       PROVE  Covered'
  <2>1. Reachable /\ UNCHANGED <<gateVars, evicted>>
    BY <1>10 DEF DeviceAdd, DeviceRemove, Play
  <2>2. Covered
    BY <2>1 DEF Reachable, GateInv
  <2>. QED BY <1>2, <2>1, <2>2
<1>11. CASE Panic
  BY <1>1, <1>2, <1>11 DEF Panic, PanicAll
<1>12. CASE Hello
  BY <1>1, <1>2, <1>12 DEF Hello, managerVars, vars
<1>13. CASE Shutdown
  BY <1>13 DEF Shutdown, Gate!Shutdown, Gate!Dispose
<1>14. CASE UNCHANGED bridgeVars
  BY <1>1, <1>2, <1>14 DEF bridgeVars, managerVars, vars
<1>. QED
  BY <1>4, <1>5, <1>6, <1>7, <1>8, <1>9, <1>10, <1>11, <1>12, <1>13, <1>14, ModelsAssumption
  DEF BridgeNext

-----------------------------------------------------------------------------
(* The roster.                                                             *)

\* Who is not connected has been sent nothing: whoever comes starts anew.
RosterInv ==
    /\ clients \subseteq Clients
    /\ seen \in [Clients -> Rosters]
    /\ \A c \in Clients \ clients : seen[c] = Unseen
    /\ RosterIsCurrent

\* Everyone who is connected is told the roster as it now is.
LEMMA TellRoster ==
    ASSUME clients' \subseteq Clients, Roster' \in Rosters, Tell
    PROVE  RosterInv'
BY DEF RosterInv, RosterIsCurrent, Tell, Unseen, Rosters

\* What is told when the count of clients changes: nothing only while an open
\* is in flight, which ends with everybody told, or to nobody.
LEMMA NotifiedRoster ==
    ASSUME RosterInv, clients' \subseteq Clients, Roster' = Roster, Roster' \in Rosters,
           opening => opening', Notified
    PROVE  RosterInv'
<1>1. CASE clients' # {} /\ ~opening'
  BY <1>1, TellRoster DEF Notified
<1>2. CASE ~(clients' # {} /\ ~opening')
  <2>1. seen' = [c \in Clients |-> IF c \in clients' THEN seen[c] ELSE Unseen]
    BY <1>2 DEF Notified
  <2>2. seen' \in [Clients -> Rosters]
    BY <2>1 DEF RosterInv, Rosters
  <2>3. ASSUME NEW c \in clients'
        PROVE  seen'[c] = Roster' \/ (seen'[c] = Unseen /\ opening')
    <3>1. opening' /\ seen'[c] = seen[c]
      BY <1>2, <2>1, <2>3
    <3>2. seen[c] = Roster \/ seen[c] = Unseen
      BY <2>3 DEF RosterInv, RosterIsCurrent
    <3>. QED BY <3>1, <3>2
  <2>4. \A c \in Clients \ clients' : seen'[c] = Unseen
    BY <2>1
  <2>5. Unseen' = Unseen
    BY DEF Unseen
  <2>6. RosterIsCurrent'
    BY <2>3, <2>5 DEF RosterIsCurrent
  <2>. QED BY <2>2, <2>4, <2>5, <2>6 DEF RosterInv, Rosters
<1>. QED BY <1>1, <1>2

LEMMA RosterStep ==
    PortInv /\ PortInv' /\ RosterInv /\ [BridgeNext]_bridgeVars => RosterInv'
<1> SUFFICES ASSUME TypeOK, TypeOK', BuildingInv, RosterInv, [BridgeNext]_bridgeVars PROVE RosterInv'
  BY DEF PortInv
<1>0. Roster' \in Rosters /\ clients \subseteq Clients
  <2>1. \A d \in Ids : devices'[d] # NoInst => status'[devices'[d]] \in {"pending", "ready", "failed"}
    BY DEF TypeOK
  <2>. QED BY <2>1 DEF RosterInv, Roster, Rosters
<1>1. ASSUME devices' = devices, status' = status PROVE Roster' = Roster
  BY <1>1 DEF Roster
<1>2. ASSUME UNCHANGED <<clients, opening, seen>>, Roster' = Roster PROVE RosterInv'
  BY <1>2 DEF RosterInv, RosterIsCurrent, Unseen, Rosters
<1>3. ASSUME Tell, clients' = clients PROVE RosterInv'
  BY <1>0, <1>3, TellRoster
<1>4. ASSUME NEW c \in Clients, Connect(c) \/ Leave(c) PROVE RosterInv'
  <2>1. clients' \subseteq Clients /\ (opening => opening') /\ Notified
    BY <1>0, <1>4 DEF Connect, Leave, Gate!ClientConnects, Gate!ClientLeaves,
                      Gate!Update, Gate!Arrive, Gate!Depart
  <2>2. Roster' = Roster
    BY <1>1, <1>4 DEF Connect, Leave, PanicAll, managerVars, vars, addVars
  <2>. QED BY <1>0, <2>1, <2>2, NotifiedRoster
<1>5. CASE PeerGivesUp
  <2>1. clients' = clients /\ (opening => opening') /\ Notified
    BY <1>5 DEF PeerGivesUp, Gate!Renotify, Gate!Update, Gate!Arrive, Gate!Depart
  <2>2. Roster' = Roster
    BY <1>1, <1>5 DEF PeerGivesUp, PanicAll, addVars
  <2>. QED BY <1>0, <2>1, <2>2, NotifiedRoster
<1>6. CASE SessionAdds
  BY <1>1, <1>2, <1>3, <1>6 DEF SessionAdds, gateVars, managerVars, vars, addVars
<1>7. CASE SessionOpened
  <2>1. CASE clients # {}
    BY <1>3, <1>7, <2>1 DEF SessionOpened
  <2>2. CASE clients = {}
    <3>1. seen' = seen /\ clients' = {}
      BY <1>7, <2>2 DEF SessionOpened
    <3>. QED BY <2>2, <3>1 DEF RosterInv, RosterIsCurrent, Unseen, Rosters
  <2>. QED BY <2>1, <2>2
<1>8. ASSUME NEW i \in Inst, Settles(i) PROVE RosterInv'
  <2> PICK ok \in BOOLEAN : SettlePort(i, ok)
    BY <1>8 DEF Settles
  <2>1. UNCHANGED gateVars /\ PortSettles(i, ok)
    BY DEF SettlePort
  <2>2. CASE step'[i] = 0
    BY <1>3, <2>1, <2>2 DEF SettlePort, gateVars
  <2>3. CASE step'[i] # 0
    <3>1. \A j \in Inst : status'[j] = status[j]
      BY <2>1, <2>3, SettleFacts
    <3>2. devices' = devices /\ status' = status
      BY <2>1, <3>1 DEF PortSettles, TypeOK
    <3>. QED BY <1>1, <1>2, <2>1, <2>3, <3>2 DEF SettlePort, gateVars
  <2>. QED BY <2>2, <2>3
<1>9. CASE Expire
  <2>1. clients' = clients /\ opening' = opening
    BY <1>9 DEF Expire, Gate!Expire, Gate!GraceExpires
  <2>2. CASE opened
    BY <1>3, <1>9, <2>1, <2>2 DEF Expire
  <2>3. CASE ~opened
    BY <1>1, <1>2, <1>9, <2>1, <2>3 DEF Expire, managerVars, vars, addVars
  <2>. QED BY <2>2, <2>3
<1>10. ASSUME NEW d \in Ids, NEW m \in Models, DeviceAdd(d, m) \/ DeviceRemove(d) PROVE RosterInv'
  BY <1>3, <1>10 DEF DeviceAdd, DeviceRemove, gateVars
<1>11. ASSUME NEW d \in Ids, Play(d) PROVE RosterInv'
  <2>1. UNCHANGED <<clients, opening, seen>> /\ Event(d)
    BY <1>11 DEF Play, gateVars
  <2>. QED BY <1>1, <1>2, <2>1 DEF Event, Press, Lift, PlainNote, addVars
<1>12. CASE Panic
  BY <1>1, <1>2, <1>12 DEF Panic, PanicAll, gateVars, addVars
<1>13. CASE Hello
  BY <1>3, <1>13 DEF Hello, gateVars
<1>14. CASE Shutdown
  <2>1. clients' = {} /\ seen' = [c \in Clients |-> Unseen]
    BY <1>14 DEF Shutdown, Gate!Shutdown
  <2>. QED BY <2>1 DEF RosterInv, RosterIsCurrent, Unseen, Rosters
<1>15. CASE UNCHANGED bridgeVars
  BY <1>1, <1>2, <1>15 DEF bridgeVars, gateVars, managerVars, vars, addVars
<1>. QED
  BY <1>4, <1>5, <1>6, <1>7, <1>8, <1>9, <1>10, <1>11, <1>12, <1>13, <1>14, <1>15, ModelsAssumption
  DEF BridgeNext

-----------------------------------------------------------------------------

BridgeInv == PortInv /\ NoteInv /\ GateInv /\ SilentWhenAlone /\ GateCoversDevices /\ RosterInv

THEOREM BridgeInvariant == BridgeSpec => []BridgeInv
<1>1. BridgeInit => BridgeInv
  <2> SUFFICES ASSUME BridgeInit PROVE BridgeInv
    OBVIOUS
  <2>1. PortInv /\ NoteInv
    BY InitInv DEF BridgeInit
  <2>2. GateInv
    BY DEF BridgeInit, Gate!Init, GateInv
  <2>3. SilentWhenAlone
    BY DEF BridgeInit, Init, SilentWhenAlone
  <2>4. RegisteredSet = {}
    BY DEF BridgeInit, Init, RegisteredSet, Registered, Inst, NoInst
  <2>5. RosterInv
    BY DEF BridgeInit, Gate!Init, RosterInv, RosterIsCurrent, Rosters
  <2>. QED BY <2>1, <2>2, <2>3, <2>4, <2>5 DEF BridgeInv, GateCoversDevices
<1>2. BridgeInv /\ [BridgeNext]_bridgeVars => BridgeInv'
  BY ManagerStep, PortInvStep, NoteInvStep, GateStep, SilentStep, CoverStep, RosterStep DEF BridgeInv
<1>. QED BY <1>1, <1>2, PTL DEF BridgeSpec

\* Nothing sounds and no button is down in the DAW while nobody is connected,
\* with UDP off (index.ts:324-328, WsServer.ts:143-154, RtcTransport.ts:266-288).
THEOREM Silence == BridgeSpec => []SilentWhenAlone
BY BridgeInvariant, PTL DEF BridgeInv

\* The gate will close every device there is, unless it has closed under a
\* client already (index.ts:300-328, Router.ts:126-148).
THEOREM Cover == BridgeSpec => []GateCoversDevices
BY BridgeInvariant, PTL DEF BridgeInv

\* What a client was last told is what there is, or it is told when the open
\* that is in flight ends (index.ts:315-357, DeviceManager.ts:172-340).
THEOREM RosterTold == BridgeSpec => []RosterIsCurrent
BY BridgeInvariant, PTL DEF BridgeInv, RosterInv

\* The bridge runs the device manager as its own module specifies it, so the
\* manager's theorems hold in the bridge (DeviceManager.ts).
THEOREM BridgeRunsTheManager == BridgeSpec => Spec
<1>1. BridgeInit => Init
  BY DEF BridgeInit
<1>2. BridgeInv => GateInv
  BY DEF BridgeInv
<1>. QED BY <1>1, <1>2, BridgeInvariant, ManagerStep, PTL DEF BridgeSpec, Spec

\* ... and the presence gate as its own module specifies it: no handler opens,
\* arms or closes it in any other way (index.ts:307-328).
THEOREM BridgeRunsTheGate == BridgeSpec => Gate!Spec
<1>1. BridgeInit => Gate!Init
  BY DEF BridgeInit
<1>2. [BridgeNext]_bridgeVars => [Gate!Next]_(Gate!vars)
  <2> SUFFICES ASSUME [BridgeNext]_bridgeVars PROVE Gate!Next \/ UNCHANGED Gate!vars
    OBVIOUS
  <2>1. ASSUME UNCHANGED gateVars PROVE UNCHANGED Gate!vars
    BY <2>1 DEF gateVars, Gate!vars, Gate!gateVars
  <2>2. ASSUME NEW c \in Clients, Connect(c) \/ Leave(c) PROVE Gate!Next
    BY <2>2 DEF Connect, Leave, Gate!Next
  <2>3. CASE PeerGivesUp \/ Expire \/ Shutdown
    BY <2>3 DEF PeerGivesUp, Expire, Shutdown, Gate!Next
  <2>4. CASE SessionOpened
    BY <2>4 DEF SessionOpened, Gate!Next, Gate!OpenSettles
  <2>5. ASSUME NEW i \in Inst, Settles(i) PROVE UNCHANGED gateVars
    BY <2>5 DEF Settles, SettlePort
  <2>6. ASSUME NEW d \in Ids, NEW m \in Models, DeviceAdd(d, m) PROVE UNCHANGED gateVars
    BY <2>6 DEF DeviceAdd
  <2>7. ASSUME NEW d \in Ids, DeviceRemove(d) \/ Play(d) PROVE UNCHANGED gateVars
    BY <2>7 DEF DeviceRemove, Play
  <2>8. CASE SessionAdds \/ Panic \/ Hello \/ UNCHANGED bridgeVars
    BY <2>1, <2>8 DEF SessionAdds, Panic, Hello, bridgeVars
  <2>. QED BY <2>1, <2>2, <2>3, <2>4, <2>5, <2>6, <2>7, <2>8 DEF BridgeNext
<1>. QED BY <1>1, <1>2, PTL DEF BridgeSpec, Gate!Spec

=============================================================================
