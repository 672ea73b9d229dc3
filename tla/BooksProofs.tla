------------------------------ MODULE BooksProofs -----------------------------
(***************************************************************************)
(* What the bridge keeps of what is elsewhere: the books of the driver's   *)
(* ports, for any number of devices, ports, port objects and connections;  *)
(* the workspace with its file, for any arrangements; and the scene, where *)
(* the bridge and the headset each keep the devices and where they stand.  *)
(*                                                                         *)
(* PresenceIsTrue speaks of frames that are under way.  To carry it over a *)
(* step one must know that only one connection can carry frames, the one   *)
(* the link's thread has; that is LinkInv.  That an orderly end keeps the  *)
(* workspace rests on what the file is while no save is due, and on every  *)
(* workspace being one that fromJSON() accepts; that is FileInv.           *)
(* That the two sides of the scene agree once quiet needs to be said of    *)
(* every moment: whatever they differ in is on its way, as a roster, as a  *)
(* message that will be answered with one, or as a list of arrangements    *)
(* that a roster follows; that is SceneInv.                                *)
(* That what a hand holds stays put needs the types of all that is stored  *)
(* or under way, and that no two devices share an id; that is SceneTyped.  *)
(***************************************************************************)
EXTENDS DriverProps, SceneProps, FiniteSetTheorems, SequenceTheorems, WellFoundedInduction, TLAPS

\* The thread has a connection between Connect() and the end of the read loop;
\* no other connection has a driver at its end, or frames in it; and reads are
\* cut short only for Stop().
LinkInv ==
    /\ thread = "off" <=> main = "off"
    /\ thread \in {"connected", "reading"} <=> mine # None
    /\ fd # None => fd = mine
    /\ \A c \in Conns : "driver" \in ends[c] => c = mine
    /\ \A c \in Conns : c # mine => wire[c] = <<>>
    /\ main # "joining" => cut = {}

\* What the steps of the bridge's ports need and keep.
Books == TypeOK /\ LinkInv /\ BooksAreKept

\* PresenceIsTrue, which also holds between two lives of the driver.
Presence ==
    /\ main # "joining" => \A d \in Devices \ missed : d \in Believed <=> openPorts[d] # 0
    /\ ~signalled => shown = wanted

DriverInv == Books /\ Presence

-----------------------------------------------------------------------------
(* What a queue of frames comes to.                                        *)

\* The devices present once the frames q have been read over the set W.
Held(W, q) ==
    {d \in Devices :
        \/ d \in W /\ \A k \in 1..Len(q) : q[k].device # d
        \/ \E k \in 1..Len(q) :
                /\ q[k] = [device |-> d, present |-> TRUE]
                /\ \A j \in k+1..Len(q) : q[j].device # d}

LEMMA BelievedIsHeld == Believed = Held(wanted, Unread)
  BY DEF Believed, Held

\* The last frame decides.
LEMMA HeldAppend ==
  ASSUME NEW W, NEW q \in Seq(Frames), NEW f \in Frames
  PROVE  Held(W, Append(q, f))
            = IF f.present THEN Held(W, q) \cup {f.device} ELSE Held(W, q) \ {f.device}
<1> DEFINE e == f.device
           r == Append(q, f)
<1>1. e \in Devices /\ f.present \in BOOLEAN /\ f = [device |-> e, present |-> f.present]
  BY DEF Frames
<1>2. /\ Len(r) = Len(q) + 1
      /\ Len(q) \in Nat
      /\ r[Len(q) + 1] = f
      /\ \A k \in 1..Len(q) : r[k] = q[k] /\ q[k] \in Frames
  BY <1>1
<1> HIDE DEF r, Frames
<1>3. ASSUME NEW d \in Devices, d # e
      PROVE  d \in Held(W, r) <=> d \in Held(W, q)
  <2>1. (\A k \in 1..Len(r) : r[k].device # d) <=> (\A k \in 1..Len(q) : q[k].device # d)
    BY <1>2, <1>1, <1>3
  <2>2. ASSUME NEW k \in 1..Len(q)
        PROVE  (\A j \in k+1..Len(r) : r[j].device # d) <=> (\A j \in k+1..Len(q) : q[j].device # d)
    BY <1>2, <1>1, <1>3
  <2>3. r[Len(r)] # [device |-> d, present |-> TRUE]
    BY <1>2, <1>1, <1>3
  <2>4. (\E k \in 1..Len(r) :
            /\ r[k] = [device |-> d, present |-> TRUE]
            /\ \A j \in k+1..Len(r) : r[j].device # d)
        <=> (\E k \in 1..Len(q) :
            /\ q[k] = [device |-> d, present |-> TRUE]
            /\ \A j \in k+1..Len(q) : q[j].device # d)
    <3>1. \A k \in 1..Len(r) : k = Len(r) \/ k \in 1..Len(q)
      BY <1>2
    <3>2. 1..Len(q) \subseteq 1..Len(r)
      BY <1>2
    <3>3. \A k \in 1..Len(q) : r[k] = q[k]
      BY <1>2
    <3> QED
      BY <2>2, <2>3, <3>1, <3>2, <3>3
  <2> QED
    BY <2>1, <2>4 DEF Held
<1>4. e \in Held(W, r) <=> f.present
  <2>1. ~ \A k \in 1..Len(r) : r[k].device # e
    BY <1>2, <1>1
  <2>2. ASSUME NEW k \in 1..Len(r), \A j \in k+1..Len(r) : r[j].device # e
        PROVE  k = Len(r)
    BY <2>2, <1>2, <1>1
  <2>3. r[Len(r)] = [device |-> e, present |-> TRUE] <=> f.present
    <3>1. CASE f.present = TRUE
      BY <1>2, <1>1, <3>1
    <3>2. CASE f.present = FALSE
      BY <1>2, <1>1, <3>2
    <3> QED
      BY <1>1, <3>1, <3>2
  <2>4. f.present => \E k \in 1..Len(r) :
            /\ r[k] = [device |-> e, present |-> TRUE]
            /\ \A j \in k+1..Len(r) : r[j].device # e
    <3>1. Len(r) \in 1..Len(r) /\ Len(r)+1..Len(r) = {}
      BY <1>2
    <3> QED
      BY <2>3, <3>1
  <2>5. ASSUME NEW k \in 1..Len(r), r[k] = [device |-> e, present |-> TRUE],
               \A j \in k+1..Len(r) : r[j].device # e
        PROVE  f.present
    BY <2>2, <2>3, <2>5
  <2>6. e \in Held(W, r) <=>
            \E k \in 1..Len(r) :
                /\ r[k] = [device |-> e, present |-> TRUE]
                /\ \A j \in k+1..Len(r) : r[j].device # e
    BY <1>1, <2>1 DEF Held
  <2> HIDE DEF e
  <2> QED
    BY <2>4, <2>5, <2>6
<1>5. Held(W, r) \subseteq Devices /\ Held(W, q) \subseteq Devices
  BY DEF Held
<1> QED
  BY <1>3, <1>4, <1>5 DEF r

\* Reading the first frame changes nothing of what they come to.
LEMMA HeldTail ==
  ASSUME NEW W, NEW q \in Seq(Frames), q # <<>>
  PROVE  Held(IF Head(q).present THEN W \cup {Head(q).device} ELSE W \ {Head(q).device}, Tail(q))
            = Held(W, q)
<1> DEFINE f == Head(q)
           t == Tail(q)
           V == IF f.present THEN W \cup {f.device} ELSE W \ {f.device}
<1> HIDE DEF Frames
<1>1. /\ Len(q) \in Nat \ {0}
      /\ Len(t) = Len(q) - 1
      /\ f = q[1] /\ f \in Frames
      /\ \A k \in 1..Len(t) : t[k] = q[k + 1] /\ t[k] \in Frames
  <2>1. Len(q) \in Nat \ {0} /\ f = q[1] /\ f \in Frames
    OBVIOUS
  <2>2. Len(t) = Len(q) - 1 /\ t \in Seq(Frames)
    BY <2>1
  <2>3. \A k \in 1..Len(t) : t[k] = q[k + 1]
    BY <2>1, <2>2
  <2> QED
    BY <2>1, <2>2, <2>3
<1>2. f = [device |-> f.device, present |-> f.present]
  BY <1>1 DEF Frames
<1>3. ASSUME NEW d \in Devices
      PROVE  (\A k \in 1..Len(q) : q[k].device # d)
                <=> f.device # d /\ \A k \in 1..Len(t) : t[k].device # d
  <2> HIDE DEF f, t
  <2>1. \A k \in 1..Len(q) : k = 1 \/ (k - 1 \in 1..Len(t) /\ t[k - 1] = q[k])
    BY <1>1
  <2>2. \A k \in 1..Len(t) : k + 1 \in 1..Len(q) /\ t[k] = q[k + 1]
    BY <1>1
  <2> QED
    BY <1>1, <2>1, <2>2
<1>4. ASSUME NEW d \in Devices
      PROVE  (\E k \in 1..Len(q) :
                /\ q[k] = [device |-> d, present |-> TRUE]
                /\ \A j \in k+1..Len(q) : q[j].device # d)
            <=> \/ /\ f = [device |-> d, present |-> TRUE]
                   /\ \A j \in 1..Len(t) : t[j].device # d
                \/ \E k \in 1..Len(t) :
                    /\ t[k] = [device |-> d, present |-> TRUE]
                    /\ \A j \in k+1..Len(t) : t[j].device # d
  <2> DEFINE last(k) == /\ q[k] = [device |-> d, present |-> TRUE]
                        /\ \A j \in k+1..Len(q) : q[j].device # d
  <2> HIDE DEF f, t
  <2>1. last(1) <=> /\ f = [device |-> d, present |-> TRUE]
                    /\ \A j \in 1..Len(t) : t[j].device # d
    <3>1. \A j \in 2..Len(q) : j - 1 \in 1..Len(t) /\ t[j - 1] = q[j]
      BY <1>1
    <3>2. \A j \in 1..Len(t) : j + 1 \in 2..Len(q) /\ t[j] = q[j + 1]
      BY <1>1
    <3> QED
      BY <1>1, <3>1, <3>2
  <2>2. ASSUME NEW k \in 1..Len(t)
        PROVE  last(k + 1) <=> /\ t[k] = [device |-> d, present |-> TRUE]
                               /\ \A j \in k+1..Len(t) : t[j].device # d
    <3>1. \A j \in (k+1)+1..Len(q) : j - 1 \in k+1..Len(t) /\ t[j - 1] = q[j]
      BY <1>1
    <3>2. \A j \in k+1..Len(t) : j + 1 \in (k+1)+1..Len(q) /\ t[j] = q[j + 1]
      BY <1>1
    <3>3. t[k] = q[k + 1]
      BY <1>1
    <3>4. (\A j \in (k+1)+1..Len(q) : q[j].device # d) <=> (\A j \in k+1..Len(t) : t[j].device # d)
      BY <3>1, <3>2
    <3> QED
      BY <3>3, <3>4
  <2>3. (\E k \in 1..Len(q) : last(k)) <=> last(1) \/ \E k \in 1..Len(t) : last(k + 1)
    <3> HIDE DEF last
    <3>1. ASSUME NEW k \in 1..Len(q), last(k)
          PROVE  last(1) \/ \E l \in 1..Len(t) : last(l + 1)
      <4>1. CASE k = 1
        BY <3>1, <4>1
      <4>2. CASE k # 1
        <5>1. k - 1 \in 1..Len(t) /\ (k - 1) + 1 = k
          BY <1>1, <4>2
        <5> QED
          BY <3>1, <5>1
      <4> QED
        BY <4>1, <4>2
    <3>2. ASSUME NEW l \in 1..Len(t)
          PROVE  l + 1 \in 1..Len(q)
      BY <1>1
    <3>3. 1 \in 1..Len(q)
      BY <1>1
    <3> QED
      BY <3>1, <3>2, <3>3
  <2> QED
    BY <2>1, <2>2, <2>3
<1>5. ASSUME NEW d \in Devices
      PROVE  d \in Held(V, t) <=> d \in Held(W, q)
  <2> DEFINE none(u) == \A k \in 1..Len(u) : u[k].device # d
             some(u) == \E k \in 1..Len(u) :
                            /\ u[k] = [device |-> d, present |-> TRUE]
                            /\ \A j \in k+1..Len(u) : u[j].device # d
  <2>1. d \in Held(V, t) <=> (d \in V /\ none(t)) \/ some(t)
    BY DEF Held
  <2>2. d \in Held(W, q) <=> (d \in W /\ none(q)) \/ some(q)
    BY DEF Held
  <2>3. none(q) <=> f.device # d /\ none(t)
    BY <1>3
  <2>4. some(q) <=> (f = [device |-> d, present |-> TRUE] /\ none(t)) \/ some(t)
    BY <1>4
  <2>5. f = [device |-> d, present |-> TRUE] <=> f.device = d /\ f.present
    BY <1>1, <1>2 DEF Frames
  <2> HIDE DEF none, some, f, t
  <2> QED
    BY <2>1, <2>2, <2>3, <2>4, <2>5
<1> QED
  BY <1>5 DEF Held

-----------------------------------------------------------------------------
(* The books.                                                              *)

LEMMA HandleSets ==
  ASSUME NEW S \in SUBSET Handles
  PROVE  IsFiniteSet(S) /\ Cardinality(S) \in 0..Cardinality(Handles)
<1>1. Cardinality(Handles) \in Nat
  BY HandlesAssumption, FS_CardinalityType
<1>2. IsFiniteSet(S) /\ Cardinality(S) <= Cardinality(Handles)
  BY HandlesAssumption, FS_Subset
<1> QED
  BY <1>1, <1>2, FS_CardinalityType

LEMMA AddressesAreNotEmpty ==
  ASSUME NEW a \in Addresses
  PROVE  a # <<>> /\ a[1] \in Devices
  BY DEF Addresses

\* The books depend on the ports alone.
LEMMA SameBooks ==
  ASSUME BooksAreKept, UNCHANGED portVars
  PROVE  BooksAreKept'
  BY DEF BooksAreKept, PortsOpenOn, portVars

\* A frame may be added for the device told of, to the thread's connection.
LEMMA TellLinks ==
  ASSUME TypeOK, LinkInv, NEW d \in Devices, NEW p \in BOOLEAN, Tell(d, p)
  PROVE  /\ wire' \in [Conns -> Seq(Frames)]
         /\ missed' \subseteq Devices
         /\ \A c \in Conns : c # mine => wire'[c] = <<>>
<1>1. CASE Carried
  <2>1. socket \in Conns /\ socket = mine
    BY <1>1 DEF Carried, TypeOK, LinkInv
  <2>2. wire' = [wire EXCEPT ![socket] = Append(@, [device |-> d, present |-> p])]
        /\ missed' = missed \ {d}
    BY <1>1 DEF Tell
  <2>3. Append(wire[socket], [device |-> d, present |-> p]) \in Seq(Frames)
    <3>1. [device |-> d, present |-> p] \in Frames
      BY DEF Frames
    <3>2. wire[socket] \in Seq(Frames)
      BY <2>1 DEF TypeOK
    <3> QED
      BY <3>1, <3>2
  <2> QED
    BY <2>1, <2>2, <2>3 DEF TypeOK, LinkInv
<1>2. CASE ~Carried
  BY <1>2 DEF Tell, TypeOK, LinkInv
<1> QED
  BY <1>1, <1>2

LEMMA OpenBooks ==
  ASSUME Books, NEW h \in Handles, NEW a \in Addresses, Open(h, a)
  PROVE  Books'
<1> DEFINE d == a[1]
<1>1. d \in Devices /\ a # <<>>
  BY DEF Addresses
<1>2. wire' \in [Conns -> Seq(Frames)] /\ missed' \subseteq Devices
      /\ \A c \in Conns : c # mine => wire'[c] = <<>>
  <2>1. CASE openPorts[d] = 0
    BY <1>1, <2>1, TellLinks DEF Open, Books
  <2>2. CASE openPorts[d] # 0
    BY <2>2 DEF Open, Books, TellNothing, TypeOK, LinkInv
  <2> QED
    BY <2>1, <2>2
<1>3. handles' = [handles EXCEPT ![h] = a]
      /\ handles \in [Handles -> Addresses \cup {<<>>}]
      /\ handles[h] = <<>>
  BY DEF Open, Books, TypeOK
<1>4. PortsOpenOn(d)' = PortsOpenOn(d) \cup {h} /\ h \notin PortsOpenOn(d)
  BY <1>1, <1>3 DEF PortsOpenOn
<1>5. \A e \in Devices : e # d => PortsOpenOn(e)' = PortsOpenOn(e)
  BY <1>1, <1>3 DEF PortsOpenOn
<1>6. Cardinality(PortsOpenOn(d))' = Cardinality(PortsOpenOn(d)) + 1
  <2>1. PortsOpenOn(d) \in SUBSET Handles
    BY DEF PortsOpenOn
  <2> QED
    BY <1>4, <2>1, HandleSets, FS_AddElement
<1>7. openPorts' = [openPorts EXCEPT ![d] = @ + 1]
  BY DEF Open
<1>8. \A e \in Devices : openPorts'[e] = Cardinality(PortsOpenOn(e))'
  BY <1>1, <1>5, <1>6, <1>7 DEF Books, BooksAreKept, TypeOK
<1>9. \A e \in Devices : openPorts'[e] \in 0..Cardinality(Handles)
  <2>1. \A e : PortsOpenOn(e)' \in SUBSET Handles
    BY DEF PortsOpenOn
  <2> QED
    BY <1>8, <2>1, HandleSets
<1>10. \A b \in Addresses : sources'[b] # None => handles'[sources'[b]] = b
  <2>1. sources' = [sources EXCEPT ![a] = h]
    BY DEF Open
  <2>2. ASSUME NEW b \in Addresses, b # a, sources[b] # None
        PROVE  sources[b] # h /\ sources[b] \in Handles
    BY <1>3, <2>2, AddressesAreNotEmpty DEF Books, TypeOK, BooksAreKept
  <2> QED
    BY <1>3, <2>1, <2>2 DEF Books, TypeOK, BooksAreKept
<1>11. BooksAreKept'
  BY <1>8, <1>10 DEF BooksAreKept
<1>12. TypeOK'
  BY <1>1, <1>2, <1>3, <1>7, <1>9 DEF Open, Books, TypeOK, threadVars, presenceVars
<1>13. LinkInv'
  BY <1>2 DEF Open, Books, LinkInv, threadVars, presenceVars
<1> QED
  BY <1>11, <1>12, <1>13 DEF Books

LEMMA CloseBooks ==
  ASSUME Books, NEW h \in Handles, NEW a \in Addresses, a = handles[h], Close(h)
  PROVE  Books'
<1> DEFINE d == a[1]
<1>1. d \in Devices /\ a # <<>>
  BY AddressesAreNotEmpty
<1>2. wire' \in [Conns -> Seq(Frames)] /\ missed' \subseteq Devices
      /\ \A c \in Conns : c # mine => wire'[c] = <<>>
  <2>1. CASE openPorts[d] = 1
    BY <1>1, <2>1, TellLinks DEF Close, Books
  <2>2. CASE openPorts[d] # 1
    BY <2>2 DEF Close, Books, TellNothing, TypeOK, LinkInv
  <2> QED
    BY <2>1, <2>2
<1>3. handles' = [handles EXCEPT ![h] = <<>>]
      /\ handles \in [Handles -> Addresses \cup {<<>>}]
  BY DEF Close, Books, TypeOK
<1>4. PortsOpenOn(d)' = PortsOpenOn(d) \ {h} /\ h \in PortsOpenOn(d)
  BY <1>1, <1>3 DEF PortsOpenOn
<1>5. \A e \in Devices : e # d => PortsOpenOn(e)' = PortsOpenOn(e)
  BY <1>1, <1>3 DEF PortsOpenOn
<1>6. Cardinality(PortsOpenOn(d))' = Cardinality(PortsOpenOn(d)) - 1
  <2>1. PortsOpenOn(d) \in SUBSET Handles
    BY DEF PortsOpenOn
  <2> QED
    BY <1>4, <2>1, HandleSets, FS_RemoveElement
<1>7. openPorts' = [openPorts EXCEPT ![d] = @ - 1]
  BY DEF Close
<1>8. \A e \in Devices : openPorts'[e] = Cardinality(PortsOpenOn(e))'
  BY <1>1, <1>5, <1>6, <1>7 DEF Books, BooksAreKept, TypeOK
<1>9. \A e \in Devices : openPorts'[e] \in 0..Cardinality(Handles)
  <2>1. \A e : PortsOpenOn(e)' \in SUBSET Handles
    BY DEF PortsOpenOn
  <2> QED
    BY <1>8, <2>1, HandleSets
<1>10. \A b \in Addresses : sources'[b] # None => handles'[sources'[b]] = b
  <2>1. sources' = [sources EXCEPT ![a] = None]
    BY DEF Close
  <2>2. ASSUME NEW b \in Addresses, sources'[b] # None
        PROVE  b # a /\ sources'[b] = sources[b] /\ sources[b] \in Handles
    BY <1>1, <2>1, <2>2 DEF Books, TypeOK
  <2> QED
    BY <1>3, <2>2 DEF Books, BooksAreKept
<1>11. BooksAreKept'
  BY <1>8, <1>10 DEF BooksAreKept
<1>12. TypeOK'
  BY <1>1, <1>2, <1>3, <1>7, <1>9 DEF Close, Books, TypeOK, threadVars, presenceVars
<1>13. LinkInv'
  BY <1>2 DEF Close, Books, LinkInv, threadVars, presenceVars
<1> QED
  BY <1>11, <1>12, <1>13 DEF Books

-----------------------------------------------------------------------------
(* What the driver believes.                                               *)

LEMMA TellBelieved ==
  ASSUME Books, NEW d \in Devices, NEW p \in BOOLEAN, Tell(d, p), UNCHANGED <<mine, wanted>>
  PROVE  \/ /\ missed' = missed \ {d}
            /\ Believed' = IF p THEN Believed \cup {d} ELSE Believed \ {d}
         \/ /\ missed' = missed \cup {d}
            /\ Believed' = Believed
<1> DEFINE f == [device |-> d, present |-> p]
<1>1. CASE Carried
  <2>1. socket \in Conns /\ socket = mine /\ mine # None
    BY <1>1 DEF Carried, Books, TypeOK, LinkInv
  <2>2. wire' = [wire EXCEPT ![socket] = Append(@, f)]
        /\ missed' = missed \ {d}
    BY <1>1 DEF Tell
  <2>3. Unread' = Append(Unread, f)
    BY <2>1, <2>2 DEF Unread, Books, TypeOK
  <2>4. Unread \in Seq(Frames)
    BY <2>1 DEF Unread, Books, TypeOK
  <2>5. Held(wanted, Unread)' = Held(wanted, Append(Unread, f))
    BY <2>3 DEF Held
  <2>6. Believed' = Held(wanted, Append(Unread, f))
    BY <2>5 DEF Believed, Held
  <2>7. f \in Frames /\ f.device = d /\ f.present = p
    BY DEF Frames
  <2> HIDE DEF f
  <2>8. Believed' = IF f.present THEN Believed \cup {f.device} ELSE Believed \ {f.device}
    BY <2>4, <2>6, <2>7, HeldAppend, BelievedIsHeld
  <2> QED
    BY <2>2, <2>7, <2>8
<1>2. CASE ~Carried
  <2>1. wire' = wire /\ missed' = missed \cup {d}
    BY <1>2 DEF Tell
  <2> QED
    BY <2>1 DEF Believed, Unread
<1> QED
  BY <1>1, <1>2

LEMMA SameBelieved ==
  ASSUME UNCHANGED <<wanted, Unread>>
  PROVE  Believed' = Believed
  BY DEF Believed

LEMMA OpenPresence ==
  ASSUME Books, Presence, NEW h \in Handles, NEW a \in Addresses, Open(h, a)
  PROVE  Presence'
<1> DEFINE d == a[1]
<1>1. d \in Devices
  BY AddressesAreNotEmpty
<1>2. /\ openPorts' = [openPorts EXCEPT ![d] = @ + 1]
      /\ openPorts \in [Devices -> Nat]
      /\ UNCHANGED <<main, mine, wanted, signalled, shown>>
  BY DEF Open, Books, TypeOK, threadVars, presenceVars
<1>3. CASE openPorts[d] = 0
  <2>1. Tell(d, TRUE)
    BY <1>3 DEF Open
  <2>2. \/ missed' = missed \ {d} /\ Believed' = Believed \cup {d}
        \/ missed' = missed \cup {d} /\ Believed' = Believed
    BY <1>1, <1>2, <2>1, TellBelieved
  <2> QED
    BY <1>1, <1>2, <1>3, <2>2 DEF Presence
<1>4. CASE openPorts[d] # 0
  <2>1. UNCHANGED <<wire, missed>>
    BY <1>4 DEF Open, TellNothing
  <2>2. Believed' = Believed
    BY <1>2, <2>1, SameBelieved DEF Unread
  <2> QED
    BY <1>1, <1>2, <1>4, <2>1, <2>2 DEF Presence
<1> QED
  BY <1>3, <1>4

LEMMA ClosePresence ==
  ASSUME Books, Presence, NEW h \in Handles, NEW a \in Addresses, a = handles[h], Close(h)
  PROVE  Presence'
<1> DEFINE d == a[1]
<1>1. d \in Devices
  BY AddressesAreNotEmpty
<1>2. /\ openPorts' = [openPorts EXCEPT ![d] = @ - 1]
      /\ openPorts \in [Devices -> Nat]
      /\ UNCHANGED <<main, mine, wanted, signalled, shown>>
  BY DEF Close, Books, TypeOK, threadVars, presenceVars
<1>3. openPorts' \in [Devices -> Nat]
  BY CloseBooks DEF Books, TypeOK
<1>4. CASE openPorts[d] = 1
  <2>1. Tell(d, FALSE)
    BY <1>4 DEF Close
  <2>2. \/ missed' = missed \ {d} /\ Believed' = Believed \ {d}
        \/ missed' = missed \cup {d} /\ Believed' = Believed
    BY <1>1, <1>2, <2>1, TellBelieved
  <2> QED
    BY <1>1, <1>2, <1>4, <2>2 DEF Presence
<1>5. CASE openPorts[d] # 1
  <2>1. UNCHANGED <<wire, missed>>
    BY <1>5 DEF Close, TellNothing
  <2>2. Believed' = Believed
    BY <1>2, <2>1, SameBelieved DEF Unread
  <2>3. openPorts[d] # 0 /\ openPorts'[d] # 0
    BY <1>1, <1>2, <1>3, <1>5
  <2> QED
    BY <1>1, <1>2, <2>1, <2>2, <2>3 DEF Presence
<1> QED
  BY <1>4, <1>5

-----------------------------------------------------------------------------
(* The other steps leave the ports alone, or lose them all.                *)

LEMMA InitInv == Init => DriverInv
<1> SUFFICES ASSUME Init PROVE DriverInv
  OBVIOUS
<1>1. \A d : PortsOpenOn(d) = {}
  BY DEF Init, PortsOpenOn
<1>2. Cardinality({}) = 0
  BY FS_EmptySet
<1>3. BooksAreKept
  BY <1>1, <1>2 DEF Init, BooksAreKept
<1>4. 0 \in 0..Cardinality(Handles)
  BY <1>2, HandleSets
<1>5. TypeOK
  <2>1. [c \in Conns |-> <<>>] \in [Conns -> Seq(Frames)]
    OBVIOUS
  <2>2. openPorts \in [Devices -> 0..Cardinality(Handles)]
    BY <1>4 DEF Init
  <2> QED
    BY <2>1, <2>2 DEF Init, TypeOK
<1>6. LinkInv
  BY DEF Init, LinkInv
<1>7. Presence
  BY DEF Init, Presence, Believed, Unread
<1> QED
  BY <1>3, <1>5, <1>6, <1>7 DEF DriverInv, Books

LEMMA BridgeDiesInv ==
  ASSUME DriverInv, BridgeDies
  PROVE  DriverInv'
<1>1. \A d : PortsOpenOn(d)' = {}
  BY DEF BridgeDies, PortsOpenOn
<1>2. Cardinality({}) = 0
  BY FS_EmptySet
<1>3. BooksAreKept'
  BY <1>1, <1>2 DEF BridgeDies, BooksAreKept
<1>4. 0 \in 0..Cardinality(Handles)
  BY <1>2, HandleSets
<1>5. TypeOK'
  BY <1>4 DEF BridgeDies, DriverInv, Books, TypeOK, Believed, threadVars, presenceVars
<1>6. LinkInv'
  BY DEF BridgeDies, DriverInv, Books, TypeOK, LinkInv, threadVars, presenceVars
<1>7. Believed' = Believed
  BY SameBelieved DEF BridgeDies, Unread, threadVars, presenceVars
<1>8. Presence'
  BY <1>7 DEF BridgeDies, DriverInv, Presence, threadVars, presenceVars
<1> QED
  BY <1>3, <1>5, <1>6, <1>8 DEF DriverInv, Books

LEMMA GoneInv ==
  ASSUME DriverInv, Gone
  PROVE  DriverInv'
<1>1. BooksAreKept'
  BY SameBooks DEF Gone, DriverInv, Books
<1>2. TypeOK'
  <2>1. [c \in Conns |-> <<>>] \in [Conns -> Seq(Frames)]
    OBVIOUS
  <2>2. ends' \in [Conns -> SUBSET {"bridge", "driver"}]
    BY DEF Gone, DriverInv, Books, TypeOK
  <2> QED
    BY <2>1, <2>2 DEF Gone, DriverInv, Books, TypeOK, portVars
<1>3. LinkInv'
  BY DEF Gone, DriverInv, Books, TypeOK, LinkInv
<1>4. Presence'
  BY DEF Gone, Presence, Believed, Unread, portVars
<1> QED
  BY <1>1, <1>2, <1>3, <1>4 DEF DriverInv, Books

LEMMA BridgeEndInv ==
  ASSUME DriverInv,
         BridgeStarts \/ SeesEnd \/ \E c \in Conns : Accept(c)
  PROVE  DriverInv'
<1>1. UNCHANGED <<portVars, wire, cut, main, running, threadVars, presenceVars, missed>>
  BY DEF BridgeStarts, SeesEnd, Accept
<1>2. BooksAreKept'
  BY <1>1, SameBooks DEF DriverInv, Books
<1>3. TypeOK' /\ LinkInv'
  <2>1. CASE BridgeStarts
    BY <1>1, <2>1 DEF BridgeStarts, DriverInv, Books, TypeOK, LinkInv, portVars, threadVars, presenceVars
  <2>2. CASE SeesEnd
    BY <1>1, <2>2 DEF SeesEnd, DriverInv, Books, TypeOK, LinkInv, portVars, threadVars, presenceVars
  <2>3. ASSUME NEW c \in Conns, Accept(c)
        PROVE  TypeOK' /\ LinkInv'
    BY <1>1, <2>3 DEF Accept, DriverInv, Books, TypeOK, LinkInv, portVars, threadVars, presenceVars
  <2> QED
    BY <2>1, <2>2, <2>3
<1>4. Believed' = Believed
  BY <1>1, SameBelieved DEF Unread, threadVars, presenceVars
<1>5. Presence'
  BY <1>1, <1>4 DEF DriverInv, Presence, portVars, presenceVars
<1> QED
  BY <1>2, <1>3, <1>5 DEF DriverInv, Books

LEMMA MainInv ==
  ASSUME DriverInv, DriverStarts \/ ApplyPresence \/ StopBegins
  PROVE  DriverInv'
<1>1. UNCHANGED <<portVars, wire, ends, mine, fd, wanted, missed>>
  BY DEF DriverStarts, ApplyPresence, StopBegins, threadVars, presenceVars
<1>2. BooksAreKept'
  BY <1>1, SameBooks DEF DriverInv, Books
<1>3. Believed' = Believed
  BY <1>1, SameBelieved DEF Unread
<1>4. TypeOK' /\ LinkInv' /\ Presence'
  <2>1. CASE DriverStarts
    BY <1>1, <1>3, <2>1
       DEF DriverStarts, DriverInv, Books, TypeOK, LinkInv, Presence, portVars, threadVars, presenceVars
  <2>2. CASE ApplyPresence
    BY <1>1, <1>3, <2>2
       DEF ApplyPresence, DriverInv, Books, TypeOK, LinkInv, Presence, portVars, threadVars, presenceVars
  <2>3. CASE StopBegins
    BY <1>1, <1>3, <2>3
       DEF StopBegins, DriverInv, Books, TypeOK, LinkInv, Presence, portVars, threadVars, presenceVars
  <2> QED
    BY <2>1, <2>2, <2>3
<1> QED
  BY <1>2, <1>4 DEF DriverInv, Books

LEMMA ReadsInv ==
  ASSUME DriverInv, ThreadReads
  PROVE  DriverInv'
<1> DEFINE f == Head(wire[mine])
<1>1. mine \in Conns /\ mine # None /\ wire[mine] \in Seq(Frames) /\ wire[mine] # <<>>
  BY DEF ThreadReads, DriverInv, Books, TypeOK, LinkInv
<1>2. f \in Frames /\ Tail(wire[mine]) \in Seq(Frames)
  BY <1>1
<1>3. wanted' = IF f.present THEN wanted \cup {f.device} ELSE wanted \ {f.device}
  BY DEF ThreadReads
<1>4. wire' = [wire EXCEPT ![mine] = Tail(@)]
  BY DEF ThreadReads
<1>5. BooksAreKept'
  BY SameBooks DEF ThreadReads, DriverInv, Books
<1>6. TypeOK'
  <2>1. wanted' \subseteq Devices
    BY <1>2, <1>3 DEF Frames, DriverInv, Books, TypeOK
  <2>2. wire' \in [Conns -> Seq(Frames)]
    BY <1>2, <1>4 DEF DriverInv, Books, TypeOK
  <2> QED
    BY <2>1, <2>2 DEF ThreadReads, DriverInv, Books, TypeOK, portVars, threadVars
<1>7. LinkInv'
  BY <1>4 DEF ThreadReads, DriverInv, Books, TypeOK, LinkInv, threadVars
<1>8. Believed' = Believed
  <2>1. Unread = wire[mine] /\ Unread' = Tail(wire[mine])
    BY <1>1, <1>4 DEF Unread, ThreadReads, threadVars, DriverInv, Books, TypeOK
  <2>2. Believed' = Held(wanted', Unread')
    BY DEF Believed, Held
  <2> QED
    BY <1>1, <1>3, <2>1, <2>2, HeldTail, BelievedIsHeld
<1>9. Presence'
  BY <1>8 DEF ThreadReads, DriverInv, Presence, portVars
<1> QED
  BY <1>5, <1>6, <1>7, <1>9 DEF DriverInv, Books

LEMMA EndsInv ==
  ASSUME DriverInv, ThreadEnds
  PROVE  DriverInv'
<1>1. mine \in Conns /\ mine # None
  BY DEF ThreadEnds, DriverInv, Books, TypeOK, LinkInv
<1>2. BooksAreKept'
  BY SameBooks DEF ThreadEnds, DriverInv, Books
<1>3. TypeOK'
  BY <1>1 DEF ThreadEnds, DriverInv, Books, TypeOK, portVars, presenceVars
<1>4. LinkInv'
  BY <1>1 DEF ThreadEnds, DriverInv, Books, TypeOK, LinkInv
<1>5. Presence'
  <2>1. CASE main = "joining"
    BY <2>1 DEF ThreadEnds, DriverInv, Presence, presenceVars
  <2>2. CASE main # "joining"
    <3>1. wire[mine] = <<>>
      BY <2>2 DEF ThreadEnds, DriverInv, Books, LinkInv
    <3>2. Unread = <<>> /\ Unread' = <<>>
      BY <3>1 DEF Unread, ThreadEnds
    <3>3. Believed' = Believed
      BY <3>2, SameBelieved DEF ThreadEnds, presenceVars
    <3> QED
      BY <3>3 DEF ThreadEnds, DriverInv, Presence, presenceVars, portVars
  <2> QED
    BY <2>1, <2>2
<1> QED
  BY <1>2, <1>3, <1>4, <1>5 DEF DriverInv, Books

\* The thread's other steps do not touch what was written to it.
LEMMA ThreadInv ==
  ASSUME DriverInv, ThreadStep
  PROVE  DriverInv'
<1>1. CASE ThreadReads
  BY <1>1, ReadsInv
<1>2. CASE ThreadEnds
  BY <1>2, EndsInv
<1>3. ASSUME NEW c \in Conns, ThreadConnects(c)
      PROVE  DriverInv'
  <2>1. mine = None /\ c # None
    BY <1>3, ConnsAssumption DEF ThreadConnects, DriverInv, Books, LinkInv
  <2>2. BooksAreKept'
    BY <1>3, SameBooks DEF ThreadConnects, DriverInv, Books
  <2>3. TypeOK'
    BY <1>3 DEF ThreadConnects, DriverInv, Books, TypeOK, portVars, presenceVars
  <2>4. LinkInv'
    <3>1. \A x \in Conns : x # c => ends'[x] = ends[x] /\ wire'[x] = wire[x]
      BY <1>3 DEF ThreadConnects, DriverInv, Books, TypeOK
    <3>2. \A x \in Conns : "driver" \notin ends[x] /\ wire[x] = <<>>
      BY <2>1, ConnsAssumption DEF DriverInv, Books, LinkInv
    <3> QED
      BY <1>3, <2>1, <3>1, <3>2 DEF ThreadConnects, DriverInv, Books, LinkInv
  <2>5. Unread = <<>> /\ Unread' = <<>>
    BY <1>3, <2>1 DEF ThreadConnects, Unread, DriverInv, Books, TypeOK
  <2>6. Believed' = Believed
    BY <1>3, <2>5, SameBelieved DEF ThreadConnects, presenceVars
  <2>7. Presence'
    BY <1>3, <2>6 DEF ThreadConnects, DriverInv, Presence, presenceVars, portVars
  <2> QED
    BY <2>2, <2>3, <2>4, <2>7 DEF DriverInv, Books
<1>4. CASE ThreadLoops \/ ThreadFails \/ ThreadPublishes
  <2>1. UNCHANGED <<portVars, wire, ends, cut, main, running, mine, presenceVars, missed>>
    BY <1>4 DEF ThreadLoops, ThreadFails, ThreadPublishes
  <2>2. BooksAreKept'
    BY <2>1, SameBooks DEF DriverInv, Books
  <2>3. TypeOK' /\ LinkInv'
    BY <1>4, <2>1
       DEF ThreadLoops, ThreadFails, ThreadPublishes, DriverInv, Books, TypeOK, LinkInv,
           portVars, presenceVars
  <2>4. Believed' = Believed
    BY <2>1, SameBelieved DEF Unread, presenceVars
  <2>5. Presence'
    BY <2>1, <2>4 DEF DriverInv, Presence, presenceVars, portVars
  <2> QED
    BY <2>2, <2>3, <2>5 DEF DriverInv, Books
<1> QED
  BY <1>1, <1>2, <1>3, <1>4 DEF ThreadStep

LEMMA NextInv == DriverInv /\ [Next]_vars => DriverInv'
<1> SUFFICES ASSUME DriverInv, [Next]_vars PROVE DriverInv'
  OBVIOUS
<1>1. ASSUME NEW h \in Handles, NEW a \in Addresses, Open(h, a)
      PROVE  DriverInv'
  BY <1>1, OpenBooks, OpenPresence DEF DriverInv
<1>2. ASSUME NEW h \in Handles, Close(h)
      PROVE  DriverInv'
  <2>1. handles[h] \in Addresses
    BY <1>2 DEF Close, DriverInv, Books, TypeOK
  <2> QED
    BY <1>2, <2>1, CloseBooks, ClosePresence DEF DriverInv
<1>3. CASE BridgeStep \/ BridgeStarts
  BY <1>3, BridgeEndInv DEF BridgeStep
<1>4. CASE BridgeDies
  BY <1>4, BridgeDiesInv
<1>5. CASE ThreadStep
  BY <1>5, ThreadInv
<1>6. CASE DriverStarts \/ ApplyPresence \/ StopBegins
  BY <1>6, MainInv
<1>7. CASE StopEnds \/ DriverDies
  BY <1>7, GoneInv DEF StopEnds, DriverDies
<1>8. CASE UNCHANGED vars
  <2>1. Believed' = Believed
    BY <1>8, SameBelieved DEF Unread, vars, presenceVars, threadVars
  <2>2. BooksAreKept'
    BY <1>8, SameBooks DEF vars, DriverInv, Books
  <2> QED
    BY <1>8, <2>1, <2>2
       DEF vars, DriverInv, Books, TypeOK, LinkInv, Presence, portVars, threadVars, presenceVars
<1> QED
  BY <1>1, <1>2, <1>3, <1>4, <1>5, <1>6, <1>7, <1>8 DEF Next

\* Together: the books, the link and what a DAW sees.
THEOREM DriverInvariant == Spec => []DriverInv
  BY InitInv, NextInv, PTL DEF Spec

\* The state of either side stays within its types, the count of open ports
\* within the number of port objects.
THEOREM TypeCorrect == Spec => []TypeOK
<1>1. DriverInv => TypeOK
  BY DEF DriverInv, Books
<1> QED
  BY <1>1, DriverInvariant, PTL

\* The count that decides when a device goes away is the number of its open
\* ports, and the map of sources names no closed one.
THEOREM BooksKept == Spec => []BooksAreKept
<1>1. DriverInv => BooksAreKept
  BY DEF DriverInv, Books
<1> QED
  BY <1>1, DriverInvariant, PTL

\* The driver believes, or has on its way, what the bridge has open, wherever
\* nothing was lost; and what it believes is shown or about to be.
THEOREM PresenceTrue == Spec => []PresenceIsTrue
<1>1. DriverInv => PresenceIsTrue
  BY DEF DriverInv, Presence, PresenceIsTrue
<1> QED
  BY <1>1, DriverInvariant, PTL

-----------------------------------------------------------------------------
(* The workspace and its file.                                             *)

IsSequence(s) == s \in Seq({s[i] : i \in DOMAIN s})

\* What fromJSON() takes as it is.
Acceptable(w) ==
    /\ w = [placements |-> w.placements, layouts |-> w.layouts, current |-> w.current]
    /\ IsSequence(w.layouts) /\ Len(w.layouts) <= MaxLayouts
    /\ w.current \in NamesOf(w.layouts) \cup {""}

\* The workspace could be read back, and so could the file, which is the workspace unless a save is due, or the last one failed.
FileInv == Acceptable(Workspace) /\ Acceptable(file) /\ (saving \in {"armed", "failed"} \/ file = Workspace)

LEMMA IsSequenceOf == ASSUME NEW S, NEW s \in Seq(S) PROVE IsSequence(s) /\ DOMAIN s = 1..Len(s) /\ Len(s) \in Nat
<1>1. DOMAIN s = 1..Len(s) /\ Len(s) \in Nat /\ s = [i \in 1..Len(s) |-> s[i]]
  OBVIOUS
<1>2. [i \in 1..Len(s) |-> s[i]] \in Seq({s[i] : i \in 1..Len(s)})
  BY <1>1
<1>. QED BY <1>1, <1>2 DEF IsSequence

\* save() at the end, save() over one of the name, delete(): what is left is a sequence, and has the names it should.
LEMMA Appended ==
    ASSUME NEW ls, IsSequence(ls), NEW new
    PROVE  /\ IsSequence(Append(ls, new)) /\ Len(Append(ls, new)) = Len(ls) + 1 /\ Len(ls) \in Nat
           /\ new.name \in NamesOf(Append(ls, new))
<1> DEFINE S == {ls[i] : i \in DOMAIN ls} \cup {new}
<1>1. ls \in Seq(S)
  BY DEF IsSequence
<1>2. Append(ls, new) \in Seq(S) /\ Len(Append(ls, new)) = Len(ls) + 1 /\ Len(ls) \in Nat /\ Append(ls, new)[Len(ls) + 1] = new
  <2>. HIDE DEF S
  <2>1. new \in S
    BY DEF S
  <2>. QED BY <1>1, <2>1
<1>3. IsSequence(Append(ls, new)) /\ DOMAIN Append(ls, new) = 1..Len(ls) + 1
  <2>. HIDE DEF S
  <2>. QED BY <1>2, IsSequenceOf, ZenonT(60)
<1>. QED BY <1>2, <1>3 DEF NamesOf

LEMMA Replaced ==
    ASSUME NEW ls, IsSequence(ls), NEW new, new.name \in NamesOf(ls),
           NEW to, to = [i \in DOMAIN ls |-> IF ls[i].name = new.name THEN new ELSE ls[i]]
    PROVE  IsSequence(to) /\ Len(to) = Len(ls) /\ Len(ls) \in Nat /\ new.name \in NamesOf(to)
<1>1. DOMAIN ls = 1..Len(ls) /\ Len(ls) \in Nat
  BY DEF IsSequence
<1>2. to \in Seq({to[i] : i \in 1..Len(ls)}) /\ Len(to) = Len(ls)
  BY <1>1
<1>3. IsSequence(to) /\ DOMAIN to = DOMAIN ls
  BY <1>1, <1>2, IsSequenceOf
<1>. QED BY <1>1, <1>2, <1>3 DEF NamesOf

LEMMA Deleted ==
    ASSUME NEW ls, IsSequence(ls), NEW at \in DOMAIN ls
    PROVE  /\ IsSequence(RemoveAt(ls, at)) /\ Len(RemoveAt(ls, at)) = Len(ls) - 1 /\ Len(ls) \in Nat
           /\ \A n \in NamesOf(ls) : n # ls[at].name => n \in NamesOf(RemoveAt(ls, at))
<1> DEFINE S == {ls[i] : i \in DOMAIN ls}
           left == SubSeq(ls, 1, at - 1)
           right == SubSeq(ls, at + 1, Len(ls))
<1>1. ls \in Seq(S) /\ DOMAIN ls = 1..Len(ls) /\ Len(ls) \in Nat /\ at \in 1..Len(ls)
  BY DEF IsSequence
<1>2. \A i \in 1..Len(ls) : ls[i] \in S
  BY <1>1
<1>. HIDE DEF S
<1>3. /\ left \in Seq(S) /\ Len(left) = at - 1
      /\ \A i \in 1..at - 1 : left[i] = ls[i]
  <2>1. 1 \in Int /\ at - 1 \in Int /\ \A i \in 1..at - 1 : ls[i] \in S
    BY <1>1, <1>2
  <2>2. /\ left \in Seq(S) /\ Len(left) = IF 1 <= at - 1 THEN at - 1 - 1 + 1 ELSE 0
        /\ \A i \in 1..at - 1 - 1 + 1 : left[i] = ls[1 + i - 1]
    BY <2>1, SubSeqProperties
  <2>. QED BY <1>1, <2>2
<1>4. /\ right \in Seq(S) /\ Len(right) = Len(ls) - at
      /\ \A i \in 1..Len(ls) - at : right[i] = ls[at + i]
  <2>1. at + 1 \in Int /\ Len(ls) \in Int /\ \A i \in at + 1..Len(ls) : ls[i] \in S
    BY <1>1, <1>2
  <2>2. /\ right \in Seq(S) /\ Len(right) = IF at + 1 <= Len(ls) THEN Len(ls) - (at + 1) + 1 ELSE 0
        /\ \A i \in 1..Len(ls) - (at + 1) + 1 : right[i] = ls[at + 1 + i - 1]
    BY <2>1, SubSeqProperties
  <2>. QED BY <1>1, <2>2
<1>. HIDE DEF left, right
<1>5. RemoveAt(ls, at) = left \o right
  BY DEF RemoveAt, left, right
<1>6. /\ left \o right \in Seq(S) /\ Len(left \o right) = Len(ls) - 1
      /\ \A i \in 1..Len(ls) - 1 : (left \o right)[i] = IF i < at THEN ls[i] ELSE ls[i + 1]
  <2>1. /\ left \o right \in Seq(S) /\ Len(left \o right) = Len(left) + Len(right)
        /\ \A i \in 1..Len(left) + Len(right) : (left \o right)[i] = IF i <= Len(left) THEN left[i] ELSE right[i - Len(left)]
    BY <1>3, <1>4, ConcatProperties
  <2>2. Len(left) = at - 1 /\ Len(right) = Len(ls) - at /\ Len(left) + Len(right) = Len(ls) - 1
    BY <1>1, <1>3, <1>4
  <2>3. ASSUME NEW i \in 1..Len(ls) - 1 PROVE (left \o right)[i] = IF i < at THEN ls[i] ELSE ls[i + 1]
    <3>1. (left \o right)[i] = IF i <= at - 1 THEN left[i] ELSE right[i - (at - 1)]
      BY <2>1, <2>2
    <3>2. CASE i < at
      <4>1. i <= at - 1 /\ i \in 1..at - 1
        BY <1>1, <3>2
      <4>. QED BY <1>3, <3>1, <3>2, <4>1
    <3>3. CASE ~(i < at)
      <4>1. ~(i <= at - 1) /\ i - (at - 1) \in 1..Len(ls) - at /\ at + (i - (at - 1)) = i + 1
        BY <1>1, <3>3
      <4>2. right[i - (at - 1)] = ls[at + (i - (at - 1))]
        BY <1>4, <4>1
      <4>. QED BY <3>1, <3>3, <4>1, <4>2
    <3>. QED BY <3>2, <3>3
  <2>. QED BY <2>1, <2>2, <2>3
<1>7. IsSequence(left \o right) /\ DOMAIN (left \o right) = 1..Len(ls) - 1
  BY <1>6, IsSequenceOf
<1>8. \A j \in DOMAIN ls \ {at} : \E i \in DOMAIN (left \o right) : (left \o right)[i] = ls[j]
  <2> SUFFICES ASSUME NEW j \in DOMAIN ls \ {at} PROVE \E i \in DOMAIN (left \o right) : (left \o right)[i] = ls[j]
    OBVIOUS
  <2>1. CASE j < at
    <3>1. j \in 1..Len(ls) - 1
      BY <1>1, <2>1
    <3>. QED BY <1>6, <1>7, <2>1, <3>1
  <2>2. CASE at < j
    <3>1. j - 1 \in 1..Len(ls) - 1 /\ ~(j - 1 < at) /\ j - 1 + 1 = j
      BY <1>1, <2>2
    <3>. QED BY <1>6, <1>7, <3>1
  <2>. QED BY <1>1, <2>1, <2>2
<1>9. ASSUME NEW n \in NamesOf(ls), n # ls[at].name PROVE n \in NamesOf(left \o right)
  <2>1. PICK j \in DOMAIN ls : ls[j].name = n
    BY DEF NamesOf
  <2>2. PICK i \in DOMAIN (left \o right) : (left \o right)[i] = ls[j]
    BY <1>8, <1>9, <2>1
  <2>. QED BY <2>1, <2>2 DEF NamesOf
<1>. QED BY <1>1, <1>5, <1>6, <1>7, <1>9

LEMMA MaxLayoutsIsNat == MaxLayouts \in Nat
<1>1. {MaxId, MaxLayouts, Fits, MaxQueue, MaxActs} \subseteq Nat
  BY SceneAssumption
<1>. QED BY <1>1

\* fromJSON() takes what is acceptable as it is.
LEMMA AcceptedAsIs ==
    ASSUME NEW w, Acceptable(w)
    PROVE  Accepted(w).placements = w.placements /\ Accepted(w).layouts = w.layouts /\ Accepted(w).current = w.current
<1>1. w.layouts \in Seq({w.layouts[i] : i \in DOMAIN w.layouts}) /\ Len(w.layouts) <= MaxLayouts
  BY DEF Acceptable, IsSequence
<1>2. Len(w.layouts) \in Nat /\ MaxLayouts \in Nat
  BY <1>1, MaxLayoutsIsNat
<1>3. SubSeq(w.layouts, 1, IF Len(w.layouts) < MaxLayouts THEN Len(w.layouts) ELSE MaxLayouts) = w.layouts
  <2>1. (IF Len(w.layouts) < MaxLayouts THEN Len(w.layouts) ELSE MaxLayouts) = Len(w.layouts)
    BY <1>1, <1>2
  <2>. QED BY <1>1, <2>1, SubSeqFull
<1>4. w.current \in NamesOf(w.layouts) \cup {""}
  BY DEF Acceptable
<1>. QED BY <1>3, <1>4 DEF Accepted

\* What the workspace becomes when its parts change.
LEMMA AcceptableAfter ==
    ASSUME IsSequence(layouts'), Len(layouts') <= MaxLayouts, current' \in NamesOf(layouts') \cup {""}
    PROVE  Acceptable(Workspace')
BY DEF Acceptable, Workspace

LEMMA InitFile == SceneInit => FileInv
<1> SUFFICES ASSUME SceneInit PROVE FileInv
  OBVIOUS
<1>1. file = Workspace
  BY DEF SceneInit, Empty, Workspace
<1>2. IsSequence(<<>>) /\ Len(<<>>) = 0
  BY DEF IsSequence
<1>3. Acceptable(Workspace)
  <2>1. layouts = <<>> /\ current = ""
    BY DEF SceneInit
  <2>. HIDE DEF SceneInit
  <2>2. Workspace.layouts = <<>> /\ Workspace.current = ""
    BY <2>1 DEF Workspace
  <2>3. Workspace = [placements |-> Workspace.placements, layouts |-> Workspace.layouts, current |-> Workspace.current]
    BY DEF Workspace
  <2>. HIDE DEF Workspace
  <2>4. Len(Workspace.layouts) <= MaxLayouts
    <3>1. Len(Workspace.layouts) = 0
      BY <1>2, <2>2, Zenon
    <3>2. 0 <= MaxLayouts
      BY MaxLayoutsIsNat
    <3>. QED BY <3>1, <3>2, Zenon
  <2>. QED BY <1>2, <2>2, <2>3, <2>4 DEF Acceptable
<1>. QED BY <1>1, <1>3 DEF FileInv

\* The case of nearly every step: the workspace is left alone, and the file and the debounce with it.
LEMMA SameFile == FileInv /\ UNCHANGED <<workspaceVars, file, saving>> => FileInv'
<1> SUFFICES ASSUME FileInv, UNCHANGED <<workspaceVars, file, saving>> PROVE FileInv'
  OBVIOUS
<1>1. Workspace' = Workspace
  BY DEF workspaceVars, Workspace
<1>2. Acceptable(Workspace') /\ Acceptable(file') /\ (saving' \in {"armed", "failed"} \/ file' = Workspace')
  BY <1>1 DEF FileInv
<1>. QED BY <1>2 DEF FileInv, Acceptable

\* A save is due: it is enough that the workspace could be read back.
LEMMA DueFile ==
    ASSUME FileInv, UNCHANGED file, saving' = "armed",
           IsSequence(layouts'), Len(layouts') <= MaxLayouts, current' \in NamesOf(layouts') \cup {""}
    PROVE  FileInv'
BY AcceptableAfter DEF FileInv, Acceptable

LEMMA LayoutsFacts ==
    ASSUME FileInv
    PROVE  IsSequence(layouts) /\ Len(layouts) <= MaxLayouts /\ current \in NamesOf(layouts) \cup {""}
BY DEF FileInv, Acceptable, Workspace

LEMMA RouteFile == ASSUME FileInv, Route PROVE FileInv'
<1> DEFINE m == Head(up)
<1>. HIDE DEF m
<1>0. UNCHANGED file /\ MaxLayouts \in Nat
  BY MaxLayoutsIsNat DEF Route
<1>1. CASE RouteAdd(m) \/ RouteRemove(m)
  BY <1>0, <1>1, SameFile DEF RouteAdd, RouteRemove
<1>2. CASE RoutePose(m)
  BY <1>0, <1>2, LayoutsFacts, DueFile DEF RoutePose, Changed
<1>3. CASE RouteSave(m)
  <2> DEFINE new == [name |-> m.name, entries |-> m.entries]
             to == [i \in DOMAIN layouts |-> IF layouts[i].name = m.name THEN new ELSE layouts[i]]
  <2>1. new.name = m.name
    OBVIOUS
  <2>2. to = [i \in DOMAIN layouts |-> IF layouts[i].name = new.name THEN new ELSE layouts[i]]
    BY <2>1
  <2>3. CASE m.name \notin NamesOf(layouts) /\ Len(layouts) >= MaxLayouts
    BY <1>0, <1>3, <2>3, SameFile DEF RouteSave
  <2>4. CASE m.name \notin NamesOf(layouts) /\ ~(Len(layouts) >= MaxLayouts)
    <3>1. layouts' = Append(layouts, new) /\ current' = m.name /\ saving' = "armed"
      BY <1>3, <2>4 DEF RouteSave, Changed
    <3>. HIDE DEF new
    <3>2. IsSequence(layouts') /\ Len(layouts') = Len(layouts) + 1 /\ Len(layouts) \in Nat /\ current' \in NamesOf(layouts')
      BY <2>1, <3>1, LayoutsFacts, Appended
    <3>3. Len(layouts') <= MaxLayouts
      BY <1>0, <2>4, <3>2
    <3>. QED BY <1>0, <3>1, <3>2, <3>3, DueFile
  <2>5. CASE m.name \in NamesOf(layouts)
    <3>1. layouts' = to /\ current' = m.name /\ saving' = "armed"
      BY <1>3, <2>5 DEF RouteSave, Changed
    <3>2. IsSequence(layouts) /\ new.name \in NamesOf(layouts)
      BY <2>1, <2>5, LayoutsFacts
    <3>. HIDE DEF new, to
    <3>3. IsSequence(to) /\ Len(to) = Len(layouts) /\ new.name \in NamesOf(to)
      BY <2>2, <3>2, Replaced
    <3>4. IsSequence(layouts') /\ Len(layouts') = Len(layouts) /\ current' \in NamesOf(layouts')
      BY <2>1, <3>1, <3>3
    <3>. QED BY <1>0, <3>1, <3>4, LayoutsFacts, DueFile
  <2>. QED BY <2>3, <2>4, <2>5
<1>4. CASE RouteDelete(m)
  <2> DEFINE at == CHOOSE i \in DOMAIN layouts : layouts[i].name = m.name
  <2>1. CASE m.name \notin NamesOf(layouts)
    BY <1>0, <1>4, <2>1, SameFile DEF RouteDelete
  <2>2. CASE m.name \in NamesOf(layouts)
    <3>1. layouts' = RemoveAt(layouts, at) /\ current' = (IF current = m.name THEN "" ELSE current) /\ saving' = "armed"
      BY <1>4, <2>2 DEF RouteDelete, Changed
    <3>2. at \in DOMAIN layouts /\ layouts[at].name = m.name
      BY <2>2 DEF NamesOf
    <3>. HIDE DEF at
    <3>3. /\ IsSequence(layouts') /\ Len(layouts') = Len(layouts) - 1 /\ Len(layouts) \in Nat
          /\ \A n \in NamesOf(layouts) : n # m.name => n \in NamesOf(layouts')
      BY <3>1, <3>2, LayoutsFacts, Deleted
    <3>4. Len(layouts') <= MaxLayouts
      <4>1. Len(layouts) <= MaxLayouts
        BY LayoutsFacts
      <4>. QED BY <1>0, <3>3, <4>1
    <3>5. current' \in NamesOf(layouts') \cup {""}
      BY <3>1, <3>3, LayoutsFacts
    <3>. QED BY <1>0, <3>1, <3>3, <3>4, <3>5, DueFile
  <2>. QED BY <2>1, <2>2
<1>5. CASE RouteApply(m)
  <2>1. CASE m.name \notin NamesOf(layouts)
    BY <1>0, <1>5, <2>1, SameFile DEF RouteApply
  <2>2. CASE m.name \in NamesOf(layouts)
    <3>1. current' = m.name /\ UNCHANGED layouts /\ saving' = "armed"
      BY <1>5, <2>2 DEF RouteApply, Changed
    <3>. QED BY <1>0, <2>2, <3>1, LayoutsFacts, DueFile
  <2>. QED BY <2>1, <2>2
<1>6. CASE UNCHANGED <<workspaceVars, saving>>
  BY <1>0, <1>6, SameFile
<1>. QED BY <1>1, <1>2, <1>3, <1>4, <1>5, <1>6 DEF Route, m

LEMMA RestartFile == ASSUME NEW f, Acceptable(f), Restarted(f) PROVE FileInv' /\ Workspace' = f
<1>1. placements' = f.placements /\ layouts' = f.layouts /\ current' = f.current /\ file' = f /\ saving' = "done"
  BY AcceptedAsIs DEF Restarted
<1>2. Workspace' = [placements |-> f.placements, layouts |-> f.layouts, current |-> f.current]
  BY <1>1 DEF Workspace
<1>3. Workspace' = f
  BY <1>2 DEF Acceptable
<1>. QED BY <1>1, <1>3 DEF FileInv, Acceptable

LEMMA StepFile == FileInv /\ [SceneNext]_sceneVars => FileInv'
<1> SUFFICES ASSUME FileInv, [SceneNext]_sceneVars PROVE FileInv'
  OBVIOUS
<1>1. CASE User
  <2>1. UNCHANGED bridgeVars
    BY <1>1 DEF User, AddDevice, RemoveDevice, Grab, LetGo, Carry, Placed, SaveLayout, DeleteLayout, ApplyLayout
  <2>. QED BY <2>1, SameFile DEF bridgeVars
<1>2. CASE Hear \/ Disconnect \/ Stray \/ UNCHANGED sceneVars
  BY <1>2, SameFile DEF Hear, Disconnect, Stray, sceneVars, bridgeVars
<1>3. CASE Route
  BY <1>3, RouteFile
<1>4. CASE (\E d \in Ids : Settle(d)) \/ Connect \/ GraceOver
  BY <1>4, SameFile DEF Settle, Connect, GraceOver
<1>5. CASE SaveTimer
  <2>1. file' = Workspace /\ Workspace' = Workspace /\ saving' = "done"
    BY <1>5 DEF SaveTimer, workspaceVars, Workspace
  <2>. QED BY <2>1 DEF FileInv, Acceptable
<1>6. CASE Quit
  <2>1. Acceptable(IF saving = "armed" THEN Workspace ELSE file)
    BY DEF FileInv
  <2>. QED BY <1>6, <2>1, RestartFile DEF Quit
<1>7. CASE Crash
  BY <1>7, RestartFile DEF Crash, FileInv
<1>8. CASE SaveFails
  <2>1. UNCHANGED file /\ Workspace' = Workspace /\ saving' = "failed"
    BY <1>8 DEF SaveFails, workspaceVars, Workspace
  <2>. QED BY <2>1 DEF FileInv, Acceptable
<1>. QED BY <1>1, <1>2, <1>3, <1>4, <1>5, <1>6, <1>7, <1>8 DEF SceneNext

\* The inductive invariant of the workspace and its file.
THEOREM FileInvariant == SceneSpec => []FileInv
<1>. QED BY InitFile, StepFile, PTL DEF SceneSpec

\* An orderly end and a restart give back the workspace as it was, whatever was saved, deleted or applied before and
\* however often the bridge crashed (workspaceFile.ts; index.ts, the flush at shutdown).
THEOREM QuittingKeeps == SceneSpec => QuitKeepsTheWorkspace
<1>1. ASSUME FileInv, Quit, saving # "failed" PROVE Workspace' = Workspace
  <2>1. Acceptable(IF saving = "armed" THEN Workspace ELSE file) /\ (IF saving = "armed" THEN Workspace ELSE file) = Workspace
    BY <1>1 DEF FileInv
  <2>2. Restarted(IF saving = "armed" THEN Workspace ELSE file)
    BY <1>1 DEF Quit
  <2>. QED BY <2>1, <2>2, RestartFile
<1>2. FileInv => [Quit => Workspace' = Workspace \/ saving = "failed"]_sceneVars
  BY <1>1
<1>. QED BY <1>2, FileInvariant, PTL DEF QuitKeepsTheWorkspace

-----------------------------------------------------------------------------
(* What the scene is made of: sequences of devices, of entries of a roster *)
(* and of messages under way.                                              *)

\* Sets of numbers have a least one.
LEMMA Least == ASSUME NEW T, T \subseteq Nat, T # {} PROVE \E x \in T : \A y \in T : x <= y
<1> DEFINE U == {1..n : n \in T}
<1>1. \A n \in T : 1..n \in FiniteSubsetsOf(Nat)
  BY FS_Interval DEF FiniteSubsetsOf
<1>2. U \subseteq FiniteSubsetsOf(Nat) /\ U # {}
  BY <1>1
<1>3. PICK v \in U : \A w \in U : ~(<<w, v>> \in StrictSubsetOrdering(Nat))
  <2> HIDE DEF U
  <2> QED BY <1>2, FS_StrictSubsetOrderingWellFounded, WFMin
<1>4. PICK n \in T : v = 1..n
  OBVIOUS
<1>5. ASSUME NEW y \in T PROVE n <= y
  <2>1. 1..y \in U /\ 1..y \in SUBSET Nat /\ 1..n \in SUBSET Nat
    OBVIOUS
  <2>2. ~(1..y \subseteq 1..n /\ 1..y # 1..n)
    BY <1>3, <1>4, <2>1 DEF StrictSubsetOrdering
  <2>3. y < n => n \in 1..n /\ n \notin 1..y /\ 1..y \subseteq 1..n
    OBVIOUS
  <2>. QED BY <2>2, <2>3
<1>. QED BY <1>5

\* Induction over the numbers up to N, by the least one that is not in G.
LEMMA Induction ==
    ASSUME NEW N \in Nat, NEW G, 0 \in G, \A n \in 1..N : n - 1 \in G => n \in G
    PROVE  0..N \subseteq G
<1> DEFINE T == {n \in 0..N : n \notin G}
<1> SUFFICES ASSUME T # {} PROVE FALSE
  OBVIOUS
<1>1. PICK n \in T : \A y \in T : n <= y
  <2>1. T \subseteq Nat
    OBVIOUS
  <2>. HIDE DEF T
  <2>. QED BY <2>1, Least
<1>2. n \in 1..N /\ n - 1 \in 0..N
  OBVIOUS
<1>3. n - 1 \in T
  BY <1>2
<1>. QED BY <1>1, <1>2, <1>3

\* The elements of a sequence.
Elements(s) == {s[i] : i \in DOMAIN s}

\* Append, concatenation and Tail, for sequences of anything.
LEMMA AppendElements ==
    ASSUME NEW s, IsSequence(s), NEW x
    PROVE  /\ IsSequence(Append(s, x)) /\ DOMAIN Append(s, x) = 1..Len(s) + 1 /\ DOMAIN s = 1..Len(s) /\ Len(s) \in Nat
           /\ Append(s, x)[Len(s) + 1] = x /\ \A i \in 1..Len(s) : Append(s, x)[i] = s[i]
           /\ Elements(Append(s, x)) = Elements(s) \cup {x}
<1> DEFINE S == {s[i] : i \in DOMAIN s} \cup {x}
<1>1. s \in Seq(S)
  BY DEF IsSequence
<1>2. x \in S
  OBVIOUS
<1>. HIDE DEF S
<1>3. /\ Append(s, x) \in Seq(S) /\ DOMAIN s = 1..Len(s) /\ Len(s) \in Nat
      /\ DOMAIN Append(s, x) = 1..Len(s) + 1
      /\ Append(s, x)[Len(s) + 1] = x /\ \A i \in 1..Len(s) : Append(s, x)[i] = s[i]
  BY <1>1, <1>2
<1>4. IsSequence(Append(s, x))
  BY <1>3, IsSequenceOf
<1>. QED BY <1>3, <1>4 DEF Elements

LEMMA ConcatElements ==
    ASSUME NEW s, IsSequence(s), NEW t, IsSequence(t)
    PROVE  /\ IsSequence(s \o t) /\ DOMAIN s = 1..Len(s) /\ Len(s) \in Nat /\ DOMAIN t = 1..Len(t) /\ Len(t) \in Nat
           /\ DOMAIN (s \o t) = 1..Len(s) + Len(t)
           /\ \A i \in 1..Len(s) : (s \o t)[i] = s[i]
           /\ \A i \in 1..Len(t) : (s \o t)[Len(s) + i] = t[i]
<1> DEFINE S == {s[i] : i \in DOMAIN s} \cup {t[i] : i \in DOMAIN t}
<1>1. s \in Seq(S) /\ t \in Seq(S)
  BY DEF IsSequence
<1>. HIDE DEF S
<1>2. /\ s \o t \in Seq(S) /\ Len(s \o t) = Len(s) + Len(t)
      /\ \A i \in 1..Len(s) + Len(t) : (s \o t)[i] = IF i <= Len(s) THEN s[i] ELSE t[i - Len(s)]
  BY <1>1, ConcatProperties
<1>3. DOMAIN s = 1..Len(s) /\ Len(s) \in Nat /\ DOMAIN t = 1..Len(t) /\ Len(t) \in Nat
  BY <1>1
<1>4. IsSequence(s \o t) /\ DOMAIN (s \o t) = 1..Len(s) + Len(t)
  BY <1>2, IsSequenceOf
<1>5. \A i \in 1..Len(s) : (s \o t)[i] = s[i]
  BY <1>2, <1>3
<1>6. ASSUME NEW i \in 1..Len(t) PROVE (s \o t)[Len(s) + i] = t[i]
  <2>1. Len(s) + i \in 1..Len(s) + Len(t) /\ ~(Len(s) + i <= Len(s)) /\ (Len(s) + i) - Len(s) = i
    BY <1>3
  <2>. QED BY <1>2, <2>1
<1>. QED BY <1>3, <1>4, <1>5, <1>6

LEMMA TailElements ==
    ASSUME NEW s, IsSequence(s), s # <<>>
    PROVE  /\ IsSequence(Tail(s)) /\ DOMAIN s = 1..Len(s) /\ Len(s) \in Nat \ {0} /\ DOMAIN Tail(s) = 1..Len(s) - 1
           /\ Head(s) = s[1] /\ \A i \in 1..Len(s) - 1 : Tail(s)[i] = s[i + 1]
<1> DEFINE S == {s[i] : i \in DOMAIN s}
<1>1. s \in Seq(S)
  BY DEF IsSequence
<1>. HIDE DEF S
<1>2. /\ Tail(s) \in Seq(S) /\ Len(Tail(s)) = Len(s) - 1 /\ DOMAIN s = 1..Len(s) /\ Len(s) \in Nat \ {0}
      /\ Head(s) = s[1] /\ \A i \in 1..Len(s) - 1 : Tail(s)[i] = s[i + 1]
  <2>1. Len(s) \in Nat /\ DOMAIN s = 1..Len(s)
    BY <1>1
  <2>2. Len(s) # 0
    BY <1>1, EmptySeq
  <2>3. Tail(s) \in Seq(S) /\ Len(Tail(s)) = Len(s) - 1 /\ Head(s) = s[1]
    BY <1>1
  <2>4. \A i \in 1..Len(s) - 1 : Tail(s)[i] = s[i + 1]
    BY <1>1, <2>1, <2>2
  <2>. QED BY <2>1, <2>2, <2>3, <2>4
<1>3. IsSequence(Tail(s)) /\ DOMAIN Tail(s) = 1..Len(s) - 1
  BY <1>2, IsSequenceOf
<1>. QED BY <1>2, <1>3

LEMMA EmptyIsSequence == IsSequence(<<>>) /\ Elements(<<>>) = {} /\ Len(<<>>) = 0 /\ DOMAIN <<>> = {}
BY DEF IsSequence, Elements

\* A sequence of elements of S is one of S.
LEMMA SequenceIn == ASSUME NEW s, IsSequence(s), NEW S, Elements(s) \subseteq S PROVE s \in Seq(S)
<1>1. s \in Seq(Elements(s))
  BY DEF IsSequence, Elements
<1>2. DOMAIN s = 1..Len(s) /\ Len(s) \in Nat /\ s = [i \in 1..Len(s) |-> s[i]] /\ \A i \in 1..Len(s) : s[i] \in S
  BY <1>1
<1>. QED BY <1>2

LEMMA ElementsIn == ASSUME NEW S, NEW s \in Seq(S) PROVE Elements(s) \subseteq S
<1>1. DOMAIN s = 1..Len(s) /\ \A i \in 1..Len(s) : s[i] \in S
  OBVIOUS
<1>. QED BY <1>1 DEF Elements

\* No two devices have one id.
Apart(s) == \A i, j \in DOMAIN s : s[i].id = s[j].id => i = j

LEMMA ApartAppended ==
    ASSUME NEW s, IsSequence(s), Apart(s), NEW x, \A y \in Elements(s) : y.id # x.id
    PROVE  Apart(Append(s, x))
<1> DEFINE t == Append(s, x)
           n == Len(s)
<1>1. n \in Nat /\ DOMAIN t = 1..n + 1 /\ DOMAIN s = 1..n /\ t[n + 1] = x /\ \A i \in 1..n : t[i] = s[i]
  BY AppendElements
<1>. HIDE DEF t, n
<1>2. \A i \in 1..n : t[i].id # x.id
  BY <1>1 DEF Elements
<1>3. \A i \in 1..n + 1 : i \in 1..n \/ i = n + 1
  BY <1>1
<1>4. \A i, j \in 1..n : t[i].id = t[j].id => i = j
  BY <1>1 DEF Apart
<1>5. \A i, j \in 1..n + 1 : t[i].id = t[j].id => i = j
  BY <1>1, <1>2, <1>3, <1>4
<1>. QED BY <1>1, <1>5 DEF Apart, t

\* What is left of a sequence when some ids are filtered out of it.
LEMMA WithoutElements ==
    ASSUME NEW seq, IsSequence(seq), NEW ids
    PROVE  /\ IsSequence(Without(seq, ids))
           /\ Elements(Without(seq, ids)) = {x \in Elements(seq) : x.id \notin ids}
           /\ Apart(seq) => Apart(Without(seq, ids))
<1> DEFINE N == Len(seq)
           Step(n, q) == IF seq[n].id \in ids THEN q ELSE Append(q, seq[n])
           Kept(g, n) == g = [k \in 0..n |-> IF k = 0 THEN <<>> ELSE Step(k, g[k - 1])]
           G == {n \in 0..N : \E g : Kept(g, n)}
           F == CHOOSE g : g = [n \in 0..N |-> IF n = 0 THEN <<>>
                    ELSE IF seq[n].id \in ids THEN g[n - 1] ELSE Append(g[n - 1], seq[n])]
<1>1. N \in Nat /\ DOMAIN seq = 1..N
  BY DEF IsSequence
<1>2. Without(seq, ids) = F[N]
  BY Zenon DEF Without
<1>3. Kept(F, N)
  <2>1. 0 \in G
    <3> DEFINE z == [k \in 0..0 |-> <<>>]
    <3>1. Kept(z, 0)
      <4>1. \A k \in 0..0 : k = 0
        OBVIOUS
      <4>. QED BY <4>1, Zenon
    <3>2. 0 \in 0..N
      BY <1>1
    <3>. HIDE DEF Kept, z
    <3>. QED BY <3>1, <3>2
  <2>2. ASSUME NEW n \in 1..N, n - 1 \in G PROVE n \in G
    <3>1. PICK g : Kept(g, n - 1)
      BY <2>2
    <3> DEFINE h == [k \in 0..n |-> IF k = n THEN Step(n, g[n - 1]) ELSE g[k]]
    <3>2. \A k \in 0..n - 1 : h[k] = g[k]
      BY <1>1
    <3>3. h[n] = Step(n, h[n - 1])
      BY <1>1, <3>2
    <3>4. \A k \in 0..n - 1 : g[k] = IF k = 0 THEN <<>> ELSE Step(k, g[k - 1])
      BY <3>1
    <3>5. \A k \in 0..n : h[k] = IF k = 0 THEN <<>> ELSE Step(k, h[k - 1])
      <4>. HIDE DEF h, Step
      <4>1. ASSUME NEW k \in 0..n PROVE h[k] = IF k = 0 THEN <<>> ELSE Step(k, h[k - 1])
        <5>1. CASE k = n
          BY <1>1, <3>3, <5>1
        <5>2. CASE k # n
          <6>1. k \in 0..n - 1 /\ (k # 0 => k - 1 \in 0..n - 1)
            BY <1>1, <5>2
          <6>. QED BY <3>2, <3>4, <6>1
        <5>. QED BY <5>1, <5>2
      <4>. QED BY <4>1
    <3>6. Kept(h, n)
      <4>1. h = [k \in 0..n |-> h[k]]
        OBVIOUS
      <4>. HIDE DEF h, Step
      <4>. QED BY <3>5, <4>1, Zenon
    <3>7. n \in 0..N
      BY <1>1
    <3>. HIDE DEF Kept, h
    <3>. QED BY <3>6, <3>7
  <2>3. N \in G
    <3>. HIDE DEF G
    <3>1. 0..N \subseteq G
      BY <1>1, <2>1, <2>2, Induction
    <3>. QED BY <1>1, <3>1
  <2>. QED BY <2>3, Zenon
<1> DEFINE Good(n) == /\ IsSequence(F[n])
                      /\ Elements(F[n]) = {x \in {seq[i] : i \in 1..n} : x.id \notin ids}
                      /\ Apart(seq) => Apart(F[n])
<1>. HIDE DEF F
<1>4. Good(0)
  <2>1. F[0] = <<>>
    BY <1>1, <1>3
  <2>. QED BY <2>1, EmptyIsSequence DEF Apart
<1>5. ASSUME NEW n \in 1..N, Good(n - 1) PROVE Good(n)
  <2>1. F[n] = IF seq[n].id \in ids THEN F[n - 1] ELSE Append(F[n - 1], seq[n])
    <3>1. n \in 0..N /\ n # 0
      BY <1>1
    <3>2. F[n] = IF n = 0 THEN <<>> ELSE Step(n, F[n - 1])
      <4>. HIDE DEF Step
      <4>. QED BY <1>3, <3>1, Zenon
    <3>. QED BY <3>1, <3>2
  <2>2. \A i \in 1..n : i \in 1..n - 1 \/ i = n
    BY <1>1
  <2>3. 1..n - 1 \subseteq 1..n /\ n \in 1..n
    BY <1>1
  <2>4. CASE seq[n].id \in ids
    BY <1>5, <2>1, <2>2, <2>3, <2>4
  <2>5. CASE seq[n].id \notin ids
    <3>1. F[n] = Append(F[n - 1], seq[n])
      BY <2>1, <2>5
    <3>2. IsSequence(F[n]) /\ Elements(F[n]) = Elements(F[n - 1]) \cup {seq[n]}
      BY <1>5, <3>1, AppendElements
    <3>3. Elements(F[n]) = {x \in {seq[i] : i \in 1..n} : x.id \notin ids}
      BY <1>5, <2>2, <2>3, <2>5, <3>2
    <3>4. ASSUME Apart(seq) PROVE Apart(F[n])
      <4>1. n \in DOMAIN seq /\ \A i \in 1..n - 1 : i \in DOMAIN seq /\ i # n
        BY <1>1
      <4>2. \A y \in Elements(F[n - 1]) : y.id # seq[n].id
        BY <1>5, <3>4, <4>1 DEF Apart
      <4>. QED BY <1>5, <3>1, <3>4, <4>2, ApartAppended
    <3>. QED BY <3>2, <3>3, <3>4
  <2>. QED BY <2>4, <2>5
<1>6. Good(N)
  <2> DEFINE H == {n \in 0..N : Good(n)}
  <2>. HIDE DEF Good
  <2>1. 0 \in H
    BY <1>1, <1>4
  <2>2. \A n \in 1..N : n - 1 \in H => n \in H
    BY <1>1, <1>5
  <2>3. 0..N \subseteq H
    <3>. HIDE DEF H
    <3>. QED BY <1>1, <2>1, <2>2, Induction
  <2>. QED BY <1>1, <2>3
<1>. QED BY <1>1, <1>2, <1>6 DEF Elements

LEMMA IdsOfElements == ASSUME NEW s PROVE IdsOf(s) = {x.id : x \in Elements(s)}
BY DEF IdsOf, Elements

\* What a device of the room is: applyRoster() and applyLayout() change no more than its pose.
IsEntry(x) == x = [id |-> x.id, model |-> x.model, pose |-> x.pose]
IsRoom(r) == IsSequence(r) /\ \A i \in DOMAIN r : IsEntry(r[i])

\* Of the devices ids, those that no hand holds stand where P has them.
Stands(r, ids, P) == \A x \in Elements(r) : x.id \in ids \ held => P[x.id] \in {"none", x.pose}

LEMMA PoseOfEntry ==
    ASSUME NEW x, IsEntry(x), NEW p
    PROVE  IsEntry([x EXCEPT !.pose = p]) /\ [x EXCEPT !.pose = p].id = x.id /\ [x EXCEPT !.pose = p].pose = p
<1>1. PICK a, b, c : x = [id |-> a, model |-> b, pose |-> c]
  BY DEF IsEntry
<1>2. [x EXCEPT !.pose = p] = [id |-> a, model |-> b, pose |-> p]
  BY <1>1
<1>3. x.id = a
  BY <1>1
<1>4. \A y : y = [id |-> a, model |-> b, pose |-> p] => y.id = a /\ y.model = b /\ y.pose = p
  OBVIOUS
<1>. QED BY <1>2, <1>3, <1>4 DEF IsEntry

LEMMA NewEntry ==
    ASSUME NEW a, NEW b, NEW c
    PROVE  LET x == [id |-> a, model |-> b, pose |-> c] IN IsEntry(x) /\ x.id = a
BY DEF IsEntry

LEMMA EntryAppended ==
    ASSUME NEW r, IsRoom(r), NEW a, NEW b, NEW c
    PROVE  LET x == [id |-> a, model |-> b, pose |-> c]
           IN  IsRoom(Append(r, x)) /\ Elements(Append(r, x)) = Elements(r) \cup {x} /\ x.id = a
<1> DEFINE x == [id |-> a, model |-> b, pose |-> c]
<1>1. IsEntry(x) /\ x.id = a
  BY NewEntry
<1>. HIDE DEF x
<1>2. /\ IsSequence(Append(r, x)) /\ DOMAIN Append(r, x) = 1..Len(r) + 1 /\ DOMAIN r = 1..Len(r) /\ Len(r) \in Nat
      /\ Append(r, x)[Len(r) + 1] = x /\ \A i \in 1..Len(r) : Append(r, x)[i] = r[i]
      /\ Elements(Append(r, x)) = Elements(r) \cup {x}
  BY AppendElements DEF IsRoom
<1>3. ASSUME NEW i \in DOMAIN Append(r, x) PROVE IsEntry(Append(r, x)[i])
  <2>1. i \in 1..Len(r) \/ i = Len(r) + 1
    BY <1>2
  <2>. QED BY <1>1, <1>2, <2>1 DEF IsRoom
<1>4. IsRoom(Append(r, x))
  BY <1>2, <1>3 DEF IsRoom
<1>. QED BY <1>1, <1>2, <1>4 DEF x

\* A room some of whose devices have got other poses.
OnlyPoses(r, q) ==
    /\ DOMAIN q = DOMAIN r /\ q = [i \in DOMAIN r |-> q[i]]
    /\ \A i \in DOMAIN r : q[i] = r[i] \/ \E p : q[i] = [r[i] EXCEPT !.pose = p]

LEMMA Moved ==
    ASSUME NEW r, IsRoom(r), NEW q, OnlyPoses(r, q)
    PROVE  IsRoom(q) /\ IdsOf(q) = IdsOf(r) /\ \A i \in DOMAIN r : q[i].id = r[i].id
<1>1. DOMAIN r = 1..Len(r) /\ Len(r) \in Nat
  BY DEF IsRoom, IsSequence
<1>. USE DEF OnlyPoses
<1>2. IsSequence(q)
  <2>1. q \in Seq({q[i] : i \in 1..Len(r)})
    BY <1>1
  <2>. QED BY <2>1, IsSequenceOf
<1>3. ASSUME NEW i \in DOMAIN r PROVE IsEntry(q[i]) /\ q[i].id = r[i].id
  <2>1. IsEntry(r[i])
    BY DEF IsRoom
  <2>2. CASE q[i] = r[i]
    BY <2>1, <2>2
  <2>3. ASSUME NEW p, q[i] = [r[i] EXCEPT !.pose = p] PROVE IsEntry(q[i]) /\ q[i].id = r[i].id
    <3> DEFINE x == r[i]
    <3>1. IsEntry(x)
      BY <2>1
    <3>2. q[i] = [x EXCEPT !.pose = p]
      BY <2>3
    <3>. HIDE DEF IsEntry, x
    <3>3. IsEntry([x EXCEPT !.pose = p]) /\ [x EXCEPT !.pose = p].id = x.id
      BY <3>1, PoseOfEntry, Zenon
    <3>. QED BY <3>2, <3>3 DEF x
  <2>. QED BY <2>2, <2>3
<1>4. IsRoom(q)
  BY <1>2, <1>3 DEF IsRoom
<1>. QED BY <1>3, <1>4 DEF IdsOf

\* adopt() and adoptPlacement() of one entry of a roster.
LEMMA AdoptFacts ==
    ASSUME NEW r, IsRoom(r), NEW e
    PROVE  /\ IsRoom(Adopt(r, e))
           /\ IdsOf(Adopt(r, e)) = IdsOf(r) \cup {e.id}
           /\ \A ids, P : Stands(r, ids, P) /\ e.place = P[e.id] => Stands(Adopt(r, e), ids \cup {e.id}, P)
<1> DEFINE s == Claim(r, e)
           q == Adopt(r, e)
<1>1. IsRoom(s) /\ IdsOf(s) = IdsOf(r) \cup {e.id} /\ \A x \in Elements(s) : x.id # e.id => x \in Elements(r)
  <2>1. CASE e.id \in IdsOf(r)
    BY <2>1 DEF Claim
  <2>2. CASE e.id \notin IdsOf(r)
    <3> DEFINE x == [id |-> e.id, model |-> e.model, pose |-> "home"]
    <3>1. IsRoom(Append(r, x)) /\ Elements(Append(r, x)) = Elements(r) \cup {x} /\ x.id = e.id
      BY EntryAppended
    <3>2. s = Append(r, x)
      BY <2>2 DEF Claim
    <3>. HIDE DEF x, s
    <3>3. IdsOf(s) = IdsOf(r) \cup {e.id}
      <4>1. IdsOf(s) = {y.id : y \in Elements(r) \cup {x}} /\ IdsOf(r) = {y.id : y \in Elements(r)}
        BY <3>1, <3>2, IdsOfElements
      <4>. QED BY <3>1, <4>1
    <3>. QED BY <3>1, <3>2, <3>3 DEF s
  <2>. QED BY <2>1, <2>2
<1>. HIDE DEF s
<1>2. q = [i \in DOMAIN s |-> IF s[i].id = e.id /\ e.place # "none" /\ e.id \notin held
                              THEN [s[i] EXCEPT !.pose = e.place] ELSE s[i]]
  BY DEF Adopt, AdoptPlacement, s
<1>. HIDE DEF q
<1>3. /\ DOMAIN q = DOMAIN s /\ q = [i \in DOMAIN s |-> q[i]]
      /\ \A i \in DOMAIN s : q[i] = IF s[i].id = e.id /\ e.place # "none" /\ e.id \notin held
                                    THEN [s[i] EXCEPT !.pose = e.place] ELSE s[i]
  BY <1>2
<1>4. IsRoom(q) /\ IdsOf(q) = IdsOf(s) /\ \A i \in DOMAIN s : q[i].id = s[i].id
  <2>1. \A i \in DOMAIN s : q[i] = s[i] \/ \E p : q[i] = [s[i] EXCEPT !.pose = p]
    <3> SUFFICES ASSUME NEW i \in DOMAIN s, q[i] # s[i] PROVE \E p : q[i] = [s[i] EXCEPT !.pose = p]
      OBVIOUS
    <3>1. q[i] = [s[i] EXCEPT !.pose = e.place]
      BY <1>3
    <3>. QED BY <3>1
  <2>2. OnlyPoses(s, q)
    BY <1>3, <2>1, Zenon DEF OnlyPoses
  <2>. QED BY <1>1, <2>2, Moved
<1>5. ASSUME NEW ids, NEW P, Stands(r, ids, P), e.place = P[e.id]
      PROVE  Stands(q, ids \cup {e.id}, P)
  <2> SUFFICES ASSUME NEW i \in DOMAIN q, q[i].id \in (ids \cup {e.id}) \ held
               PROVE  P[q[i].id] \in {"none", q[i].pose}
    BY DEF Stands, Elements
  <2>1. q[i].id = s[i].id /\ i \in DOMAIN s /\ IsEntry(s[i])
    BY <1>1, <1>3, <1>4 DEF IsRoom
  <2>2. CASE s[i].id # e.id
    <3>1. q[i] = s[i] /\ s[i] \in Elements(s)
      BY <1>3, <2>1, <2>2 DEF Elements
    <3>2. q[i] \in Elements(r)
      BY <1>1, <2>2, <3>1
    <3>. QED BY <1>5, <2>1, <2>2, <3>2 DEF Stands
  <2>3. CASE s[i].id = e.id /\ e.place = "none"
    BY <1>5, <2>1, <2>3
  <2>4. CASE s[i].id = e.id /\ e.place # "none"
    <3>1. q[i] = [s[i] EXCEPT !.pose = e.place]
      BY <1>3, <2>1, <2>4
    <3>2. q[i].pose = e.place
      BY <2>1, <3>1, PoseOfEntry
    <3>. QED BY <1>5, <2>1, <2>4, <3>2
  <2>. QED BY <2>2, <2>3, <2>4
<1>. QED BY <1>1, <1>4, <1>5 DEF q

\* What a roster says of a device.
Places == SomePose \cup {"none"}
RosterEntry == [id : Ids, model : Models \cup {"vrmc"}, place : Places]

\* A room after a change that leaves what is in a hand alone.
Keeps(r, q) ==
    /\ Apart(r) => Apart(q)
    /\ \A x \in Elements(r) : x.id \in held => x \in Elements(q)

LEMMA AdoptKeeps ==
    ASSUME NEW r, IsRoom(r), NEW e
    PROVE  /\ Keeps(r, Adopt(r, e))
           /\ Elements(r) \subseteq Entry /\ e \in RosterEntry => Elements(Adopt(r, e)) \subseteq Entry
<1> DEFINE s == Claim(r, e)
           q == Adopt(r, e)
           x == [id |-> e.id, model |-> e.model, pose |-> "home"]
<1>1. IsRoom(Append(r, x)) /\ Elements(Append(r, x)) = Elements(r) \cup {x} /\ x.id = e.id
  BY EntryAppended
<1>2. e \in RosterEntry => x \in Entry
  BY DEF RosterEntry, Entry, SomePose
<1>3. s = IF e.id \in IdsOf(r) THEN r ELSE Append(r, x)
  BY DEF Claim
<1>. HIDE DEF x
<1>4. e.id \notin IdsOf(r) => \A y \in Elements(r) : y.id # x.id
  BY <1>1, IdsOfElements
<1>5. Keeps(r, s) /\ IsRoom(s) /\ (Elements(r) \subseteq Entry /\ e \in RosterEntry => Elements(s) \subseteq Entry)
  <2>1. CASE e.id \in IdsOf(r)
    BY <1>3, <2>1 DEF Keeps
  <2>2. CASE e.id \notin IdsOf(r)
    <3>1. Apart(r) => Apart(Append(r, x))
      BY <1>4, <2>2, ApartAppended DEF IsRoom
    <3>. QED BY <1>1, <1>2, <1>3, <2>2, <3>1 DEF Keeps
  <2>. QED BY <2>1, <2>2
<1>. HIDE DEF s
<1>6. q = [i \in DOMAIN s |-> IF s[i].id = e.id /\ e.place # "none" /\ e.id \notin held
                              THEN [s[i] EXCEPT !.pose = e.place] ELSE s[i]]
  BY DEF Adopt, AdoptPlacement, s
<1>. HIDE DEF q
<1>7. DOMAIN q = DOMAIN s
  BY <1>6
<1>8. ASSUME NEW i \in DOMAIN s
      PROVE  /\ q[i].id = s[i].id
             /\ s[i].id \in held => q[i] = s[i]
             /\ s[i] \in Entry /\ e \in RosterEntry => q[i] \in Entry
  <2>1. CASE s[i].id = e.id /\ e.place # "none" /\ e.id \notin held
    <3>1. q[i] = [s[i] EXCEPT !.pose = e.place]
      BY <1>6, <2>1
    <3>2. IsEntry(s[i])
      BY <1>5 DEF IsRoom
    <3>3. q[i].id = s[i].id
      BY <3>1, <3>2, PoseOfEntry
    <3>4. e \in RosterEntry => e.place \in SomePose
      BY <2>1 DEF RosterEntry, Places
    <3>5. s[i] \in Entry /\ e \in RosterEntry => q[i] \in Entry
      BY <3>1, <3>4 DEF Entry
    <3>. QED BY <2>1, <3>3, <3>5
  <2>2. CASE ~(s[i].id = e.id /\ e.place # "none" /\ e.id \notin held)
    BY <1>6, <2>2
  <2>. QED BY <2>1, <2>2
<1>9. Keeps(s, q) /\ (Elements(s) \subseteq Entry /\ e \in RosterEntry => Elements(q) \subseteq Entry)
  <2>1. Apart(s) => Apart(q)
    BY <1>7, <1>8 DEF Apart
  <2>2. \A y \in Elements(s) : y.id \in held => y \in Elements(q)
    BY <1>7, <1>8 DEF Elements
  <2>3. Elements(s) \subseteq Entry /\ e \in RosterEntry => Elements(q) \subseteq Entry
    BY <1>7, <1>8 DEF Elements
  <2>. QED BY <2>1, <2>2, <2>3 DEF Keeps
<1>. QED BY <1>5, <1>9 DEF Keeps, q

\* applyRoster(): the devices of the roster are in the room afterwards, where it says they stand.
LEMMA AdoptedFacts ==
    ASSUME NEW r, IsRoom(r), NEW entries, IsSequence(entries)
    PROVE  /\ IsRoom(Adopted(r, entries))
           /\ IdsOf(Adopted(r, entries)) = IdsOf(r) \cup IdsOf(entries)
           /\ \A P : (\A k \in DOMAIN entries : entries[k].place = P[entries[k].id])
                        => Stands(Adopted(r, entries), IdsOf(entries), P)
           /\ Keeps(r, Adopted(r, entries))
           /\ Elements(r) \subseteq Entry /\ Elements(entries) \subseteq RosterEntry => Elements(Adopted(r, entries)) \subseteq Entry
<1> DEFINE N == Len(entries)
           Step(n, q) == Adopt(q, entries[n])
           Kept(g, n) == g = [k \in 0..n |-> IF k = 0 THEN r ELSE Step(k, g[k - 1])]
           G == {n \in 0..N : \E g : Kept(g, n)}
           F == CHOOSE g : g = [n \in 0..N |-> IF n = 0 THEN r ELSE Adopt(g[n - 1], entries[n])]
<1>1. N \in Nat /\ DOMAIN entries = 1..N
  BY DEF IsSequence
<1>2. Adopted(r, entries) = F[N]
  BY Zenon DEF Adopted
<1>3. Kept(F, N)
  <2>1. 0 \in G
    <3> DEFINE z == [k \in 0..0 |-> r]
    <3>1. Kept(z, 0)
      <4>1. \A k \in 0..0 : k = 0
        OBVIOUS
      <4>. QED BY <4>1, Zenon
    <3>2. 0 \in 0..N
      BY <1>1
    <3>. HIDE DEF Kept, z
    <3>. QED BY <3>1, <3>2
  <2>2. ASSUME NEW n \in 1..N, n - 1 \in G PROVE n \in G
    <3>1. PICK g : Kept(g, n - 1)
      BY <2>2
    <3> DEFINE h == [k \in 0..n |-> IF k = n THEN Step(n, g[n - 1]) ELSE g[k]]
    <3>2. \A k \in 0..n - 1 : h[k] = g[k]
      BY <1>1
    <3>3. h[n] = Step(n, h[n - 1])
      BY <1>1, <3>2
    <3>4. \A k \in 0..n - 1 : g[k] = IF k = 0 THEN r ELSE Step(k, g[k - 1])
      BY <3>1
    <3>5. \A k \in 0..n : h[k] = IF k = 0 THEN r ELSE Step(k, h[k - 1])
      <4>. HIDE DEF h, Step
      <4>1. ASSUME NEW k \in 0..n PROVE h[k] = IF k = 0 THEN r ELSE Step(k, h[k - 1])
        <5>1. CASE k = n
          BY <1>1, <3>3, <5>1
        <5>2. CASE k # n
          <6>1. k \in 0..n - 1 /\ (k # 0 => k - 1 \in 0..n - 1)
            BY <1>1, <5>2
          <6>. QED BY <3>2, <3>4, <6>1
        <5>. QED BY <5>1, <5>2
      <4>. QED BY <4>1
    <3>6. Kept(h, n)
      <4>1. h = [k \in 0..n |-> h[k]]
        OBVIOUS
      <4>. HIDE DEF h, Step
      <4>. QED BY <3>5, <4>1, Zenon
    <3>7. n \in 0..N
      BY <1>1
    <3>. HIDE DEF Kept, h
    <3>. QED BY <3>6, <3>7
  <2>3. N \in G
    <3>. HIDE DEF G
    <3>1. 0..N \subseteq G
      BY <1>1, <2>1, <2>2, Induction
    <3>. QED BY <1>1, <3>1
  <2>. QED BY <2>3, Zenon
<1> DEFINE Told(n) == {entries[i].id : i \in 1..n}
           Good(n) == /\ IsRoom(F[n])
                      /\ IdsOf(F[n]) = IdsOf(r) \cup Told(n)
                      /\ \A P : (\A k \in DOMAIN entries : entries[k].place = P[entries[k].id]) => Stands(F[n], Told(n), P)
                      /\ Keeps(r, F[n])
                      /\ Elements(r) \subseteq Entry /\ Elements(entries) \subseteq RosterEntry => Elements(F[n]) \subseteq Entry
<1>. HIDE DEF F
<1>4. Good(0)
  <2>1. F[0] = r
    BY <1>1, <1>3
  <2>2. Told(0) = {}
    OBVIOUS
  <2>. QED BY <2>1, <2>2 DEF Stands, Keeps
<1>5. ASSUME NEW n \in 1..N, Good(n - 1) PROVE Good(n)
  <2> DEFINE e == entries[n]
  <2>1. F[n] = Adopt(F[n - 1], e)
    <3>1. n \in 0..N /\ n # 0
      BY <1>1
    <3>2. F[n] = IF n = 0 THEN r ELSE Step(n, F[n - 1])
      <4>. HIDE DEF Step
      <4>. QED BY <1>3, <3>1, Zenon
    <3>. QED BY <3>1, <3>2
  <2>2. Told(n) = Told(n - 1) \cup {e.id} /\ n \in DOMAIN entries
    <3>1. \A i \in 1..n : i \in 1..n - 1 \/ i = n
      BY <1>1
    <3>2. 1..n - 1 \subseteq 1..n /\ n \in 1..n /\ n \in 1..N
      BY <1>1
    <3>. QED BY <1>1, <3>1, <3>2
  <2>6. e \in Elements(entries)
    BY <2>2 DEF Elements
  <2>. HIDE DEF e, Told
  <2>3. IsRoom(F[n - 1]) /\ IdsOf(F[n - 1]) = IdsOf(r) \cup Told(n - 1)
    BY <1>5
  <2>4. /\ IsRoom(F[n]) /\ IdsOf(F[n]) = IdsOf(F[n - 1]) \cup {e.id}
        /\ \A ids, P : Stands(F[n - 1], ids, P) /\ e.place = P[e.id] => Stands(F[n], ids \cup {e.id}, P)
    BY <2>1, <2>3, AdoptFacts
  <2>5. ASSUME NEW P, \A k \in DOMAIN entries : entries[k].place = P[entries[k].id]
        PROVE  Stands(F[n], Told(n), P)
    <3>1. Stands(F[n - 1], Told(n - 1), P)
      BY <1>5, <2>5
    <3>2. e.place = P[e.id]
      BY <2>2, <2>5 DEF e
    <3>. QED BY <2>2, <2>4, <3>1, <3>2
  <2>7. Keeps(r, F[n])
    <3>1. Keeps(r, F[n - 1]) /\ Keeps(F[n - 1], F[n])
      BY <1>5, <2>1, <2>3, AdoptKeeps
    <3>. QED BY <3>1 DEF Keeps
  <2>8. Elements(r) \subseteq Entry /\ Elements(entries) \subseteq RosterEntry => Elements(F[n]) \subseteq Entry
    <3>1. Elements(F[n - 1]) \subseteq Entry /\ e \in RosterEntry => Elements(F[n]) \subseteq Entry
      BY <2>1, <2>3, AdoptKeeps
    <3>. QED BY <1>5, <2>6, <3>1
  <2>. QED BY <2>2, <2>3, <2>4, <2>5, <2>7, <2>8
<1>6. Good(N)
  <2> DEFINE H == {n \in 0..N : Good(n)}
  <2>. HIDE DEF Good
  <2>1. 0 \in H
    BY <1>1, <1>4
  <2>2. \A n \in 1..N : n - 1 \in H => n \in H
    BY <1>1, <1>5
  <2>3. 0..N \subseteq H
    <3>. HIDE DEF H
    <3>. QED BY <1>1, <2>1, <2>2, Induction
  <2>. QED BY <1>1, <2>3
<1>7. Told(N) = IdsOf(entries)
  BY <1>1 DEF IdsOf
<1>. HIDE DEF Told
<1>. QED BY <1>2, <1>6, <1>7

\* devicesMissingFromRoster(): every device the roster does not have is asked for.
LEMMA MissingFacts ==
    ASSUME NEW r, IsSequence(r), NEW entries
    PROVE  /\ IsSequence(Missing(r, entries))
           /\ \A d \in IdsOf(r) \ IdsOf(entries) :
                 \E i \in DOMAIN Missing(r, entries) : Missing(r, entries)[i].kind = "add" /\ Missing(r, entries)[i].id = d
<1> DEFINE lost == Without(r, IdsOf(entries))
           q == Missing(r, entries)
<1>1. IsSequence(lost) /\ Elements(lost) = {x \in Elements(r) : x.id \notin IdsOf(entries)}
  BY WithoutElements
<1>2. q = [i \in DOMAIN lost |-> [kind |-> "add", id |-> lost[i].id, model |-> lost[i].model]]
  BY DEF Missing
<1>. HIDE DEF lost, q
<1>3. DOMAIN lost = 1..Len(lost) /\ Len(lost) \in Nat
  BY <1>1 DEF IsSequence
<1>4. IsSequence(q) /\ DOMAIN q = DOMAIN lost
  <2>1. q = [i \in 1..Len(lost) |-> q[i]]
    BY <1>2, <1>3
  <2>2. q \in Seq({q[i] : i \in 1..Len(lost)})
    BY <1>3, <2>1
  <2>. QED BY <1>2, <2>2, IsSequenceOf
<1>5. ASSUME NEW d \in IdsOf(r) \ IdsOf(entries) PROVE \E i \in DOMAIN q : q[i].kind = "add" /\ q[i].id = d
  <2>1. PICK x \in Elements(r) : x.id = d
    BY DEF IdsOf, Elements
  <2>2. x \in Elements(lost)
    BY <1>1, <2>1
  <2>3. PICK i \in DOMAIN lost : lost[i] = x
    BY <2>2 DEF Elements
  <2>4. q[i] = [kind |-> "add", id |-> lost[i].id, model |-> lost[i].model]
    BY <1>2
  <2>. QED BY <1>4, <2>1, <2>3, <2>4
<1>. QED BY <1>4, <1>5 DEF q

\* What matchLayout() has made of the devices devs so far: who has got a pose, and what is left to match.
IsMatch(m, devs) ==
    /\ m = [to |-> m.to, left |-> m.left]
    /\ DOMAIN m.to \subseteq IdsOf(devs)
    /\ \A d \in DOMAIN m.to : m.to[d] \in SomePose
    /\ m.left \in Seq(Entry)

LEMMA TakeMatches ==
    ASSUME NEW devs, IsSequence(devs), NEW m, IsMatch(m, devs), NEW e \in Entry, NEW suits, suits \subseteq DOMAIN devs
    PROVE  IsMatch(Take(m, devs, e, suits), devs)
<1> DEFINE free == {i \in suits : devs[i].id \notin DOMAIN m.to}
           first == CHOOSE i \in free : \A j \in free : i <= j
           taken == DOMAIN m.to \cup {devs[first].id}
           with == [d \in taken |-> IF d = devs[first].id THEN e.pose ELSE m.to[d]]
<1>1. CASE free = {}
  <2>1. Take(m, devs, e, suits) = [m EXCEPT !.left = Append(m.left, e)]
    BY <1>1 DEF Take
  <2>2. [m EXCEPT !.left = Append(m.left, e)] = [to |-> m.to, left |-> Append(m.left, e)]
    BY DEF IsMatch
  <2>3. Append(m.left, e) \in Seq(Entry)
    BY DEF IsMatch
  <2>. QED BY <2>1, <2>2, <2>3 DEF IsMatch
<1>2. CASE free # {}
  <2>1. free \subseteq Nat /\ free \subseteq DOMAIN devs
    <3>1. DOMAIN devs = 1..Len(devs) /\ Len(devs) \in Nat
      BY DEF IsSequence
    <3>. QED BY <3>1
  <2>2. first \in DOMAIN devs
    <3>1. \E i \in free : \A j \in free : i <= j
      <4>. HIDE DEF free
      <4>. QED BY <1>2, <2>1, Least
    <3>. HIDE DEF free
    <3>. QED BY <2>1, <3>1
  <2>3. Take(m, devs, e, suits) = [m EXCEPT !.to = with]
    BY <1>2, Zenon DEF Take
  <2>. HIDE DEF free, first
  <2>4. devs[first].id \in IdsOf(devs)
    BY <2>2 DEF IdsOf
  <2>5. e.pose \in SomePose
    BY DEF Entry
  <2>6. /\ DOMAIN with = {devs[first].id} \cup DOMAIN m.to
        /\ \A d \in DOMAIN with : with[d] = IF d = devs[first].id THEN e.pose ELSE m.to[d]
    OBVIOUS
  <2>. HIDE DEF with
  <2>7. [m EXCEPT !.to = with] = [to |-> with, left |-> m.left]
    BY DEF IsMatch
  <2>8. DOMAIN with \subseteq IdsOf(devs)
    BY <2>4, <2>6 DEF IsMatch
  <2>9. \A d \in DOMAIN with : with[d] \in SomePose
    BY <2>5, <2>6 DEF IsMatch
  <2>. QED BY <2>3, <2>7, <2>8, <2>9 DEF IsMatch
<1>. QED BY <1>1, <1>2

\* A pass over entries leaves a match a match.
LEMMA PassMatches ==
    ASSUME NEW devs, IsSequence(devs), NEW m, IsMatch(m, devs), NEW entries \in Seq(Entry),
           NEW suits, \A n \in DOMAIN entries : suits[n] \subseteq DOMAIN devs
    PROVE  IsMatch(Pass(m, devs, entries, suits), devs)
<1> DEFINE N == Len(entries)
           Step(n, q) == Take(q, devs, entries[n], suits[n])
           Kept(g, n) == g = [k \in 0..n |-> IF k = 0 THEN m ELSE Step(k, g[k - 1])]
           G == {n \in 0..N : \E g : Kept(g, n)}
           F == CHOOSE g : g = [n \in 0..N |-> IF n = 0 THEN m ELSE Take(g[n - 1], devs, entries[n], suits[n])]
<1>1. N \in Nat /\ DOMAIN entries = 1..N
  OBVIOUS
<1>2. Pass(m, devs, entries, suits) = F[N]
  BY Zenon DEF Pass
<1>3. Kept(F, N)
  <2>1. 0 \in G
    <3> DEFINE z == [k \in 0..0 |-> m]
    <3>1. Kept(z, 0)
      <4>1. \A k \in 0..0 : k = 0
        OBVIOUS
      <4>. QED BY <4>1, Zenon
    <3>2. 0 \in 0..N
      BY <1>1
    <3>. HIDE DEF Kept, z
    <3>. QED BY <3>1, <3>2
  <2>2. ASSUME NEW n \in 1..N, n - 1 \in G PROVE n \in G
    <3>1. PICK g : Kept(g, n - 1)
      BY <2>2
    <3> DEFINE h == [k \in 0..n |-> IF k = n THEN Step(n, g[n - 1]) ELSE g[k]]
    <3>2. \A k \in 0..n - 1 : h[k] = g[k]
      BY <1>1
    <3>3. h[n] = Step(n, h[n - 1])
      BY <1>1, <3>2
    <3>4. \A k \in 0..n - 1 : g[k] = IF k = 0 THEN m ELSE Step(k, g[k - 1])
      BY <3>1
    <3>5. \A k \in 0..n : h[k] = IF k = 0 THEN m ELSE Step(k, h[k - 1])
      <4>. HIDE DEF h, Step
      <4>1. ASSUME NEW k \in 0..n PROVE h[k] = IF k = 0 THEN m ELSE Step(k, h[k - 1])
        <5>1. CASE k = n
          BY <1>1, <3>3, <5>1
        <5>2. CASE k # n
          <6>1. k \in 0..n - 1 /\ (k # 0 => k - 1 \in 0..n - 1)
            BY <1>1, <5>2
          <6>. QED BY <3>2, <3>4, <6>1
        <5>. QED BY <5>1, <5>2
      <4>. QED BY <4>1
    <3>6. Kept(h, n)
      <4>1. h = [k \in 0..n |-> h[k]]
        OBVIOUS
      <4>. HIDE DEF h, Step
      <4>. QED BY <3>5, <4>1, Zenon
    <3>7. n \in 0..N
      BY <1>1
    <3>. HIDE DEF Kept, h
    <3>. QED BY <3>6, <3>7
  <2>3. N \in G
    <3>. HIDE DEF G
    <3>1. 0..N \subseteq G
      BY <1>1, <2>1, <2>2, Induction
    <3>. QED BY <1>1, <3>1
  <2>. QED BY <2>3, Zenon
<1>. HIDE DEF F
<1>4. IsMatch(F[0], devs)
  <2>1. F[0] = m
    BY <1>1, <1>3
  <2>. QED BY <2>1
<1>5. ASSUME NEW n \in 1..N, IsMatch(F[n - 1], devs) PROVE IsMatch(F[n], devs)
  <2>1. n \in 0..N /\ n # 0 /\ entries[n] \in Entry /\ suits[n] \subseteq DOMAIN devs
    BY <1>1
  <2>2. F[n] = IF n = 0 THEN m ELSE Step(n, F[n - 1])
    <3>. HIDE DEF Step
    <3>. QED BY <1>3, <2>1, Zenon
  <2>3. F[n] = Take(F[n - 1], devs, entries[n], suits[n])
    BY <2>1, <2>2
  <2>. QED BY <1>5, <2>1, <2>3, TakeMatches
<1>6. IsMatch(F[N], devs)
  <2> DEFINE H == {n \in 0..N : IsMatch(F[n], devs)}
  <2>1. 0 \in H
    BY <1>1, <1>4
  <2>2. \A n \in 1..N : n - 1 \in H => n \in H
    BY <1>1, <1>5
  <2>3. 0..N \subseteq H
    <3>. HIDE DEF H
    <3>. QED BY <1>1, <2>1, <2>2, Induction
  <2>. QED BY <1>1, <2>3
<1>. QED BY <1>2, <1>6

\* matchLayout(): poses for some of the devices it is given, and for no other.
LEMMA MatchFacts ==
    ASSUME NEW entries \in Seq(Entry), NEW devs, IsSequence(devs)
    PROVE  /\ DOMAIN Match(entries, devs) \subseteq IdsOf(devs)
           /\ \A d \in DOMAIN Match(entries, devs) : Match(entries, devs)[d] \in SomePose
<1> DEFINE OfModel(e) == {i \in DOMAIN devs : devs[i].model = e.model}
           Exactly(e) == {i \in OfModel(e) : devs[i].id = e.id}
           none == [to |-> <<>>, left |-> <<>>]
           same == [n \in DOMAIN entries |-> Exactly(entries[n])]
           exact == Pass(none, devs, entries, same)
           pending == exact.left
           like == [n \in DOMAIN pending |-> OfModel(pending[n])]
<1>1. IsMatch(none, devs)
  BY DEF IsMatch
<1>2. \A n \in DOMAIN entries : same[n] \subseteq DOMAIN devs
  OBVIOUS
<1>3. IsMatch(exact, devs)
  <2>. HIDE DEF none, same
  <2>. QED BY <1>1, <1>2, PassMatches
<1>4. Match(entries, devs) = Pass(exact, devs, pending, like).to
  BY Zenon DEF Match
<1>. HIDE DEF exact
<1>5. pending \in Seq(Entry) /\ \A n \in DOMAIN pending : like[n] \subseteq DOMAIN devs
  BY <1>3 DEF IsMatch
<1>. HIDE DEF pending, like
<1>6. IsMatch(Pass(exact, devs, pending, like), devs)
  BY <1>3, <1>5, PassMatches
<1>. QED BY <1>4, <1>6 DEF IsMatch

\* applyLayout(): the same devices, and those in a hand where they were.
LEMMA ArrangeFacts ==
    ASSUME NEW r, IsRoom(r), NEW ls, NEW n
    PROVE  /\ IsRoom(Arrange(r, ls, n)) /\ IdsOf(Arrange(r, ls, n)) = IdsOf(r)
           /\ Named(ls, n).entries \in Seq(Entry) =>
                /\ Keeps(r, Arrange(r, ls, n))
                /\ Elements(r) \subseteq Entry => Elements(Arrange(r, ls, n)) \subseteq Entry
<1> DEFINE to == Match(Named(ls, n).entries, Without(r, held))
           q == Arrange(r, ls, n)
<1>. HIDE DEF to
<1>1. q = [i \in DOMAIN r |-> IF r[i].id \in DOMAIN to THEN [r[i] EXCEPT !.pose = to[r[i].id]] ELSE r[i]]
  BY Zenon DEF Arrange, Placing, to
<1>. HIDE DEF q
<1>2. OnlyPoses(r, q)
  <2>1. DOMAIN q = DOMAIN r /\ q = [i \in DOMAIN r |-> q[i]]
    BY <1>1
  <2>2. ASSUME NEW i \in DOMAIN r, q[i] # r[i] PROVE \E p : q[i] = [r[i] EXCEPT !.pose = p]
    <3>1. q[i] = [r[i] EXCEPT !.pose = to[r[i].id]]
      BY <1>1, <2>2
    <3>. QED BY <3>1
  <2>. QED BY <2>1, <2>2, Zenon DEF OnlyPoses
<1>3. IsRoom(q) /\ IdsOf(q) = IdsOf(r) /\ \A i \in DOMAIN r : q[i].id = r[i].id
  BY <1>2, Moved
<1>4. ASSUME Named(ls, n).entries \in Seq(Entry)
      PROVE  Keeps(r, q) /\ (Elements(r) \subseteq Entry => Elements(q) \subseteq Entry)
  <2>1. IsSequence(Without(r, held)) /\ Elements(Without(r, held)) = {x \in Elements(r) : x.id \notin held}
    BY WithoutElements DEF IsRoom
  <2>2. IdsOf(Without(r, held)) \cap held = {}
    BY <2>1, IdsOfElements
  <2>3. DOMAIN to \cap held = {} /\ \A d \in DOMAIN to : to[d] \in SomePose
    BY <1>4, <2>1, <2>2, MatchFacts DEF to
  <2>4. DOMAIN q = DOMAIN r
    BY <1>1
  <2>5. \A i \in DOMAIN r : r[i].id \in held => q[i] = r[i]
    BY <1>1, <2>3
  <2>6. Apart(r) => Apart(q)
    BY <1>3, <2>4 DEF Apart
  <2>7. Keeps(r, q)
    BY <2>4, <2>5, <2>6 DEF Keeps, Elements
  <2>8. ASSUME Elements(r) \subseteq Entry, NEW i \in DOMAIN r PROVE q[i] \in Entry
    <3>1. r[i] \in Entry
      BY <2>8 DEF Elements
    <3>2. CASE r[i].id \in DOMAIN to
      <4>1. q[i] = [r[i] EXCEPT !.pose = to[r[i].id]] /\ to[r[i].id] \in SomePose
        BY <1>1, <2>3, <3>2
      <4>. QED BY <3>1, <4>1 DEF Entry
    <3>3. CASE r[i].id \notin DOMAIN to
      BY <1>1, <3>1, <3>3
    <3>. QED BY <3>2, <3>3
  <2>9. Elements(r) \subseteq Entry => Elements(q) \subseteq Entry
    BY <2>4, <2>8 DEF Elements
  <2>. QED BY <2>7, <2>9
<1>. QED BY <1>3, <1>4 DEF q

\* A list of arrangements that is pushed has none that the bridge does not.
LEMMA LayoutStateFacts ==
    ASSUME NEW ls, IsSequence(ls), NEW c
    PROVE  LayoutState(ls, c).kind = "layouts" /\ NamesOf(LayoutState(ls, c).layouts) \subseteq NamesOf(ls)
<1> DEFINE n == IF Len(ls) < Fits THEN Len(ls) ELSE Fits
           t == SubSeq(ls, 1, n)
           S == {ls[i] : i \in DOMAIN ls}
<1>1. Fits \in Nat
  <2>1. {MaxId, MaxLayouts, Fits, MaxQueue, MaxActs} \subseteq Nat
    BY SceneAssumption
  <2>. QED BY <2>1
<1>2. ls \in Seq(S) /\ DOMAIN ls = 1..Len(ls) /\ Len(ls) \in Nat
  BY DEF IsSequence
<1>3. n \in Nat /\ n <= Len(ls)
  BY <1>1, <1>2
<1>4. DOMAIN t = 1..n /\ \A i \in 1..n : t[i] = ls[i] /\ i \in DOMAIN ls
  <2>. HIDE DEF n, S
  <2>1. \A i \in 1..n : ls[i] \in S
    BY <1>2, <1>3
  <2>2. /\ t \in Seq(S) /\ Len(t) = IF 1 <= n THEN n - 1 + 1 ELSE 0
        /\ \A i \in 1..n - 1 + 1 : t[i] = ls[1 + i - 1]
    BY <1>3, <2>1, SubSeqProperties
  <2>3. Len(t) = n /\ DOMAIN t = 1..Len(t)
    BY <1>3, <2>2
  <2>4. \A i \in 1..n : t[i] = ls[i] /\ i \in 1..Len(ls)
    BY <1>2, <1>3, <2>2
  <2>. QED BY <1>2, <2>3, <2>4
<1>5. LayoutState(ls, c) = [kind |-> "layouts", layouts |-> t, current |-> c]
  BY DEF LayoutState
<1>. HIDE DEF t, n
<1>6. NamesOf(t) \subseteq NamesOf(ls)
  BY <1>4 DEF NamesOf
<1>. QED BY <1>5, <1>6

\* A roster names the devices and says where they stand.
LEMMA RosterFacts ==
    ASSUME NEW ds, IsSequence(ds), NEW ps
    PROVE  LET m == Roster(ds, ps)
           IN  /\ m.kind = "roster" /\ IsSequence(m.entries) /\ IdsOf(m.entries) = IdsOf(ds)
               /\ \A k \in DOMAIN m.entries : m.entries[k].place = ps[m.entries[k].id]
<1> DEFINE es == [i \in DOMAIN ds |-> [id |-> ds[i].id, model |-> ds[i].model, place |-> ps[ds[i].id]]]
<1>1. Roster(ds, ps) = [kind |-> "roster", entries |-> es]
  BY DEF Roster
<1>2. DOMAIN ds = 1..Len(ds) /\ Len(ds) \in Nat
  BY DEF IsSequence
<1>3. \A i \in DOMAIN ds : es[i].id = ds[i].id /\ es[i].place = ps[ds[i].id]
  OBVIOUS
<1>4. DOMAIN es = DOMAIN ds /\ es = [i \in DOMAIN ds |-> es[i]]
  OBVIOUS
<1>. HIDE DEF es
<1>5. es \in Seq({es[i] : i \in 1..Len(ds)})
  BY <1>2, <1>4
<1>6. IsSequence(es)
  BY <1>5, IsSequenceOf
<1>7. IdsOf(es) = IdsOf(ds)
  BY <1>3, <1>4 DEF IdsOf
<1>. QED BY <1>1, <1>3, <1>4, <1>6, <1>7

-----------------------------------------------------------------------------
(* What the bridge has pushed and the headset has not heard.               *)

\* The rosters and the lists of arrangements among what the bridge has pushed.
RostersIn(q) == {i \in DOMAIN q : q[i].kind = "roster"}
ListsIn(q) == DOMAIN q \ RostersIn(q)
Followed(q, i) == \E j \in RostersIn(q) : i < j
Crossed(q) == \E i \in ListsIn(q) : Followed(q, i)

IsQueue(q) == IsSequence(q) /\ \A i \in RostersIn(q) : IsSequence(q[i].entries)

\* The last roster under way is what the bridge has.
LastIsTrue(q, ds, ps) ==
    \A i \in RostersIn(q) : (\A j \in RostersIn(q) : j <= i) =>
        /\ IdsOf(q[i].entries) = IdsOf(ds)
        /\ \A k \in DOMAIN q[i].entries : q[i].entries[k].place = ps[q[i].entries[k].id]

\* An arrangement that the headset is about to be told of is one the bridge has,
\* or another list is under way and a roster behind that one.
ListsAreKnown(q, ls) ==
    \A i \in ListsIn(q) :
        \/ NamesOf(q[i].layouts) \subseteq NamesOf(ls)
        \/ \E j \in ListsIn(q) : i < j /\ Followed(q, j)

LEMMA Singles ==
    ASSUME NEW x, NEW y
    PROVE  /\ IsSequence(<<x>>) /\ Len(<<x>>) = 1 /\ <<x>>[1] = x /\ Elements(<<x>>) = {x}
           /\ IsSequence(<<x, y>>) /\ Len(<<x, y>>) = 2 /\ <<x, y>>[1] = x /\ <<x, y>>[2] = y
<1>1. <<x>> \in Seq({x, y}) /\ <<x, y>> \in Seq({x, y}) /\ Len(<<x>>) = 1 /\ Len(<<x, y>>) = 2
  OBVIOUS
<1>2. <<x>>[1] = x /\ <<x, y>>[1] = x /\ <<x, y>>[2] = y
  OBVIOUS
<1>3. IsSequence(<<x>>) /\ IsSequence(<<x, y>>) /\ DOMAIN <<x>> = 1..1
  BY <1>1, IsSequenceOf
<1>4. Elements(<<x>>) = {x}
  BY <1>2, <1>3 DEF Elements
<1>. QED BY <1>1, <1>2, <1>3, <1>4

\* A roster is pushed, alone or with a list of arrangements before or after it.
LEMMA PushFacts ==
    ASSUME NEW q, IsQueue(q), NEW ds, IsSequence(ds), NEW ps, NEW ls, IsSequence(ls), NEW c,
           NEW old, ListsAreKnown(q, old),
           NEW ms, ms \in {<<Roster(ds, ps)>>, <<LayoutState(ls, c), Roster(ds, ps)>>, <<Roster(ds, ps), LayoutState(ls, c)>>},
           ls = old \/ ms = <<LayoutState(ls, c), Roster(ds, ps)>>
    PROVE  /\ IsQueue(q \o ms) /\ LastIsTrue(q \o ms, ds, ps) /\ ListsAreKnown(q \o ms, ls)
           /\ RostersIn(q \o ms) # {}
           /\ ListsIn(q) # {} \/ ms = <<LayoutState(ls, c), Roster(ds, ps)>> => Crossed(q \o ms)
           /\ Crossed(q) => Crossed(q \o ms)
           /\ ms = <<Roster(ds, ps), LayoutState(ls, c)>> => ListsIn(q \o ms) # {}
<1> DEFINE R == Roster(ds, ps)
           L == LayoutState(ls, c)
           p == q \o ms
           N == Len(q)
           M == Len(ms)
<1>1. /\ R.kind = "roster" /\ IsSequence(R.entries) /\ IdsOf(R.entries) = IdsOf(ds)
      /\ \A k \in DOMAIN R.entries : R.entries[k].place = ps[R.entries[k].id]
  BY RosterFacts
<1>2. L.kind = "layouts" /\ NamesOf(L.layouts) \subseteq NamesOf(ls)
  BY LayoutStateFacts
<1>. HIDE DEF R, L
<1>3. PICK r \in 1..2 :
        /\ IsSequence(ms) /\ M \in 1..2 /\ r <= M /\ ms[r] = R /\ \A i \in 1..M : i # r => ms[i] = L
        /\ ms = <<R>> => M = 1
        /\ ms = <<L, R>> <=> r = 2
        /\ ms = <<R, L>> => M = 2 /\ r = 1
        /\ r = 1 => ms # <<L, R>>
  <2>0. R # L
    BY <1>1, <1>2
  <2>1. CASE ms = <<R>>
    <3>1. IsSequence(ms) /\ M = 1 /\ ms[1] = R /\ ms # <<L, R>> /\ ms # <<R, L>>
      <4>1. Len(<<L, R>>) = 2 /\ Len(<<R, L>>) = 2 /\ Len(ms) = 1
        BY <2>1, Singles
      <4>. QED BY <2>1, <4>1, Singles
    <3>. QED BY <2>1, <3>1
  <2>2. CASE ms = <<L, R>>
    <3>1. IsSequence(ms) /\ M = 2 /\ ms[1] = L /\ ms[2] = R /\ ms # <<R>> /\ ms # <<R, L>>
      <4>1. Len(<<R>>) = 1 /\ Len(ms) = 2 /\ <<R, L>>[1] = R /\ ms[1] = L
        BY <2>2, Singles
      <4>. QED BY <2>0, <2>2, <4>1, Singles
    <3>. QED BY <2>2, <3>1
  <2>3. CASE ms = <<R, L>>
    <3>1. IsSequence(ms) /\ M = 2 /\ ms[1] = R /\ ms[2] = L /\ ms # <<R>> /\ ms # <<L, R>>
      <4>1. Len(<<R>>) = 1 /\ Len(ms) = 2 /\ <<L, R>>[1] = L /\ ms[1] = R
        BY <2>3, Singles
      <4>. QED BY <2>0, <2>3, <4>1, Singles
    <3>. QED BY <2>3, <3>1
  <2>. QED BY <2>1, <2>2, <2>3 DEF R, L
<1>4. /\ IsSequence(p) /\ DOMAIN q = 1..N /\ N \in Nat /\ DOMAIN p = 1..N + M
      /\ \A i \in 1..N : p[i] = q[i]
      /\ \A i \in 1..M : p[N + i] = ms[i]
  BY <1>3, ConcatElements DEF IsQueue
<1>. HIDE DEF p, N, M
<1>5. /\ \A i \in DOMAIN p : i \in DOMAIN q \/ i = N + r \/ (i = N + 3 - r /\ M = 2)
      /\ p[N + r] = R /\ N + r \in DOMAIN p
      /\ M = 2 => N + 3 - r \in DOMAIN p /\ p[N + 3 - r] = L
  <2>1. ASSUME NEW i \in DOMAIN p PROVE i \in DOMAIN q \/ i = N + r \/ (i = N + 3 - r /\ M = 2)
    BY <1>3, <1>4
  <2>2. p[N + r] = R /\ N + r \in DOMAIN p
    BY <1>3, <1>4
  <2>3. ASSUME M = 2 PROVE N + 3 - r \in DOMAIN p /\ p[N + 3 - r] = L
    <3>1. PICK k \in 1..M : k # r /\ N + k = N + 3 - r
      <4>1. 3 - r \in 1..M /\ 3 - r # r /\ N + (3 - r) = N + 3 - r
        BY <1>3, <1>4, <2>3
      <4>. QED BY <4>1
    <3>2. p[N + k] = ms[k] /\ ms[k] = L /\ N + k \in 1..N + M
      BY <1>3, <1>4, <3>1
    <3>. QED BY <1>4, <3>1, <3>2
  <2>. QED BY <2>1, <2>2, <2>3
<1>6. /\ \A i \in DOMAIN q : p[i] = q[i] /\ i \in DOMAIN p /\ i < N + r /\ i < N + 3 - r
      /\ \A i \in DOMAIN q : (i \in RostersIn(p) <=> i \in RostersIn(q)) /\ (i \in ListsIn(p) <=> i \in ListsIn(q))
  <2>1. \A i \in DOMAIN q : p[i] = q[i] /\ i \in DOMAIN p /\ i < N + r /\ i < N + 3 - r
    BY <1>3, <1>4
  <2>. QED BY <2>1 DEF RostersIn, ListsIn
<1>7. N + r \in RostersIn(p) /\ (M = 2 => N + 3 - r \in ListsIn(p))
  BY <1>1, <1>2, <1>5 DEF RostersIn, ListsIn
<1>8. RostersIn(p) = RostersIn(q) \cup {N + r}
  <2>1. ASSUME NEW i \in RostersIn(p) PROVE i \in RostersIn(q) \cup {N + r}
    BY <1>5, <1>6, <1>7 DEF RostersIn, ListsIn
  <2>2. RostersIn(q) \subseteq DOMAIN q
    BY DEF RostersIn
  <2>. QED BY <1>6, <1>7, <2>1, <2>2
<1>9. IsQueue(p)
  <2>1. ASSUME NEW i \in RostersIn(p) PROVE IsSequence(p[i].entries)
    <3>1. CASE i = N + r
      BY <1>1, <1>5, <3>1
    <3>2. CASE i \in RostersIn(q)
      <4>1. p[i] = q[i]
        BY <1>6, <3>2 DEF RostersIn
      <4>. QED BY <3>2, <4>1 DEF IsQueue
    <3>. QED BY <1>8, <3>1, <3>2
  <2>. QED BY <1>4, <2>1 DEF IsQueue
<1>10. LastIsTrue(p, ds, ps)
  <2>1. ASSUME NEW i \in RostersIn(p), \A j \in RostersIn(p) : j <= i PROVE i = N + r
    <3>1. N + r <= i
      BY <1>7, <2>1
    <3>2. i \in DOMAIN q => i < N + r
      BY <1>6
    <3>3. RostersIn(q) \subseteq DOMAIN q
      BY DEF RostersIn
    <3>4. DOMAIN p \subseteq Int /\ i \in DOMAIN p
      BY <1>4, <2>1 DEF RostersIn
    <3>. QED BY <1>3, <1>4, <1>8, <3>1, <3>2, <3>3, <3>4
  <2>. QED BY <1>1, <1>5, <2>1 DEF LastIsTrue
<1>11. \A i \in ListsIn(q) : i \in ListsIn(p) /\ Followed(p, i)
  BY <1>6, <1>7 DEF Followed, ListsIn
<1>12. r = 2 => N + 1 \in ListsIn(p) /\ Followed(p, N + 1) /\ \A i \in DOMAIN q : i < N + 1
  <2> SUFFICES ASSUME r = 2 PROVE N + 1 \in ListsIn(p) /\ Followed(p, N + 1) /\ \A i \in DOMAIN q : i < N + 1
    OBVIOUS
  <2>1. M = 2 /\ N + 3 - r = N + 1 /\ N + 1 < N + r /\ N \in Nat
    BY <1>3, <1>4
  <2>2. \A i \in DOMAIN q : i < N + 1
    BY <1>4
  <2>. QED BY <1>7, <2>1, <2>2 DEF Followed
<1>13. ListsAreKnown(p, ls)
  <2> SUFFICES ASSUME NEW i \in ListsIn(p)
               PROVE  \/ NamesOf(p[i].layouts) \subseteq NamesOf(ls)
                      \/ \E j \in ListsIn(p) : i < j /\ Followed(p, j)
    BY DEF ListsAreKnown
  <2>1. i \in DOMAIN p /\ i \notin RostersIn(p)
    BY DEF ListsIn
  <2>2. CASE i = N + 3 - r /\ M = 2
    BY <1>2, <1>5, <2>2
  <2>3. CASE i \in DOMAIN q /\ r = 2
    BY <1>12, <2>3
  <2>4. CASE i \in DOMAIN q /\ r = 1
    <3>1. i \in ListsIn(q) /\ ls = old /\ p[i] = q[i]
      BY <1>3, <1>6, <2>4 DEF R, L
    <3>2. CASE NamesOf(q[i].layouts) \subseteq NamesOf(ls)
      BY <3>1, <3>2
    <3>3. CASE \E j \in ListsIn(q) : i < j /\ Followed(q, j)
      BY <1>11, <3>3
    <3>. QED BY <3>1, <3>2, <3>3 DEF ListsAreKnown
  <2>. QED BY <1>3, <1>5, <1>7, <2>1, <2>2, <2>3, <2>4
<1>14. ListsIn(q) # {} \/ ms = <<L, R>> => Crossed(p)
  BY <1>3, <1>11, <1>12 DEF Crossed
<1>15. Crossed(q) => Crossed(p)
  BY <1>11 DEF Crossed
<1>16. ms = <<R, L>> => ListsIn(p) # {}
  BY <1>3, <1>7
<1>. QED BY <1>7, <1>9, <1>10, <1>13, <1>14, <1>15, <1>16 DEF R, L, p

\* The oldest message is taken.
LEMMA TakeFacts ==
    ASSUME NEW q, IsQueue(q), q # <<>>, NEW ds, NEW ps, LastIsTrue(q, ds, ps), NEW ls, ListsAreKnown(q, ls)
    PROVE  /\ IsQueue(Tail(q)) /\ LastIsTrue(Tail(q), ds, ps) /\ ListsAreKnown(Tail(q), ls)
           /\ Head(q).kind = "roster" =>
                /\ IsSequence(Head(q).entries)
                /\ Crossed(q) => Crossed(Tail(q))
                /\ ListsIn(q) # {} => ListsIn(Tail(q)) # {}
                /\ RostersIn(Tail(q)) = {} =>
                      /\ IdsOf(Head(q).entries) = IdsOf(ds)
                      /\ \A k \in DOMAIN Head(q).entries : Head(q).entries[k].place = ps[Head(q).entries[k].id]
           /\ Head(q).kind # "roster" =>
                /\ RostersIn(Tail(q)) = {} => RostersIn(q) = {}
                /\ NamesOf(Head(q).layouts) \subseteq NamesOf(ls) \/ Crossed(Tail(q))
<1> DEFINE t == Tail(q)
           N == Len(q)
<1>1. /\ IsSequence(t) /\ DOMAIN q = 1..N /\ N \in Nat \ {0} /\ DOMAIN t = 1..N - 1
      /\ Head(q) = q[1] /\ \A i \in 1..N - 1 : t[i] = q[i + 1]
  BY TailElements DEF IsQueue
<1>. HIDE DEF t, N
<1>2. \A i \in DOMAIN t : t[i] = q[i + 1] /\ i + 1 \in DOMAIN q /\ i \in Int /\ i >= 1
  BY <1>1
<1>3. \A i \in DOMAIN q : i = 1 \/ i - 1 \in DOMAIN t
  BY <1>1
<1>4. /\ \A i \in RostersIn(t) : i + 1 \in RostersIn(q)
      /\ \A i \in ListsIn(t) : i + 1 \in ListsIn(q)
  BY <1>2 DEF RostersIn, ListsIn
<1>5. /\ \A i \in RostersIn(q) : i # 1 => i - 1 \in RostersIn(t)
      /\ \A i \in ListsIn(q) : i # 1 => i - 1 \in ListsIn(t)
  <2>1. ASSUME NEW i \in DOMAIN q, i # 1 PROVE i - 1 \in DOMAIN t /\ t[i - 1] = q[i]
    BY <1>1, <2>1
  <2>. QED BY <2>1 DEF RostersIn, ListsIn
<1>6. /\ RostersIn(t) \subseteq DOMAIN t /\ ListsIn(t) \subseteq DOMAIN t
      /\ RostersIn(q) \subseteq DOMAIN q /\ ListsIn(q) \subseteq DOMAIN q
  BY DEF RostersIn, ListsIn
<1>7. IsQueue(t)
  BY <1>1, <1>2, <1>4, <1>6 DEF IsQueue
<1>8. LastIsTrue(t, ds, ps)
  <2> SUFFICES ASSUME NEW i \in RostersIn(t), \A j \in RostersIn(t) : j <= i
               PROVE  /\ IdsOf(t[i].entries) = IdsOf(ds)
                      /\ \A k \in DOMAIN t[i].entries : t[i].entries[k].place = ps[t[i].entries[k].id]
    BY DEF LastIsTrue
  <2>1. ASSUME NEW j \in RostersIn(q) PROVE j <= i + 1
    <3>1. i \in Int /\ i >= 1 /\ j \in Int
      BY <1>1, <1>2, <1>6
    <3>2. CASE j = 1
      BY <3>1, <3>2
    <3>3. CASE j # 1
      <4>1. j - 1 \in RostersIn(t)
        BY <1>5, <3>3
      <4>2. j - 1 <= i
        BY <4>1
      <4>. QED BY <3>1, <4>2
    <3>. QED BY <3>2, <3>3
  <2>2. t[i] = q[i + 1] /\ i + 1 \in RostersIn(q)
    BY <1>2, <1>4, <1>6
  <2>. QED BY <2>1, <2>2 DEF LastIsTrue
<1>9. ASSUME NEW i \in DOMAIN q, i # 1, Followed(q, i) PROVE Followed(t, i - 1)
  <2>1. PICK j \in RostersIn(q) : i < j
    BY <1>9 DEF Followed
  <2>2. i \in Int /\ j \in Int /\ i >= 1
    BY <1>1, <1>6
  <2>3. j # 1 /\ i - 1 < j - 1
    BY <2>1, <2>2
  <2>4. j - 1 \in RostersIn(t)
    BY <1>5, <2>3
  <2>. QED BY <2>3, <2>4 DEF Followed
<1>10. ListsAreKnown(t, ls)
  <2> SUFFICES ASSUME NEW i \in ListsIn(t)
               PROVE  \/ NamesOf(t[i].layouts) \subseteq NamesOf(ls)
                      \/ \E j \in ListsIn(t) : i < j /\ Followed(t, j)
    BY DEF ListsAreKnown
  <2>1. t[i] = q[i + 1] /\ i + 1 \in ListsIn(q) /\ i \in Int /\ i >= 1
    BY <1>2, <1>4, <1>6
  <2>2. CASE NamesOf(q[i + 1].layouts) \subseteq NamesOf(ls)
    BY <2>1, <2>2
  <2>3. ASSUME NEW j \in ListsIn(q), i + 1 < j, Followed(q, j)
        PROVE  \E k \in ListsIn(t) : i < k /\ Followed(t, k)
    <3>1. j \in Int /\ j # 1 /\ i < j - 1 /\ j \in DOMAIN q
      BY <1>1, <1>6, <2>1, <2>3
    <3>2. j - 1 \in ListsIn(t) /\ Followed(t, j - 1)
      BY <1>5, <1>9, <2>3, <3>1
    <3>. QED BY <3>1, <3>2
  <2>. QED BY <2>1, <2>2, <2>3 DEF ListsAreKnown
<1>11. ASSUME q[1].kind = "roster"
       PROVE  /\ IsSequence(q[1].entries)
              /\ Crossed(q) => Crossed(t)
              /\ ListsIn(q) # {} => ListsIn(t) # {}
              /\ RostersIn(t) = {} =>
                      /\ IdsOf(q[1].entries) = IdsOf(ds)
                      /\ \A k \in DOMAIN q[1].entries : q[1].entries[k].place = ps[q[1].entries[k].id]
  <2>1. 1 \in RostersIn(q) /\ 1 \notin ListsIn(q)
    BY <1>1, <1>11 DEF RostersIn, ListsIn
  <2>2. Crossed(q) => Crossed(t)
    BY <1>5, <1>6, <1>9, <2>1 DEF Crossed
  <2>3. ListsIn(q) # {} => ListsIn(t) # {}
    BY <1>5, <2>1
  <2>4. RostersIn(t) = {} => \A j \in RostersIn(q) : j <= 1
    BY <1>5
  <2>. QED BY <2>1, <2>2, <2>3, <2>4 DEF IsQueue, LastIsTrue
<1>12. ASSUME q[1].kind # "roster"
       PROVE  /\ RostersIn(t) = {} => RostersIn(q) = {}
              /\ NamesOf(q[1].layouts) \subseteq NamesOf(ls) \/ Crossed(t)
  <2>1. 1 \notin RostersIn(q) /\ 1 \in ListsIn(q)
    BY <1>1, <1>12 DEF RostersIn, ListsIn
  <2>2. RostersIn(t) = {} => RostersIn(q) = {}
    BY <1>5, <2>1
  <2>3. ASSUME NEW j \in ListsIn(q), 1 < j, Followed(q, j) PROVE Crossed(t)
    <3>1. j # 1 /\ j \in DOMAIN q
      BY <1>6, <2>3
    <3>. QED BY <1>5, <1>9, <2>3, <3>1 DEF Crossed
  <2>. QED BY <2>1, <2>2, <2>3 DEF ListsAreKnown
<1>. QED BY <1>1, <1>7, <1>8, <1>10, <1>11, <1>12 DEF t

-----------------------------------------------------------------------------
(* The inductive invariant of the scene.                                   *)

\* What is under way towards the bridge.
Asks(ms, k) == \E m \in ms : m.kind = k
Wants(ms, k, d) == \E m \in ms : m.kind = k /\ m.id = d
AsksFor(ms, n) == \E m \in ms : m.kind \in {"apply", "delete"} /\ m.name = n

Shape ==
    /\ IsRoom(room) /\ IsSequence(devices) /\ IsSequence(up) /\ IsQueue(down)
    /\ ~connected => up = <<>> /\ down = <<>>

\* Unless a roster is on its way, every difference is being asked for.
DifferencesAreAsked ==
    connected /\ RostersIn(down) = {} =>
        /\ \A d \in IdsOf(room) \ IdsOf(devices) : Wants(Elements(up), "add", d)
        /\ \A d \in IdsOf(devices) \ IdsOf(room) : Wants(Elements(up), "remove", d)

\* The bridge has a roster to push, or will have one for what it is asked.
RosterIsDue ==
    \/ RostersIn(down) # {}
    \/ \E k \in {"hello", "pose", "add"} : Asks(Elements(up), k)
    \/ opening # {}
    \/ \E n \in NamesOf(layouts) : AsksFor(Elements(up), n)

StandsUnlessDue == connected /\ ~RosterIsDue => Stands(room, IdsOf(room), placements)

\* An arrangement the headset knows of is one the bridge has, or the headset is going to hear otherwise.
NamesAreKnown ==
    connected => \A n \in NamesOf(stored.layouts) :
        \/ n \in NamesOf(layouts)
        \/ Crossed(down)
        \/ ListsIn(down) # {} /\ (Asks(Elements(up), "hello") \/ opening # {})
        \/ Asks(Elements(up), "hello") /\ opening \cap {Surface, First} # {}

SceneInv ==
    /\ Shape
    /\ LastIsTrue(down, devices, placements)
    /\ DifferencesAreAsked
    /\ StandsUnlessDue
    /\ NamesAreKnown
    /\ ListsAreKnown(down, layouts)

LEMMA InitScene == SceneInit => SceneInv
<1> SUFFICES ASSUME SceneInit PROVE SceneInv
  OBVIOUS
<1> DEFINE x == [id |-> Surface, model |-> "vrmc", pose |-> "home"]
<1>1. room = <<x>> /\ connected = FALSE /\ up = <<>> /\ down = <<>> /\ devices = <<>>
  BY DEF SceneInit
<1>. HIDE DEF SceneInit
<1>2. IsRoom(<<x>>)
  <2>1. IsEntry(x)
    BY NewEntry
  <2>. HIDE DEF x
  <2>2. IsSequence(<<x>>) /\ DOMAIN <<x>> = 1..1 /\ <<x>>[1] = x
    BY Singles DEF IsSequence
  <2>. QED BY <2>1, <2>2 DEF IsRoom
<1>. HIDE DEF x
<1>3. RostersIn(<<>>) = {} /\ ListsIn(<<>>) = {}
  BY EmptyIsSequence DEF RostersIn, ListsIn
<1>4. Shape
  BY <1>1, <1>2, <1>3, EmptyIsSequence DEF Shape, IsQueue
<1>. QED BY <1>1, <1>3, <1>4 DEF SceneInv, LastIsTrue, ListsAreKnown, DifferencesAreAsked, StandsUnlessDue, NamesAreKnown

\* What is asked for when the headset sends, and when the bridge takes what was sent first.
LEMMA SendElements ==
    ASSUME Shape, NEW ms, IsSequence(ms), Send(ms)
    PROVE  IsSequence(up') /\ (~connected => up' = <<>>) /\ (connected => Elements(up)' = Elements(up) \cup Elements(ms))
<1>1. CASE ~connected
  BY <1>1 DEF Shape, Send
<1>2. CASE connected
  <2>1. up' = up \o ms /\ IsSequence(up)
    BY <1>2 DEF Shape, Send
  <2> DEFINE p == up \o ms
  <2>2. /\ IsSequence(p) /\ DOMAIN up = 1..Len(up) /\ Len(up) \in Nat /\ DOMAIN ms = 1..Len(ms) /\ Len(ms) \in Nat
        /\ DOMAIN p = 1..Len(up) + Len(ms)
        /\ \A i \in 1..Len(up) : p[i] = up[i]
        /\ \A i \in 1..Len(ms) : p[Len(up) + i] = ms[i]
    BY <2>1, ConcatElements
  <2>. HIDE DEF p
  <2>3. ASSUME NEW i \in DOMAIN p PROVE p[i] \in Elements(up) \cup Elements(ms)
    <3>1. CASE i \in 1..Len(up)
      BY <2>2, <3>1 DEF Elements
    <3>2. CASE i \notin 1..Len(up)
      <4>1. PICK j \in 1..Len(ms) : i = Len(up) + j
        <5>1. i - Len(up) \in 1..Len(ms) /\ i = Len(up) + (i - Len(up))
          BY <2>2, <3>2
        <5>. QED BY <5>1
      <4>. QED BY <2>2, <4>1 DEF Elements
    <3>. QED BY <3>1, <3>2
  <2>4. Elements(up) \subseteq Elements(p)
    <3>1. \A i \in 1..Len(up) : i \in DOMAIN p
      BY <2>2
    <3>. QED BY <2>2, <3>1 DEF Elements
  <2>5. Elements(ms) \subseteq Elements(p)
    <3>1. \A i \in 1..Len(ms) : Len(up) + i \in DOMAIN p
      BY <2>2
    <3>. QED BY <2>2, <3>1 DEF Elements
  <2>6. Elements(p) = Elements(up) \cup Elements(ms)
    <3>1. \A x \in Elements(p) : \E i \in DOMAIN p : x = p[i]
      BY DEF Elements
    <3>. QED BY <2>3, <2>4, <2>5, <3>1
  <2>7. Elements(up)' = Elements(p)
    BY <2>1 DEF p, Elements
  <2>. QED BY <1>2, <2>1, <2>2, <2>6, <2>7 DEF p
<1>. QED BY <1>1, <1>2

LEMMA TakenElements ==
    ASSUME IsSequence(up), up # <<>>, up' = Tail(up)
    PROVE  IsSequence(up') /\ Elements(up) = {Head(up)} \cup Elements(up)'
<1>1. /\ IsSequence(Tail(up)) /\ DOMAIN up = 1..Len(up) /\ Len(up) \in Nat \ {0} /\ DOMAIN Tail(up) = 1..Len(up) - 1
      /\ Head(up) = up[1] /\ \A i \in 1..Len(up) - 1 : Tail(up)[i] = up[i + 1]
  BY TailElements
<1> DEFINE t == Tail(up)
<1>. HIDE DEF t
<1>2. \A i \in DOMAIN t : t[i] = up[i + 1] /\ i + 1 \in DOMAIN up
  BY <1>1 DEF t
<1>3. \A i \in DOMAIN up : i = 1 \/ (i - 1 \in DOMAIN t /\ t[i - 1] = up[i])
  <2>1. ASSUME NEW i \in DOMAIN up, i # 1 PROVE i - 1 \in DOMAIN t /\ t[i - 1] = up[i]
    <3>1. PICK j \in 1..Len(up) - 1 : i = j + 1 /\ j = i - 1
      <4>1. i - 1 \in 1..Len(up) - 1 /\ i = (i - 1) + 1
        BY <1>1, <2>1
      <4>. QED BY <4>1
    <3>. QED BY <1>1, <3>1 DEF t
  <2>. QED BY <2>1
<1>4. 1 \in DOMAIN up
  BY <1>1
<1>5. Elements(up) = {Head(up)} \cup Elements(t)
  BY <1>1, <1>2, <1>3, <1>4 DEF Elements
<1>. QED BY <1>1, <1>5 DEF t

\* What the headset does by itself: it reports what the bridge must know, and the bridge is as it was.
LEMMA HeadsetStep ==
    ASSUME SceneInv, UNCHANGED <<connected, down, devices, opening, placements, layouts>>,
           NEW ms, IsSequence(ms), Send(ms), IsRoom(room'),
           NamesOf(stored.layouts)' = NamesOf(stored.layouts),
           connected => \A d \in IdsOf(room)' \ IdsOf(room) : Wants(Elements(ms), "add", d),
           connected => \A d \in IdsOf(room) \ IdsOf(room)' : Wants(Elements(ms), "remove", d),
           connected =>
              \/ Asks(Elements(ms), "add") \/ Asks(Elements(ms), "pose")
              \/ \E n \in NamesOf(stored.layouts) : \E m \in Elements(ms) : m.kind = "apply" /\ m.name = n
              \/ \A x \in Elements(room)' : x.id \notin held' => x \in Elements(room) /\ x.id \notin held
    PROVE  SceneInv'
<1>1. Shape'
  <2>1. Shape /\ connected' = connected /\ down' = down /\ devices' = devices
    BY DEF SceneInv
  <2>2. IsSequence(up') /\ (~connected => up' = <<>>)
    BY <2>1, SendElements
  <2>3. IsQueue(down') /\ IsSequence(devices')
    BY <2>1 DEF Shape
  <2>. QED BY <2>1, <2>2, <2>3 DEF Shape
<1>2. connected => Elements(up)' = Elements(up) \cup Elements(ms)
  BY SendElements DEF SceneInv
<1>3. LastIsTrue(down, devices, placements)' /\ ListsAreKnown(down, layouts)'
  <2>1. down' = down /\ devices' = devices /\ placements' = placements /\ layouts' = layouts
    OBVIOUS
  <2>2. LastIsTrue(down', devices', placements') /\ ListsAreKnown(down', layouts')
    BY <2>1 DEF SceneInv
  <2>. QED BY <2>2 DEF LastIsTrue, ListsAreKnown
<1>4. /\ RostersIn(down)' = RostersIn(down) /\ ListsIn(down)' = ListsIn(down) /\ Crossed(down)' = Crossed(down)
      /\ IdsOf(devices)' = IdsOf(devices) /\ NamesOf(layouts)' = NamesOf(layouts) /\ opening' = opening
      /\ placements' = placements /\ connected' = connected
  BY DEF RostersIn, ListsIn, Crossed, Followed, IdsOf, NamesOf
<1>5. DifferencesAreAsked'
  <2> SUFFICES ASSUME connected, RostersIn(down) = {}
               PROVE  /\ \A d \in IdsOf(room)' \ IdsOf(devices) : Wants(Elements(up)', "add", d)
                      /\ \A d \in IdsOf(devices) \ IdsOf(room)' : Wants(Elements(up)', "remove", d)
    BY <1>4 DEF DifferencesAreAsked
  <2>. QED BY <1>2 DEF SceneInv, DifferencesAreAsked, Wants
<1>6. NamesAreKnown'
  <2>1. connected /\ Asks(Elements(up), "hello") => Asks(Elements(up)', "hello")
    BY <1>2 DEF Asks
  <2>. QED BY <1>4, <2>1 DEF SceneInv, NamesAreKnown
<1>7. StandsUnlessDue'
  <2> SUFFICES ASSUME connected, ~RosterIsDue' PROVE Stands(room, IdsOf(room), placements)'
    BY <1>4 DEF StandsUnlessDue
  <2>1. RostersIn(down) = {} /\ opening = {}
    BY <1>4 DEF RosterIsDue
  <2>2. \A k \in {"hello", "pose", "add"} : ~Asks(Elements(up)', k)
    BY DEF RosterIsDue
  <2>3. \A n \in NamesOf(layouts) : ~AsksFor(Elements(up)', n)
    BY <1>4 DEF RosterIsDue
  <2>4. ~RosterIsDue
    BY <1>2, <2>1, <2>2, <2>3 DEF RosterIsDue, Asks, AsksFor
  <2>5. Stands(room, IdsOf(room), placements)
    BY <2>4 DEF SceneInv, StandsUnlessDue
  <2>6. ~Asks(Elements(ms), "add") /\ ~Asks(Elements(ms), "pose")
    BY <1>2, <2>2 DEF Asks
  <2>7. ~Crossed(down)
    BY <2>1 DEF Crossed, Followed
  <2>8. ~Asks(Elements(up), "hello")
    BY <1>2, <2>2 DEF Asks
  <2>9. NamesOf(stored.layouts) \subseteq NamesOf(layouts)
    BY <2>1, <2>7, <2>8 DEF SceneInv, NamesAreKnown
  <2>10. ~\E n \in NamesOf(stored.layouts) : \E m \in Elements(ms) : m.kind = "apply" /\ m.name = n
    BY <1>2, <2>3, <2>9 DEF AsksFor
  <2>11. \A x \in Elements(room)' : x.id \notin held' => x \in Elements(room) /\ x.id \notin held
    BY <2>6, <2>10
  <2>12. \A x \in Elements(room) : x.id \notin held => placements[x.id] \in {"none", x.pose}
    BY <2>5 DEF Stands, IdsOf, Elements
  <2>. QED BY <1>4, <2>11, <2>12 DEF Stands
<1>. QED BY <1>1, <1>3, <1>5, <1>6, <1>7 DEF SceneInv

-----------------------------------------------------------------------------
(* The steps of the headset.                                               *)

LEMMA SendNothing == ASSUME Shape, UNCHANGED up PROVE Send(<<>>)
<1>1. up \in Seq(Elements(up))
  BY DEF Shape, IsSequence, Elements
<1>2. up \o <<>> = up
  BY <1>1, ConcatEmptySeq
<1>. QED BY <1>2 DEF Send

\* A device is put somewhere: it is the only one that is.
LEMMA PutFacts ==
    ASSUME IsRoom(room), NEW d, NEW p, PutAt(d, p)
    PROVE  IsRoom(room') /\ IdsOf(room)' = IdsOf(room) /\ \A x \in Elements(room)' : x.id # d => x \in Elements(room)
<1> DEFINE q == [i \in DOMAIN room |-> IF room[i].id = d THEN [room[i] EXCEPT !.pose = p] ELSE room[i]]
<1>1. room' = q
  BY DEF PutAt
<1>2. OnlyPoses(room, q)
  <2>1. DOMAIN q = DOMAIN room /\ q = [i \in DOMAIN room |-> q[i]]
    OBVIOUS
  <2>2. ASSUME NEW i \in DOMAIN room, q[i] # room[i] PROVE \E y : q[i] = [room[i] EXCEPT !.pose = y]
    <3>1. q[i] = [room[i] EXCEPT !.pose = p]
      BY <2>2
    <3>. HIDE DEF q
    <3>. QED BY <3>1
  <2>. HIDE DEF q
  <2>. QED BY <2>1, <2>2, Zenon DEF OnlyPoses
<1>3. DOMAIN q = DOMAIN room /\ \A i \in DOMAIN room : room[i].id # d => q[i] = room[i]
  OBVIOUS
<1>. HIDE DEF q
<1>4. IsRoom(q) /\ IdsOf(q) = IdsOf(room) /\ \A i \in DOMAIN room : q[i].id = room[i].id
  BY <1>2, Moved
<1>5. \A x \in Elements(q) : x.id # d => x \in Elements(room)
  BY <1>3, <1>4 DEF Elements
<1>6. IdsOf(room)' = IdsOf(q) /\ Elements(room)' = Elements(q)
  BY <1>1 DEF IdsOf, Elements
<1>. QED BY <1>1, <1>4, <1>5, <1>6

\* Each thing the user does, by what is reported of it.
LEMMA UserStep == ASSUME SceneInv, User PROVE SceneInv'
<1>0. IsRoom(room) /\ Shape
  BY DEF SceneInv, Shape
<1>1. ASSUME NEW m \in Models, AddDevice(m) PROVE SceneInv'
  <2>1. PICK id \in nextId..MaxId :
          /\ room' = Append(room, [id |-> id, model |-> m, pose |-> "home"])
          /\ Send(<<[kind |-> "add", id |-> id, model |-> m]>>)
    BY <1>1 DEF AddDevice
  <2> DEFINE x == [id |-> id, model |-> m, pose |-> "home"]
             a == [kind |-> "add", id |-> id, model |-> m]
  <2>2. IsRoom(room') /\ Elements(room)' = Elements(room) \cup {x} /\ x.id = id
    <3>1. IsRoom(Append(room, x)) /\ Elements(Append(room, x)) = Elements(room) \cup {x} /\ x.id = id
      BY <1>0, EntryAppended
    <3>2. Elements(room)' = Elements(Append(room, x))
      BY <2>1 DEF Elements
    <3>. QED BY <2>1, <3>1, <3>2
  <2>3. a.kind = "add" /\ a.id = id
    OBVIOUS
  <2>. HIDE DEF x, a
  <2>4. IdsOf(room)' = IdsOf(room) \cup {id}
    <3>1. IdsOf(room') = {y.id : y \in Elements(room')} /\ IdsOf(room) = {y.id : y \in Elements(room)}
      BY IdsOfElements
    <3>2. Elements(room') = Elements(room)' /\ IdsOf(room') = IdsOf(room)'
      BY DEF Elements, IdsOf
    <3>. QED BY <2>2, <3>1, <3>2
  <2>5. IsSequence(<<a>>) /\ Elements(<<a>>) = {a}
    BY Singles
  <2>6. Wants(Elements(<<a>>), "add", id) /\ Asks(Elements(<<a>>), "add")
    BY <2>3, <2>5 DEF Wants, Asks
  <2>7. UNCHANGED <<connected, down, devices, opening, placements, layouts, stored>> /\ Send(<<a>>)
    BY <1>1, <2>1 DEF AddDevice, a, bridgeVars, workspaceVars
  <2>8. NamesOf(stored.layouts)' = NamesOf(stored.layouts)
    BY <2>7 DEF NamesOf
  <2>. QED BY <2>2, <2>4, <2>5, <2>6, <2>7, <2>8, HeadsetStep
<1>2. ASSUME NEW d \in Ids, RemoveDevice(d) PROVE SceneInv'
  <2> DEFINE a == [kind |-> "remove", id |-> d]
  <2>1. room' = Without(room, {d}) /\ Send(<<a>>) /\ held' = held \ {d} /\ UNCHANGED <<connected, down, devices, opening, placements, layouts, stored>>
    BY <1>2 DEF RemoveDevice, bridgeVars, workspaceVars
  <2>2. a.kind = "remove" /\ a.id = d
    OBVIOUS
  <2>. HIDE DEF a
  <2>3. IsSequence(room') /\ Elements(room)' = {x \in Elements(room) : x.id # d}
    <3>1. IsSequence(Without(room, {d})) /\ Elements(Without(room, {d})) = {x \in Elements(room) : x.id \notin {d}}
      BY <1>0, WithoutElements DEF IsRoom
    <3>2. Elements(room)' = Elements(Without(room, {d}))
      BY <2>1 DEF Elements
    <3>. QED BY <2>1, <3>1, <3>2
  <2>4. IsRoom(room')
    <3>1. \A x \in Elements(room) : IsEntry(x)
      BY <1>0 DEF IsRoom, Elements
    <3>2. \A i \in DOMAIN room' : room'[i] \in Elements(room)'
      BY DEF Elements
    <3>3. \A i \in DOMAIN room' : IsEntry(room'[i])
      BY <2>3, <3>1, <3>2
    <3>. QED BY <2>3, <3>3 DEF IsRoom
  <2>5. IdsOf(room)' = IdsOf(room) \ {d}
    <3>1. IdsOf(room') = {y.id : y \in Elements(room')} /\ IdsOf(room) = {y.id : y \in Elements(room)}
      BY IdsOfElements
    <3>2. Elements(room') = Elements(room)' /\ IdsOf(room') = IdsOf(room)'
      BY DEF Elements, IdsOf
    <3>. QED BY <2>3, <3>1, <3>2
  <2>6. IsSequence(<<a>>) /\ Elements(<<a>>) = {a}
    BY Singles
  <2>7. Wants(Elements(<<a>>), "remove", d)
    BY <2>2, <2>6 DEF Wants
  <2>8. NamesOf(stored.layouts)' = NamesOf(stored.layouts)
    BY <2>1 DEF NamesOf
  <2>9. \A x \in Elements(room)' : x.id \notin held' => x \in Elements(room) /\ x.id \notin held
    BY <2>1, <2>3
  <2>. QED BY <2>1, <2>4, <2>5, <2>6, <2>7, <2>8, <2>9, HeadsetStep
<1>3. ASSUME UNCHANGED <<room, stored, connected, down, devices, opening, placements, layouts>>, NEW ms, IsSequence(ms), Send(ms),
             \/ held \subseteq held'
             \/ Asks(Elements(ms), "pose")
      PROVE  SceneInv'
  <2>1. Elements(room)' = Elements(room) /\ IdsOf(room)' = IdsOf(room) /\ IsRoom(room')
        /\ NamesOf(stored.layouts)' = NamesOf(stored.layouts)
    BY <1>0, <1>3 DEF Elements, IdsOf, NamesOf
  <2>. QED BY <1>3, <2>1, HeadsetStep
<1>4. ASSUME NEW d \in Ids, Grab(d) PROVE SceneInv'
  <2>1. UNCHANGED <<room, stored, connected, down, devices, opening, placements, layouts>> /\ Send(<<>>) /\ held \subseteq held'
    BY <1>0, <1>4, SendNothing DEF Grab, bridgeVars, workspaceVars
  <2>. QED BY <1>3, <2>1, EmptyIsSequence
<1>5. ASSUME NEW d \in Ids, LetGo(d) PROVE SceneInv'
  <2> DEFINE a == PoseMsg(d, DeviceAt(d).pose)
  <2>1. UNCHANGED <<room, stored, connected, down, devices, opening, placements, layouts>> /\ Send(<<a>>)
    BY <1>5 DEF LetGo, bridgeVars, workspaceVars
  <2>2. a.kind = "pose"
    BY DEF PoseMsg
  <2>. HIDE DEF a
  <2>3. IsSequence(<<a>>) /\ Elements(<<a>>) = {a}
    BY Singles
  <2>4. Asks(Elements(<<a>>), "pose")
    BY <2>2, <2>3 DEF Asks
  <2>. QED BY <1>3, <2>1, <2>3, <2>4
<1>6. ASSUME NEW d \in Ids, NEW p \in Poses, Carry(d, p) PROVE SceneInv'
  <2>1. UNCHANGED <<stored, connected, down, devices, opening, placements, layouts, held>> /\ Send(<<>>) /\ d \in held /\ PutAt(d, p)
    BY <1>0, <1>6, SendNothing DEF Carry, bridgeVars, workspaceVars
  <2>2. IsRoom(room') /\ IdsOf(room)' = IdsOf(room) /\ \A x \in Elements(room)' : x.id # d => x \in Elements(room)
    BY <1>0, <2>1, PutFacts
  <2>3. NamesOf(stored.layouts)' = NamesOf(stored.layouts)
    BY <2>1 DEF NamesOf
  <2>. QED BY <2>1, <2>2, <2>3, EmptyIsSequence, HeadsetStep
<1>7. ASSUME NEW d \in Ids, NEW p \in Poses, Placed(d, p) PROVE SceneInv'
  <2> DEFINE a == PoseMsg(d, p)
  <2>1. UNCHANGED <<stored, connected, down, devices, opening, placements, layouts>> /\ Send(<<a>>) /\ PutAt(d, p)
    BY <1>7 DEF Placed, bridgeVars, workspaceVars
  <2>2. a.kind = "pose"
    BY DEF PoseMsg
  <2>. HIDE DEF a
  <2>3. IsRoom(room') /\ IdsOf(room)' = IdsOf(room)
    BY <1>0, <2>1, PutFacts
  <2>4. IsSequence(<<a>>) /\ Elements(<<a>>) = {a}
    BY Singles
  <2>5. Asks(Elements(<<a>>), "pose")
    BY <2>2, <2>4 DEF Asks
  <2>6. NamesOf(stored.layouts)' = NamesOf(stored.layouts)
    BY <2>1 DEF NamesOf
  <2>. QED BY <2>1, <2>3, <2>4, <2>5, <2>6, HeadsetStep
<1>8. ASSUME NEW n \in Names, SaveLayout(n) \/ DeleteLayout(n) PROVE SceneInv'
  <2>1. PICK a : Send(<<a>>)
    BY <1>8 DEF SaveLayout, DeleteLayout
  <2>2. UNCHANGED <<room, stored, connected, down, devices, opening, placements, layouts>> /\ held \subseteq held'
    BY <1>8 DEF SaveLayout, DeleteLayout, headsetVars, bridgeVars, workspaceVars
  <2>3. IsSequence(<<a>>)
    BY Singles
  <2>. QED BY <1>3, <2>1, <2>2, <2>3
<1>9. ASSUME NEW n \in Names, ApplyLayout(n) PROVE SceneInv'
  <2> DEFINE a == [kind |-> "apply", name |-> n]
             q == Arrange(room, stored.layouts, n)
  <2>1. /\ n \in NamesOf(stored.layouts) /\ room' = q /\ stored' = [stored EXCEPT !.current = n]
        /\ Send(<<a>>) /\ UNCHANGED <<connected, down, devices, opening, placements, layouts>>
    BY <1>9 DEF ApplyLayout, bridgeVars, workspaceVars
  <2>2. a.kind = "apply" /\ a.name = n
    OBVIOUS
  <2>. HIDE DEF a
  <2>3. IsRoom(q) /\ IdsOf(q) = IdsOf(room)
    BY <1>0, ArrangeFacts
  <2>. HIDE DEF q
  <2>4. IsRoom(room') /\ IdsOf(room)' = IdsOf(room)
    BY <2>1, <2>3 DEF IdsOf
  <2>5. IsSequence(<<a>>) /\ Elements(<<a>>) = {a}
    BY Singles
  <2>6. stored'.layouts = stored.layouts
    BY <2>1
  <2>7. NamesOf(stored.layouts)' = NamesOf(stored.layouts)
    BY <2>6 DEF NamesOf
  <2>8. \E k \in NamesOf(stored.layouts) : \E m \in Elements(<<a>>) : m.kind = "apply" /\ m.name = k
    BY <2>1, <2>2, <2>5
  <2>. QED BY <2>1, <2>4, <2>5, <2>7, <2>8, HeadsetStep
<1>. QED BY <1>1, <1>2, <1>4, <1>5, <1>6, <1>7, <1>8, <1>9 DEF User

-----------------------------------------------------------------------------
(* The steps of the link and of the bridge.                                *)

\* Nothing of what the invariant speaks of is changed.
LEMMA SameScene ==
    ASSUME SceneInv, UNCHANGED <<room, held, stored, connected, up, down, devices, opening, placements, layouts>>
    PROVE  SceneInv'
<1>1. Send(<<>>)
  BY SendNothing DEF SceneInv
<1>2. Elements(room)' = Elements(room) /\ IdsOf(room)' = IdsOf(room) /\ IsRoom(room')
        /\ NamesOf(stored.layouts)' = NamesOf(stored.layouts)
  BY DEF SceneInv, Shape, Elements, IdsOf, NamesOf
<1>. QED BY <1>1, <1>2, EmptyIsSequence, HeadsetStep

\* Without a link there is nothing under way, and nothing to agree on.
LEMMA Offline ==
    ASSUME IsRoom(room'), IsSequence(devices'), ~connected', up' = <<>>, down' = <<>>
    PROVE  SceneInv'
<1>1. RostersIn(<<>>) = {} /\ ListsIn(<<>>) = {} /\ IsQueue(<<>>) /\ IsSequence(<<>>)
  BY EmptyIsSequence DEF RostersIn, ListsIn, IsQueue
<1>2. Shape'
  BY <1>1 DEF Shape
<1>3. LastIsTrue(down', devices', placements') /\ ListsAreKnown(down', layouts')
  BY <1>1 DEF LastIsTrue, ListsAreKnown
<1>4. LastIsTrue(down, devices, placements)' /\ ListsAreKnown(down, layouts)'
  BY <1>3
<1>. QED BY <1>2, <1>4 DEF SceneInv, DifferencesAreAsked, StandsUnlessDue, NamesAreKnown

\* A roster is pushed, and with it all that was due.
LEMMA BridgePushes ==
    ASSUME SceneInv, IsSequence(layouts), UNCHANGED <<room, held, stored, connected>>, connected,
           IsSequence(devices'), IsSequence(layouts'), IsSequence(up'),
           NEW R, R = Roster(devices', placements'), NEW L, L = LayoutState(layouts', current'),
           NEW ms, ms \in {<<R>>, <<L, R>>, <<R, L>>}, down' = down \o ms,
           layouts' = layouts \/ ms = <<L, R>>,
           \/ ms = <<L, R>>
           \/ ~(Asks(Elements(up), "hello") /\ opening \cap {Surface, First} # {})
           \/ Asks(Elements(up)', "hello") /\ opening' \cap {Surface, First} # {}
           \/ ms = <<R, L>> /\ (Asks(Elements(up)', "hello") \/ opening' # {})
    PROVE  SceneInv'
<1>1. /\ IsQueue(down \o ms) /\ LastIsTrue(down \o ms, devices', placements') /\ ListsAreKnown(down \o ms, layouts')
      /\ RostersIn(down \o ms) # {}
      /\ ListsIn(down) # {} \/ ms = <<L, R>> => Crossed(down \o ms)
      /\ Crossed(down) => Crossed(down \o ms)
      /\ ms = <<R, L>> => ListsIn(down \o ms) # {}
  <2>1. IsQueue(down) /\ ListsAreKnown(down, layouts)
    BY DEF SceneInv, Shape
  <2>. QED BY <2>1, PushFacts
<1>2. /\ IsQueue(down') /\ LastIsTrue(down', devices', placements') /\ ListsAreKnown(down', layouts')
      /\ RostersIn(down') # {}
      /\ ListsIn(down) # {} \/ ms = <<L, R>> => Crossed(down')
      /\ Crossed(down) => Crossed(down')
      /\ ms = <<R, L>> => ListsIn(down') # {}
  BY <1>1
<1>3. Shape'
  BY <1>2 DEF SceneInv, Shape
<1>4. LastIsTrue(down, devices, placements)' /\ ListsAreKnown(down, layouts)' /\ RostersIn(down)' # {}
  BY <1>2
<1>5. DifferencesAreAsked' /\ StandsUnlessDue'
  BY <1>4 DEF DifferencesAreAsked, StandsUnlessDue, RosterIsDue
<1>6. NamesAreKnown'
  <2> SUFFICES ASSUME NEW n \in NamesOf(stored.layouts), n \notin NamesOf(layouts'), ~Crossed(down')
               PROVE  \/ ListsIn(down') # {} /\ (Asks(Elements(up)', "hello") \/ opening' # {})
                      \/ Asks(Elements(up)', "hello") /\ opening' \cap {Surface, First} # {}
    BY DEF NamesAreKnown
  <2>1. ms # <<L, R>> /\ ListsIn(down) = {} /\ layouts' = layouts /\ ~Crossed(down)
    BY <1>2
  <2>2. Asks(Elements(up), "hello") /\ opening \cap {Surface, First} # {}
    BY <2>1 DEF SceneInv, NamesAreKnown
  <2>. QED BY <1>2, <2>1, <2>2
<1>. QED BY <1>3, <1>4, <1>5, <1>6 DEF SceneInv

\* The bridge takes a message that asks for nothing it has.
LEMMA BridgeIgnores ==
    ASSUME SceneInv, up # <<>>, up' = Tail(up),
           UNCHANGED <<room, held, stored, connected, down, opening, placements, layouts>>,
           IsSequence(devices'), IdsOf(devices') = IdsOf(devices),
           Head(up).kind \notin {"hello", "pose", "add"},
           Head(up).kind \in {"apply", "delete"} => Head(up).name \notin NamesOf(layouts),
           Head(up).kind = "remove" => Head(up).id \notin IdsOf(devices)
    PROVE  SceneInv'
<1> DEFINE m == Head(up)
<1>. HIDE DEF m
<1>1. IsSequence(up') /\ Elements(up) = {m} \cup Elements(up)'
  BY TakenElements DEF SceneInv, Shape, m
<1>2. connected /\ connected'
  BY DEF SceneInv, Shape
<1>3. Shape'
  <2>1. IsRoom(room') /\ IsQueue(down')
    BY DEF SceneInv, Shape
  <2>. QED BY <1>1, <1>2, <2>1 DEF Shape
<1>4. LastIsTrue(down', devices', placements') /\ ListsAreKnown(down', layouts')
  <2>1. LastIsTrue(down, devices', placements) /\ ListsAreKnown(down, layouts)
    BY DEF SceneInv, LastIsTrue
  <2>. QED BY <2>1
<1>5. LastIsTrue(down, devices, placements)' /\ ListsAreKnown(down, layouts)'
  BY <1>4
<1>6. /\ RostersIn(down)' = RostersIn(down) /\ ListsIn(down)' = ListsIn(down) /\ Crossed(down)' = Crossed(down)
      /\ IdsOf(devices)' = IdsOf(devices) /\ NamesOf(layouts)' = NamesOf(layouts) /\ opening' = opening
      /\ IdsOf(room)' = IdsOf(room) /\ Stands(room, IdsOf(room), placements)' = Stands(room, IdsOf(room), placements)
      /\ NamesOf(stored.layouts)' = NamesOf(stored.layouts)
  BY DEF RostersIn, ListsIn, Crossed, Followed, IdsOf, NamesOf, Stands, Elements
<1>7. /\ \A k \in {"hello", "pose", "add"} : Asks(Elements(up)', k) <=> Asks(Elements(up), k)
      /\ \A n \in NamesOf(layouts) : AsksFor(Elements(up)', n) <=> AsksFor(Elements(up), n)
  BY <1>1 DEF Asks, AsksFor, m
<1>8. DifferencesAreAsked'
  <2> SUFFICES ASSUME RostersIn(down) = {}
               PROVE  /\ \A d \in IdsOf(room) \ IdsOf(devices) : Wants(Elements(up)', "add", d)
                      /\ \A d \in IdsOf(devices) \ IdsOf(room) : Wants(Elements(up)', "remove", d)
    BY <1>6 DEF DifferencesAreAsked
  <2>1. /\ \A d \in IdsOf(room) \ IdsOf(devices) : Wants(Elements(up), "add", d)
        /\ \A d \in IdsOf(devices) \ IdsOf(room) : Wants(Elements(up), "remove", d)
    BY <1>2 DEF SceneInv, DifferencesAreAsked
  <2>. QED BY <1>1, <2>1 DEF Wants, m
<1>9. StandsUnlessDue'
  <2>1. RosterIsDue' <=> RosterIsDue
    BY <1>6, <1>7 DEF RosterIsDue
  <2>. QED BY <1>2, <1>6, <2>1 DEF SceneInv, StandsUnlessDue
<1>10. NamesAreKnown'
  BY <1>2, <1>6, <1>7 DEF SceneInv, NamesAreKnown
<1>. QED BY <1>3, <1>5, <1>8, <1>9, <1>10 DEF SceneInv

\* The cases of Router.handlePacket(): a roster is pushed, or nothing was asked for.
LEMMA RouteScene == ASSUME SceneInv, FileInv, FileInv', Route PROVE SceneInv'
<1> DEFINE m == Head(up)
           R == Roster(devices', placements')
           L == LayoutState(layouts', current')
<1>0. /\ up # <<>> /\ up' = Tail(up) /\ UNCHANGED <<room, held, stored, connected>> /\ connected
      /\ IsSequence(layouts) /\ IsSequence(layouts') /\ IsSequence(up') /\ Elements(up) = {m} \cup Elements(up)'
      /\ IsSequence(devices)
  <2>1. up # <<>> /\ up' = Tail(up) /\ UNCHANGED <<room, held, stored, connected>> /\ connected /\ IsSequence(devices)
    BY DEF Route, headsetVars, SceneInv, Shape
  <2>2. IsSequence(up') /\ Elements(up) = {m} \cup Elements(up)'
    BY <2>1, TakenElements DEF SceneInv, Shape
  <2>3. IsSequence(layouts) /\ IsSequence(layouts')
    BY LayoutsFacts DEF FileInv, Acceptable, Workspace
  <2>. QED BY <2>1, <2>2, <2>3
<1>. HIDE DEF R, L
<1>1. ASSUME m.kind # "hello" PROVE Asks(Elements(up), "hello") <=> Asks(Elements(up)', "hello")
  <2>. HIDE DEF m
  <2>. QED BY <1>0, <1>1 DEF Asks
<1>2. ASSUME m.kind # "hello", IsSequence(devices'), opening \subseteq opening', UNCHANGED layouts, down' = down \o <<R>>
      PROVE  SceneInv'
  <2>1. R = Roster(devices', placements') /\ L = LayoutState(layouts', current')
    BY DEF R, L
  <2>2. \/ ~(Asks(Elements(up), "hello") /\ opening \cap {Surface, First} # {})
        \/ Asks(Elements(up)', "hello") /\ opening' \cap {Surface, First} # {}
    BY <1>1, <1>2
  <2>. QED BY <1>0, <1>2, <2>1, <2>2, BridgePushes
<1>3. ASSUME Changed, UNCHANGED devices PROVE SceneInv'
  <2>1. down' = down \o <<L, R>>
    BY <1>0, <1>3 DEF Changed, Push, L, R
  <2>2. R = Roster(devices', placements') /\ L = LayoutState(layouts', current') /\ IsSequence(devices')
    BY <1>0, <1>3 DEF R, L
  <2>. QED BY <1>0, <2>1, <2>2, BridgePushes
<1>4. CASE m.kind = "add" /\ RouteAdd(m)
  <2>1. opening \subseteq opening' /\ UNCHANGED layouts /\ UNCHANGED placements /\ PushRoster(devices')
    BY <1>4 DEF RouteAdd, workspaceVars
  <2>2. down' = down \o <<R>>
    BY <1>0, <2>1 DEF PushRoster, Push, R
  <2>3. IsSequence(devices')
    <3>1. CASE m.id \in IdsOf(devices)
      BY <1>0, <1>4, <3>1 DEF RouteAdd
    <3>2. CASE m.id \notin IdsOf(devices)
      <4>1. devices' = Append(devices, [id |-> m.id, model |-> m.model])
        BY <1>4, <3>2 DEF RouteAdd
      <4>. QED BY <1>0, <4>1, AppendElements
    <3>. QED BY <3>1, <3>2
  <2>. QED BY <1>2, <1>4, <2>1, <2>2, <2>3
<1>5. CASE m.kind = "remove" /\ RouteRemove(m)
  <2>1. /\ devices' = Without(devices, {m.id}) /\ UNCHANGED <<opening, layouts, placements>>
        /\ IF m.id \in IdsOf(devices) THEN PushRoster(devices') ELSE UNCHANGED down
    BY <1>5 DEF RouteRemove, workspaceVars
  <2>2. IsSequence(devices') /\ Elements(devices') = {x \in Elements(devices) : x.id \notin {m.id}}
    BY <1>0, <2>1, WithoutElements
  <2>3. CASE m.id \in IdsOf(devices)
    <3>1. down' = down \o <<R>>
      BY <1>0, <2>1, <2>3 DEF PushRoster, Push, R
    <3>. QED BY <1>2, <1>5, <2>1, <2>2, <3>1
  <2>4. CASE m.id \notin IdsOf(devices)
    <3>1. IdsOf(devices') = IdsOf(devices)
      <4>1. IdsOf(devices') = {x.id : x \in Elements(devices')} /\ IdsOf(devices) = {x.id : x \in Elements(devices)}
        BY IdsOfElements
      <4>. QED BY <2>2, <2>4, <4>1
    <3>. QED BY <1>0, <1>5, <2>1, <2>2, <2>4, <3>1, BridgeIgnores
  <2>. QED BY <2>3, <2>4
<1>6. CASE m.kind = "pose" /\ RoutePose(m)
  BY <1>3, <1>6 DEF RoutePose
<1>7. ASSUME m.kind \in {"save", "delete", "apply"}, m.kind # "save" => m.name \notin NamesOf(layouts),
             UNCHANGED <<devices, opening, workspaceVars, saving, down>>
      PROVE  SceneInv'
  <2>1. UNCHANGED <<opening, placements, layouts, down>> /\ IsSequence(devices') /\ IdsOf(devices') = IdsOf(devices)
    BY <1>0, <1>7 DEF workspaceVars
  <2>. QED BY <1>0, <1>7, <2>1, BridgeIgnores
<1>8. CASE m.kind = "save" /\ RouteSave(m)
  BY <1>3, <1>7, <1>8 DEF RouteSave
<1>9. CASE m.kind = "delete" /\ RouteDelete(m)
  BY <1>3, <1>7, <1>9 DEF RouteDelete
<1>10. CASE m.kind = "apply" /\ RouteApply(m)
  BY <1>3, <1>7, <1>10 DEF RouteApply
<1>11. CASE m.kind = "hello" /\ Resync /\ UNCHANGED <<devices, opening, workspaceVars, saving>>
  <2>1. UNCHANGED <<devices, opening, placements, layouts, current>>
    BY <1>11 DEF workspaceVars
  <2>2. down' = down \o <<R, L>>
    BY <1>0, <1>11, <2>1 DEF Resync, Push, R, L
  <2>3. R = Roster(devices', placements') /\ L = LayoutState(layouts', current') /\ IsSequence(devices')
    BY <1>0, <2>1 DEF R, L
  <2>. QED BY <1>0, <2>1, <2>2, <2>3, BridgePushes
<1>. QED BY <1>4, <1>5, <1>6, <1>8, <1>9, <1>10, <1>11 DEF Route

\* applyRoster() and what it asks for again.
LEMMA HearRosterScene == ASSUME SceneInv, Hear, Head(down).kind = "roster" PROVE SceneInv'
<1> DEFINE m == Head(down)
           t == Tail(down)
           q == Adopted(room, m.entries)
           ms == Missing(q, m.entries)
<1>0. /\ down # <<>> /\ down' = t /\ room' = q /\ up' = up \o ms
      /\ UNCHANGED <<held, stored, connected, devices, opening, placements, layouts>> /\ connected
  <2>1. HearRoster(m) /\ down # <<>> /\ down' = t /\ UNCHANGED <<connected, devices, opening, placements, layouts>>
    BY DEF Hear, bridgeVars, workspaceVars
  <2>2. room' = q /\ up' = up \o Missing(room', m.entries) /\ UNCHANGED <<held, stored>>
    BY <2>1 DEF HearRoster
  <2>3. connected
    BY <2>1 DEF SceneInv, Shape
  <2>. QED BY <2>1, <2>2, <2>3
<1>1. IsRoom(room) /\ IsQueue(down) /\ LastIsTrue(down, devices, placements) /\ ListsAreKnown(down, layouts)
  BY DEF SceneInv, Shape
<1>2. /\ IsQueue(t) /\ LastIsTrue(t, devices, placements) /\ ListsAreKnown(t, layouts)
      /\ IsSequence(m.entries)
      /\ Crossed(down) => Crossed(t)
      /\ ListsIn(down) # {} => ListsIn(t) # {}
      /\ RostersIn(t) = {} =>
            /\ IdsOf(m.entries) = IdsOf(devices)
            /\ \A k \in DOMAIN m.entries : m.entries[k].place = placements[m.entries[k].id]
  BY <1>0, <1>1, TakeFacts
<1>. HIDE DEF t, m
<1>3. /\ IsRoom(q) /\ IdsOf(q) = IdsOf(room) \cup IdsOf(m.entries)
      /\ \A P : (\A k \in DOMAIN m.entries : m.entries[k].place = P[m.entries[k].id]) => Stands(q, IdsOf(m.entries), P)
  BY <1>1, <1>2, AdoptedFacts
<1>. HIDE DEF q
<1>4. /\ IsSequence(ms)
      /\ \A d \in IdsOf(q) \ IdsOf(m.entries) : Wants(Elements(ms), "add", d)
  <2>1. /\ IsSequence(ms)
        /\ \A d \in IdsOf(q) \ IdsOf(m.entries) : \E i \in DOMAIN ms : ms[i].kind = "add" /\ ms[i].id = d
    BY <1>3, MissingFacts DEF IsRoom
  <2>. QED BY <2>1 DEF Wants, Elements
<1>. HIDE DEF ms
<1>5. IsSequence(up') /\ Elements(up)' = Elements(up) \cup Elements(ms)
  <2>1. Send(ms)
    BY <1>0 DEF Send
  <2>. QED BY <1>0, <1>4, <2>1, SendElements DEF SceneInv
<1>6. Shape'
  <2>1. IsRoom(room') /\ IsQueue(down') /\ IsSequence(devices') /\ connected'
    BY <1>0, <1>2, <1>3 DEF SceneInv, Shape
  <2>. QED BY <1>5, <2>1 DEF Shape
<1>7. LastIsTrue(down, devices, placements)' /\ ListsAreKnown(down, layouts)'
  <2>1. LastIsTrue(down', devices', placements') /\ ListsAreKnown(down', layouts')
    BY <1>0, <1>2
  <2>. QED BY <2>1
<1>8. /\ RostersIn(down)' = RostersIn(t) /\ ListsIn(down)' = ListsIn(t) /\ Crossed(down)' = Crossed(t)
      /\ IdsOf(devices)' = IdsOf(devices) /\ NamesOf(layouts)' = NamesOf(layouts)
      /\ NamesOf(stored.layouts)' = NamesOf(stored.layouts)
      /\ IdsOf(room)' = IdsOf(q) /\ Elements(room)' = Elements(q)
  BY <1>0 DEF RostersIn, ListsIn, Crossed, Followed, IdsOf, NamesOf, Elements
<1>9. DifferencesAreAsked'
  <2> SUFFICES ASSUME RostersIn(t) = {}
               PROVE  /\ \A d \in IdsOf(q) \ IdsOf(devices) : Wants(Elements(up)', "add", d)
                      /\ \A d \in IdsOf(devices) \ IdsOf(q) : Wants(Elements(up)', "remove", d)
    BY <1>8 DEF DifferencesAreAsked
  <2>1. IdsOf(m.entries) = IdsOf(devices)
    BY <1>2
  <2>. QED BY <1>3, <1>4, <1>5, <2>1 DEF Wants
<1>10. StandsUnlessDue'
  <2> SUFFICES ASSUME ~RosterIsDue' PROVE Stands(room, IdsOf(room), placements)'
    BY DEF StandsUnlessDue
  <2>1. RostersIn(t) = {} /\ ~Asks(Elements(up)', "add")
    BY <1>8 DEF RosterIsDue
  <2>2. Stands(q, IdsOf(m.entries), placements)
    BY <1>2, <1>3, <2>1
  <2>3. IdsOf(q) = IdsOf(m.entries)
    BY <1>3, <1>4, <1>5, <2>1 DEF Asks, Wants
  <2>. QED BY <1>0, <1>8, <2>2, <2>3 DEF Stands
<1>11. NamesAreKnown'
  <2>1. Asks(Elements(up), "hello") => Asks(Elements(up)', "hello")
    BY <1>5 DEF Asks
  <2>. QED BY <1>0, <1>2, <1>8, <2>1 DEF SceneInv, NamesAreKnown
<1>. QED BY <1>6, <1>7, <1>9, <1>10, <1>11 DEF SceneInv

\* receiveLayouts(): what is put into effect is told to the bridge.
LEMMA HearLayoutsScene == ASSUME SceneInv, Hear, Head(down).kind # "roster" PROVE SceneInv'
<1> DEFINE m == Head(down)
           t == Tail(down)
           due == m.current # "" /\ m.current # applied /\ m.current \in NamesOf(m.layouts)
           a == [kind |-> "apply", name |-> m.current]
           q == Arrange(room, m.layouts, m.current)
           ms == IF due THEN <<a>> ELSE <<>>
<1>0. /\ down # <<>> /\ down' = t /\ stored'.layouts = m.layouts
      /\ room' = IF due THEN q ELSE room
      /\ up' = IF due THEN Append(up, a) ELSE up
      /\ UNCHANGED <<held, connected, devices, opening, placements, layouts>> /\ connected
  <2>1. HearLayouts(m) /\ down # <<>> /\ down' = t /\ UNCHANGED <<connected, devices, opening, placements, layouts>>
    BY DEF Hear, bridgeVars, workspaceVars
  <2>2. /\ stored' = [layouts |-> m.layouts, current |-> m.current]
        /\ room' = IF due THEN q ELSE room
        /\ up' = IF due THEN Append(up, a) ELSE up
        /\ UNCHANGED held
    BY <2>1 DEF HearLayouts
  <2>3. connected
    BY <2>1 DEF SceneInv, Shape
  <2>. QED BY <2>1, <2>2, <2>3
<1>1. IsRoom(room) /\ IsQueue(down) /\ LastIsTrue(down, devices, placements) /\ ListsAreKnown(down, layouts) /\ IsSequence(up)
  BY DEF SceneInv, Shape
<1>2. /\ IsQueue(t) /\ LastIsTrue(t, devices, placements) /\ ListsAreKnown(t, layouts)
      /\ RostersIn(t) = {} => RostersIn(down) = {}
      /\ NamesOf(m.layouts) \subseteq NamesOf(layouts) \/ Crossed(t)
  BY <1>0, <1>1, TakeFacts
<1>3. a.kind = "apply" /\ a.name = m.current
  OBVIOUS
<1>4. IsRoom(q) /\ IdsOf(q) = IdsOf(room)
  BY <1>1, ArrangeFacts
<1>. HIDE DEF t, m, q, a
<1>5. /\ IsSequence(up') /\ Elements(up) \subseteq Elements(up)' /\ (due => a \in Elements(up)')
      /\ (~due => Elements(up)' = Elements(up))
  <2>1. CASE due
    <3>1. up' = Append(up, a)
      BY <1>0, <2>1
    <3>2. IsSequence(Append(up, a)) /\ Elements(Append(up, a)) = Elements(up) \cup {a}
      BY <1>1, AppendElements
    <3>3. Elements(up)' = Elements(Append(up, a))
      BY <3>1 DEF Elements
    <3>. QED BY <2>1, <3>1, <3>2, <3>3
  <2>2. CASE ~due
    <3>1. up' = up
      BY <1>0, <2>2
    <3>. QED BY <1>1, <2>2, <3>1 DEF Elements
  <2>. QED BY <2>1, <2>2
<1>6. IsRoom(room') /\ IdsOf(room)' = IdsOf(room) /\ (~due => Elements(room)' = Elements(room))
  <2>1. CASE due
    BY <1>0, <1>4, <2>1 DEF IdsOf
  <2>2. CASE ~due
    BY <1>0, <1>1, <2>2 DEF IdsOf, Elements
  <2>. QED BY <2>1, <2>2
<1>7. due => m.current \in NamesOf(m.layouts)
  OBVIOUS
<1>. HIDE DEF due
<1>8. Shape'
  <2>1. IsQueue(down') /\ IsSequence(devices') /\ connected'
    BY <1>0, <1>2 DEF SceneInv, Shape
  <2>. QED BY <1>5, <1>6, <2>1 DEF Shape
<1>9. LastIsTrue(down, devices, placements)' /\ ListsAreKnown(down, layouts)'
  <2>1. LastIsTrue(down', devices', placements') /\ ListsAreKnown(down', layouts')
    BY <1>0, <1>2
  <2>. QED BY <2>1
<1>10. /\ RostersIn(down)' = RostersIn(t) /\ ListsIn(down)' = ListsIn(t) /\ Crossed(down)' = Crossed(t)
       /\ IdsOf(devices)' = IdsOf(devices) /\ NamesOf(layouts)' = NamesOf(layouts)
       /\ NamesOf(stored.layouts)' = NamesOf(m.layouts)
  BY <1>0 DEF RostersIn, ListsIn, Crossed, Followed, IdsOf, NamesOf
<1>11. DifferencesAreAsked'
  <2> SUFFICES ASSUME RostersIn(t) = {}
               PROVE  /\ \A d \in IdsOf(room) \ IdsOf(devices) : Wants(Elements(up)', "add", d)
                      /\ \A d \in IdsOf(devices) \ IdsOf(room) : Wants(Elements(up)', "remove", d)
    BY <1>6, <1>10 DEF DifferencesAreAsked
  <2>1. /\ \A d \in IdsOf(room) \ IdsOf(devices) : Wants(Elements(up), "add", d)
        /\ \A d \in IdsOf(devices) \ IdsOf(room) : Wants(Elements(up), "remove", d)
    BY <1>0, <1>2 DEF SceneInv, DifferencesAreAsked
  <2>. QED BY <1>5, <2>1 DEF Wants
<1>12. StandsUnlessDue'
  <2> SUFFICES ASSUME ~RosterIsDue' PROVE Stands(room, IdsOf(room), placements)'
    BY DEF StandsUnlessDue
  <2>1. RostersIn(t) = {} /\ opening = {}
    BY <1>0, <1>10 DEF RosterIsDue
  <2>2. /\ \A k \in {"hello", "pose", "add"} : ~Asks(Elements(up)', k)
        /\ \A n \in NamesOf(layouts) : ~AsksFor(Elements(up)', n)
    BY <1>10 DEF RosterIsDue
  <2>3. ~Crossed(t)
    BY <2>1 DEF Crossed, Followed
  <2>4. ~due
    <3>1. NamesOf(m.layouts) \subseteq NamesOf(layouts)
      BY <1>2, <2>3
    <3>. QED BY <1>3, <1>5, <1>7, <2>2, <3>1 DEF AsksFor
  <2>5. ~RosterIsDue
    BY <1>2, <1>5, <2>1, <2>2, <2>4 DEF RosterIsDue
  <2>6. Stands(room, IdsOf(room), placements)
    BY <1>0, <2>5 DEF SceneInv, StandsUnlessDue
  <2>. QED BY <1>0, <1>6, <2>4, <2>6 DEF Stands
<1>13. NamesAreKnown'
  BY <1>2, <1>10 DEF NamesAreKnown
<1>. QED BY <1>8, <1>9, <1>11, <1>12, <1>13 DEF SceneInv

\* The ports of a device are open: a roster again, and with the session's devices the arrangements.
LEMMA SettleScene == ASSUME SceneInv, FileInv, NEW d \in Ids, Settle(d) PROVE SceneInv'
<1> DEFINE R == Roster(devices', placements')
           L == LayoutState(layouts', current')
<1>0. /\ UNCHANGED <<room, held, stored, connected, up, placements, layouts, current>> /\ IsSequence(layouts) /\ IsSequence(layouts')
      /\ IsSequence(devices) /\ IsSequence(up') /\ Elements(up)' = Elements(up) /\ d \in opening
  <2>1. UNCHANGED <<room, held, stored, connected, up, placements, layouts, current>> /\ d \in opening
    BY DEF Settle, headsetVars, workspaceVars
  <2>. QED BY <2>1, LayoutsFacts DEF SceneInv, Shape, Elements
<1>1. \/ /\ d = Surface /\ First \in opening' /\ PushRoster(devices')
         /\ devices' = Append(devices, [id |-> First, model |-> Startup])
      \/ opening' = opening \ {d} /\ UNCHANGED devices /\ d \in {Surface, First} /\ Resync
      \/ opening' = opening \ {d} /\ UNCHANGED devices /\ d \notin {Surface, First} /\ PushRoster(devices)
  BY DEF Settle
<1>2. IsSequence(devices')
  <2>1. CASE \E x : devices' = Append(devices, x)
    BY <1>0, <2>1, AppendElements
  <2>2. CASE UNCHANGED devices
    BY <1>0, <2>2
  <2>. QED BY <1>1, <2>1, <2>2
<1>3. R = Roster(devices', placements') /\ L = LayoutState(layouts', current')
  OBVIOUS
<1>. HIDE DEF R, L
<1>4. CASE ~connected
  <2>1. up' = <<>> /\ down' = <<>> /\ IsRoom(room') /\ ~connected'
    BY <1>0, <1>1, <1>4 DEF PushRoster, Resync, Push, SceneInv, Shape
  <2>. QED BY <1>2, <2>1, Offline
<1>5. CASE connected
  <2>1. CASE First \in opening' /\ PushRoster(devices')
    <3>1. down' = down \o <<R>>
      BY <1>0, <1>5, <2>1 DEF PushRoster, Push, R
    <3>. QED BY <1>0, <1>2, <1>3, <1>5, <2>1, <3>1, BridgePushes
  <2>2. CASE UNCHANGED devices /\ Resync
    <3>1. down' = down \o <<R, L>>
      BY <1>0, <1>5, <2>2 DEF Resync, Push, R, L
    <3>. QED BY <1>0, <1>2, <1>3, <1>5, <3>1, BridgePushes
  <2>3. CASE opening' = opening \ {d} /\ UNCHANGED devices /\ d \notin {Surface, First} /\ PushRoster(devices)
    <3>1. down' = down \o <<R>>
      BY <1>0, <1>5, <2>3 DEF PushRoster, Push, R
    <3>2. opening' \cap {Surface, First} = opening \cap {Surface, First}
      BY <2>3
    <3>. QED BY <1>0, <1>2, <1>3, <1>5, <3>1, <3>2, BridgePushes
  <2>. QED BY <1>1, <2>1, <2>2, <2>3
<1>. QED BY <1>4, <1>5

\* A client connects: the gate opens the first device, or the bridge tells what it has.
LEMMA ConnectScene == ASSUME SceneInv, FileInv, Connect PROVE SceneInv'
<1> DEFINE R == Roster(devices', placements')
           L == LayoutState(layouts', current')
           h == [kind |-> "hello"]
<1>0. /\ UNCHANGED <<room, held, stored, placements, layouts, current>> /\ connected' /\ up' = <<h>>
      /\ \/ devices' = <<[id |-> Surface, model |-> SessionModel(Surface)]>> /\ Surface \in opening' /\ down' = <<R>>
         \/ UNCHANGED devices /\ down' = <<R, L>>
  BY DEF Connect, headsetVars, workspaceVars
<1>1. IsSequence(layouts) /\ IsSequence(layouts') /\ IsSequence(devices') /\ IsRoom(room')
  <2>1. IsSequence(devices')
    <3>1. CASE \E x : devices' = <<x>>
      BY <3>1, Singles
    <3>2. CASE UNCHANGED devices
      BY <3>2 DEF SceneInv, Shape
    <3>. QED BY <1>0, <3>1, <3>2
  <2>. QED BY <1>0, <2>1, LayoutsFacts DEF SceneInv, Shape
<1>2. IsSequence(up') /\ Asks(Elements(up)', "hello")
  <2>1. h.kind = "hello" /\ IsSequence(<<h>>) /\ Elements(<<h>>) = {h}
    BY Singles
  <2>2. Elements(up)' = Elements(<<h>>)
    BY <1>0 DEF Elements
  <2>. HIDE DEF h
  <2>. QED BY <1>0, <2>1, <2>2 DEF Asks
<1>3. R = Roster(devices', placements') /\ L = LayoutState(layouts', current')
  OBVIOUS
<1>. HIDE DEF R, L, h
<1>4. down' \in {<<R>>, <<R, L>>} /\ (down' = <<R, L>> \/ Surface \in opening')
  BY <1>0
<1>5. IsSequence(down')
  <2>1. IsSequence(<<R>>) /\ IsSequence(<<R, L>>)
    BY Singles
  <2>. QED BY <1>4, <2>1
<1>6. <<>> \o down' = down'
  <2>1. \E S : down' \in Seq(S)
    BY <1>5 DEF IsSequence
  <2>. QED BY <2>1, ConcatEmptySeq
<1>7. IsQueue(<<>>) /\ ListsAreKnown(<<>>, layouts')
  BY EmptyIsSequence DEF IsQueue, ListsAreKnown, RostersIn, ListsIn
<1>8. /\ IsQueue(down') /\ LastIsTrue(down', devices', placements') /\ ListsAreKnown(down', layouts')
      /\ RostersIn(down') # {}
      /\ down' = <<R, L>> => ListsIn(down') # {}
  <2>1. down' \in {<<R>>, <<L, R>>, <<R, L>>}
    BY <1>4
  <2>. QED BY <1>1, <1>3, <1>6, <1>7, <2>1, PushFacts
<1>9. Shape'
  BY <1>0, <1>1, <1>2, <1>8 DEF Shape
<1>10. LastIsTrue(down, devices, placements)' /\ ListsAreKnown(down, layouts)' /\ RostersIn(down)' # {}
  BY <1>8
<1>11. DifferencesAreAsked' /\ StandsUnlessDue'
  BY <1>10 DEF DifferencesAreAsked, StandsUnlessDue, RosterIsDue
<1>12. NamesAreKnown'
  <2>1. ListsIn(down)' # {} \/ Surface \in opening'
    BY <1>4, <1>8
  <2>. QED BY <1>2, <2>1 DEF NamesAreKnown
<1>. QED BY <1>9, <1>10, <1>11, <1>12 DEF SceneInv

-----------------------------------------------------------------------------
(* Types of the scene.                                                     *)

Device == [id : Ids, model : Models \cup {"vrmc"}]
WorkspaceSet == [placements : [Ids -> Places], layouts : Seq(LayoutSet), current : Names \cup {""}]
UpMsg ==
    [kind : {"hello"}] \cup [kind : {"add"}, id : Ids, model : Models \cup {"vrmc"}]
        \cup [kind : {"remove"}, id : Ids] \cup [kind : {"pose"}, id : Ids, pose : SomePose]
        \cup [kind : {"save"}, name : Names, entries : Seq(Entry)] \cup [kind : {"delete", "apply"}, name : Names]
DownMsg ==
    [kind : {"roster"}, entries : Seq(RosterEntry)]
        \cup [kind : {"layouts"}, layouts : Seq(LayoutSet), current : Names \cup {""}]

\* A hand holds what is in the room, where no two devices share an id.
RoomTyped == room \in Seq(Entry) /\ Apart(room) /\ held \subseteq IdsOf(room) /\ nextId \in First..MaxId + 1
ToldTyped == stored \in [layouts : Seq(LayoutSet), current : Names \cup {""}] /\ applied \in Names \cup {""}
Savings == {"done", "armed", "failed"}
LinkTyped == connected \in BOOLEAN /\ strayed \in BOOLEAN /\ up \in Seq(UpMsg) /\ down \in Seq(DownMsg)
BridgeTyped == devices \in Seq(Device) /\ Apart(devices) /\ opening \subseteq Ids /\ saving \in Savings
KeptTyped == Workspace \in WorkspaceSet /\ file \in WorkspaceSet

SceneTyped == RoomTyped /\ ToldTyped /\ LinkTyped /\ BridgeTyped /\ KeptTyped

LEMMA IdsAreIds == MaxId \in Nat \ {0} /\ Ids = 0..MaxId /\ Surface \in Ids /\ First \in Ids
<1>1. {MaxId, MaxLayouts, Fits, MaxQueue, MaxActs} \subseteq Nat /\ MaxId > 0
  BY SceneAssumption
<1>2. MaxId \in Nat /\ MaxId > 0
  BY <1>1
<1>. QED BY <1>2 DEF Ids, Surface, First

\* What each kind of message carries.
LEMMA UpFacts ==
    ASSUME NEW m \in UpMsg
    PROVE  /\ m.kind \in {"add", "remove", "pose"} => m.id \in Ids
           /\ m.kind = "add" => m.model \in Models \cup {"vrmc"}
           /\ m.kind = "pose" => m.pose \in SomePose
           /\ m.kind \in {"save", "delete", "apply"} => m.name \in Names
           /\ m.kind = "save" => m.entries \in Seq(Entry)
BY DEF UpMsg

LEMMA UpMade ==
    /\ [kind |-> "hello"] \in UpMsg
    /\ \A d \in Ids, x \in Models \cup {"vrmc"} : [kind |-> "add", id |-> d, model |-> x] \in UpMsg
    /\ \A d \in Ids : [kind |-> "remove", id |-> d] \in UpMsg
    /\ \A d \in Ids, p \in SomePose : [kind |-> "pose", id |-> d, pose |-> p] \in UpMsg
    /\ \A n \in Names, es \in Seq(Entry) : [kind |-> "save", name |-> n, entries |-> es] \in UpMsg
    /\ \A n \in Names : [kind |-> "delete", name |-> n] \in UpMsg /\ [kind |-> "apply", name |-> n] \in UpMsg
BY DEF UpMsg

LEMMA DownFacts ==
    ASSUME NEW m \in DownMsg
    PROVE  /\ m.kind = "roster" => m.entries \in Seq(RosterEntry)
           /\ m.kind # "roster" => m.layouts \in Seq(LayoutSet) /\ m.current \in Names \cup {""}
BY DEF DownMsg

LEMMA DownMade ==
    /\ \A es \in Seq(RosterEntry) : [kind |-> "roster", entries |-> es] \in DownMsg
    /\ \A ls \in Seq(LayoutSet), c \in Names \cup {""} : [kind |-> "layouts", layouts |-> ls, current |-> c] \in DownMsg
BY DEF DownMsg

LEMMA OneOf == ASSUME NEW S, NEW x \in S PROVE <<x>> \in Seq(S)
OBVIOUS

LEMMA TwoOf == ASSUME NEW S, NEW x \in S, NEW y \in S PROVE <<x, y>> \in Seq(S)
OBVIOUS

LEMMA RosterTyped == ASSUME NEW ds \in Seq(Device), NEW ps \in [Ids -> Places] PROVE Roster(ds, ps) \in DownMsg
<1> DEFINE es == [i \in DOMAIN ds |-> [id |-> ds[i].id, model |-> ds[i].model, place |-> ps[ds[i].id]]]
<1>1. DOMAIN ds = 1..Len(ds) /\ Len(ds) \in Nat /\ \A i \in DOMAIN ds : ds[i] \in Device
  OBVIOUS
<1>2. ASSUME NEW i \in DOMAIN ds PROVE es[i] \in RosterEntry
  <2>1. ds[i].id \in Ids /\ ds[i].model \in Models \cup {"vrmc"}
    BY <1>1 DEF Device
  <2>2. ps[ds[i].id] \in Places
    BY <2>1
  <2>. QED BY <2>1, <2>2 DEF RosterEntry
<1>3. es \in [1..Len(ds) -> RosterEntry]
  <2>1. DOMAIN es = 1..Len(ds) /\ es = [i \in 1..Len(ds) |-> es[i]]
    BY <1>1
  <2>. HIDE DEF es
  <2>. QED BY <1>1, <1>2, <2>1
<1>. HIDE DEF es
<1>4. es \in Seq(RosterEntry)
  BY <1>1, <1>3
<1>5. Roster(ds, ps) = [kind |-> "roster", entries |-> es]
  BY DEF Roster, es
<1>. QED BY <1>4, <1>5, DownMade

\* What fits of a list.
LEMMA FrontOf ==
    ASSUME NEW S, NEW s \in Seq(S), NEW k \in Nat PROVE SubSeq(s, 1, IF Len(s) < k THEN Len(s) ELSE k) \in Seq(S)
<1> DEFINE n == IF Len(s) < k THEN Len(s) ELSE k
<1>1. Len(s) \in Nat /\ \A i \in 1..Len(s) : s[i] \in S
  OBVIOUS
<1>2. n \in Nat /\ n <= Len(s)
  BY <1>1
<1>. HIDE DEF n
<1>3. \A i \in 1..n : s[i] \in S
  BY <1>1, <1>2
<1>4. SubSeq(s, 1, n) \in Seq(S)
  BY <1>2, <1>3, SubSeqProperties
<1>. QED BY <1>4 DEF n

LEMMA LayoutStateTyped ==
    ASSUME NEW ls \in Seq(LayoutSet), NEW c \in Names \cup {""} PROVE LayoutState(ls, c) \in DownMsg
<1> DEFINE t == SubSeq(ls, 1, IF Len(ls) < Fits THEN Len(ls) ELSE Fits)
<1>1. Fits \in Nat
  <2>1. {MaxId, MaxLayouts, Fits, MaxQueue, MaxActs} \subseteq Nat
    BY SceneAssumption
  <2>. QED BY <2>1
<1>2. t \in Seq(LayoutSet)
  BY <1>1, FrontOf, Zenon
<1>3. LayoutState(ls, c) = [kind |-> "layouts", layouts |-> t, current |-> c]
  BY Zenon DEF LayoutState
<1>. HIDE DEF t
<1>. QED BY <1>2, <1>3, DownMade, Zenon

LEMMA SendTyped == ASSUME LinkTyped, NEW ms \in Seq(UpMsg), Send(ms) PROVE up' \in Seq(UpMsg)
BY DEF LinkTyped, Send

LEMMA PushTyped == ASSUME LinkTyped, NEW ms \in Seq(DownMsg), Push(ms) PROVE down' \in Seq(DownMsg)
BY DEF LinkTyped, Push

\* Everything the bridge pushes is of its workspace and its devices.
LEMMA PushedTyped ==
    ASSUME NEW ds \in Seq(Device), NEW ps \in [Ids -> Places], NEW ls \in Seq(LayoutSet), NEW c \in Names \cup {""}
    PROVE  /\ <<Roster(ds, ps)>> \in Seq(DownMsg)
           /\ <<Roster(ds, ps), LayoutState(ls, c)>> \in Seq(DownMsg)
           /\ <<LayoutState(ls, c), Roster(ds, ps)>> \in Seq(DownMsg)
BY RosterTyped, LayoutStateTyped, OneOf, TwoOf, Zenon

LEMMA KeptFacts ==
    ASSUME KeptTyped
    PROVE  placements \in [Ids -> Places] /\ layouts \in Seq(LayoutSet) /\ current \in Names \cup {""}
<1>1. /\ Workspace.placements = placements /\ Workspace.layouts = layouts /\ Workspace.current = current
  BY DEF Workspace
<1>2. Workspace.placements \in [Ids -> Places] /\ Workspace.layouts \in Seq(LayoutSet) /\ Workspace.current \in Names \cup {""}
  <2>. HIDE DEF Workspace
  <2>. QED BY DEF KeptTyped, WorkspaceSet
<1>. QED BY <1>1, <1>2

LEMMA WorkspaceMade ==
    ASSUME placements' \in [Ids -> Places], layouts' \in Seq(LayoutSet), current' \in Names \cup {""}
    PROVE  Workspace' \in WorkspaceSet
BY DEF Workspace, WorkspaceSet

\* A room of entries is a room.
LEMMA TypedRoom == ASSUME NEW r \in Seq(Entry) PROVE IsRoom(r) /\ Elements(r) \subseteq Entry
<1>1. IsSequence(r) /\ Elements(r) \subseteq Entry
  BY IsSequenceOf, ElementsIn
<1>2. ASSUME NEW i \in DOMAIN r PROVE IsEntry(r[i])
  <2>1. r[i] \in Entry
    BY <1>1 DEF Elements
  <2>. QED BY <2>1 DEF Entry, IsEntry
<1>. QED BY <1>1, <1>2 DEF IsRoom

LEMMA RoomTypes == ASSUME NEW r, IsRoom(r), Elements(r) \subseteq Entry PROVE r \in Seq(Entry)
BY SequenceIn DEF IsRoom

LEMMA InitTyped == SceneInit => SceneTyped
<1> SUFFICES ASSUME SceneInit PROVE SceneTyped
  OBVIOUS
<1> DEFINE x == [id |-> Surface, model |-> "vrmc", pose |-> "home"]
<1>1. x \in Entry /\ <<x>> \in Seq(Entry)
  BY IdsAreIds DEF Entry, SomePose
<1>2. RoomTyped
  <2>1. room = <<x>> /\ nextId = First /\ held = {}
    BY DEF SceneInit
  <2>. HIDE DEF SceneInit, x
  <2>2. Apart(<<x>>)
    BY Singles DEF Apart
  <2>3. First \in First..MaxId + 1
    BY IdsAreIds DEF First
  <2>. QED BY <1>1, <2>1, <2>2, <2>3 DEF RoomTyped
<1>3. ToldTyped /\ LinkTyped
  <2>1. stored = [layouts |-> <<>>, current |-> ""] /\ applied = "" /\ connected = FALSE /\ strayed = FALSE /\ up = <<>> /\ down = <<>>
    BY DEF SceneInit
  <2>2. <<>> \in Seq(LayoutSet) /\ <<>> \in Seq(UpMsg) /\ <<>> \in Seq(DownMsg)
    OBVIOUS
  <2>. HIDE DEF SceneInit
  <2>. QED BY <2>1, <2>2 DEF ToldTyped, LinkTyped
<1>4. BridgeTyped
  <2>1. devices = <<>> /\ opening = {} /\ saving = "done"
    BY DEF SceneInit
  <2>2. <<>> \in Seq(Device) /\ Apart(<<>>)
    BY EmptyIsSequence DEF Apart
  <2>. HIDE DEF SceneInit
  <2>. QED BY <2>1, <2>2 DEF BridgeTyped, Savings
<1>5. KeptTyped
  <2>1. [d \in Ids |-> "none"] \in [Ids -> Places] /\ <<>> \in Seq(LayoutSet)
    BY DEF Places
  <2>2. Empty \in WorkspaceSet
    BY <2>1 DEF Empty, WorkspaceSet
  <2>3. Workspace = Empty /\ file = Empty
    BY DEF SceneInit, Workspace, Empty
  <2>. QED BY <2>2, <2>3 DEF KeptTyped
<1>. QED BY <1>2, <1>3, <1>4, <1>5 DEF SceneTyped

\* What no hand carries, but a hand holds, is left as it is.
Still == \A x \in Elements(room) : x.id \in held \cap held' => x \in Elements(room')

LEMMA RoomMade ==
    ASSUME room' \in Seq(Entry), Apart(room'), held' \subseteq IdsOf(room'), nextId' \in First..MaxId + 1
    PROVE  RoomTyped'
BY DEF RoomTyped, Apart, IdsOf

LEMMA SameRoom == ASSUME RoomTyped, UNCHANGED <<room, nextId>>, held' \subseteq IdsOf(room) PROVE RoomTyped' /\ Still
<1>1. RoomTyped'
  BY RoomMade DEF RoomTyped
<1>. QED BY <1>1 DEF Still

LEMMA SameTold == ASSUME ToldTyped, UNCHANGED <<stored, applied>> PROVE ToldTyped'
BY DEF ToldTyped

LEMMA PutTyped ==
    ASSUME RoomTyped, NEW d, NEW p \in SomePose, PutAt(d, p), UNCHANGED <<held, nextId>>
    PROVE  RoomTyped' /\ (d \notin held => Still)
<1>1. room \in Seq(Entry) /\ Apart(room) /\ held \subseteq IdsOf(room) /\ nextId \in First..MaxId + 1
  BY DEF RoomTyped
<1>2. IsRoom(room) /\ Elements(room) \subseteq Entry
  BY <1>1, TypedRoom
<1>3. IsRoom(room') /\ IdsOf(room)' = IdsOf(room)
  BY <1>2, PutFacts
<1>4. DOMAIN room' = DOMAIN room /\ \A i \in DOMAIN room :
        room'[i] = IF room[i].id = d THEN [room[i] EXCEPT !.pose = p] ELSE room[i]
  BY DEF PutAt
<1>5. ASSUME NEW i \in DOMAIN room PROVE room'[i] \in Entry /\ room'[i].id = room[i].id
  <2>1. room[i] \in Entry
    BY <1>2 DEF Elements
  <2>2. CASE room[i].id = d
    <3>1. room'[i] = [room[i] EXCEPT !.pose = p]
      BY <1>4, <2>2
    <3>. QED BY <2>1, <3>1 DEF Entry
  <2>3. CASE room[i].id # d
    BY <1>4, <2>1, <2>3
  <2>. QED BY <2>2, <2>3
<1>6. Elements(room') \subseteq Entry
  BY <1>4, <1>5 DEF Elements
<1>7. room' \in Seq(Entry)
  BY <1>3, <1>6, RoomTypes
<1>8. Apart(room')
  BY <1>1, <1>4, <1>5 DEF Apart
<1>9. held' \subseteq IdsOf(room')
  BY <1>1, <1>3 DEF IdsOf
<1>10. ASSUME d \notin held, NEW i \in DOMAIN room, room[i].id \in held PROVE room[i] \in Elements(room')
  BY <1>4, <1>10 DEF Elements
<1>. QED BY <1>1, <1>7, <1>8, <1>9, <1>10, RoomMade DEF Still, Elements

\* An arrangement is put into effect: what a hand holds takes no part.
LEMMA ArrangeTyped ==
    ASSUME RoomTyped, NEW ls \in Seq(LayoutSet), NEW n \in NamesOf(ls), room' = Arrange(room, ls, n), UNCHANGED <<held, nextId>>
    PROVE  RoomTyped' /\ Still
<1>1. room \in Seq(Entry) /\ Apart(room) /\ held \subseteq IdsOf(room) /\ nextId \in First..MaxId + 1
  BY DEF RoomTyped
<1>2. IsRoom(room) /\ Elements(room) \subseteq Entry
  BY <1>1, TypedRoom
<1>3. Named(ls, n) \in LayoutSet
  <2>1. \E l \in ToSet(ls) : l.name = n
    BY DEF NamesOf, ToSet
  <2>2. Named(ls, n) \in ToSet(ls)
    BY <2>1 DEF Named
  <2>. QED BY <2>2, ElementsIn DEF ToSet, Elements
<1>4. Named(ls, n).entries \in Seq(Entry)
  BY <1>3 DEF LayoutSet
<1>5. /\ IsRoom(room') /\ IdsOf(room') = IdsOf(room)
      /\ Keeps(room, room') /\ Elements(room') \subseteq Entry
  BY <1>2, <1>4, ArrangeFacts
<1>6. room' \in Seq(Entry)
  BY <1>5, RoomTypes
<1>7. RoomTyped'
  BY <1>1, <1>5, <1>6, RoomMade DEF Keeps
<1>. QED BY <1>5, <1>7 DEF Keeps, Still

\* A step of the headset, once it is known what it does to the room.
LEMMA UserTyped ==
    ASSUME SceneTyped, User
    PROVE  RoomTyped' /\ ToldTyped' /\ up' \in Seq(UpMsg) /\ (Still \/ \E d \in Ids, p \in Poses : d \in held /\ Carry(d, p))
<1> USE DEF SceneTyped
<1>0. /\ room \in Seq(Entry) /\ Apart(room) /\ held \subseteq IdsOf(room) /\ nextId \in First..MaxId + 1
      /\ IsRoom(room) /\ Elements(room) \subseteq Entry /\ up \in Seq(UpMsg)
  BY TypedRoom DEF RoomTyped, LinkTyped
<1>1. ASSUME NEW m \in Models, AddDevice(m) PROVE RoomTyped' /\ ToldTyped' /\ up' \in Seq(UpMsg) /\ Still
  <2>1. PICK id \in nextId..MaxId :
          /\ room' = Append(room, [id |-> id, model |-> m, pose |-> "home"])
          /\ nextId' = id + 1 /\ ~There(id)
          /\ Send(<<[kind |-> "add", id |-> id, model |-> m]>>)
    BY <1>1 DEF AddDevice
  <2> DEFINE x == [id |-> id, model |-> m, pose |-> "home"]
             a == [kind |-> "add", id |-> id, model |-> m]
  <2>2. id \in Ids /\ id + 1 \in First..MaxId + 1
    BY <1>0, IdsAreIds DEF First
  <2>3. x \in Entry /\ a \in UpMsg
    BY <2>2, UpMade DEF Entry, SomePose
  <2>4. IsRoom(Append(room, x)) /\ Elements(Append(room, x)) = Elements(room) \cup {x} /\ x.id = id
    BY <1>0, EntryAppended
  <2>. HIDE DEF x, a
  <2>5. \A y \in Elements(room) : y.id # x.id
    BY <2>1, <2>4, IdsOfElements DEF There
  <2>6. Apart(room')
    BY <1>0, <2>1, <2>5, ApartAppended DEF IsRoom, x
  <2>7. room' = Append(room, x) /\ room' \in Seq(Entry)
    BY <1>0, <2>1, <2>3 DEF x
  <2>8. UNCHANGED <<held, stored, applied>> /\ held \subseteq IdsOf(room')
    <3>1. IdsOf(room') = {y.id : y \in Elements(room')} /\ IdsOf(room) = {y.id : y \in Elements(room)}
      BY IdsOfElements
    <3>. QED BY <1>0, <1>1, <2>4, <2>7, <3>1 DEF AddDevice
  <2>9. RoomTyped'
    BY <2>1, <2>2, <2>6, <2>7, <2>8, RoomMade
  <2>10. up' \in Seq(UpMsg)
    BY <2>1, <2>3, OneOf, SendTyped DEF a
  <2>11. Still
    BY <2>4, <2>7 DEF Still
  <2>. QED BY <2>8, <2>9, <2>10, <2>11, SameTold
<1>2. ASSUME NEW d \in Ids, RemoveDevice(d) PROVE RoomTyped' /\ ToldTyped' /\ up' \in Seq(UpMsg) /\ Still
  <2>1. room' = Without(room, {d}) /\ held' = held \ {d} /\ Send(<<[kind |-> "remove", id |-> d]>>) /\ UNCHANGED <<nextId, stored, applied>>
    BY <1>2 DEF RemoveDevice
  <2>2. IsSequence(room') /\ Elements(room') = {x \in Elements(room) : x.id \notin {d}} /\ Apart(room')
    BY <1>0, <2>1, WithoutElements DEF IsRoom
  <2>3. room' \in Seq(Entry)
    BY <1>0, <2>2, SequenceIn
  <2>4. held' \subseteq IdsOf(room')
    BY <1>0, <2>1, <2>2, IdsOfElements
  <2>5. RoomTyped'
    BY <1>0, <2>1, <2>2, <2>3, <2>4, RoomMade
  <2>6. up' \in Seq(UpMsg)
    BY <2>1, UpMade, OneOf, SendTyped
  <2>7. Still
    BY <2>1, <2>2 DEF Still
  <2>. QED BY <2>1, <2>5, <2>6, <2>7, SameTold
<1>3. ASSUME NEW d \in Ids, Grab(d) PROVE RoomTyped' /\ ToldTyped' /\ up' \in Seq(UpMsg) /\ Still
  <2>1. UNCHANGED <<room, nextId, stored, applied, up>> /\ held' \subseteq IdsOf(room)
    BY <1>0, <1>3 DEF Grab, There
  <2>. QED BY <1>0, <2>1, SameRoom, SameTold
<1>4. ASSUME NEW d \in Ids, LetGo(d) PROVE RoomTyped' /\ ToldTyped' /\ up' \in Seq(UpMsg) /\ Still
  <2>1. UNCHANGED <<room, nextId, stored, applied>> /\ held' \subseteq IdsOf(room) /\ d \in held /\ Send(<<PoseMsg(d, DeviceAt(d).pose)>>)
    BY <1>0, <1>4 DEF LetGo
  <2>2. DeviceAt(d) \in Entry
    <3>1. \E x \in ToSet(room) : x.id = d
      BY <1>0, <2>1 DEF IdsOf, ToSet
    <3>2. DeviceAt(d) \in ToSet(room)
      BY <3>1 DEF DeviceAt
    <3>. QED BY <1>0, <3>2 DEF ToSet, Elements
  <2>3. PoseMsg(d, DeviceAt(d).pose) \in UpMsg
    <3>1. DeviceAt(d).pose \in SomePose
      BY <2>2 DEF Entry
    <3>. QED BY <3>1, UpMade DEF PoseMsg
  <2>4. up' \in Seq(UpMsg)
    BY <2>1, <2>3, OneOf, SendTyped
  <2>. QED BY <2>1, <2>4, SameRoom, SameTold
<1>5. ASSUME NEW d \in Ids, NEW p \in Poses, Carry(d, p)
      PROVE  RoomTyped' /\ ToldTyped' /\ up' \in Seq(UpMsg) /\ d \in held
  <2>1. UNCHANGED <<nextId, held, stored, applied, up>> /\ PutAt(d, p) /\ p \in SomePose /\ d \in held
    BY <1>5 DEF Carry, SomePose
  <2>. QED BY <1>0, <2>1, PutTyped, SameTold
<1>6. ASSUME NEW d \in Ids, NEW p \in Poses, Placed(d, p) PROVE RoomTyped' /\ ToldTyped' /\ up' \in Seq(UpMsg) /\ Still
  <2>1. UNCHANGED <<nextId, held, stored, applied>> /\ PutAt(d, p) /\ p \in SomePose /\ d \notin held /\ Send(<<PoseMsg(d, p)>>)
    BY <1>6 DEF Placed, SomePose
  <2>2. up' \in Seq(UpMsg)
    BY <2>1, UpMade, OneOf, SendTyped DEF PoseMsg
  <2>. QED BY <2>1, <2>2, PutTyped, SameTold
<1>7. ASSUME NEW n \in Names, SaveLayout(n) \/ DeleteLayout(n) PROVE RoomTyped' /\ ToldTyped' /\ up' \in Seq(UpMsg) /\ Still
  <2>1. UNCHANGED <<room, nextId, held, stored, applied>>
    BY <1>7 DEF SaveLayout, DeleteLayout, headsetVars
  <2>2. Entries \in Seq(Entry)
    BY <1>0 DEF Entries
  <2>3. PICK a \in UpMsg : Send(<<a>>)
    BY <1>7, <2>2, UpMade DEF SaveLayout, DeleteLayout
  <2>4. up' \in Seq(UpMsg)
    BY <2>3, OneOf, SendTyped
  <2>. QED BY <1>0, <2>1, <2>4, SameRoom, SameTold
<1>8. ASSUME NEW n \in Names, ApplyLayout(n) PROVE RoomTyped' /\ ToldTyped' /\ up' \in Seq(UpMsg) /\ Still
  <2>1. /\ room' = Arrange(room, stored.layouts, n) /\ n \in NamesOf(stored.layouts) /\ UNCHANGED <<nextId, held>>
        /\ applied' = n /\ stored' = [stored EXCEPT !.current = n] /\ Send(<<[kind |-> "apply", name |-> n]>>)
    BY <1>8 DEF ApplyLayout
  <2>2. stored.layouts \in Seq(LayoutSet)
    BY DEF ToldTyped
  <2>3. RoomTyped' /\ Still
    BY <2>1, <2>2, ArrangeTyped
  <2>4. ToldTyped'
    BY <2>1 DEF ToldTyped
  <2>5. up' \in Seq(UpMsg)
    BY <2>1, UpMade, OneOf, SendTyped
  <2>. QED BY <2>3, <2>4, <2>5
<1>. QED BY <1>1, <1>2, <1>3, <1>4, <1>5, <1>6, <1>7, <1>8 DEF User

\* The number the next device gets: past every id that was handed out, and past those of the roster.
LEMMA NextTyped ==
    ASSUME NEW n \in First..MaxId + 1, NEW ids, ids \subseteq Ids
    PROVE  (CHOOSE k \in {n} \cup {i + 1 : i \in ids} : k >= n /\ \A i \in ids : i < k) \in First..MaxId + 1
<1> DEFINE K == {n} \cup {i + 1 : i \in ids}
           Past(k) == k >= n /\ \A i \in ids : i < k
           T == {k \in Nat : Past(k)}
<1>1. /\ MaxId \in Nat /\ n \in Nat /\ n <= MaxId + 1 /\ n >= First /\ First = 1
      /\ \A i \in ids : i \in Nat /\ i < MaxId + 1
  <2>1. MaxId \in Nat /\ Ids = 0..MaxId /\ First = 1
    BY IdsAreIds DEF First
  <2>. QED BY <2>1
<1>2. MaxId + 1 \in T
  BY <1>1
<1>3. PICK k \in T : \A j \in T : k <= j
  <2>1. T \subseteq Nat /\ T # {}
    BY <1>2
  <2>. HIDE DEF T
  <2>. QED BY <2>1, Least
<1>4. k \in K
  <2>1. CASE k = n
    BY <2>1
  <2>2. CASE k # n
    <3>1. k \in Nat /\ k > n /\ k - 1 \in Nat /\ k - 1 >= n
      BY <1>1, <1>3, <2>2
    <3>2. k - 1 \notin T
      BY <1>3, <3>1
    <3>3. PICK i \in ids : ~(i < k - 1)
      BY <3>1, <3>2
    <3>4. i < k /\ i \in Nat
      BY <1>1, <1>3
    <3>5. k = i + 1
      BY <3>1, <3>3, <3>4
    <3>. QED BY <3>5
  <2>. QED BY <2>1, <2>2
<1>5. \E j \in K : Past(j)
  BY <1>3, <1>4
<1> DEFINE c == CHOOSE j \in K : Past(j)
<1>6. c \in K /\ Past(c)
  <2>. HIDE DEF K, Past
  <2>. QED BY <1>5
<1>7. c \in First..MaxId + 1
  <2>. HIDE DEF c
  <2>. QED BY <1>1, <1>6
<1>. QED BY <1>7

\* What is asked for again, of a room.
LEMMA MissingTyped == ASSUME NEW r \in Seq(Entry), NEW entries PROVE Missing(r, entries) \in Seq(UpMsg)
<1> DEFINE lost == Without(r, IdsOf(entries))
           ms == [i \in DOMAIN lost |-> [kind |-> "add", id |-> lost[i].id, model |-> lost[i].model]]
<1>1. lost \in Seq(Entry)
  <2>1. IsSequence(lost) /\ Elements(lost) \subseteq Entry
    BY TypedRoom, WithoutElements DEF IsRoom
  <2>. QED BY <2>1, SequenceIn
<1>2. Missing(r, entries) = ms
  BY DEF Missing
<1>. HIDE DEF lost
<1>3. DOMAIN lost = 1..Len(lost) /\ Len(lost) \in Nat /\ \A i \in DOMAIN lost : lost[i] \in Entry
  BY <1>1
<1>4. \A i \in DOMAIN lost : ms[i] \in UpMsg
  <2> SUFFICES ASSUME NEW i \in DOMAIN lost PROVE ms[i] \in UpMsg
    OBVIOUS
  <2>1. lost[i].id \in Ids /\ lost[i].model \in Models \cup {"vrmc"}
    BY <1>3 DEF Entry
  <2>. QED BY <2>1, UpMade
<1>5. ms \in Seq(UpMsg)
  <2>1. DOMAIN ms = DOMAIN lost /\ ms = [i \in DOMAIN lost |-> ms[i]]
    OBVIOUS
  <2>. HIDE DEF ms
  <2>. QED BY <1>3, <1>4, <2>1
<1>. QED BY <1>2, <1>5

LEMMA HeadOf == ASSUME NEW S, NEW q \in Seq(S), q # <<>> PROVE Head(q) \in S /\ Tail(q) \in Seq(S)
OBVIOUS

LEMMA AppendOf == ASSUME NEW S, NEW q \in Seq(S), NEW x \in S PROVE Append(q, x) \in Seq(S)
OBVIOUS

LEMMA JoinOf == ASSUME NEW S, NEW q \in Seq(S), NEW p \in Seq(S) PROVE q \o p \in Seq(S)
OBVIOUS

\* Whatever the headset is told, types are kept, and so is what a hand holds.
LEMMA HearTyped ==
    ASSUME SceneTyped, Hear
    PROVE  RoomTyped' /\ ToldTyped' /\ up' \in Seq(UpMsg) /\ down' \in Seq(DownMsg) /\ Still
<1> DEFINE m == Head(down)
<1>0. /\ RoomTyped /\ ToldTyped /\ up \in Seq(UpMsg) /\ m \in DownMsg /\ Tail(down) \in Seq(DownMsg) /\ down' = Tail(down)
      /\ m.kind = "roster" => HearRoster(m)
      /\ m.kind # "roster" => HearLayouts(m)
  <2>1. up \in Seq(UpMsg) /\ down \in Seq(DownMsg)
    BY DEF SceneTyped, LinkTyped
  <2>2. down # <<>> /\ down' = Tail(down) /\ IF m.kind = "roster" THEN HearRoster(m) ELSE HearLayouts(m)
    BY DEF Hear
  <2>3. m \in DownMsg /\ Tail(down) \in Seq(DownMsg)
    BY <2>1, <2>2, HeadOf
  <2>. HIDE DEF m
  <2>. QED BY <2>1, <2>2, <2>3 DEF SceneTyped
<1>. HIDE DEF m
<1>1. ASSUME m.kind = "roster" PROVE RoomTyped' /\ ToldTyped' /\ up' \in Seq(UpMsg) /\ Still
  <2>1. /\ room' = Adopted(room, m.entries)
        /\ nextId' = LET ids == IdsOf(m.entries) \ IdsOf(room)
                     IN  CHOOSE n \in {nextId} \cup {i + 1 : i \in ids} : n >= nextId /\ \A i \in ids : i < n
        /\ up' = up \o Missing(room', m.entries)
        /\ UNCHANGED <<held, stored, applied>>
    BY <1>0, <1>1 DEF HearRoster
  <2>2. m.entries \in Seq(RosterEntry)
    BY <1>0, <1>1, DownFacts
  <2>3. room \in Seq(Entry) /\ Apart(room) /\ held \subseteq IdsOf(room) /\ nextId \in First..MaxId + 1
    BY <1>0 DEF RoomTyped
  <2>4. IsRoom(room) /\ Elements(room) \subseteq Entry /\ IsSequence(m.entries) /\ Elements(m.entries) \subseteq RosterEntry
    BY <2>2, <2>3, TypedRoom, IsSequenceOf, ElementsIn
  <2>5. /\ IsRoom(room') /\ IdsOf(room') = IdsOf(room) \cup IdsOf(m.entries)
        /\ Keeps(room, room') /\ Elements(room') \subseteq Entry
    BY <2>1, <2>4, AdoptedFacts
  <2>6. IdsOf(m.entries) \subseteq Ids
    <3>1. \A x \in Elements(m.entries) : x.id \in Ids
      BY <2>4 DEF RosterEntry
    <3>. QED BY <3>1, IdsOfElements
  <2>7. nextId' \in First..MaxId + 1
    <3> DEFINE ids == IdsOf(m.entries) \ IdsOf(room)
    <3>1. ids \subseteq Ids
      BY <2>6
    <3>2. nextId' = CHOOSE n \in {nextId} \cup {i + 1 : i \in ids} : n >= nextId /\ \A i \in ids : i < n
      BY <2>1
    <3>. HIDE DEF ids
    <3>. QED BY <2>3, <3>1, <3>2, NextTyped
  <2>8. room' \in Seq(Entry)
    BY <2>5, RoomTypes
  <2>9. RoomTyped'
    BY <2>1, <2>3, <2>5, <2>7, <2>8, RoomMade DEF Keeps
  <2>10. up' \in Seq(UpMsg)
    BY <1>0, <2>1, <2>8, MissingTyped, JoinOf
  <2>11. Still
    BY <2>5 DEF Keeps, Still
  <2>. QED BY <1>0, <2>1, <2>9, <2>10, <2>11, SameTold
<1>2. ASSUME m.kind # "roster" PROVE RoomTyped' /\ ToldTyped' /\ up' \in Seq(UpMsg) /\ Still
  <2> DEFINE due == m.current # "" /\ m.current # applied /\ m.current \in NamesOf(m.layouts)
  <2>1. /\ stored' = [layouts |-> m.layouts, current |-> m.current]
        /\ room' = IF due THEN Arrange(room, m.layouts, m.current) ELSE room
        /\ applied' = IF due THEN m.current ELSE applied
        /\ up' = IF due THEN Append(up, [kind |-> "apply", name |-> m.current]) ELSE up
        /\ UNCHANGED <<nextId, held>>
    BY <1>0, <1>2 DEF HearLayouts
  <2>2. m.layouts \in Seq(LayoutSet) /\ m.current \in Names \cup {""}
    BY <1>0, <1>2, DownFacts
  <2>3. CASE due
    <3>1. RoomTyped' /\ Still
      BY <1>0, <2>1, <2>2, <2>3, ArrangeTyped
    <3>2. m.current \in Names
      BY <2>2, <2>3
    <3>3. ToldTyped'
      BY <2>1, <2>2, <2>3 DEF ToldTyped
    <3>4. [kind |-> "apply", name |-> m.current] \in UpMsg
      BY <3>2, UpMade
    <3>5. up' \in Seq(UpMsg)
      BY <1>0, <2>1, <2>3, <3>4, AppendOf, Zenon
    <3>. QED BY <3>1, <3>3, <3>5
  <2>4. CASE ~due
    <3>1. UNCHANGED <<room, nextId, held, applied, up>>
      BY <2>1, <2>4
    <3>2. RoomTyped' /\ Still
      BY <1>0, <3>1, SameRoom DEF RoomTyped
    <3>3. ToldTyped'
      BY <1>0, <2>1, <2>2, <3>1 DEF ToldTyped
    <3>. QED BY <1>0, <3>1, <3>2, <3>3
  <2>. QED BY <2>3, <2>4
<1>. QED BY <1>0, <1>1, <1>2

LEMMA DeletedTyped == ASSUME NEW S, NEW ls \in Seq(S), NEW at \in DOMAIN ls PROVE RemoveAt(ls, at) \in Seq(S)
<1> DEFINE left == SubSeq(ls, 1, at - 1)
           right == SubSeq(ls, at + 1, Len(ls))
<1>1. DOMAIN ls = 1..Len(ls) /\ Len(ls) \in Nat /\ at \in 1..Len(ls) /\ \A i \in 1..Len(ls) : ls[i] \in S
  OBVIOUS
<1>2. left \in Seq(S)
  <2>1. 1 \in Int /\ at - 1 \in Int /\ \A i \in 1..at - 1 : ls[i] \in S
    BY <1>1
  <2>. QED BY <2>1, SubSeqProperties
<1>3. right \in Seq(S)
  <2>1. at + 1 \in Int /\ Len(ls) \in Int /\ \A i \in at + 1..Len(ls) : ls[i] \in S
    BY <1>1
  <2>. QED BY <2>1, SubSeqProperties
<1>. HIDE DEF left, right
<1>4. left \o right \in Seq(S)
  BY <1>2, <1>3, JoinOf
<1>. QED BY <1>4 DEF RemoveAt, left, right

LEMMA SameBridge == ASSUME BridgeTyped, UNCHANGED <<devices, opening, saving>> PROVE BridgeTyped'
BY DEF BridgeTyped, Apart

LEMMA BridgeMade ==
    ASSUME devices' \in Seq(Device), Apart(devices'), opening' \subseteq Ids, saving' \in Savings PROVE BridgeTyped'
BY DEF BridgeTyped, Apart

LEMMA SameKept == ASSUME KeptTyped, UNCHANGED <<workspaceVars, file>> PROVE KeptTyped'
<1>1. Workspace' = Workspace
  BY DEF workspaceVars, Workspace
<1>. QED BY <1>1 DEF KeptTyped

LEMMA SameHeadset == ASSUME RoomTyped, ToldTyped, UNCHANGED headsetVars PROVE RoomTyped' /\ ToldTyped' /\ Still
<1>1. UNCHANGED <<room, nextId, held, stored, applied>>
  BY DEF headsetVars
<1>. QED BY <1>1, SameRoom, SameTold DEF RoomTyped

LEMMA LinkMade ==
    ASSUME LinkTyped, UNCHANGED <<connected, strayed>>, up' \in Seq(UpMsg), down' \in Seq(DownMsg) PROVE LinkTyped'
BY DEF LinkTyped

\* A device is opened that the bridge does not have.
LEMMA Opened ==
    ASSUME NEW d \in Ids, NEW x \in Models \cup {"vrmc"}, NEW ds \in Seq(Device), Apart(ds), d \notin IdsOf(ds)
    PROVE  LET e == [id |-> d, model |-> x] IN Append(ds, e) \in Seq(Device) /\ Apart(Append(ds, e))
<1> DEFINE e == [id |-> d, model |-> x]
<1>1. e \in Device /\ e.id = d
  BY DEF Device
<1>. HIDE DEF e
<1>2. IsSequence(ds)
  BY IsSequenceOf
<1>3. \A y \in Elements(ds) : y.id # e.id
  BY <1>1, IdsOfElements
<1>4. Append(ds, e) \in Seq(Device)
  BY <1>1, AppendOf
<1>5. Apart(Append(ds, e))
  BY <1>2, <1>3, ApartAppended
<1>. QED BY <1>4, <1>5 DEF e

\* What one message does to the types of the bridge's side.
LEMMA RouteTyped ==
    ASSUME SceneTyped, Route
    PROVE  BridgeTyped' /\ KeptTyped' /\ up' \in Seq(UpMsg) /\ down' \in Seq(DownMsg)
<1> DEFINE m == Head(up)
           G == BridgeTyped' /\ KeptTyped' /\ down' \in Seq(DownMsg)
<1>0. /\ LinkTyped /\ BridgeTyped /\ KeptTyped
      /\ devices \in Seq(Device) /\ Apart(devices) /\ opening \subseteq Ids /\ saving \in Savings
      /\ placements \in [Ids -> Places] /\ layouts \in Seq(LayoutSet) /\ current \in Names \cup {""} /\ file \in WorkspaceSet
      /\ down \in Seq(DownMsg)
  BY KeptFacts DEF SceneTyped, BridgeTyped, LinkTyped, KeptTyped
<1>1. m \in UpMsg /\ up' \in Seq(UpMsg) /\ UNCHANGED file
  <2>1. up # <<>> /\ up' = Tail(up) /\ UNCHANGED file
    BY DEF Route
  <2>2. up \in Seq(UpMsg)
    BY <1>0 DEF LinkTyped
  <2>. QED BY <2>1, <2>2, HeadOf
<1>2. \/ m.kind = "add" /\ RouteAdd(m)
      \/ m.kind = "remove" /\ RouteRemove(m)
      \/ m.kind = "pose" /\ RoutePose(m)
      \/ m.kind = "save" /\ RouteSave(m)
      \/ m.kind = "delete" /\ RouteDelete(m)
      \/ m.kind = "apply" /\ RouteApply(m)
      \/ m.kind = "hello" /\ Resync /\ UNCHANGED <<devices, opening, workspaceVars, saving>>
  BY DEF Route
<1>. HIDE DEF m
<1>3. ASSUME UNCHANGED <<devices, opening, workspaceVars, saving, down>> PROVE G
  BY <1>0, <1>1, <1>3, SameBridge, SameKept
<1>4. ASSUME m.kind = "add", RouteAdd(m) PROVE G
  <2>1. m.id \in Ids /\ m.model \in Models \cup {"vrmc"}
    BY <1>1, <1>4, UpFacts
  <2>2. UNCHANGED <<workspaceVars, saving>> /\ Push(<<Roster(devices', placements)>>)
    BY <1>4 DEF RouteAdd, PushRoster
  <2>3. devices' \in Seq(Device) /\ Apart(devices') /\ opening' \subseteq Ids
    <3>1. CASE m.id \in IdsOf(devices)
      BY <1>0, <1>4, <3>1 DEF RouteAdd
    <3>2. CASE m.id \notin IdsOf(devices)
      <4>1. devices' = Append(devices, [id |-> m.id, model |-> m.model]) /\ opening' = opening \cup {m.id}
        BY <1>4, <3>2 DEF RouteAdd
      <4>2. devices' \in Seq(Device) /\ Apart(devices')
        BY <1>0, <2>1, <3>2, <4>1, Opened
      <4>. QED BY <1>0, <2>1, <4>1, <4>2
    <3>. QED BY <3>1, <3>2
  <2>4. down' \in Seq(DownMsg)
    BY <1>0, <2>2, <2>3, PushedTyped, PushTyped
  <2>5. BridgeTyped'
    BY <1>0, <2>2, <2>3, BridgeMade
  <2>. QED BY <1>0, <1>1, <2>2, <2>4, <2>5, SameKept
<1>5. ASSUME RouteRemove(m) PROVE G
  <2>1. devices' = Without(devices, {m.id}) /\ UNCHANGED <<opening, workspaceVars, saving>>
        /\ (Push(<<Roster(devices', placements)>>) \/ UNCHANGED down)
    BY <1>5 DEF RouteRemove, PushRoster
  <2>2. devices' \in Seq(Device) /\ Apart(devices')
    <3>1. IsSequence(devices) /\ Elements(devices) \subseteq Device
      BY <1>0, IsSequenceOf, ElementsIn
    <3>2. IsSequence(devices') /\ Elements(devices') \subseteq Device /\ Apart(devices')
      BY <1>0, <2>1, <3>1, WithoutElements
    <3>. QED BY <3>2, SequenceIn
  <2>3. down' \in Seq(DownMsg)
    BY <1>0, <2>1, <2>2, PushedTyped, PushTyped
  <2>4. BridgeTyped'
    BY <1>0, <2>1, <2>2, BridgeMade
  <2>. QED BY <1>0, <1>1, <2>1, <2>3, <2>4, SameKept
\* Workspace.onChange
<1>6. ASSUME UNCHANGED <<devices, opening>>, Changed,
             placements' \in [Ids -> Places], layouts' \in Seq(LayoutSet), current' \in Names \cup {""}
      PROVE  G
  <2>1. Push(<<LayoutState(layouts', current'), Roster(devices', placements')>>) /\ saving' = "armed"
    BY <1>6 DEF Changed
  <2>2. devices' \in Seq(Device) /\ Apart(devices') /\ opening' \subseteq Ids
    BY <1>0, <1>6
  <2>3. down' \in Seq(DownMsg)
    BY <1>0, <1>6, <2>1, <2>2, PushedTyped, PushTyped
  <2>4. BridgeTyped'
    BY <2>1, <2>2, BridgeMade DEF Savings
  <2>5. KeptTyped'
    BY <1>0, <1>1, <1>6, WorkspaceMade DEF KeptTyped
  <2>. QED BY <2>3, <2>4, <2>5
<1>7. ASSUME m.kind = "pose", RoutePose(m) PROVE G
  <2>1. m.id \in Ids /\ m.pose \in Places
    BY <1>1, <1>7, UpFacts DEF Places
  <2>2. placements' = [placements EXCEPT ![m.id] = m.pose] /\ UNCHANGED <<devices, opening, layouts, current>> /\ Changed
    BY <1>7 DEF RoutePose
  <2>3. placements' \in [Ids -> Places]
    BY <1>0, <2>1, <2>2
  <2>. QED BY <1>0, <1>6, <2>2, <2>3
<1>8. ASSUME m.kind = "save", RouteSave(m) PROVE G
  <2> DEFINE new == [name |-> m.name, entries |-> m.entries]
             over == [i \in DOMAIN layouts |-> IF layouts[i].name = m.name THEN new ELSE layouts[i]]
  <2>1. m.name \in Names /\ m.entries \in Seq(Entry)
    BY <1>1, <1>8, UpFacts
  <2>2. new \in LayoutSet
    BY <2>1 DEF LayoutSet
  <2>3. Append(layouts, new) \in Seq(LayoutSet)
    BY <1>0, <2>2, AppendOf
  <2>4. over \in Seq(LayoutSet)
    <3>. HIDE DEF new
    <3>1. DOMAIN layouts = 1..Len(layouts) /\ Len(layouts) \in Nat /\ \A i \in DOMAIN layouts : layouts[i] \in LayoutSet
      BY <1>0, IsSequenceOf, ElementsIn DEF Elements
    <3>2. DOMAIN over = DOMAIN layouts /\ over = [i \in DOMAIN layouts |-> over[i]]
      OBVIOUS
    <3>3. \A i \in DOMAIN layouts : over[i] \in LayoutSet
      BY <2>2, <3>1
    <3>. HIDE DEF over
    <3>. QED BY <3>1, <3>2, <3>3
  <2>5. \/ UNCHANGED <<devices, opening, workspaceVars, saving, down>>
        \/ /\ layouts' = Append(layouts, new) \/ layouts' = over
           /\ current' = m.name /\ UNCHANGED <<devices, opening, placements>> /\ Changed
    BY <1>8, Zenon DEF RouteSave
  <2>. HIDE DEF new, over
  <2>6. ASSUME layouts' = Append(layouts, new) \/ layouts' = over, current' = m.name,
               UNCHANGED <<devices, opening, placements>>, Changed
        PROVE  G
    <3>1. layouts' \in Seq(LayoutSet) /\ current' \in Names \cup {""} /\ placements' \in [Ids -> Places]
      BY <1>0, <2>1, <2>3, <2>4, <2>6
    <3>. QED BY <1>6, <2>6, <3>1
  <2>. QED BY <1>3, <2>5, <2>6
<1>9. ASSUME RouteDelete(m) PROVE G
  <2>1. CASE m.name \notin NamesOf(layouts)
    BY <1>3, <1>9, <2>1 DEF RouteDelete
  <2>2. CASE m.name \in NamesOf(layouts)
    <3> DEFINE at == CHOOSE i \in DOMAIN layouts : layouts[i].name = m.name
    <3>1. /\ layouts' = RemoveAt(layouts, at) /\ current' = IF current = m.name THEN "" ELSE current
          /\ UNCHANGED <<devices, opening, placements>> /\ Changed
      BY <1>9, <2>2 DEF RouteDelete
    <3>2. at \in DOMAIN layouts
      BY <2>2 DEF NamesOf
    <3>. HIDE DEF at
    <3>3. layouts' \in Seq(LayoutSet)
      BY <1>0, <3>1, <3>2, DeletedTyped
    <3>4. current' \in Names \cup {""}
      BY <1>0, <3>1
    <3>. QED BY <1>0, <1>6, <3>1, <3>3, <3>4
  <2>. QED BY <2>1, <2>2
<1>10. ASSUME m.kind = "apply", RouteApply(m) PROVE G
  <2>1. CASE m.name \notin NamesOf(layouts)
    BY <1>3, <1>10, <2>1 DEF RouteApply
  <2>2. CASE m.name \in NamesOf(layouts)
    <3> DEFINE es == ToSet(Named(layouts, m.name).entries)
               ps == [d \in Ids |-> IF \E e \in es : e.id = d THEN (CHOOSE e \in es : e.id = d).pose ELSE placements[d]]
    <3>1. current' = m.name /\ placements' = ps /\ UNCHANGED <<devices, opening, layouts>> /\ Changed
      BY <1>10, <2>2 DEF RouteApply
    <3>2. Named(layouts, m.name) \in LayoutSet
      <4>1. \E l \in ToSet(layouts) : l.name = m.name
        BY <2>2 DEF NamesOf, ToSet
      <4>2. Named(layouts, m.name) \in ToSet(layouts)
        BY <4>1 DEF Named
      <4>. QED BY <1>0, <4>2, ElementsIn DEF ToSet, Elements
    <3>3. Named(layouts, m.name).entries \in Seq(Entry)
      BY <3>2 DEF LayoutSet
    <3>4. es \subseteq Entry
      BY <3>3, ElementsIn DEF ToSet, Elements
    <3>. HIDE DEF es
    <3>5. ASSUME NEW d \in Ids PROVE ps[d] \in Places
      <4>1. ASSUME NEW x \in es, x.id = d PROVE (CHOOSE e \in es : e.id = d).pose \in Places
        <5>1. (CHOOSE e \in es : e.id = d) \in es
          BY <4>1
        <5>2. (CHOOSE e \in es : e.id = d) \in Entry
          BY <3>4, <5>1
        <5>. QED BY <5>2 DEF Entry, Places
      <4>. QED BY <1>0, <4>1
    <3>6. ps \in [Ids -> Places]
      <4>1. ps = [d \in Ids |-> ps[d]]
        OBVIOUS
      <4>. HIDE DEF ps
      <4>. QED BY <3>5, <4>1
    <3>. HIDE DEF ps
    <3>7. m.name \in Names
      BY <1>1, <1>10, UpFacts
    <3>8. layouts' \in Seq(LayoutSet) /\ current' \in Names \cup {""} /\ placements' \in [Ids -> Places]
      BY <1>0, <3>1, <3>6, <3>7
    <3>. QED BY <1>6, <3>1, <3>8
  <2>. QED BY <2>1, <2>2
<1>11. ASSUME Resync, UNCHANGED <<devices, opening, workspaceVars, saving>> PROVE G
  <2>1. down' \in Seq(DownMsg)
    BY <1>0, <1>11, PushedTyped, PushTyped DEF Resync
  <2>. QED BY <1>0, <1>1, <1>11, <2>1, SameBridge, SameKept
<1>. QED BY <1>1, <1>2, <1>4, <1>5, <1>7, <1>8, <1>9, <1>10, <1>11

LEMMA SettleTyped ==
    ASSUME SceneTyped, NEW d \in Ids, Settle(d) PROVE BridgeTyped' /\ down' \in Seq(DownMsg)
<1>0. /\ LinkTyped /\ devices \in Seq(Device) /\ Apart(devices) /\ opening \subseteq Ids /\ saving \in Savings
      /\ placements \in [Ids -> Places] /\ layouts \in Seq(LayoutSet) /\ current \in Names \cup {""}
  BY KeptFacts DEF SceneTyped, BridgeTyped
<1>1. UNCHANGED saving
  BY DEF Settle
<1>2. CASE d = Surface /\ Startup # "none" /\ First \notin IdsOf(devices)
  <2>1. /\ devices' = Append(devices, [id |-> First, model |-> Startup])
        /\ opening' = (opening \ {d}) \cup {First} /\ Push(<<Roster(devices', placements)>>)
    BY <1>2 DEF Settle, PushRoster
  <2>2. Startup \in Models \cup {"vrmc"} /\ First \in Ids
    BY <1>2, SceneAssumption, IdsAreIds
  <2>3. devices' \in Seq(Device) /\ Apart(devices')
    BY <1>0, <1>2, <2>1, <2>2, Opened
  <2>4. down' \in Seq(DownMsg)
    BY <1>0, <2>1, <2>3, PushedTyped, PushTyped
  <2>. QED BY <1>0, <1>1, <2>1, <2>2, <2>3, <2>4, BridgeMade
<1>3. CASE ~(d = Surface /\ Startup # "none" /\ First \notin IdsOf(devices))
  <2>1. /\ opening' = opening \ {d} /\ UNCHANGED devices
        /\ Push(<<Roster(devices, placements), LayoutState(layouts, current)>>) \/ Push(<<Roster(devices, placements)>>)
    BY <1>3, Zenon DEF Settle, PushRoster, Resync
  <2>2. down' \in Seq(DownMsg)
    BY <1>0, <2>1, PushedTyped, PushTyped
  <2>. QED BY <1>0, <1>1, <2>1, <2>2, BridgeMade
<1>. QED BY <1>2, <1>3

LEMMA ConnectTyped ==
    ASSUME SceneTyped, Connect PROVE BridgeTyped' /\ LinkTyped'
<1>0. /\ LinkTyped /\ devices \in Seq(Device) /\ Apart(devices) /\ opening \subseteq Ids /\ saving \in Savings
      /\ placements \in [Ids -> Places] /\ layouts \in Seq(LayoutSet) /\ current \in Names \cup {""}
  BY KeptFacts DEF SceneTyped, BridgeTyped
<1>1. UNCHANGED saving /\ connected' = TRUE /\ strayed' = FALSE /\ up' = <<[kind |-> "hello"]>>
  BY DEF Connect
<1>2. up' \in Seq(UpMsg)
  BY <1>1, UpMade, OneOf
<1>3. devices' \in Seq(Device) /\ Apart(devices') /\ opening' \subseteq Ids /\ down' \in Seq(DownMsg)
  <2>1. CASE devices = <<>>
    <3> DEFINE e == [id |-> Surface, model |-> SessionModel(Surface)]
    <3>1. devices' = <<e>> /\ opening' = opening \cup {Surface} /\ down' = <<Roster(devices', placements)>>
      BY <2>1 DEF Connect
    <3>2. e \in Device /\ Surface \in Ids
      BY IdsAreIds DEF SessionModel, Device
    <3>. HIDE DEF e
    <3>3. devices' \in Seq(Device) /\ Apart(devices')
      <4>1. <<e>> \in Seq(Device)
        BY <3>2, OneOf
      <4>2. Apart(<<e>>)
        BY Singles DEF Apart
      <4>. QED BY <3>1, <4>1, <4>2
    <3>4. down' \in Seq(DownMsg)
      BY <1>0, <3>1, <3>3, RosterTyped, OneOf
    <3>. QED BY <1>0, <3>1, <3>2, <3>3, <3>4
  <2>2. CASE devices # <<>>
    <3>1. UNCHANGED <<devices, opening>> /\ down' = <<Roster(devices, placements), LayoutState(layouts, current)>>
      BY <2>2 DEF Connect
    <3>. QED BY <1>0, <3>1, PushedTyped
  <2>. QED BY <2>1, <2>2
<1>4. BridgeTyped'
  BY <1>0, <1>1, <1>3, BridgeMade
<1>5. LinkTyped'
  BY <1>1, <1>2, <1>3 DEF LinkTyped
<1>. QED BY <1>4, <1>5

\* A bridge that starts has no link and no devices, and the workspace of the file.
LEMMA RestartTyped ==
    ASSUME SceneTyped, NEW f \in WorkspaceSet, Acceptable(f), Restarted(f) PROVE BridgeTyped' /\ LinkTyped' /\ KeptTyped'
<1>1. /\ connected' = FALSE /\ strayed' = FALSE /\ up' = <<>> /\ down' = <<>> /\ devices' = <<>> /\ opening' = {} /\ saving' = "done" /\ file' = f
  BY DEF Restarted
<1>2. Workspace' = f
  BY RestartFile
<1>3. <<>> \in Seq(Device) /\ Apart(<<>>) /\ <<>> \in Seq(UpMsg) /\ <<>> \in Seq(DownMsg)
  BY EmptyIsSequence DEF Apart
<1>4. BridgeTyped'
  BY <1>1, <1>3, BridgeMade DEF Savings
<1>5. LinkTyped'
  BY <1>1, <1>3 DEF LinkTyped
<1>6. KeptTyped'
  BY <1>1, <1>2 DEF KeptTyped
<1>. QED BY <1>4, <1>5, <1>6

\* What strays of a sequence leaves one of the same messages.
LEMMA StraysTyped == ASSUME NEW S, NEW q \in Seq(S), NEW t \in Strays(q) PROVE t \in Seq(S)
<1>1. PICK i \in DOMAIN q : t \in {RemoveAt(q, i), <<q[i]>> \o RemoveAt(q, i)}
  BY DEF Strays
<1>2. RemoveAt(q, i) \in Seq(S) /\ q[i] \in S
  BY DeletedTyped
<1>3. <<q[i]>> \o RemoveAt(q, i) \in Seq(S)
  <2> DEFINE r == RemoveAt(q, i)
             x == q[i]
  <2>1. r \in Seq(S) /\ x \in S
    BY <1>2
  <2>. HIDE DEF r, x
  <2>2. <<x>> \o r \in Seq(S)
    BY <2>1
  <2>. QED BY <2>2 DEF r, x
<1>. QED BY <1>1, <1>2, <1>3

\* Every step keeps the types, and leaves alone what a hand holds and does not carry.
LEMMA StepTyped ==
    ASSUME SceneTyped, FileInv, [SceneNext]_sceneVars
    PROVE  SceneTyped' /\ (Still \/ \E d \in Ids, p \in Poses : d \in held /\ Carry(d, p))
<1>0. /\ RoomTyped /\ ToldTyped /\ LinkTyped /\ BridgeTyped /\ KeptTyped
      /\ up \in Seq(UpMsg) /\ down \in Seq(DownMsg) /\ file \in WorkspaceSet /\ Workspace \in WorkspaceSet
  BY DEF SceneTyped, LinkTyped, KeptTyped
<1>1. CASE User
  <2>1. UNCHANGED <<connected, strayed, down, bridgeVars>>
    BY <1>1 DEF User, AddDevice, RemoveDevice, Grab, LetGo, Carry, Placed, SaveLayout, DeleteLayout, ApplyLayout
  <2>2. BridgeTyped' /\ KeptTyped'
    BY <1>0, <2>1, SameBridge, SameKept DEF bridgeVars
  <2>3. RoomTyped' /\ ToldTyped' /\ up' \in Seq(UpMsg) /\ (Still \/ \E d \in Ids, p \in Poses : d \in held /\ Carry(d, p))
    BY <1>1, UserTyped
  <2>4. LinkTyped'
    BY <1>0, <2>1, <2>3, LinkMade
  <2>. QED BY <2>2, <2>3, <2>4 DEF SceneTyped
<1>2. CASE Hear
  <2>1. UNCHANGED <<connected, strayed, bridgeVars>>
    BY <1>2 DEF Hear
  <2>2. BridgeTyped' /\ KeptTyped'
    BY <1>0, <2>1, SameBridge, SameKept DEF bridgeVars
  <2>3. RoomTyped' /\ ToldTyped' /\ up' \in Seq(UpMsg) /\ down' \in Seq(DownMsg) /\ Still
    BY <1>2, HearTyped
  <2>4. LinkTyped'
    BY <1>0, <2>1, <2>3, LinkMade
  <2>. QED BY <2>2, <2>3, <2>4 DEF SceneTyped
<1>3. CASE Route
  <2>1. UNCHANGED <<headsetVars, connected, strayed>>
    BY <1>3 DEF Route
  <2>2. RoomTyped' /\ ToldTyped' /\ Still
    BY <1>0, <2>1, SameHeadset
  <2>3. BridgeTyped' /\ KeptTyped' /\ up' \in Seq(UpMsg) /\ down' \in Seq(DownMsg)
    BY <1>3, RouteTyped
  <2>4. LinkTyped'
    BY <1>0, <2>1, <2>3, LinkMade
  <2>. QED BY <2>2, <2>3, <2>4 DEF SceneTyped
<1>4. ASSUME NEW d \in Ids, Settle(d) PROVE SceneTyped' /\ Still
  <2>1. UNCHANGED <<headsetVars, connected, strayed, up, workspaceVars, file>>
    BY <1>4 DEF Settle
  <2>2. RoomTyped' /\ ToldTyped' /\ Still /\ KeptTyped'
    BY <1>0, <2>1, SameHeadset, SameKept
  <2>3. BridgeTyped' /\ down' \in Seq(DownMsg)
    BY <1>4, SettleTyped
  <2>4. LinkTyped'
    BY <1>0, <2>1, <2>3, LinkMade
  <2>. QED BY <2>2, <2>3, <2>4 DEF SceneTyped
<1>5. CASE Connect
  <2>1. UNCHANGED <<headsetVars, workspaceVars, file>>
    BY <1>5 DEF Connect
  <2>2. RoomTyped' /\ ToldTyped' /\ Still /\ KeptTyped'
    BY <1>0, <2>1, SameHeadset, SameKept
  <2>. QED BY <1>5, <2>2, ConnectTyped DEF SceneTyped
<1>6. CASE Disconnect \/ GraceOver
  <2>1. UNCHANGED <<headsetVars, workspaceVars, file, opening, saving>>
    BY <1>6 DEF Disconnect, GraceOver, bridgeVars
  <2>2. RoomTyped' /\ ToldTyped' /\ Still /\ KeptTyped'
    BY <1>0, <2>1, SameHeadset, SameKept
  <2>3. /\ devices' \in {devices, <<>>} /\ connected' \in {connected, FALSE} /\ strayed' \in {strayed, FALSE}
        /\ up' \in {up, <<>>} /\ down' \in {down, <<>>}
    BY <1>6 DEF Disconnect, GraceOver, bridgeVars
  <2>4. <<>> \in Seq(Device) /\ Apart(<<>>) /\ <<>> \in Seq(UpMsg) /\ <<>> \in Seq(DownMsg)
    BY EmptyIsSequence DEF Apart
  <2>5. BridgeTyped'
    <3>1. devices' \in Seq(Device) /\ Apart(devices') /\ opening' \subseteq Ids /\ saving' \in Savings
      BY <1>0, <2>1, <2>3, <2>4 DEF BridgeTyped
    <3>. QED BY <3>1, BridgeMade
  <2>6. LinkTyped'
    BY <1>0, <2>3, <2>4 DEF LinkTyped
  <2>. QED BY <2>2, <2>5, <2>6 DEF SceneTyped
<1>7. CASE SaveTimer \/ SaveFails
  <2>1. /\ UNCHANGED <<headsetVars, connected, strayed, up, down, devices, opening, workspaceVars>>
        /\ saving' \in Savings /\ file' \in {file, Workspace}
    BY <1>7 DEF SaveTimer, SaveFails, Savings
  <2>2. RoomTyped' /\ ToldTyped' /\ Still
    BY <1>0, <2>1, SameHeadset
  <2>3. Workspace' = Workspace
    BY <2>1 DEF workspaceVars, Workspace
  <2>4. KeptTyped'
    BY <1>0, <2>1, <2>3 DEF KeptTyped
  <2>5. BridgeTyped'
    BY <1>0, <2>1, BridgeMade DEF BridgeTyped
  <2>6. LinkTyped'
    BY <1>0, <2>1, LinkMade
  <2>. QED BY <2>2, <2>4, <2>5, <2>6 DEF SceneTyped
<1>8. CASE Quit \/ Crash
  <2>1. PICK f \in {Workspace, file} : Restarted(f)
    BY <1>8 DEF Quit, Crash
  <2>2. f \in WorkspaceSet /\ Acceptable(f)
    BY <1>0, <2>1 DEF FileInv
  <2>3. UNCHANGED headsetVars
    BY <2>1 DEF Restarted
  <2>4. RoomTyped' /\ ToldTyped' /\ Still
    BY <1>0, <2>3, SameHeadset
  <2>. QED BY <2>1, <2>2, <2>4, RestartTyped DEF SceneTyped
<1>9. CASE UNCHANGED sceneVars
  <2>1. UNCHANGED <<headsetVars, connected, strayed, up, down, devices, opening, saving, workspaceVars, file>>
    BY <1>9 DEF sceneVars, bridgeVars
  <2>2. RoomTyped' /\ ToldTyped' /\ Still
    BY <1>0, <2>1, SameHeadset
  <2>3. BridgeTyped' /\ KeptTyped'
    BY <1>0, <2>1, SameBridge, SameKept
  <2>4. LinkTyped'
    BY <1>0, <2>1, LinkMade
  <2>. QED BY <2>2, <2>3, <2>4 DEF SceneTyped
<1>10. CASE Stray
  <2>1. UNCHANGED <<headsetVars, connected, devices, opening, saving, workspaceVars, file>> /\ strayed' = TRUE
    BY <1>10 DEF Stray, bridgeVars
  <2>2. RoomTyped' /\ ToldTyped' /\ Still
    BY <1>0, <2>1, SameHeadset
  <2>3. BridgeTyped' /\ KeptTyped'
    BY <1>0, <2>1, SameBridge, SameKept
  <2>4. up' \in Seq(UpMsg) /\ down' \in Seq(DownMsg)
    BY <1>0, <1>10, StraysTyped DEF Stray
  <2>5. LinkTyped'
    BY <1>0, <2>1, <2>4 DEF LinkTyped
  <2>. QED BY <2>2, <2>3, <2>5 DEF SceneTyped
<1>. QED BY <1>1, <1>2, <1>3, <1>4, <1>5, <1>6, <1>7, <1>8, <1>9, <1>10 DEF SceneNext

\* Devices and messages of the scene are what they should be, no two devices of the room or of the bridge share an id,
\* a hand holds what is in the room, and there are never more arrangements than MAX_LAYOUTS.
THEOREM SceneTypedInvariant == SceneSpec => []SceneTyped
<1>1. SceneTyped /\ FileInv /\ [SceneNext]_sceneVars => SceneTyped'
  BY StepTyped
<1>. QED BY <1>1, InitTyped, FileInvariant, PTL DEF SceneSpec

\* The type invariant of the scene, with no two devices of one id on either side (Engine.launchpads,
\* DeviceManager.devices) and no more than MAX_LAYOUTS arrangements (Workspace.save).
THEOREM SceneTypes == SceneSpec => []SceneTypeOK
<1>1. SceneTyped /\ FileInv => SceneTypeOK
  <2> SUFFICES ASSUME SceneTyped, FileInv PROVE SceneTypeOK
    OBVIOUS
  <2>1. room \in Seq(Entry) /\ Apart(room) /\ held \subseteq IdsOf(room) /\ nextId \in First..MaxId + 1
    BY DEF SceneTyped, RoomTyped
  <2>2. stored.layouts \in Seq(LayoutSet) /\ stored.current \in Names \cup {""} /\ applied \in Names \cup {""}
    BY DEF SceneTyped, ToldTyped
  <2>3. devices \in Seq(Device) /\ Apart(devices) /\ opening \subseteq Ids /\ connected \in BOOLEAN /\ strayed \in BOOLEAN /\ saving \in Savings
    BY DEF SceneTyped, BridgeTyped, LinkTyped
  <2>4. placements \in [Ids -> Places] /\ layouts \in Seq(LayoutSet) /\ current \in Names \cup {""}
    BY KeptFacts DEF SceneTyped
  <2>5. Len(layouts) <= MaxLayouts
    BY LayoutsFacts
  <2>6. ASSUME NEW s, Apart(s) PROVE IsInjective([i \in DOMAIN s |-> s[i].id])
    BY <2>6 DEF IsInjective, Apart
  <2>. QED BY <2>1, <2>2, <2>3, <2>4, <2>5, <2>6 DEF SceneTypeOK, Device, Places, Savings
<1>. QED BY <1>1, SceneTypedInvariant, FileInvariant, PTL

\* Engine.applyLayout: an arrangement, or a roster, that arrives mid-grab does not yank the instrument out of the hand.
THEOREM HeldStays == SceneSpec => HeldIsLeftAlone
<1>1. ASSUME SceneTyped, SceneTyped', FileInv, [SceneNext]_sceneVars, NEW d \in held \cap held', ~\E p \in Poses : Carry(d, p)
      PROVE  DeviceAt(d)'.pose = DeviceAt(d).pose
  <2>1. Apart(room) /\ Apart(room') /\ held \subseteq IdsOf(room)
    BY <1>1 DEF SceneTyped, RoomTyped, Apart
  <2>2. PICK x \in Elements(room) : x.id = d
    BY <2>1, IdsOfElements
  <2>3. x \in Elements(room')
    <3>1. CASE Still
      BY <2>2, <3>1 DEF Still
    <3>2. ASSUME NEW c \in Ids, NEW p \in Poses, Carry(c, p) PROVE x \in Elements(room')
      <4>1. c # d
        BY <1>1, <3>2
      <4>2. PutAt(c, p)
        BY <3>2 DEF Carry
      <4>. QED BY <2>2, <4>1, <4>2 DEF PutAt, Elements
    <3>. QED BY <1>1, <3>1, <3>2, StepTyped
  <2>4. ASSUME NEW s, Apart(s), x \in Elements(s) PROVE (CHOOSE y \in ToSet(s) : y.id = d) = x
    <3>1. x \in ToSet(s) /\ \A y \in ToSet(s) : y.id = d => y = x
      BY <2>2, <2>4 DEF ToSet, Elements, Apart
    <3>. QED BY <2>2, <3>1
  <2>5. DeviceAt(d) = x
    BY <2>1, <2>2, <2>4 DEF DeviceAt
  <2>6. DeviceAt(d)' = x
    <3>1. (CHOOSE y \in ToSet(room') : y.id = d) = x
      BY <2>1, <2>3, <2>4
    <3>. QED BY <3>1, Zenon DEF DeviceAt
  <2>. QED BY <2>5, <2>6
<1>2. SceneTyped /\ SceneTyped' /\ FileInv /\ [SceneNext]_sceneVars =>
        [\A d \in held \cap held' : DeviceAt(d)'.pose = DeviceAt(d).pose \/ \E p \in Poses : Carry(d, p)]_sceneVars
  BY <1>1
<1>. QED BY <1>2, SceneTypedInvariant, FileInvariant, PTL DEF SceneSpec, HeldIsLeftAlone

-----------------------------------------------------------------------------
(* The two sides agree, where nothing of the link strayed.                 *)

\* Nothing is under way, and nothing strayed, without a link.
OfflineInv == ~connected => up = <<>> /\ down = <<>> /\ ~strayed

LEMMA StepOffline == OfflineInv /\ [SceneNext]_sceneVars => OfflineInv'
<1> SUFFICES ASSUME OfflineInv, [SceneNext]_sceneVars PROVE OfflineInv'
  OBVIOUS
<1>1. CASE User
  <2>1. UNCHANGED <<connected, strayed, down>> /\ (~connected => up' = up)
    BY <1>1 DEF User, AddDevice, RemoveDevice, Grab, LetGo, Carry, Placed, SaveLayout, DeleteLayout, ApplyLayout, Send
  <2>. QED BY <2>1 DEF OfflineInv
<1>2. CASE Hear
  BY <1>2 DEF Hear, OfflineInv
<1>3. CASE Route
  BY <1>3 DEF Route, OfflineInv
<1>4. ASSUME NEW d \in Ids, Settle(d) PROVE OfflineInv'
  <2>1. UNCHANGED <<connected, strayed, up>> /\ (~connected => down' = down)
    BY <1>4 DEF Settle, PushRoster, Resync, Push
  <2>. QED BY <2>1 DEF OfflineInv
<1>5. CASE Connect \/ Disconnect
  BY <1>5 DEF Connect, Disconnect, OfflineInv
<1>6. CASE Stray
  <2>1. DOMAIN up # {} \/ DOMAIN down # {}
    BY <1>6 DEF Stray, Strays
  <2>2. connected
    BY <2>1, EmptyIsSequence DEF OfflineInv
  <2>. QED BY <1>6, <2>2 DEF Stray, OfflineInv
<1>7. CASE GraceOver \/ SaveTimer \/ SaveFails \/ UNCHANGED sceneVars
  <2>1. UNCHANGED <<connected, strayed, up, down>>
    BY <1>7 DEF GraceOver, SaveTimer, SaveFails, sceneVars
  <2>. QED BY <2>1 DEF OfflineInv
<1>8. CASE Quit \/ Crash
  BY <1>8 DEF Quit, Crash, Restarted, OfflineInv
<1>. QED BY <1>1, <1>2, <1>3, <1>4, <1>5, <1>6, <1>7, <1>8 DEF SceneNext

\* Every step: where nothing strays the two sides hold of each other what they did, and a new link starts from that.
LEMMA StepScene ==
    (strayed \/ SceneInv) /\ OfflineInv /\ SceneTyped /\ SceneTyped' /\ FileInv /\ FileInv' /\ [SceneNext]_sceneVars =>
        (strayed \/ SceneInv)'
<1> SUFFICES ASSUME strayed \/ SceneInv, OfflineInv, SceneTyped, SceneTyped', FileInv, FileInv', [SceneNext]_sceneVars
             PROVE  strayed' \/ SceneInv'
  OBVIOUS
<1>1. CASE User
  <2>1. UNCHANGED strayed
    BY <1>1 DEF User, AddDevice, RemoveDevice, Grab, LetGo, Carry, Placed, SaveLayout, DeleteLayout, ApplyLayout
  <2>. QED BY <1>1, <2>1, UserStep
<1>2. CASE Hear
  <2>1. UNCHANGED strayed
    BY <1>2 DEF Hear
  <2>. QED BY <1>2, <2>1, HearRosterScene, HearLayoutsScene
<1>3. CASE Route
  <2>1. UNCHANGED strayed
    BY <1>3 DEF Route
  <2>. QED BY <1>3, <2>1, RouteScene
<1>4. ASSUME NEW d \in Ids, Settle(d) PROVE strayed' \/ SceneInv'
  <2>1. UNCHANGED strayed
    BY <1>4 DEF Settle
  <2>. QED BY <1>4, <2>1, SettleScene
<1>5. CASE Connect
  <2>1. ~strayed
    BY <1>5 DEF Connect, OfflineInv
  <2>. QED BY <1>5, <2>1, ConnectScene
<1>6. CASE SaveTimer \/ SaveFails \/ UNCHANGED sceneVars
  <2>1. UNCHANGED <<room, held, stored, connected, strayed, up, down, devices, opening, placements, layouts>>
    BY <1>6 DEF SaveTimer, SaveFails, sceneVars, headsetVars, bridgeVars, workspaceVars
  <2>. QED BY <2>1, SameScene
<1>7. CASE Stray
  BY <1>7 DEF Stray
<1>8. CASE Disconnect \/ GraceOver \/ Quit \/ Crash
  <2>1. connected' = FALSE /\ up' = <<>> /\ down' = <<>>
    BY <1>8 DEF Disconnect, GraceOver, Quit, Crash, Restarted, OfflineInv
  <2>2. IsRoom(room')
    <3>1. room' \in Seq(Entry)
      BY DEF SceneTyped, RoomTyped
    <3>. QED BY <3>1, TypedRoom
  <2>3. IsSequence(devices')
    <3>1. devices' \in Seq(Device)
      BY DEF SceneTyped, BridgeTyped
    <3>. QED BY <3>1, IsSequenceOf
  <2>. QED BY <2>1, <2>2, <2>3, Offline
<1>. QED BY <1>1, <1>2, <1>3, <1>4, <1>5, <1>6, <1>7, <1>8 DEF SceneNext

\* The inductive invariant of the scene: what the two sides hold of each other, and what is under way to mend it,
\* unless something of this link was lost or overtaken.
THEOREM SceneInvariant == SceneSpec => [](strayed \/ SceneInv)
<1>1. SceneInit => OfflineInv
  BY DEF SceneInit, OfflineInv
<1>2. SceneSpec => []OfflineInv
  BY <1>1, StepOffline, PTL DEF SceneSpec
<1>. QED BY <1>2, InitScene, StepScene, SceneTypedInvariant, FileInvariant, PTL DEF SceneSpec

\* Once both sides have heard everything, the room has the devices that the bridge has open and no other, whatever
\* crossed on the way (reconcile.ts devicesMissingFromRoster, Engine.applyRoster, Router's device cases), if of this
\* link nothing was lost or overtaken: over a WebSocket always, over a data channel while it happens to be so.
THEOREM DevicesAgreeOnceQuiet == SceneSpec => []DevicesAgree
<1>1. strayed \/ SceneInv => DevicesAgree
  <2> SUFFICES ASSUME SceneInv, Quiet PROVE IdsOf(room) = IdsOf(devices)
    BY DEF DevicesAgree, Quiet
  <2>1. connected /\ Elements(up) = {} /\ RostersIn(down) = {}
    BY EmptyIsSequence DEF Quiet, AllSaid, RostersIn
  <2>. QED BY <2>1 DEF SceneInv, DifferencesAreAsked, Wants
<1>. QED BY <1>1, SceneInvariant, PTL

\* Once both sides have heard everything, a device that no hand holds stands where the bridge remembers it
\* (Engine.adoptPlacement, Engine.receiveLayouts, Workspace.place and apply, index.ts resyncHeadset), under the same
\* condition.
THEOREM PlacementsAgreeOnceQuiet == SceneSpec => []PlacementsAgree
<1>1. strayed \/ SceneInv => PlacementsAgree
  <2> SUFFICES ASSUME SceneInv, Quiet, NEW d \in IdsOf(room) \ held PROVE placements[d] \in {"none", DeviceAt(d).pose}
    BY DEF PlacementsAgree, Quiet
  <2>1. connected /\ Elements(up) = {} /\ RostersIn(down) = {} /\ opening = {}
    BY EmptyIsSequence DEF Quiet, AllSaid, RostersIn
  <2>2. Stands(room, IdsOf(room), placements)
    BY <2>1 DEF SceneInv, StandsUnlessDue, RosterIsDue, Asks, AsksFor
  <2>3. DeviceAt(d) \in Elements(room) /\ DeviceAt(d).id = d
    <3>1. \E x \in ToSet(room) : x.id = d
      BY DEF IdsOf, ToSet
    <3>2. DeviceAt(d) \in ToSet(room) /\ DeviceAt(d).id = d
      BY <3>1 DEF DeviceAt
    <3>. QED BY <3>2 DEF ToSet, Elements
  <2>. QED BY <2>2, <2>3 DEF Stands
<1>. QED BY <1>1, SceneInvariant, PTL

=============================================================================
