---------------------------- MODULE HeadsetProofs ----------------------------
(***************************************************************************)
(* The headset: its link keeps its invariants for any number of            *)
(* overlapping attempts, and its room for any number of devices, hands'    *)
(* places, frames and things that happen in between.                       *)
(*                                                                         *)
(* The link's invariants hold up each other: that a late transport is      *)
(* closed and not adopted rests on there being at most one current         *)
(* attempt, and that a new one overwrites nothing on the old transport     *)
(* being torn down.  What they lack to be inductive is that the transport  *)
(* in use has been neither closed nor set adrift, and that every timer and *)
(* attempt has a target.                                                   *)
(*                                                                         *)
(* A room's step goes through states that are not the invariant's: a       *)
(* device has moved and its target has not, a hand has let go and nobody   *)
(* was told.  Sound(r, stale, due) says which devices a room in the middle *)
(* of a step still owes a copy and a report to; each operation is a lemma  *)
(* on what it adds to these sets and what it takes from them, and at the   *)
(* end of every handler both are empty.                                    *)
(*                                                                         *)
(* The loops over anchors and requests are recursive functions: that they  *)
(* exist, and what holds after each pass, is shown by a least              *)
(* counterexample (LeastOf).                                               *)
(***************************************************************************)
EXTENDS BridgeLinkProps, RoomProps, FiniteSetTheorems, SequenceTheorems, WellFoundedInduction, TLAPS

-----------------------------------------------------------------------------
(* The link.                                                               *)


\* The transport in use has not been closed, and has not reported its end.
InUse == transport # None => conn[transport] \in {"open", "lost"} /\ transport \notin adrift

\* Neither a timer nor an attempt exists before connect() has set a target.
Aimed == timer \/ current # None => target

IInv ==
    /\ TypeOK /\ NoOrphan /\ NeverWedged /\ GoodbyeIsFinal /\ StateIsTrue
    /\ InUse /\ Aimed

LEMMA InitInv == Init => IInv
  BY AttemptsAssumption
     DEF Init, IInv, TypeOK, NoOrphan, NeverWedged, GoodbyeIsFinal, StateIsTrue, InUse,
         Aimed, None

\* Starting an attempt, from connect() or from the timer: the old transport is
\* closed, and the new attempt is the only current one.
LEMMA OpenInv ==
  ASSUME IInv, NEW again \in BOOLEAN, Open(again),
         UNCHANGED <<pinging, adrift>>, closedByUs' = FALSE, target' = TRUE,
         retrying' \in BOOLEAN, timer' \in BOOLEAN
  PROVE  IInv'
<1>1. PICK a \in Attempts :
          /\ conn[a] = "over"
          /\ conn' = [TornDown EXCEPT ![a] = "pending"]
          /\ current' = a
          /\ transport' = None
          /\ state' = IF again THEN "reconnecting" ELSE "connecting"
  BY DEF Open
<1>2. a # None
  BY AttemptsAssumption DEF None
<1>3. conn' \in [Attempts -> {"over", "pending", "open", "lost"}]
  BY <1>1 DEF IInv, TypeOK, TornDown
<1>4. conn'[a] = "pending"
  BY <1>1 DEF TornDown
<1>5. \A b \in Attempts : conn'[b] \in {"open", "lost"} => b \in adrift
  BY <1>1 DEF IInv, NoOrphan, TypeOK, TornDown
<1>6. TypeOK'
  <2>1. \A b \in adrift : b # transport /\ conn[b] = "open"
    BY AttemptsAssumption DEF IInv, TypeOK, InUse, None
  <2>2. \A b \in adrift : conn'[b] = "open"
    BY <1>1, <2>1 DEF IInv, TypeOK, TornDown
  <2>3. adrift' \subseteq {b \in Attempts : conn'[b] = "open"}
    BY <2>2 DEF IInv, TypeOK
  <2> QED
    BY <1>1, <1>3, <2>3 DEF IInv, TypeOK
<1>7. NoOrphan'
  BY <1>5 DEF NoOrphan
<1>8. NeverWedged'
  BY <1>1, <1>2, <1>4 DEF NeverWedged
<1>9. GoodbyeIsFinal'
  BY DEF GoodbyeIsFinal
<1>10. StateIsTrue' /\ InUse' /\ Aimed'
  BY <1>1 DEF StateIsTrue, InUse, Aimed
<1> QED
  BY <1>6, <1>7, <1>8, <1>9, <1>10 DEF IInv

LEMMA FulfilsInv ==
  ASSUME IInv, NEW a \in Attempts, Fulfils(a)
  PROVE  IInv'
<1>1. a # None
  BY AttemptsAssumption DEF None
<1>2. transport # a
  BY <1>1 DEF IInv, InUse, Fulfils
<1>3. CASE a # current \/ closedByUs
  <2>1. /\ conn[a] = "pending"
        /\ conn' = [conn EXCEPT ![a] = "over"]
        /\ UNCHANGED <<state, transport, retrying, pinging, current, timer, closedByUs, target, adrift>>
    BY <1>3 DEF Fulfils
  <2>2. TypeOK'
    BY <2>1 DEF IInv, TypeOK
  <2>3. NoOrphan' /\ InUse'
    BY <1>2, <2>1 DEF IInv, TypeOK, NoOrphan, InUse
  <2>4. NeverWedged'
    BY <1>3, <2>1 DEF IInv, TypeOK, NeverWedged
  <2>5. GoodbyeIsFinal' /\ StateIsTrue' /\ Aimed'
    BY <2>1 DEF IInv, GoodbyeIsFinal, StateIsTrue, Aimed
  <2> QED
    BY <2>2, <2>3, <2>4, <2>5 DEF IInv
<1>4. CASE a = current /\ ~closedByUs
  <2>1. /\ conn' = [conn EXCEPT ![a] = "open"]
        /\ transport' = a
        /\ retrying' = FALSE
        /\ state' = "open"
        /\ pinging' = TRUE
        /\ UNCHANGED <<current, timer, closedByUs, target, adrift>>
    BY <1>4 DEF Fulfils
  <2>2. transport = None
    BY <1>2, <1>4 DEF IInv, StateIsTrue
  <2>3. TypeOK'
    BY <2>1 DEF IInv, TypeOK
  <2>4. NoOrphan'
    <3> SUFFICES ASSUME NEW b \in Attempts, conn'[b] \in {"open", "lost"}
                 PROVE  transport' = b \/ b \in adrift'
      BY DEF NoOrphan
    <3>1. CASE b = a
      BY <2>1, <3>1
    <3>2. CASE b # a
      <4>1. b # None
        BY AttemptsAssumption DEF None
      <4>2. conn[b] \in {"open", "lost"}
        BY <2>1, <3>2 DEF IInv, TypeOK
      <4> QED
        BY <2>1, <2>2, <4>1, <4>2 DEF IInv, NoOrphan
    <3> QED
      BY <3>1, <3>2
  <2>5. InUse' /\ Aimed'
    <3>1. conn'[a] = "open" /\ a \notin adrift
      BY <2>1 DEF IInv, TypeOK, Fulfils
    <3> QED
      BY <2>1, <3>1 DEF IInv, InUse, Aimed
  <2>6. NeverWedged' /\ GoodbyeIsFinal' /\ StateIsTrue'
    BY <1>1, <1>4, <2>1 DEF NeverWedged, GoodbyeIsFinal, StateIsTrue
  <2> QED
    BY <2>3, <2>4, <2>5, <2>6 DEF IInv
<1> QED
  BY <1>3, <1>4 DEF Fulfils

LEMMA RejectsInv ==
  ASSUME IInv, NEW a \in Attempts, Rejects(a)
  PROVE  IInv'
<1>1. transport # a
  <2>1. a # None
    BY AttemptsAssumption DEF None
  <2> QED
    BY <2>1 DEF IInv, InUse, Rejects
<1>2. /\ conn' = [conn EXCEPT ![a] = "over"]
      /\ UNCHANGED <<transport, current, pinging, closedByUs, target, adrift>>
      /\ a \notin adrift
  BY DEF Rejects, IInv, TypeOK
<1>3. NoOrphan' /\ InUse'
  BY <1>1, <1>2 DEF IInv, TypeOK, NoOrphan, InUse
<1>4. CASE a # current \/ closedByUs
  <2>1. UNCHANGED <<state, retrying, timer>>
    BY <1>4 DEF Rejects
  <2>2. TypeOK'
    BY <1>2, <2>1 DEF IInv, TypeOK
  <2>3. NeverWedged'
    BY <1>2, <1>4, <2>1 DEF IInv, TypeOK, NeverWedged
  <2>4. GoodbyeIsFinal' /\ StateIsTrue' /\ Aimed'
    BY <1>2, <2>1 DEF IInv, GoodbyeIsFinal, StateIsTrue, Aimed
  <2> QED
    BY <1>3, <2>2, <2>3, <2>4 DEF IInv
<1>5. CASE a = current /\ ~closedByUs
  <2>1. state' = "reconnecting" /\ retrying' = TRUE /\ timer' = TRUE
    BY <1>5 DEF Rejects, ScheduleReconnect
  <2>2. transport = None
    BY <1>1, <1>5 DEF IInv, StateIsTrue
  <2>3. TypeOK'
    BY <1>2, <2>1 DEF IInv, TypeOK
  <2>4. NeverWedged' /\ GoodbyeIsFinal' /\ StateIsTrue'
    BY <1>2, <1>5, <2>1, <2>2 DEF NeverWedged, GoodbyeIsFinal, StateIsTrue
  <2>5. Aimed'
    <3>1. a # None
      BY AttemptsAssumption DEF None
    <3> QED
      BY <1>2, <1>5, <3>1 DEF IInv, Aimed
  <2> QED
    BY <1>3, <2>3, <2>4, <2>5 DEF IInv
<1> QED
  BY <1>4, <1>5 DEF Rejects

LEMMA DropsInv ==
  ASSUME IInv, NEW a \in Attempts, Drops(a)
  PROVE  IInv'
<1>1. /\ conn[a] = "open"
      /\ conn' = [conn EXCEPT ![a] = IF a \in adrift THEN "over" ELSE "lost"]
      /\ adrift' = adrift \ {a}
      /\ UNCHANGED <<state, transport, current, retrying, timer, pinging, closedByUs, target>>
  BY DEF Drops
<1>2. TypeOK'
  <2>1. conn' \in [Attempts -> {"over", "pending", "open", "lost"}]
    BY <1>1 DEF IInv, TypeOK
  <2>2. \A b \in adrift' : b \in Attempts /\ conn'[b] = "open"
    BY <1>1 DEF IInv, TypeOK
  <2> QED
    BY <1>1, <2>1, <2>2 DEF IInv, TypeOK
<1>3. NoOrphan'
  <2> SUFFICES ASSUME NEW b \in Attempts, conn'[b] \in {"open", "lost"}
               PROVE  transport' = b \/ b \in adrift'
    BY DEF NoOrphan
  <2>1. CASE b = a
    BY <1>1, <2>1 DEF IInv, TypeOK, NoOrphan
  <2>2. CASE b # a
    BY <1>1, <2>2 DEF IInv, TypeOK, NoOrphan
  <2> QED
    BY <2>1, <2>2
<1>4. InUse'
  BY <1>1 DEF IInv, TypeOK, InUse
<1>5. NeverWedged' /\ GoodbyeIsFinal' /\ StateIsTrue' /\ Aimed'
  BY <1>1 DEF IInv, TypeOK, NeverWedged, GoodbyeIsFinal, StateIsTrue, Aimed
<1> QED
  BY <1>2, <1>3, <1>4, <1>5 DEF IInv

\* The transport in use is forgotten: a timer takes its place.
LEMMA ForgetsInv ==
  ASSUME IInv, NEW a \in Attempts, Forgets(a)
  PROVE  /\ NeverWedged' /\ GoodbyeIsFinal' /\ StateIsTrue' /\ InUse' /\ Aimed'
         /\ transport = a /\ transport' = None /\ current' = current
         /\ state' \in {"idle", "connecting", "reconnecting", "open"}
         /\ retrying' \in BOOLEAN /\ timer' \in BOOLEAN /\ pinging' \in BOOLEAN
         /\ closedByUs' = closedByUs /\ target' = target
<1>1. /\ transport = a
      /\ a = current
      /\ transport' = None
      /\ pinging' = FALSE
      /\ UNCHANGED <<current, closedByUs, target>>
  BY DEF Forgets
<1>2. a # None
  BY AttemptsAssumption DEF None
<1>3. ~closedByUs
  BY <1>1, <1>2 DEF IInv, GoodbyeIsFinal
<1>4. state' = "reconnecting" /\ retrying' = TRUE /\ timer' = TRUE
  BY <1>3 DEF Forgets, ScheduleReconnect
<1>5. NeverWedged' /\ GoodbyeIsFinal' /\ StateIsTrue' /\ InUse'
  BY <1>1, <1>3, <1>4 DEF NeverWedged, GoodbyeIsFinal, StateIsTrue, InUse
<1>6. Aimed'
  BY <1>1, <1>2 DEF IInv, Aimed
<1> QED
  BY <1>1, <1>4, <1>5, <1>6

LEMMA OnCloseInv ==
  ASSUME IInv, NEW a \in Attempts, OnClose(a)
  PROVE  IInv'
<1>1. /\ Forgets(a) /\ conn[a] = "lost"
      /\ conn' = [conn EXCEPT ![a] = "over"] /\ adrift' = adrift
  BY DEF OnClose
<1>2. TypeOK'
  <2>1. a \notin adrift
    BY <1>1 DEF IInv, TypeOK
  <2>2. adrift' \subseteq {b \in Attempts : conn'[b] = "open"}
    BY <1>1, <2>1 DEF IInv, TypeOK
  <2> QED
    BY <1>1, <2>2, ForgetsInv DEF IInv, TypeOK
<1>3. NoOrphan'
  BY <1>1, ForgetsInv DEF IInv, TypeOK, NoOrphan
<1> QED
  BY <1>1, <1>2, <1>3, ForgetsInv DEF IInv

\* What has reported its end while it is open is adrift from then on.
LEMMA FaltersInv ==
  ASSUME IInv, NEW a \in Attempts, Falters(a)
  PROVE  IInv'
<1>1. /\ Forgets(a) /\ conn[a] = "open"
      /\ conn' = conn /\ adrift' = adrift \cup {a}
  BY DEF Falters
<1>2. TypeOK'
  <2>1. adrift' \subseteq {b \in Attempts : conn'[b] = "open"}
    BY <1>1 DEF IInv, TypeOK
  <2> QED
    BY <1>1, <2>1, ForgetsInv DEF IInv, TypeOK
<1>3. NoOrphan'
  BY <1>1, ForgetsInv DEF IInv, NoOrphan
<1> QED
  BY <1>1, <1>2, <1>3, ForgetsInv DEF IInv

LEMMA DisconnectInv == IInv /\ Disconnect => IInv'
<1> SUFFICES ASSUME IInv, Disconnect PROVE IInv'
  OBVIOUS
<1>1. conn' = TornDown /\ adrift' = adrift /\ transport' = None
  BY DEF Disconnect
<1>2. TypeOK'
  <2>1. \A b \in adrift : b # transport /\ conn[b] = "open"
    BY AttemptsAssumption DEF IInv, TypeOK, InUse, None
  <2>2. adrift' \subseteq {b \in Attempts : conn'[b] = "open"}
    BY <1>1, <2>1 DEF IInv, TypeOK, TornDown
  <2> QED
    BY <2>2 DEF IInv, TypeOK, Disconnect, TornDown
<1>3. NoOrphan'
  BY <1>1 DEF IInv, TypeOK, NoOrphan, TornDown
<1>4. NeverWedged' /\ GoodbyeIsFinal' /\ StateIsTrue' /\ InUse' /\ Aimed'
  BY DEF Disconnect, NeverWedged, GoodbyeIsFinal, StateIsTrue, InUse, Aimed
<1> QED
  BY <1>2, <1>3, <1>4 DEF IInv

LEMMA StepInv == IInv /\ [Next]_vars => IInv'
<1> SUFFICES ASSUME IInv, [Next]_vars PROVE IInv'
  OBVIOUS
<1>1. CASE Connect
  BY <1>1, OpenInv DEF Connect, IInv, TypeOK
<1>2. CASE Disconnect
  BY <1>2, DisconnectInv
<1>3. CASE TimerFires
  <2>1. target' = TRUE /\ closedByUs' = FALSE
    BY <1>3 DEF TimerFires, IInv, TypeOK, Aimed, GoodbyeIsFinal
  <2>2. /\ retrying \in BOOLEAN /\ Open(retrying)
        /\ retrying' \in BOOLEAN /\ timer' \in BOOLEAN /\ UNCHANGED <<pinging, adrift>>
    BY <1>3 DEF TimerFires, IInv, TypeOK
  <2> QED
    BY <2>1, <2>2, OpenInv
<1>4. CASE \E a \in Attempts : Fulfils(a) \/ Rejects(a) \/ Drops(a) \/ OnClose(a) \/ Falters(a)
  BY <1>4, FulfilsInv, RejectsInv, DropsInv, OnCloseInv, FaltersInv
<1>5. CASE UNCHANGED vars
  BY <1>5
     DEF vars, IInv, TypeOK, NoOrphan, NeverWedged, GoodbyeIsFinal, StateIsTrue, InUse, Aimed
<1> QED
  BY <1>1, <1>2, <1>3, <1>4, <1>5 DEF Next

\* The strengthening holds in every behaviour of the link.
THEOREM LinkInvariant == Spec => []IInv
  BY InitInv, StepInv, PTL DEF Spec

\* Whatever the attempts, timers and losses do, no connection is left open
\* that the link does not use and that has not reported its own end.
THEOREM LinkNoOrphan == Spec => []NoOrphan
<1>1. IInv => NoOrphan
  BY DEF IInv
<1> QED
  BY <1>1, LinkInvariant, PTL

\* A link that has been pointed at a bridge is never left with nothing to
\* wake it.
THEOREM LinkNeverWedged == Spec => []NeverWedged
<1>1. IInv => NeverWedged
  BY DEF IInv
<1> QED
  BY <1>1, LinkInvariant, PTL

\* Nothing comes back by itself after disconnect().
THEOREM LinkGoodbyeIsFinal == Spec => []GoodbyeIsFinal
<1>1. IInv => GoodbyeIsFinal
  BY DEF IInv
<1> QED
  BY <1>1, LinkInvariant, PTL

\* The state shown to the user is the state of the transport.
THEOREM LinkStateIsTrue == Spec => [](TypeOK /\ StateIsTrue)
<1>1. IInv => TypeOK /\ StateIsTrue
  BY DEF IInv
<1> QED
  BY <1>1, LinkInvariant, PTL

-----------------------------------------------------------------------------
(* Lists of the room.                                                      *)

\* Sets of numbers have a least one: the induction over lists in this module.
LEMMA LeastOf == ASSUME NEW T, T \subseteq Nat, T # {}
                 PROVE \E x \in T : \A y \in T : x <= y
<1> DEFINE U == {1..n : n \in T}
<1>0. \A n \in T : 1..n \in FiniteSubsetsOf(Nat)
  BY FS_Interval DEF FiniteSubsetsOf
<1>1. U \subseteq FiniteSubsetsOf(Nat) /\ U # {}
  BY <1>0
<1>2. PICK v \in U : \A w \in U : ~(<<w, v>> \in StrictSubsetOrdering(Nat))
  <2> HIDE DEF U
  <2> QED BY <1>1, FS_StrictSubsetOrderingWellFounded, WFMin
<1>3. PICK x \in T : v = 1..x
  OBVIOUS
<1>4. ASSUME NEW y \in T PROVE x <= y
  <2>1. 1..y \in U /\ 1..y \in SUBSET Nat /\ 1..x \in SUBSET Nat
    OBVIOUS
  <2>2. ~(1..y \subseteq 1..x /\ 1..y # 1..x)
    BY <1>2, <1>3, <2>1 DEF StrictSubsetOrdering
  <2>3. CASE y < x
    <3>1. x \in 1..x /\ x \notin 1..y /\ 1..y \subseteq 1..x
      BY <2>3
    <3> QED BY <2>2, <3>1
  <2> QED BY <2>3
<1> QED BY <1>4

-----------------------------------------------------------------------------
(* Lists of devices, of targets and of requests.                           *)

Distinct(seq) == \A i, j \in 1..Len(seq) : seq[i].id = seq[j].id => i = j

LEMMA InList ==
    ASSUME NEW R, NEW seq \in Seq(R), NEW d
    PROVE  /\ d \in IdsOf(seq) <=> \E i \in 1..Len(seq) : seq[i].id = d
           /\ Len(seq) \in Nat /\ DOMAIN seq = 1..Len(seq)
           /\ d \in IdsOf(seq) => IndexOf(seq, d) \in 1..Len(seq) /\ seq[IndexOf(seq, d)].id = d
           /\ d \in IdsOf(seq) => Find(seq, d).id = d /\ Find(seq, d) \in ToSet(seq)
<1>1. DOMAIN seq = 1..Len(seq) /\ Len(seq) \in Nat
  OBVIOUS
<1>2. d \in IdsOf(seq) <=> \E i \in 1..Len(seq) : seq[i].id = d
  BY <1>1 DEF IdsOf
<1>3. ASSUME d \in IdsOf(seq) PROVE IndexOf(seq, d) \in 1..Len(seq) /\ seq[IndexOf(seq, d)].id = d
  BY <1>1, <1>2, <1>3 DEF IndexOf
<1>4. ASSUME d \in IdsOf(seq) PROVE Find(seq, d).id = d /\ Find(seq, d) \in ToSet(seq)
  BY <1>1, <1>2, <1>4 DEF Find, ToSet
<1>. QED BY <1>1, <1>2, <1>3, <1>4

LEMMA Finds ==
    ASSUME NEW R, NEW seq \in Seq(R), Distinct(seq), NEW i \in 1..Len(seq), NEW d, seq[i].id = d
    PROVE  d \in IdsOf(seq) /\ IndexOf(seq, d) = i /\ Find(seq, d) = seq[i]
<1>1. d \in IdsOf(seq)
  BY InList
<1>2. IndexOf(seq, d) = i
  BY <1>1, InList DEF Distinct
<1>3. Find(seq, d) = seq[i]
  <2>1. PICK k \in 1..Len(seq) : Find(seq, d) = seq[k]
    BY <1>1, InList DEF ToSet
  <2>. QED BY <1>1, <2>1, InList DEF Distinct
<1>. QED BY <1>1, <1>2, <1>3

LEMMA Removed ==
    ASSUME NEW R, NEW seq \in Seq(R), NEW at \in 1..Len(seq)
    PROVE  /\ RemoveAt(seq, at) \in Seq(R) /\ Len(RemoveAt(seq, at)) = Len(seq) - 1
           /\ \A i \in 1..Len(seq) - 1 : RemoveAt(seq, at)[i] = IF i < at THEN seq[i] ELSE seq[i + 1]
<1> DEFINE left == SubSeq(seq, 1, at - 1)
           right == SubSeq(seq, at + 1, Len(seq))
<1>0. Len(seq) \in Nat /\ \A i \in 1..Len(seq) : seq[i] \in R
  OBVIOUS
<1>1. /\ left \in Seq(R) /\ Len(left) = at - 1
      /\ \A i \in 1..at - 1 : left[i] = seq[i]
  <2>1. 1 \in Int /\ at - 1 \in Int /\ \A i \in 1..at - 1 : seq[i] \in R
    BY <1>0
  <2>2. Len(left) = IF 1 <= at - 1 THEN at - 1 - 1 + 1 ELSE 0
    BY <2>1, SubSeqProperties
  <2>3. left \in Seq(R) /\ \A i \in 1..at - 1 - 1 + 1 : left[i] = seq[1 + i - 1]
    BY <2>1, SubSeqProperties
  <2>. QED BY <2>2, <2>3
<1>2. /\ right \in Seq(R) /\ Len(right) = Len(seq) - at
      /\ \A i \in 1..Len(seq) - at : right[i] = seq[at + i]
  <2>1. at + 1 \in Int /\ Len(seq) \in Int /\ \A i \in at + 1..Len(seq) : seq[i] \in R
    BY <1>0
  <2>2. Len(right) = IF at + 1 <= Len(seq) THEN Len(seq) - (at + 1) + 1 ELSE 0
    BY <2>1, SubSeqProperties
  <2>3. right \in Seq(R) /\ \A i \in 1..Len(seq) - (at + 1) + 1 : right[i] = seq[at + 1 + i - 1]
    BY <2>1, SubSeqProperties
  <2>. QED BY <1>0, <2>2, <2>3
<1>. HIDE DEF left, right
<1>3. RemoveAt(seq, at) = left \o right
  BY DEF RemoveAt, left, right
<1>4. /\ left \o right \in Seq(R) /\ Len(left \o right) = Len(left) + Len(right)
      /\ \A i \in 1..Len(left) + Len(right) :
            (left \o right)[i] = IF i <= Len(left) THEN left[i] ELSE right[i - Len(left)]
  BY <1>1, <1>2, ConcatProperties
<1>5. ASSUME NEW i \in 1..Len(seq) - 1
      PROVE  (left \o right)[i] = IF i < at THEN seq[i] ELSE seq[i + 1]
  <2>1. (left \o right)[i] = IF i <= at - 1 THEN left[i] ELSE right[i - (at - 1)]
    BY <1>0, <1>1, <1>2, <1>4
  <2>2. CASE i < at
    BY <1>0, <1>1, <2>1, <2>2
  <2>3. CASE ~(i < at)
    <3>1. i - (at - 1) \in 1..Len(seq) - at /\ at + (i - (at - 1)) = i + 1 /\ ~(i <= at - 1) /\ ~(i < at)
      BY <1>0, <2>3
    <3>2. right[i - (at - 1)] = seq[i + 1]
      BY <1>2, <3>1
    <3>. QED BY <2>1, <3>1, <3>2
  <2>. QED BY <2>2, <2>3
<1>. QED BY <1>0, <1>1, <1>2, <1>3, <1>4, <1>5

LEMMA WithoutFacts ==
    ASSUME NEW R, NEW seq \in Seq(R), Distinct(seq), NEW d
    PROVE  /\ Without(seq, d) \in Seq(R) /\ Distinct(Without(seq, d))
           /\ \A i \in 1..Len(Without(seq, d)) : Without(seq, d)[i].id # d
           /\ \A i \in 1..Len(Without(seq, d)) : \E j \in 1..Len(seq) : Without(seq, d)[i] = seq[j]
           /\ \A j \in 1..Len(seq) : seq[j].id # d => \E i \in 1..Len(Without(seq, d)) : Without(seq, d)[i] = seq[j]
           /\ \A j \in 1..Len(seq) : seq[j].id = d =>
                /\ Len(Without(seq, d)) = Len(seq) - 1
                /\ \A i \in 1..Len(seq) - 1 : Without(seq, d)[i] = IF i < j THEN seq[i] ELSE seq[i + 1]
<1> DEFINE q == Without(seq, d)
<1>0. Len(seq) \in Nat
  OBVIOUS
<1>1. CASE d \notin IdsOf(seq)
  <2>1. q = seq /\ \A i \in 1..Len(seq) : seq[i].id # d
    BY <1>1, InList DEF Without
  <2>. QED BY <2>1
<1>2. CASE d \in IdsOf(seq)
  <2> DEFINE at == IndexOf(seq, d)
  <2>1. at \in 1..Len(seq) /\ seq[at].id = d /\ \A j \in 1..Len(seq) : seq[j].id = d => j = at
    BY <1>2, InList DEF Distinct
  <2>2. q = RemoveAt(seq, at)
    BY <1>2 DEF Without
  <2>. HIDE DEF at, q
  <2>3. /\ q \in Seq(R) /\ Len(q) = Len(seq) - 1
        /\ \A i \in 1..Len(seq) - 1 : q[i] = IF i < at THEN seq[i] ELSE seq[i + 1]
    BY <2>1, <2>2, Removed
  <2>4. \A i \in 1..Len(q) : \E j \in 1..Len(seq) : q[i] = seq[j] /\ j # at /\ j = IF i < at THEN i ELSE i + 1
    <3>1. ASSUME NEW i \in 1..Len(q), i < at PROVE q[i] = seq[i] /\ i \in 1..Len(seq) /\ i # at
      BY <1>0, <2>1, <2>3, <3>1
    <3>2. ASSUME NEW i \in 1..Len(q), ~(i < at) PROVE q[i] = seq[i + 1] /\ i + 1 \in 1..Len(seq) /\ i + 1 # at
      BY <1>0, <2>1, <2>3, <3>2
    <3>. QED BY <3>1, <3>2
  <2>5. Distinct(q)
    <3>1. SUFFICES ASSUME NEW i \in 1..Len(q), NEW j \in 1..Len(q), q[i].id = q[j].id PROVE i = j
      BY DEF Distinct
    <3>2. PICK k \in 1..Len(seq) : q[i] = seq[k] /\ k = IF i < at THEN i ELSE i + 1
      BY <2>4
    <3>3. PICK l \in 1..Len(seq) : q[j] = seq[l] /\ l = IF j < at THEN j ELSE j + 1
      BY <2>4
    <3>4. k = l
      BY <3>1, <3>2, <3>3 DEF Distinct
    <3>. QED BY <3>2, <3>3, <3>4, <2>1
  <2>6. ASSUME NEW j \in 1..Len(seq), seq[j].id # d PROVE \E i \in 1..Len(q) : q[i] = seq[j]
    <3>1. j # at
      BY <2>1, <2>6
    <3>2. CASE j < at
      BY <1>0, <2>1, <2>3, <3>2
    <3>3. CASE j > at
      <4>1. j - 1 \in 1..Len(seq) - 1 /\ ~(j - 1 < at) /\ (j - 1) + 1 = j
        BY <1>0, <2>1, <3>3
      <4>2. q[j - 1] = seq[j]
        BY <2>3, <4>1
      <4>. QED BY <2>3, <4>1, <4>2
    <3>. QED BY <2>1, <3>1, <3>2, <3>3
  <2>7. \A i \in 1..Len(q) : q[i].id # d
    BY <2>1, <2>4
  <2>8. \A i \in 1..Len(q) : \E j \in 1..Len(seq) : q[i] = seq[j]
    BY <2>4
  <2>9. \A j \in 1..Len(seq) : seq[j].id = d => j = at
    BY <2>1
  <2>. QED BY <2>3, <2>5, <2>6, <2>7, <2>8, <2>9 DEF q
<1>. QED BY <1>1, <1>2

LEMMA AppendFacts ==
    ASSUME NEW R, NEW seq \in Seq(R), NEW e \in R
    PROVE  /\ Append(seq, e) \in Seq(R) /\ Len(Append(seq, e)) = Len(seq) + 1 /\ Len(seq) \in Nat
           /\ \A i \in 1..Len(seq) : Append(seq, e)[i] = seq[i]
           /\ Append(seq, e)[Len(seq) + 1] = e
  OBVIOUS

-----------------------------------------------------------------------------
(* Rooms.                                                                  *)

Devices == [id : Nat, x : Int, pinned : BOOLEAN, anchored : BOOLEAN, placed : BOOLEAN]
Targets == [id : Nat, x : Int, pinned : BOOLEAN]
HandStates == [pinching : BOOLEAN, held : Nat, offset : Int]

\* One device and one target for an id, and hands that hold what is in the list.
Shape(r) ==
    /\ r \in [devices : Seq(Devices), targets : Seq(Targets), hands : [Hands -> HandStates], reported : {r.reported}]
    /\ Distinct(r.devices) /\ Distinct(r.targets)
    /\ \A h \in Hands : r.hands[h].held <= Len(r.targets)

\* A hand has its target.
InHand(r, d) == \E h \in Hands, i \in 1..Len(r.targets) : r.hands[h].held = i /\ r.targets[i].id = d

\* Devices and targets are copies of each other, but for those of `stale`.
Copies(r, stale) ==
    /\ \A i \in 1..Len(r.devices) : r.devices[i].id \notin stale =>
            \E j \in 1..Len(r.targets) : r.targets[j] = Target(r.devices[i])
    /\ \A j \in 1..Len(r.targets) : r.targets[j].id \notin stale =>
            \E i \in 1..Len(r.devices) : r.targets[j] = Target(r.devices[i])

\* What was placed and let go of was reported, but for the devices of `due`.
Told(r, due) ==
    \A i \in 1..Len(r.devices) : LET v == r.devices[i] IN
        v.placed /\ v.id \notin due /\ ~InHand(r, v.id) =>
            v.id \in DOMAIN r.reported /\ r.reported[v.id] = Placement(v)

\* A room in the middle of a step, that has still to see to these.
Sound(r, stale, due) == Shape(r) /\ Copies(r, stale) /\ Told(r, due)

\* Hands that hold something in q held the same in r.
Keeps(r, q) ==
    \A h \in Hands : q.hands[h].held # 0 =>
        /\ r.hands[h].held # 0
        /\ q.targets[q.hands[h].held].id = r.targets[r.hands[h].held].id

LEMMA HeldInHand == ASSUME NEW r, Shape(r), NEW d PROVE Held(r, d) <=> InHand(r, d)
<1>1. r.targets \in Seq(Targets) /\ Distinct(r.targets)
  BY DEF Shape
<1>2. CASE d \notin IdsOf(r.targets)
  BY <1>1, <1>2, InList DEF Held, InHand
<1>3. CASE d \in IdsOf(r.targets)
  <2>1. /\ IndexOf(r.targets, d) \in 1..Len(r.targets) /\ r.targets[IndexOf(r.targets, d)].id = d
        /\ \A i \in 1..Len(r.targets) : r.targets[i].id = d => i = IndexOf(r.targets, d)
    BY <1>1, <1>3, InList DEF Distinct
  <2>. QED BY <1>3, <2>1 DEF Held, InHand
<1>. QED BY <1>2, <1>3

\* Report() writes down one device as it is now, if it is there.
LEMMA ReportFacts ==
    ASSUME NEW r, Shape(r), NEW d
    PROVE  /\ Shape(Report(r, d))
           /\ Report(r, d).devices = r.devices /\ Report(r, d).targets = r.targets /\ Report(r, d).hands = r.hands
           /\ \A e \in DOMAIN r.reported : e # d =>
                    e \in DOMAIN Report(r, d).reported /\ Report(r, d).reported[e] = r.reported[e]
           /\ \A i \in 1..Len(r.devices) : r.devices[i].id = d =>
                    d \in DOMAIN Report(r, d).reported /\ Report(r, d).reported[d] = Placement(r.devices[i])
<1>1. r.devices \in Seq(Devices) /\ Distinct(r.devices)
  BY DEF Shape
<1>2. CASE d \notin IdsOf(r.devices)
  <2>1. Report(r, d) = r /\ \A i \in 1..Len(r.devices) : r.devices[i].id # d
    BY <1>1, <1>2, InList DEF Report
  <2>. QED BY <2>1
<1>3. CASE d \in IdsOf(r.devices)
  <2> DEFINE known == [e \in DOMAIN r.reported \cup {d} |->
                          IF e = d THEN Placement(Find(r.devices, d)) ELSE r.reported[e]]
  <2>1. Report(r, d) = [r EXCEPT !.reported = known]
    BY <1>3 DEF Report
  <2>2. /\ Report(r, d).devices = r.devices /\ Report(r, d).targets = r.targets /\ Report(r, d).hands = r.hands
        /\ Report(r, d).reported = known
        /\ Report(r, d) \in [devices : Seq(Devices), targets : Seq(Targets), hands : [Hands -> HandStates], reported : {known}]
    BY <2>1 DEF Shape
  <2>3. Shape(Report(r, d))
    BY <2>2 DEF Shape
  <2>4. \A i \in 1..Len(r.devices) : r.devices[i].id = d => known[d] = Placement(r.devices[i])
    BY <1>1, Finds
  <2>. QED BY <2>2, <2>3, <2>4
<1>. QED BY <1>2, <1>3

LEMMA ReportSound ==
    ASSUME NEW r, NEW stale, NEW due, NEW d, Sound(r, stale, due)
    PROVE  Sound(Report(r, d), stale, due \ {d}) /\ Keeps(r, Report(r, d))
<1> DEFINE q == Report(r, d)
<1>1. /\ Shape(q) /\ q.devices = r.devices /\ q.targets = r.targets /\ q.hands = r.hands
      /\ \A e \in DOMAIN r.reported : e # d => e \in DOMAIN q.reported /\ q.reported[e] = r.reported[e]
      /\ \A i \in 1..Len(r.devices) : r.devices[i].id = d =>
                    d \in DOMAIN q.reported /\ q.reported[d] = Placement(r.devices[i])
  BY ReportFacts DEF Sound
<1>. HIDE DEF q
<1>2. Copies(q, stale)
  BY <1>1 DEF Sound, Copies
<1>3. Told(q, due \ {d})
  <2>1. \A e : InHand(q, e) <=> InHand(r, e)
    BY <1>1 DEF InHand
  <2>2. ASSUME NEW i \in 1..Len(r.devices), r.devices[i].placed, r.devices[i].id \notin due \ {d}, ~InHand(r, r.devices[i].id)
        PROVE  r.devices[i].id \in DOMAIN q.reported /\ q.reported[r.devices[i].id] = Placement(r.devices[i])
    <3>1. CASE r.devices[i].id = d
      BY <1>1, <3>1
    <3>2. CASE r.devices[i].id # d
      <4>1. r.devices[i].id \in DOMAIN r.reported /\ r.reported[r.devices[i].id] = Placement(r.devices[i])
        BY <2>2, <3>2 DEF Sound, Told
      <4>. QED BY <1>1, <3>2, <4>1
    <3>. QED BY <3>1, <3>2
  <2>. QED BY <1>1, <2>1, <2>2 DEF Told
<1>4. Keeps(r, q)
  BY <1>1 DEF Keeps
<1>. QED BY <1>1, <1>2, <1>3, <1>4 DEF Sound, q

LEMMA Weaker ==
    ASSUME NEW r, NEW stale, NEW due, NEW more, NEW later, Sound(r, stale, due), stale \subseteq more, due \subseteq later
    PROVE  Sound(r, more, later)
  BY DEF Sound, Copies, Told

LEMMA KeepsOn == ASSUME NEW p, NEW q, NEW r, Keeps(p, q), Keeps(q, r) PROVE Keeps(p, r)
  BY DEF Keeps

\* A hand lets go, and reports if it was the last one on the device.
LEMMA ReleaseHandSound ==
    ASSUME NEW r, NEW stale, NEW due, Sound(r, stale, due), NEW h \in Hands
    PROVE  /\ Sound(ReleaseHand(r, h), stale, due)
           /\ ReleaseHand(r, h).devices = r.devices /\ ReleaseHand(r, h).targets = r.targets
           /\ ReleaseHand(r, h).hands = [r.hands EXCEPT ![h].held = 0]
<1> DEFINE at == r.hands[h].held
           free == [r EXCEPT !.hands[h].held = 0]
<1>0. /\ r \in [devices : Seq(Devices), targets : Seq(Targets), hands : [Hands -> HandStates], reported : {r.reported}]
      /\ at \in Nat /\ at <= Len(r.targets) /\ Len(r.targets) \in Nat
  BY DEF Sound, Shape, HandStates
<1>1. /\ free.devices = r.devices /\ free.targets = r.targets /\ free.reported = r.reported
      /\ free.hands = [r.hands EXCEPT ![h].held = 0]
      /\ free \in [devices : Seq(Devices), targets : Seq(Targets), hands : [Hands -> HandStates], reported : {free.reported}]
      /\ free.hands[h].held = 0 /\ \A o \in Hands : o # h => free.hands[o] = r.hands[o]
  BY <1>0 DEF HandStates
<1>. HIDE DEF free
<1>2. CASE at = 0
  <2>1. ReleaseHand(r, h) = r
    BY <1>2 DEF ReleaseHand
  <2>2. r.hands = [r.hands EXCEPT ![h].held = 0]
    BY <1>0, <1>2 DEF HandStates
  <2>. QED BY <2>1, <2>2
<1>3. CASE at # 0
  <2> DEFINE d == r.targets[at].id
  <2>1. Shape(free) /\ Copies(free, stale)
    BY <1>1, <1>0 DEF Sound, Shape, Copies
  <2>2. \A e : e # d /\ InHand(r, e) => InHand(free, e)
    BY <1>1 DEF InHand
  <2>3. CASE \E o \in Hands : free.hands[o].held = at
    <3>1. ReleaseHand(r, h) = free
      BY <1>3, <2>3 DEF ReleaseHand, free
    <3>2. InHand(free, d)
      <4>1. at \in 1..Len(free.targets) /\ free.targets[at].id = d
        BY <1>0, <1>1, <1>3
      <4>. QED BY <2>3, <4>1 DEF InHand
    <3>3. Told(free, due)
      BY <1>1, <2>2, <3>2 DEF Sound, Told
    <3>. QED BY <1>1, <2>1, <3>1, <3>3 DEF Sound
  <2>4. CASE ~\E o \in Hands : free.hands[o].held = at
    <3>1. ReleaseHand(r, h) = Report(free, d)
      BY <1>3, <2>4 DEF ReleaseHand, free
    <3>2. Told(free, due \cup {d})
      BY <1>1, <2>2 DEF Sound, Told
    <3>3. Sound(Report(free, d), stale, (due \cup {d}) \ {d})
      BY <2>1, <3>2, ReportSound DEF Sound
    <3>4. Sound(Report(free, d), stale, due)
      BY <3>3, Weaker
    <3>5. /\ Report(free, d).devices = free.devices /\ Report(free, d).targets = free.targets
          /\ Report(free, d).hands = free.hands
      BY <2>1, ReportFacts
    <3>. QED BY <1>1, <3>1, <3>4, <3>5, ZenonT(60)
  <2>. QED BY <2>3, <2>4
<1>. QED BY <1>2, <1>3

LEMMA ReleaseHandKeeps ==
    ASSUME NEW r, Shape(r), NEW q, NEW h \in Hands,
           q.targets = r.targets, q.hands = [r.hands EXCEPT ![h].held = 0]
    PROVE  Keeps(r, q)
<1>1. r.hands \in [Hands -> HandStates]
  BY DEF Shape
<1>2. \A o \in Hands : q.hands[o].held # 0 => q.hands[o].held = r.hands[o].held
  BY <1>1 DEF HandStates
<1>. QED BY <1>2 DEF Keeps

\* Both hands let go of one target.
LEMMA LetGoBoth ==
    ASSUME NEW r, NEW stale, NEW due, Sound(r, stale, due), NEW at \in 1..Len(r.targets),
           NEW free, free = LetGo(LetGo(r, 1, at), 2, at)
    PROVE  /\ Sound(free, stale, due) /\ Keeps(r, free)
           /\ free.devices = r.devices /\ free.targets = r.targets
           /\ \A h \in Hands : free.hands[h].held # at
           /\ \A h \in Hands : free.hands[h].held # 0 => free.hands[h].held = r.hands[h].held
<1> DEFINE one == LetGo(r, 1, at)
<1>0. 1 \in Hands /\ 2 \in Hands /\ Hands = {1, 2} /\ Len(r.targets) \in Nat /\ at # 0
  BY DEF Hands, Sound, Shape
<1>1. ASSUME NEW p, Sound(p, stale, due), NEW h \in Hands
      PROVE  LET q == LetGo(p, h, at) IN
             /\ Sound(q, stale, due) /\ Keeps(p, q) /\ q.devices = p.devices /\ q.targets = p.targets
             /\ q.hands[h].held # at /\ \A o \in Hands : o # h => q.hands[o] = p.hands[o]
             /\ q.hands[h].held # 0 => q.hands[h].held = p.hands[h].held
  <2>0. p.hands \in [Hands -> HandStates] /\ Shape(p)
    BY <1>1 DEF Sound, Shape
  <2>1. CASE p.hands[h].held = at
    <3>1. LetGo(p, h, at) = ReleaseHand(p, h)
      BY <2>1 DEF LetGo
    <3>2. /\ Sound(ReleaseHand(p, h), stale, due)
          /\ ReleaseHand(p, h).devices = p.devices /\ ReleaseHand(p, h).targets = p.targets
          /\ ReleaseHand(p, h).hands = [p.hands EXCEPT ![h].held = 0]
      BY <1>1, ReleaseHandSound
    <3>3. Keeps(p, ReleaseHand(p, h))
      BY <2>0, <3>2, ReleaseHandKeeps
    <3>4. ReleaseHand(p, h).hands[h].held = 0 /\ \A o \in Hands : o # h => ReleaseHand(p, h).hands[o] = p.hands[o]
      BY <2>0, <3>2 DEF HandStates
    <3>. QED BY <1>0, <3>1, <3>2, <3>3, <3>4
  <2>2. CASE p.hands[h].held # at
    <3>1. LetGo(p, h, at) = p /\ Keeps(p, p)
      BY <2>2 DEF LetGo, Keeps
    <3>. QED BY <1>1, <2>2, <3>1
  <2>. QED BY <2>1, <2>2
<1>2. /\ Sound(one, stale, due) /\ Keeps(r, one) /\ one.devices = r.devices /\ one.targets = r.targets
      /\ one.hands[1].held # at /\ \A o \in Hands : o # 1 => one.hands[o] = r.hands[o]
      /\ one.hands[1].held # 0 => one.hands[1].held = r.hands[1].held
  BY <1>0, <1>1
<1>3. /\ Sound(free, stale, due) /\ Keeps(one, free) /\ free.devices = one.devices /\ free.targets = one.targets
      /\ free.hands[2].held # at /\ \A o \in Hands : o # 2 => free.hands[o] = one.hands[o]
      /\ free.hands[2].held # 0 => free.hands[2].held = one.hands[2].held
  BY <1>0, <1>1, <1>2
<1>4. Keeps(r, free)
  BY <1>2, <1>3, KeepsOn
<1>. QED BY <1>0, <1>2, <1>3, <1>4

\* Grabbable.remove(): hands let go of the target, the others keep theirs.
LEMMA UnregisterSound ==
    ASSUME NEW r, NEW stale, NEW due, Sound(r, stale, due), NEW d
    PROVE  /\ Sound(Unregister(r, d), stale \cup {d}, due) /\ Keeps(r, Unregister(r, d))
           /\ Unregister(r, d).devices = r.devices /\ d \notin IdsOf(Unregister(r, d).targets)
<1> DEFINE at == IndexOf(r.targets, d)
           free == LetGo(LetGo(r, 1, at), 2, at)
           q == Unregister(r, d)
<1>0. r.targets \in Seq(Targets) /\ Distinct(r.targets)
  BY DEF Sound, Shape
<1>1. CASE d \notin IdsOf(r.targets)
  <2>1. q = r
    BY <1>1 DEF Unregister
  <2>. QED BY <1>1, <2>1, Weaker DEF Keeps
<1>2. CASE d \in IdsOf(r.targets)
  <2>1. at \in 1..Len(r.targets) /\ r.targets[at].id = d
    BY <1>0, <1>2, InList
  <2>2. /\ Sound(free, stale, due) /\ Keeps(r, free)
        /\ free.devices = r.devices /\ free.targets = r.targets
        /\ \A h \in Hands : free.hands[h].held # at
    <3>. HIDE DEF at
    <3>. QED BY <2>1, LetGoBoth
  <2>3. q = [free EXCEPT !.targets = Without(@, d),
                         !.hands = [h \in Hands |-> LET hand == free.hands[h] IN
                                        IF hand.held > at THEN [hand EXCEPT !.held = @ - 1] ELSE hand]]
    BY <1>2 DEF Unregister
  <2>. HIDE DEF at, free, q
  <2> DEFINE left == Without(free.targets, d)
             moved == [h \in Hands |-> IF free.hands[h].held > at THEN [free.hands[h] EXCEPT !.held = @ - 1] ELSE free.hands[h]]
  <2>4. /\ free \in [devices : Seq(Devices), targets : Seq(Targets), hands : [Hands -> HandStates], reported : {free.reported}]
        /\ \A h \in Hands : free.hands[h].held \in Nat /\ free.hands[h].held <= Len(free.targets)
        /\ Len(free.targets) \in Nat
    BY <2>2 DEF Sound, Shape, HandStates
  <2>5. /\ left \in Seq(Targets) /\ Distinct(left) /\ Len(left) = Len(free.targets) - 1
        /\ \A i \in 1..Len(left) : left[i].id # d
        /\ \A i \in 1..Len(left) : left[i] = IF i < at THEN free.targets[i] ELSE free.targets[i + 1]
        /\ \A i \in 1..Len(left) : \E j \in 1..Len(free.targets) : left[i] = free.targets[j]
        /\ \A j \in 1..Len(free.targets) : free.targets[j].id # d => \E i \in 1..Len(left) : left[i] = free.targets[j]
    <3>1. free.targets \in Seq(Targets) /\ Distinct(free.targets) /\ at \in 1..Len(free.targets) /\ free.targets[at].id = d
      BY <1>0, <2>1, <2>2
    <3>2. /\ left \in Seq(Targets) /\ Distinct(left)
          /\ \A i \in 1..Len(left) : left[i].id # d
          /\ \A i \in 1..Len(left) : \E j \in 1..Len(free.targets) : left[i] = free.targets[j]
          /\ \A j \in 1..Len(free.targets) : free.targets[j].id # d => \E i \in 1..Len(left) : left[i] = free.targets[j]
      BY <3>1, WithoutFacts
    <3>3. /\ Len(left) = Len(free.targets) - 1
          /\ \A i \in 1..Len(free.targets) - 1 : left[i] = IF i < at THEN free.targets[i] ELSE free.targets[i + 1]
      BY <3>1, WithoutFacts
    <3>. HIDE DEF left
    <3>. QED BY <3>2, <3>3
  <2>6. /\ moved \in [Hands -> HandStates]
        /\ \A h \in Hands : moved[h].held = IF free.hands[h].held > at THEN free.hands[h].held - 1 ELSE free.hands[h].held
    <3>1. ASSUME NEW h \in Hands
          PROVE  /\ moved[h] \in HandStates
                 /\ moved[h].held = IF free.hands[h].held > at THEN free.hands[h].held - 1 ELSE free.hands[h].held
      <4>1. free.hands[h] \in HandStates /\ free.hands[h].held \in Nat
        BY <2>4
      <4>2. CASE free.hands[h].held > at
        <5>1. moved[h] = [free.hands[h] EXCEPT !.held = @ - 1] /\ free.hands[h].held - 1 \in Nat
          BY <2>1, <4>1, <4>2
        <5>. QED BY <4>1, <4>2, <5>1 DEF HandStates
      <4>3. CASE ~(free.hands[h].held > at)
        BY <4>1, <4>3
      <4>. QED BY <4>2, <4>3
    <3>. QED BY <3>1
  <2>20. q = [free EXCEPT !.targets = left, !.hands = moved]
    BY <2>3 DEF left, moved
  <2>. HIDE DEF left, moved
  <2>7. /\ q.devices = free.devices /\ q.reported = free.reported /\ q.targets = left /\ q.hands = moved
        /\ q \in [devices : Seq(Devices), targets : Seq(Targets), hands : [Hands -> HandStates], reported : {q.reported}]
    BY <2>4, <2>5, <2>6, <2>20
  <2>8. \A h \in Hands : moved[h].held <= Len(left)
    <3>1. ASSUME NEW h \in Hands PROVE moved[h].held <= Len(left)
      <4>1. CASE free.hands[h].held > at
        BY <2>1, <2>4, <2>5, <2>6, <4>1
      <4>2. CASE ~(free.hands[h].held > at)
        <5>1. at \in 1..Len(free.targets) /\ free.hands[h].held # at
          BY <2>1, <2>2
        <5>. QED BY <2>4, <2>5, <2>6, <4>2, <5>1
      <4>. QED BY <4>1, <4>2
    <3>. QED BY <3>1
  <2>9. Shape(q)
    BY <2>2, <2>5, <2>7, <2>8 DEF Sound, Shape
  <2>10. \A h \in Hands : moved[h].held # 0 =>
            free.hands[h].held # 0 /\ left[moved[h].held] = free.targets[free.hands[h].held]
    <3>1. ASSUME NEW h \in Hands, moved[h].held # 0
          PROVE  free.hands[h].held # 0 /\ left[moved[h].held] = free.targets[free.hands[h].held]
      <4>1. CASE free.hands[h].held > at
        <5>1. /\ moved[h].held = free.hands[h].held - 1 /\ moved[h].held \in 1..Len(left) /\ ~(moved[h].held < at)
              /\ moved[h].held + 1 = free.hands[h].held /\ free.hands[h].held # 0
          BY <2>1, <2>2, <2>4, <2>5, <2>6, <4>1
        <5>. QED BY <2>5, <5>1
      <4>2. CASE ~(free.hands[h].held > at)
        <5>1. moved[h].held = free.hands[h].held /\ moved[h].held \in 1..Len(left) /\ moved[h].held < at
          BY <2>1, <2>2, <2>4, <2>5, <2>6, <3>1, <4>2
        <5>. QED BY <2>5, <3>1, <5>1
      <4>. QED BY <4>1, <4>2
    <3>. QED BY <3>1
  <2>11. Keeps(free, q)
    BY <2>7, <2>10 DEF Keeps
  <2>12. \A e : InHand(free, e) => InHand(q, e)
    <3>1. ASSUME NEW e, NEW h \in Hands, free.hands[h].held \in 1..Len(free.targets), free.targets[free.hands[h].held].id = e
          PROVE  InHand(q, e)
      <4>1. moved[h].held # 0 /\ moved[h].held \in 1..Len(left)
        BY <2>1, <2>2, <2>4, <2>6, <2>8, <3>1
      <4>2. left[moved[h].held].id = e
        BY <2>10, <3>1, <4>1
      <4>. QED BY <2>7, <4>1, <4>2 DEF InHand
    <3>. QED BY <3>1 DEF InHand
  <2>13. Told(q, due)
    BY <2>2, <2>7, <2>12 DEF Sound, Told
  <2>14. Copies(q, stale \cup {d})
    <3>1. ASSUME NEW i \in 1..Len(q.devices), q.devices[i].id \notin stale \cup {d}
          PROVE  \E j \in 1..Len(q.targets) : q.targets[j] = Target(q.devices[i])
      <4>1. PICK j \in 1..Len(free.targets) : free.targets[j] = Target(q.devices[i])
        BY <2>2, <2>7, <3>1 DEF Sound, Copies
      <4>2. free.targets[j].id # d
        BY <3>1, <4>1 DEF Target
      <4>. QED BY <2>5, <2>7, <4>1, <4>2
    <3>2. ASSUME NEW j \in 1..Len(q.targets), q.targets[j].id \notin stale \cup {d}
          PROVE  \E i \in 1..Len(q.devices) : q.targets[j] = Target(q.devices[i])
      <4>1. PICK k \in 1..Len(free.targets) : q.targets[j] = free.targets[k]
        BY <2>5, <2>7
      <4>. QED BY <2>2, <2>7, <3>2, <4>1 DEF Sound, Copies
    <3>. QED BY <3>1, <3>2 DEF Copies
  <2>15. Keeps(r, q)
    BY <2>2, <2>11, KeepsOn
  <2>16. d \notin IdsOf(q.targets)
    BY <2>5, <2>7, InList
  <2>. QED BY <2>2, <2>7, <2>9, <2>13, <2>14, <2>15, <2>16 DEF Sound, q
<1>. QED BY <1>1, <1>2

\* A target for a device that is there and has none.
LEMMA RegisterSound ==
    ASSUME NEW r, NEW stale, NEW due, NEW d, Sound(r, stale \cup {d}, due),
           d \in IdsOf(r.devices), d \notin IdsOf(r.targets)
    PROVE  Sound(Register(r, d), stale \ {d}, due) /\ Keeps(r, Register(r, d)) /\ Register(r, d).devices = r.devices
<1> DEFINE q == Register(r, d)
<1>0. /\ r \in [devices : Seq(Devices), targets : Seq(Targets), hands : [Hands -> HandStates], reported : {r.reported}]
      /\ Distinct(r.devices) /\ Distinct(r.targets) /\ Len(r.targets) \in Nat
      /\ \A h \in Hands : r.hands[h].held \in Nat /\ r.hands[h].held <= Len(r.targets)
  BY DEF Sound, Shape, HandStates
<1>1. PICK n \in 1..Len(r.devices) : r.devices[n].id = d
  BY <1>0, InList
<1> DEFINE e == Target(r.devices[n])
<1>2. /\ e \in Targets /\ e.id = d /\ q = [r EXCEPT !.targets = Append(@, e)]
  <2>1. Find(r.devices, d) = r.devices[n] /\ r.devices[n] \in Devices
    BY <1>0, <1>1, Finds
  <2>. QED BY <1>1, <2>1 DEF Register, Target, Devices, Targets
<1>. HIDE DEF e, q
<1>3. /\ Append(r.targets, e) \in Seq(Targets) /\ Len(Append(r.targets, e)) = Len(r.targets) + 1
      /\ \A i \in 1..Len(r.targets) : Append(r.targets, e)[i] = r.targets[i]
      /\ Append(r.targets, e)[Len(r.targets) + 1] = e
  BY <1>0, <1>2, AppendFacts
<1>4. /\ q.devices = r.devices /\ q.hands = r.hands /\ q.reported = r.reported /\ q.targets = Append(r.targets, e)
      /\ q \in [devices : Seq(Devices), targets : Seq(Targets), hands : [Hands -> HandStates], reported : {q.reported}]
  BY <1>0, <1>2, <1>3
<1>5. \A i \in 1..Len(r.targets) : r.targets[i].id # d
  BY <1>0, InList
<1>6. Distinct(q.targets)
  <2>1. ASSUME NEW i \in 1..Len(r.targets) + 1, NEW j \in 1..Len(r.targets) + 1,
               q.targets[i].id = q.targets[j].id
        PROVE  i = j
    <3>1. CASE i \in 1..Len(r.targets) /\ j \in 1..Len(r.targets)
      BY <1>0, <1>3, <1>4, <2>1, <3>1 DEF Distinct
    <3>2. CASE i = Len(r.targets) + 1 /\ j \in 1..Len(r.targets)
      BY <1>2, <1>3, <1>4, <1>5, <2>1, <3>2
    <3>3. CASE j = Len(r.targets) + 1 /\ i \in 1..Len(r.targets)
      BY <1>2, <1>3, <1>4, <1>5, <2>1, <3>3
    <3>. QED BY <1>0, <3>1, <3>2, <3>3
  <2>. QED BY <1>3, <1>4, <2>1 DEF Distinct
<1>7. Shape(q)
  BY <1>0, <1>3, <1>4, <1>6 DEF Shape
<1>8. Keeps(r, q)
  <2>1. ASSUME NEW h \in Hands, r.hands[h].held # 0 PROVE q.targets[r.hands[h].held] = r.targets[r.hands[h].held]
    BY <1>0, <1>3, <1>4, <2>1
  <2>. QED BY <1>4, <2>1 DEF Keeps
<1>9. \A c : InHand(r, c) => InHand(q, c)
  BY <1>0, <1>3, <1>4 DEF InHand
<1>10. Told(q, due)
  BY <1>4, <1>9 DEF Sound, Told
<1>11. Copies(q, stale \ {d})
  <2>1. ASSUME NEW i \in 1..Len(q.devices), q.devices[i].id \notin stale \ {d}
        PROVE  \E j \in 1..Len(q.targets) : q.targets[j] = Target(q.devices[i])
    <3>1. CASE q.devices[i].id = d
      <4>1. i = n
        BY <1>0, <1>1, <1>4, <3>1 DEF Distinct
      <4>2. Len(r.targets) + 1 \in 1..Len(q.targets) /\ q.targets[Len(r.targets) + 1] = Target(q.devices[i])
        BY <1>0, <1>3, <1>4, <4>1 DEF e
      <4>. QED BY <4>2
    <3>2. CASE q.devices[i].id # d
      <4>1. PICK j \in 1..Len(r.targets) : r.targets[j] = Target(q.devices[i])
        BY <1>4, <2>1, <3>2 DEF Sound, Copies
      <4>. QED BY <1>0, <1>3, <1>4, <4>1
    <3>. QED BY <3>1, <3>2
  <2>2. ASSUME NEW j \in 1..Len(q.targets), q.targets[j].id \notin stale \ {d}
        PROVE  \E i \in 1..Len(q.devices) : q.targets[j] = Target(q.devices[i])
    <3>1. CASE j = Len(r.targets) + 1
      BY <1>1, <1>3, <1>4, <3>1 DEF e
    <3>2. CASE j # Len(r.targets) + 1
      <4>1. j \in 1..Len(r.targets) /\ q.targets[j] = r.targets[j] /\ r.targets[j].id # d
        BY <1>0, <1>3, <1>4, <1>5, <3>2
      <4>. QED BY <1>4, <2>2, <4>1 DEF Sound, Copies
    <3>. QED BY <3>1, <3>2
  <2>. QED BY <2>1, <2>2 DEF Copies
<1>. QED BY <1>4, <1>7, <1>8, <1>10, <1>11 DEF Sound, q

LEMMA SyncSound ==
    ASSUME NEW r, NEW stale, NEW due, NEW d, Sound(r, stale, due), d \in IdsOf(r.devices)
    PROVE  Sound(Sync(r, d), stale \ {d}, due) /\ Keeps(r, Sync(r, d)) /\ Sync(r, d).devices = r.devices
<1> DEFINE p == Unregister(r, d)
<1>1. /\ Sound(p, stale \cup {d}, due) /\ Keeps(r, p) /\ p.devices = r.devices /\ d \notin IdsOf(p.targets)
  BY UnregisterSound
<1>2. Sound(Register(p, d), stale \ {d}, due) /\ Keeps(p, Register(p, d)) /\ Register(p, d).devices = p.devices
  <2>. HIDE DEF p
  <2>. QED BY <1>1, RegisterSound
<1>3. Sync(r, d) = Register(p, d)
  BY DEF Sync
<1>. HIDE DEF p
<1>. QED BY <1>1, <1>2, <1>3, KeepsOn

LEMMA Listed == ASSUME NEW S, NEW n \in Nat, NEW f \in [1..n -> S] PROVE f \in Seq(S) /\ Len(f) = n
  OBVIOUS

\* Of the room r only what is known of device d was changed.
Changes(r, q, d) ==
    /\ q = [r EXCEPT !.devices = q.devices]
    /\ q.devices \in Seq(Devices) /\ Len(q.devices) = Len(r.devices)
    /\ \A i \in 1..Len(r.devices) :
            q.devices[i].id = r.devices[i].id /\ (r.devices[i].id # d => q.devices[i] = r.devices[i])

LEMMA ChangesSound ==
    ASSUME NEW r, NEW q, NEW d, NEW stale, NEW due, Sound(r, stale, due), Changes(r, q, d)
    PROVE  /\ Sound(q, stale \cup {d}, due \cup {d}) /\ Keeps(r, q)
           /\ q.targets = r.targets /\ q.hands = r.hands /\ IdsOf(q.devices) = IdsOf(r.devices)
<1>1. /\ r \in [devices : Seq(Devices), targets : Seq(Targets), hands : [Hands -> HandStates], reported : {r.reported}]
      /\ Distinct(r.devices) /\ Distinct(r.targets) /\ Len(r.devices) \in Nat
      /\ \A h \in Hands : r.hands[h].held <= Len(r.targets)
  BY DEF Sound, Shape
<1>2. /\ q.targets = r.targets /\ q.hands = r.hands /\ q.reported = r.reported
      /\ q \in [devices : Seq(Devices), targets : Seq(Targets), hands : [Hands -> HandStates], reported : {q.reported}]
  BY <1>1 DEF Changes
<1>3. Distinct(q.devices)
  BY <1>1 DEF Changes, Distinct
<1>4. Shape(q)
  BY <1>1, <1>2, <1>3 DEF Shape
<1>5. \A e : InHand(q, e) <=> InHand(r, e)
  BY <1>2 DEF InHand
<1>6. Told(q, due \cup {d})
  BY <1>1, <1>2, <1>5 DEF Sound, Told, Changes
<1>7. Copies(q, stale \cup {d})
  <2>0. Len(q.devices) = Len(r.devices) /\ q.targets = r.targets
    BY <1>2 DEF Changes
  <2>1. ASSUME NEW i \in 1..Len(q.devices), q.devices[i].id \notin stale \cup {d}
        PROVE  \E j \in 1..Len(q.targets) : q.targets[j] = Target(q.devices[i])
    <3>1. q.devices[i] = r.devices[i] /\ i \in 1..Len(r.devices) /\ r.devices[i].id \notin stale
      BY <2>0, <2>1 DEF Changes
    <3>. QED BY <2>0, <3>1 DEF Sound, Copies
  <2>2. ASSUME NEW j \in 1..Len(q.targets), q.targets[j].id \notin stale \cup {d}
        PROVE  \E i \in 1..Len(q.devices) : q.targets[j] = Target(q.devices[i])
    <3>1. PICK i \in 1..Len(r.devices) : r.targets[j] = Target(r.devices[i])
      BY <2>0, <2>2 DEF Sound, Copies
    <3>2. r.devices[i].id # d
      BY <2>0, <2>2, <3>1 DEF Target
    <3>. QED BY <2>0, <3>1, <3>2 DEF Changes
  <2>. QED BY <2>1, <2>2 DEF Copies
<1>8. IdsOf(q.devices) = IdsOf(r.devices)
  <2>1. q.devices \in Seq(Devices) /\ r.devices \in Seq(Devices)
    BY <1>1, <1>2
  <2>2. \A e : e \in IdsOf(q.devices) <=> e \in IdsOf(r.devices)
    BY <2>1, InList DEF Changes
  <2>. QED BY <2>2
<1>9. Keeps(r, q)
  BY <1>2 DEF Keeps
<1>. QED BY <1>2, <1>4, <1>6, <1>7, <1>8, <1>9 DEF Sound

LEMMA SetPoseChanges ==
    ASSUME NEW r, Shape(r), NEW d, NEW x \in Int
    PROVE  /\ Changes(r, SetPose(r, d, x), d)
           /\ \A i \in 1..Len(r.devices) : r.devices[i].id = d =>
                SetPose(r, d, x).devices[i].x = x /\ SetPose(r, d, x).devices[i].pinned = r.devices[i].pinned
<1> DEFINE new == [i \in DOMAIN r.devices |->
                    IF r.devices[i].id = d THEN [r.devices[i] EXCEPT !.x = x, !.placed = TRUE] ELSE r.devices[i]]
<1>1. /\ r \in [devices : Seq(Devices), targets : Seq(Targets), hands : [Hands -> HandStates], reported : {r.reported}]
      /\ DOMAIN r.devices = 1..Len(r.devices) /\ Len(r.devices) \in Nat
      /\ \A i \in 1..Len(r.devices) : r.devices[i] \in Devices
  BY DEF Shape
<1>2. \A i \in 1..Len(r.devices) : [r.devices[i] EXCEPT !.x = x, !.placed = TRUE] \in Devices
                                   /\ [r.devices[i] EXCEPT !.x = x, !.placed = TRUE].id = r.devices[i].id
  BY <1>1 DEF Devices
<1>3. new \in Seq(Devices) /\ Len(new) = Len(r.devices)
  <2>1. new \in [1..Len(r.devices) -> Devices]
    BY <1>1, <1>2
  <2>. HIDE DEF new
  <2>. QED BY <1>1, <2>1, Listed
<1>4. SetPose(r, d, x) = [r EXCEPT !.devices = new]
  BY DEF SetPose
<1>5. \A i \in 1..Len(r.devices) :
            new[i] = IF r.devices[i].id = d THEN [r.devices[i] EXCEPT !.x = x, !.placed = TRUE] ELSE r.devices[i]
  BY <1>1
<1>. HIDE DEF new
<1>6. [r EXCEPT !.devices = new].devices = new
  BY <1>1
<1>7. \A i \in 1..Len(r.devices) : r.devices[i].id = d => new[i].x = x /\ new[i].pinned = r.devices[i].pinned
  BY <1>1, <1>5 DEF Devices
<1>8. Changes(r, [r EXCEPT !.devices = new], d)
  BY <1>1, <1>2, <1>3, <1>5, <1>6 DEF Changes
<1>. QED BY <1>4, <1>6, <1>7, <1>8

LEMMA SetAnchoredChanges ==
    ASSUME NEW r, Shape(r), NEW d, NEW b \in BOOLEAN
    PROVE  /\ Changes(r, SetAnchored(r, d, b), d)
           /\ \A i \in 1..Len(r.devices) : r.devices[i].id = d =>
                /\ SetAnchored(r, d, b).devices[i].x = r.devices[i].x
                /\ SetAnchored(r, d, b).devices[i].pinned = r.devices[i].pinned
<1> DEFINE new == [i \in DOMAIN r.devices |->
                    IF r.devices[i].id = d THEN [r.devices[i] EXCEPT !.anchored = b] ELSE r.devices[i]]
<1>1. /\ r \in [devices : Seq(Devices), targets : Seq(Targets), hands : [Hands -> HandStates], reported : {r.reported}]
      /\ DOMAIN r.devices = 1..Len(r.devices) /\ Len(r.devices) \in Nat
      /\ \A i \in 1..Len(r.devices) : r.devices[i] \in Devices
  BY DEF Shape
<1>2. \A i \in 1..Len(r.devices) : [r.devices[i] EXCEPT !.anchored = b] \in Devices
                                   /\ [r.devices[i] EXCEPT !.anchored = b].id = r.devices[i].id
  BY <1>1 DEF Devices
<1>3. new \in Seq(Devices) /\ Len(new) = Len(r.devices)
  <2>1. new \in [1..Len(r.devices) -> Devices]
    BY <1>1, <1>2
  <2>. HIDE DEF new
  <2>. QED BY <1>1, <2>1, Listed
<1>4. SetAnchored(r, d, b) = [r EXCEPT !.devices = new]
  BY DEF SetAnchored
<1>5. \A i \in 1..Len(r.devices) :
            new[i] = IF r.devices[i].id = d THEN [r.devices[i] EXCEPT !.anchored = b] ELSE r.devices[i]
  BY <1>1
<1>. HIDE DEF new
<1>6. [r EXCEPT !.devices = new].devices = new
  BY <1>1
<1>7. \A i \in 1..Len(r.devices) : r.devices[i].id = d => new[i].x = r.devices[i].x /\ new[i].pinned = r.devices[i].pinned
  BY <1>1, <1>5 DEF Devices
<1>8. Changes(r, [r EXCEPT !.devices = new], d)
  BY <1>1, <1>2, <1>3, <1>5, <1>6 DEF Changes
<1>. QED BY <1>4, <1>6, <1>7, <1>8

LEMMA SetPinnedChanges == ASSUME NEW r, Shape(r), NEW d, NEW b \in BOOLEAN PROVE Changes(r, SetPinned(r, d, b), d)
<1> DEFINE new == [i \in DOMAIN r.devices |->
                    IF r.devices[i].id = d THEN [r.devices[i] EXCEPT !.pinned = b] ELSE r.devices[i]]
<1>1. /\ r \in [devices : Seq(Devices), targets : Seq(Targets), hands : [Hands -> HandStates], reported : {r.reported}]
      /\ DOMAIN r.devices = 1..Len(r.devices) /\ Len(r.devices) \in Nat
      /\ \A i \in 1..Len(r.devices) : r.devices[i] \in Devices
  BY DEF Shape
<1>2. \A i \in 1..Len(r.devices) : [r.devices[i] EXCEPT !.pinned = b] \in Devices
                                   /\ [r.devices[i] EXCEPT !.pinned = b].id = r.devices[i].id
  BY <1>1 DEF Devices
<1>3. new \in Seq(Devices) /\ Len(new) = Len(r.devices)
  <2>1. new \in [1..Len(r.devices) -> Devices]
    BY <1>1, <1>2
  <2>. HIDE DEF new
  <2>. QED BY <1>1, <2>1, Listed
<1>4. SetPinned(r, d, b) = [r EXCEPT !.devices = new]
  BY DEF SetPinned
<1>5. \A i \in 1..Len(r.devices) :
            new[i] = IF r.devices[i].id = d THEN [r.devices[i] EXCEPT !.pinned = b] ELSE r.devices[i]
  BY <1>1
<1>. HIDE DEF new
<1>. QED BY <1>1, <1>2, <1>3, <1>4, <1>5 DEF Changes

\* Whatever was changed of a device, its target made anew and the bridge told of it leave nothing to see to.
LEMMA SyncAndReport ==
    ASSUME NEW r, NEW d, Sound(r, {d}, {d}), d \in IdsOf(r.devices)
    PROVE  Sound(Report(Sync(r, d), d), {}, {}) /\ Keeps(r, Report(Sync(r, d), d))
           /\ Report(Sync(r, d), d).devices = r.devices
<1>1. Sound(Sync(r, d), {d} \ {d}, {d}) /\ Keeps(r, Sync(r, d)) /\ Sync(r, d).devices = r.devices
  BY SyncSound
<1>2. /\ Sound(Report(Sync(r, d), d), {d} \ {d}, {d} \ {d}) /\ Keeps(Sync(r, d), Report(Sync(r, d), d))
      /\ Report(Sync(r, d), d).devices = Sync(r, d).devices
  BY <1>1, ReportSound, ReportFacts DEF Sound
<1>3. {d} \ {d} = {}
  OBVIOUS
<1>. QED BY <1>1, <1>2, <1>3, KeepsOn

LEMMA OnPlacedSound ==
    ASSUME NEW r, Sound(r, {}, {}), NEW d, NEW x \in Int
    PROVE  Sound(OnPlaced(r, d, x), {}, {}) /\ Keeps(r, OnPlaced(r, d, x))
<1>1. CASE d \notin IdsOf(r.devices)
  BY <1>1 DEF OnPlaced, Keeps
<1>2. CASE d \in IdsOf(r.devices)
  <2> DEFINE p == SetPose(r, d, x)
             q == SetAnchored(p, d, TRUE)
  <2>1. /\ Sound(p, {} \cup {d}, {} \cup {d}) /\ Keeps(r, p) /\ IdsOf(p.devices) = IdsOf(r.devices)
    BY SetPoseChanges, ChangesSound DEF Sound
  <2>. HIDE DEF p
  <2>2. Changes(p, q, d)
    BY <2>1, SetAnchoredChanges DEF Sound
  <2>. HIDE DEF q
  <2>3. /\ Sound(q, {} \cup {d} \cup {d}, {} \cup {d} \cup {d}) /\ Keeps(p, q) /\ IdsOf(q.devices) = IdsOf(p.devices)
    BY <2>1, <2>2, ChangesSound
  <2>4. Sound(q, {d}, {d}) /\ Keeps(r, q) /\ d \in IdsOf(q.devices)
    BY <1>2, <2>1, <2>3, KeepsOn, Weaker
  <2>5. OnPlaced(r, d, x) = Report(Sync(q, d), d)
    BY <1>2 DEF OnPlaced, p, q
  <2>. QED BY <2>4, <2>5, SyncAndReport, KeepsOn
<1>. QED BY <1>1, <1>2

\* A hand carries what it holds: the device, its target with it.
LEMMA MoveTargetSound ==
    ASSUME NEW r, Sound(r, {}, {}), NEW h \in Hands, r.hands[h].held # 0, NEW x \in Int
    PROVE  LET q == MoveTarget(r, r.hands[h].held, x) IN
           Sound(q, {}, {}) /\ q.hands = r.hands /\ Len(q.targets) = Len(r.targets)
           /\ (\A i \in 1..Len(r.targets) : q.targets[i].id = r.targets[i].id)
<1> DEFINE at == r.hands[h].held
           d == r.targets[at].id
           moved == [r EXCEPT !.targets[at].x = x]
           p == SetPose(moved, d, x)
           q == SetAnchored(p, d, FALSE)
<1>0. /\ r \in [devices : Seq(Devices), targets : Seq(Targets), hands : [Hands -> HandStates], reported : {r.reported}]
      /\ Distinct(r.devices) /\ Distinct(r.targets) /\ Len(r.targets) \in Nat /\ at \in 1..Len(r.targets)
      /\ \A i \in 1..Len(r.targets) : r.targets[i] \in Targets
      /\ \A o \in Hands : r.hands[o].held <= Len(r.targets)
  BY DEF Sound, Shape, HandStates
<1>1. MoveTarget(r, at, x) = q
  BY DEF MoveTarget
<1>. HIDE DEF at
<1>2. /\ moved.devices = r.devices /\ moved.hands = r.hands /\ moved.reported = r.reported
      /\ moved.targets = [r.targets EXCEPT ![at].x = x]
      /\ moved = [r EXCEPT !.targets = moved.targets]
  BY <1>0
<1>3. /\ moved.targets \in Seq(Targets) /\ Len(moved.targets) = Len(r.targets)
      /\ moved.targets[at] = [r.targets[at] EXCEPT !.x = x]
      /\ \A i \in 1..Len(r.targets) : i # at => moved.targets[i] = r.targets[i]
      /\ \A i \in 1..Len(r.targets) : moved.targets[i].id = r.targets[i].id
  <2>1. [r.targets[at] EXCEPT !.x = x] \in Targets /\ [r.targets[at] EXCEPT !.x = x].id = r.targets[at].id
    BY <1>0 DEF Targets
  <2>. HIDE DEF moved
  <2>2. r.targets \in [1..Len(r.targets) -> Targets]
    BY <1>0
  <2>3. moved.targets \in [1..Len(r.targets) -> Targets]
    BY <1>0, <1>2, <2>1, <2>2
  <2>4. moved.targets \in Seq(Targets) /\ Len(moved.targets) = Len(r.targets)
    BY <1>0, <2>3, Listed
  <2>5. /\ moved.targets[at] = [r.targets[at] EXCEPT !.x = x]
        /\ \A i \in 1..Len(r.targets) : i # at => moved.targets[i] = r.targets[i]
    BY <1>0, <1>2, <2>2
  <2>. QED BY <2>1, <2>4, <2>5
<1>. HIDE DEF d, moved
<1>4. moved \in [devices : Seq(Devices), targets : Seq(Targets), hands : [Hands -> HandStates], reported : {moved.reported}]
  BY <1>0, <1>2, <1>3
<1>5. Shape(moved)
  BY <1>0, <1>2, <1>3, <1>4 DEF Shape, Distinct
<1>6. \A e : InHand(moved, e) <=> InHand(r, e)
  BY <1>2, <1>3 DEF InHand
<1>7. Sound(moved, {d}, {})
  <2>1. Told(moved, {})
    BY <1>2, <1>6 DEF Sound, Told
  <2>2. ASSUME NEW i \in 1..Len(moved.devices), moved.devices[i].id \notin {d}
        PROVE  \E j \in 1..Len(moved.targets) : moved.targets[j] = Target(moved.devices[i])
    <3>1. PICK j \in 1..Len(r.targets) : r.targets[j] = Target(r.devices[i])
      BY <1>2 DEF Sound, Copies
    <3>2. j # at
      BY <1>2, <2>2, <3>1 DEF d, Target
    <3>. QED BY <1>2, <1>3, <3>1, <3>2
  <2>3. ASSUME NEW j \in 1..Len(moved.targets), moved.targets[j].id \notin {d}
        PROVE  \E i \in 1..Len(moved.devices) : moved.targets[j] = Target(moved.devices[i])
    <3>1. j # at /\ j \in 1..Len(r.targets)
      BY <1>3, <2>3 DEF d
    <3>. QED BY <1>2, <1>3, <3>1 DEF Sound, Copies
  <2>4. Copies(moved, {d})
    BY <2>2, <2>3 DEF Copies
  <2>. QED BY <1>5, <2>1, <2>4 DEF Sound
<1>8. /\ Changes(moved, p, d)
      /\ \A i \in 1..Len(moved.devices) : moved.devices[i].id = d =>
            p.devices[i].x = x /\ p.devices[i].pinned = moved.devices[i].pinned
  BY <1>5, SetPoseChanges
<1>. HIDE DEF p
<1>9. Sound(p, {d} \cup {d}, {} \cup {d}) /\ p.targets = moved.targets /\ p.hands = moved.hands
  BY <1>7, <1>8, ChangesSound
<1>10. /\ Changes(p, q, d)
       /\ \A i \in 1..Len(p.devices) : p.devices[i].id = d =>
            q.devices[i].x = p.devices[i].x /\ q.devices[i].pinned = p.devices[i].pinned
  BY <1>9, SetAnchoredChanges DEF Sound
<1>. HIDE DEF q
<1>11. Sound(q, {d} \cup {d} \cup {d}, {} \cup {d} \cup {d}) /\ q.targets = p.targets /\ q.hands = p.hands
  BY <1>9, <1>10, ChangesSound
<1>12. Sound(q, {d}, {d})
  BY <1>11, Weaker
\* The device at the hand's target.
<1>13. PICK n \in 1..Len(r.devices) : r.targets[at] = Target(r.devices[n]) /\ r.devices[n] \in Devices
  <2>1. \E n \in 1..Len(r.devices) : r.targets[at] = Target(r.devices[n])
    BY <1>0 DEF Sound, Copies
  <2>. QED BY <1>0, <2>1
<1>14. r.devices[n].id = d /\ n \in 1..Len(q.devices) /\ Len(q.devices) = Len(r.devices)
  <2>1. Len(p.devices) = Len(r.devices) /\ Len(q.devices) = Len(p.devices)
    BY <1>2, <1>8, <1>10 DEF Changes
  <2>2. r.devices[n].id = d
    BY <1>13 DEF Target, d
  <2>. QED BY <1>13, <2>1, <2>2
<1>15. q.targets[at] = Target(q.devices[n]) /\ q.devices[n].id = d
  <2>1. p.devices[n].x = x /\ p.devices[n].pinned = r.devices[n].pinned
    BY <1>2, <1>8, <1>13, <1>14
  <2>2. p.devices[n].id = d /\ n \in 1..Len(p.devices)
    BY <1>2, <1>8, <1>13, <1>14 DEF Changes
  <2>3. q.devices[n].x = x /\ q.devices[n].pinned = r.devices[n].pinned /\ q.devices[n].id = d
    BY <1>10, <2>1, <2>2 DEF Changes
  <2>4. q.targets[at] = [r.targets[at] EXCEPT !.x = x]
    BY <1>3, <1>9, <1>11
  <2>5. r.targets[at] = [id |-> d, x |-> r.devices[n].x, pinned |-> r.devices[n].pinned]
    BY <1>13, <1>14 DEF Target
  <2>. QED BY <2>3, <2>4, <2>5 DEF Target
<1>16. Copies(q, {})
  <2>0. Distinct(q.devices) /\ Distinct(q.targets) /\ at \in 1..Len(q.targets) /\ q.targets[at].id = d
    BY <1>0, <1>3, <1>9, <1>11, <1>15 DEF Sound, Shape, Target
  <2>1. ASSUME NEW i \in 1..Len(q.devices) PROVE \E j \in 1..Len(q.targets) : q.targets[j] = Target(q.devices[i])
    <3>1. CASE q.devices[i].id = d
      <4>1. i = n
        BY <1>14, <1>15, <2>0, <3>1 DEF Distinct
      <4>. QED BY <1>15, <2>0, <4>1
    <3>2. CASE q.devices[i].id # d
      BY <1>12, <3>2 DEF Sound, Copies
    <3>. QED BY <3>1, <3>2
  <2>2. ASSUME NEW j \in 1..Len(q.targets) PROVE \E i \in 1..Len(q.devices) : q.targets[j] = Target(q.devices[i])
    <3>1. CASE q.targets[j].id = d
      <4>1. j = at
        BY <2>0, <3>1 DEF Distinct
      <4>. QED BY <1>14, <1>15, <4>1
    <3>2. CASE q.targets[j].id # d
      BY <1>12, <3>2 DEF Sound, Copies
    <3>. QED BY <3>1, <3>2
  <2>. QED BY <2>1, <2>2 DEF Copies
<1>17. Told(q, {})
  <2>1. InHand(q, d)
    <3>1. /\ q.hands[h].held = at /\ at \in 1..Len(q.targets) /\ q.targets[at].id = d
      <4>1. q.hands = r.hands /\ q.targets = moved.targets
        BY <1>2, <1>9, <1>11
      <4>2. q.targets[at].id = d
        BY <1>15 DEF Target
      <4>3. Len(q.targets) = Len(r.targets)
        BY <1>3, <4>1
      <4>. QED BY <1>0, <4>1, <4>2, <4>3 DEF at
    <3>. QED BY <3>1 DEF InHand
  <2>. QED BY <1>12, <2>1 DEF Sound, Told
<1>18. Sound(q, {}, {})
  BY <1>12, <1>16, <1>17 DEF Sound
<1>19. q.hands = r.hands /\ q.targets = moved.targets
  BY <1>2, <1>9, <1>11
<1>. QED BY <1>1, <1>3, <1>18, <1>19 DEF at

-----------------------------------------------------------------------------
(* A frame.                                                                *)

\* The nearest of some targets, the first of equals.
LEMMA Nearest ==
    ASSUME NEW near, near \subseteq Nat, near # {}, NEW D \in [near -> Nat]
    PROVE  \E i \in near : \A j \in near : D[i] < D[j] \/ (D[i] = D[j] /\ i <= j)
<1> DEFINE Ds == {D[i] : i \in near}
<1>1. PICK m \in Ds : \A n \in Ds : m <= n
  <2>1. Ds \subseteq Nat /\ Ds # {}
    OBVIOUS
  <2>. HIDE DEF Ds
  <2>. QED BY <2>1, LeastOf
<1> DEFINE Is == {i \in near : D[i] = m}
<1>2. PICK i \in Is : \A j \in Is : i <= j
  <2>1. Is \subseteq Nat /\ Is # {}
    BY <1>1
  <2>. HIDE DEF Is
  <2>. QED BY <2>1, LeastOf
<1>3. ASSUME NEW j \in near PROVE D[i] < D[j] \/ (D[i] = D[j] /\ i <= j)
  <2>1. D[i] = m /\ m <= D[j] /\ D[j] \in Nat /\ m \in Nat
    BY <1>1, <1>2
  <2>2. D[j] = m => i <= j
    BY <1>2
  <2>. QED BY <2>1, <2>2
<1>. QED BY <1>2, <1>3

\* Where the hand of an input is.
LEMMA InputPlace == ASSUME NEW in \in HandInput, in.gap # "open" PROVE in.at \in Int
<1>1. in \in [gap : {"near", "mid"}, at : Spots]
  <2>1. CASE in \in {[gap |-> "open"]}
    BY <2>1
  <2>. QED BY <2>1 DEF HandInput
<1>. QED BY <1>1, RoomAssumption

\* A hand takes a target of the list, or none.
LEMMA TryGrabSound ==
    ASSUME NEW r, Sound(r, {}, {}), NEW h \in Hands, NEW in, in.at \in Int, r.hands[h].held = 0
    PROVE  LET q == TryGrab(r, h, in) IN
           /\ Sound(q, {}, {}) /\ q.targets = r.targets /\ q.devices = r.devices
           /\ \A o \in Hands : o # h => q.hands[o] = r.hands[o]
<1> DEFINE near == {i \in DOMAIN r.targets : ~r.targets[i].pinned /\ Distance(r.targets[i].x, in.at) <= Reach}
           Better(i, j) == LET di == Distance(r.targets[i].x, in.at)
                               dj == Distance(r.targets[j].x, in.at)
                           IN  di < dj \/ (di = dj /\ i <= j)
           best == CHOOSE i \in near : \A j \in near : Better(i, j)
           hand == [r.hands[h] EXCEPT !.held = best, !.offset = r.targets[best].x - in.at]
           q == [r EXCEPT !.hands[h] = hand]
<1>0. /\ r \in [devices : Seq(Devices), targets : Seq(Targets), hands : [Hands -> HandStates], reported : {r.reported}]
      /\ Distinct(r.devices) /\ Distinct(r.targets)
      /\ DOMAIN r.targets = 1..Len(r.targets) /\ Len(r.targets) \in Nat
      /\ \A i \in 1..Len(r.targets) : r.targets[i] \in Targets
      /\ \A o \in Hands : r.hands[o].held <= Len(r.targets)
  BY DEF Sound, Shape
<1>10. \A i \in 1..Len(r.targets) : r.targets[i].x \in Int /\ Distance(r.targets[i].x, in.at) \in Nat
  <2>1. ASSUME NEW i \in 1..Len(r.targets) PROVE r.targets[i].x \in Int
    BY <1>0 DEF Targets
  <2>2. \A x, y \in Int : Distance(x, y) \in Nat
    BY DEF Distance
  <2>. QED BY <2>1, <2>2
<1>1. TryGrab(r, h, in) = IF near = {} THEN r ELSE q
  BY DEF TryGrab
<1>2. CASE near = {}
  BY <1>1, <1>2
<1>3. CASE near # {}
  <2>1. best \in near
    <3> DEFINE D == [i \in near |-> Distance(r.targets[i].x, in.at)]
    <3>1. near \subseteq 1..Len(r.targets) /\ near \subseteq Nat
      BY <1>0
    <3>. HIDE DEF near
    <3>2. D \in [near -> Nat]
      BY <1>10, <3>1
    <3>3. PICK i \in near : \A j \in near : D[i] < D[j] \/ (D[i] = D[j] /\ i <= j)
      <4>. HIDE DEF D
      <4>. QED BY <1>3, <3>1, <3>2, Nearest
    <3>4. \A j \in near : Better(i, j)
      BY <3>3
    <3>. HIDE DEF Better
    <3>. QED BY <3>4
  <2>2. best \in 1..Len(r.targets) /\ r.targets[best].x - in.at \in Int
    <3>. HIDE DEF best
    <3>1. best \in 1..Len(r.targets)
      BY <1>0, <2>1
    <3>2. r.targets[best].x \in Int
      BY <1>10, <3>1
    <3>. QED BY <3>1, <3>2
  <2>. HIDE DEF best, near
  <2>3. hand \in HandStates /\ hand.held = best
    <3>1. r.hands[h] \in HandStates /\ best \in Nat
      BY <1>0, <2>2
    <3>. QED BY <2>2, <3>1 DEF HandStates
  <2>. HIDE DEF hand
  <2>4. /\ q.devices = r.devices /\ q.targets = r.targets /\ q.reported = r.reported
        /\ q \in [devices : Seq(Devices), targets : Seq(Targets), hands : [Hands -> HandStates], reported : {q.reported}]
        /\ \A o \in Hands : o # h => q.hands[o] = r.hands[o]
        /\ q.hands[h].held = best
    BY <1>0, <2>3
  <2>. HIDE DEF q
  <2>5. \A o \in Hands : q.hands[o].held <= Len(q.targets)
    BY <1>0, <2>2, <2>4
  <2>6. Shape(q)
    BY <1>0, <2>4, <2>5 DEF Shape
  <2>7. \A e : InHand(r, e) => InHand(q, e)
    <3>1. ASSUME NEW e, NEW o \in Hands, NEW i \in 1..Len(r.targets), r.hands[o].held = i, r.targets[i].id = e
          PROVE  InHand(q, e)
      <4>1. o # h
        BY <3>1
      <4>. QED BY <2>4, <3>1, <4>1 DEF InHand
    <3>. QED BY <3>1 DEF InHand
  <2>8. Told(q, {}) /\ Copies(q, {})
    BY <2>4, <2>7 DEF Sound, Told, Copies
  <2>9. TryGrab(r, h, in) = q
    BY <1>1, <1>3
  <2>. QED BY <2>4, <2>6, <2>8, <2>9 DEF Sound
<1>. QED BY <1>2, <1>3

\* Only whether hands pinch was read.
LEMMA ReadPinchesSound ==
    ASSUME NEW r, Sound(r, {}, {}), NEW in, \A h \in Hands : in[h] \in HandInput
    PROVE  LET q == ReadPinches(r, in) IN
           /\ Sound(q, {}, {}) /\ q.targets = r.targets /\ q.devices = r.devices
           /\ \A h \in Hands : q.hands[h].held = r.hands[h].held
           /\ \A h \in Hands : q.hands[h].pinching => in[h].at \in Int
<1> DEFINE new == [h \in Hands |-> [r.hands[h] EXCEPT !.pinching = Pinches(r.hands[h], in[h])]]
           q == ReadPinches(r, in)
<1>0. /\ r \in [devices : Seq(Devices), targets : Seq(Targets), hands : [Hands -> HandStates], reported : {r.reported}]
      /\ Distinct(r.devices) /\ Distinct(r.targets)
      /\ \A o \in Hands : r.hands[o].held <= Len(r.targets)
  BY DEF Sound, Shape
<1>1. \A h \in Hands : /\ new[h] \in HandStates /\ new[h].held = r.hands[h].held
                       /\ new[h].pinching = Pinches(r.hands[h], in[h])
  <2>1. ASSUME NEW h \in Hands PROVE Pinches(r.hands[h], in[h]) \in BOOLEAN /\ r.hands[h] \in HandStates
    BY <1>0 DEF Pinches
  <2>. QED BY <2>1 DEF HandStates
<1>2. q = [r EXCEPT !.hands = new]
  BY DEF ReadPinches
<1>3. new \in [Hands -> HandStates]
  BY <1>1
<1>. HIDE DEF new, q
<1>4. /\ q.devices = r.devices /\ q.targets = r.targets /\ q.reported = r.reported /\ q.hands = new
      /\ q \in [devices : Seq(Devices), targets : Seq(Targets), hands : [Hands -> HandStates], reported : {q.reported}]
  BY <1>0, <1>2, <1>3
<1>5. Shape(q)
  BY <1>0, <1>1, <1>4 DEF Shape
<1>6. \A e : InHand(q, e) <=> InHand(r, e)
  BY <1>1, <1>4 DEF InHand
<1>7. Told(q, {}) /\ Copies(q, {})
  BY <1>4, <1>6 DEF Sound, Told, Copies
<1>8. ASSUME NEW h \in Hands, q.hands[h].pinching PROVE in[h].at \in Int
  <2>1. in[h].gap # "open"
    BY <1>1, <1>4, <1>8 DEF Pinches
  <2>. QED BY <2>1, InputPlace
<1>. QED BY <1>1, <1>4, <1>5, <1>7, <1>8 DEF Sound, q

LEMMA GraspSound ==
    ASSUME NEW r, Sound(r, {}, {}), NEW h \in Hands, NEW in, r.hands[h].pinching => in[h].at \in Int
    PROVE  LET q == Grasp(r, h, in) IN
           /\ Sound(q, {}, {}) /\ q.targets = r.targets /\ q.devices = r.devices
           /\ \A o \in Hands : o # h => q.hands[o] = r.hands[o]
           /\ q.hands[h].held # 0 => r.hands[h].pinching
           /\ q.hands[h].held # 0 /\ r.hands[h].held # 0 => q.hands[h].held = r.hands[h].held
<1>0. r.hands \in [Hands -> HandStates]
  BY DEF Sound, Shape
<1>1. CASE ~r.hands[h].pinching
  <2>1. Grasp(r, h, in) = ReleaseHand(r, h)
    BY <1>1 DEF Grasp
  <2>2. /\ Sound(ReleaseHand(r, h), {}, {})
        /\ ReleaseHand(r, h).devices = r.devices /\ ReleaseHand(r, h).targets = r.targets
        /\ ReleaseHand(r, h).hands = [r.hands EXCEPT ![h].held = 0]
    BY ReleaseHandSound
  <2>3. ReleaseHand(r, h).hands[h].held = 0 /\ \A o \in Hands : o # h => ReleaseHand(r, h).hands[o] = r.hands[o]
    BY <1>0, <2>2 DEF HandStates
  <2>. QED BY <2>1, <2>2, <2>3
<1>2. CASE r.hands[h].pinching /\ r.hands[h].held = 0
  <2>1. Grasp(r, h, in) = TryGrab(r, h, in[h])
    BY <1>2 DEF Grasp
  <2>. QED BY <1>2, <2>1, TryGrabSound
<1>3. CASE r.hands[h].pinching /\ r.hands[h].held # 0
  BY <1>3 DEF Grasp
<1>. QED BY <1>1, <1>2, <1>3

LEMMA LeavePinnedSound ==
    ASSUME NEW r, Sound(r, {}, {}), NEW h \in Hands
    PROVE  LET q == LeavePinned(r, h) IN
           /\ Sound(q, {}, {}) /\ q.targets = r.targets /\ q.devices = r.devices
           /\ \A o \in Hands : q.hands[o].held # 0 => q.hands[o].held = r.hands[o].held
<1>0. r.hands \in [Hands -> HandStates]
  BY DEF Sound, Shape
<1>1. /\ Sound(ReleaseHand(r, h), {}, {})
      /\ ReleaseHand(r, h).devices = r.devices /\ ReleaseHand(r, h).targets = r.targets
      /\ ReleaseHand(r, h).hands = [r.hands EXCEPT ![h].held = 0]
  BY ReleaseHandSound
<1>2. \A o \in Hands : ReleaseHand(r, h).hands[o].held # 0 => ReleaseHand(r, h).hands[o].held = r.hands[o].held
  BY <1>0, <1>1 DEF HandStates
<1>. QED BY <1>1, <1>2 DEF LeavePinned

\* What hands hold moves with them, and nothing else.
LEMMA MotionSound ==
    ASSUME NEW r, Sound(r, {}, {}), NEW in, \A h \in Hands : r.hands[h].held # 0 => in[h].at \in Int
    PROVE  LET q == Motion(r, in) IN
           /\ Sound(q, {}, {}) /\ q.hands = r.hands /\ Len(q.targets) = Len(r.targets)
           /\ \A i \in 1..Len(r.targets) : q.targets[i].id = r.targets[i].id
<1> DEFINE Pull(h) == in[h].at + r.hands[h].offset
           Carry(q, h) == IF q.hands[h].held = 0 THEN q ELSE MoveTarget(q, q.hands[h].held, Pull(h))
<1>0. 1 \in Hands /\ 2 \in Hands /\ \A h \in Hands : r.hands[h].held # 0 => Pull(h) \in Int
  BY DEF Sound, Shape, HandStates, Hands
<1>. HIDE DEF Pull
<1>1. CASE r.hands[1].held # 0 /\ r.hands[1].held = r.hands[2].held
  <2>1. Motion(r, in) = MoveTarget(r, r.hands[1].held, (Pull(1) + Pull(2)) \div 2)
    BY <1>1 DEF Motion, Pull
  <2>2. (Pull(1) + Pull(2)) \div 2 \in Int
    <3>1. Pull(1) \in Int /\ Pull(2) \in Int
      BY <1>0, <1>1
    <3>. QED BY <3>1
  <2>. QED BY <1>0, <1>1, <2>1, <2>2, MoveTargetSound
<1>2. CASE ~(r.hands[1].held # 0 /\ r.hands[1].held = r.hands[2].held)
  <2>1. Motion(r, in) = Carry(Carry(r, 1), 2)
    BY <1>2 DEF Motion, Pull
  <2>2. ASSUME NEW p, Sound(p, {}, {}), p.hands = r.hands, NEW h \in Hands
        PROVE  /\ Sound(Carry(p, h), {}, {}) /\ Carry(p, h).hands = r.hands /\ Len(Carry(p, h).targets) = Len(p.targets)
               /\ \A i \in 1..Len(p.targets) : Carry(p, h).targets[i].id = p.targets[i].id
    <3>1. CASE p.hands[h].held = 0
      BY <2>2, <3>1
    <3>2. CASE p.hands[h].held # 0
      <4>1. Carry(p, h) = MoveTarget(p, p.hands[h].held, Pull(h)) /\ Pull(h) \in Int
        BY <1>0, <2>2, <3>2
      <4>. QED BY <2>2, <3>2, <4>1, MoveTargetSound
    <3>. QED BY <3>1, <3>2
  <2> DEFINE p == Carry(r, 1)
  <2>3. /\ Sound(p, {}, {}) /\ p.hands = r.hands /\ Len(p.targets) = Len(r.targets)
        /\ \A i \in 1..Len(r.targets) : p.targets[i].id = r.targets[i].id
    BY <1>0, <2>2
  <2>4. /\ Sound(Carry(p, 2), {}, {}) /\ Carry(p, 2).hands = r.hands /\ Len(Carry(p, 2).targets) = Len(p.targets)
        /\ \A i \in 1..Len(p.targets) : Carry(p, 2).targets[i].id = p.targets[i].id
    <3>. HIDE DEF p, Carry
    <3>. QED BY <1>0, <2>2, <2>3
  <2>5. Motion(r, in) = Carry(p, 2)
    BY <2>1
  <2>. HIDE DEF p, Carry
  <2>. QED BY <2>3, <2>4, <2>5
<1>. QED BY <1>1, <1>2

\* Between a frame's inputs and its end hands let go or take hold, not both.
LEMMA GrabsSound ==
    ASSUME NEW r, Sound(r, {}, {}), NEW in, \A h \in Hands : in[h] \in HandInput
    PROVE  LET q == Grabs(r, in) IN
           /\ Sound(q, {}, {}) /\ Len(q.targets) = Len(r.targets)
           /\ \A i \in 1..Len(r.targets) : q.targets[i].id = r.targets[i].id
           /\ \A h \in Hands : q.hands[h].held # 0 /\ r.hands[h].held # 0 => q.hands[h].held = r.hands[h].held
<1> DEFINE a == ReadPinches(r, in)
           b == Grasp(a, 1, in)
           c == Grasp(b, 2, in)
           d == LeavePinned(c, 1)
           e == LeavePinned(d, 2)
<1>0. 1 \in Hands /\ 2 \in Hands /\ \A h \in Hands : h = 1 \/ h = 2
  BY DEF Hands
<1>1. /\ Sound(a, {}, {}) /\ a.targets = r.targets
      /\ \A h \in Hands : a.hands[h].held = r.hands[h].held
      /\ \A h \in Hands : a.hands[h].pinching => in[h].at \in Int
  BY ReadPinchesSound
<1>. HIDE DEF a
<1>2. /\ Sound(b, {}, {}) /\ b.targets = a.targets
      /\ \A o \in Hands : o # 1 => b.hands[o] = a.hands[o]
      /\ b.hands[1].held # 0 => a.hands[1].pinching
      /\ b.hands[1].held # 0 /\ a.hands[1].held # 0 => b.hands[1].held = a.hands[1].held
  BY <1>0, <1>1, GraspSound
<1>. HIDE DEF b
<1>3. /\ Sound(c, {}, {}) /\ c.targets = b.targets
      /\ \A o \in Hands : o # 2 => c.hands[o] = b.hands[o]
      /\ c.hands[2].held # 0 => b.hands[2].pinching
      /\ c.hands[2].held # 0 /\ b.hands[2].held # 0 => c.hands[2].held = b.hands[2].held
  BY <1>0, <1>1, <1>2, GraspSound
<1>. HIDE DEF c
<1>4. /\ Sound(d, {}, {}) /\ d.targets = c.targets
      /\ \A o \in Hands : d.hands[o].held # 0 => d.hands[o].held = c.hands[o].held
  BY <1>0, <1>3, LeavePinnedSound
<1>. HIDE DEF d
<1>5. /\ Sound(e, {}, {}) /\ e.targets = d.targets
      /\ \A o \in Hands : e.hands[o].held # 0 => e.hands[o].held = d.hands[o].held
  BY <1>0, <1>4, LeavePinnedSound
<1>. HIDE DEF e
<1>6. \A h \in Hands : e.hands[h].held # 0 => in[h].at \in Int
  BY <1>0, <1>1, <1>2, <1>3, <1>4, <1>5
<1>7. \A h \in Hands : e.hands[h].held # 0 /\ r.hands[h].held # 0 => e.hands[h].held = r.hands[h].held
  BY <1>0, <1>1, <1>2, <1>3, <1>4, <1>5
<1>8. Grabs(r, in) = Motion(e, in)
  BY DEF Grabs, a, b, c, d, e
<1>9. LET q == Motion(e, in) IN
      /\ Sound(q, {}, {}) /\ q.hands = e.hands /\ Len(q.targets) = Len(e.targets)
      /\ \A i \in 1..Len(e.targets) : q.targets[i].id = e.targets[i].id
  BY <1>5, <1>6, MotionSound
<1>. QED BY <1>1, <1>2, <1>3, <1>4, <1>5, <1>7, <1>8, <1>9

\* Surfaces found for several devices, one after the other.
LEMMA PlaceAllSound ==
    ASSUME NEW r, Sound(r, {}, {}), NEW s, Len(s) \in Nat, \A i \in 1..Len(s) : s[i].x \in Int, NEW which
    PROVE  Sound(PlaceAll(r, s, which), {}, {}) /\ Keeps(r, PlaceAll(r, s, which))
<1> DEFINE n == Len(s)
           Step(p, i) == IF i \in which THEN OnPlaced(p, s[i].id, s[i].x) ELSE p
           Runs(g, k) == g = [i \in 0..k |-> IF i = 0 THEN r ELSE Step(g[i - 1], i)]
           Good(k) == \E g : Runs(g, k)
           after == CHOOSE g : Runs(g, n)
<1>1. Good(0)
  <2>1. Runs([i \in 0..0 |-> r], 0)
    OBVIOUS
  <2>. HIDE DEF Runs
  <2>. QED BY <2>1
<1>2. ASSUME NEW k \in Nat, Good(k) PROVE Good(k + 1)
  <2>1. PICK g : Runs(g, k)
    BY <1>2
  <2> DEFINE more == [i \in 0..k + 1 |-> IF i = k + 1 THEN Step(g[k], k + 1) ELSE g[i]]
  <2>. HIDE DEF Step
  <2>2. ASSUME NEW i \in 0..k + 1 PROVE more[i] = IF i = 0 THEN r ELSE Step(more[i - 1], i)
    <3>1. CASE i = 0
      BY <2>1, <3>1
    <3>2. CASE i = k + 1
      <4>1. i # 0 /\ i - 1 = k /\ k \in 0..k + 1 /\ k # k + 1
        BY <3>2
      <4>. QED BY <3>2, <4>1
    <3>3. CASE i # 0 /\ i # k + 1
      <4>1. i \in 0..k /\ i - 1 \in 0..k + 1 /\ i - 1 # k + 1
        BY <3>3
      <4>. QED BY <2>1, <3>3, <4>1
    <3>. QED BY <3>1, <3>2, <3>3
  <2>3. Runs(more, k + 1)
    BY <2>2
  <2>. HIDE DEF Runs, more
  <2>. QED BY <2>3
<1>3. Good(n)
  <2> DEFINE T == {k \in Nat : ~Good(k)}
  <2>. HIDE DEF Good
  <2>1. SUFFICES ASSUME T # {} PROVE FALSE
    OBVIOUS
  <2>2. PICK k \in T : \A l \in T : k <= l
    <3>1. T \subseteq Nat
      OBVIOUS
    <3>. HIDE DEF T
    <3>. QED BY <2>1, <3>1, LeastOf
  <2>3. k - 1 \in Nat /\ ~(k <= k - 1)
    BY <1>1, <2>2
  <2>4. Good(k - 1)
    BY <2>2, <2>3
  <2>5. Good((k - 1) + 1)
    BY <1>2, <2>3, <2>4
  <2>. QED BY <2>2, <2>5
<1>4. PlaceAll(r, s, which) = after[n]
  BY DEF PlaceAll
<1>5. Runs(after, n)
  <2>. HIDE DEF Runs
  <2>. QED BY <1>3
<1>. HIDE DEF after
<1>6. after[0] = r /\ \A i \in 1..n : after[i] = Step(after[i - 1], i)
  <2>. HIDE DEF Step
  <2>. QED BY <1>5
<1> DEFINE Fine(k) == Sound(after[k], {}, {}) /\ Keeps(r, after[k])
<1>7. ASSUME NEW k \in 1..n, Fine(k - 1) PROVE Fine(k)
  <2>1. CASE k \in which
    <3>1. after[k] = OnPlaced(after[k - 1], s[k].id, s[k].x)
      BY <1>6, <2>1
    <3>. QED BY <1>7, <3>1, OnPlacedSound, KeepsOn
  <2>2. CASE k \notin which
    <3>1. after[k] = after[k - 1]
      BY <1>6, <2>2
    <3>. QED BY <1>7, <3>1
  <2>. QED BY <2>1, <2>2
<1>8. Fine(0)
  BY <1>6 DEF Keeps
<1>9. Fine(n)
  <2> DEFINE T == {k \in 0..n : ~Fine(k)}
  <2>. HIDE DEF Fine
  <2>1. SUFFICES ASSUME T # {} PROVE FALSE
    OBVIOUS
  <2>2. PICK k \in T : \A l \in T : k <= l
    <3>1. T \subseteq Nat
      OBVIOUS
    <3>. HIDE DEF T
    <3>. QED BY <2>1, <3>1, LeastOf
  <2>3. k \in 1..n /\ ~(k <= k - 1) /\ k - 1 \in 0..n
    BY <1>8, <2>2
  <2>4. Fine(k - 1)
    BY <2>2, <2>3
  <2>. QED BY <1>7, <2>2, <2>3, <2>4
<1>. QED BY <1>4, <1>9

-----------------------------------------------------------------------------
(* Requests and anchors.                                                   *)

Places == [id : Nat, x : Int]

\* What Rest() leaves out was answered.
LEMMA RestFacts ==
    ASSUME pending \in Seq(Places), Distinct(pending), NEW answered
    PROVE  /\ Rest(answered) \in Seq(Places) /\ Distinct(Rest(answered))
           /\ IdsOf(pending) \subseteq IdsOf(Rest(answered)) \cup answered
<1> DEFINE n == Len(pending)
           Step(p, i) == IF pending[i].id \in answered THEN p ELSE Append(p, pending[i])
           Runs(g, k) == g = [i \in 0..k |-> IF i = 0 THEN <<>> ELSE Step(g[i - 1], i)]
           Good(k) == \E g : Runs(g, k)
           kept == CHOOSE g : Runs(g, n)
<1>0. n \in Nat /\ \A i \in 1..n : pending[i] \in Places
  OBVIOUS
<1>. HIDE DEF n
<1>1. Good(0)
  <2>1. Runs([i \in 0..0 |-> <<>>], 0)
    OBVIOUS
  <2>. HIDE DEF Runs
  <2>. QED BY <2>1
<1>2. ASSUME NEW k \in Nat, Good(k) PROVE Good(k + 1)
  <2>1. PICK g : Runs(g, k)
    BY <1>2
  <2> DEFINE more == [i \in 0..k + 1 |-> IF i = k + 1 THEN Step(g[k], k + 1) ELSE g[i]]
  <2>. HIDE DEF Step
  <2>2. ASSUME NEW i \in 0..k + 1 PROVE more[i] = IF i = 0 THEN <<>> ELSE Step(more[i - 1], i)
    <3>1. CASE i = 0
      BY <2>1, <3>1
    <3>2. CASE i = k + 1
      <4>1. i # 0 /\ i - 1 = k /\ k \in 0..k + 1 /\ k # k + 1
        BY <3>2
      <4>. QED BY <3>2, <4>1
    <3>3. CASE i # 0 /\ i # k + 1
      <4>1. i \in 0..k /\ i - 1 \in 0..k + 1 /\ i - 1 # k + 1
        BY <3>3
      <4>. QED BY <2>1, <3>3, <4>1
    <3>. QED BY <3>1, <3>2, <3>3
  <2>3. Runs(more, k + 1)
    BY <2>2
  <2>. HIDE DEF Runs, more
  <2>. QED BY <2>3
<1>3. Good(n)
  <2> DEFINE T == {k \in Nat : ~Good(k)}
  <2>. HIDE DEF Good
  <2>1. SUFFICES ASSUME T # {} PROVE FALSE
    BY <1>0
  <2>2. PICK k \in T : \A l \in T : k <= l
    <3>1. T \subseteq Nat
      OBVIOUS
    <3>. HIDE DEF T
    <3>. QED BY <2>1, <3>1, LeastOf
  <2>3. k - 1 \in Nat /\ ~(k <= k - 1)
    BY <1>1, <2>2
  <2>4. Good(k - 1)
    BY <2>2, <2>3
  <2>5. Good((k - 1) + 1)
    BY <1>2, <2>3, <2>4
  <2>. QED BY <2>2, <2>5
<1>4. Rest(answered) = kept[n]
  BY DEF Rest, n
<1>5. Runs(kept, n)
  <2>. HIDE DEF Runs
  <2>. QED BY <1>3
<1>. HIDE DEF kept
<1>6. kept[0] = <<>> /\ \A i \in 1..n : kept[i] = Step(kept[i - 1], i)
  <2>. HIDE DEF Step
  <2>. QED BY <1>0, <1>5
<1> DEFINE Fine(k) ==
               LET q == kept[k] IN
               /\ q \in Seq(Places) /\ Distinct(q)
               /\ \A j \in 1..Len(q) : \E i \in 1..k : q[j] = pending[i]
               /\ \A i \in 1..k : pending[i].id \notin answered => \E j \in 1..Len(q) : q[j] = pending[i]
<1>7. ASSUME NEW k \in 1..n, Fine(k - 1) PROVE Fine(k)
  <2> DEFINE p == kept[k - 1]
             q == kept[k]
  <2>0. \A i \in 1..k : i \in 1..k - 1 \/ i = k
    BY <1>0
  <2>1. CASE pending[k].id \in answered
    <3>1. q = p
      BY <1>6, <2>1
    <3>2. /\ p \in Seq(Places) /\ Distinct(p)
          /\ \A j \in 1..Len(p) : \E i \in 1..k : p[j] = pending[i]
      BY <1>7, <1>0
    <3>3. \A i \in 1..k : pending[i].id \notin answered => \E j \in 1..Len(p) : p[j] = pending[i]
      BY <1>7, <2>0, <2>1
    <3>. QED BY <3>1, <3>2, <3>3
  <2>2. CASE pending[k].id \notin answered
    <3>1. q = Append(p, pending[k])
      BY <1>6, <2>2
    <3>2. p \in Seq(Places) /\ pending[k] \in Places
      BY <1>0, <1>7
    <3>. HIDE DEF p, q
    <3>3. /\ q \in Seq(Places) /\ Len(q) = Len(p) + 1 /\ Len(p) \in Nat /\ q[Len(p) + 1] = pending[k]
          /\ \A j \in 1..Len(p) : q[j] = p[j]
      BY <3>1, <3>2, AppendFacts
    <3>4. \A j \in 1..Len(q) : j \in 1..Len(p) \/ j = Len(p) + 1
      BY <3>3
    <3>5. \A j \in 1..Len(p) : \E i \in 1..k - 1 : p[j] = pending[i]
      BY <1>7 DEF p
    <3>6. \A j \in 1..Len(p) : p[j].id # pending[k].id
      <4>1. ASSUME NEW j \in 1..Len(p), p[j].id = pending[k].id PROVE FALSE
        <5>1. PICK i \in 1..k - 1 : p[j] = pending[i]
          BY <3>5
        <5>2. i \in 1..n /\ k \in 1..n /\ i # k
          BY <1>0
        <5>. QED BY <4>1, <5>1, <5>2 DEF Distinct, n
      <4>. QED BY <4>1
    <3>7. Distinct(q)
      <4>1. Distinct(p)
        BY <1>7 DEF p
      <4>. QED BY <3>3, <3>4, <3>6, <4>1 DEF Distinct
    <3>8. \A j \in 1..Len(q) : \E i \in 1..k : q[j] = pending[i]
      BY <1>0, <3>3, <3>4, <3>5
    <3>9. \A i \in 1..k : pending[i].id \notin answered => \E j \in 1..Len(q) : q[j] = pending[i]
      <4>1. ASSUME NEW i \in 1..k - 1, pending[i].id \notin answered PROVE \E j \in 1..Len(q) : q[j] = pending[i]
        <5>1. PICK j \in 1..Len(p) : p[j] = pending[i]
          BY <1>7, <4>1 DEF p
        <5>. QED BY <3>3, <5>1
      <4>2. \E j \in 1..Len(q) : q[j] = pending[k]
        BY <3>3
      <4>. QED BY <2>0, <4>1, <4>2
    <3>. QED BY <3>3, <3>7, <3>8, <3>9 DEF q
  <2>. QED BY <2>1, <2>2
<1>8. Fine(0)
  BY <1>6 DEF Distinct
<1>9. Fine(n)
  <2> DEFINE T == {k \in 0..n : ~Fine(k)}
  <2>. HIDE DEF Fine
  <2>1. SUFFICES ASSUME T # {} PROVE FALSE
    BY <1>0
  <2>2. PICK k \in T : \A l \in T : k <= l
    <3>1. T \subseteq Nat
      BY <1>0
    <3>. HIDE DEF T
    <3>. QED BY <2>1, <3>1, LeastOf
  <2>3. k \in 1..n /\ ~(k <= k - 1) /\ k - 1 \in 0..n
    BY <1>0, <1>8, <2>2
  <2>4. Fine(k - 1)
    BY <2>2, <2>3
  <2>. QED BY <1>7, <2>2, <2>3, <2>4
<1>10. IdsOf(pending) \subseteq IdsOf(kept[n]) \cup answered
  <2>1. ASSUME NEW d \in IdsOf(pending), d \notin answered PROVE d \in IdsOf(kept[n])
    <3>1. PICK i \in 1..n : pending[i].id = d
      BY InList DEF n
    <3>2. PICK j \in 1..Len(kept[n]) : kept[n][j] = pending[i]
      BY <1>9, <2>1, <3>1
    <3>3. kept[n] \in Seq(Places)
      BY <1>9
    <3>. QED BY <3>1, <3>2, <3>3, InList
  <2>. QED BY <2>1
<1>. QED BY <1>4, <1>9, <1>10

-----------------------------------------------------------------------------
(* The invariant of the room, kept by every action, and what a step of one *)
(* does to hands and requests.                                             *)

RoomInv ==
    /\ Sound(room, {}, {})
    /\ pending \in Seq(Places) /\ Distinct(pending)
    /\ anchors \in Seq(Places) /\ Distinct(anchors)
    /\ creating \subseteq Places

\* Hands that hold something in both r and q hold the same in them.
Same(r, q) ==
    \A h \in Hands : r.hands[h].held # 0 /\ q.hands[h].held # 0 =>
        q.targets[q.hands[h].held].id = r.targets[r.hands[h].held].id

\* Requests that end in this step were answered.
Answers ==
    \A d \in IdsOf(pending) \ IdsOf(pending') :
        Answered(d) \/ \E a \in creating \ creating' : a.id = d

LEMMA KeepsSame == ASSUME NEW r, NEW q, Keeps(r, q) PROVE Same(r, q)
  BY DEF Keeps, Same

LEMMA RoomStart == RoomInit => RoomInv
<1> SUFFICES ASSUME RoomInit PROVE RoomInv
  OBVIOUS
<1> DEFINE devs == [d \in Ids |-> Device(d)]
           tgts == [d \in Ids |-> Target(Device(d))]
<1>0. MaxId \in Nat /\ Ids = 1..MaxId
  BY RoomAssumption DEF Ids
<1>1. \A d \in 1..MaxId : Device(d) \in Devices /\ Target(Device(d)) \in Targets
  BY <1>0 DEF Device, Target, Home, Devices, Targets
<1>2. /\ devs \in Seq(Devices) /\ Len(devs) = MaxId /\ \A d \in 1..MaxId : devs[d] = Device(d)
      /\ tgts \in Seq(Targets) /\ Len(tgts) = MaxId /\ \A d \in 1..MaxId : tgts[d] = Target(Device(d))
  <2>1. devs \in [1..MaxId -> Devices] /\ tgts \in [1..MaxId -> Targets]
    BY <1>0, <1>1
  <2>2. \A d \in 1..MaxId : devs[d] = Device(d) /\ tgts[d] = Target(Device(d))
    BY <1>0
  <2>. HIDE DEF devs, tgts
  <2>. QED BY <1>0, <2>1, <2>2, Listed
<1> DEFINE none == [h \in Hands |-> [pinching |-> FALSE, held |-> 0, offset |-> 0]]
<1>8. none \in [Hands -> HandStates] /\ \A h \in Hands : none[h].held = 0
  BY DEF HandStates
<1>9. room = [[devices |-> <<>>, targets |-> <<>>, hands |-> none, reported |-> [d \in {} |-> 0]]
                 EXCEPT !.devices = devs, !.targets = tgts]
  BY DEF RoomInit, Fresh
<1>. HIDE DEF devs, tgts, none
<1>3. /\ room.devices = devs /\ room.targets = tgts
      /\ room.hands \in [Hands -> HandStates] /\ \A h \in Hands : room.hands[h].held = 0
      /\ room = [devices |-> room.devices, targets |-> room.targets, hands |-> room.hands, reported |-> room.reported]
  BY <1>8, <1>9
<1>4. Shape(room)
  <2>1. Distinct(room.devices) /\ Distinct(room.targets)
    BY <1>2, <1>3 DEF Distinct, Device, Target
  <2>2. \A h \in Hands : room.hands[h].held <= Len(room.targets)
    BY <1>0, <1>2, <1>3
  <2>. QED BY <1>2, <1>3, <2>1, <2>2 DEF Shape
<1>5. Copies(room, {})
  BY <1>2, <1>3 DEF Copies
<1>6. Told(room, {})
  <2>1. \A i \in 1..Len(room.devices) : ~room.devices[i].placed
    BY <1>2, <1>3 DEF Device
  <2>. QED BY <2>1 DEF Told
<1>7. /\ pending \in Seq(Places) /\ Distinct(pending)
      /\ anchors \in Seq(Places) /\ Distinct(anchors)
      /\ creating \subseteq Places
  BY DEF RoomInit, Distinct
<1>. QED BY <1>4, <1>5, <1>6, <1>7 DEF RoomInv, Sound

LEMMA DriftedFacts ==
    ASSUME RoomInv, NEW drift \in Drifts, NEW r
    PROVE  /\ Drifted(r, drift) \in Seq(Places) /\ Distinct(Drifted(r, drift))
           /\ \A i \in 1..Len(Drifted(r, drift)) : Drifted(r, drift)[i].x \in Int
<1> DEFINE moved == Moved(r, drift)
           q == Drifted(r, drift)
           n == Len(anchors)
<1>0. /\ n \in Nat /\ DOMAIN anchors = 1..n /\ Distinct(anchors)
      /\ \A i \in 1..n : anchors[i] \in Places
  BY DEF RoomInv
<1>. HIDE DEF n
<1>1. \A i \in moved : drift[i] \in Int
  <2>1. \A i \in DOMAIN drift : drift[i] \in Spots
    BY DEF Drifts
  <2>. QED BY <2>1, RoomAssumption DEF Moved
<1>2. q = [i \in 1..n |-> IF i \in moved THEN [anchors[i] EXCEPT !.x = drift[i]] ELSE anchors[i]]
  BY <1>0 DEF Drifted
<1>. HIDE DEF moved, q
<1>3. \A i \in 1..n : q[i] \in Places /\ q[i].id = anchors[i].id
  BY <1>0, <1>1, <1>2 DEF Places
<1>4. q \in Seq(Places) /\ Len(q) = n
  <2>1. q \in [1..n -> Places]
    BY <1>2, <1>3
  <2>. QED BY <1>0, <2>1, Listed
<1>5. Distinct(q)
  BY <1>0, <1>3, <1>4 DEF Distinct, n
<1>. QED BY <1>3, <1>4, <1>5 DEF q, Places

LEMMA FrameStep ==
    ASSUME RoomInv, NEW in, \A h \in Hands : in[h] \in HandInput, NEW drift \in Drifts, NEW found,
           NEW late, Frame(in, drift, found, late)
    PROVE  RoomInv' /\ Same(room, room') /\ Answers
<1> DEFINE r == Grabs(room, in)
           f == Follow(r, drift)
           left == Waiting(r, found)
<1>0. /\ room' = Resolve(f, found) /\ anchors' = Drifted(r, drift)
      /\ creating' = creating \cup {p \in ToSet(pending) : p.id \in found}
      /\ pending' = IF late THEN <<>> ELSE left
      /\ failed' = IF late THEN IdsOf(left) ELSE {}
  BY DEF Frame
<1>1. Sound(room, {}, {}) /\ pending \in Seq(Places) /\ Distinct(pending) /\ creating \subseteq Places
  BY DEF RoomInv
<1>2. Sound(r, {}, {}) /\ Same(room, r)
  <2>1. /\ Sound(r, {}, {}) /\ Len(r.targets) = Len(room.targets)
        /\ \A i \in 1..Len(room.targets) : r.targets[i].id = room.targets[i].id
        /\ \A h \in Hands : r.hands[h].held # 0 /\ room.hands[h].held # 0 => r.hands[h].held = room.hands[h].held
    BY <1>1, GrabsSound
  <2>2. \A h \in Hands : room.hands[h].held # 0 => room.hands[h].held \in 1..Len(room.targets)
    BY <1>1 DEF Sound, Shape, HandStates
  <2>. HIDE DEF r
  <2>. QED BY <2>1, <2>2 DEF Same
<1>. HIDE DEF r
<1>3. Sound(f, {}, {}) /\ Keeps(r, f)
  BY <1>2, DriftedFacts, PlaceAllSound DEF Follow
<1>. HIDE DEF f
<1>4. Sound(room', {}, {}) /\ Keeps(f, room')
  <2>1. Len(pending) \in Nat /\ \A i \in 1..Len(pending) : pending[i].x \in Int
    <3>1. Len(pending) \in Nat /\ \A i \in 1..Len(pending) : pending[i] \in Places
      BY <1>1
    <3>. QED BY <3>1 DEF Places
  <2>. QED BY <1>0, <1>3, <2>1, PlaceAllSound DEF Resolve
<1>5. Same(room, room')
  BY <1>2, <1>3, <1>4 DEF Same, Keeps
<1>6. left \in Seq(Places) /\ Distinct(left) /\ IdsOf(pending) \subseteq IdsOf(left) \cup found
  BY <1>1, RestFacts DEF Waiting
<1>. HIDE DEF left
<1>7. pending' \in Seq(Places) /\ Distinct(pending')
  BY <1>0, <1>6 DEF Distinct
<1>8. creating' \subseteq Places
  <2>1. ToSet(pending) \subseteq Places
    BY <1>1 DEF ToSet
  <2>. QED BY <1>0, <1>1, <2>1
<1>9. Answers
  <2>1. ASSUME NEW d \in IdsOf(pending) \ IdsOf(pending') PROVE Answered(d)
    <3>1. CASE d \in IdsOf(left)
      BY <1>0, <2>1, <3>1 DEF Answered
    <3>2. CASE d \in found
      <4>1. Find(pending, d).id = d /\ Find(pending, d) \in ToSet(pending)
        BY <1>1, <2>1, InList
      <4>. QED BY <1>0, <3>2, <4>1 DEF Answered
    <3>. QED BY <1>6, <2>1, <3>1, <3>2
  <2>. QED BY <2>1 DEF Answers
<1>10. RoomInv'
  BY <1>0, <1>4, <1>7, <1>8, DriftedFacts DEF RoomInv
<1>. QED BY <1>5, <1>9, <1>10

\* The actions that touch one device and no request.
LEMMA DeviceStep ==
    ASSUME RoomInv, NEW d \in Ids,
           \/ Appear(d) \/ PinDevice(d)
           \/ \E x \in Spots, pinned \in BOOLEAN : Adopt(d, x, pinned)
    PROVE  RoomInv' /\ Same(room, room') /\ Answers
<1>0. Sound(room, {}, {}) /\ UNCHANGED surfaces
  BY DEF RoomInv, Appear, PinDevice, Adopt
<1>1. ASSUME Appear(d) PROVE Sound(room', {}, {}) /\ Same(room, room')
  <2> DEFINE devs == Append(room.devices, Device(d))
             p == [room EXCEPT !.devices = Append(@, Device(d))]
  <2>0. /\ room \in [devices : Seq(Devices), targets : Seq(Targets), hands : [Hands -> HandStates], reported : {room.reported}]
        /\ Distinct(room.devices) /\ Distinct(room.targets) /\ Len(room.devices) \in Nat
        /\ \A h \in Hands : room.hands[h].held <= Len(room.targets)
    BY <1>0 DEF Sound, Shape
  <2>1. /\ room' = Register(p, d) /\ d \notin IdsOf(room.devices)
        /\ Device(d) \in Devices /\ Device(d).id = d /\ ~Device(d).placed
    <3>1. d \in Nat
      BY RoomAssumption DEF Ids
    <3>. QED BY <1>1, <3>1 DEF Appear, Device, Devices, Home
  <2>2. /\ devs \in Seq(Devices) /\ Len(devs) = Len(room.devices) + 1
        /\ \A i \in 1..Len(room.devices) : devs[i] = room.devices[i]
        /\ devs[Len(room.devices) + 1] = Device(d)
    BY <2>0, <2>1, AppendFacts
  <2>3. p = [room EXCEPT !.devices = devs]
    OBVIOUS
  <2>. HIDE DEF devs, p
  <2>4. /\ p.devices = devs /\ p.targets = room.targets /\ p.hands = room.hands /\ p.reported = room.reported
        /\ p \in [devices : Seq(Devices), targets : Seq(Targets), hands : [Hands -> HandStates], reported : {p.reported}]
    BY <2>0, <2>2, <2>3
  <2>5. \A i \in 1..Len(room.devices) : room.devices[i].id # d
    BY <2>0, <2>1, InList
  <2>6. \A i \in 1..Len(devs) : i \in 1..Len(room.devices) \/ i = Len(room.devices) + 1
    BY <2>0, <2>2
  <2>7. Distinct(devs)
    BY <2>0, <2>1, <2>2, <2>5, <2>6 DEF Distinct
  <2>8. Shape(p)
    BY <2>0, <2>4, <2>7 DEF Shape
  <2>9. Copies(p, {d})
    <3>1. ASSUME NEW i \in 1..Len(p.devices), p.devices[i].id \notin {d}
          PROVE  \E j \in 1..Len(p.targets) : p.targets[j] = Target(p.devices[i])
      <4>1. i \in 1..Len(room.devices) /\ p.devices[i] = room.devices[i]
        BY <2>1, <2>2, <2>4, <2>6, <3>1
      <4>. QED BY <1>0, <2>4, <4>1 DEF Sound, Copies
    <3>2. ASSUME NEW j \in 1..Len(p.targets)
          PROVE  \E i \in 1..Len(p.devices) : p.targets[j] = Target(p.devices[i])
      <4>1. PICK i \in 1..Len(room.devices) : p.targets[j] = Target(room.devices[i])
        BY <1>0, <2>4 DEF Sound, Copies
      <4>2. i \in 1..Len(p.devices) /\ p.devices[i] = room.devices[i]
        BY <2>0, <2>2, <2>4
      <4>. QED BY <4>1, <4>2
    <3>. QED BY <3>1, <3>2 DEF Copies
  <2>10. Told(p, {})
    <3>1. \A e : InHand(p, e) <=> InHand(room, e)
      BY <2>4 DEF InHand
    <3>2. ASSUME NEW i \in 1..Len(p.devices), p.devices[i].placed
          PROVE  i \in 1..Len(room.devices) /\ p.devices[i] = room.devices[i]
      BY <2>1, <2>2, <2>4, <2>6, <3>2
    <3>. QED BY <1>0, <2>4, <3>1, <3>2 DEF Sound, Told
  <2>11. d \in IdsOf(p.devices) /\ d \notin IdsOf(p.targets)
    <3>1. d \in IdsOf(p.devices)
      <4>1. Len(room.devices) + 1 \in 1..Len(p.devices) /\ p.devices[Len(room.devices) + 1].id = d
        BY <2>0, <2>1, <2>2, <2>4
      <4>. QED BY <2>2, <2>4, <4>1, InList
    <3>2. ASSUME NEW j \in 1..Len(p.targets), p.targets[j].id = d PROVE FALSE
      <4>1. PICK i \in 1..Len(room.devices) : p.targets[j] = Target(room.devices[i])
        BY <1>0, <2>4 DEF Sound, Copies
      <4>. QED BY <2>5, <3>2, <4>1 DEF Target
    <3>. QED BY <2>0, <2>4, <3>1, <3>2, InList
  <2>12. Sound(Register(p, d), {} \ {d}, {}) /\ Keeps(p, Register(p, d))
    <3>1. Sound(p, {} \cup {d}, {})
      BY <2>8, <2>9, <2>10 DEF Sound
    <3>. QED BY <2>11, <3>1, RegisterSound
  <2>13. Sound(room', {}, {}) /\ Keeps(p, room')
    <3>1. {} \ {d} = {}
      OBVIOUS
    <3>. QED BY <2>1, <2>12, <3>1
  <2>. QED BY <2>4, <2>13 DEF Keeps, Same
<1>2. ASSUME PinDevice(d) PROVE Sound(room', {}, {}) /\ Same(room, room')
  <2> DEFINE b == ~Find(room.devices, d).pinned
             p == SetPinned(room, d, b)
  <2>1. room' = Report(Sync(p, d), d) /\ d \in IdsOf(room.devices)
    BY <1>2 DEF PinDevice
  <2>2. b \in BOOLEAN
    OBVIOUS
  <2>3. Changes(room, p, d)
    <3>. HIDE DEF b
    <3>. QED BY <1>0, <2>2, SetPinnedChanges DEF Sound
  <2>. HIDE DEF p
  <2>4. Sound(p, {} \cup {d}, {} \cup {d}) /\ Keeps(room, p) /\ IdsOf(p.devices) = IdsOf(room.devices)
    BY <1>0, <2>3, ChangesSound
  <2>5. Sound(p, {d}, {d}) /\ d \in IdsOf(p.devices)
    BY <2>1, <2>4, Weaker
  <2>. QED BY <2>1, <2>4, <2>5, SyncAndReport, KeepsOn, KeepsSame
<1>3. ASSUME NEW x \in Spots, NEW pinned \in BOOLEAN, Adopt(d, x, pinned) PROVE Sound(room', {}, {}) /\ Same(room, room')
  <2> DEFINE one == SetPose(room, d, x)
             two == SetPinned(one, d, pinned)
             p == SetAnchored(two, d, FALSE)
  <2>1. room' = Report(Sync(p, d), d) /\ d \in IdsOf(room.devices) /\ x \in Int
    BY <1>3, RoomAssumption DEF Adopt
  <2>2. Changes(room, one, d)
    BY <1>0, <2>1, SetPoseChanges DEF Sound
  <2>. HIDE DEF one
  <2>3. Sound(one, {} \cup {d}, {} \cup {d}) /\ Keeps(room, one) /\ IdsOf(one.devices) = IdsOf(room.devices)
    BY <1>0, <2>2, ChangesSound
  <2>4. Changes(one, two, d)
    BY <2>3, SetPinnedChanges DEF Sound
  <2>. HIDE DEF two
  <2>5. /\ Sound(two, {} \cup {d} \cup {d}, {} \cup {d} \cup {d}) /\ Keeps(one, two)
        /\ IdsOf(two.devices) = IdsOf(one.devices)
    BY <2>3, <2>4, ChangesSound
  <2>6. Changes(two, p, d)
    BY <2>5, SetAnchoredChanges DEF Sound
  <2>. HIDE DEF p
  <2>7. /\ Sound(p, {} \cup {d} \cup {d} \cup {d}, {} \cup {d} \cup {d} \cup {d}) /\ Keeps(two, p)
        /\ IdsOf(p.devices) = IdsOf(two.devices)
    BY <2>5, <2>6, ChangesSound
  <2>8. Sound(p, {d}, {d}) /\ d \in IdsOf(p.devices)
    BY <2>1, <2>3, <2>5, <2>7, Weaker
  <2>9. Keeps(room, p)
    BY <2>3, <2>5, <2>7, KeepsOn
  <2>. QED BY <2>1, <2>8, <2>9, SyncAndReport, KeepsOn, KeepsSame
<1>4. Sound(room', {}, {}) /\ Same(room, room')
  BY <1>1, <1>2, <1>3
<1>5. RoomInv'
  BY <1>0, <1>4 DEF RoomInv, surfaces
<1>6. Answers
  BY <1>0 DEF Answers, surfaces
<1>. QED BY <1>4, <1>5, <1>6

\* What leaves the room leaves the lists; the device first, then its target.
LEMMA RemoveStep ==
    ASSUME RoomInv, NEW d \in Ids, RemoveDevice(d)
    PROVE  RoomInv' /\ Same(room, room') /\ Answers
<1> DEFINE left == Without(room.devices, d)
           told == [e \in DOMAIN room.reported \ {d} |-> room.reported[e]]
           p == [room EXCEPT !.devices = left, !.reported = told]
<1>0. /\ room \in [devices : Seq(Devices), targets : Seq(Targets), hands : [Hands -> HandStates], reported : {room.reported}]
      /\ Distinct(room.devices) /\ Distinct(room.targets) /\ Len(room.devices) \in Nat
      /\ \A h \in Hands : room.hands[h].held <= Len(room.targets)
      /\ Sound(room, {}, {})
  BY DEF RoomInv, Sound, Shape
<1>1. /\ room' = Unregister(p, d)
      /\ pending' = Without(pending, d) /\ anchors' = Without(anchors, d) /\ creating' = creating
  BY DEF RemoveDevice
<1>2. /\ left \in Seq(Devices) /\ Distinct(left) /\ \A i \in 1..Len(left) : left[i].id # d
      /\ \A i \in 1..Len(left) : \E j \in 1..Len(room.devices) : left[i] = room.devices[j]
      /\ \A j \in 1..Len(room.devices) : room.devices[j].id # d => \E i \in 1..Len(left) : left[i] = room.devices[j]
  BY <1>0, WithoutFacts
<1>3. \A e \in DOMAIN room.reported : e # d => e \in DOMAIN told /\ told[e] = room.reported[e]
  OBVIOUS
<1>. HIDE DEF left, told
<1>4. /\ p.devices = left /\ p.targets = room.targets /\ p.hands = room.hands /\ p.reported = told
      /\ p \in [devices : Seq(Devices), targets : Seq(Targets), hands : [Hands -> HandStates], reported : {p.reported}]
  BY <1>0, <1>2
<1>. HIDE DEF p
<1>5. Shape(p)
  BY <1>0, <1>2, <1>4 DEF Shape
<1>6. Copies(p, {d})
  <2>1. ASSUME NEW i \in 1..Len(p.devices) PROVE \E j \in 1..Len(p.targets) : p.targets[j] = Target(p.devices[i])
    <3>1. PICK j \in 1..Len(room.devices) : p.devices[i] = room.devices[j]
      BY <1>2, <1>4
    <3>. QED BY <1>0, <1>4, <3>1 DEF Sound, Copies
  <2>2. ASSUME NEW j \in 1..Len(p.targets), p.targets[j].id \notin {d}
        PROVE  \E i \in 1..Len(p.devices) : p.targets[j] = Target(p.devices[i])
    <3>1. PICK i \in 1..Len(room.devices) : p.targets[j] = Target(room.devices[i])
      BY <1>0, <1>4 DEF Sound, Copies
    <3>2. room.devices[i].id # d
      BY <2>2, <3>1 DEF Target
    <3>. QED BY <1>2, <1>4, <3>1, <3>2
  <2>. QED BY <2>1, <2>2 DEF Copies
<1>7. Told(p, {})
  <2>1. \A e : InHand(p, e) <=> InHand(room, e)
    BY <1>4 DEF InHand
  <2>2. ASSUME NEW i \in 1..Len(p.devices), p.devices[i].placed, ~InHand(p, p.devices[i].id)
        PROVE  p.devices[i].id \in DOMAIN p.reported /\ p.reported[p.devices[i].id] = Placement(p.devices[i])
    <3>1. PICK j \in 1..Len(room.devices) : p.devices[i] = room.devices[j]
      BY <1>2, <1>4
    <3>2. /\ room.devices[j].id \in DOMAIN room.reported /\ room.reported[room.devices[j].id] = Placement(room.devices[j])
          /\ room.devices[j].id # d
      BY <1>0, <1>2, <1>4, <2>1, <2>2, <3>1 DEF Sound, Told
    <3>. QED BY <1>3, <1>4, <3>1, <3>2
  <2>. QED BY <2>2 DEF Told
<1>8. Sound(p, {d}, {})
  BY <1>5, <1>6, <1>7 DEF Sound
<1>9. /\ Sound(room', {d} \cup {d}, {}) /\ Keeps(p, room') /\ room'.devices = left
      /\ d \notin IdsOf(room'.targets)
  BY <1>1, <1>4, <1>8, UnregisterSound
<1>10. Same(room, room')
  BY <1>4, <1>9 DEF Keeps, Same
<1>11. Sound(room', {}, {})
  <2>1. room'.targets \in Seq(Targets)
    BY <1>9 DEF Sound, Shape
  <2>2. \A j \in 1..Len(room'.targets) : room'.targets[j].id # d
    BY <1>9, <2>1, InList
  <2>3. Copies(room', {})
    BY <1>2, <1>9, <2>2 DEF Sound, Copies
  <2>. QED BY <1>9, <2>3 DEF Sound
<1>12. /\ pending' \in Seq(Places) /\ Distinct(pending')
       /\ \A j \in 1..Len(pending) : pending[j].id # d => \E i \in 1..Len(pending') : pending'[i] = pending[j]
  BY <1>1, WithoutFacts DEF RoomInv
<1>13. anchors' \in Seq(Places) /\ Distinct(anchors')
  BY <1>1, WithoutFacts DEF RoomInv
<1>14. RoomInv'
  BY <1>1, <1>11, <1>12, <1>13 DEF RoomInv
<1>15. Answers
  <2>1. ASSUME NEW e \in IdsOf(pending) \ IdsOf(pending') PROVE Answered(e)
    <3>1. PICK j \in 1..Len(pending) : pending[j].id = e
      BY InList DEF RoomInv
    <3>2. e = d
      <4>1. ASSUME NEW i \in 1..Len(pending'), pending'[i] = pending[j] PROVE FALSE
        BY <1>12, <2>1, <3>1, <4>1, InList
      <4>. QED BY <1>12, <3>1, <4>1
    <3>3. d \notin IdsOf(room'.devices)
      BY <1>2, <1>9, InList
    <3>4. There' = IdsOf(room'.devices)
      BY DEF There
    <3>. QED BY <3>2, <3>3, <3>4 DEF Answered
  <2>. QED BY <2>1 DEF Answers
<1>. QED BY <1>10, <1>14, <1>15

\* What touches requests and anchors only.
LEMMA SurfaceStep ==
    ASSUME RoomInv,
           \/ \E a \in creating : AnchorArrives(a) \/ AnchorFails(a)
           \/ \E d \in Ids : DropToSurface(d)
           \/ SessionStarts \/ SessionEnds
    PROVE  RoomInv' /\ Same(room, room') /\ Answers
<1>0. /\ room' = room /\ Sound(room, {}, {}) /\ creating \subseteq Places
      /\ pending \in Seq(Places) /\ Distinct(pending) /\ anchors \in Seq(Places) /\ Distinct(anchors)
  BY DEF RoomInv, AnchorArrives, AnchorFails, DropToSurface, SessionStarts, SessionEnds
<1>1. Same(room, room')
  BY <1>0 DEF Same
<1>2. ASSUME NEW a \in creating, AnchorArrives(a) PROVE RoomInv' /\ Answers
  <2>1. /\ pending' = Without(pending, a.id) /\ creating' = creating \ {a}
        /\ anchors' = Append(Without(anchors, a.id), a)
    BY <1>2 DEF AnchorArrives
  <2>2. /\ pending' \in Seq(Places) /\ Distinct(pending')
        /\ \A j \in 1..Len(pending) : pending[j].id # a.id => \E i \in 1..Len(pending') : pending'[i] = pending[j]
    BY <1>0, <2>1, WithoutFacts
  <2> DEFINE left == Without(anchors, a.id)
  <2>3. left \in Seq(Places) /\ Distinct(left) /\ \A i \in 1..Len(left) : left[i].id # a.id
    BY <1>0, WithoutFacts
  <2>. HIDE DEF left
  <2>4. anchors' = Append(left, a) /\ a \in Places
    BY <1>0, <2>1 DEF left
  <2>5. /\ anchors' \in Seq(Places) /\ Len(anchors') = Len(left) + 1 /\ Len(left) \in Nat
        /\ \A i \in 1..Len(left) : anchors'[i] = left[i]
        /\ anchors'[Len(left) + 1] = a
    BY <2>3, <2>4, AppendFacts
  <2>6. \A i \in 1..Len(anchors') : i \in 1..Len(left) \/ i = Len(left) + 1
    BY <2>5
  <2>7. Distinct(anchors')
    BY <2>3, <2>5, <2>6 DEF Distinct
  <2>8. RoomInv'
    BY <1>0, <2>1, <2>2, <2>5, <2>7 DEF RoomInv
  <2>9. ASSUME NEW e \in IdsOf(pending) \ IdsOf(pending') PROVE e = a.id
    <3>1. PICK j \in 1..Len(pending) : pending[j].id = e
      BY <1>0, InList
    <3>2. ASSUME NEW i \in 1..Len(pending'), pending'[i] = pending[j] PROVE FALSE
      BY <2>2, <2>9, <3>1, <3>2, InList
    <3>. QED BY <2>2, <3>1, <3>2
  <2>10. a \in creating \ creating'
    BY <2>1
  <2>. QED BY <2>8, <2>9, <2>10 DEF Answers
<1>3. ASSUME NEW a \in creating, AnchorFails(a) PROVE RoomInv' /\ Answers
  <2>1. UNCHANGED <<pending, anchors>> /\ creating' = creating \ {a}
    BY <1>3 DEF AnchorFails
  <2>. QED BY <1>0, <2>1 DEF RoomInv, Answers
<1>4. ASSUME NEW d \in Ids, DropToSurface(d) PROVE RoomInv' /\ Answers
  <2> DEFINE p == [id |-> d, x |-> Find(room.devices, d).x]
             put == [i \in DOMAIN pending |-> IF pending[i].id = d THEN p ELSE pending[i]]
  <2>1. /\ pending' = IF d \in IdsOf(pending) THEN put ELSE Append(pending, p)
        /\ anchors' = anchors /\ creating' = creating /\ d \in IdsOf(room.devices)
    BY <1>4 DEF DropToSurface
  <2>2. p \in Places
    <3>1. room.devices \in Seq(Devices)
      BY <1>0 DEF Sound, Shape
    <3>2. Find(room.devices, d) \in Devices
      BY <2>1, <3>1, InList DEF ToSet
    <3>3. d \in Nat
      BY RoomAssumption DEF Ids
    <3>. QED BY <3>2, <3>3 DEF Places, Devices
  <2>3. p.id = d
    OBVIOUS
  <2>. HIDE DEF p
  <2>4. Len(pending) \in Nat /\ DOMAIN pending = 1..Len(pending) /\ \A i \in 1..Len(pending) : pending[i] \in Places
    BY <1>0
  <2>5. CASE d \in IdsOf(pending)
    <3>1. pending' = [i \in 1..Len(pending) |-> IF pending[i].id = d THEN p ELSE pending[i]]
      BY <2>1, <2>4, <2>5
    <3>2. pending' \in [1..Len(pending) -> Places] /\ \A i \in 1..Len(pending) : pending'[i].id = pending[i].id
      BY <2>2, <2>3, <2>4, <3>1
    <3>3. pending' \in Seq(Places) /\ Len(pending') = Len(pending)
      BY <2>4, <3>2, Listed
    <3>4. Distinct(pending')
      BY <1>0, <3>2, <3>3 DEF Distinct
    <3>5. IdsOf(pending) \subseteq IdsOf(pending')
      BY <2>4, <3>2, <3>3 DEF IdsOf
    <3>. QED BY <1>0, <2>1, <3>3, <3>4, <3>5 DEF RoomInv, Answers
  <2>6. CASE d \notin IdsOf(pending)
    <3>1. pending' = Append(pending, p)
      BY <2>1, <2>6
    <3>2. /\ pending' \in Seq(Places) /\ Len(pending') = Len(pending) + 1
          /\ \A i \in 1..Len(pending) : pending'[i] = pending[i]
          /\ pending'[Len(pending) + 1] = p
      BY <1>0, <2>2, <3>1, AppendFacts
    <3>3. \A i \in 1..Len(pending') : i \in 1..Len(pending) \/ i = Len(pending) + 1
      BY <2>4, <3>2
    <3>4. \A i \in 1..Len(pending) : pending[i].id # d
      BY <1>0, <2>6, InList
    <3>5. Distinct(pending')
      BY <1>0, <2>3, <3>2, <3>3, <3>4 DEF Distinct
    <3>6. IdsOf(pending) \subseteq IdsOf(pending')
      <4>1. ASSUME NEW e \in IdsOf(pending) PROVE e \in IdsOf(pending')
        <5>1. PICK i \in 1..Len(pending) : pending[i].id = e
          BY <1>0, InList
        <5>2. i \in 1..Len(pending') /\ pending'[i].id = e
          BY <2>4, <3>2, <5>1
        <5>. QED BY <3>2, <5>2, InList
      <4>. QED BY <4>1
    <3>. QED BY <1>0, <2>1, <3>2, <3>5, <3>6 DEF RoomInv, Answers
  <2>. QED BY <2>5, <2>6
<1>5. ASSUME SessionStarts PROVE RoomInv' /\ Answers
  <2>1. anchors' = <<>> /\ pending' = <<>> /\ creating' = creating /\ session' # session
    BY <1>5 DEF SessionStarts
  <2>2. RoomInv'
    BY <1>0, <2>1 DEF RoomInv, Distinct
  <2>. QED BY <2>1, <2>2 DEF Answers, Answered
<1>6. ASSUME SessionEnds PROVE RoomInv' /\ Answers
  <2>1. UNCHANGED <<pending, anchors, creating>>
    BY <1>6 DEF SessionEnds, surfaces
  <2>. QED BY <1>0, <2>1 DEF RoomInv, Answers
<1>. QED BY <1>1, <1>2, <1>3, <1>4, <1>5, <1>6

LEMMA RoomStep == RoomInv /\ RoomNext => RoomInv' /\ Same(room, room') /\ Answers
<1> SUFFICES ASSUME RoomInv, RoomNext PROVE RoomInv' /\ Same(room, room') /\ Answers
  OBVIOUS
<1>1. ASSUME Frames PROVE RoomInv' /\ Same(room, room') /\ Answers
  <2>1. PICK one \in Inputs(1), two \in Inputs(2), drift \in Drifts, found \in SUBSET IdsOf(pending),
             late \in {FALSE, pending # <<>>} : Frame(<<one, two>>, drift, found, late)
    BY <1>1 DEF Frames
  <2>2. \A h \in Hands : <<one, two>>[h] \in HandInput
    BY DEF Hands, Inputs
  <2>. QED BY <2>1, <2>2, FrameStep
<1>. QED BY <1>1, DeviceStep, RemoveStep, SurfaceStep DEF RoomNext

-----------------------------------------------------------------------------
(* What the room promises.                                                 *)

\* The invariant holds of every session: one device and one target for an id,
\* hands that hold what is in the list, copies that are up to date.
THEOREM RoomInvariant == RoomSpec => []RoomInv
<1>1. RoomInv /\ UNCHANGED roomVars => RoomInv'
  BY DEF RoomInv, roomVars, surfaces
<1>. QED BY RoomStart, RoomStep, <1>1, PTL DEF RoomSpec

\* A pose is kept by the device, by its grab target and by the bridge, and the
\* three agree whatever hands, surfaces, pins and the bridge do: registerGrab(),
\* syncGrabTarget(), onMove() and releaseHand() leave no copy stale.
THEOREM PosesStayAgreed == RoomSpec => []PosesAgree
<1>1. RoomInv => PosesAgree
  <2> SUFFICES ASSUME RoomInv PROVE PosesAgree
    OBVIOUS
  <2>0. /\ Shape(room) /\ Copies(room, {}) /\ Told(room, {})
        /\ room.devices \in Seq(Devices) /\ room.targets \in Seq(Targets)
    BY DEF RoomInv, Sound, Shape
  <2>1. /\ ToSet(room.devices) = {room.devices[i] : i \in 1..Len(room.devices)}
        /\ ToSet(room.targets) = {room.targets[i] : i \in 1..Len(room.targets)}
    BY <2>0 DEF ToSet
  <2>2. TargetsFollowDevices
    <3>1. ASSUME NEW v \in ToSet(room.devices) PROVE Target(v) \in ToSet(room.targets)
      <4>1. PICK i \in 1..Len(room.devices) : v = room.devices[i]
        BY <2>1
      <4>2. PICK j \in 1..Len(room.targets) : room.targets[j] = Target(v)
        BY <2>0, <4>1 DEF Copies
      <4>. QED BY <2>1, <4>2
    <3>2. ASSUME NEW t \in ToSet(room.targets) PROVE \E v \in ToSet(room.devices) : t = Target(v)
      <4>1. PICK j \in 1..Len(room.targets) : t = room.targets[j]
        BY <2>1
      <4>2. PICK i \in 1..Len(room.devices) : t = Target(room.devices[i])
        BY <2>0, <4>1 DEF Copies
      <4>. QED BY <2>1, <4>2
    <3>. QED BY <3>1, <3>2 DEF TargetsFollowDevices
  <2>3. ReleasedIsReported
    BY <2>0, <2>1, HeldInHand DEF ReleasedIsReported, Told
  <2>. QED BY <2>2, <2>3 DEF PosesAgree
<1>. QED BY <1>1, RoomInvariant, PTL

\* A hand that holds before and after a step holds the same device: the indices
\* that Grabbable.remove() shifts stay those of the targets the hands took.
THEOREM HandsNeverSwap == RoomSpec => HandsKeepTheirDevice
<1> DEFINE A == \A h \in Hands : room.hands[h].held # 0 /\ room.hands[h].held' # 0
                    => HoldsId(room, h)' = HoldsId(room, h)
<1>1. RoomInv /\ RoomNext => A
  <2> SUFFICES ASSUME RoomInv, RoomNext, NEW h \in Hands, room.hands[h].held # 0, room'.hands[h].held # 0
               PROVE  HoldsId(room, h)' = HoldsId(room, h)
    OBVIOUS
  <2>1. room'.targets[room'.hands[h].held].id = room.targets[room.hands[h].held].id
    BY RoomStep DEF Same
  <2>2. room.hands[h].held \in DOMAIN room.targets
    BY DEF RoomInv, Sound, Shape, HandStates
  <2>3. room'.hands[h].held \in DOMAIN room'.targets
    <3>1. Shape(room')
      BY RoomStep DEF RoomInv, Sound
    <3>. QED BY <3>1 DEF Shape, HandStates
  <2>. QED BY <2>1, <2>2, <2>3 DEF HoldsId
<1>2. RoomInv /\ [RoomNext]_roomVars => [A]_roomVars
  BY <1>1
<1>. QED BY <1>2, RoomInvariant, PTL DEF RoomSpec, HandsKeepTheirDevice

\* A request for a drop ends with the device placed, the time-out, the end of
\* its device or session, or an anchor of an earlier drop, and in no other way.
THEOREM DropsEndAnswered == RoomSpec => DropsAreAnswered
<1> DEFINE A == \A d \in IdsOf(pending) \ IdsOf(pending') :
                    \/ Answered(d)
                    \/ \E a \in creating \ creating' : a.id = d
<1>1. RoomInv /\ [RoomNext]_roomVars => [A]_roomVars
  BY RoomStep DEF Answers
<1>. QED BY <1>1, RoomInvariant, PTL DEF RoomSpec, DropsAreAnswered
=============================================================================
