---------------------------- MODULE SurfaceProofs ----------------------------
(***************************************************************************)
(* Proofs about the surface of a device: the fingers that play it, for any *)
(* model, any places and any refractory time; the lights that are drawn on *)
(* it, for any controls, messages and bounds; and the lights that arrive   *)
(* there from the DAW, for any that a key of the queue has room for.       *)
(***************************************************************************)
EXTENDS TouchProps, LedsProps, FiniteSetTheorems, SequenceTheorems, WellFoundedInduction, TLAPS

-----------------------------------------------------------------------------
(* Fingers.                                                                *)

\* Every zone a finger may be found over, and none.
Found == {0} \cup {Hit(Model, tip[1], tip[2]) : tip \in (Tips[Thumb] \cup Tips[Index]) \ {Lost}}
Finger == [held : Found, side : {"none", "above", "in"}, since : Nat]

\* Of one detector s: what is shown and what sounds is under a finger that holds it.
UnderFingers(s) ==
    /\ s.fingers \in [Fingers -> Finger]
    /\ \A z \in s.lit : \E f \in Fingers : s.fingers[f].held = z /\ z # 0
    /\ \A id \in s.on : \E f \in Fingers : s.fingers[f].held # 0 /\ id = Zone(s.fingers[f].held).id

\* The detector between two frames.
Detector == [fingers |-> fingers, lit |-> lit, on |-> sounding, struck |-> struck]

\* A finger that rests where it struck holds that zone.
RestInv == \A f \in Fingers : resting[f] # 0 => fingers[f].held = resting[f]

TouchInv == UnderFingers(Detector) /\ resting \in [Fingers -> Found] /\ RestInv

States == [fingers : [Fingers -> Finger], lit : SUBSET Found, on : SUBSET {Zone(z).id : z \in Found},
           struck : SUBSET (Fingers \X Found)]

LEMMA InitTouch == TouchPropsInit => TouchInv
<1> SUFFICES ASSUME TouchPropsInit PROVE TouchInv
  OBVIOUS
<1> USE DEF TouchPropsInit, TouchInit
<1>1. [held |-> 0, side |-> "none", since |-> Refractory] \in Finger
  BY TouchAssumption DEF Finger, Found
<1>2. fingers \in [Fingers -> Finger] /\ resting \in [Fingers -> Found] /\ lit = {} /\ sounding = {}
  BY <1>1 DEF Found
<1>3. UnderFingers(Detector)
  BY <1>2 DEF UnderFingers, Detector
<1>4. RestInv
  BY DEF RestInv
<1>. QED BY <1>2, <1>3, <1>4 DEF TouchInv

\* releaseIfHeld() takes away what the finger held, and nothing else.
LEMMA ReleaseFacts ==
    ASSUME NEW s \in States, UnderFingers(s), NEW f \in Fingers, NEW t, t = ReleaseIfHeld(s, f)
    PROVE  /\ t \in States /\ UnderFingers(t) /\ t.struck = s.struck
           /\ t.fingers[f].held = 0
           /\ \A g \in Fingers : g # f => t.fingers[g] = s.fingers[g]
<1>1. CASE s.fingers[f].held = 0
  BY <1>1 DEF ReleaseIfHeld
<1>2. CASE s.fingers[f].held # 0
  <2> DEFINE h == s.fingers[f].held
  <2>0. s.fingers \in [Fingers -> Finger] /\ s.fingers[f] \in Finger /\ 0 \in Found
    BY DEF States, Found
  <2>1. t = [[s EXCEPT !.lit = @ \ {h}, !.on = @ \ {Zone(h).id}] EXCEPT !.fingers[f].held = 0]
    BY <1>2 DEF ReleaseIfHeld, NoteOff
  <2>2. /\ t.fingers = [s.fingers EXCEPT ![f].held = 0] /\ t.lit = s.lit \ {h} /\ t.on = s.on \ {Zone(h).id}
        /\ t.struck = s.struck /\ t = [fingers |-> t.fingers, lit |-> t.lit, on |-> t.on, struck |-> t.struck]
    BY <2>1 DEF States
  <2>3. t.fingers \in [Fingers -> Finger] /\ t.fingers[f].held = 0 /\ \A g \in Fingers : g # f => t.fingers[g] = s.fingers[g]
    BY <2>0, <2>2 DEF Finger
  <2>4. t \in States
    BY <2>2, <2>3 DEF States
  <2>5. \A z \in t.lit : \E g \in Fingers : t.fingers[g].held = z /\ z # 0
    BY <2>2, <2>3 DEF UnderFingers
  <2>6. \A id \in t.on : \E g \in Fingers : t.fingers[g].held # 0 /\ id = Zone(t.fingers[g].held).id
    BY <2>2, <2>3 DEF UnderFingers
  <2>. QED BY <2>2, <2>3, <2>4, <2>5, <2>6 DEF UnderFingers
<1>. QED BY <1>1, <1>2

\* strike() by a finger that holds nothing.
LEMMA StrikeFacts ==
    ASSUME NEW s \in States, UnderFingers(s), NEW f \in Fingers, NEW z \in Found, z # 0, s.fingers[f].held = 0,
           NEW t, t = Strike(s, f, z)
    PROVE  /\ t \in States /\ UnderFingers(t) /\ t.struck = s.struck \cup {<<f, z>>}
           /\ t.fingers[f].held = z
           /\ \A g \in Fingers : g # f => t.fingers[g] = s.fingers[g]
<1>0. s.fingers \in [Fingers -> Finger] /\ s.fingers[f] \in Finger
  BY DEF States
<1>1. t = [[s EXCEPT !.lit = @ \cup {z}, !.on = @ \cup {Zone(z).id}]
              EXCEPT !.fingers[f].held = z, !.fingers[f].since = 0, !.struck = @ \cup {<<f, z>>}]
  BY DEF Strike, NoteOn
<1>2. /\ t.fingers = [s.fingers EXCEPT ![f].held = z, ![f].since = 0]
      /\ t.lit = s.lit \cup {z} /\ t.on = s.on \cup {Zone(z).id} /\ t.struck = s.struck \cup {<<f, z>>}
      /\ t = [fingers |-> t.fingers, lit |-> t.lit, on |-> t.on, struck |-> t.struck]
  BY <1>1 DEF States
<1>3. t.fingers \in [Fingers -> Finger] /\ t.fingers[f].held = z /\ \A g \in Fingers : g # f => t.fingers[g] = s.fingers[g]
  BY <1>0, <1>2 DEF Finger
<1>4. t \in States
  BY <1>2, <1>3 DEF States
<1>5. \A y \in t.lit : \E g \in Fingers : t.fingers[g].held = y /\ y # 0
  BY <1>2, <1>3 DEF UnderFingers
<1>6. \A id \in t.on : \E g \in Fingers : t.fingers[g].held # 0 /\ id = Zone(t.fingers[g].held).id
  BY <1>2, <1>3 DEF UnderFingers
<1>. QED BY <1>2, <1>3, <1>4, <1>5, <1>6 DEF UnderFingers

\* The side a finger was seen on bears on nothing that is held.
LEMMA SideFacts ==
    ASSUME NEW s \in States, UnderFingers(s), NEW f \in Fingers, NEW side \in {"none", "above", "in"},
           NEW t, t = [s EXCEPT !.fingers[f].side = side]
    PROVE  /\ t \in States /\ UnderFingers(t) /\ t.struck = s.struck
           /\ t.fingers[f].held = s.fingers[f].held
           /\ \A g \in Fingers : g # f => t.fingers[g] = s.fingers[g]
<1>0. s.fingers \in [Fingers -> Finger] /\ s.fingers[f] \in Finger
  BY DEF States
<1>1. /\ t.fingers = [s.fingers EXCEPT ![f].side = side] /\ t.lit = s.lit /\ t.on = s.on /\ t.struck = s.struck
      /\ t = [fingers |-> t.fingers, lit |-> t.lit, on |-> t.on, struck |-> t.struck]
  BY DEF States
<1>2. /\ t.fingers \in [Fingers -> Finger] /\ t.fingers[f].held = s.fingers[f].held
      /\ \A g \in Fingers : g # f => t.fingers[g] = s.fingers[g]
  BY <1>0, <1>1 DEF Finger
<1>3. t \in States
  BY <1>1, <1>2 DEF States
<1>4. \A g \in Fingers : t.fingers[g].held = s.fingers[g].held
  BY <1>2
<1>. QED BY <1>1, <1>2, <1>3, <1>4 DEF UnderFingers

\* The zone a finger is over.
At(tip) == IF tip = Lost THEN 0 ELSE Hit(Model, tip[1], tip[2])

LEMMA AtIsFound == ASSUME NEW tip \in Tips[Thumb] \cup Tips[Index] PROVE At(tip) \in Found
  BY DEF At, Found

\* One finger of a frame: it strikes only when it held nothing, and what it holds it keeps while it stays over it
\* and below the band.
FingerStep(s, f, tip, t) ==
    /\ t \in States /\ UnderFingers(t)
    /\ \/ t.struck = s.struck
       \/ /\ t.struck = s.struck \cup {<<f, At(tip)>>} /\ s.fingers[f].held = 0 /\ At(tip) # 0
          /\ t.fingers[f].held = At(tip)
    /\ \A g \in Fingers : g # f => t.fingers[g] = s.fingers[g]
    /\ s.fingers[f].held = At(tip) /\ At(tip) # 0 /\ ~(Depth(At(tip), tip) > ReleaseMargin)
         => t.fingers[f].held = At(tip)

LEMMA FingerFacts ==
    ASSUME NEW s \in States, UnderFingers(s), NEW f \in Fingers, NEW tip \in Tips[Thumb] \cup Tips[Index],
           NEW t, t = PokeFinger(s, f, tip)
    PROVE  FingerStep(s, f, tip, t)
<1> USE DEF FingerStep
<1> DEFINE z == At(tip)
           d == Depth(z, tip)
<1>0. z \in Found /\ t = PokeZone(s, f, z, tip)
  BY AtIsFound DEF PokeFinger, At
<1>1. CASE z = 0
  <2> DEFINE u == ReleaseIfHeld(s, f)
  <2>1. u \in States /\ UnderFingers(u) /\ u.struck = s.struck /\ \A g \in Fingers : g # f => u.fingers[g] = s.fingers[g]
    BY ReleaseFacts
  <2>2. t = [u EXCEPT !.fingers[f].side = "none"]
    BY <1>0, <1>1 DEF PokeZone, Forget
  <2> HIDE DEF u
  <2>3. t \in States /\ UnderFingers(t) /\ t.struck = u.struck /\ \A g \in Fingers : g # f => t.fingers[g] = u.fingers[g]
    BY <2>1, <2>2, SideFacts
  <2>. QED BY <1>1, <2>1, <2>3
<1>2. CASE z # 0
  <2> DEFINE crossed == d <= 0 /\ s.fingers[f].side = "above" /\ s.fingers[f].since >= Refractory
             u == IF s.fingers[f].held # 0
                  THEN IF s.fingers[f].held # z \/ Cleared(d) THEN ReleaseIfHeld(s, f) ELSE s
                  ELSE IF crossed THEN Strike(s, f, z) ELSE s
  <2>1. t = [u EXCEPT !.fingers[f].side = Side(d)] /\ Side(d) \in {"none", "above", "in"}
    BY <1>0, <1>2 DEF PokeZone, OverZone, Side
  <2>2. /\ u \in States /\ UnderFingers(u)
        /\ \/ u.struck = s.struck
           \/ u.struck = s.struck \cup {<<f, z>>} /\ s.fingers[f].held = 0 /\ u.fingers[f].held = z
        /\ \A g \in Fingers : g # f => u.fingers[g] = s.fingers[g]
        /\ s.fingers[f].held = z /\ ~(d > ReleaseMargin) => u.fingers[f].held = z
    <3> HIDE DEF z, d
    <3>1. CASE s.fingers[f].held # 0 /\ (s.fingers[f].held # z \/ Cleared(d))
      <4>1. u = ReleaseIfHeld(s, f)
        BY <3>1
      <4>2. ~(s.fingers[f].held = z /\ ~(d > ReleaseMargin))
        BY <3>1 DEF Cleared
      <4> HIDE DEF u
      <4>. QED BY <4>1, <4>2, ReleaseFacts
    <3>2. CASE s.fingers[f].held # 0 /\ ~(s.fingers[f].held # z \/ Cleared(d))
      BY <3>2
    <3>3. CASE s.fingers[f].held = 0 /\ crossed
      <4>1. u = Strike(s, f, z)
        BY <3>3
      <4> HIDE DEF u
      <4>2. u \in States /\ UnderFingers(u) /\ u.struck = s.struck \cup {<<f, z>>} /\ u.fingers[f].held = z
            /\ \A g \in Fingers : g # f => u.fingers[g] = s.fingers[g]
        BY <1>0, <1>2, <3>3, <4>1, StrikeFacts
      <4>. QED BY <3>3, <4>2
    <3>4. CASE s.fingers[f].held = 0 /\ ~crossed
      <4>1. u = s
        BY <3>4
      <4>. QED BY <4>1
    <3>. QED BY <3>1, <3>2, <3>3, <3>4
  <2> HIDE DEF u, z, d
  <2>3. /\ t \in States /\ UnderFingers(t) /\ t.struck = u.struck /\ t.fingers[f].held = u.fingers[f].held
        /\ \A g \in Fingers : g # f => t.fingers[g] = u.fingers[g]
    BY <2>1, <2>2, SideFacts
  <2>. QED BY <1>2, <2>2, <2>3 DEF z, d
<1>. QED BY <1>1, <1>2

\* What one frame does to a hand that had struck nothing in it yet.
LEMMA HandFacts ==
    ASSUME NEW s \in States, UnderFingers(s), s.struck = {},
           NEW tips, tips[Thumb] \in Tips[Thumb], tips[Index] \in Tips[Index],
           NEW t, t = PokeHand(s, tips)
    PROVE  /\ t \in States /\ UnderFingers(t)
           /\ \A a \in t.struck : /\ a[1] \in Fingers /\ a[2] = At(tips[a[1]]) /\ a[2] # 0
                                  /\ s.fingers[a[1]].held = 0 /\ t.fingers[a[1]].held = a[2]
           /\ \A f \in Fingers :
                  s.fingers[f].held = At(tips[f]) /\ At(tips[f]) # 0 /\ ~(Depth(At(tips[f]), tips[f]) > ReleaseMargin)
                      => t.fingers[f].held = At(tips[f])
<1> DEFINE u == PokeFinger(s, Thumb, tips[Thumb])
<1>0. Thumb \in Fingers /\ Index \in Fingers /\ Thumb # Index /\ Fingers = {Thumb, Index}
  BY DEF Thumb, Index, Fingers
<1>1. /\ u \in States /\ UnderFingers(u)
      /\ \/ u.struck = {}
         \/ /\ u.struck = {<<Thumb, At(tips[Thumb])>>} /\ s.fingers[Thumb].held = 0 /\ At(tips[Thumb]) # 0
            /\ u.fingers[Thumb].held = At(tips[Thumb])
      /\ u.fingers[Index] = s.fingers[Index]
      /\ s.fingers[Thumb].held = At(tips[Thumb]) /\ At(tips[Thumb]) # 0
           /\ ~(Depth(At(tips[Thumb]), tips[Thumb]) > ReleaseMargin)
             => u.fingers[Thumb].held = At(tips[Thumb])
  <2>1. tips[Thumb] \in Tips[Thumb] \cup Tips[Index]
    OBVIOUS
  <2>2. FingerStep(s, Thumb, tips[Thumb], u)
    BY <1>0, <2>1, FingerFacts
  <2> HIDE DEF u
  <2>. QED BY <1>0, <2>2 DEF FingerStep
<1>2. t = PokeFinger(u, Index, tips[Index])
  BY DEF PokeHand
<1> HIDE DEF u
<1>3. /\ t \in States /\ UnderFingers(t)
      /\ \/ t.struck = u.struck
         \/ /\ t.struck = u.struck \cup {<<Index, At(tips[Index])>>} /\ u.fingers[Index].held = 0 /\ At(tips[Index]) # 0
            /\ t.fingers[Index].held = At(tips[Index])
      /\ t.fingers[Thumb] = u.fingers[Thumb]
      /\ u.fingers[Index].held = At(tips[Index]) /\ At(tips[Index]) # 0
           /\ ~(Depth(At(tips[Index]), tips[Index]) > ReleaseMargin)
             => t.fingers[Index].held = At(tips[Index])
  <2>1. tips[Index] \in Tips[Thumb] \cup Tips[Index]
    OBVIOUS
  <2>2. FingerStep(u, Index, tips[Index], t)
    BY <1>0, <1>1, <1>2, <2>1, FingerFacts
  <2>. QED BY <1>0, <2>2 DEF FingerStep
<1>4. ASSUME NEW a \in t.struck
      PROVE  /\ a[1] \in Fingers /\ a[2] = At(tips[a[1]]) /\ a[2] # 0
             /\ s.fingers[a[1]].held = 0 /\ t.fingers[a[1]].held = a[2]
  <2>1. CASE a \in u.struck
    BY <1>0, <1>1, <1>3, <2>1
  <2>2. CASE a \notin u.struck
    <3>1. a = <<Index, At(tips[Index])>> /\ u.fingers[Index].held = 0 /\ At(tips[Index]) # 0
          /\ t.fingers[Index].held = At(tips[Index])
      BY <1>3, <1>4, <2>2
    <3>. QED BY <1>0, <1>1, <3>1
  <2>. QED BY <2>1, <2>2
<1>5. ASSUME NEW f \in Fingers, s.fingers[f].held = At(tips[f]), At(tips[f]) # 0,
             ~(Depth(At(tips[f]), tips[f]) > ReleaseMargin)
      PROVE  t.fingers[f].held = At(tips[f])
  <2>1. CASE f = Thumb
    BY <1>1, <1>3, <1>5, <2>1
  <2>2. CASE f = Index
    BY <1>1, <1>3, <1>5, <2>2
  <2>. QED BY <1>0, <2>1, <2>2
<1>. QED BY <1>3, <1>4, <1>5

\* A frame: every strike is by a finger that rested nowhere, and a finger that rests holds what it struck.
LEMMA FrameKeeps ==
    ASSUME TouchInv, NEW tips, tips[Thumb] \in Tips[Thumb], tips[Index] \in Tips[Index],
           Frame(tips), resting' = Resting(tips, struck')
    PROVE  TouchInv' /\ \A a \in struck' : resting[a[1]] # a[2]
<1> DEFINE s == [fingers |-> Older(fingers), lit |-> lit, on |-> sounding, struck |-> {}]
           t == Poke(tips)
<1>0. /\ fingers \in [Fingers -> Finger] /\ UnderFingers(Detector) /\ RestInv /\ resting \in [Fingers -> Found]
      /\ Detector.fingers = fingers /\ Detector.lit = lit /\ Detector.on = sounding
  BY DEF TouchInv, UnderFingers, Detector
<1>1. Older(fingers) \in [Fingers -> Finger] /\ \A f \in Fingers : Older(fingers)[f].held = fingers[f].held
  BY <1>0, TouchAssumption DEF Older, Finger
<1>2. s \in States /\ UnderFingers(s) /\ s.struck = {}
  <2>1. s.fingers = Older(fingers) /\ s.lit = lit /\ s.on = sounding /\ s.struck = {}
    OBVIOUS
  <2>2. UnderFingers(s)
    BY <1>0, <1>1, <2>1 DEF UnderFingers
  <2>3. lit \subseteq Found /\ sounding \subseteq {Zone(z).id : z \in Found}
    <3>1. \A f \in Fingers : fingers[f].held \in Found
      BY <1>0 DEF Finger
    <3>. QED BY <1>0, <3>1 DEF UnderFingers
  <2>. QED BY <1>1, <2>2, <2>3 DEF States
<1>3. t = PokeHand(s, tips)
  BY DEF Poke
<1>4. fingers' = t.fingers /\ lit' = t.lit /\ sounding' = t.on /\ struck' = t.struck
  BY DEF Frame, Poked
<1> HIDE DEF s, t
<1>5. /\ t \in States /\ UnderFingers(t)
      /\ \A a \in t.struck : /\ a[1] \in Fingers /\ a[2] = At(tips[a[1]]) /\ a[2] # 0
                             /\ s.fingers[a[1]].held = 0 /\ t.fingers[a[1]].held = a[2]
      /\ \A f \in Fingers :
             s.fingers[f].held = At(tips[f]) /\ At(tips[f]) # 0 /\ ~(Depth(At(tips[f]), tips[f]) > ReleaseMargin)
                 => t.fingers[f].held = At(tips[f])
  BY <1>2, <1>3, HandFacts
<1>6. \A f \in Fingers : s.fingers[f].held = fingers[f].held
  BY <1>1 DEF s
<1>7. \A a \in struck' : resting[a[1]] # a[2]
  BY <1>0, <1>4, <1>5, <1>6 DEF RestInv
<1>8. \A f \in Fingers : /\ resting'[f] \in {0, At(tips[f])}
                         /\ resting'[f] # 0 => t.fingers[f].held = At(tips[f])
  <2> SUFFICES ASSUME NEW f \in Fingers
               PROVE  /\ resting'[f] \in {0, At(tips[f])}
                      /\ resting'[f] # 0 => t.fingers[f].held = At(tips[f])
    OBVIOUS
  <2> DEFINE struckNow == \E a \in struck' : a[1] = f
             stays == resting[f] # 0 /\ resting[f] = At(tips[f]) /\ ~(Depth(At(tips[f]), tips[f]) > ReleaseMargin)
  <2>1. resting'[f] = (CASE struckNow -> At(tips[f]) [] stays -> At(tips[f]) [] OTHER -> 0)
    BY DEF Resting, At
  <2>2. struckNow => t.fingers[f].held = At(tips[f])
    BY <1>4, <1>5
  <2>3. stays => t.fingers[f].held = At(tips[f])
    BY <1>0, <1>5, <1>6 DEF RestInv
  <2> HIDE DEF struckNow, stays
  <2>. QED BY <2>1, <2>2, <2>3
<1>9. resting' \in [Fingers -> Found]
  <2>1. \A f \in Fingers : At(tips[f]) \in Found /\ 0 \in Found
    BY AtIsFound DEF Fingers, Found
  <2>2. resting' = [f \in Fingers |-> resting'[f]]
    BY DEF Resting
  <2>. QED BY <1>8, <2>1, <2>2
<1>10. RestInv'
  BY <1>4, <1>8 DEF RestInv
<1>11. UnderFingers(Detector)'
  <2>1. Detector'.fingers = t.fingers /\ Detector'.lit = t.lit /\ Detector'.on = t.on
    BY <1>4 DEF Detector
  <2>. QED BY <1>5, <2>1 DEF UnderFingers
<1>. QED BY <1>7, <1>9, <1>10, <1>11 DEF TouchInv

touchPropsVars == <<touchVars, point, resting>>

\* Between frames nothing is struck, and what stops is taken away from what sounds.
LEMMA TouchStep ==
    TouchInv /\ [TouchPropsNext]_touchPropsVars
        => TouchInv' /\ (UNCHANGED touchPropsVars \/ \A a \in struck' : resting[a[1]] # a[2])
<1> SUFFICES ASSUME TouchInv, [TouchPropsNext]_touchPropsVars
             PROVE  TouchInv' /\ (UNCHANGED touchPropsVars \/ \A a \in struck' : resting[a[1]] # a[2])
  OBVIOUS
<1>0. /\ fingers \in [Fingers -> Finger] /\ UnderFingers(Detector) /\ RestInv /\ resting \in [Fingers -> Found]
      /\ Detector.fingers = fingers /\ Detector.lit = lit /\ Detector.on = sounding
      /\ Detector'.fingers = fingers' /\ Detector'.lit = lit' /\ Detector'.on = sounding'
  BY DEF TouchInv, UnderFingers, Detector
<1>1. ASSUME NEW thumb \in Tips[Thumb], NEW index \in Tips[Index], Frame(<<thumb, index>>),
             resting' = Resting(<<thumb, index>>, struck')
      PROVE  TouchInv' /\ \A a \in struck' : resting[a[1]] # a[2]
  <2>1. <<thumb, index>>[Thumb] = thumb /\ <<thumb, index>>[Index] = index
    BY DEF Thumb, Index
  <2>. QED BY <1>1, <2>1, FrameKeeps
<1>2. ASSUME NEW h \in Heights, SetPose(h), UNCHANGED resting
      PROVE  TouchInv' /\ struck' = {}
  <2>1. UNCHANGED <<fingers, lit, sounding, resting>> /\ struck' = {}
    BY <1>2 DEF SetPose, Move, NothingStruck
  <2>. QED BY <1>0, <2>1 DEF TouchInv, UnderFingers, RestInv
<1>3. ASSUME EndSession, resting' = [f \in Fingers |-> 0]
      PROVE  TouchInv' /\ struck' = {}
  <2>1. struck' = {} /\ lit' = {} /\ sounding' = {}
        /\ fingers' = [f \in Fingers |-> [fingers[f] EXCEPT !.held = 0, !.side = "none"]]
    BY <1>3 DEF EndSession, Move, NothingStruck
  <2>2. fingers' \in [Fingers -> Finger] /\ resting' \in [Fingers -> Found]
    <3>1. ASSUME NEW f \in Fingers PROVE [fingers[f] EXCEPT !.held = 0, !.side = "none"] \in Finger
      BY <1>0 DEF Finger, Found
    <3>2. 0 \in Found
      BY DEF Found
    <3>. QED BY <1>3, <2>1, <3>1, <3>2
  <2>3. UnderFingers(Detector)'
    BY <1>0, <2>1, <2>2 DEF UnderFingers
  <2>4. RestInv'
    BY <1>3 DEF RestInv
  <2>. QED BY <2>1, <2>2, <2>3, <2>4 DEF TouchInv
<1>4. ASSUME LinkLost, UNCHANGED resting
      PROVE  TouchInv' /\ struck' = {}
  <2>1. UNCHANGED <<fingers, lit, resting>> /\ sounding' = {} /\ struck' = {}
    BY <1>4 DEF LinkLost, Move, NothingStruck
  <2>. QED BY <1>0, <2>1 DEF TouchInv, UnderFingers, RestInv
<1>5. CASE UNCHANGED touchPropsVars
  <2>1. UNCHANGED <<fingers, lit, sounding, struck, resting>>
    BY <1>5 DEF touchPropsVars, touchVars
  <2>2. UNCHANGED Detector
    BY <2>1 DEF Detector
  <2>. QED BY <1>0, <1>5, <2>1, <2>2 DEF TouchInv, UnderFingers, RestInv
<1>. QED BY <1>1, <1>2, <1>3, <1>4, <1>5 DEF TouchPropsNext

THEOREM TouchInvariant == TouchPropsSpec => []TouchInv
<1>1. TouchPropsInit => TouchInv
  BY InitTouch
<1>2. TouchInv /\ [TouchPropsNext]_touchPropsVars => TouchInv'
  BY TouchStep
<1>. QED BY <1>1, <1>2, PTL DEF TouchPropsSpec, touchPropsVars

\* Whatever sounds or is shown as held is under a finger that holds it, wherever fingers go and whenever they are
\* lost (PokeDetector.ts, releaseIfHeld; Engine.ts, allNotesOff).
THEOREM NothingRings == TouchPropsSpec => []SoundingIsHeld
<1>1. TouchInv => SoundingIsHeld
  <2> SUFFICES ASSUME TouchInv
               PROVE  sounding \cup {Zone(z).id : z \in lit}
                          \subseteq {Zone(fingers[f].held).id : f \in {g \in Fingers : fingers[g].held # 0}}
    BY DEF SoundingIsHeld
  <2>1. /\ Detector.fingers = fingers /\ Detector.lit = lit /\ Detector.on = sounding
    BY DEF Detector
  <2>2. /\ \A z \in lit : \E f \in Fingers : fingers[f].held = z /\ z # 0
        /\ \A id \in sounding : \E f \in Fingers : fingers[f].held # 0 /\ id = Zone(fingers[f].held).id
    BY <2>1 DEF TouchInv, UnderFingers
  <2>. QED BY <2>2
<1>. QED BY <1>1, TouchInvariant, PTL

\* A finger that has struck and stays within the band above the surface does not strike again (PokeDetector.ts,
\* the hysteresis of update()).
THEOREM JitterIsQuiet == TouchPropsSpec => JitterDoesNotRetrigger
<1>1. TouchInv /\ [TouchPropsNext]_<<touchVars, point, resting>>
        => [\A s \in struck' : resting[s[1]] # s[2]]_<<touchVars, resting>>
  BY TouchStep DEF touchPropsVars
<1>. QED BY <1>1, TouchInvariant, PTL DEF TouchPropsSpec, JitterDoesNotRetrigger
-----------------------------------------------------------------------------
(* Lights.                                                                 *)

\* A LedState, whatever its cells are.
IsLedState(s) ==
    /\ s \in [there : {TRUE}, base : {s.base}, press : {s.press}, held : {s.held}, dirty : BOOLEAN, drawn : {s.drawn}]
    /\ DOMAIN s.press = Leds

\* What is drawn is what there is to draw.
IsCurrent(s) ==
    \A l \in Leds :
        /\ s.drawn[l].cell = s.base[l]
        /\ s.drawn[l].press = IF l \in s.held THEN Fade ELSE s.press[l]
        /\ s.drawn[l].off => s.base[l].blink = Flashing

LedsInv ==
    /\ surface = [d \in Devices |-> surface[d]]
    /\ \A d \in Devices : surface[d] = NoSurface \/ (IsLedState(surface[d]) /\ (surface[d].dirty \/ IsCurrent(surface[d])))

LEMMA ThereFacts ==
    ASSUME NEW d \in Devices, LedsInv
    PROVE  There(d) <=> surface[d] # NoSurface
<1>1. CASE surface[d] = NoSurface
  BY <1>1 DEF There, NoSurface
<1>2. CASE IsLedState(surface[d])
  <2>1. surface[d].there = TRUE /\ NoSurface.there = FALSE
    BY <1>2 DEF IsLedState, NoSurface
  <2>. QED BY <2>1 DEF There
<1>. QED BY <1>1, <1>2 DEF LedsInv

\* A surface that comes is to be drawn.
LEMMA NewSurfaceIsDirty == IsLedState(NewSurface) /\ NewSurface.dirty
  BY DEF NewSurface, IsLedState

\* One surface changes at most, into one that is to be drawn or is drawn as it is.
LEMMA OneSurface ==
    ASSUME LedsInv, NEW d \in Devices, NEW s, surface' = [surface EXCEPT ![d] = s],
           s = NoSurface \/ (IsLedState(s) /\ (s.dirty \/ IsCurrent(s)))
    PROVE  LedsInv'
<1>1. surface = [e \in Devices |-> surface[e]]
  BY DEF LedsInv
<1>2. surface' = [e \in Devices |-> IF e = d THEN s ELSE surface[e]]
  BY <1>1
<1>3. surface' = [e \in Devices |-> surface'[e]]
  BY <1>2
<1>4. \A e \in Devices : surface'[e] = IF e = d THEN s ELSE surface[e]
  BY <1>2
<1>. QED BY <1>3, <1>4 DEF LedsInv

LEMMA DrawKeeps == ASSUME LedsInv, NEW d \in Devices, NEW flashOn \in BOOLEAN, Draw(d, flashOn) PROVE LedsInv'
<1> DEFINE s == surface[d]
           press == [l \in Leds |-> IF l \in Fading(s) THEN s.press[l] - 1 ELSE s.press[l]]
           animating == s.held # {} \/ (\E l \in Fading(s) : press[l] > 0) \/ \E l \in Leds : s.base[l].blink # Static
           dirty == s.dirty \/ Fading(s) # {}
           Drawn(l) == [cell |-> s.base[l], off |-> s.base[l].blink = Flashing /\ ~flashOn,
                        press |-> IF l \in s.held THEN Fade ELSE press[l]]
           drawn == IF dirty \/ animating THEN [l \in Leds |-> Drawn(l)] ELSE s.drawn
           t == [s EXCEPT !.press = press, !.dirty = FALSE, !.drawn = drawn]
<1>1. IsLedState(s) /\ (s.dirty \/ IsCurrent(s)) /\ surface' = [surface EXCEPT ![d] = t]
  BY ThereFacts DEF Draw, LedsInv
<1>2. DOMAIN press = Leds
  OBVIOUS
<1> HIDE DEF press, drawn
<1>3. IsLedState(t) /\ t.base = s.base /\ t.press = press /\ t.held = s.held /\ t.drawn = drawn
  BY <1>1, <1>2 DEF IsLedState
<1> USE DEF press, drawn
<1>4. IsCurrent(t)
  <2>0. t.base = s.base /\ t.press = press /\ t.held = s.held /\ t.drawn = drawn
    BY <1>3
  <2> HIDE DEF t
  <2>1. CASE dirty \/ animating
    <3>1. drawn = [l \in Leds |-> Drawn(l)]
      BY <2>1
    <3>2. \A l \in Leds : drawn[l] = Drawn(l)
      BY <3>1
    <3> HIDE DEF drawn, press
    <3>3. \A l \in Leds : Drawn(l).cell = s.base[l] /\ Drawn(l).press = IF l \in s.held THEN Fade ELSE press[l]
      OBVIOUS
    <3>4. \A l \in Leds : Drawn(l).off => s.base[l].blink = Flashing
      OBVIOUS
    <3> HIDE DEF Drawn, s
    <3>. QED BY <2>0, <3>2, <3>3, <3>4 DEF IsCurrent
  <2>2. CASE ~(dirty \/ animating)
    <3>1. ~s.dirty /\ Fading(s) = {} /\ drawn = s.drawn
      BY <2>2
    <3>2. \A l \in Leds : press[l] = s.press[l]
      BY <3>1
    <3>. QED BY <1>1, <2>0, <3>1, <3>2 DEF IsCurrent
  <2>. QED BY <2>1, <2>2
<1>. QED BY <1>1, <1>3, <1>4, OneSurface

LEMMA HearKeeps == ASSUME LedsInv, NEW i, Hear(i) PROVE LedsInv'
<1>0. surface = [d \in Devices |-> surface[d]]
  BY DEF LedsInv
<1>1. CASE HearRoster(down[i])
  <2>1. surface' = [d \in Devices |-> IF d \in down[i].ids /\ ~There(d) THEN NewSurface ELSE surface[d]]
    BY <1>1 DEF HearRoster
  <2>2. \A d \in Devices : surface'[d] = NewSurface \/ surface'[d] = surface[d]
    BY <2>1
  <2>3. surface' = [d \in Devices |-> surface'[d]]
    BY <2>1
  <2>. QED BY <2>2, <2>3, NewSurfaceIsDirty DEF LedsInv
<1>2. CASE HearLeds(down[i])
  <2> DEFINE m == down[i]
  <2>1. CASE m.id \in Devices /\ There(m.id)
    <3>1. surface' = [surface EXCEPT ![m.id] = SetLeds(surface[m.id], m.cells)]
      BY <1>2, <2>1 DEF HearLeds
    <3>2. IsLedState(surface[m.id])
      BY <2>1, ThereFacts DEF LedsInv
    <3>3. IsLedState(SetLeds(surface[m.id], m.cells)) /\ SetLeds(surface[m.id], m.cells).dirty
      BY <3>2 DEF SetLeds, IsLedState
    <3>. QED BY <2>1, <3>1, <3>3, OneSurface
  <2>2. CASE ~(m.id \in Devices /\ There(m.id))
    BY <1>2, <2>2 DEF HearLeds, LedsInv
  <2>. QED BY <2>1, <2>2
<1>. QED BY <1>1, <1>2 DEF Hear

LEMMA FingerKeeps ==
    ASSUME LedsInv, NEW d \in Devices, NEW l, Touch(d, l) \/ Lift(d, l)
    PROVE  LedsInv'
<1>1. PICK held : surface' = [surface EXCEPT ![d] = [surface[d] EXCEPT !.held = held, !.press[l] = Fade, !.dirty = TRUE]]
  BY DEF Touch, Lift
<1>2. IsLedState(surface[d])
  BY ThereFacts DEF Touch, Lift, LedsInv
<1> DEFINE t == [surface[d] EXCEPT !.held = held, !.press[l] = Fade, !.dirty = TRUE]
<1>3. IsLedState(t) /\ t.dirty
  BY <1>2 DEF IsLedState
<1> HIDE DEF t
<1>4. surface' = [surface EXCEPT ![d] = t]
  BY <1>1 DEF t
<1>. QED BY <1>3, <1>4, OneSurface

LEMMA LedsStep == LedsInv /\ [PropsNext]_<<vars, probe, excused>> => LedsInv'
<1> SUFFICES ASSUME LedsInv, [PropsNext]_<<vars, probe, excused>> PROVE LedsInv'
  OBVIOUS
<1>0. surface = [d \in Devices |-> surface[d]]
  BY DEF LedsInv
<1>1. CASE UNCHANGED surface
  BY <1>1 DEF LedsInv
<1>2. ASSUME NEW d \in Devices, AddDevice(d) \/ RemoveDevice(d) PROVE LedsInv'
  <2>1. surface' = [surface EXCEPT ![d] = NewSurface] \/ surface' = [surface EXCEPT ![d] = NoSurface]
    BY <1>2 DEF AddDevice, RemoveDevice
  <2>. QED BY <2>1, NewSurfaceIsDirty, OneSurface
<1>3. ASSUME NEW i, Hear(i) \/ Lose(i) PROVE LedsInv'
  BY <1>1, <1>3, HearKeeps DEF Lose, headsetVars
<1>4. ASSUME NEW d \in Devices, NEW l, Touch(d, l) \/ Lift(d, l) PROVE LedsInv'
  BY <1>4, FingerKeeps
<1>5. CASE AllNotesOff
  <2>1. surface' = [d \in Devices |-> IF There(d) THEN Clear(surface[d]) ELSE surface[d]]
    BY <1>5 DEF AllNotesOff
  <2>2. ASSUME NEW d \in Devices, There(d) PROVE IsLedState(Clear(surface[d])) /\ Clear(surface[d]).dirty
    <3>1. IsLedState(surface[d])
      BY <2>2, ThereFacts DEF LedsInv
    <3>. QED BY <3>1 DEF Clear, IsLedState
  <2>3. surface' = [d \in Devices |-> surface'[d]]
    BY <2>1
  <2>4. \A d \in Devices : surface'[d] = IF There(d) THEN Clear(surface[d]) ELSE surface[d]
    BY <2>1
  <2>. QED BY <2>2, <2>3, <2>4 DEF LedsInv
<1>6. ASSUME NEW d \in Devices, NEW on \in BOOLEAN, Draw(d, on) PROVE LedsInv'
  BY <1>6, DrawKeeps
<1>7. ASSUME NEW d \in Devices, NEW m \in Messages, Host(d, m) PROVE LedsInv'
  BY <1>1, <1>7 DEF Host, headsetVars
<1>8. CASE FlushLeds \/ Route \/ Connect \/ Disconnect \/ GraceOver
  BY <1>1, <1>8 DEF FlushLeds, Route, Connect, Disconnect, GraceOver, headsetVars
<1>9. ASSUME NEW d \in Devices, PortsOpen(d) PROVE LedsInv'
  BY <1>1, <1>9 DEF PortsOpen, headsetVars
<1>10. CASE UNCHANGED <<vars, probe, excused>>
  BY <1>1, <1>10 DEF vars, headsetVars
<1>. QED BY <1>2, <1>3, <1>4, <1>5, <1>6, <1>7, <1>8, <1>9, <1>10 DEF PropsNext, OneStep

LEMMA InitLeds == PropsInit => LedsInv
  BY DEF PropsInit, LedsInit, LedsInv

THEOREM LedsInvariant == PropsSpec => []LedsInv
<1>1. LedsInv /\ [PropsNext]_<<vars, probe, excused>> => LedsInv'
  BY LedsStep
<1>. QED BY <1>1, InitLeds, PTL DEF PropsSpec

\* A surface that is not to be drawn again shows its state, whatever packets, fingers and ends of sessions came in
\* whatever order before (LedState.ts, update).
THEOREM DrawnAsItIs == PropsSpec => []DrawnIsCurrent
<1>1. LedsInv => DrawnIsCurrent
  BY ThereFacts DEF LedsInv, DrawnIsCurrent, IsCurrent
<1>. QED BY <1>1, LedsInvariant, PTL

-----------------------------------------------------------------------------
(* Sequences, and the induction over them.                                 *)

\* Sets of numbers have a least one.
LEMMA LeastOf == ASSUME NEW T, T \subseteq Nat, T # {}
                 PROVE \E x \in T : \A y \in T : x <= y
<1> DEFINE U == {1..n : n \in T}
<1>0. \A n \in T : 1..n \in FiniteSubsetsOf(Nat)
  BY FS_Interval DEF FiniteSubsetsOf
<1>1. U \subseteq FiniteSubsetsOf(Nat) /\ U # {}
  BY <1>0
<1>2. PICK v \in U : \A w \in U : ~(<<w, v>> \in StrictSubsetOrdering(Nat))
  <2> HIDE DEF U
  <2> QED BY <1>1, FS_StrictSubsetOrderingWellFounded, WFMin
<1>3. PICK x \in T : v = 1..x
  OBVIOUS
<1>4. ASSUME NEW y \in T PROVE x <= y
  <2>1. 1..y \in U /\ 1..y \in SUBSET Nat /\ 1..x \in SUBSET Nat
    OBVIOUS
  <2>2. ~(1..y \subseteq 1..x /\ 1..y # 1..x)
    BY <1>2, <1>3, <2>1 DEF StrictSubsetOrdering
  <2>3. CASE y < x
    <3>1. x \in 1..x /\ x \notin 1..y /\ 1..y \subseteq 1..x
      BY <2>3
    <3> QED BY <2>2, <3>1
  <2> QED BY <2>3
<1> QED BY <1>4

\* A sequence, of whatever it is made of.
IsSequence(s) == s \in Seq({s[i] : i \in 1..Len(s)})

LEMMA SequenceOf == ASSUME NEW S, NEW s \in Seq(S) PROVE IsSequence(s)
<1>1. Len(s) \in Nat /\ s = [i \in 1..Len(s) |-> s[i]]
  OBVIOUS
<1>2. [i \in 1..Len(s) |-> s[i]] \in Seq({s[i] : i \in 1..Len(s)})
  BY <1>1
<1>. QED BY <1>1, <1>2 DEF IsSequence

LEMMA Elements == ASSUME NEW s, IsSequence(s) PROVE Len(s) \in Nat /\ DOMAIN s = 1..Len(s)
  BY DEF IsSequence

LEMMA Listed == ASSUME NEW n \in Nat, NEW s, s = [i \in 1..n |-> s[i]] PROVE IsSequence(s) /\ Len(s) = n
<1> DEFINE S == {s[i] : i \in 1..n}
<1>1. s \in [1..n -> S]
  OBVIOUS
<1>. HIDE DEF S
<1>2. s \in Seq(S) /\ Len(s) = n
  BY <1>1
<1>. QED BY <1>2, SequenceOf

LEMMA Concatenated ==
    ASSUME NEW s, NEW t, IsSequence(s), IsSequence(t)
    PROVE  /\ IsSequence(s \o t)
           /\ Len(s) \in Nat /\ Len(t) \in Nat /\ Len(s \o t) = Len(s) + Len(t)
           /\ \A i \in 1..Len(s) : (s \o t)[i] = s[i]
           /\ \A i \in 1..Len(t) : (s \o t)[Len(s) + i] = t[i]
<1> DEFINE S == {s[i] : i \in 1..Len(s)} \cup {t[i] : i \in 1..Len(t)}
<1>1. s \in Seq(S) /\ t \in Seq(S)
  <2>1. {s[i] : i \in 1..Len(s)} \subseteq S /\ {t[i] : i \in 1..Len(t)} \subseteq S
    OBVIOUS
  <2>. HIDE DEF S
  <2>. QED BY <2>1, SeqMonotonic DEF IsSequence
<1>. HIDE DEF S
<1>2. /\ s \o t \in Seq(S) /\ Len(s \o t) = Len(s) + Len(t)
      /\ \A i \in 1..Len(s) + Len(t) : (s \o t)[i] = IF i <= Len(s) THEN s[i] ELSE t[i - Len(s)]
  BY <1>1, ConcatProperties
<1>3. IsSequence(s \o t)
  BY <1>2, SequenceOf
<1>4. Len(s) \in Nat /\ Len(t) \in Nat
  BY Elements
<1>5. ASSUME NEW i \in 1..Len(s) PROVE (s \o t)[i] = s[i]
  BY <1>2, <1>4
<1>6. ASSUME NEW i \in 1..Len(t) PROVE (s \o t)[Len(s) + i] = t[i]
  <2>1. Len(s) + i \in 1..Len(s) + Len(t) /\ ~(Len(s) + i <= Len(s)) /\ (Len(s) + i) - Len(s) = i
    BY <1>4
  <2>. QED BY <1>2, <2>1
<1>. QED BY <1>2, <1>3, <1>4, <1>5, <1>6

\* The first one is taken out.
LEMMA FirstTaken ==
    ASSUME NEW s, IsSequence(s), 1 \in DOMAIN s
    PROVE  /\ IsSequence(RemoveAt(s, 1)) /\ Len(RemoveAt(s, 1)) = Len(s) - 1 /\ Len(s) \in Nat
           /\ \A i \in 1..Len(s) - 1 : RemoveAt(s, 1)[i] = s[i + 1]
<1> DEFINE S == {s[i] : i \in 1..Len(s)}
           right == SubSeq(s, 2, Len(s))
<1>1. s \in Seq(S) /\ Len(s) \in Nat /\ 1 <= Len(s) /\ \A i \in 1..Len(s) : s[i] \in S
  BY Elements DEF IsSequence
<1>. HIDE DEF S
<1>2. SubSeq(s, 1, 1 - 1) = <<>>
  BY SubSeqEmpty
<1>3. right \in Seq(S) /\ Len(right) = (IF 2 <= Len(s) THEN Len(s) - 2 + 1 ELSE 0)
      /\ \A i \in 1..Len(s) - 2 + 1 : right[i] = s[2 + i - 1]
  BY <1>1, SubSeqProperties
<1>4. RemoveAt(s, 1) = <<>> \o right
  <2>1. SubSeq(s, 1, 1 - 1) \o SubSeq(s, 1 + 1, Len(s)) = <<>> \o right
    BY <1>2
  <2>. HIDE DEF right
  <2>. QED BY <2>1 DEF RemoveAt
<1>. HIDE DEF right
<1>5. <<>> \o right = right
  BY <1>3, ConcatEmptySeq
<1>6. Len(right) = Len(s) - 1 /\ \A i \in 1..Len(s) - 1 : right[i] = s[i + 1]
  <2>. HIDE DEF right
  <2>1. Len(right) = Len(s) - 1
    <3> DEFINE n == Len(s)
               k == Len(right)
    <3>1. n \in Nat /\ 1 <= n /\ k = IF 2 <= n THEN n - 2 + 1 ELSE 0
      BY <1>1, <1>3
    <3>. HIDE DEF n, k
    <3>2. k = n - 1
      BY <3>1
    <3>. QED BY <3>2 DEF n, k
  <2>2. ASSUME NEW i \in 1..Len(s) - 1 PROVE right[i] = s[i + 1]
    <3>1. i \in 1..Len(s) - 2 + 1 /\ 2 + i - 1 = i + 1
      BY <1>1
    <3>. QED BY <1>3, <3>1
  <2>. QED BY <2>1, <2>2
<1>. QED BY <1>1, <1>3, <1>4, <1>5, <1>6, SequenceOf

\* A set in some order.
LEMMA SetToSeqFacts ==
    ASSUME NEW S, IsFiniteSet(S), NEW s, s = SetToSeq(S)
    PROVE  /\ IsSequence(s) /\ s \in Seq(S) /\ Len(s) \in Nat /\ DOMAIN s = 1..Len(s)
           /\ \A x \in S : \E i \in 1..Len(s) : s[i] = x
           /\ \A i, j \in 1..Len(s) : s[i] = s[j] => i = j
<1> DEFINE n == Cardinality(S)
<1>1. n \in Nat /\ ExistsBijection(1..n, S)
  BY FS_CardinalityType
<1>2. PICK g \in Bijection(1..n, S) : TRUE
  BY <1>1 DEF ExistsBijection
<1>3. g \in [1..n -> S] /\ IsInjective(g)
  BY <1>2 DEF Bijection, Injection, IsInjective
<1>4. s \in [1..n -> S] /\ IsInjective(s)
  BY <1>3 DEF SetToSeq
<1>5. s \in Injection(1..n, S)
  BY <1>4 DEF Injection
<1>6. IsFiniteSet(1..n) /\ Cardinality(1..n) = n
  BY <1>1, FS_Interval
<1>7. s \in Surjection(1..n, S)
  BY <1>5, <1>6, FS_Injection
<1>. HIDE DEF n
<1>8. s \in Seq(S) /\ Len(s) = n
  BY <1>1, <1>4
<1>. QED BY <1>1, <1>4, <1>7, <1>8, SequenceOf DEF Surjection, IsInjective

-----------------------------------------------------------------------------
(* What the emulator tells of its LEDs.                                    *)

IsEmulator(e) ==
    /\ e \in [leds : {e.leds}, mode : {e.mode}, pressed : {e.pressed}, told : {e.told}, out : {e.out}]
    /\ e.leds = [l \in Leds |-> e.leds[l]]

Mentions(news, l) == \E i \in 1..Len(news) : news[i][1] = l

\* The i-th is the last word of an LED.
IsLast(news, i) == \A j \in 1..Len(news) : news[j][1] = news[i][1] => j <= i

\* From there on it was told, in order, what became e's colours.
Tells(from, e) ==
    /\ IsEmulator(e) /\ IsSequence(e.told)
    /\ \A i \in 1..Len(e.told) : e.told[i][1] \in Leds /\ (IsLast(e.told, i) => e.told[i][2] = e.leds[e.told[i][1]])
    /\ \A l \in Leds : ~Mentions(e.told, l) => e.leds[l] = from.leds[l]

LEMMA Appended ==
    ASSUME NEW s, IsSequence(s), NEW x
    PROVE  /\ IsSequence(Append(s, x)) /\ Len(Append(s, x)) = Len(s) + 1 /\ Len(s) \in Nat
           /\ Append(s, x)[Len(s) + 1] = x /\ \A i \in 1..Len(s) : Append(s, x)[i] = s[i]
<1> DEFINE S == {s[i] : i \in 1..Len(s)} \cup {x}
<1>1. s \in Seq(S) /\ x \in S
  <2>1. {s[i] : i \in 1..Len(s)} \subseteq S /\ x \in S
    OBVIOUS
  <2>. HIDE DEF S
  <2>. QED BY <2>1, SeqMonotonic DEF IsSequence
<1>. HIDE DEF S
<1>2. /\ Append(s, x) \in Seq(S) /\ Len(Append(s, x)) = Len(s) + 1 /\ Len(s) \in Nat
      /\ Append(s, x)[Len(s) + 1] = x /\ \A i \in 1..Len(s) : Append(s, x)[i] = s[i]
  BY <1>1
<1>. QED BY <1>2, SequenceOf

LEMMA WriteTells ==
    ASSUME NEW from, NEW e, Tells(from, e), NEW led, NEW cell
    PROVE  Tells(from, WriteLed(e, led, cell))
<1> DEFINE f == WriteLed(e, led, cell)
<1>1. CASE led \notin DOMAIN e.leds \/ e.leds[led] = cell
  BY <1>1 DEF WriteLed
<1>2. CASE ~(led \notin DOMAIN e.leds \/ e.leds[led] = cell)
  <2>0. IsEmulator(e) /\ IsSequence(e.told) /\ led \in Leds
    BY <1>2 DEF Tells, IsEmulator
  <2>1. f = [e EXCEPT !.leds[led] = cell, !.told = Append(@, <<led, cell>>)]
    BY <1>2 DEF WriteLed
  <2>2. /\ f \in [leds : {f.leds}, mode : {f.mode}, pressed : {f.pressed}, told : {f.told}, out : {f.out}]
        /\ f.leds = [e.leds EXCEPT ![led] = cell] /\ f.told = Append(e.told, <<led, cell>>)
    BY <2>0, <2>1 DEF IsEmulator
  <2>. HIDE DEF f
  <2> DEFINE n == Len(e.told)
  <2>3. /\ f.leds = [l \in Leds |-> f.leds[l]] /\ f.leds[led] = cell
        /\ \A l \in Leds : l # led => f.leds[l] = e.leds[l]
    BY <2>0, <2>2 DEF IsEmulator
  <2>4. /\ IsSequence(f.told) /\ Len(f.told) = n + 1 /\ n \in Nat
        /\ f.told[n + 1] = <<led, cell>> /\ \A i \in 1..n : f.told[i] = e.told[i]
    BY <2>0, <2>2, Appended
  <2>. HIDE DEF n
  <2>5. ASSUME NEW i \in 1..n + 1
        PROVE  f.told[i][1] \in Leds /\ (IsLast(f.told, i) => f.told[i][2] = f.leds[f.told[i][1]])
    <3>1. CASE i = n + 1
      <4>1. f.told[i] = <<led, cell>>
        BY <2>4, <3>1
      <4>2. f.told[i][1] = led /\ f.told[i][2] = cell
        BY <4>1
      <4>. QED BY <2>0, <2>3, <4>2
    <3>2. CASE i # n + 1
      <4>1. i \in 1..n /\ f.told[i] = e.told[i] /\ ~(n + 1 <= i)
        BY <2>4, <3>2
      <4>2. e.told[i][1] \in Leds /\ (IsLast(e.told, i) => e.told[i][2] = e.leds[e.told[i][1]])
        BY <4>1 DEF Tells, n
      <4>3. ASSUME IsLast(f.told, i) PROVE f.told[i][2] = f.leds[f.told[i][1]]
        <5>1. n + 1 \in 1..Len(f.told) /\ f.told[n + 1][1] = led
          BY <2>4
        <5>2. f.told[i][1] # led
          BY <4>1, <4>3, <5>1 DEF IsLast
        <5>3. \A j \in 1..n : j \in 1..Len(f.told) /\ f.told[j] = e.told[j]
          BY <2>4
        <5>4. IsLast(e.told, i)
          BY <4>1, <4>3, <5>3 DEF IsLast, n
        <5>. QED BY <2>3, <4>1, <4>2, <5>2, <5>4
      <4>. QED BY <4>1, <4>2, <4>3
    <3>. QED BY <3>1, <3>2
  <2>6. ASSUME NEW l \in Leds, ~Mentions(f.told, l) PROVE f.leds[l] = from.leds[l]
    <3>1. n + 1 \in 1..Len(f.told) /\ f.told[n + 1][1] = led
      BY <2>4
    <3>2. l # led
      BY <2>6, <3>1 DEF Mentions
    <3>3. \A j \in 1..n : j \in 1..Len(f.told) /\ f.told[j] = e.told[j]
      BY <2>4
    <3>4. ~Mentions(e.told, l)
      BY <2>6, <3>3 DEF Mentions, n
    <3>. QED BY <2>3, <3>2, <3>4 DEF Tells
  <2>7. IsEmulator(f)
    BY <2>2, <2>3 DEF IsEmulator
  <2>. QED BY <2>4, <2>5, <2>6, <2>7 DEF Tells, f
<1>. QED BY <1>1, <1>2

LEMMA NothingTold == ASSUME NEW e, IsEmulator(e), e.told = <<>> PROVE Tells(e, e)
<1>1. IsSequence(<<>>) /\ Len(<<>>) = 0
  BY EmptySeq, SequenceOf
<1>. QED BY <1>1 DEF Tells, Mentions

LEMMA LedsAreFinite == IsFiniteSet(Leds)
<1> DEFINE f == [i \in 1..Len(Spec) |-> Spec[i].id]
<1>1. f \in Surjection(1..Len(Spec), Leds)
  BY LedsAssumption DEF Leds, Surjection
<1>2. IsFiniteSet(1..Len(Spec))
  BY LedsAssumption, FS_Interval
<1>. QED BY <1>1, <1>2, FS_Surjection

LEMMA ClearTells ==
    ASSUME NEW e, IsEmulator(e), e.told = <<>>
    PROVE  Tells(e, ClearAllLeds(e))
<1> DEFINE f == ClearAllLeds(e)
           S == {l \in DOMAIN e.leds : e.leds[l] # Dark}
           were == SetToSeq(S)
           news == [i \in DOMAIN were |-> <<were[i], Dark>>]
<1>1. S \subseteq Leds /\ IsFiniteSet(S) /\ DOMAIN e.leds = Leds
  BY LedsAreFinite, FS_Subset DEF IsEmulator
<1>2. /\ were \in Seq(S) /\ Len(were) \in Nat /\ DOMAIN were = 1..Len(were)
      /\ \A l \in S : \E i \in 1..Len(were) : were[i] = l
  <2>. HIDE DEF S
  <2>. QED BY <1>1, SetToSeqFacts
<1>3. f = [e EXCEPT !.leds = [l \in DOMAIN e.leds |-> Dark], !.told = @ \o news]
  BY DEF ClearAllLeds
<1>. HIDE DEF were, f
<1>4. IsSequence(news) /\ Len(news) = Len(were) /\ \A i \in 1..Len(were) : news[i] = <<were[i], Dark>>
  <2>1. news = [i \in 1..Len(were) |-> news[i]]
    BY <1>2
  <2>2. \A i \in 1..Len(were) : news[i] = <<were[i], Dark>>
    BY <1>2
  <2>. HIDE DEF news
  <2>. QED BY <1>2, <2>1, <2>2, Listed
<1>5. <<>> \o news = news
  <2>. HIDE DEF news
  <2>. QED BY <1>4, ConcatEmptySeq DEF IsSequence
<1>. HIDE DEF news
<1>6. /\ f \in [leds : {f.leds}, mode : {f.mode}, pressed : {f.pressed}, told : {f.told}, out : {f.out}]
      /\ f.leds = [l \in Leds |-> Dark] /\ f.told = news
  BY <1>1, <1>3, <1>5 DEF IsEmulator
<1>7. IsEmulator(f) /\ \A l \in Leds : f.leds[l] = Dark
  BY <1>6 DEF IsEmulator
<1>8. ASSUME NEW i \in 1..Len(news)
      PROVE  news[i][1] \in Leds /\ news[i][2] = f.leds[news[i][1]]
  <2>1. news[i][1] = were[i] /\ news[i][2] = Dark /\ were[i] \in S
    BY <1>2, <1>4
  <2>. QED BY <1>1, <1>7, <2>1
<1>9. ASSUME NEW l \in Leds, ~Mentions(news, l) PROVE f.leds[l] = e.leds[l]
  <2>1. l \notin S
    <3>1. ASSUME NEW i \in 1..Len(were) PROVE were[i] # l
      <4>1. news[i][1] = were[i] /\ i \in 1..Len(news)
        BY <1>4
      <4>. QED BY <1>9, <4>1 DEF Mentions
    <3>. HIDE DEF S
    <3>. QED BY <1>2, <3>1
  <2>. QED BY <1>1, <1>7, <2>1
<1>. QED BY <1>4, <1>6, <1>7, <1>8, <1>9 DEF Tells, f

\* parseLedMessage() comes to an end.
LEMMA WritesEnd == ASSUME NEW body \in Seq(0..127) PROVE Len(Writes(body)) \in Nat
<1> DEFINE n == Len(body)
           W == [led : 0..127, type : 0..127, args : Seq(0..127)]
           Beyond(i) == i + 2 + Args(body[i])
           Write(i) == [led |-> body[i + 1], type |-> body[i], args |-> SubSeq(body, i + 2, i + 1 + Args(body[i]))]
           Step(g, i) == IF i > n \/ ~Fits(body, i) THEN <<>> ELSE <<Write(i)>> \o g[Beyond(i)]
           Runs(g) == g = [i \in 1..n + 1 |-> Step(g, i)]
           at == CHOOSE g : Runs(g)
           \* What there is from k on.
           From(g, k) == /\ g \in [k..n + 1 -> Seq(W)]
                         /\ \A i \in k..n + 1 : g[i] = Step(g, i)
           Good(j) == j <= n => \E g : From(g, n + 1 - j)
<1>0. n \in Nat /\ \A i \in 1..n : body[i] \in 0..127
  BY ElementOfSeq, LenProperties
<1>1. ASSUME NEW i \in 1..n, Fits(body, i)
      PROVE  /\ Beyond(i) \in i + 1..n + 1 /\ Write(i) \in W
             /\ \A g : g[Beyond(i)] \in Seq(W) => <<Write(i)>> \o g[Beyond(i)] \in Seq(W)
  <2>1. body[i] \in 0..3 /\ i + 1 + Args(body[i]) <= n
    BY <1>1 DEF Fits, Static, Rgb
  <2>2. Args(body[i]) \in 1..3
    BY <2>1 DEF Args, Static, Flashing, Pulsing, Rgb
  <2>. HIDE DEF n
  <2>3. Beyond(i) \in i + 1..n + 1 /\ i + 1 \in 1..n
    BY <1>0, <2>1, <2>2
  <2>4. \A j \in i + 2..i + 1 + Args(body[i]) : body[j] \in 0..127
    BY <1>0, <2>1, <2>2
  <2>5. SubSeq(body, i + 2, i + 1 + Args(body[i])) \in Seq(0..127)
    <3>1. i + 2 \in Int /\ i + 1 + Args(body[i]) \in Int
      BY <2>2
    <3>. QED BY <2>4, <3>1, SubSeqProperties
  <2>6. Write(i) \in W
    BY <1>0, <2>3, <2>5
  <2>. HIDE DEF W, Write, Beyond
  <2>7. ASSUME NEW t \in Seq(W) PROVE <<Write(i)>> \o t \in Seq(W)
    <3>1. <<Write(i)>> \in Seq(W)
      BY <2>6
    <3>. QED BY <3>1, ConcatProperties
  <2>. QED BY <2>3, <2>6, <2>7
<1>. HIDE DEF W, Write, Beyond, n
<1>2. Good(0)
  <2> DEFINE g == [i \in n + 1..n + 1 |-> <<>>]
  <2>1. g \in [n + 1..n + 1 -> Seq(W)]
    BY EmptySeq
  <2>2. \A i \in n + 1..n + 1 : g[i] = Step(g, i)
    BY <1>0
  <2>3. n + 1 - 0 = n + 1
    BY <1>0
  <2>4. From(g, n + 1 - 0)
    BY <2>1, <2>2, <2>3
  <2>. HIDE DEF From
  <2>. QED BY <2>4
<1>3. ASSUME NEW j \in Nat, Good(j) PROVE Good(j + 1)
  <2>0. SUFFICES ASSUME j + 1 <= n PROVE \E g : From(g, n + 1 - (j + 1))
    OBVIOUS
  <2> DEFINE k == n + 1 - (j + 1)
  <2>1. k \in 1..n /\ n + 1 - j = k + 1 /\ j <= n
    BY <1>0, <2>0
  <2>2. PICK g : From(g, k + 1)
    BY <1>3, <2>1
  <2>. HIDE DEF k
  <2> DEFINE more == [i \in k..n + 1 |-> IF i = k THEN Step(g, k) ELSE g[i]]
  <2>3. \A i \in k + 1..n + 1 : g[i] \in Seq(W) /\ g[i] = Step(g, i) /\ more[i] = g[i]
    BY <1>0, <2>1, <2>2
  <2>4. Step(g, k) \in Seq(W)
    BY <1>0, <1>1, <2>1, <2>3, EmptySeq
  <2>5. more \in [k..n + 1 -> Seq(W)]
    <3>. HIDE DEF Step
    <3>1. \A i \in k..n + 1 : i = k \/ i \in k + 1..n + 1
      BY <1>0, <2>1
    <3>. QED BY <2>3, <2>4, <3>1
  <2>6. ASSUME NEW i \in k..n + 1 PROVE more[i] = Step(g, i) /\ Step(g, i) = Step(more, i)
    <3>1. more[i] = Step(g, i)
      <4>1. i = k \/ i \in k + 1..n + 1
        BY <1>0, <2>1
      <4>. HIDE DEF Step
      <4>. QED BY <2>3, <4>1
    <3>2. CASE i > n \/ ~Fits(body, i)
      BY <3>1, <3>2
    <3>3. CASE ~(i > n) /\ Fits(body, i)
      <4>1. i \in 1..n
        BY <1>0, <2>1, <3>3
      <4>2. Beyond(i) \in i + 1..n + 1
        BY <1>1, <3>3, <4>1
      <4>3. Beyond(i) \in k + 1..n + 1
        BY <1>0, <2>1, <4>1, <4>2
      <4>4. more[Beyond(i)] = g[Beyond(i)]
        BY <2>3, <4>3
      <4>. HIDE DEF more
      <4>. QED BY <3>1, <4>4
    <3>. QED BY <3>1, <3>2, <3>3
  <2>7. From(more, k)
    <3>. HIDE DEF more, Step
    <3>. QED BY <2>5, <2>6
  <2>. HIDE DEF From, more
  <2>. QED BY <2>7 DEF k
<1>4. \A j \in Nat : Good(j)
  <2> DEFINE T == {j \in Nat : ~Good(j)}
  <2>. HIDE DEF Good
  <2>1. SUFFICES ASSUME T # {} PROVE FALSE
    OBVIOUS
  <2>2. PICK j \in T : \A l \in T : j <= l
    <3>1. T \subseteq Nat
      OBVIOUS
    <3>. HIDE DEF T
    <3>. QED BY <2>1, <3>1, LeastOf
  <2>3. j - 1 \in Nat /\ ~(j <= j - 1)
    BY <1>2, <2>2
  <2>4. Good(j - 1)
    BY <2>2, <2>3
  <2>5. Good((j - 1) + 1)
    BY <1>3, <2>3, <2>4
  <2>. QED BY <2>2, <2>5
<1>5. \E g : From(g, 1)
  <2>1. n <= n /\ n + 1 - n = 1
    BY <1>0
  <2>. HIDE DEF From
  <2>. QED BY <1>0, <1>4, <2>1
<1>6. \E g : Runs(g)
  <2>1. PICK g : From(g, 1)
    BY <1>5
  <2>2. Runs(g)
    <3>. HIDE DEF Step
    <3>. QED BY <2>1
  <2>. HIDE DEF Runs
  <2>. QED BY <2>2
<1>7. Runs(at)
  <2>. HIDE DEF Runs
  <2>. QED BY <1>6
<1>8. Writes(body) = at[1]
  BY DEF Writes, n, Write, Beyond
<1>. HIDE DEF at
<1>9. \A i \in 1..n + 1 : at[i] = Step(at, i)
  <2>. HIDE DEF Step
  <2>. QED BY <1>7
<1>10. at[1] \in Seq(W)
  <2> DEFINE Fine(j) == j <= n => at[n + 1 - j] \in Seq(W)
             T == {j \in Nat : ~Fine(j)}
  <2>1. SUFFICES ASSUME T # {} PROVE FALSE
    <3>1. n <= n /\ n + 1 - n = 1
      BY <1>0
    <3>. QED BY <1>0, <3>1
  <2>2. PICK j \in T : \A l \in T : j <= l
    <3>1. T \subseteq Nat
      OBVIOUS
    <3>. HIDE DEF T
    <3>. QED BY <2>1, <3>1, LeastOf
  <2> DEFINE i == n + 1 - j
  <2>3. i \in 1..n + 1 /\ j \in Nat /\ j <= n /\ at[i] \notin Seq(W)
    BY <1>0, <2>2
  <2>4. ~(i > n) /\ Fits(body, i)
    BY <1>9, <2>3, EmptySeq
  <2>5. i \in 1..n
    BY <1>0, <2>3, <2>4
  <2>. HIDE DEF i
  <2>6. Beyond(i) \in i + 1..n + 1 /\ (at[Beyond(i)] \in Seq(W) => <<Write(i)>> \o at[Beyond(i)] \in Seq(W))
    BY <1>1, <2>4, <2>5
  <2> DEFINE l == n + 1 - Beyond(i)
  <2>7. l \in Nat /\ l < j /\ l <= n /\ n + 1 - l = Beyond(i)
    BY <1>0, <2>5, <2>6, <2>3 DEF i
  <2>8. l \notin T
    <3>. HIDE DEF l, T
    <3>. QED BY <2>2, <2>3, <2>7
  <2>9. at[Beyond(i)] \in Seq(W)
    BY <2>7, <2>8
  <2>10. at[i] = <<Write(i)>> \o at[Beyond(i)]
    BY <1>9, <2>3, <2>4
  <2>. QED BY <2>3, <2>6, <2>9, <2>10
<1>. QED BY <1>8, <1>10, LenProperties

LEMMA AllTell ==
    ASSUME NEW from, NEW e, Tells(from, e), NEW ws, Len(ws) \in Nat
    PROVE  Tells(from, WriteLeds(e, ws))
<1> DEFINE n == Len(ws)
           Step(g, i) == IF i = 0 THEN e ELSE WriteLed(g[i - 1], ws[i].led, CellOf(ws[i]))
           Runs(g, k) == g = [i \in 0..k |-> Step(g, i)]
           Good(k) == \E g : Runs(g, k)
           after == CHOOSE g : Runs(g, n)
<1>1. Good(0)
  <2>1. Runs([i \in 0..0 |-> e], 0)
    OBVIOUS
  <2>. HIDE DEF Runs
  <2>. QED BY <2>1
<1>2. ASSUME NEW k \in Nat, Good(k) PROVE Good(k + 1)
  <2>1. PICK g : Runs(g, k)
    BY <1>2
  <2> DEFINE more == [i \in 0..k + 1 |-> IF i = k + 1 THEN Step(g, k + 1) ELSE g[i]]
  <2>2. ASSUME NEW i \in 0..k + 1 PROVE more[i] = Step(more, i)
    <3>1. \A j \in 0..k : g[j] = Step(g, j) /\ more[j] = g[j]
      <4>. HIDE DEF Step
      <4>. QED BY <2>1
    <3>2. more[i] = Step(g, i)
      <4>1. i = k + 1 \/ i \in 0..k
        OBVIOUS
      <4>2. more[k + 1] = Step(g, k + 1)
        OBVIOUS
      <4>. HIDE DEF Step, more
      <4>. QED BY <3>1, <4>1, <4>2
    <3>3. CASE i = 0
      BY <3>2, <3>3
    <3>4. CASE i # 0
      <4>1. i - 1 \in 0..k
        BY <3>4
      <4>2. more[i - 1] = g[i - 1]
        <5>. HIDE DEF more, Step
        <5>. QED BY <3>1, <4>1
      <4>. HIDE DEF more
      <4>. QED BY <3>2, <3>4, <4>2
    <3>. QED BY <3>3, <3>4
  <2>3. Runs(more, k + 1)
    <3>. HIDE DEF Step
    <3>. QED BY <2>2
  <2>. HIDE DEF Runs, more
  <2>. QED BY <2>3
<1>3. Good(n)
  <2> DEFINE T == {k \in Nat : ~Good(k)}
  <2>. HIDE DEF Good
  <2>1. SUFFICES ASSUME T # {} PROVE FALSE
    OBVIOUS
  <2>2. PICK k \in T : \A l \in T : k <= l
    <3>1. T \subseteq Nat
      OBVIOUS
    <3>. HIDE DEF T
    <3>. QED BY <2>1, <3>1, LeastOf
  <2>3. k - 1 \in Nat /\ ~(k <= k - 1)
    BY <1>1, <2>2
  <2>4. Good(k - 1)
    BY <2>2, <2>3
  <2>5. Good((k - 1) + 1)
    BY <1>2, <2>3, <2>4
  <2>. QED BY <2>2, <2>5
<1>4. WriteLeds(e, ws) = after[n]
  BY DEF WriteLeds
<1>5. Runs(after, n)
  <2>. HIDE DEF Runs
  <2>. QED BY <1>3
<1>. HIDE DEF after
<1>6. after[0] = e /\ \A i \in 1..n : after[i] = WriteLed(after[i - 1], ws[i].led, CellOf(ws[i]))
  <2>1. \A i \in 0..n : after[i] = Step(after, i)
    <3>. HIDE DEF Step
    <3>. QED BY <1>5
  <2>. QED BY <2>1
<1> DEFINE Fine(k) == Tells(from, after[k])
<1>7. ASSUME NEW k \in 1..n, Fine(k - 1) PROVE Fine(k)
  BY <1>6, <1>7, WriteTells
<1>8. Fine(n)
  <2> DEFINE T == {k \in 0..n : ~Fine(k)}
  <2>. HIDE DEF Fine
  <2>1. SUFFICES ASSUME T # {} PROVE FALSE
    OBVIOUS
  <2>2. PICK k \in T : \A l \in T : k <= l
    <3>1. T \subseteq Nat
      OBVIOUS
    <3>. HIDE DEF T
    <3>. QED BY <2>1, <3>1, LeastOf
  <2>3. k \in 1..n /\ ~(k <= k - 1) /\ k - 1 \in 0..n
    BY <1>6, <2>2 DEF Fine
  <2>4. Fine(k - 1)
    BY <2>2, <2>3
  <2>. QED BY <1>7, <2>2, <2>3, <2>4
<1>. QED BY <1>4, <1>8

\* Whatever the host sends.
LEMMA HostTells ==
    ASSUME NEW e, IsEmulator(e), e.told = <<>>, NEW m \in Messages
    PROVE  Tells(e, HandleHostMessage(Spec, e, m))
<1>1. Tells(e, e)
  BY NothingTold
<1>2. \A kind, byte, colour, channel : Tells(e, SetPalette(Spec, e, kind, byte, colour, channel))
  BY <1>1, WriteTells DEF SetPalette
<1>3. ASSUME NEW mode PROVE Tells(e, SetMode(e, mode))
  <2> DEFINE next == IF mode = Programmer THEN Programmer ELSE Live
             f == [e EXCEPT !.mode = next]
  <2>. HIDE DEF next
  <2>1. IsEmulator(f) /\ f.told = <<>> /\ f.leds = e.leds
    BY DEF IsEmulator
  <2>2. Tells(f, ClearAllLeds(f))
    BY <2>1, ClearTells
  <2>3. Tells(e, ClearAllLeds(f))
    BY <2>1, <2>2 DEF Tells
  <2>4. SetMode(e, mode) = e \/ SetMode(e, mode) = ClearAllLeds(f)
    BY DEF SetMode, next
  <2>. QED BY <1>1, <2>3, <2>4
<1>4. ASSUME NEW x PROVE Tells(e, [e EXCEPT !.out = x])
  <2> DEFINE f == [e EXCEPT !.out = x]
  <2>1. IsEmulator(f) /\ f.told = e.told /\ f.leds = e.leds
    BY DEF IsEmulator
  <2>. HIDE DEF f
  <2>2. Tells(e, f)
    BY <1>1, <2>1 DEF Tells
  <2>. QED BY <2>2 DEF f
<1>5. ASSUME m.is = "leds" PROVE Tells(e, WriteLeds(e, Writes(m.body)))
  BY <1>1, <1>5, LedsAssumption, WritesEnd, AllTell
<1>6. CASE m.is = "off"
  BY <1>2, <1>6 DEF HandleHostMessage
<1>7. CASE m.is \in {"note", "cc"}
  BY <1>2, <1>7 DEF HandleHostMessage
<1>8. CASE m.is = "inquiry"
  BY <1>4, <1>8 DEF HandleHostMessage
<1>9. CASE m.is = "mode"
  BY <1>3, <1>9 DEF HandleHostMessage
<1>10. CASE m.is = "leds"
  BY <1>5, <1>10 DEF HandleHostMessage
<1>11. CASE m.is \notin {"off", "note", "cc", "inquiry", "mode", "leds"}
  BY <1>1, <1>11 DEF HandleHostMessage
<1>. QED BY <1>6, <1>7, <1>8, <1>9, <1>10, <1>11

-----------------------------------------------------------------------------
(* What the Broadcaster keeps until the end of the turn, and its packets.  *)

\* A key has room for the LEDs of a Launchpad.
Small == Leds \subseteq 0..255

LEMMA KeyFacts ==
    ASSUME Small, NEW d \in Devices, NEW l \in Leds
    PROVE  /\ Key(d, l) \div 256 = d /\ Key(d, l) % 256 = l
           /\ \A e \in Devices, k \in Leds : Key(e, k) = Key(d, l) <=> e = d /\ k = l
<1>1. \A e \in Devices, k \in Leds : e \in 0..255 /\ k \in 0..255 /\ Key(e, k) = e * 256 + k
  BY LedsAssumption DEF Small, Key
<1>2. \A x, y \in 0..255 : (x * 256 + y) \div 256 = x /\ (x * 256 + y) % 256 = y
  OBVIOUS
<1>4. d \in 0..255 /\ l \in 0..255 /\ Key(d, l) = d * 256 + l
  BY <1>1
<1>5. (d * 256 + l) \div 256 = d /\ (d * 256 + l) % 256 = l
  BY <1>2, <1>4
<1>6. ASSUME NEW e \in Devices, NEW k \in Leds PROVE Key(e, k) = Key(d, l) <=> e = d /\ k = l
  <2>1. e \in 0..255 /\ k \in 0..255 /\ Key(e, k) = e * 256 + k
    BY <1>1
  <2>2. e * 256 + k = d * 256 + l => e = d /\ k = l
    BY <1>4, <2>1
  <2>. QED BY <1>4, <2>1, <2>2
<1>. QED BY <1>4, <1>5, <1>6

IsQueue(q) ==
    /\ q = [k \in DOMAIN q |-> q[k]]
    /\ \A k \in DOMAIN q : \E d \in Devices, l \in Leds : k = Key(d, l)

LEMMA LastWord ==
    ASSUME NEW news, Len(news) \in Nat, NEW l, Mentions(news, l)
    PROVE  \E i \in 1..Len(news) : news[i][1] = l /\ IsLast(news, i)
<1> DEFINE n == Len(news)
           T == {k \in 0..n : news[n - k][1] = l /\ n - k \in 1..n}
<1>1. PICK j \in 1..n : news[j][1] = l
  BY DEF Mentions
<1>. HIDE DEF n
<1>2. n \in Nat
  BY DEF n
<1>3. n - j \in T
  <2>1. n - (n - j) = j /\ n - j \in 0..n
    BY <1>2
  <2>. QED BY <1>1, <2>1
<1>4. PICK k \in T : \A m \in T : k <= m
  <2>1. T \subseteq Nat /\ T # {}
    BY <1>3
  <2>. HIDE DEF T
  <2>. QED BY <2>1, LeastOf
<1> DEFINE i == n - k
<1>5. i \in 1..n /\ news[i][1] = l /\ k \in 0..n
  BY <1>4
<1>6. ASSUME NEW m \in 1..n, news[m][1] = l PROVE m <= i
  <2>1. n - (n - m) = m /\ n - m \in 0..n
    BY <1>2
  <2>2. n - m \in T
    BY <1>6, <2>1
  <2>3. k <= n - m
    BY <1>4, <2>2
  <2>. QED BY <1>2, <1>5, <2>3
<1>. HIDE DEF i
<1>7. IsLast(news, i)
  BY <1>5, <1>6 DEF IsLast, n
<1>. QED BY <1>5, <1>7 DEF n

\* r is q and the last word of d's LEDs.
Holds(q, d, news, r) ==
    /\ IsQueue(r)
    /\ \A e \in Devices, l \in Leds :
        /\ Key(e, l) \in DOMAIN r <=> Key(e, l) \in DOMAIN q \/ (e = d /\ Mentions(news, l))
        /\ Key(e, l) \in DOMAIN q /\ ~(e = d /\ Mentions(news, l)) => r[Key(e, l)] = q[Key(e, l)]
    /\ \A i \in 1..Len(news) : IsLast(news, i) => r[Key(d, news[i][1])] = news[i][2]

LEMMA Queued ==
    ASSUME Small, NEW q, IsQueue(q), NEW d \in Devices,
           NEW news, Len(news) \in Nat, DOMAIN news = 1..Len(news), \A i \in 1..Len(news) : news[i][1] \in Leds,
           NEW r, r = QueueLeds(q, d, news)
    PROVE  Holds(q, d, news, r)
<1> DEFINE At_(k) == {i \in DOMAIN news : Key(d, news[i][1]) = k}
           Latest(k) == CHOOSE i \in At_(k) : \A j \in At_(k) : j <= i
           K == {Key(d, news[i][1]) : i \in DOMAIN news}
           Value(k) == IF At_(k) = {} THEN q[k] ELSE news[Latest(k)][2]
<1>1. r = [k \in DOMAIN q \cup K |-> Value(k)]
  BY DEF QueueLeds
<1>2. \A e \in Devices, l \in Leds : At_(Key(e, l)) = {i \in 1..Len(news) : e = d /\ news[i][1] = l}
  BY KeyFacts
<1>3. \A e \in Devices, l \in Leds : Key(e, l) \in K <=> e = d /\ Mentions(news, l)
  BY KeyFacts DEF Mentions
<1>4. \A e \in Devices, l \in Leds : At_(Key(e, l)) = {} <=> ~(e = d /\ Mentions(news, l))
  BY <1>2 DEF Mentions
<1>5. ASSUME NEW i \in 1..Len(news), IsLast(news, i)
      PROVE  Value(Key(d, news[i][1])) = news[i][2]
  <2> DEFINE l == news[i][1]
  <2>1. l \in Leds /\ At_(Key(d, l)) = {j \in 1..Len(news) : news[j][1] = l}
    BY <1>2
  <2>2. i \in At_(Key(d, l)) /\ \A j \in At_(Key(d, l)) : j <= i /\ j \in Nat
    BY <1>5, <2>1 DEF IsLast
  <2>3. Latest(Key(d, l)) = i
    <3>. HIDE DEF At_
    <3>. QED BY <2>2
  <2>. HIDE DEF At_, Latest
  <2>. QED BY <2>2, <2>3
<1>6. \A k \in K : \E l \in Leds : k = Key(d, l)
  OBVIOUS
<1>7. r = [k \in DOMAIN r |-> r[k]] /\ DOMAIN r = DOMAIN q \cup K /\ \A k \in DOMAIN r : r[k] = Value(k)
  <2>. HIDE DEF Value, K
  <2>. QED BY <1>1
<1>8. IsQueue(r)
  <2>. HIDE DEF K, Value
  <2>. QED BY <1>6, <1>7 DEF IsQueue
<1>9. ASSUME NEW i \in 1..Len(news), IsLast(news, i) PROVE r[Key(d, news[i][1])] = news[i][2]
  <2>1. Key(d, news[i][1]) \in DOMAIN r
    <3>. HIDE DEF Value
    <3>. QED BY <1>7
  <2>. HIDE DEF K, Value
  <2>. QED BY <1>5, <1>7, <1>9, <2>1
<1>10. ASSUME NEW e \in Devices, NEW l \in Leds
       PROVE  /\ Key(e, l) \in DOMAIN r <=> Key(e, l) \in DOMAIN q \/ (e = d /\ Mentions(news, l))
              /\ Key(e, l) \in DOMAIN q /\ ~(e = d /\ Mentions(news, l)) => r[Key(e, l)] = q[Key(e, l)]
  <2>. HIDE DEF At_, K, Latest
  <2>. QED BY <1>3, <1>4, <1>7
<1>. QED BY <1>8, <1>9, <1>10 DEF Holds

\* resyncHeadset() queues every LED of every emulator, and touches nothing else's.
LEMMA Replayed ==
    ASSUME Small, NEW q, IsQueue(q), NEW d \in Devices, NEW r, r = Replay(q, d)
    PROVE  /\ IsQueue(r)
           /\ \A l \in Leds : Key(d, l) \in DOMAIN r /\ r[Key(d, l)] = emu'[d].leds[l]
           /\ \A e \in Devices \ {d}, l \in Leds :
                /\ Key(e, l) \in DOMAIN r <=> Key(e, l) \in DOMAIN q
                /\ Key(e, l) \in DOMAIN q => r[Key(e, l)] = q[Key(e, l)]
<1> DEFINE news == [i \in DOMAIN Spec |-> <<Spec[i].id, emu'[d].leds[Spec[i].id]>>]
           n == Len(Spec)
<1>0. n \in Nat /\ DOMAIN Spec = 1..n
  BY LedsAssumption
<1>1. news = [i \in 1..n |-> news[i]] /\ \A i \in 1..n : news[i] = <<Spec[i].id, emu'[d].leds[Spec[i].id]>>
  BY <1>0
<1>2. r = QueueLeds(q, d, news)
  BY DEF Replay
<1>. HIDE DEF news, n
<1>3. Len(news) = n /\ DOMAIN news = 1..n
  BY <1>0, <1>1, Listed
<1>4. \A i \in 1..n : news[i][1] = Spec[i].id /\ news[i][2] = emu'[d].leds[Spec[i].id] /\ Spec[i].id \in Leds
  BY <1>0, <1>1 DEF Leds
<1>8. Holds(q, d, news, r)
  <2>1. Len(news) \in Nat /\ DOMAIN news = 1..Len(news) /\ \A i \in 1..Len(news) : news[i][1] \in Leds
    BY <1>0, <1>3, <1>4
  <2>. QED BY <1>2, <2>1, Queued
<1>5. \A l \in Leds : Mentions(news, l)
  BY <1>0, <1>3, <1>4 DEF Mentions, Leds
<1>6. ASSUME NEW l \in Leds PROVE r[Key(d, l)] = emu'[d].leds[l]
  <2>1. PICK i \in 1..n : news[i][1] = l /\ IsLast(news, i)
    BY <1>0, <1>3, <1>5, LastWord
  <2>2. r[Key(d, news[i][1])] = news[i][2]
    BY <1>3, <1>8, <2>1 DEF Holds
  <2>. QED BY <1>4, <2>1, <2>2
<1>. QED BY <1>5, <1>6, <1>8 DEF Holds

LEMMA Resynced ==
    ASSUME Small, IsQueue(queue), Resync
    PROVE  /\ IsQueue(queue')
           /\ \A d \in Devices, l \in Leds :
                IF devices'[d] = "ready" THEN Key(d, l) \in DOMAIN queue' /\ queue'[Key(d, l)] = emu'[d].leds[l]
                ELSE Key(d, l) \in DOMAIN queue' <=> Key(d, l) \in DOMAIN queue
<1> DEFINE S == {d \in Devices : devices'[d] = "ready"}
           ds == SetToSeq(S)
           n == Len(ds)
           Step(g, i) == IF i = 0 THEN queue ELSE Replay(g[i - 1], ds[i])
           Runs(g, k) == g = [i \in 0..k |-> Step(g, i)]
           Good(k) == \E g : Runs(g, k)
           after == CHOOSE g : Runs(g, n)
<1>0. n \in Nat /\ ds \in Seq(S) /\ \A d \in S : \E i \in 1..n : ds[i] = d
  <2>1. IsFiniteSet(0..255)
    <3>1. 0 \in Int /\ 255 \in Int
      OBVIOUS
    <3>. QED BY <3>1, FS_Interval
  <2>2. IsFiniteSet(S)
    BY <2>1, LedsAssumption, FS_Subset, ZenonT(60)
  <2>. HIDE DEF S
  <2>. QED BY <2>2, SetToSeqFacts
<1>1. Good(0)
  <2>1. Runs([i \in 0..0 |-> queue], 0)
    OBVIOUS
  <2>. HIDE DEF Runs
  <2>. QED BY <2>1
<1>2. ASSUME NEW k \in Nat, Good(k) PROVE Good(k + 1)
  <2>1. PICK g : Runs(g, k)
    BY <1>2
  <2> DEFINE more == [i \in 0..k + 1 |-> IF i = k + 1 THEN Step(g, k + 1) ELSE g[i]]
  <2>2. ASSUME NEW i \in 0..k + 1 PROVE more[i] = Step(more, i)
    <3>1. \A j \in 0..k : g[j] = Step(g, j) /\ more[j] = g[j]
      <4>. HIDE DEF Step
      <4>. QED BY <2>1
    <3>2. more[i] = Step(g, i)
      <4>1. i = k + 1 \/ i \in 0..k
        OBVIOUS
      <4>2. more[k + 1] = Step(g, k + 1)
        OBVIOUS
      <4>. HIDE DEF Step, more
      <4>. QED BY <3>1, <4>1, <4>2
    <3>3. CASE i = 0
      BY <3>2, <3>3
    <3>4. CASE i # 0
      <4>1. i - 1 \in 0..k
        BY <3>4
      <4>2. more[i - 1] = g[i - 1]
        <5>. HIDE DEF more, Step
        <5>. QED BY <3>1, <4>1
      <4>. HIDE DEF more
      <4>. QED BY <3>2, <3>4, <4>2
    <3>. QED BY <3>3, <3>4
  <2>3. Runs(more, k + 1)
    <3>. HIDE DEF Step
    <3>. QED BY <2>2
  <2>. HIDE DEF Runs, more
  <2>. QED BY <2>3
<1>3. Good(n)
  <2> DEFINE T == {k \in Nat : ~Good(k)}
  <2>. HIDE DEF Good, n
  <2>1. SUFFICES ASSUME T # {} PROVE FALSE
    BY <1>0
  <2>2. PICK k \in T : \A l \in T : k <= l
    <3>1. T \subseteq Nat
      OBVIOUS
    <3>. HIDE DEF T
    <3>. QED BY <2>1, <3>1, LeastOf
  <2>3. k - 1 \in Nat /\ ~(k <= k - 1)
    BY <1>1, <2>2
  <2>4. Good(k - 1)
    BY <2>2, <2>3
  <2>5. Good((k - 1) + 1)
    BY <1>2, <2>3, <2>4
  <2>. QED BY <2>2, <2>5
<1>4. queue' = after[n]
  BY DEF Resync
<1>5. Runs(after, n)
  <2>. HIDE DEF Runs
  <2>. QED BY <1>3
<1>. HIDE DEF after, n, ds
<1>6. after[0] = queue /\ \A i \in 1..n : after[i] = Replay(after[i - 1], ds[i])
  <2>1. \A i \in 0..n : after[i] = Step(after, i)
    <3>. HIDE DEF Step
    <3>. QED BY <1>5
  <2>. QED BY <1>0, <2>1
<1>7. \A i \in 1..n : ds[i] \in S
  BY <1>0, ElementOfSeq DEF n
<1> DEFINE Done(k, d) == \E j \in 1..k : ds[j] = d
           Fine(k) ==
                /\ IsQueue(after[k])
                /\ \A d \in Devices, l \in Leds :
                    /\ Done(k, d) => Key(d, l) \in DOMAIN after[k] /\ after[k][Key(d, l)] = emu'[d].leds[l]
                    /\ ~Done(k, d) => (Key(d, l) \in DOMAIN after[k] <=> Key(d, l) \in DOMAIN queue)
<1>8. Fine(0)
  BY <1>6
<1>9. ASSUME NEW k \in 1..n, Fine(k - 1) PROVE Fine(k)
  <2> DEFINE q == after[k - 1]
             r == after[k]
             e == ds[k]
  <2>1. IsQueue(q) /\ r = Replay(q, e) /\ e \in Devices
    BY <1>6, <1>7, <1>9
  <2>. HIDE DEF q, r, e
  <2>2. /\ IsQueue(r)
        /\ \A l \in Leds : Key(e, l) \in DOMAIN r /\ r[Key(e, l)] = emu'[e].leds[l]
        /\ \A d \in Devices \ {e}, l \in Leds :
                /\ Key(d, l) \in DOMAIN r <=> Key(d, l) \in DOMAIN q
                /\ Key(d, l) \in DOMAIN q => r[Key(d, l)] = q[Key(d, l)]
    BY <2>1, Replayed
  <2>3. ASSUME NEW d \in Devices, NEW l \in Leds
        PROVE  /\ Done(k, d) => Key(d, l) \in DOMAIN r /\ r[Key(d, l)] = emu'[d].leds[l]
               /\ ~Done(k, d) => (Key(d, l) \in DOMAIN r <=> Key(d, l) \in DOMAIN queue)
    <3>1. CASE d = e
      <4>1. Done(k, d)
        BY <1>0, <3>1 DEF e
      <4>. QED BY <2>2, <3>1, <4>1
    <3>2. CASE d # e
      <4>1. Done(k, d) <=> Done(k - 1, d)
        <5>1. \A j \in 1..k : j = k \/ j \in 1..k - 1
          BY <1>0
        <5>2. \A j \in 1..k - 1 : j \in 1..k
          BY <1>0
        <5>. QED BY <3>2, <5>1, <5>2 DEF e
      <4>2. /\ Done(k - 1, d) => Key(d, l) \in DOMAIN q /\ q[Key(d, l)] = emu'[d].leds[l]
            /\ ~Done(k - 1, d) => (Key(d, l) \in DOMAIN q <=> Key(d, l) \in DOMAIN queue)
        BY <1>9 DEF q
      <4>. HIDE DEF Done
      <4>. QED BY <2>2, <3>2, <4>1, <4>2
    <3>. QED BY <3>1, <3>2
  <2>. QED BY <2>2, <2>3 DEF r
<1>10. Fine(n)
  <2> DEFINE T == {k \in 0..n : ~Fine(k)}
  <2>. HIDE DEF Fine
  <2>1. SUFFICES ASSUME T # {} PROVE FALSE
    BY <1>0
  <2>2. PICK k \in T : \A l \in T : k <= l
    <3>1. T \subseteq Nat
      OBVIOUS
    <3>. HIDE DEF T
    <3>. QED BY <2>1, <3>1, LeastOf
  <2>3. k \in 1..n /\ ~(k <= k - 1) /\ k - 1 \in 0..n
    BY <1>0, <1>8, <2>2
  <2>4. Fine(k - 1)
    BY <2>2, <2>3
  <2>. QED BY <1>9, <2>2, <2>3, <2>4
<1>11. \A d \in Devices : devices'[d] = "ready" <=> Done(n, d)
  BY <1>0, <1>7
<1>. HIDE DEF Done
<1>. QED BY <1>4, <1>10, <1>11

IsPacket(p) ==
    \/ p.kind = "roster" /\ p.ids \subseteq Devices
    \/ p.kind = "leds" /\ p.id \in Devices /\ DOMAIN p.cells \subseteq Leds

\* flushLeds(): each device that has something in the queue gets one packet, with all of that.
LEMMA Packed ==
    ASSUME Small, NEW q, IsQueue(q), NEW p, p = Packets(q)
    PROVE  /\ IsSequence(p)
           /\ \A i \in 1..Len(p) : p[i].kind = "leds" /\ IsPacket(p[i])
           /\ \A i \in 1..Len(p) : \E l \in Leds : Key(p[i].id, l) \in DOMAIN q
           /\ \A i \in 1..Len(p), l \in Leds : l \in DOMAIN p[i].cells <=> Key(p[i].id, l) \in DOMAIN q
           /\ \A i \in 1..Len(p), l \in Leds : l \in DOMAIN p[i].cells => p[i].cells[l] = q[Key(p[i].id, l)]
           /\ \A d \in Devices, l \in Leds : Key(d, l) \in DOMAIN q => \E i \in 1..Len(p) : p[i].id = d
           /\ \A i, j \in 1..Len(p) : p[i].id = p[j].id => i = j
<1> DEFINE D == {k \div 256 : k \in DOMAIN q}
           ds == SetToSeq(D)
           C(d) == {k % 256 : k \in {j \in DOMAIN q : j \div 256 = d}}
           Of_(d) == [kind |-> "leds", id |-> d, cells |-> [l \in C(d) |-> q[Key(d, l)]]]
<1>1. p = [i \in DOMAIN ds |-> Of_(ds[i])]
  BY DEF Packets
<1>2. \A d : d \in D <=> d \in Devices /\ \E l \in Leds : Key(d, l) \in DOMAIN q
  <2>1. ASSUME NEW d, d \in D PROVE d \in Devices /\ \E l \in Leds : Key(d, l) \in DOMAIN q
    <3>1. PICK k \in DOMAIN q : d = k \div 256
      BY <2>1
    <3>2. PICK e \in Devices, l \in Leds : k = Key(e, l)
      BY DEF IsQueue
    <3>. QED BY <3>1, <3>2, KeyFacts
  <2>2. ASSUME NEW d \in Devices, NEW l \in Leds, Key(d, l) \in DOMAIN q PROVE d \in D
    <3>1. Key(d, l) \div 256 = d
      BY KeyFacts
    <3>. QED BY <2>2, <3>1
  <2>. QED BY <2>1, <2>2
<1>3. \A d \in Devices : \A l : l \in C(d) <=> l \in Leds /\ Key(d, l) \in DOMAIN q
  <2>1. ASSUME NEW d \in Devices, NEW l, l \in C(d) PROVE l \in Leds /\ Key(d, l) \in DOMAIN q
    <3>1. PICK k \in DOMAIN q : l = k % 256 /\ k \div 256 = d
      BY <2>1
    <3>2. PICK e \in Devices, m \in Leds : k = Key(e, m)
      BY DEF IsQueue
    <3>. QED BY <3>1, <3>2, KeyFacts
  <2>2. ASSUME NEW d \in Devices, NEW l \in Leds, Key(d, l) \in DOMAIN q PROVE l \in C(d)
    <3>1. Key(d, l) \div 256 = d /\ Key(d, l) % 256 = l
      BY KeyFacts
    <3>. QED BY <2>2, <3>1
  <2>. QED BY <2>1, <2>2
<1>. HIDE DEF D, C
<1>4. /\ ds \in Seq(D) /\ Len(ds) \in Nat /\ DOMAIN ds = 1..Len(ds)
      /\ \A d \in D : \E i \in 1..Len(ds) : ds[i] = d
      /\ \A i, j \in 1..Len(ds) : ds[i] = ds[j] => i = j
  <2>1. IsFiniteSet(0..255)
    <3>1. 0 \in Int /\ 255 \in Int
      OBVIOUS
    <3>. QED BY <3>1, FS_Interval
  <2>2. IsFiniteSet(D)
    BY <1>2, <2>1, LedsAssumption, FS_Subset, ZenonT(60)
  <2>. QED BY <2>2, SetToSeqFacts
<1>. HIDE DEF ds
<1>5. p = [i \in 1..Len(ds) |-> p[i]] /\ \A i \in 1..Len(ds) : p[i] = Of_(ds[i])
  <2>. HIDE DEF Of_
  <2>. QED BY <1>1, <1>4
<1>6. IsSequence(p) /\ Len(p) = Len(ds)
  BY <1>4, <1>5, Listed
<1>7. \A i \in 1..Len(p) : /\ p[i].kind = "leds" /\ p[i].id = ds[i] /\ DOMAIN p[i].cells = C(ds[i])
                           /\ \A l \in C(ds[i]) : p[i].cells[l] = q[Key(ds[i], l)]
  <2>1. SUFFICES ASSUME NEW i \in 1..Len(p)
                 PROVE  /\ p[i].kind = "leds" /\ p[i].id = ds[i] /\ DOMAIN p[i].cells = C(ds[i])
                        /\ \A l \in C(ds[i]) : p[i].cells[l] = q[Key(ds[i], l)]
    OBVIOUS
  <2> DEFINE d == ds[i]
             cells == [l \in C(d) |-> q[Key(d, l)]]
  <2>2. p[i] = [kind |-> "leds", id |-> d, cells |-> cells]
    BY <1>5, <1>6
  <2>3. DOMAIN cells = C(d) /\ \A l \in C(d) : cells[l] = q[Key(d, l)]
    OBVIOUS
  <2>. HIDE DEF cells
  <2>4. p[i].kind = "leds" /\ p[i].id = d /\ p[i].cells = cells
    BY <2>2
  <2>. QED BY <2>3, <2>4
<1>8. \A i \in 1..Len(p) : p[i].id = ds[i] /\ ds[i] \in Devices /\ \E l \in Leds : Key(ds[i], l) \in DOMAIN q
  BY <1>2, <1>4, <1>6, <1>7, ElementOfSeq
<1>9. \A i \in 1..Len(p) : \A l : l \in DOMAIN p[i].cells <=> l \in Leds /\ Key(p[i].id, l) \in DOMAIN q
  BY <1>3, <1>7, <1>8
<1>10. \A i \in 1..Len(p) : IsPacket(p[i])
  BY <1>7, <1>8, <1>9 DEF IsPacket
<1>11. \A i \in 1..Len(p), l \in Leds : l \in DOMAIN p[i].cells => p[i].cells[l] = q[Key(p[i].id, l)]
  BY <1>7
<1>12. \A d \in Devices, l \in Leds : Key(d, l) \in DOMAIN q => \E i \in 1..Len(p) : p[i].id = d
  BY <1>2, <1>4, <1>6, <1>7
<1>13. \A i, j \in 1..Len(p) : p[i].id = p[j].id => i = j
  BY <1>4, <1>6, <1>7
<1>. QED BY <1>6, <1>7, <1>8, <1>9, <1>10, <1>11, <1>12, <1>13

-----------------------------------------------------------------------------
(* Lights that arrive: over a WebSocket, which keeps the order.            *)

Shows(d, l) == IF There(d) THEN surface[d].base[l] ELSE Dark
Wanted(d, l) == emu[d].leds[l]

Carries(i, d, l) == down[i].kind = "leds" /\ down[i].id = d /\ l \in DOMAIN down[i].cells
Names(i, d) == down[i].kind = "roster" /\ d \in down[i].ids

\* A surface is there, or a roster that makes it is under way; and when the i-th packet comes.
Coming(d) == There(d) \/ \E i \in 1..Len(down) : Names(i, d)
Lands(i, d) == There(d) \/ \E j \in 1..Len(down) : j < i /\ Names(j, d)

\* The last that the headset hears of an LED, in the queue, under way or heard, is what it should show.
Told(d, l) ==
    \/ Key(d, l) \in DOMAIN queue /\ queue[Key(d, l)] = Wanted(d, l)
    \/ /\ Key(d, l) \notin DOMAIN queue
       /\ \E i \in 1..Len(down) : /\ Carries(i, d, l) /\ \A j \in 1..Len(down) : Carries(j, d, l) => j <= i
                                  /\ Lands(i, d) /\ down[i].cells[l] = Wanted(d, l)
    \/ /\ Key(d, l) \notin DOMAIN queue /\ \A i \in 1..Len(down) : ~Carries(i, d, l)
       /\ Shows(d, l) = Wanted(d, l)

\* No hello is still to come, after which all is told again, and no removal.
Settled(d) ==
    online /\ \A i \in 1..Len(up) : up[i].kind # "hello" /\ ~(up[i].kind = "remove" /\ up[i].id = d)

\* Nothing has been heard of a device, or is under way.
DarkSoFar(d) ==
    /\ \A l \in Leds : Shows(d, l) = Dark /\ Key(d, l) \notin DOMAIN queue
    /\ \A i \in 1..Len(down) : ~(down[i].kind = "leds" /\ down[i].id = d)

DeviceTypes == devices \in [Devices -> {"none", "pending", "ready"}] /\ online \in BOOLEAN
EmuTypes == emu = [d \in Devices |-> emu[d]] /\ \A d \in Devices : IsEmulator(emu[d]) /\ emu[d].told = <<>>
DownTypes == IsSequence(down) /\ \A i \in 1..Len(down) : IsPacket(down[i])
Requests == [kind : {"hello"}, id : {CHOOSE d \in Devices : TRUE}] \cup [kind : {"add", "remove"}, id : Devices]
UpTypes == up \in Seq(Requests)
BaseTypes == \A d \in Devices : There(d) => surface[d].base = [l \in Leds |-> surface[d].base[l]]
OrderTypes == DeviceTypes /\ EmuTypes /\ IsQueue(queue) /\ DownTypes /\ UpTypes /\ BaseTypes

\* A surface that is there was claimed; an emulator that is not running is dark.
Grounds(d) ==
    /\ There(d) => d \in claimed
    /\ devices[d] # "ready" => \A l \in Leds : Wanted(d, l) = Dark

\* Nothing is shown of a device that is still opening, unless it is excused.
OpensDark(d) == d \notin excused /\ devices[d] = "pending" => DarkSoFar(d)

\* A device of the bridge has a surface, or gets one.
HasSurface(d) == devices[d] # "none" /\ Settled(d) => Coming(d)

\* And the lights that it should have.
IsTold(d) == d \notin excused /\ devices[d] = "ready" /\ Settled(d) => \A l \in Leds : Told(d, l)

Fine(d) == Grounds(d) /\ OpensDark(d) /\ HasSurface(d) /\ IsTold(d)
InOrder == OrderTypes /\ \A d \in Devices : Fine(d)
LightsInv == LedsInv /\ rtc \in BOOLEAN /\ (~rtc => InOrder)

-----------------------------------------------------------------------------
\* Only rosters are sent after what is under way.
RostersFollow ==
    /\ IsSequence(down') /\ Len(down) <= Len(down')
    /\ \A i \in 1..Len(down) : down'[i] = down[i]
    /\ \A i \in 1..Len(down') : i > Len(down) => down'[i].kind = "roster" /\ down'[i].ids \subseteq Devices

LEMMA NothingFollows == ASSUME DownTypes, UNCHANGED down PROVE RostersFollow
  BY Elements DEF DownTypes, RostersFollow

LEMMA RosterFollows ==
    ASSUME DownTypes, Push(<<Roster(devices')>>)
    PROVE  /\ RostersFollow
           /\ online => \A d \in Devices : devices'[d] # "none" => \E i \in 1..Len(down') : Names(i, d)'
<1> DEFINE r == Roster(devices')
<1>0. r.kind = "roster" /\ r.ids = {d \in Devices : devices'[d] # "none"}
  BY DEF Roster
<1>1. CASE ~online
  BY <1>1, NothingFollows DEF Push
<1>2. CASE online
  <2>. HIDE DEF r
  <2>1. down' = down \o <<r>>
    BY <1>2 DEF Push, r
  <2>2. IsSequence(<<r>>) /\ Len(<<r>>) = 1 /\ <<r>>[1] = r
    <3>1. <<r>> \in Seq({r})
      OBVIOUS
    <3>. QED BY <3>1, SequenceOf
  <2> DEFINE n == Len(down)
  <2>3. /\ IsSequence(down') /\ n \in Nat /\ Len(down') = n + 1
        /\ \A i \in 1..n : down'[i] = down[i]
        /\ down'[n + 1] = r
    BY <2>1, <2>2, Concatenated DEF DownTypes
  <2>. HIDE DEF n
  <2>4. \A i \in 1..n + 1 : i > n => i = n + 1
    BY <2>3
  <2>5. RostersFollow
    BY <1>0, <2>3, <2>4 DEF RostersFollow, n
  <2>6. ASSUME NEW d \in Devices, devices'[d] # "none" PROVE \E i \in 1..Len(down') : Names(i, d)'
    <3>1. PICK i \in 1..Len(down') : i = n + 1
      BY <2>3
    <3>2. Names(i, d)'
      BY <1>0, <2>3, <2>6, <3>1 DEF Names
    <3>. QED BY <3>2
  <2>. QED BY <2>5, <2>6
<1>. QED BY <1>1, <1>2

LEMMA FollowersAreTyped == ASSUME DownTypes, RostersFollow PROVE DownTypes'
<1>1. Len(down) \in Nat /\ Len(down') \in Nat
  BY Elements DEF DownTypes, RostersFollow
<1>2. ASSUME NEW i \in 1..Len(down') PROVE IsPacket(down'[i])
  BY <1>1 DEF DownTypes, RostersFollow, IsPacket
<1>. QED BY <1>2 DEF DownTypes, RostersFollow

SameInQueue(d, l) ==
    /\ Key(d, l) \in DOMAIN queue' <=> Key(d, l) \in DOMAIN queue
    /\ Key(d, l) \in DOMAIN queue => queue'[Key(d, l)] = queue[Key(d, l)]

LEMMA ComingKept ==
    ASSUME DownTypes, RostersFollow, NEW d, There(d) => There(d)', Coming(d)
    PROVE  Coming(d)'
<1>1. Len(down) \in Nat /\ Len(down') \in Nat
  BY Elements DEF DownTypes, RostersFollow
<1>2. ASSUME NEW i \in 1..Len(down), Names(i, d) PROVE i \in 1..Len(down') /\ Names(i, d)'
  BY <1>1, <1>2 DEF RostersFollow, Names
<1>. QED BY <1>2 DEF Coming

LEMMA ToldKept ==
    ASSUME DownTypes, RostersFollow, NEW d, NEW l, There(d) => There(d)',
           Shows(d, l)' = Shows(d, l), Wanted(d, l)' = Wanted(d, l), SameInQueue(d, l), Told(d, l)
    PROVE  Told(d, l)'
<1>1. Len(down) \in Nat /\ Len(down') \in Nat
  BY Elements DEF DownTypes, RostersFollow
<1>2. \A i \in 1..Len(down') : i \in 1..Len(down) \/ ~Carries(i, d, l)'
  BY <1>1 DEF RostersFollow, Carries
<1>3. \A i \in 1..Len(down) : i \in 1..Len(down') /\ down'[i] = down[i]
  BY <1>1 DEF RostersFollow
<1>4. \A i \in 1..Len(down) : (Carries(i, d, l)' <=> Carries(i, d, l)) /\ (Names(i, d)' <=> Names(i, d))
  BY <1>3 DEF Carries, Names
<1>5. \A i \in 1..Len(down) : Lands(i, d) => Lands(i, d)'
  BY <1>3, <1>4 DEF Lands
<1>6. CASE Key(d, l) \in DOMAIN queue
  BY <1>6 DEF Told, SameInQueue
<1>7. CASE Key(d, l) \notin DOMAIN queue /\ \E i \in 1..Len(down) : Carries(i, d, l)
  <2>1. PICK i \in 1..Len(down) : /\ Carries(i, d, l) /\ \A j \in 1..Len(down) : Carries(j, d, l) => j <= i
                                  /\ Lands(i, d) /\ down[i].cells[l] = Wanted(d, l)
    BY <1>7 DEF Told
  <2>2. \A j \in 1..Len(down') : Carries(j, d, l)' => j <= i
    BY <1>2, <1>4, <2>1
  <2>3. Carries(i, d, l)' /\ Lands(i, d)' /\ down'[i].cells[l] = Wanted(d, l)' /\ i \in 1..Len(down')
    BY <1>3, <1>4, <1>5, <2>1
  <2>4. Key(d, l) \notin DOMAIN queue'
    BY <1>7 DEF SameInQueue
  <2>. QED BY <2>2, <2>3, <2>4 DEF Told
<1>8. CASE Key(d, l) \notin DOMAIN queue /\ \A i \in 1..Len(down) : ~Carries(i, d, l)
  <2>1. Shows(d, l)' = Wanted(d, l)'
    BY <1>8 DEF Told
  <2>2. \A i \in 1..Len(down') : ~Carries(i, d, l)'
    BY <1>2, <1>4, <1>8
  <2>3. Key(d, l) \notin DOMAIN queue'
    BY <1>8 DEF SameInQueue
  <2>. QED BY <2>1, <2>2, <2>3 DEF Told
<1>. QED BY <1>6, <1>7, <1>8

LEMMA DarkKept ==
    ASSUME DownTypes, RostersFollow, NEW d, \A l \in Leds : Shows(d, l)' = Shows(d, l) \/ Shows(d, l)' = Dark,
           \A l \in Leds : Key(d, l) \in DOMAIN queue' => Key(d, l) \in DOMAIN queue, DarkSoFar(d)
    PROVE  DarkSoFar(d)'
<1>1. Len(down) \in Nat /\ Len(down') \in Nat
  BY Elements DEF DownTypes, RostersFollow
<1>2. ASSUME NEW i \in 1..Len(down') PROVE ~(down'[i].kind = "leds" /\ down'[i].id = d)
  <2>1. CASE i \in 1..Len(down)
    BY <2>1 DEF RostersFollow, DarkSoFar
  <2>2. CASE i \notin 1..Len(down)
    BY <1>1, <2>2 DEF RostersFollow
  <2>. QED BY <2>1, <2>2
<1>3. \A l \in Leds : Shows(d, l)' = Dark /\ Key(d, l) \notin DOMAIN queue'
  BY DEF DarkSoFar
<1>. QED BY <1>2, <1>3 DEF DarkSoFar

\* What is dark is told, once its emulator is dark.
LEMMA DarkIsTold ==
    ASSUME NEW d, DarkSoFar(d)', \A l \in Leds : Wanted(d, l)' = Dark
    PROVE  \A l \in Leds : Told(d, l)'
<1> SUFFICES ASSUME NEW l \in Leds PROVE Told(d, l)'
  OBVIOUS
<1>1. Key(d, l) \notin DOMAIN queue' /\ Shows(d, l)' = Wanted(d, l)' /\ \A i \in 1..Len(down') : ~Carries(i, d, l)'
  BY DEF DarkSoFar, Carries
<1>. QED BY <1>1 DEF Told

\* A device that a step does not concern.
Calm(d) ==
    /\ devices'[d] = devices[d] /\ (d \in excused => d \in excused')
    /\ Settled(d)' => Settled(d)
    /\ There(d) => There(d)'
    /\ There(d)' => There(d) \/ d \in claimed'
    /\ d \in claimed => d \in claimed'
    /\ \A l \in Leds : Shows(d, l)' = Shows(d, l) /\ Wanted(d, l)' = Wanted(d, l) /\ SameInQueue(d, l)

LEMMA CalmIsFine == ASSUME DownTypes, RostersFollow, NEW d, Calm(d), Fine(d) PROVE Fine(d)'
<1>1. Grounds(d)'
  BY DEF Fine, Grounds, Calm
<1>2. OpensDark(d)'
  <2> SUFFICES ASSUME d \notin excused', devices'[d] = "pending" PROVE DarkSoFar(d)'
    BY DEF OpensDark
  <2>1. DarkSoFar(d)
    BY DEF Calm, Fine, OpensDark
  <2>. QED BY <2>1, DarkKept DEF Calm, SameInQueue
<1>3. HasSurface(d)'
  <2> SUFFICES ASSUME devices'[d] # "none", Settled(d)' PROVE Coming(d)'
    BY DEF HasSurface
  <2>1. Coming(d)
    BY DEF Calm, Fine, HasSurface
  <2>. QED BY <2>1, ComingKept DEF Calm
<1>4. IsTold(d)'
  <2> SUFFICES ASSUME d \notin excused', devices'[d] = "ready", Settled(d)', NEW l \in Leds PROVE Told(d, l)'
    BY DEF IsTold
  <2>1. Told(d, l)
    BY DEF Calm, Fine, IsTold
  <2>. QED BY <2>1, ToldKept DEF Calm
<1>. QED BY <1>1, <1>2, <1>3, <1>4 DEF Fine

LEMMA AllFine == ASSUME OrderTypes', \A d \in Devices : Fine(d)' PROVE InOrder'
  BY DEF InOrder

\* No device comes: nobody is excused for what is remembered of it.
LEMMA NoneFresh ==
    ASSUME UNCHANGED devices, NEW A, NEW sorry, NEW forgiven, OneStep(A, sorry, forgiven)
    PROVE  excused' = (excused \cup sorry) \ forgiven
<1>1. Fresh = {}
  BY DEF Fresh
<1>. QED BY <1>1 DEF OneStep

\* Steps after which the surfaces are as they were, but for what is drawn.
LEMMA SameBases ==
    ASSUME InOrder, UNCHANGED <<devices, emu, queue, down, up, online, claimed, excused>>,
           \A d \in Devices : (There(d)' <=> There(d)) /\ (There(d) => surface'[d].base = surface[d].base)
    PROVE  InOrder'
<1>1. OrderTypes'
  BY DEF InOrder, OrderTypes, DeviceTypes, EmuTypes, DownTypes, UpTypes, BaseTypes
<1>2. RostersFollow /\ DownTypes
  BY NothingFollows DEF InOrder, OrderTypes
<1>3. ASSUME NEW d \in Devices PROVE Fine(d)'
  <2>1. Calm(d)
    BY DEF Calm, Settled, Shows, Wanted, SameInQueue
  <2>. QED BY <1>2, <2>1, CalmIsFine DEF InOrder
<1>. QED BY <1>1, <1>3, AllFine

LEMMA FingerInOrder ==
    ASSUME LedsInv, InOrder, NEW d \in Devices, NEW l, OneStep(Touch(d, l) \/ Lift(d, l), {}, {})
    PROVE  InOrder'
<1>1. (Touch(d, l) \/ Lift(d, l)) /\ UNCHANGED <<devices, emu, queue, down, up, online, claimed, excused>>
  <2>1. Touch(d, l) \/ Lift(d, l)
    BY DEF OneStep
  <2>2. UNCHANGED <<devices, emu, queue, down, up, online, claimed>>
    BY <2>1 DEF Touch, Lift, bridgeVars, linkVars
  <2>3. excused' = excused
    BY <2>2, NoneFresh
  <2>. QED BY <2>1, <2>2, <2>3
<1>2. PICK held : surface' = [surface EXCEPT ![d] = [surface[d] EXCEPT !.held = held, !.press[l] = Fade, !.dirty = TRUE]]
  BY <1>1, ZenonT(60) DEF Touch, Lift
<1>3. IsLedState(surface[d])
  BY <1>1, ThereFacts DEF Touch, Lift, LedsInv
<1> DEFINE t == [surface[d] EXCEPT !.held = held, !.press[l] = Fade, !.dirty = TRUE]
<1>4. t.there = TRUE /\ surface[d].there = TRUE /\ t.base = surface[d].base
  BY <1>3 DEF IsLedState
<1>. HIDE DEF t
<1>5. surface = [e \in Devices |-> surface[e]] /\ surface' = [surface EXCEPT ![d] = t]
  BY <1>2 DEF LedsInv, t
<1>6. \A e \in Devices : surface'[e] = IF e = d THEN t ELSE surface[e]
  BY <1>5
<1>7. \A e \in Devices : (There(e)' <=> There(e)) /\ (There(e) => surface'[e].base = surface[e].base)
  BY <1>4, <1>6 DEF There
<1>. QED BY <1>1, <1>7, SameBases

LEMMA DrawInOrder ==
    ASSUME LedsInv, InOrder, NEW d \in Devices, NEW flashOn \in BOOLEAN, OneStep(Draw(d, flashOn), {}, {})
    PROVE  InOrder'
<1>1. Draw(d, flashOn) /\ UNCHANGED <<devices, emu, queue, down, up, online, claimed, excused>>
  <2>1. Draw(d, flashOn)
    BY DEF OneStep
  <2>2. UNCHANGED <<devices, emu, queue, down, up, online, claimed>>
    BY <2>1 DEF Draw, bridgeVars, linkVars
  <2>3. excused' = excused
    BY <2>2, NoneFresh
  <2>. QED BY <2>1, <2>2, <2>3
<1>2. PICK press, drawn : surface' = [surface EXCEPT ![d] = [surface[d] EXCEPT !.press = press, !.dirty = FALSE, !.drawn = drawn]]
  BY <1>1 DEF Draw
<1>3. IsLedState(surface[d])
  BY <1>1, ThereFacts DEF Draw, LedsInv
<1> DEFINE t == [surface[d] EXCEPT !.press = press, !.dirty = FALSE, !.drawn = drawn]
<1>4. t.there = TRUE /\ surface[d].there = TRUE /\ t.base = surface[d].base
  BY <1>3 DEF IsLedState
<1>. HIDE DEF t
<1>5. surface = [e \in Devices |-> surface[e]] /\ surface' = [surface EXCEPT ![d] = t]
  BY <1>2 DEF LedsInv, t
<1>6. \A e \in Devices : surface'[e] = IF e = d THEN t ELSE surface[e]
  BY <1>5
<1>7. \A e \in Devices : (There(e)' <=> There(e)) /\ (There(e) => surface'[e].base = surface[e].base)
  BY <1>4, <1>6 DEF There
<1>. QED BY <1>1, <1>7, SameBases

\* What is cleared is excused.
LEMMA ClearInOrder ==
    ASSUME LedsInv, InOrder, OneStep(AllNotesOff, {d \in Devices : There(d)}, {})
    PROVE  InOrder'
<1>1. AllNotesOff /\ UNCHANGED <<devices, emu, queue, down, up, online, claimed>>
      /\ excused' = (excused \cup {d \in Devices : There(d)}) \ {}
  <2>1. AllNotesOff
    BY DEF OneStep
  <2>2. UNCHANGED <<devices, emu, queue, down, up, online, claimed>>
    BY <2>1 DEF AllNotesOff, bridgeVars, linkVars
  <2>3. excused' = (excused \cup {d \in Devices : There(d)}) \ {}
    BY <2>2, NoneFresh
  <2>. QED BY <2>1, <2>2, <2>3
<1>2. \A d \in Devices : surface'[d] = IF There(d) THEN Clear(surface[d]) ELSE surface[d]
  BY <1>1 DEF AllNotesOff
<1>3. ASSUME NEW d \in Devices, There(d)
      PROVE  Clear(surface[d]).there = TRUE /\ Clear(surface[d]).base = [l \in Leds |-> Dark]
  <2>1. IsLedState(surface[d])
    BY <1>3, ThereFacts DEF LedsInv
  <2>. QED BY <2>1 DEF Clear, IsLedState
<1>4. ASSUME NEW d \in Devices
      PROVE  /\ There(d)' <=> There(d)
             /\ ~There(d) => surface'[d] = surface[d]
             /\ There(d) => surface'[d].base = [l \in Leds |-> Dark]
  BY <1>2, <1>3 DEF There
<1>5. OrderTypes'
  <2>1. BaseTypes'
    BY <1>4 DEF BaseTypes
  <2>. QED BY <1>1, <2>1 DEF InOrder, OrderTypes, DeviceTypes, EmuTypes, DownTypes, UpTypes
<1>6. RostersFollow /\ DownTypes
  BY <1>1, NothingFollows DEF InOrder, OrderTypes
<1>7. ASSUME NEW d \in Devices PROVE Fine(d)'
  <2>0. Fine(d)
    BY DEF InOrder
  <2>1. CASE There(d)
    <3>1. d \in excused'
      BY <1>1, <2>1
    <3>2. Grounds(d)'
      BY <1>1, <1>4, <2>0 DEF Fine, Grounds, Wanted
    <3>3. HasSurface(d)'
      BY <1>4, <2>1 DEF HasSurface, Coming
    <3>. QED BY <3>1, <3>2, <3>3 DEF Fine, OpensDark, IsTold
  <2>2. CASE ~There(d)
    <3>1. Calm(d)
      BY <1>1, <1>4, <2>2 DEF Calm, Settled, Shows, Wanted, SameInQueue
    <3>. QED BY <1>6, <2>0, <3>1, CalmIsFine
  <2>. QED BY <2>1, <2>2
<1>. QED BY <1>5, <1>7, AllFine

\* A request to the bridge, after the others.
LEMMA Asked ==
    ASSUME UpTypes, NEW kind \in {"add", "remove"}, NEW d \in Devices, Ask(<<[kind |-> kind, id |-> d]>>),
           DeviceTypes, UNCHANGED online
    PROVE  /\ UpTypes'
           /\ \A e \in Devices : Settled(e)' => Settled(e)
           /\ kind = "remove" => ~Settled(d)'
<1> DEFINE m == [kind |-> kind, id |-> d]
<1>1. CASE ~online
  BY <1>1 DEF Ask, Settled, UpTypes
<1>2. CASE online
  <2>0. m \in Requests /\ m.kind = kind /\ m.id = d
    BY DEF Requests
  <2>. HIDE DEF m
  <2>1. up' = up \o <<m>> /\ up \in Seq(Requests) /\ <<m>> \in Seq(Requests)
    BY <1>2, <2>0 DEF Ask, UpTypes, m
  <2>2. up' = Append(up, m)
    BY <2>1
  <2> DEFINE n == Len(up)
  <2>3. /\ up' \in Seq(Requests) /\ n \in Nat /\ Len(up') = n + 1 /\ up'[n + 1] = m
        /\ \A i \in 1..n : up'[i] = up[i]
    BY <2>0, <2>1, <2>2
  <2>. HIDE DEF n
  <2>4. \A i \in 1..n : i \in 1..Len(up')
    BY <2>3
  <2>5. ASSUME NEW e \in Devices, Settled(e)' PROVE Settled(e)
    BY <1>2, <2>3, <2>4, <2>5 DEF Settled, n
  <2>6. ASSUME kind = "remove" PROVE ~Settled(d)'
    <3>1. n + 1 \in 1..Len(up')
      BY <2>3
    <3>. QED BY <2>0, <2>3, <2>6, <3>1 DEF Settled
  <2>. QED BY <2>3, <2>5, <2>6 DEF UpTypes
<1>. QED BY <1>1, <1>2 DEF DeviceTypes

LEMMA AddInOrder ==
    ASSUME LedsInv, InOrder, NEW d \in Devices, OneStep(AddDevice(d), {}, {})
    PROVE  InOrder'
<1>1. AddDevice(d) /\ UNCHANGED <<devices, emu, queue, down, online, excused>>
  <2>1. AddDevice(d)
    BY DEF OneStep
  <2>2. UNCHANGED <<devices, emu, queue, down, online>>
    BY <2>1 DEF AddDevice, bridgeVars
  <2>3. excused' = excused
    BY <2>2, NoneFresh
  <2>. QED BY <2>1, <2>2, <2>3
<1>2. ~There(d) /\ claimed' = claimed \cup {d}
  BY <1>1 DEF AddDevice, InOrder, Fine, Grounds
<1>3. \A e \in Devices : surface'[e] = IF e = d THEN NewSurface ELSE surface[e]
  <2>1. surface = [e \in Devices |-> surface[e]] /\ surface' = [surface EXCEPT ![d] = NewSurface]
    BY <1>1 DEF AddDevice, LedsInv
  <2>. QED BY <2>1
<1>4. NewSurface.there = TRUE /\ NewSurface.base = [l \in Leds |-> Dark]
  BY DEF NewSurface
<1>5. UpTypes' /\ \A e \in Devices : Settled(e)' => Settled(e)
  BY <1>1, Asked DEF AddDevice, InOrder, OrderTypes
<1>6. \A e \in Devices : /\ There(e) => There(e)'
                         /\ There(e)' => There(e) \/ e \in claimed'
                         /\ \A l \in Leds : Shows(e, l)' = Shows(e, l)
  BY <1>2, <1>3, <1>4 DEF There, Shows
<1>7. OrderTypes'
  <2>1. BaseTypes'
    BY <1>3, <1>4 DEF BaseTypes, There, InOrder, OrderTypes
  <2>. QED BY <1>1, <1>5, <2>1 DEF InOrder, OrderTypes, DeviceTypes, EmuTypes, DownTypes
<1>8. RostersFollow /\ DownTypes
  BY <1>1, NothingFollows DEF InOrder, OrderTypes
<1>9. ASSUME NEW e \in Devices PROVE Fine(e)'
  <2>1. Calm(e)
    BY <1>1, <1>2, <1>5, <1>6 DEF Calm, Wanted, SameInQueue
  <2>. QED BY <1>8, <2>1, CalmIsFine DEF InOrder
<1>. QED BY <1>7, <1>9, AllFine

LEMMA RemoveInOrder ==
    ASSUME LedsInv, InOrder, NEW d \in Devices, OneStep(RemoveDevice(d), {}, {})
    PROVE  InOrder'
<1>1. RemoveDevice(d) /\ UNCHANGED <<devices, emu, queue, down, online, claimed, excused>>
  <2>1. RemoveDevice(d)
    BY DEF OneStep
  <2>2. UNCHANGED <<devices, emu, queue, down, online, claimed>>
    BY <2>1 DEF RemoveDevice, bridgeVars
  <2>3. excused' = excused
    BY <2>2, NoneFresh
  <2>. QED BY <2>1, <2>2, <2>3
<1>2. \A e \in Devices : surface'[e] = IF e = d THEN NoSurface ELSE surface[e]
  <2>1. surface = [e \in Devices |-> surface[e]] /\ surface' = [surface EXCEPT ![d] = NoSurface]
    BY <1>1 DEF RemoveDevice, LedsInv
  <2>. QED BY <2>1
<1>3. ~There(d)'
  BY <1>2 DEF There, NoSurface
<1>4. UpTypes' /\ ~Settled(d)' /\ \A e \in Devices : Settled(e)' => Settled(e)
  BY <1>1, Asked DEF RemoveDevice, InOrder, OrderTypes
<1>5. OrderTypes'
  <2>1. BaseTypes'
    BY <1>2, <1>3 DEF BaseTypes, There, InOrder, OrderTypes
  <2>. QED BY <1>1, <1>4, <2>1 DEF InOrder, OrderTypes, DeviceTypes, EmuTypes, DownTypes
<1>6. RostersFollow /\ DownTypes
  BY <1>1, NothingFollows DEF InOrder, OrderTypes
<1>7. ASSUME NEW e \in Devices PROVE Fine(e)'
  <2>0. Fine(e)
    BY DEF InOrder
  <2>1. CASE e = d
    <3>1. Grounds(e)'
      BY <1>1, <1>3, <2>0, <2>1 DEF Fine, Grounds, Wanted
    <3>2. OpensDark(e)'
      <4> SUFFICES ASSUME e \notin excused', devices'[e] = "pending" PROVE DarkSoFar(e)'
        BY DEF OpensDark
      <4>1. DarkSoFar(e)
        BY <1>1, <2>0 DEF Fine, OpensDark
      <4>2. \A l \in Leds : Shows(e, l)' = Dark
        BY <1>3, <2>1 DEF Shows
      <4>. QED BY <1>1, <1>6, <4>1, <4>2, DarkKept
    <3>. QED BY <1>4, <2>1, <3>1, <3>2 DEF Fine, HasSurface, IsTold
  <2>2. CASE e # d
    <3>1. Calm(e)
      BY <1>1, <1>2, <1>4, <2>2 DEF Calm, Shows, There, Wanted, SameInQueue
    <3>. QED BY <1>6, <2>0, <3>1, CalmIsFine
  <2>. QED BY <2>1, <2>2
<1>. QED BY <1>5, <1>7, AllFine

LEMMA HostInOrder ==
    ASSUME Small, InOrder, NEW d \in Devices, NEW m \in Messages, OneStep(Host(d, m), {}, {})
    PROVE  InOrder'
<1> DEFINE e == HandleHostMessage(Spec, emu[d], m)
<1>1. Host(d, m) /\ UNCHANGED <<devices, up, down, online, rtc, surface, claimed, excused>>
  <2>1. Host(d, m)
    BY DEF OneStep
  <2>2. UNCHANGED <<devices, up, down, online, rtc, surface, claimed>>
    BY <2>1 DEF Host, linkVars, headsetVars
  <2>3. excused' = excused
    BY <2>2, NoneFresh
  <2>. QED BY <2>1, <2>2, <2>3
<1>2. Tells(emu[d], e)
  BY HostTells DEF InOrder, OrderTypes, EmuTypes
<1>3. /\ devices[d] = "ready" /\ emu' = [emu EXCEPT ![d] = Heard(e)]
      /\ queue' = IF online THEN QueueLeds(queue, d, e.told) ELSE queue
  BY <1>1 DEF Host
<1>. HIDE DEF e
<1>4. IsEmulator(Heard(e)) /\ Heard(e).told = <<>> /\ Heard(e).leds = e.leds
  BY <1>2 DEF Heard, Tells, IsEmulator
<1>5. emu' = [b \in Devices |-> emu'[b]] /\ \A b \in Devices : emu'[b] = IF b = d THEN Heard(e) ELSE emu[b]
  BY <1>3 DEF InOrder, OrderTypes, EmuTypes
<1>6. Len(e.told) \in Nat /\ DOMAIN e.told = 1..Len(e.told) /\ \A i \in 1..Len(e.told) : e.told[i][1] \in Leds
  BY <1>2, Elements DEF Tells
<1>7. online => Holds(queue, d, e.told, queue')
  BY <1>3, <1>6, Queued DEF InOrder, OrderTypes
<1>8. OrderTypes'
  <2>1. IsQueue(queue')
    BY <1>3, <1>7 DEF Holds, InOrder, OrderTypes
  <2>2. EmuTypes'
    BY <1>4, <1>5 DEF EmuTypes, InOrder, OrderTypes
  <2>. QED BY <1>1, <2>1, <2>2 DEF InOrder, OrderTypes, DeviceTypes, DownTypes, UpTypes, BaseTypes, There
<1>9. RostersFollow /\ DownTypes
  BY <1>1, NothingFollows DEF InOrder, OrderTypes
<1>10. ASSUME NEW b \in Devices PROVE Fine(b)'
  <2>0. Fine(b)
    BY DEF InOrder
  <2>1. CASE b = d
    <3>1. Grounds(b)' /\ OpensDark(b)'
      BY <1>1, <1>3, <2>0, <2>1 DEF Fine, Grounds, OpensDark, There
    <3>2. HasSurface(b)'
      BY <1>1, <2>0 DEF Fine, HasSurface, Settled, Coming, There, Names
    <3>3. ASSUME b \notin excused', Settled(b)', NEW l \in Leds PROVE Told(b, l)'
      <4>1. online
        BY <1>1, <3>3 DEF Settled
      <4>2. Wanted(b, l)' = e.leds[l] /\ Wanted(b, l) = emu[d].leds[l]
        BY <1>4, <1>5, <2>1 DEF Wanted
      <4>3. CASE Mentions(e.told, l)
        <5>1. PICK i \in 1..Len(e.told) : e.told[i][1] = l /\ IsLast(e.told, i)
          BY <1>6, <4>3, LastWord
        <5>2. e.told[i][2] = e.leds[l]
          BY <1>2, <5>1 DEF Tells
        <5>3. Key(d, l) \in DOMAIN queue' /\ queue'[Key(d, l)] = e.leds[l]
          BY <1>7, <4>1, <4>3, <5>1, <5>2 DEF Holds
        <5>. QED BY <2>1, <4>2, <5>3 DEF Told
      <4>4. CASE ~Mentions(e.told, l)
        <5>1. Wanted(b, l)' = Wanted(b, l)
          BY <1>2, <4>2, <4>4 DEF Tells
        <5>2. SameInQueue(b, l)
          BY <1>7, <4>1, <4>4 DEF Holds, SameInQueue
        <5>3. Told(b, l)
          BY <1>1, <1>3, <2>0, <2>1, <3>3 DEF Fine, IsTold, Settled
        <5>. QED BY <1>1, <1>9, <5>1, <5>2, <5>3, ToldKept DEF Shows, There
      <4>. QED BY <4>3, <4>4
    <3>. QED BY <3>1, <3>2, <3>3 DEF Fine, IsTold
  <2>2. CASE b # d
    <3>1. \A l \in Leds : SameInQueue(b, l)
      BY <1>3, <1>7, <2>2 DEF Holds, SameInQueue
    <3>2. Calm(b)
      BY <1>1, <1>5, <2>2, <3>1 DEF Calm, Settled, Shows, There, Wanted
    <3>. QED BY <1>9, <2>0, <3>2, CalmIsFine
  <2>. QED BY <2>1, <2>2
<1>. QED BY <1>8, <1>10, AllFine

\* What was queued is under way, after every roster that goes before it.
LEMMA FlushInOrder == ASSUME Small, InOrder, OneStep(FlushLeds, {}, {}) PROVE InOrder'
<1> DEFINE p == Packets(queue)
           n == Len(down)
           k == Len(p)
<1>1. FlushLeds /\ UNCHANGED <<devices, emu, up, online, rtc, surface, claimed, excused>>
  <2>1. FlushLeds
    BY DEF OneStep
  <2>2. UNCHANGED <<devices, emu, up, online, rtc, surface, claimed>>
    BY <2>1 DEF FlushLeds, headsetVars
  <2>3. excused' = excused
    BY <2>2, NoneFresh
  <2>. QED BY <2>1, <2>2, <2>3
<1>2. queue' = <<>> /\ down' = IF online THEN down \o p ELSE down
  BY <1>1 DEF FlushLeds, Push, Empty
<1>3. \A x : x \notin DOMAIN queue'
  BY <1>2
<1>4. /\ IsSequence(p)
      /\ \A i \in 1..k : p[i].kind = "leds" /\ IsPacket(p[i])
      /\ \A i \in 1..k : \E l \in Leds : Key(p[i].id, l) \in DOMAIN queue
      /\ \A i \in 1..k, l \in Leds : l \in DOMAIN p[i].cells <=> Key(p[i].id, l) \in DOMAIN queue
      /\ \A i \in 1..k, l \in Leds : l \in DOMAIN p[i].cells => p[i].cells[l] = queue[Key(p[i].id, l)]
      /\ \A d \in Devices, l \in Leds : Key(d, l) \in DOMAIN queue => \E i \in 1..k : p[i].id = d
      /\ \A i, j \in 1..k : p[i].id = p[j].id => i = j
  BY Packed DEF InOrder, OrderTypes
<1>. HIDE DEF p
<1>5. online =>
        /\ IsSequence(down') /\ n \in Nat /\ k \in Nat /\ Len(down') = n + k
        /\ \A i \in 1..n : down'[i] = down[i]
        /\ \A i \in 1..k : down'[n + i] = p[i]
  BY <1>2, <1>4, Concatenated DEF InOrder, OrderTypes, DownTypes
<1>. HIDE DEF n, k
<1>6. ~online => down' = down
  BY <1>2
<1>7. ASSUME online, NEW j \in 1..Len(down')
      PROVE  \/ j \in 1..n /\ down'[j] = down[j]
             \/ \E i \in 1..k : j = n + i /\ down'[j] = p[i]
  <2>1. CASE j <= n
    BY <1>5, <1>7, <2>1
  <2>2. CASE ~(j <= n)
    <3>1. j - n \in 1..k /\ j = n + (j - n)
      BY <1>5, <1>7, <2>2
    <3>. QED BY <1>5, <1>7, <3>1
  <2>. QED BY <2>1, <2>2
<1>8. OrderTypes'
  <2>1. IsQueue(queue')
    BY <1>2 DEF IsQueue
  <2>2. DownTypes'
    <3>1. CASE online
      <4>1. ASSUME NEW j \in 1..Len(down') PROVE IsPacket(down'[j])
        BY <1>4, <1>7, <3>1 DEF InOrder, OrderTypes, DownTypes, n
      <4>. QED BY <1>5, <3>1, <4>1 DEF DownTypes
    <3>. QED BY <1>6, <3>1 DEF InOrder, OrderTypes, DownTypes
  <2>. QED BY <1>1, <2>1, <2>2 DEF InOrder, OrderTypes, DeviceTypes, EmuTypes, UpTypes, BaseTypes, There
<1>9. ASSUME NEW d \in Devices PROVE Fine(d)'
  <2>0. Fine(d)
    BY DEF InOrder
  <2>1. Grounds(d)'
    BY <1>1, <2>0 DEF Fine, Grounds, There, Wanted
  <2>2. OpensDark(d)'
    <3> SUFFICES ASSUME d \notin excused', devices'[d] = "pending" PROVE DarkSoFar(d)'
      BY DEF OpensDark
    <3>1. DarkSoFar(d)
      BY <1>1, <2>0 DEF Fine, OpensDark
    <3>2. ASSUME NEW j \in 1..Len(down') PROVE ~(down'[j].kind = "leds" /\ down'[j].id = d)
      <4>1. CASE online
        <5>1. CASE j \in 1..n /\ down'[j] = down[j]
          BY <3>1, <5>1 DEF DarkSoFar, n
        <5>2. ASSUME NEW i \in 1..k, down'[j] = p[i] PROVE down'[j].id # d
          <6>1. \E l \in Leds : Key(p[i].id, l) \in DOMAIN queue
            BY <1>4
          <6>2. \A l \in Leds : Key(d, l) \notin DOMAIN queue
            BY <3>1 DEF DarkSoFar
          <6>. QED BY <5>2, <6>1, <6>2
        <5>. QED BY <1>7, <4>1, <5>1, <5>2
      <4>2. CASE ~online
        BY <1>6, <3>1, <4>2 DEF DarkSoFar
      <4>. QED BY <4>1, <4>2
    <3>. QED BY <1>1, <1>3, <3>1, <3>2 DEF DarkSoFar, Shows, There
  <2>3. ASSUME online PROVE \A i \in 1..n : i \in 1..Len(down') /\ down'[i] = down[i]
    BY <1>5, <2>3
  <2>4. HasSurface(d)'
    <3> SUFFICES ASSUME devices'[d] # "none", Settled(d)' PROVE Coming(d)'
      BY DEF HasSurface
    <3>1. online /\ Settled(d)
      BY <1>1 DEF Settled
    <3>2. Coming(d)
      BY <1>1, <2>0, <3>1 DEF Fine, HasSurface
    <3>3. ASSUME NEW i \in 1..n, Names(i, d) PROVE i \in 1..Len(down') /\ Names(i, d)'
      BY <2>3, <3>1, <3>3 DEF Names
    <3>. QED BY <1>1, <3>2, <3>3 DEF Coming, There, n
  <2>5. IsTold(d)'
    <3> SUFFICES ASSUME d \notin excused', devices'[d] = "ready", Settled(d)', NEW l \in Leds PROVE Told(d, l)'
      BY DEF IsTold
    <3>1. online /\ Settled(d)
      BY <1>1 DEF Settled
    <3>2. Coming(d) /\ Told(d, l)
      BY <1>1, <2>0, <3>1 DEF Fine, HasSurface, IsTold
    <3>3. Wanted(d, l)' = Wanted(d, l) /\ Shows(d, l)' = Shows(d, l) /\ (There(d)' <=> There(d))
      BY <1>1 DEF Wanted, Shows, There
    <3>4. CASE Key(d, l) \in DOMAIN queue
      <4>1. PICK i \in 1..k : p[i].id = d
        BY <1>4, <3>4
      <4>2. p[i].kind = "leds" /\ l \in DOMAIN p[i].cells /\ p[i].cells[l] = Wanted(d, l)
        BY <1>4, <3>2, <3>4, <4>1 DEF Told
      <4>3. PICK at \in 1..Len(down') : at = n + i
        BY <1>5, <3>1
      <4>4. down'[at] = p[i]
        BY <1>5, <3>1, <4>3
      <4>5. Carries(at, d, l)' /\ down'[at].cells[l] = Wanted(d, l)'
        BY <3>3, <4>1, <4>2, <4>4 DEF Carries
      <4>6. ASSUME NEW j \in 1..Len(down'), Carries(j, d, l)' PROVE j <= at
        <5>1. CASE j \in 1..n
          BY <1>5, <3>1, <4>3, <5>1
        <5>2. CASE j \notin 1..n
          <6>1. PICK h \in 1..k : j = n + h /\ down'[j] = p[h]
            BY <1>7, <3>1, <5>2
          <6>2. h = i
            BY <1>4, <4>1, <4>6, <6>1 DEF Carries
          <6>. QED BY <1>5, <3>1, <4>3, <6>1, <6>2
        <5>. QED BY <5>1, <5>2
      <4>7. Lands(at, d)'
        <5>1. ASSUME NEW j \in 1..n, Names(j, d) PROVE j \in 1..Len(down') /\ j < at /\ Names(j, d)'
          <6>1. j < at
            BY <1>5, <3>1, <4>3
          <6>. QED BY <2>3, <3>1, <5>1, <6>1 DEF Names
        <5>. QED BY <3>2, <3>3, <5>1 DEF Coming, Lands, n
      <4>. QED BY <1>3, <4>5, <4>6, <4>7 DEF Told
    <3>5. ASSUME Key(d, l) \notin DOMAIN queue, NEW j \in 1..Len(down'), Carries(j, d, l)' PROVE j \in 1..n /\ Carries(j, d, l)
      <4>1. l \in DOMAIN down'[j].cells /\ down'[j].id = d
        BY <3>5 DEF Carries
      <4>2. j \in 1..n /\ down'[j] = down[j]
        BY <1>4, <1>7, <3>1, <3>5, <4>1
      <4>. QED BY <3>5, <4>2 DEF Carries
    <3>6. CASE Key(d, l) \notin DOMAIN queue /\ \E i \in 1..n : Carries(i, d, l)
      <4>1. PICK i \in 1..n : /\ Carries(i, d, l) /\ \A j \in 1..n : Carries(j, d, l) => j <= i
                              /\ Lands(i, d) /\ down[i].cells[l] = Wanted(d, l)
        BY <3>2, <3>6 DEF Told, n
      <4>2. \A j \in 1..Len(down') : Carries(j, d, l)' => j <= i
        BY <3>5, <3>6, <4>1
      <4>3. i \in 1..Len(down') /\ Carries(i, d, l)' /\ down'[i].cells[l] = Wanted(d, l)'
        BY <2>3, <3>1, <3>3, <4>1 DEF Carries
      <4>4. Lands(i, d)'
        <5>1. ASSUME NEW j \in 1..n, Names(j, d) PROVE j \in 1..Len(down') /\ Names(j, d)'
          BY <2>3, <3>1, <5>1 DEF Names
        <5>. QED BY <3>3, <4>1, <5>1 DEF Lands, n
      <4>. QED BY <1>3, <4>2, <4>3, <4>4 DEF Told
    <3>7. CASE Key(d, l) \notin DOMAIN queue /\ \A i \in 1..n : ~Carries(i, d, l)
      <4>1. \A j \in 1..Len(down') : ~Carries(j, d, l)'
        BY <3>5, <3>7
      <4>2. Shows(d, l)' = Wanted(d, l)'
        BY <3>2, <3>3, <3>7 DEF Told, n
      <4>. QED BY <1>3, <4>1, <4>2 DEF Told
    <3>. QED BY <3>4, <3>6, <3>7
  <2>. QED BY <2>1, <2>2, <2>4, <2>5 DEF Fine
<1>. QED BY <1>8, <1>9, AllFine

\* What hearing the first packet does to the surfaces.
Hears(d) ==
    /\ There(d) => There(d)'
    /\ There(d)' => There(d) \/ d \in claimed'
    /\ d \in claimed => d \in claimed'
    /\ Names(1, d) => There(d)'
    /\ \A l \in Leds : /\ ~Carries(1, d, l) => Shows(d, l)' = Shows(d, l)
                       /\ Carries(1, d, l) /\ There(d) => Shows(d, l)' = down[1].cells[l]

LEMMA LedsHeard ==
    ASSUME LedsInv, InOrder, HearLeds(down[1]), down[1].kind = "leds"
    PROVE  BaseTypes' /\ \A d \in Devices : Hears(d)
<1> DEFINE m == down[1]
<1>1. CASE ~(m.id \in Devices /\ There(m.id))
  <2>1. UNCHANGED <<surface, claimed>>
    BY <1>1 DEF HearLeds
  <2>2. \A d \in Devices, l \in Leds : Carries(1, d, l) => ~There(d)
    BY <1>1 DEF Carries
  <2>3. \A d \in Devices : ~Names(1, d)
    BY DEF Names
  <2>. QED BY <2>1, <2>2, <2>3 DEF Hears, BaseTypes, There, Shows, InOrder, OrderTypes
<1>2. CASE m.id \in Devices /\ There(m.id)
  <2> DEFINE e == m.id
             t == SetLeds(surface[e], m.cells)
  <2>1. surface' = [surface EXCEPT ![e] = t] /\ surface = [d \in Devices |-> surface[d]] /\ claimed' = claimed
    BY <1>2 DEF HearLeds, LedsInv
  <2>2. IsLedState(surface[e])
    BY <1>2, ThereFacts DEF LedsInv
  <2>3. /\ t.there = TRUE
        /\ t.base = [l \in Leds |-> IF l \in DOMAIN m.cells THEN m.cells[l] ELSE surface[e].base[l]]
    BY <2>2 DEF SetLeds, IsLedState
  <2>. HIDE DEF t
  <2>4. \A d \in Devices : surface'[d] = IF d = e THEN t ELSE surface[d]
    BY <2>1
  <2>5. \A d \in Devices : There(d)' <=> There(d)
    BY <1>2, <2>3, <2>4 DEF There
  <2>6. ASSUME NEW d \in Devices, NEW l \in Leds
        PROVE  /\ ~Carries(1, d, l) => Shows(d, l)' = Shows(d, l)
               /\ Carries(1, d, l) /\ There(d) => Shows(d, l)' = down[1].cells[l]
    <3>1. CASE d = e
      <4>1. Shows(d, l)' = t.base[l] /\ Shows(d, l) = surface[e].base[l]
        BY <1>2, <2>4, <2>5, <3>1 DEF Shows
      <4>2. Carries(1, d, l) <=> l \in DOMAIN m.cells
        BY <3>1 DEF Carries
      <4>. QED BY <2>3, <4>1, <4>2
    <3>2. CASE d # e
      BY <2>4, <2>5, <3>2 DEF Shows, Carries
    <3>. QED BY <3>1, <3>2
  <2>7. BaseTypes'
    <3>1. ASSUME NEW d \in Devices, There(d)' PROVE surface'[d].base = [l \in Leds |-> surface'[d].base[l]]
      <4>1. CASE d = e
        BY <2>3, <2>4, <4>1
      <4>2. CASE d # e
        BY <2>4, <2>5, <3>1, <4>2 DEF InOrder, OrderTypes, BaseTypes
      <4>. QED BY <4>1, <4>2
    <3>. QED BY <3>1 DEF BaseTypes
  <2>8. \A d \in Devices : ~Names(1, d)
    BY DEF Names
  <2>. QED BY <2>1, <2>5, <2>6, <2>7, <2>8 DEF Hears
<1>. QED BY <1>1, <1>2

LEMMA RosterHeard ==
    ASSUME InOrder, HearRoster(down[1]), down[1].kind = "roster"
    PROVE  BaseTypes' /\ \A d \in Devices : Hears(d)
<1> DEFINE m == down[1]
<1>1. /\ \A d \in Devices : surface'[d] = IF d \in m.ids /\ ~There(d) THEN NewSurface ELSE surface[d]
      /\ claimed' = claimed \cup m.ids
  BY DEF HearRoster
<1>2. NewSurface.there = TRUE /\ NewSurface.base = [l \in Leds |-> Dark]
  BY DEF NewSurface
<1>3. \A d \in Devices : There(d)' <=> There(d) \/ d \in m.ids
  BY <1>1, <1>2 DEF There
<1>4. \A d \in Devices, l \in Leds : Shows(d, l)' = Shows(d, l) /\ ~Carries(1, d, l)
  BY <1>1, <1>2, <1>3 DEF Shows, Carries
<1>5. \A d \in Devices : Names(1, d) <=> d \in m.ids
  BY DEF Names
<1>6. BaseTypes'
  BY <1>1, <1>2, <1>3 DEF BaseTypes, InOrder, OrderTypes
<1>. QED BY <1>1, <1>3, <1>4, <1>5, <1>6 DEF Hears

\* applyRoster() asks for devices again, after what was asked for before.
LEMMA AskedAgain ==
    ASSUME UpTypes, UNCHANGED online, NEW m, HearRoster(m)
    PROVE  UpTypes' /\ \A d \in Devices : Settled(d)' => Settled(d)
<1> DEFINE S == {d \in Devices \ m.ids : There(d)}
           lost == SetToSeq(S)
           more == [i \in DOMAIN lost |-> [kind |-> "add", id |-> lost[i]]]
<1>1. up' = up \o more
  BY DEF HearRoster
<1>2. S \subseteq Devices /\ IsFiniteSet(S)
  <2>1. 0 \in Int /\ 255 \in Int
    OBVIOUS
  <2>2. IsFiniteSet(0..255)
    BY <2>1, FS_Interval
  <2>3. S \subseteq 0..255
    BY LedsAssumption
  <2>. QED BY <2>2, <2>3, FS_Subset
<1>. HIDE DEF S
<1>3. lost \in Seq(S) /\ Len(lost) \in Nat /\ DOMAIN lost = 1..Len(lost)
  BY <1>2, SetToSeqFacts
<1>. HIDE DEF lost
<1>4. \A i \in 1..Len(lost) : lost[i] \in Devices
  BY <1>2, <1>3
<1>5. more \in [1..Len(lost) -> Requests]
  BY <1>3, <1>4 DEF Requests
<1>. HIDE DEF more
<1>6. more \in Seq(Requests)
  BY <1>3, <1>5
<1>7. up \in Seq(Requests)
  BY DEF UpTypes
<1>8. up' \in Seq(Requests) /\ \A i \in 1..Len(up) : i \in 1..Len(up') /\ up'[i] = up[i]
  BY <1>1, <1>6, <1>7
<1>. QED BY <1>8 DEF UpTypes, Settled

LEMMA HearInOrder ==
    ASSUME LedsInv, InOrder, ~rtc, NEW i0 \in 1..MaxQueue, OneStep(Hear(i0) \/ Lose(i0), {}, {})
    PROVE  InOrder'
<1> DEFINE n == Len(down)
<1>1. Hear(1) /\ UNCHANGED <<devices, emu, queue, online, rtc, excused>>
  <2>1. Hear(1)
    BY DEF OneStep, Hear, Lose
  <2>2. UNCHANGED <<devices, emu, queue, online, rtc>>
    BY <2>1 DEF Hear, bridgeVars
  <2>3. excused' = excused
    BY <2>2, NoneFresh
  <2>. QED BY <2>1, <2>2, <2>3
<1>2. /\ 1 \in DOMAIN down /\ down' = RemoveAt(down, 1)
      /\ IF down[1].kind = "roster" THEN HearRoster(down[1]) ELSE HearLeds(down[1])
  BY <1>1 DEF Hear
<1>3. /\ IsSequence(down') /\ Len(down') = n - 1 /\ n \in Nat /\ 1 \in 1..n
      /\ \A i \in 1..n - 1 : down'[i] = down[i + 1] /\ i + 1 \in 1..n
  BY <1>2, Elements, FirstTaken DEF InOrder, OrderTypes, DownTypes
<1>4. IsPacket(down[1])
  BY <1>3 DEF InOrder, OrderTypes, DownTypes
<1>5. BaseTypes' /\ \A d \in Devices : Hears(d)
  BY <1>2, <1>4, LedsHeard, RosterHeard DEF IsPacket
<1>6. UpTypes' /\ \A d \in Devices : Settled(d)' => Settled(d)
  <2>1. CASE down[1].kind = "roster"
    BY <1>1, <1>2, <2>1, AskedAgain DEF InOrder, OrderTypes
  <2>2. CASE down[1].kind # "roster"
    BY <1>1, <1>2, <2>2 DEF HearLeds, Settled, UpTypes, InOrder, OrderTypes
  <2>. QED BY <2>1, <2>2
<1>. HIDE DEF n
<1>7. \A j \in 1..Len(down') : down'[j] = down[j + 1] /\ j + 1 \in 1..n
  BY <1>3
<1>8. \A j \in 1..n : j = 1 \/ (j - 1 \in 1..Len(down') /\ (j - 1) + 1 = j /\ down'[j - 1] = down[j])
  BY <1>3
<1>9. OrderTypes'
  <2>1. DownTypes'
    BY <1>3, <1>7 DEF DownTypes, InOrder, OrderTypes, n
  <2>. QED BY <1>1, <1>5, <1>6, <2>1 DEF InOrder, OrderTypes, DeviceTypes, EmuTypes
<1>10. ASSUME NEW d \in Devices PROVE Fine(d)'
  <2>0. Fine(d) /\ Hears(d) /\ (Settled(d)' => Settled(d))
    BY <1>5, <1>6 DEF InOrder
  <2>1. Grounds(d)'
    BY <1>1, <2>0 DEF Fine, Grounds, Hears, Wanted
  <2>2. OpensDark(d)'
    <3> SUFFICES ASSUME d \notin excused', devices'[d] = "pending" PROVE DarkSoFar(d)'
      BY DEF OpensDark
    <3>1. DarkSoFar(d)
      BY <1>1, <2>0 DEF Fine, OpensDark
    <3>2. \A l \in Leds : ~Carries(1, d, l)
      BY <1>3, <3>1 DEF DarkSoFar, Carries, n
    <3>3. \A l \in Leds : Shows(d, l)' = Dark /\ Key(d, l) \notin DOMAIN queue'
      BY <1>1, <2>0, <3>1, <3>2 DEF DarkSoFar, Hears
    <3>. QED BY <1>7, <3>1, <3>3 DEF DarkSoFar, n
  <2>3. ASSUME NEW j \in 1..n, Names(j, d) PROVE There(d)' \/ (j # 1 /\ Names(j - 1, d)')
    <3>1. CASE j = 1
      BY <2>0, <2>3, <3>1 DEF Hears
    <3>2. CASE j # 1
      <4>1. PICK h \in 1..Len(down') : h = j - 1 /\ down'[h] = down[j]
        BY <1>8, <3>2
      <4>. QED BY <2>3, <3>2, <4>1 DEF Names
    <3>. QED BY <3>1, <3>2
  <2>4. HasSurface(d)'
    <3> SUFFICES ASSUME devices'[d] # "none", Settled(d)' PROVE Coming(d)'
      BY DEF HasSurface
    <3>1. Coming(d)
      BY <1>1, <2>0 DEF Fine, HasSurface
    <3>. QED BY <1>8, <2>0, <2>3, <3>1 DEF Coming, Hears, n
  <2>5. IsTold(d)'
    <3> SUFFICES ASSUME d \notin excused', devices'[d] = "ready", Settled(d)', NEW l \in Leds PROVE Told(d, l)'
      BY DEF IsTold
    <3>1. Told(d, l)
      BY <1>1, <2>0 DEF Fine, IsTold
    <3>2. Wanted(d, l)' = Wanted(d, l)
      BY <1>1 DEF Wanted
    <3>3. \A j \in 1..Len(down') : Carries(j, d, l)' <=> Carries(j + 1, d, l)
      BY <1>7 DEF Carries
    <3>4. CASE Key(d, l) \in DOMAIN queue
      BY <1>1, <3>1, <3>2, <3>4 DEF Told
    <3>5. CASE Key(d, l) \notin DOMAIN queue /\ \E i \in 1..n : Carries(i, d, l)
      <4>1. PICK i \in 1..n : /\ Carries(i, d, l) /\ \A j \in 1..n : Carries(j, d, l) => j <= i
                              /\ Lands(i, d) /\ down[i].cells[l] = Wanted(d, l)
        BY <3>1, <3>5 DEF Told, n
      <4>2. CASE i = 1
        <5>1. There(d)
          BY <1>3, <4>1, <4>2 DEF Lands
        <5>2. Shows(d, l)' = Wanted(d, l)'
          BY <2>0, <3>2, <4>1, <4>2, <5>1 DEF Hears
        <5>3. \A j \in 1..Len(down') : ~Carries(j, d, l)'
          BY <1>3, <1>7, <3>3, <4>1, <4>2
        <5>. QED BY <1>1, <3>5, <5>2, <5>3 DEF Told
      <4>3. CASE i # 1
        <5>1. PICK h \in 1..Len(down') : h = i - 1 /\ h + 1 = i /\ down'[h] = down[i]
          BY <1>8, <4>3
        <5>2. Carries(h, d, l)' /\ down'[h].cells[l] = Wanted(d, l)'
          BY <3>2, <4>1, <5>1 DEF Carries
        <5>3. \A j \in 1..Len(down') : Carries(j, d, l)' => j <= h
          BY <1>3, <1>7, <3>3, <4>1, <5>1
        <5>4. Lands(h, d)'
          <6>1. CASE There(d)
            BY <2>0, <6>1 DEF Lands, Hears
          <6>2. CASE ~There(d)
            <7>1. PICK j \in 1..n : j < i /\ Names(j, d)
              BY <4>1, <6>2 DEF Lands, n
            <7>2. CASE There(d)'
              BY <7>2 DEF Lands
            <7>3. CASE ~There(d)'
              <8>1. j # 1
                BY <2>3, <7>1, <7>3
              <8>2. PICK g \in 1..Len(down') : g = j - 1 /\ down'[g] = down[j]
                BY <1>8, <8>1
              <8>3. g < h /\ Names(g, d)'
                BY <1>3, <5>1, <7>1, <8>2 DEF Names
              <8>. QED BY <8>3 DEF Lands
            <7>. QED BY <7>2, <7>3
          <6>. QED BY <6>1, <6>2
        <5>. QED BY <1>1, <3>5, <5>2, <5>3, <5>4 DEF Told
      <4>. QED BY <4>2, <4>3
    <3>6. CASE Key(d, l) \notin DOMAIN queue /\ \A i \in 1..n : ~Carries(i, d, l)
      <4>1. Shows(d, l)' = Wanted(d, l)'
        BY <1>3, <2>0, <3>1, <3>2, <3>6 DEF Told, Hears, n
      <4>2. \A j \in 1..Len(down') : ~Carries(j, d, l)'
        BY <1>7, <3>3, <3>6
      <4>. QED BY <1>1, <3>6, <4>1, <4>2 DEF Told
    <3>. QED BY <3>4, <3>5, <3>6
  <2>. QED BY <2>1, <2>2, <2>4, <2>5 DEF Fine
<1>. QED BY <1>9, <1>10, AllFine

\* A device that comes and is not excused is remembered by nobody.
LEMMA FreshIsDark ==
    ASSUME Small, InOrder, NEW A, NEW sorry, NEW forgiven, OneStep(A, sorry, forgiven),
           NEW d \in Devices, devices[d] = "none", devices'[d] # "none", d \notin excused', d \notin forgiven
    PROVE  DarkSoFar(d)
<1>1. ~Remembered(d)
  BY DEF OneStep, Fresh
<1>2. ASSUME NEW l \in Leds PROVE Key(d, l) \notin DOMAIN queue
  <2>1. Key(d, l) \div 256 = d
    BY KeyFacts
  <2>. QED BY <1>1, <2>1 DEF Remembered
<1>3. \A l \in Leds : Shows(d, l) = Dark
  BY <1>1 DEF Remembered, Shows
<1>4. \A i \in 1..Len(down) : ~(down[i].kind = "leds" /\ down[i].id = d)
  BY <1>1, Elements DEF Remembered, InOrder, OrderTypes, DownTypes
<1>. QED BY <1>2, <1>3, <1>4 DEF DarkSoFar

\* Who is excused is not forgiven it, but by a resync.
LEMMA StillExcused ==
    ASSUME NEW A, NEW sorry, NEW forgiven, OneStep(A, sorry, forgiven), NEW d, d \in excused
    PROVE  d \in excused' \/ d \in forgiven
  BY DEF OneStep

\* The headset says hello; all that was sent before is gone.
LEMMA ConnectInOrder == ASSUME Small, InOrder, OneStep(Connect, {}, {}) PROVE InOrder'
<1>1. Connect
  BY DEF OneStep
<1>2. /\ ~online /\ online' = TRUE /\ UNCHANGED <<emu, queue, rtc, surface, claimed>>
      /\ up' = <<[kind |-> "hello", id |-> CHOOSE d \in Devices : TRUE]>>
      /\ down' = <<Roster(devices')>>
      /\ devices' = IF \A d \in Devices : devices[d] = "none"
                    THEN [d \in Devices |-> IF d \in Session THEN "pending" ELSE "none"] ELSE devices
  BY <1>1 DEF Connect, headsetVars
<1>3. /\ devices' \in [Devices -> {"none", "pending", "ready"}]
      /\ \A d \in Devices : devices'[d] = devices[d] \/ (devices[d] = "none" /\ devices'[d] # "ready")
  BY <1>2 DEF InOrder, OrderTypes, DeviceTypes
<1> DEFINE r == Roster(devices')
<1>4. r.kind = "roster" /\ r.ids \subseteq Devices
  BY DEF Roster
<1>. HIDE DEF r
<1>5. down' \in Seq({r}) /\ Len(down') = 1 /\ down'[1] = r
  BY <1>2 DEF r
<1>6. DownTypes'
  <2>1. IsPacket(r)
    BY <1>4 DEF IsPacket
  <2>2. \A i \in 1..Len(down') : down'[i] = r
    BY <1>5
  <2>. QED BY <1>5, <2>1, <2>2, SequenceOf DEF DownTypes
<1>7. UpTypes' /\ \A d \in Devices : ~Settled(d)'
  <2> DEFINE m == [kind |-> "hello", id |-> CHOOSE d \in Devices : TRUE]
  <2>1. m \in Requests /\ m.kind = "hello"
    BY DEF Requests
  <2>. HIDE DEF m
  <2>2. up' \in Seq(Requests) /\ Len(up') = 1 /\ up'[1] = m
    BY <1>2, <2>1 DEF m
  <2>. QED BY <2>1, <2>2 DEF UpTypes, Settled
<1>8. OrderTypes'
  BY <1>2, <1>3, <1>6, <1>7 DEF InOrder, OrderTypes, DeviceTypes, EmuTypes, BaseTypes, There
<1>9. ASSUME NEW d \in Devices PROVE Fine(d)'
  <2>0. Fine(d)
    BY DEF InOrder
  <2>1. Grounds(d)'
    BY <1>2, <1>3, <2>0 DEF Fine, Grounds, There, Wanted
  <2>2. OpensDark(d)'
    <3> SUFFICES ASSUME d \notin excused', devices'[d] = "pending" PROVE DarkSoFar(d)'
      BY DEF OpensDark
    <3>1. DarkSoFar(d)
      <4>1. CASE devices'[d] = devices[d]
        <5>1. d \notin excused
          BY StillExcused
        <5>. QED BY <2>0, <4>1, <5>1 DEF Fine, OpensDark
      <4>2. CASE devices'[d] # devices[d]
        <5>1. devices[d] = "none" /\ devices'[d] # "none"
          BY <1>3, <4>2
        <5>. QED BY <5>1, FreshIsDark
      <4>. QED BY <4>1, <4>2
    <3>. QED BY <1>2, <1>4, <1>5, <3>1 DEF DarkSoFar, Shows, There
  <2>. QED BY <1>7, <2>1, <2>2 DEF Fine, HasSurface, IsTold
<1>. QED BY <1>8, <1>9, AllFine

LEMMA DisconnectInOrder == ASSUME InOrder, OneStep(Disconnect, {}, {}) PROVE InOrder'
<1>1. /\ online' = FALSE /\ down' = <<>> /\ up' = <<>>
      /\ UNCHANGED <<devices, emu, queue, rtc, surface, claimed, excused>>
  <2>1. Disconnect
    BY DEF OneStep
  <2>2. /\ online' = FALSE /\ down' = <<>> /\ up' = <<>>
        /\ UNCHANGED <<devices, emu, queue, rtc, surface, claimed>>
    BY <2>1 DEF Disconnect, bridgeVars, headsetVars
  <2>3. excused' = excused
    BY <2>2, NoneFresh
  <2>. QED BY <2>2, <2>3
<1>2. DownTypes' /\ UpTypes' /\ Len(down') = 0
  <2>1. down' \in Seq(Requests) /\ up' \in Seq(Requests) /\ Len(down') = 0
    BY <1>1, EmptySeq
  <2>2. IsSequence(down')
    BY <2>1, SequenceOf
  <2>. QED BY <2>1, <2>2 DEF DownTypes, UpTypes
<1>3. OrderTypes'
  BY <1>1, <1>2 DEF InOrder, OrderTypes, DeviceTypes, EmuTypes, BaseTypes, There
<1>4. ASSUME NEW d \in Devices PROVE Fine(d)'
  <2>0. Fine(d)
    BY DEF InOrder
  <2>1. Grounds(d)'
    BY <1>1, <2>0 DEF Fine, Grounds, There, Wanted
  <2>2. OpensDark(d)'
    BY <1>1, <1>2, <2>0 DEF Fine, OpensDark, DarkSoFar, Shows, There
  <2>. QED BY <1>1, <2>1, <2>2 DEF Fine, HasSurface, IsTold, Settled
<1>. QED BY <1>3, <1>4, AllFine

LEMMA NewEmulatorFacts ==
    IsEmulator(NewEmulator(Leds)) /\ NewEmulator(Leds).told = <<>> /\ \A l \in Leds : NewEmulator(Leds).leds[l] = Dark
  BY DEF NewEmulator, IsEmulator

LEMMA GraceInOrder == ASSUME InOrder, OneStep(GraceOver, {}, {}) PROVE InOrder'
<1>1. /\ devices' = [d \in Devices |-> "none"] /\ emu' = [d \in Devices |-> NewEmulator(Leds)]
      /\ UNCHANGED <<queue, down, up, online, rtc, surface, claimed>>
  BY DEF OneStep, GraceOver, linkVars, headsetVars
<1>2. EmuTypes' /\ \A d \in Devices, l \in Leds : Wanted(d, l)' = Dark
  BY <1>1, NewEmulatorFacts DEF EmuTypes, Wanted
<1>3. OrderTypes'
  BY <1>1, <1>2 DEF InOrder, OrderTypes, DeviceTypes, DownTypes, UpTypes, BaseTypes, There
<1>4. ASSUME NEW d \in Devices PROVE Fine(d)'
  <2>1. Grounds(d)'
    BY <1>1, <1>2 DEF InOrder, Fine, Grounds, There
  <2>. QED BY <1>1, <2>1 DEF Fine, OpensDark, HasSurface, IsTold
<1>. QED BY <1>3, <1>4, AllFine

\* A resync tells all of the devices that are ready.
LEMMA ResyncInOrder ==
    ASSUME Small, InOrder, Resync, UNCHANGED <<emu, online, surface, claimed>>,
           NEW A, NEW sorry, OneStep(A, sorry, Ready), UpTypes',
           devices' \in [Devices -> {"none", "pending", "ready"}],
           \A d \in Devices : devices'[d] = devices[d] \/ (devices[d] # "none" /\ devices'[d] = "ready")
    PROVE  InOrder'
<1>1. Push(<<Roster(devices')>>)
  BY DEF Resync
<1>2. RostersFollow /\ (online => \A d \in Devices : devices'[d] # "none" => \E i \in 1..Len(down') : Names(i, d)')
  BY <1>1, RosterFollows DEF InOrder, OrderTypes
<1>3. /\ IsQueue(queue')
      /\ \A d \in Devices, l \in Leds :
            IF devices'[d] = "ready" THEN Key(d, l) \in DOMAIN queue' /\ queue'[Key(d, l)] = emu'[d].leds[l]
            ELSE Key(d, l) \in DOMAIN queue' <=> Key(d, l) \in DOMAIN queue
  BY Resynced DEF InOrder, OrderTypes
<1>4. OrderTypes'
  BY <1>2, <1>3, FollowersAreTyped DEF InOrder, OrderTypes, DeviceTypes, EmuTypes, BaseTypes, There
<1>5. ASSUME NEW d \in Devices PROVE Fine(d)'
  <2>0. Fine(d)
    BY DEF InOrder
  <2>1. Grounds(d)'
    BY <2>0 DEF Fine, Grounds, There, Wanted
  <2>2. OpensDark(d)'
    <3> SUFFICES ASSUME d \notin excused', devices'[d] = "pending" PROVE DarkSoFar(d)'
      BY DEF OpensDark
    <3>1. d \notin excused /\ devices[d] = "pending"
      BY StillExcused DEF Ready
    <3>2. DarkSoFar(d)
      BY <2>0, <3>1 DEF Fine, OpensDark
    <3>. QED BY <1>2, <1>3, <3>2, DarkKept DEF Shows, There, InOrder, OrderTypes
  <2>3. HasSurface(d)'
    BY <1>2 DEF HasSurface, Settled, Coming
  <2>4. IsTold(d)'
    BY <1>3 DEF IsTold, Told, Wanted
  <2>. QED BY <2>1, <2>2, <2>3, <2>4 DEF Fine
<1>. QED BY <1>4, <1>5, AllFine

LEMMA PortsInOrder ==
    ASSUME Small, InOrder, NEW d \in Devices, OneStep(PortsOpen(d), {}, IF d \in Session THEN Ready ELSE {})
    PROVE  InOrder'
<1>1. /\ devices[d] = "pending" /\ devices' = [devices EXCEPT ![d] = "ready"]
      /\ UNCHANGED <<emu, up, online, rtc, surface, claimed>>
      /\ IF d \in Session THEN Resync ELSE Push(<<Roster(devices')>>) /\ UNCHANGED queue
  BY DEF OneStep, PortsOpen, headsetVars
<1>2. /\ devices' \in [Devices -> {"none", "pending", "ready"}]
      /\ \A b \in Devices : devices'[b] = IF b = d THEN "ready" ELSE devices[b]
  BY <1>1 DEF InOrder, OrderTypes, DeviceTypes
<1>3. UpTypes'
  BY <1>1 DEF InOrder, OrderTypes, UpTypes
<1>4. CASE d \in Session
  <2>1. OneStep(PortsOpen(d), {}, Ready) /\ Resync
    BY <1>1, <1>4
  <2>. QED BY <1>1, <1>2, <1>3, <2>1, ResyncInOrder
<1>5. CASE d \notin Session
  <2>1. OneStep(PortsOpen(d), {}, {}) /\ Push(<<Roster(devices')>>) /\ UNCHANGED queue
    BY <1>1, <1>5
  <2>2. RostersFollow /\ DownTypes
    BY <2>1, RosterFollows DEF InOrder, OrderTypes
  <2>3. OrderTypes'
    BY <1>1, <1>2, <1>3, <2>1, <2>2, FollowersAreTyped DEF InOrder, OrderTypes, DeviceTypes, EmuTypes, BaseTypes, There
  <2>4. \A b \in Devices : b \in excused => b \in excused'
    BY <2>1, StillExcused
  <2>5. ASSUME NEW b \in Devices PROVE Fine(b)'
    <3>0. Fine(b)
      BY DEF InOrder
    <3>1. CASE b = d
      <4>1. Grounds(b)'
        BY <1>1, <1>2, <3>0, <3>1 DEF Fine, Grounds, There
      <4>2. HasSurface(b)'
        <5> SUFFICES ASSUME Settled(b)' PROVE Coming(b)'
          BY DEF HasSurface
        <5>1. Coming(b)
          BY <1>1, <3>0, <3>1 DEF Fine, HasSurface, Settled
        <5>. QED BY <1>1, <2>2, <5>1, ComingKept DEF There
      <4>3. IsTold(b)'
        <5> SUFFICES ASSUME b \notin excused' PROVE \A l \in Leds : Told(b, l)'
          BY DEF IsTold
        <5>1. DarkSoFar(b)
          BY <1>1, <2>4, <3>0, <3>1 DEF Fine, OpensDark
        <5>2. DarkSoFar(b)'
          BY <1>1, <2>1, <2>2, <5>1, DarkKept DEF Shows, There
        <5>3. \A l \in Leds : Wanted(b, l)' = Dark
          BY <1>1, <3>0, <3>1 DEF Fine, Grounds, Wanted
        <5>. QED BY <5>2, <5>3, DarkIsTold
      <4>4. OpensDark(b)'
        BY <1>2, <3>1 DEF OpensDark
      <4>. QED BY <4>1, <4>2, <4>3, <4>4 DEF Fine
    <3>2. CASE b # d
      <4>1. Calm(b)
        BY <1>1, <1>2, <2>1, <2>4, <3>2 DEF Calm, Settled, Shows, There, Wanted, SameInQueue
      <4>. QED BY <2>2, <3>0, <4>1, CalmIsFine
    <3>. QED BY <3>1, <3>2
  <2>. QED BY <2>3, <2>5, AllFine
<1>. QED BY <1>4, <1>5

\* A request is taken: what is left is a part of what was there.
LEMMA Taken ==
    ASSUME UpTypes, up # <<>>, up' = Tail(up), UNCHANGED online
    PROVE  /\ UpTypes' /\ Head(up) \in Requests
           /\ \A d \in Devices : Settled(d)' /\ Head(up).kind # "hello"
                                   /\ ~(Head(up).kind = "remove" /\ Head(up).id = d) => Settled(d)
<1>1. up \in Seq(Requests)
  BY DEF UpTypes
<1>2. /\ up' \in Seq(Requests) /\ Head(up) \in Requests /\ Head(up) = up[1] /\ Len(up) \in Nat
      /\ Len(up') = Len(up) - 1 /\ \A i \in 1..Len(up') : up'[i] = up[i + 1]
  BY <1>1, HeadTailProperties
<1>3. \A i \in 1..Len(up) : i = 1 \/ (i - 1 \in 1..Len(up') /\ up'[i - 1] = up[i])
  BY <1>2
<1>4. ASSUME NEW d \in Devices, Settled(d)', Head(up).kind # "hello", ~(Head(up).kind = "remove" /\ Head(up).id = d)
      PROVE  Settled(d)
  BY <1>2, <1>3, <1>4 DEF Settled
<1>. QED BY <1>2, <1>4 DEF UpTypes

LEMMA RouteInOrder ==
    ASSUME Small, InOrder, OneStep(Route, {}, IF Head(up).kind = "hello" THEN Ready ELSE {})
    PROVE  InOrder'
<1> DEFINE m == Head(up)
           again == devices[m.id] # "none"
<1>1. Route
  BY DEF OneStep
<1>2. up # <<>> /\ up' = Tail(up) /\ UNCHANGED <<online, rtc, surface, claimed>>
  BY <1>1 DEF Route, headsetVars
<1>3. UpTypes' /\ m \in Requests
  BY <1>2, Taken DEF InOrder, OrderTypes
<1>4. \A d \in Devices : Settled(d)' /\ m.kind # "hello" /\ ~(m.kind = "remove" /\ m.id = d) => Settled(d)
  BY <1>2, Taken DEF InOrder, OrderTypes
<1>5. devices \in [Devices -> {"none", "pending", "ready"}]
  BY DEF InOrder, OrderTypes, DeviceTypes
<1>6. CASE m.kind = "hello"
  <2>1. UNCHANGED <<devices, emu>> /\ Resync
    BY <1>1, <1>6 DEF Route
  <2>2. OneStep(Route, {}, Ready)
    BY <1>6
  <2>. QED BY <1>2, <1>3, <1>5, <2>1, <2>2, ResyncInOrder
<1>7. CASE m.kind = "add"
  <2>1. /\ devices' = IF again THEN devices ELSE [devices EXCEPT ![m.id] = "pending"]
        /\ UNCHANGED <<emu, queue>> /\ Push(<<Roster(devices')>>)
    BY <1>1, <1>7 DEF Route
  <2>2. OneStep(Route, {}, {}) /\ m.id \in Devices
    BY <1>3, <1>7 DEF Requests
  <2>. HIDE DEF m
  <2>3. /\ devices' \in [Devices -> {"none", "pending", "ready"}]
        /\ \A d \in Devices : devices'[d] = devices[d] \/ (devices[d] = "none" /\ devices'[d] = "pending")
    BY <1>5, <2>1, <2>2
  <2>4. RostersFollow /\ (online => \A d \in Devices : devices'[d] # "none" => \E i \in 1..Len(down') : Names(i, d)')
    BY <2>1, RosterFollows DEF InOrder, OrderTypes
  <2>5. OrderTypes'
    BY <1>2, <1>3, <2>1, <2>3, <2>4, FollowersAreTyped DEF InOrder, OrderTypes, DeviceTypes, EmuTypes, BaseTypes, There
  <2>6. ASSUME NEW d \in Devices PROVE Fine(d)'
    <3>0. Fine(d) /\ DownTypes
      BY DEF InOrder, OrderTypes
    <3>1. CASE devices'[d] = devices[d]
      <4>1. d \in excused => d \in excused'
        BY <2>2, StillExcused
      <4>2. Calm(d)
        BY <1>2, <1>4, <1>7, <2>1, <3>1, <4>1 DEF Calm, Shows, There, Wanted, SameInQueue
      <4>. QED BY <2>4, <3>0, <4>2, CalmIsFine
    <3>2. CASE devices'[d] # devices[d]
      <4>1. devices[d] = "none" /\ devices'[d] = "pending"
        BY <2>3, <3>2
      <4>2. Grounds(d)'
        BY <1>2, <2>1, <3>0, <4>1 DEF Fine, Grounds, There, Wanted
      <4>3. OpensDark(d)'
        <5> SUFFICES ASSUME d \notin excused' PROVE DarkSoFar(d)'
          BY DEF OpensDark
        <5>1. DarkSoFar(d)
          BY <2>2, <4>1, FreshIsDark
        <5>. QED BY <1>2, <2>1, <2>4, <3>0, <5>1, DarkKept DEF Shows, There
      <4>4. HasSurface(d)'
        BY <1>2, <2>4 DEF HasSurface, Settled, Coming
      <4>. QED BY <4>1, <4>2, <4>3, <4>4 DEF Fine, IsTold
    <3>. QED BY <3>1, <3>2
  <2>. QED BY <2>5, <2>6, AllFine
<1>8. CASE m.kind = "remove"
  <2>1. /\ devices' = [devices EXCEPT ![m.id] = "none"]
        /\ emu' = [emu EXCEPT ![m.id] = NewEmulator(Leds)]
        /\ UNCHANGED queue /\ IF again THEN Push(<<Roster(devices')>>) ELSE UNCHANGED down
    BY <1>1, <1>8 DEF Route
  <2>2. OneStep(Route, {}, {}) /\ m.id \in Devices
    BY <1>3, <1>8 DEF Requests
  <2>. HIDE DEF m
  <2>3. /\ devices' \in [Devices -> {"none", "pending", "ready"}]
        /\ \A d \in Devices : devices'[d] = IF d = m.id THEN "none" ELSE devices[d]
    BY <1>5, <2>1, <2>2
  <2>4. /\ emu' = [d \in Devices |-> emu'[d]]
        /\ \A d \in Devices : emu'[d] = IF d = m.id THEN NewEmulator(Leds) ELSE emu[d]
    BY <2>1, <2>2 DEF InOrder, OrderTypes, EmuTypes
  <2>5. RostersFollow
    BY <2>1, RosterFollows, NothingFollows DEF InOrder, OrderTypes
  <2>6. EmuTypes'
    BY <2>4, NewEmulatorFacts DEF EmuTypes, InOrder, OrderTypes
  <2>7. OrderTypes'
    BY <1>2, <1>3, <2>1, <2>3, <2>5, <2>6, FollowersAreTyped DEF InOrder, OrderTypes, DeviceTypes, BaseTypes, There
  <2>8. ASSUME NEW d \in Devices PROVE Fine(d)'
    <3>0. Fine(d) /\ DownTypes
      BY DEF InOrder, OrderTypes
    <3>1. CASE d = m.id
      <4>1. devices'[d] = "none"
        BY <2>3, <3>1
      <4>2. Grounds(d)'
        BY <1>2, <2>4, <3>0, <3>1, NewEmulatorFacts DEF Fine, Grounds, There, Wanted
      <4>. QED BY <4>1, <4>2 DEF Fine, OpensDark, HasSurface, IsTold
    <3>2. CASE d # m.id
      <4>1. d \in excused => d \in excused'
        BY <2>2, StillExcused
      <4>2. Calm(d)
        BY <1>2, <1>4, <1>8, <2>1, <2>3, <2>4, <3>2, <4>1 DEF Calm, Shows, There, Wanted, SameInQueue
      <4>. QED BY <2>5, <3>0, <4>2, CalmIsFine
    <3>. QED BY <3>1, <3>2
  <2>. QED BY <2>7, <2>8, AllFine
<1>. QED BY <1>3, <1>6, <1>7, <1>8 DEF Requests

LEMMA LightsStep == Small /\ LightsInv /\ [PropsNext]_<<vars, probe, excused>> => LightsInv'
<1> SUFFICES ASSUME Small, LightsInv, [PropsNext]_<<vars, probe, excused>> PROVE LightsInv'
  OBVIOUS
<1>1. LedsInv /\ LedsInv'
  BY LedsStep DEF LightsInv
<1>2. rtc' = rtc
  <2>1. CASE UNCHANGED <<vars, probe, excused>>
    BY <2>1 DEF vars, linkVars
  <2>2. CASE PropsNext
    BY <2>2 DEF PropsNext, OneStep, Host, FlushLeds, Route, PortsOpen, Connect, Disconnect, GraceOver, AddDevice,
                RemoveDevice, Hear, Lose, Touch, Lift, AllNotesOff, Draw, linkVars
  <2>. QED BY <2>1, <2>2
<1>3. SUFFICES ASSUME ~rtc PROVE InOrder'
  BY <1>1, <1>2 DEF LightsInv
<1>4. InOrder
  BY <1>3 DEF LightsInv
<1>5. CASE UNCHANGED <<vars, probe, excused>>
  BY <1>4, <1>5, SameBases DEF vars, bridgeVars, linkVars, headsetVars, There
<1>6. CASE PropsNext
  <2>1. ASSUME NEW d \in Devices, OneStep(AddDevice(d) \/ RemoveDevice(d), {}, {}) PROVE InOrder'
    <3>1. OneStep(AddDevice(d), {}, {}) \/ OneStep(RemoveDevice(d), {}, {})
      BY <2>1 DEF OneStep
    <3>. QED BY <1>1, <1>4, <3>1, AddInOrder, RemoveInOrder
  <2>2. ASSUME NEW d \in Devices, NEW m \in Messages, OneStep(Host(d, m), {}, {}) PROVE InOrder'
    BY <1>4, <2>2, HostInOrder
  <2>3. ASSUME OneStep(FlushLeds, {}, {}) PROVE InOrder'
    BY <1>4, <2>3, FlushInOrder
  <2>4. ASSUME OneStep(Route, {}, IF Head(up).kind = "hello" THEN Ready ELSE {}) PROVE InOrder'
    BY <1>4, <2>4, RouteInOrder
  <2>5. ASSUME NEW d \in Devices, OneStep(PortsOpen(d), {}, IF d \in Session THEN Ready ELSE {}) PROVE InOrder'
    BY <1>4, <2>5, PortsInOrder
  <2>6. ASSUME OneStep(Connect, {}, {}) PROVE InOrder'
    BY <1>4, <2>6, ConnectInOrder
  <2>7. ASSUME OneStep(Disconnect, {}, {}) PROVE InOrder'
    BY <1>4, <2>7, DisconnectInOrder
  <2>8. ASSUME OneStep(GraceOver, {}, {}) PROVE InOrder'
    BY <1>4, <2>8, GraceInOrder
  <2>9. ASSUME NEW i \in 1..MaxQueue, OneStep(Hear(i) \/ Lose(i), {}, {}) PROVE InOrder'
    BY <1>1, <1>3, <1>4, <2>9, HearInOrder
  <2>10. ASSUME NEW d \in Devices, NEW l \in Touched, OneStep(Touch(d, l) \/ Lift(d, l), {}, {}) PROVE InOrder'
    BY <1>1, <1>4, <2>10, FingerInOrder
  <2>11. ASSUME OneStep(AllNotesOff, {d \in Devices : There(d)}, {}) PROVE InOrder'
    BY <1>1, <1>4, <2>11, ClearInOrder
  <2>12. ASSUME NEW d \in Devices, NEW on \in BOOLEAN, OneStep(Draw(d, on), {}, {}) PROVE InOrder'
    BY <1>1, <1>4, <2>12, DrawInOrder
  <2>. QED BY <1>6, <2>1, <2>2, <2>3, <2>4, <2>5, <2>6, <2>7, <2>8, <2>9, <2>10, <2>11, <2>12 DEF PropsNext
<1>. QED BY <1>5, <1>6

LEMMA InitLights == PropsInit => LightsInv
<1> SUFFICES ASSUME PropsInit PROVE LightsInv
  OBVIOUS
<1>1. /\ devices = [d \in Devices |-> "none"] /\ emu = [d \in Devices |-> NewEmulator(Leds)]
      /\ queue = <<>> /\ down = <<>> /\ up = <<>> /\ online = FALSE /\ rtc \in BOOLEAN
      /\ surface = [d \in Devices |-> NoSurface]
  BY DEF PropsInit, LedsInit, Empty
<1>2. DownTypes /\ UpTypes
  <2>1. down \in Seq(Requests) /\ up \in Seq(Requests) /\ Len(down) = 0
    BY <1>1, EmptySeq
  <2>2. IsSequence(down)
    BY <2>1, SequenceOf
  <2>. QED BY <2>1, <2>2 DEF DownTypes, UpTypes
<1>3. IsQueue(queue)
  BY <1>1 DEF IsQueue
<1>4. EmuTypes /\ \A d \in Devices, l \in Leds : Wanted(d, l) = Dark
  BY <1>1, NewEmulatorFacts DEF EmuTypes, Wanted
<1>5. \A d \in Devices : ~There(d)
  BY <1>1 DEF There, NoSurface
<1>6. OrderTypes
  BY <1>1, <1>2, <1>3, <1>4, <1>5 DEF OrderTypes, DeviceTypes, BaseTypes
<1>7. ASSUME NEW d \in Devices PROVE Fine(d)
  BY <1>1, <1>4, <1>5 DEF Fine, Grounds, OpensDark, HasSurface, IsTold
<1>. QED BY <1>1, <1>6, <1>7, InitLeds DEF LightsInv, InOrder

\* Over a WebSocket, for every device whose lights the code repeats, and every order in which the DAW, the network,
\* requests, resyncs, ends of sessions and fingers come: once all is told, the device shows the lights that the
\* emulator has (index.ts, resyncHeadset; Broadcaster.ts; Engine.onLed), if ids of LEDs fit below a key's device.
THEOREM LightsArrive == ASSUME Small PROVE PropsSpec => []LightsAgree
<1>1. LightsInv /\ [PropsNext]_<<vars, probe, excused>> => LightsInv'
  BY LightsStep
<1>2. LightsInv => LightsAgree
  <2> SUFFICES ASSUME LightsInv, ~rtc, Quiet, NEW d \in Devices \ excused, devices[d] = "ready", There(d)
               PROVE  surface[d].base = emu[d].leds
    BY DEF LightsAgree
  <2>1. OrderTypes /\ Fine(d)
    BY DEF LightsInv, InOrder
  <2>2. Len(up) = 0 /\ Len(down) = 0 /\ online /\ queue = <<>>
    <3>1. up = <<>> /\ down = <<>> /\ online /\ queue = <<>>
      BY DEF Quiet, Empty
    <3>. QED BY <3>1, EmptySeq
  <2>3. Settled(d)
    BY <2>2 DEF Settled
  <2>4. ASSUME NEW l \in Leds PROVE Shows(d, l) = Wanted(d, l)
    <3>1. Told(d, l)
      BY <2>1, <2>3 DEF Fine, IsTold
    <3>2. Key(d, l) \notin DOMAIN queue
      BY <2>2
    <3>. QED BY <2>2, <3>1, <3>2 DEF Told
  <2>5. surface[d].base = [l \in Leds |-> surface[d].base[l]] /\ emu[d].leds = [l \in Leds |-> emu[d].leds[l]]
    BY <2>1 DEF OrderTypes, BaseTypes, EmuTypes, IsEmulator
  <2>. QED BY <2>4, <2>5 DEF Shows, Wanted
<1>. QED BY <1>1, <1>2, InitLights, PTL DEF PropsSpec
=============================================================================
