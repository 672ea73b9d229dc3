---------------------------- MODULE PairingProofs ----------------------------
(***************************************************************************)
(* Proofs about pairing, for any codes, limits and windows, and any time   *)
(* a registration is kept that is at least three publications long.  Of    *)
(* the service they look at one thing: how long the bridge's code is kept. *)
(***************************************************************************)
EXTENDS PairingProps, TLAPS

\* The ticks that are left of the bridge's registration.
Left == IF Own \in DOMAIN entries THEN entries[Own] ELSE 0

Types ==
    /\ PairingTypeOK
    /\ entries \in [DOMAIN entries -> 0..Ttl]
    /\ typed \in Seq(Alphabet)
    /\ missed \in 0..2 /\ withdrawn \in BOOLEAN /\ away \in 0..Ttl
    /\ via \in [Lookups -> {"page", "keypad", "overtaken"}] /\ hasty \in BOOLEAN

\* A bridge that publishes has not missed more of its registration than the
\* publications that failed, and one more while the next is due or awaited.
FoundInv ==
    run = "up" /\ missed < 2 =>
        Left + missed + (IF clock = 1 /\ awaited # "post" THEN 0 ELSE 1) >= Ttl

\* What is left of a registration, and the time since the bridge was up, are not
\* longer than it is kept; a publication arrives within the tick it was sent in.
GoneInv ==
    /\ "post" \in wire => away = 0
    /\ Left + away <= Ttl
    /\ withdrawn => run # "up" /\ "post" \notin wire /\ Left = 0

\* The panel is empty while it is away; the page is busy only while something is
\* looked up, which is one code at a time unless somebody was hasty.
PanelInv ==
    /\ ~shown => typed = <<>>
    /\ busy => Running # {}
    /\ ~hasty => \A i, j \in Running : i = j
    /\ PanelKeepsTheCode

IInv == Types /\ FoundInv /\ GoneInv /\ PanelInv

LEMMA InitInv == PropsInit => IInv
<1> SUFFICES ASSUME PropsInit PROVE IInv
  OBVIOUS
<1> USE PairingAssumption, TtlAssumption DEF PropsInit, PairingInit
<1>0. entries = <<>> /\ DOMAIN entries = {} /\ entries \in [DOMAIN entries -> 0..Ttl]
  OBVIOUS
<1>1. PairingTypeOK
  <2>1. DOMAIN entries \subseteq {Own} \cup Strangers /\ \A c \in DOMAIN entries : entries[c] \in 0..Ttl
    BY <1>0
  <2>2. limiter \in [count : 0..MaxRequests, left : 0..Window]
    OBVIOUS
  <2>3. Len(typed) <= CodeLength
    OBVIOUS
  <2>4. clock \in 0..Refresh
    BY DEF Refresh
  <2>5. /\ lookups \in [Lookups -> {Free} \cup [code : Codes, stage : Stages]]
        /\ target \in Codes \cup {None, Address} /\ remembered \in Codes \cup {None}
    OBVIOUS
  <2>. QED BY <2>1, <2>2, <2>3, <2>4, <2>5 DEF PairingTypeOK
<1>2. Types
  <2>1. typed \in Seq(Alphabet)
    OBVIOUS
  <2>2. missed \in 0..2 /\ away \in 0..Ttl
    OBVIOUS
  <2>4. withdrawn \in BOOLEAN
    BY Zenon
  <2>3. via \in [Lookups -> {"page", "keypad", "overtaken"}] /\ hasty \in BOOLEAN
    <3>1. hasty \in BOOLEAN
      BY Zenon
    <3>. QED BY <3>1
  <2> HIDE DEF PropsInit, PairingInit
  <2>. QED BY <1>0, <1>1, <2>1, <2>2, <2>3, <2>4 DEF Types
<1>3. FoundInv /\ GoneInv
  BY DEF FoundInv, GoneInv, Left
<1>4. PanelInv
  BY DEF PanelInv, PanelKeepsTheCode, Running
<1>. QED BY <1>2, <1>3, <1>4 DEF IInv

-----------------------------------------------------------------------------
(* The service, which keeps a code or does not.                            *)

EntriesOK ==
    /\ entries \in [DOMAIN entries -> 0..Ttl]
    /\ DOMAIN entries \subseteq {Own} \cup Strangers

LEMMA LiveMeans == ASSUME Types PROVE Left \in 0..Ttl /\ (Live(Own) <=> Left > 0)
BY PairingAssumption DEF Types, Left, Live

LEMMA SweptFacts ==
    ASSUME EntriesOK
    PROVE  /\ DOMAIN Swept = {c \in DOMAIN entries : entries[c] > 0}
           /\ \A c \in DOMAIN Swept : Swept[c] = entries[c]
BY DEF Swept, Restrict

\* register(): of the codes that are live none is lost; the one that is
\* registered is kept anew, if there is room.
LEMMA RegisterLeft ==
    ASSUME EntriesOK, NEW c \in {Own} \cup Strangers, entries' = Register(c)
    PROVE  /\ EntriesOK'
           /\ Left' = IF c = Own /\ HasRoom(c) THEN Ttl ELSE Left
<1>1. /\ DOMAIN Swept = {d \in DOMAIN entries : entries[d] > 0}
      /\ \A d \in DOMAIN Swept : Swept[d] = entries[d]
  BY SweptFacts
<1>2. \A d \in DOMAIN entries : entries[d] \in 0..Ttl /\ d \in {Own} \cup Strangers
  BY DEF EntriesOK
<1>3. Ttl \in Nat
  BY PairingAssumption
<1>4. CASE HasRoom(c)
  <2>1. entries' = [d \in {c} \cup DOMAIN Swept |-> IF d = c THEN Ttl ELSE Swept[d]]
    BY <1>4 DEF Register
  <2>2. DOMAIN entries' = {c} \cup DOMAIN Swept
    BY <2>1
  <2>3. \A d \in DOMAIN entries' : entries'[d] = IF d = c THEN Ttl ELSE entries[d]
    BY <1>1, <2>1
  <2>4. EntriesOK'
    BY <1>1, <1>2, <1>3, <2>1, <2>2, <2>3 DEF EntriesOK
  <2>5. Left' = IF c = Own THEN Ttl ELSE Left
    BY <1>1, <1>2, <1>3, <2>2, <2>3 DEF Left
  <2>. QED BY <1>4, <2>4, <2>5
<1>5. CASE ~HasRoom(c)
  <2>1. entries' = Swept
    BY <1>5 DEF Register
  <2>2. EntriesOK'
    <3>1. entries' = [d \in {e \in DOMAIN entries : entries[e] > 0} |-> entries[d]]
      BY <2>1 DEF Swept, Restrict
    <3>. QED BY <1>2, <3>1 DEF EntriesOK
  <2>3. Left' = Left
    BY <1>1, <1>2, <2>1 DEF Left
  <2>. QED BY <1>5, <2>2, <2>3
<1>. QED BY <1>4, <1>5

\* release(), lookup() and time.
LEMMA ReleasedLeft ==
    ASSUME EntriesOK, NEW c, entries' = Released(c)
    PROVE  EntriesOK' /\ Left' = IF c = Own THEN 0 ELSE Left
<1>1. entries' = [d \in DOMAIN entries \ {c} |-> entries[d]]
  BY DEF Released, Restrict
<1>2. EntriesOK'
  BY <1>1 DEF EntriesOK
<1>3. Left' = IF c = Own THEN 0 ELSE Left
  BY <1>1 DEF Left
<1>. QED BY <1>2, <1>3

LEMMA LookedUpLeft ==
    ASSUME EntriesOK, NEW c, entries' = LookedUp(c)
    PROVE  EntriesOK' /\ Left' = Left
<1>1. CASE Live(c)
  BY <1>1 DEF LookedUp, EntriesOK, Left
<1>2. CASE ~Live(c)
  <2>1. EntriesOK' /\ Left' = IF c = Own THEN 0 ELSE Left
    BY <1>2, ReleasedLeft DEF LookedUp
  <2>2. c = Own => Left = 0
    BY <1>2, PairingAssumption DEF Live, Left, EntriesOK
  <2>. QED BY <2>1, <2>2
<1>. QED BY <1>1, <1>2

LEMMA AgedLeft ==
    ASSUME EntriesOK, entries' = Aged
    PROVE  EntriesOK' /\ Left' = IF Left > 0 THEN Left - 1 ELSE 0
<1>1. \A c \in DOMAIN entries : entries[c] \in 0..Ttl
  BY DEF EntriesOK
<1>2. EntriesOK'
  BY <1>1, PairingAssumption DEF Aged, EntriesOK
<1>3. Left' = IF Left > 0 THEN Left - 1 ELSE 0
  BY <1>1 DEF Aged, Left
<1>. QED BY <1>2, <1>3

LEMMA CountedFacts == ASSUME PairingTypeOK PROVE Counted \in [count : 0..MaxRequests, left : 0..Window]
BY PairingAssumption DEF PairingTypeOK, Counted, Allowed

-----------------------------------------------------------------------------
(* The bridge and the service.  What the page keeps is left alone.         *)

\* The types of what the page keeps, and of the rest.
PageTypes ==
    /\ session \in BOOLEAN /\ forced \in BOOLEAN /\ open \in BOOLEAN
    /\ shown \in BOOLEAN /\ locked \in BOOLEAN /\ Len(typed) <= CodeLength
    /\ busy \in BOOLEAN /\ lookups \in [Lookups -> {Free} \cup [code : Codes, stage : Stages]]
    /\ support \in {"unknown", "yes", "no"}
    /\ target \in Codes \cup {None, Address} /\ remembered \in Codes \cup {None}
    /\ typed \in Seq(Alphabet)

BridgeTypes ==
    /\ run \in {"off", "up", "leaving"} /\ awaited \in {"none", "post", "delete"}
    /\ registered \in BOOLEAN /\ reachable \in BOOLEAN
    /\ clock \in 0..Refresh /\ wire \subseteq {"post", "delete"}

HistoryTypes ==
    /\ missed \in 0..2 /\ withdrawn \in BOOLEAN /\ away \in 0..Ttl
    /\ via \in [Lookups -> {"page", "keypad", "overtaken"}] /\ hasty \in BOOLEAN

LimiterType == limiter \in [count : 0..MaxRequests, left : 0..Window]

LEMMA TypesParts == Types <=> EntriesOK /\ PageTypes /\ BridgeTypes /\ HistoryTypes /\ LimiterType
BY DEF Types, PairingTypeOK, EntriesOK, PageTypes, BridgeTypes, HistoryTypes, LimiterType

LEMMA TypesPartsNext ==
    Types' <=> EntriesOK' /\ PageTypes' /\ BridgeTypes' /\ HistoryTypes' /\ LimiterType'
BY DEF Types, PairingTypeOK, EntriesOK, PageTypes, BridgeTypes, HistoryTypes, LimiterType

\* A step of the bridge or of the service: how it counts, and how much is left.
BridgeStep ==
    /\ UNCHANGED <<pageVars, askVars>>
    /\ EntriesOK' /\ BridgeTypes' /\ LimiterType'
    /\ missed' \in 0..2 /\ withdrawn' \in BOOLEAN /\ away' \in 0..Ttl

LEMMA BridgeStepInv ==
    ASSUME IInv, BridgeStep, FoundInv', GoneInv'
    PROVE  IInv'
<1>1. PageTypes' /\ HistoryTypes'
  BY TypesParts DEF IInv, BridgeStep, PageTypes, HistoryTypes, pageVars, panelVars, lookupVars, askVars
<1>2. Types'
  BY <1>1, TypesPartsNext DEF BridgeStep
<1>3. PanelInv'
  BY DEF IInv, PanelInv, PanelKeepsTheCode, Running, BridgeStep, pageVars, panelVars, lookupVars, askVars
<1>. QED BY <1>2, <1>3 DEF IInv

\* Nothing arrives at the service, and no time passes.
LEMMA SameEntries ==
    ASSUME EntriesOK, UNCHANGED entries
    PROVE  EntriesOK' /\ Left' = Left
BY DEF EntriesOK, Left

LEMMA StartInv == ASSUME IInv, Counts(Start, 2, FALSE, 0) PROVE IInv'
<1> USE PairingAssumption
<1>1. EntriesOK /\ BridgeTypes /\ LimiterType /\ HistoryTypes /\ Left \in 0..Ttl
  BY TypesParts, LiveMeans DEF IInv
<1>2. /\ run' = "up" /\ missed' = 2 /\ withdrawn' = FALSE /\ away' = 0
      /\ UNCHANGED <<entries, limiter, pageVars, askVars>>
  BY DEF Counts, Start, serviceVars
<1>3. EntriesOK' /\ Left' = Left
  BY <1>1, <1>2, SameEntries
<1>4. BridgeTypes'
  <2>1. /\ clock' = 1 /\ reachable' = reachable
        /\ awaited' \in {"post", awaited} /\ wire' \in {wire, wire \cup {"post"}}
    BY DEF Counts, Start, Refresh
  <2>2. registered' \in BOOLEAN
    BY Zenon DEF Counts, Start
  <2>. QED BY <1>1, <1>2, <2>1, <2>2 DEF BridgeTypes, Refresh
<1>5. BridgeStep
  <2>1. LimiterType'
    BY <1>1, <1>2 DEF LimiterType
  <2>2. missed' \in 0..2 /\ away' \in 0..Ttl
    BY <1>2
  <2>3. withdrawn' \in BOOLEAN
    BY <1>2, Zenon
  <2>. QED BY <1>2, <1>3, <1>4, <2>1, <2>2, <2>3 DEF BridgeStep
<1>6. FoundInv' /\ GoneInv'
  BY <1>1, <1>2, <1>3 DEF FoundInv, GoneInv
<1>. QED BY <1>5, <1>6, BridgeStepInv

LEMMA TimerFiresInv ==
    ASSUME IInv, Counts(TimerFires, IF reachable THEN missed ELSE More(missed), withdrawn, 0)
    PROVE  IInv'
<1> USE PairingAssumption
<1>1. EntriesOK /\ BridgeTypes /\ LimiterType /\ HistoryTypes /\ Left \in 0..Ttl
  BY TypesParts, LiveMeans DEF IInv
<1>2. /\ run = "up" /\ run' = "up" /\ clock = 0 /\ clock' = 1
      /\ missed' = IF reachable THEN missed ELSE More(missed)
      /\ withdrawn' = withdrawn /\ away' = 0
      /\ UNCHANGED <<entries, limiter, pageVars, askVars>>
  BY DEF Counts, TimerFires, Publish, Refresh, serviceVars
<1>3. EntriesOK' /\ Left' = Left
  BY <1>1, <1>2, SameEntries
<1>4. BridgeTypes'
  <2>1. /\ reachable' = reachable
        /\ awaited' \in {"post", awaited} /\ wire' \in {wire, wire \cup {"post"}}
    BY DEF Counts, TimerFires, Publish
  <2>2. registered' \in BOOLEAN
    <3>1. registered \in BOOLEAN /\ (registered' = registered \/ registered' = FALSE)
      BY <1>1 DEF BridgeTypes, Counts, TimerFires, Publish
    <3>. QED BY <3>1, Zenon
  <2>. QED BY <1>1, <1>2, <2>1, <2>2 DEF BridgeTypes, Refresh
<1>5. BridgeStep
  BY <1>1, <1>2, <1>3, <1>4 DEF BridgeStep, LimiterType, HistoryTypes, More
<1>6. withdrawn = FALSE
  BY <1>1, <1>2 DEF IInv, GoneInv, HistoryTypes
<1>7. FoundInv'
  <2>1. CASE reachable
    <3>1. awaited' = "post"
      BY <2>1 DEF Counts, TimerFires, Publish
    <3>. QED BY <1>1, <1>2, <1>3, <2>1, <3>1 DEF IInv, FoundInv, HistoryTypes
  <2>2. CASE ~reachable
    BY <1>1, <1>2, <1>3, <2>2 DEF IInv, FoundInv, HistoryTypes, More
  <2>. QED BY <2>1, <2>2
<1>8. GoneInv'
  BY <1>1, <1>2, <1>3, <1>6 DEF GoneInv
<1>. QED BY <1>5, <1>7, <1>8, BridgeStepInv

\* A registration is made anew, or is not: the limiter or the store refuses it.
LEMMA PostArrivesInv ==
    ASSUME IInv, NEW heard \in BOOLEAN,
           Counts(PostArrives(heard), IF Accepted THEN 0
                  ELSE IF Allowed /\ Live(Own) THEN missed
                  ELSE IF awaited = "post" THEN More(missed) ELSE missed, withdrawn, away)
    PROVE  IInv'
<1> USE PairingAssumption
<1>1. EntriesOK /\ BridgeTypes /\ LimiterType /\ HistoryTypes /\ Left \in 0..Ttl
  BY TypesParts, LiveMeans DEF IInv
<1>2. /\ "post" \in wire /\ wire' = wire \ {"post"}
      /\ missed' = IF Accepted THEN 0
                   ELSE IF Allowed /\ Live(Own) THEN missed
                   ELSE IF awaited = "post" THEN More(missed) ELSE missed
      /\ limiter' = Counted /\ entries' = IF Allowed THEN Register(Own) ELSE entries
      /\ UNCHANGED <<run, clock, reachable, pageVars, withdrawn, away, askVars>>
  BY DEF Counts, PostArrives
<1>3. /\ awaited' = IF awaited = "post" THEN "none" ELSE awaited
      /\ registered' \in BOOLEAN
  BY <1>1 DEF Counts, PostArrives, BridgeTypes
<1>4. EntriesOK' /\ Left' = IF Accepted THEN Ttl ELSE Left
  <2>1. CASE Allowed
    BY <1>1, <1>2, <2>1, RegisterLeft DEF Accepted
  <2>2. CASE ~Allowed
    BY <1>1, <1>2, <2>2, SameEntries DEF Accepted
  <2>. QED BY <2>1, <2>2
<1>5. LimiterType'
  BY <1>2, CountedFacts DEF LimiterType, IInv, Types
<1>6. BridgeTypes'
  BY <1>1, <1>2, <1>3 DEF BridgeTypes
<1>7. BridgeStep
  BY <1>1, <1>2, <1>4, <1>5, <1>6 DEF BridgeStep, HistoryTypes, More
<1>8. ~Accepted => ~(Allowed /\ Live(Own))
  BY <1>1 DEF Accepted, HasRoom, Live, Swept, Restrict
<1>9. away = 0 /\ withdrawn = FALSE
  BY <1>1, <1>2 DEF IInv, GoneInv, HistoryTypes
<1>10. GoneInv'
  BY <1>1, <1>2, <1>4, <1>9 DEF GoneInv
<1>11. FoundInv'
  <2>1. CASE Accepted
    BY <1>2, <1>4, <2>1 DEF FoundInv
  <2>2. CASE ~Accepted /\ awaited = "post"
    BY <1>1, <1>2, <1>3, <1>4, <1>8, <2>2 DEF IInv, FoundInv, HistoryTypes, More
  <2>3. CASE ~Accepted /\ awaited # "post"
    BY <1>1, <1>2, <1>3, <1>4, <1>8, <2>3 DEF IInv, FoundInv, HistoryTypes
  <2>. QED BY <2>1, <2>2, <2>3
<1>. QED BY <1>7, <1>10, <1>11, BridgeStepInv

LEMMA GivesUpInv ==
    ASSUME IInv,
           Counts(GivesUp, IF awaited = "post" THEN More(missed) ELSE missed, withdrawn, away)
    PROVE  IInv'
<1> USE PairingAssumption
<1>1. EntriesOK /\ BridgeTypes /\ LimiterType /\ HistoryTypes /\ Left \in 0..Ttl
  BY TypesParts, LiveMeans DEF IInv
<1>2. /\ awaited # "none" /\ awaited' = "none"
      /\ IF awaited = "post" THEN run' = run ELSE run' = "off"
      /\ missed' = IF awaited = "post" THEN More(missed) ELSE missed
      /\ UNCHANGED <<clock, reachable, wire, entries, limiter, pageVars, withdrawn, away, askVars>>
  BY DEF Counts, GivesUp, serviceVars
<1>3. EntriesOK' /\ Left' = Left
  BY <1>1, <1>2, SameEntries
<1>4. BridgeTypes'
  <2>1. registered' \in BOOLEAN
    BY <1>1 DEF BridgeTypes, Counts, GivesUp
  <2>. QED BY <1>1, <1>2, <2>1 DEF BridgeTypes
<1>5. BridgeStep
  BY <1>1, <1>2, <1>3, <1>4 DEF BridgeStep, LimiterType, HistoryTypes, More
<1>6. FoundInv'
  BY <1>1, <1>2, <1>3 DEF IInv, FoundInv, HistoryTypes, More
<1>7. GoneInv'
  BY <1>1, <1>2, <1>3 DEF IInv, GoneInv
<1>. QED BY <1>5, <1>6, <1>7, BridgeStepInv

LEMMA DeleteArrivesInv ==
    ASSUME IInv,
           Counts(DeleteArrives, 2,
                  withdrawn \/ (Allowed /\ run # "up" /\ wire = {"delete"}), away)
    PROVE  IInv'
<1> USE PairingAssumption
<1>1. EntriesOK /\ BridgeTypes /\ LimiterType /\ HistoryTypes /\ Left \in 0..Ttl
  BY TypesParts, LiveMeans DEF IInv
<1>2. /\ wire' = wire \ {"delete"} /\ limiter' = Counted /\ missed' = 2
      /\ withdrawn' = (withdrawn \/ (Allowed /\ run # "up" /\ wire = {"delete"}))
      /\ entries' = IF Allowed THEN Released(Own) ELSE entries
      /\ IF awaited = "delete" THEN run' = "off" /\ awaited' = "none" ELSE UNCHANGED <<run, awaited>>
      /\ UNCHANGED <<registered, clock, reachable, pageVars, away, askVars>>
  BY DEF Counts, DeleteArrives
<1>3. EntriesOK' /\ Left' = IF Allowed THEN 0 ELSE Left
  BY <1>1, <1>2, ReleasedLeft, SameEntries
<1>4. LimiterType'
  BY <1>2, CountedFacts DEF LimiterType, IInv, Types
<1>5. BridgeTypes'
  BY <1>1, <1>2 DEF BridgeTypes
<1>6. withdrawn' \in BOOLEAN
  BY <1>1, <1>2 DEF HistoryTypes
<1>7. BridgeStep
  BY <1>1, <1>2, <1>3, <1>4, <1>5, <1>6 DEF BridgeStep, HistoryTypes
<1>8. FoundInv'
  BY <1>2 DEF FoundInv
<1>9. withdrawn' => run' # "up" /\ "post" \notin wire' /\ Left' = 0
  <2>1. run # "up" => run' # "up"
    BY <1>2
  <2>2. withdrawn => run # "up" /\ "post" \notin wire /\ Left = 0
    BY DEF IInv, GoneInv
  <2>. QED BY <1>2, <1>3, <2>1, <2>2
<1>10. GoneInv'
  BY <1>1, <1>2, <1>3, <1>9 DEF IInv, GoneInv, HistoryTypes
<1>. QED BY <1>7, <1>8, <1>10, BridgeStepInv

\* The bridge stops or dies, something is lost, the network changes: nothing
\* that a registration rests on is the worse for it.
LEMMA GoesInv ==
    ASSUME IInv, \/ Same(Stop) \/ Same(Crash) \/ Same(Lost("post")) \/ Same(Lost("delete"))
                 \/ Same(NetworkChanges)
    PROVE  IInv'
<1> USE PairingAssumption
<1>1. EntriesOK /\ BridgeTypes /\ LimiterType /\ HistoryTypes /\ Left \in 0..Ttl
  BY TypesParts, LiveMeans DEF IInv
<1>2. UNCHANGED <<entries, limiter, pageVars, missed, withdrawn, away, askVars>>
  BY DEF Same, Counts, Stop, Crash, Lost, NetworkChanges, serviceVars
<1>3. EntriesOK' /\ Left' = Left
  BY <1>1, <1>2, SameEntries
<1>4. BridgeTypes'
  <2>1. CASE Same(Stop) \/ Same(Crash)
    <3>1. /\ run' \in {"off", "leaving"} /\ awaited' \in {"none", "delete"} /\ clock' = 0
          /\ wire' \in {wire, wire \cup {"delete"}} /\ UNCHANGED <<registered, reachable>>
      BY <2>1 DEF Same, Counts, Stop, Crash
    <3>. QED BY <1>1, <3>1 DEF BridgeTypes, Refresh
  <2>2. CASE \/ Same(Lost("post")) \/ Same(Lost("delete")) \/ Same(NetworkChanges)
    <3>1. /\ UNCHANGED <<run, awaited, clock, registered>>
          /\ reachable' \in {reachable, ~reachable} /\ wire' \subseteq wire
      BY <2>2 DEF Same, Counts, Lost, NetworkChanges
    <3>. QED BY <1>1, <3>1 DEF BridgeTypes, Refresh
  <2>. QED BY <2>1, <2>2
<1>5. BridgeStep
  BY <1>1, <1>2, <1>3, <1>4 DEF BridgeStep, LimiterType, HistoryTypes
<1>6. /\ run' = "up" => run = "up" /\ UNCHANGED <<clock, awaited>>
      /\ "post" \in wire' => "post" \in wire
  BY DEF Same, Counts, Stop, Crash, Lost, NetworkChanges
<1>7. FoundInv' /\ GoneInv'
  BY <1>2, <1>3, <1>6 DEF IInv, FoundInv, GoneInv
<1>. QED BY <1>5, <1>7, BridgeStepInv

\* Forty seconds pass: the bridge has one publication less in hand.
LEMMA TickInv ==
    ASSUME IInv,
           Counts(Tick, missed, withdrawn,
                  IF run = "up" THEN 0 ELSE IF away < Ttl THEN away + 1 ELSE away)
    PROVE  IInv'
<1> USE PairingAssumption
<1>1. EntriesOK /\ BridgeTypes /\ LimiterType /\ HistoryTypes /\ Left \in 0..Ttl
  BY TypesParts, LiveMeans DEF IInv
<1>2. /\ wire = {} /\ awaited = "none" /\ (run = "up" => clock > 0)
      /\ entries' = Aged /\ clock' = IF run = "up" THEN clock - 1 ELSE 0
      /\ away' = IF run = "up" THEN 0 ELSE IF away < Ttl THEN away + 1 ELSE away
      /\ UNCHANGED <<run, registered, awaited, reachable, wire, pageVars, missed, withdrawn, askVars>>
  BY DEF Counts, Tick
<1>3. EntriesOK' /\ Left' = IF Left > 0 THEN Left - 1 ELSE 0
  BY <1>1, <1>2, AgedLeft
<1>4. BridgeTypes'
  BY <1>1, <1>2 DEF BridgeTypes, Refresh
<1>5. LimiterType'
  BY <1>1 DEF LimiterType, Counts, Tick
<1>6. BridgeStep
  BY <1>1, <1>2, <1>3, <1>4, <1>5 DEF BridgeStep, HistoryTypes
<1>7. FoundInv'
  <2> SUFFICES ASSUME run = "up", missed < 2 PROVE FoundInv'
    BY <1>2 DEF FoundInv
  <2>1. clock = 1 /\ clock' = 0
    BY <1>1, <1>2 DEF BridgeTypes, Refresh
  <2>2. Left + missed >= Ttl
    BY <1>1, <1>2, <2>1 DEF IInv, FoundInv, HistoryTypes
  <2>3. Left' = Left - 1
    BY <1>1, <1>3, <2>2, TtlAssumption DEF HistoryTypes
  <2>. QED BY <1>1, <1>2, <2>1, <2>2, <2>3 DEF FoundInv, HistoryTypes
<1>8. GoneInv'
  BY <1>1, <1>2, <1>3 DEF IInv, GoneInv, HistoryTypes
<1>. QED BY <1>6, <1>7, <1>8, BridgeStepInv

LEMMA StrangerInv == ASSUME IInv, NEW c \in Strangers, Same(StrangerRegisters(c)) PROVE IInv'
<1>1. EntriesOK /\ BridgeTypes /\ LimiterType /\ HistoryTypes /\ Left \in 0..Ttl
  BY TypesParts, LiveMeans DEF IInv
<1>2. /\ entries' = Register(c)
      /\ UNCHANGED <<limiter, bridgeVars, pageVars, missed, withdrawn, away, askVars>>
  BY DEF Same, Counts, StrangerRegisters
<1>3. EntriesOK' /\ Left' = Left
  BY <1>1, <1>2, RegisterLeft, PairingAssumption
<1>4. BridgeTypes' /\ LimiterType' /\ UNCHANGED <<run, awaited, clock, wire>>
  BY <1>1, <1>2 DEF BridgeTypes, LimiterType, bridgeVars
<1>5. BridgeStep
  BY <1>1, <1>2, <1>3, <1>4 DEF BridgeStep, HistoryTypes
<1>6. FoundInv' /\ GoneInv'
  BY <1>2, <1>3, <1>4 DEF IInv, FoundInv, GoneInv
<1>. QED BY <1>5, <1>6, BridgeStepInv

LEMMA ServiceRestartsInv == ASSUME IInv, Counts(ServiceRestarts, 2, withdrawn, away) PROVE IInv'
<1> USE PairingAssumption
<1>1. EntriesOK /\ BridgeTypes /\ LimiterType /\ HistoryTypes /\ Left \in 0..Ttl
  BY TypesParts, LiveMeans DEF IInv
<1>2. /\ entries' = <<>> /\ limiter' = [count |-> 0, left |-> 0] /\ missed' = 2
      /\ UNCHANGED <<bridgeVars, pageVars, withdrawn, away, askVars>>
  BY DEF Counts, ServiceRestarts
<1>3. DOMAIN entries' = {} /\ entries' \in [DOMAIN entries' -> 0..Ttl]
  BY <1>2
<1>4. EntriesOK' /\ Left' = 0
  BY <1>3 DEF EntriesOK, Left
<1>5. BridgeTypes' /\ LimiterType' /\ UNCHANGED <<run, wire>>
  BY <1>1, <1>2 DEF BridgeTypes, LimiterType, bridgeVars
<1>6. BridgeStep
  BY <1>1, <1>2, <1>4, <1>5 DEF BridgeStep, HistoryTypes
<1>7. FoundInv' /\ GoneInv'
  BY <1>1, <1>2, <1>4, <1>5 DEF IInv, FoundInv, GoneInv, HistoryTypes
<1>. QED BY <1>6, <1>7, BridgeStepInv

-----------------------------------------------------------------------------
(* The page.  The bridge and how long its code is kept are left alone.     *)

PageChange ==
    /\ UNCHANGED <<bridgeVars, missed, withdrawn, away>>
    /\ EntriesOK' /\ LimiterType' /\ Left' = Left
    /\ PageTypes'
    /\ via' \in [Lookups -> {"page", "keypad", "overtaken"}] /\ hasty' \in BOOLEAN

LEMMA PageStepInv ==
    ASSUME IInv, PageChange, PanelInv'
    PROVE  IInv'
<1>1. BridgeTypes' /\ HistoryTypes' /\ UNCHANGED <<run, awaited, clock, wire>>
  BY TypesParts DEF IInv, PageChange, BridgeTypes, HistoryTypes, bridgeVars
<1>2. Types'
  BY <1>1, TypesPartsNext DEF PageChange
<1>3. FoundInv' /\ GoneInv'
  BY <1>1 DEF IInv, PageChange, FoundInv, GoneInv
<1>. QED BY <1>2, <1>3 DEF IInv

LEMMA SameService ==
    ASSUME IInv, UNCHANGED <<bridgeVars, serviceVars, missed, withdrawn, away>>
    PROVE  /\ EntriesOK' /\ LimiterType' /\ Left' = Left
           /\ UNCHANGED <<bridgeVars, missed, withdrawn, away>>
<1>1. UNCHANGED <<entries, limiter>>
  BY DEF serviceVars
<1>. QED BY <1>1, TypesParts, SameEntries DEF IInv, LimiterType

\* applyKey() takes a key at the end, or gives one back.
LEMMA ApplyKeyFacts ==
    ASSUME NEW code \in Seq(Alphabet), Len(code) <= CodeLength,
           NEW key \in Alphabet \cup {Backspace}
    PROVE  ApplyKey(code, key) \in Seq(Alphabet) /\ Len(ApplyKey(code, key)) <= CodeLength
<1> USE PairingAssumption
<1>1. CASE key = Backspace /\ code = <<>>
  <2>1. ApplyKey(code, key) = SubSeq(code, 1, 0)
    BY <1>1 DEF ApplyKey
  <2>2. SubSeq(code, 1, 0) \in Seq(Alphabet) /\ Len(SubSeq(code, 1, 0)) = 0
    OBVIOUS
  <2>. QED BY <2>1, <2>2
<1>2. CASE key = Backspace /\ code # <<>>
  <2>1. ApplyKey(code, key) = SubSeq(code, 1, Len(code) - 1)
    BY <1>2 DEF ApplyKey
  <2>2. Len(code) \in Nat \ {0} /\ Len(code) - 1 \in 0..Len(code)
    BY <1>2
  <2> DEFINE n == Len(code) - 1
  <2>3. /\ SubSeq(code, 1, n) \in Seq(Alphabet)
        /\ Len(SubSeq(code, 1, n)) = n
    <3>1. n \in Nat /\ n <= Len(code) /\ 1..n \subseteq 1..Len(code)
      BY <2>2
    <3> HIDE DEF n
    <3>. QED BY <3>1
  <2>. QED BY <2>1, <2>2, <2>3
<1>3. CASE key # Backspace
  BY <1>3 DEF ApplyKey
<1>. QED BY <1>1, <1>2, <1>3

\* A lookup begins in a place that is free.
LEMMA PairFacts ==
    ASSUME PageTypes, NEW code \in Codes, Pair(code)
    PROVE  \E i \in Lookups \ Running :
               /\ Running' = Running \cup {i} /\ lookups'[i].code = code /\ busy' = TRUE
               /\ \A j \in Lookups \ {i} : lookups'[j] = lookups[j]
               /\ lookups' \in [Lookups -> {Free} \cup [code : Codes, stage : Stages]]
<1> DEFINE waits == CASE support = "unknown" -> "config" [] support = "yes" -> "lookup" [] OTHER -> "refused"
<1>1. PICK i \in Lookups \ Running :
          lookups' = [lookups EXCEPT ![i] = [code |-> code, stage |-> waits]] /\ busy' = TRUE
  BY DEF Pair
<1>2. waits \in Stages
  BY DEF PageTypes, Stages
<1> HIDE DEF waits
<1>3. lookups \in [Lookups -> {Free} \cup [code : Codes, stage : Stages]]
  BY DEF PageTypes
<1>4. /\ lookups' \in [Lookups -> {Free} \cup [code : Codes, stage : Stages]]
      /\ lookups'[i] = [code |-> code, stage |-> waits]
      /\ \A j \in Lookups \ {i} : lookups'[j] = lookups[j]
  BY <1>1, <1>2, <1>3
<1>5. lookups'[i] # Free
  <2>1. lookups'[i].stage # "none"
    BY <1>2, <1>4 DEF Stages
  <2>. QED BY <2>1 DEF Free
<1>6. Running' = Running \cup {i}
  BY <1>4, <1>5 DEF Running
<1>. QED BY <1>1, <1>4, <1>6

\* Where a lookup was entered is known of each, before a step and after it.
LEMMA ViaType ==
    ASSUME HistoryTypes, NEW by \in {"page", "keypad"},
           via' = [i \in Lookups |-> IF i \notin Running' THEN "page" ELSE IF i \in Running THEN via[i] ELSE by]
    PROVE  /\ via' \in [Lookups -> {"page", "keypad", "overtaken"}]
           /\ \A i \in Running : i \in Running' => via'[i] = via[i]
           /\ \A i \in Running' : i \notin Running => via'[i] = by
BY DEF HistoryTypes, Running

\* No code is looked up anew, and none is off.
LEMMA SameLookups ==
    ASSUME IInv, UNCHANGED <<lookups, busy>>, typed' \in {typed, <<>>}, ~shown' => typed' = <<>>,
           \A i \in Running : via'[i] = via[i] \/ via'[i] # "keypad",
           hasty' = hasty \/ hasty' = (hasty /\ Running' # {})
    PROVE  PanelInv'
<1>1. Running' = Running
  BY DEF Running
<1>2. ASSUME ~hasty' PROVE ~hasty \/ (Running = {} /\ ~busy)
  BY <1>1, <1>2 DEF IInv, PanelInv
<1>. QED BY <1>1, <1>2 DEF IInv, PanelInv, PanelKeepsTheCode

LEMMA PressInv ==
    ASSUME IInv, NEW k \in Alphabet \cup {Backspace}, Asks(Press(k), "keypad")
    PROVE  IInv'
<1>1. /\ shown /\ ~locked
      /\ typed' = ApplyKey(typed, k)
      /\ \/ Pair(typed') /\ Len(typed') = CodeLength
         \/ UNCHANGED <<busy, lookups>>
      /\ hasty' = (hasty \/ (busy /\ ~locked))
      /\ UNCHANGED <<bridgeVars, serviceVars, session, forced, open, shown, locked, support, target, remembered>>
      /\ UNCHANGED <<missed, withdrawn, away>>
      /\ via' = [i \in Lookups |-> IF i \notin Running' THEN "page" ELSE IF i \in Running THEN via[i] ELSE "keypad"]
  BY DEF Asks, PageStep, Press, TakesKey
<1>2. PageTypes /\ HistoryTypes
  BY TypesParts DEF IInv
<1>3. typed' \in Seq(Alphabet) /\ Len(typed') <= CodeLength
  BY <1>1, <1>2, ApplyKeyFacts DEF PageTypes
<1>4. Len(typed') = CodeLength => typed' \in Codes
  BY <1>3 DEF Codes
<1>5. hasty' \in BOOLEAN /\ (~hasty' => ~hasty /\ ~busy /\ Running = {})
  <2>1. hasty' = (hasty \/ busy)
    BY <1>1
  <2>2. ~hasty /\ ~busy => Running = {}
    BY DEF IInv, PanelInv, PanelKeepsTheCode
  <2>. QED BY <1>2, <2>1, <2>2 DEF HistoryTypes, PageTypes
<1>6. /\ via' \in [Lookups -> {"page", "keypad", "overtaken"}]
      /\ \A i \in Running' : i \notin Running => via'[i] = "keypad"
  BY <1>1, <1>2, ViaType
<1>7. CASE Pair(typed') /\ Len(typed') = CodeLength
  <2>1. PICK i \in Lookups \ Running :
            /\ Running' = Running \cup {i} /\ lookups'[i].code = typed' /\ busy' = TRUE
            /\ lookups' \in [Lookups -> {Free} \cup [code : Codes, stage : Stages]]
    BY <1>2, <1>4, <1>7, PairFacts
  <2>2. PageTypes'
    BY <1>1, <1>2, <1>3, <2>1 DEF PageTypes
  <2>3. ~hasty' => Running' = {i}
    BY <1>5, <2>1
  <2>4. PanelInv'
    BY <1>1, <2>1, <2>3 DEF PanelInv, PanelKeepsTheCode
  <2>. QED BY <1>1, <1>5, <1>6, <2>2, <2>4, SameService, PageStepInv DEF PageChange
<1>8. CASE UNCHANGED <<busy, lookups>>
  <2>1. Running' = Running
    BY <1>8 DEF Running
  <2>2. PageTypes'
    BY <1>1, <1>2, <1>3, <1>8 DEF PageTypes
  <2>3. PanelInv'
    BY <1>1, <1>5, <1>8, <2>1 DEF IInv, PanelInv, PanelKeepsTheCode
  <2>. QED BY <1>1, <1>5, <1>6, <2>2, <2>3, SameService, PageStepInv DEF PageChange
<1>. QED BY <1>1, <1>7, <1>8

\* A code is entered on the page, which is drawn at once.
LEMMA EnterInv ==
    ASSUME IInv, NEW c \in {Own} \cup Strangers, Asks(Enter(c), "page")
    PROVE  IInv'
<1>1. /\ ~locked /\ Pair(c) /\ locked' = TRUE
      /\ hasty' = (hasty \/ (busy /\ ~locked))
      /\ UNCHANGED <<bridgeVars, serviceVars, session, forced, open, shown, typed, support, target, remembered>>
      /\ UNCHANGED <<missed, withdrawn, away>>
      /\ via' = [i \in Lookups |-> IF i \notin Running' THEN "page" ELSE IF i \in Running THEN via[i] ELSE "page"]
  BY DEF Asks, PageStep, Enter
<1>2. PageTypes /\ HistoryTypes /\ c \in Codes
  BY TypesParts, PairingAssumption DEF IInv
<1>3. hasty' \in BOOLEAN /\ (~hasty' => ~hasty /\ ~busy /\ Running = {})
  <2>1. hasty' = (hasty \/ busy)
    BY <1>1
  <2>2. ~hasty /\ ~busy => Running = {}
    BY DEF IInv, PanelInv, PanelKeepsTheCode
  <2>. QED BY <1>2, <2>1, <2>2 DEF HistoryTypes, PageTypes
<1>4. /\ via' \in [Lookups -> {"page", "keypad", "overtaken"}]
      /\ \A i \in Running' : i \notin Running => via'[i] = "page"
  BY <1>1, <1>2, ViaType
<1>5. PICK i \in Lookups \ Running :
          /\ Running' = Running \cup {i} /\ busy' = TRUE
          /\ lookups' \in [Lookups -> {Free} \cup [code : Codes, stage : Stages]]
  BY <1>1, <1>2, PairFacts
<1>6. PageTypes'
  BY <1>1, <1>2, <1>5 DEF PageTypes
<1>7. ~hasty' => Running' = {i}
  BY <1>3, <1>5
<1>8. PanelInv'
  BY <1>1, <1>4, <1>5, <1>7 DEF IInv, PanelInv, PanelKeepsTheCode
<1>. QED BY <1>1, <1>3, <1>4, <1>6, <1>8, SameService, PageStepInv DEF PageChange

\* An address is entered: the lookups go on.
LEMMA AddressInv ==
    ASSUME IInv, Overtakes(ConnectByAddress)
    PROVE  IInv'
<1>1. /\ target' = Address /\ remembered' = None /\ open' = FALSE
      /\ via' = [i \in Lookups |-> IF i \in Running THEN "overtaken" ELSE "page"]
      /\ UNCHANGED <<bridgeVars, serviceVars, session, forced, shown, locked, typed, busy, lookups, support>>
      /\ UNCHANGED <<missed, withdrawn, away, hasty>>
  BY DEF Overtakes, ConnectByAddress
<1>2. PageTypes /\ HistoryTypes
  BY TypesParts DEF IInv
<1>3. PageTypes'
  BY <1>1, <1>2 DEF PageTypes
<1>4. /\ via' \in [Lookups -> {"page", "keypad", "overtaken"}] /\ hasty' \in BOOLEAN
      /\ \A i \in Running : via'[i] # "keypad"
  BY <1>1, <1>2 DEF HistoryTypes, Running
<1>5. PanelInv'
  BY <1>1, <1>4, SameLookups DEF IInv, PanelInv
<1>. QED BY <1>1, <1>3, <1>4, <1>5, SameService, PageStepInv DEF PageChange

\* What is drawn, what is to be drawn, and a page that is loaded anew.
LEMMA DrawnInv ==
    ASSUME IInv, \/ Goes(Draw) \/ Goes(LinkChanges) \/ Goes(SessionChanges) \/ Goes(ShowKeypad)
    PROVE  IInv'
<1>1. PageTypes /\ HistoryTypes
  BY TypesParts DEF IInv
<1>2. /\ hasty' = (hasty /\ Running' # {})
      /\ UNCHANGED <<bridgeVars, serviceVars, lookupVars, missed, withdrawn, away>>
      /\ via' = [i \in Lookups |-> IF i \notin Running' THEN "page" ELSE IF i \in Running THEN via[i] ELSE "page"]
  BY DEF Goes, PageStep, Draw, LinkChanges, SessionChanges, ShowKeypad
<1>3. /\ typed' \in {typed, <<>>} /\ (~shown' => typed' = <<>>)
      /\ session' \in BOOLEAN /\ forced' \in BOOLEAN /\ open' \in BOOLEAN
      /\ shown' \in BOOLEAN /\ locked' \in BOOLEAN
  <2>1. KeypadVisible \in BOOLEAN
    BY DEF KeypadVisible
  <2>2. CASE Goes(Draw)
    BY <1>1, <2>1, <2>2 DEF Goes, PageStep, Draw, PageTypes
  <2>3. CASE Goes(LinkChanges) \/ Goes(SessionChanges) \/ Goes(ShowKeypad)
    BY <1>1, <2>3 DEF IInv, PanelInv, Goes, PageStep, LinkChanges, SessionChanges, ShowKeypad, PageTypes
  <2>. QED BY <2>2, <2>3
<1>4. UNCHANGED <<lookups, busy, support, target, remembered>>
  BY <1>2 DEF lookupVars
<1>5. typed' \in Seq(Alphabet) /\ Len(typed') <= CodeLength
  <2>1. <<>> \in Seq(Alphabet) /\ Len(<<>>) <= CodeLength
    BY PairingAssumption
  <2>2. typed' = typed \/ typed' = <<>>
    BY <1>3
  <2>. QED BY <1>1, <2>1, <2>2 DEF PageTypes
<1>6. PageTypes'
  BY <1>1, <1>3, <1>4, <1>5 DEF PageTypes
<1>7. /\ via' \in [Lookups -> {"page", "keypad", "overtaken"}]
      /\ Running' = Running /\ \A i \in Running : via'[i] = via[i]
  BY <1>1, <1>2, <1>4, ViaType DEF Running
<1>8. PanelInv'
  BY <1>2, <1>3, <1>4, <1>7, SameLookups
<1>9. hasty' \in BOOLEAN
  BY <1>1, <1>2 DEF HistoryTypes
<1>. QED BY <1>2, <1>6, <1>7, <1>8, <1>9, SameService, PageStepInv DEF PageChange

LEMMA VisitInv ==
    ASSUME IInv, Goes(Visit)
    PROVE  IInv'
<1>1. PageTypes /\ HistoryTypes
  BY TypesParts DEF IInv
<1>2. /\ hasty' = (hasty /\ Running' # {})
      /\ session' = FALSE /\ forced' = FALSE /\ open' = FALSE
      /\ shown' = FALSE /\ locked' = FALSE /\ typed' = <<>>
      /\ busy' = FALSE /\ lookups' = [i \in Lookups |-> Free]
      /\ support' = "unknown" /\ target' = remembered
      /\ UNCHANGED <<remembered, bridgeVars, serviceVars, missed, withdrawn, away>>
      /\ via' = [i \in Lookups |-> IF i \notin Running' THEN "page" ELSE IF i \in Running THEN via[i] ELSE "page"]
  BY DEF Goes, PageStep, Visit
<1>3. Running' = {}
  BY <1>2 DEF Running
<1>4. typed' \in Seq(Alphabet) /\ Len(typed') <= CodeLength
  BY <1>2, PairingAssumption
<1>5. PageTypes'
  BY <1>1, <1>2, <1>4 DEF PageTypes
<1>6. via' \in [Lookups -> {"page", "keypad", "overtaken"}] /\ hasty' \in BOOLEAN
  BY <1>1, <1>2, <1>3, ViaType
<1>7. PanelInv'
  BY <1>2, <1>3 DEF PanelInv, PanelKeepsTheCode
<1>. QED BY <1>2, <1>5, <1>6, <1>7, SameService, PageStepInv DEF PageChange

\* A lookup comes to something or to nothing.
LEMMA EndsFacts ==
    ASSUME IInv, NEW i \in Lookups, lookups[i].stage \in Stages,
           Ends(i), typed' = typed, shown' = shown, hasty' = (hasty /\ Running' # {}),
           via' = [j \in Lookups |-> IF j \notin Running' THEN "page" ELSE IF j \in Running THEN via[j] ELSE "page"]
    PROVE  /\ PanelInv' /\ busy' = FALSE
           /\ lookups' \in [Lookups -> {Free} \cup [code : Codes, stage : Stages]]
           /\ via' \in [Lookups -> {"page", "keypad", "overtaken"}] /\ hasty' \in BOOLEAN
<1>1. PageTypes /\ HistoryTypes
  BY TypesParts DEF IInv
<1>2. /\ lookups' = [lookups EXCEPT ![i] = Free] /\ busy' = FALSE
      /\ lookups \in [Lookups -> {Free} \cup [code : Codes, stage : Stages]]
  BY <1>1 DEF Ends, PageTypes
<1>3. /\ lookups' \in [Lookups -> {Free} \cup [code : Codes, stage : Stages]]
      /\ Running' = Running \ {i}
  BY <1>2 DEF Running
<1>4. i \in Running
  BY DEF Running, Free, Stages
<1>5. ASSUME ~hasty' PROVE Running' = {}
  <2>1. CASE ~hasty
    BY <1>3, <1>4, <2>1 DEF IInv, PanelInv
  <2>2. CASE hasty
    BY <1>5, <2>2
  <2>. QED BY <2>1, <2>2
<1>6. PanelInv'
  BY <1>2, <1>5 DEF IInv, PanelInv, PanelKeepsTheCode
<1>7. via' \in [Lookups -> {"page", "keypad", "overtaken"}] /\ hasty' \in BOOLEAN
  BY <1>1, ViaType DEF HistoryTypes
<1>. QED BY <1>2, <1>3, <1>6, <1>7

LEMMA ConfigInv ==
    ASSUME IInv, NEW i \in Lookups, NEW ok \in BOOLEAN, Goes(ConfigSettles(i, ok))
    PROVE  IInv'
<1>1. PageTypes /\ HistoryTypes
  BY TypesParts DEF IInv
<1>2. /\ lookups[i].stage = "config" /\ support' \in {"yes", "no"}
      /\ hasty' = (hasty /\ Running' # {})
      /\ UNCHANGED <<bridgeVars, serviceVars, panelVars, target, remembered, missed, withdrawn, away>>
      /\ via' = [j \in Lookups |-> IF j \notin Running' THEN "page" ELSE IF j \in Running THEN via[j] ELSE "page"]
      /\ \/ Ends(i)
         \/ lookups' = [lookups EXCEPT ![i].stage = "lookup"] /\ UNCHANGED busy
  BY DEF Goes, PageStep, ConfigSettles
<1>3. UNCHANGED <<session, forced, open, shown, locked, typed>>
  BY <1>2 DEF panelVars
<1>4. CASE Ends(i)
  <2>1. /\ PanelInv' /\ busy' = FALSE
        /\ lookups' \in [Lookups -> {Free} \cup [code : Codes, stage : Stages]]
        /\ via' \in [Lookups -> {"page", "keypad", "overtaken"}] /\ hasty' \in BOOLEAN
    BY <1>2, <1>3, <1>4, EndsFacts DEF Stages
  <2>2. PageTypes'
    BY <1>1, <1>2, <1>3, <2>1 DEF PageTypes
  <2>. QED BY <1>2, <2>1, <2>2, SameService, PageStepInv DEF PageChange
<1>5. CASE lookups' = [lookups EXCEPT ![i].stage = "lookup"] /\ UNCHANGED busy
  <2>1. lookups[i] # Free /\ lookups[i] \in [code : Codes, stage : Stages]
    BY <1>1, <1>2 DEF PageTypes, Free
  <2>2. /\ lookups' \in [Lookups -> {Free} \cup [code : Codes, stage : Stages]]
        /\ \A j \in Lookups : lookups'[j].code = lookups[j].code
        /\ lookups'[i].stage = "lookup" /\ \A j \in Lookups \ {i} : lookups'[j] = lookups[j]
    BY <1>1, <1>5, <2>1 DEF PageTypes, Stages
  <2>3. lookups'[i] # Free
    BY <2>2 DEF Free
  <2>4. Running' = Running /\ i \in Running
    BY <2>1, <2>2, <2>3 DEF Running
  <2>5. /\ via' \in [Lookups -> {"page", "keypad", "overtaken"}] /\ hasty' = hasty
        /\ \A j \in Running : via'[j] = via[j]
    BY <1>1, <1>2, <2>4, ViaType DEF HistoryTypes
  <2>6. PanelInv'
    BY <1>3, <1>5, <2>2, <2>4, <2>5 DEF IInv, PanelInv, PanelKeepsTheCode, Running
  <2>7. PageTypes' /\ hasty' \in BOOLEAN
    BY <1>1, <1>2, <1>3, <1>5, <2>2, <2>5 DEF PageTypes, HistoryTypes
  <2>. QED BY <1>2, <2>5, <2>6, <2>7, SameService, PageStepInv DEF PageChange
<1>. QED BY <1>2, <1>4, <1>5

LEMMA LookupInv ==
    ASSUME IInv, NEW i \in Lookups, NEW ok \in BOOLEAN,
           Goes(LookupArrives(i, ok)) \/ Goes(NotConfigured(i)) \/ Goes(LookupLost(i))
    PROVE  IInv'
<1>1. PageTypes /\ HistoryTypes /\ EntriesOK /\ LimiterType
  BY TypesParts DEF IInv
<1>2. /\ UNCHANGED <<bridgeVars, missed, withdrawn, away>>
      /\ EntriesOK' /\ LimiterType' /\ Left' = Left
  <2>1. CASE Goes(LookupArrives(i, ok))
    <3>1. /\ limiter' = Counted /\ entries' = IF Allowed THEN LookedUp(lookups[i].code) ELSE entries
          /\ UNCHANGED <<bridgeVars, missed, withdrawn, away>>
      BY <2>1 DEF Goes, PageStep, LookupArrives
    <3>2. LimiterType'
      BY <3>1, CountedFacts DEF LimiterType, IInv, Types
    <3>. QED BY <1>1, <3>1, <3>2, LookedUpLeft, SameEntries
  <2>2. CASE Goes(NotConfigured(i)) \/ Goes(LookupLost(i))
    <3>1. UNCHANGED <<bridgeVars, serviceVars, missed, withdrawn, away>>
      BY <2>2 DEF Goes, PageStep, NotConfigured, LookupLost
    <3>. QED BY <3>1, SameService
  <2>. QED BY <2>1, <2>2
<1>3. /\ lookups[i].stage \in Stages /\ Ends(i)
      /\ UNCHANGED <<session, forced, shown, locked, typed, support>>
      /\ hasty' = (hasty /\ Running' # {})
      /\ via' = [j \in Lookups |-> IF j \notin Running' THEN "page" ELSE IF j \in Running THEN via[j] ELSE "page"]
      /\ open' \in {open, FALSE}
      /\ target' \in {target, lookups[i].code} /\ remembered' \in {remembered, lookups[i].code}
  BY DEF Goes, PageStep, LookupArrives, NotConfigured, LookupLost, Stages, panelVars
<1>4. lookups[i].code \in Codes
  BY <1>1, <1>3 DEF PageTypes, Free, Stages
<1>5. /\ PanelInv' /\ busy' = FALSE
      /\ lookups' \in [Lookups -> {Free} \cup [code : Codes, stage : Stages]]
      /\ via' \in [Lookups -> {"page", "keypad", "overtaken"}] /\ hasty' \in BOOLEAN
  BY <1>3, EndsFacts
<1>6. PageTypes'
  BY <1>1, <1>3, <1>4, <1>5 DEF PageTypes
<1>. QED BY <1>2, <1>5, <1>6, PageStepInv DEF PageChange

-----------------------------------------------------------------------------

LEMMA StutterInv == IInv /\ UNCHANGED <<vars, history>> => IInv'
<1> SUFFICES ASSUME IInv, UNCHANGED <<vars, history>> PROVE IInv'
  OBVIOUS
<1>1. UNCHANGED <<bridgeVars, serviceVars, pageVars, missed, withdrawn, away, askVars>>
  BY DEF vars, history
<1>2. PageTypes' /\ HistoryTypes'
  BY <1>1, TypesParts DEF IInv, PageTypes, HistoryTypes, pageVars, panelVars, lookupVars, askVars
<1>3. PageChange
  BY <1>1, <1>2, SameService DEF PageChange, HistoryTypes
<1>4. PanelInv'
  BY <1>1 DEF IInv, PanelInv, PanelKeepsTheCode, Running, pageVars, panelVars, lookupVars, askVars
<1>. QED BY <1>3, <1>4, PageStepInv

LEMMA StepInv == IInv /\ [PropsNext]_<<vars, history>> => IInv'
<1> SUFFICES ASSUME IInv, PropsNext PROVE IInv'
  BY StutterInv
<1>1. ASSUME NEW heard \in BOOLEAN,
             Counts(PostArrives(heard), IF Accepted THEN 0
                    ELSE IF Allowed /\ Live(Own) THEN missed
                    ELSE IF awaited = "post" THEN More(missed) ELSE missed, withdrawn, away)
      PROVE  IInv'
  BY <1>1, PostArrivesInv
<1>2. ASSUME NEW c \in Strangers, Same(StrangerRegisters(c)) PROVE IInv'
  BY <1>2, StrangerInv
<1>3. ASSUME NEW k \in Alphabet \cup {Backspace}, Asks(Press(k), "keypad") PROVE IInv'
  BY <1>3, PressInv
<1>4. ASSUME NEW c \in {Own} \cup Strangers, Asks(Enter(c), "page") PROVE IInv'
  BY <1>4, EnterInv
<1>5. ASSUME NEW i \in Lookups, NEW ok \in BOOLEAN,
             Goes(ConfigSettles(i, ok)) \/ Goes(LookupArrives(i, ok))
      PROVE  IInv'
  BY <1>5, ConfigInv, LookupInv
<1>6. ASSUME NEW i \in Lookups, Goes(NotConfigured(i)) \/ Goes(LookupLost(i)) PROVE IInv'
  BY <1>6, LookupInv
<1>. QED
  BY <1>1, <1>2, <1>3, <1>4, <1>5, <1>6, StartInv, TimerFiresInv, GivesUpInv, DeleteArrivesInv, GoesInv,
     TickInv, ServiceRestartsInv, AddressInv, DrawnInv, VisitInv
  DEF PropsNext

\* Bridge, service and page keep the invariant, whatever is lost, late or
\* refused, and whoever stops, dies or starts again.
THEOREM PairingInvariant == PropsSpec => []IInv
<1>. QED BY InitInv, StepInv, PTL DEF PropsSpec

\* The types, and that the service keeps no code for longer than it says.
THEOREM PairingTypes == PropsSpec => []PairingTypeOK
<1>1. IInv => PairingTypeOK
  BY DEF IInv, Types
<1>. QED BY <1>1, PairingInvariant, PTL

\* A bridge that is up is found under its code until two publications in a row
\* have failed (pairing.ts:70-75, 101-143; PairingStore.ts:43-82).
THEOREM RunningIsFound == PropsSpec => []FoundWhileRunning
<1>1. IInv => FoundWhileRunning
  <2> SUFFICES ASSUME IInv, run = "up", missed < 2 PROVE Left > 0
    BY LiveMeans DEF IInv, FoundWhileRunning
  <2>1. Left \in 0..Ttl /\ missed \in 0..2 /\ Ttl \in Nat
    BY LiveMeans, PairingAssumption DEF IInv, Types
  <2>. QED BY <2>1, TtlAssumption DEF IInv, FoundInv
<1>. QED BY <1>1, PairingInvariant, PTL

\* A bridge that has withdrawn its code is not found, and one that has gone
\* without, not for longer than a registration is kept (pairing.ts:77-99,
\* PairingStore.ts:74-94).
THEOREM GoneIsNotFound == PropsSpec => []GoneIsForgotten
<1>1. IInv => GoneIsForgotten
  <2> SUFFICES ASSUME IInv, withdrawn \/ away = Ttl PROVE ~(Left > 0)
    BY LiveMeans DEF IInv, GoneIsForgotten
  <2>1. Left \in 0..Ttl /\ Ttl \in Nat
    BY LiveMeans, PairingAssumption DEF IInv
  <2>. QED BY <2>1 DEF IInv, GoneInv
<1>. QED BY <1>1, PairingInvariant, PTL

\* While a code that was typed in the headset is looked up, the panel shows that
\* code or nothing, and the page is busy (KeypadController.ts:97-135, App.tsx:378-417,
\* 556-577), unless a key or a code comes before the page was drawn as busy.
THEOREM PanelShowsTheCode == PropsSpec => []PanelKeepsTheCode
<1>1. IInv => PanelKeepsTheCode
  BY DEF IInv, PanelInv
<1>. QED BY <1>1, PairingInvariant, PTL

=============================================================================
