------------------------------ MODULE Pairing -------------------------------
(***************************************************************************)
(* How a pairing code comes to name a computer, and how a headset is led   *)
(* to it: the bridge that publishes its code (desktop-bridge               *)
(* setup/pairing.ts), the service that keeps it for a while (web           *)
(* PairingStore, RateLimiter, server.ts) and the page that looks it up     *)
(* (xr-client App.tsx, net/pairing.ts, ui/KeypadController).               *)
(*                                                                         *)
(* A tick is the 40 s between two publications.  Each request is settled   *)
(* well within one, answered, lost or late; the bridge gives up on one     *)
(* that it still may reach the service.  The bridge and the headset share  *)
(* an address, by which the service counts their requests.  A code is a    *)
(* sequence of keys.                                                       *)
(*                                                                         *)
(* What the page has set it draws later, and only the effects that follow  *)
(* (App.tsx:571-577) lock the keypad and take it away: keys come first, or *)
(* more lookups.  A code submitted on the page itself is drawn at once.    *)
(***************************************************************************)
EXTENDS Naturals, FiniteSets, SequencesExt

CONSTANTS
    Alphabet,       \* keys of the keypad, Backspace apart
    CodeLength,     \* PAIRING_CODE_LENGTH
    Own,            \* the code of the bridge
    Strangers,      \* codes of other bridges
    Ttl,            \* ticks a registration is kept
    Window,         \* ticks until the service counts anew
    MaxRequests,    \* requests in a window
    MaxEntries,     \* codes the service keeps
    Lookups         \* bound: names of the lookups that are under way at one time

Codes == [1..CodeLength -> Alphabet]

ASSUME PairingAssumption ==
    /\ {Own} \cup Strangers \subseteq Codes /\ Own \notin Strangers
    /\ {CodeLength, Ttl, Window, MaxRequests, MaxEntries} \subseteq Nat \ {0}

\* A registration is published at a third of what it is kept for, or later.
ASSUME TtlAssumption == Ttl >= 3

VARIABLES
    (* PairingPublisher *)
    run,            \* "off", "up" or "leaving"
    registered,
    awaited,        \* the request whose response it waits for, or "none"
    clock,          \* ticks until it publishes again
    reachable,      \* it has a private address
    wire,           \* its requests that may still arrive
    (* The service *)
    entries,        \* code -> ticks until expiresAt, of the codes it keeps
    limiter,        \* count and ticks to resetAt, of the household
    (* The page *)
    session,        \* in XR
    forced,         \* forceKeypad
    open,           \* the link is
    shown,          \* Engine.keypadVisible
    locked,         \* KeypadController.busy, and pairingBusy as it was drawn
    typed,          \* KeypadController.code
    busy,           \* pairingBusy: one for all lookups
    lookups,        \* lookup -> its code and what it waits for, or Free
    support,        \* cachedSupport
    target,         \* what the link was told to connect to
    remembered      \* vrmc.pairingCode, or None

bridgeVars == <<run, registered, awaited, clock, reachable, wire>>
serviceVars == <<entries, limiter>>
panelVars == <<session, forced, open, shown, locked, typed>>
lookupVars == <<busy, lookups, support, target, remembered>>
pageVars == <<panelVars, lookupVars>>
vars == <<bridgeVars, serviceVars, pageVars>>

None == <<>>
Address == <<"address">>
Backspace == 0
Refresh == 1

Free == [code |-> None, stage |-> "none"]
Running == {i \in Lookups : lookups[i] # Free}
Stages == {"config", "lookup", "refused"}

PairingTypeOK ==
    /\ run \in {"off", "up", "leaving"} /\ awaited \in {"none", "post", "delete"}
    /\ registered \in BOOLEAN /\ reachable \in BOOLEAN
    /\ clock \in 0..Refresh /\ wire \subseteq {"post", "delete"}
    /\ DOMAIN entries \subseteq {Own} \cup Strangers /\ \A c \in DOMAIN entries : entries[c] \in 0..Ttl
    /\ limiter \in [count : 0..MaxRequests, left : 0..Window]
    /\ session \in BOOLEAN /\ forced \in BOOLEAN /\ open \in BOOLEAN
    /\ shown \in BOOLEAN /\ locked \in BOOLEAN /\ Len(typed) <= CodeLength
    /\ busy \in BOOLEAN /\ lookups \in [Lookups -> {Free} \cup [code : Codes, stage : Stages]]
    /\ support \in {"unknown", "yes", "no"}
    /\ target \in Codes \cup {None, Address} /\ remembered \in Codes \cup {None}

PairingInit ==
    /\ run = "off" /\ registered = FALSE /\ awaited = "none" /\ clock = 0
    /\ reachable = TRUE /\ wire = {}
    /\ entries = <<>> /\ limiter = [count |-> 0, left |-> 0]
    /\ session = FALSE /\ forced = FALSE /\ open = FALSE
    /\ shown = FALSE /\ locked = FALSE /\ typed = <<>>
    /\ busy = FALSE /\ lookups = [i \in Lookups |-> Free]
    /\ support = "unknown" /\ target = None /\ remembered = None

-----------------------------------------------------------------------------
\* The service.

\* RateLimiter.allow(): a window begins with the first request after the last.
Allowed == limiter.left = 0 \/ limiter.count < MaxRequests
Counted ==
    IF limiter.left = 0 THEN [count |-> 1, left |-> Window]
    ELSE [limiter EXCEPT !.count = IF Allowed THEN @ + 1 ELSE @]

\* sweep()
Swept == Restrict(entries, {c \in DOMAIN entries : entries[c] > 0})

\* Mutant: a full store takes nothing, not even a code that it has.
HasRoomForNone(c) == Cardinality(DOMAIN Swept) < MaxEntries

HasRoom(c) == c \in DOMAIN Swept \/ Cardinality(DOMAIN Swept) < MaxEntries

\* register()
Register(c) ==
    IF HasRoom(c) THEN [d \in {c} \cup DOMAIN Swept |-> IF d = c THEN Ttl ELSE Swept[d]]
    ELSE Swept

\* Mutant: the body of a withdrawal is not read.
ReleaseNothing(c) == entries

\* release()
Released(c) == Restrict(entries, DOMAIN entries \ {c})

\* lookup(): an entry that has expired goes.
Live(c) == c \in DOMAIN entries /\ entries[c] > 0
LookedUp(c) == IF Live(c) THEN entries ELSE Released(c)

\* Other bridges, of other households.
StrangerRegisters(c) == entries' = Register(c) /\ UNCHANGED <<limiter, bridgeVars, pageVars>>

\* Nothing is kept on a disk.
ServiceRestarts ==
    /\ entries # <<>> \/ limiter.left > 0
    /\ entries' = <<>> /\ limiter' = [count |-> 0, left |-> 0]
    /\ UNCHANGED <<bridgeVars, pageVars>>

-----------------------------------------------------------------------------
\* The bridge.

\* publish(): without an address there is nothing to publish.
Publish ==
    /\ clock' = Refresh
    /\ IF reachable THEN awaited' = "post" /\ wire' = wire \cup {"post"} /\ UNCHANGED registered
       ELSE registered' = FALSE /\ UNCHANGED <<awaited, wire>>

\* start(), in a new process: the code is the same.
Start ==
    /\ run = "off"
    /\ run' = "up"
    /\ IF reachable THEN awaited' = "post" /\ wire' = wire \cup {"post"} ELSE UNCHANGED <<awaited, wire>>
    /\ clock' = Refresh /\ registered' = FALSE
    /\ UNCHANGED <<reachable, serviceVars, pageVars>>

TimerFires ==
    /\ run = "up" /\ clock = 0
    /\ Publish
    /\ UNCHANGED <<run, reachable, serviceVars, pageVars>>

\* handleRegister(); and its response arrives, if it is awaited and not lost.
PostArrives(heard) ==
    /\ "post" \in wire
    /\ wire' = wire \ {"post"}
    /\ limiter' = Counted
    /\ entries' = IF Allowed THEN Register(Own) ELSE entries
    /\ IF awaited = "post"
       THEN awaited' = "none" /\ registered' = (heard /\ Allowed /\ HasRoom(Own))
       ELSE UNCHANGED <<awaited, registered>>
    /\ UNCHANGED <<run, clock, reachable, pageVars>>

\* stop(): what was published last time is withdrawn, if that is known.
Stop ==
    /\ run = "up"
    /\ IF registered
       THEN run' = "leaving" /\ awaited' = "delete" /\ wire' = wire \cup {"delete"}
       ELSE run' = "off" /\ awaited' = "none" /\ UNCHANGED wire
    /\ clock' = 0
    /\ UNCHANGED <<registered, reachable, serviceVars, pageVars>>

\* The process is killed; what it has sent it has sent.
Crash ==
    /\ run # "off"
    /\ run' = "off" /\ awaited' = "none" /\ clock' = 0
    /\ UNCHANGED <<registered, reachable, wire, serviceVars, pageVars>>

\* handleRelease()
DeleteArrives ==
    /\ "delete" \in wire
    /\ wire' = wire \ {"delete"}
    /\ limiter' = Counted
    /\ entries' = IF Allowed THEN Released(Own) ELSE entries
    /\ IF awaited = "delete" THEN run' = "off" /\ awaited' = "none" ELSE UNCHANGED <<run, awaited>>
    /\ UNCHANGED <<registered, clock, reachable, pageVars>>

\* The bridge waits no longer: 5 s for a registration, 2 s for a withdrawal.
GivesUp ==
    /\ awaited # "none"
    /\ IF awaited = "post" THEN registered' = FALSE /\ UNCHANGED run ELSE run' = "off" /\ UNCHANGED registered
    /\ awaited' = "none"
    /\ UNCHANGED <<clock, reachable, wire, serviceVars, pageVars>>

Lost(request) ==
    /\ request \in wire /\ awaited # request
    /\ wire' = wire \ {request}
    /\ UNCHANGED <<run, registered, awaited, clock, reachable, serviceVars, pageVars>>

\* The computer joins a network or leaves it.
NetworkChanges == reachable' = ~reachable /\ UNCHANGED <<run, registered, awaited, clock, wire, serviceVars, pageVars>>

\* Nothing is dropped when it expires.
Aged == [c \in DOMAIN entries |-> IF entries[c] > 0 THEN entries[c] - 1 ELSE 0]

\* 40 seconds: requests are settled, a timer that is due has fired.
Tick ==
    /\ wire = {} /\ awaited = "none" /\ (run = "up" => clock > 0)
    /\ entries' = Aged
    /\ limiter' = [limiter EXCEPT !.left = IF @ > 0 THEN @ - 1 ELSE 0]
    /\ clock' = IF run = "up" THEN clock - 1 ELSE 0
    /\ UNCHANGED <<run, registered, awaited, reachable, wire, pageVars>>

-----------------------------------------------------------------------------
\* The page.

KeypadVisible == (session \/ forced) /\ ~open

\* handlePair(), whichever way the code was entered.
Pair(code) ==
    \E i \in Lookups \ Running :
        /\ lookups' = [lookups EXCEPT ![i] = [code |-> code, stage |->
               CASE support = "unknown" -> "config" [] support = "yes" -> "lookup" [] OTHER -> "refused"]]
        /\ busy' = TRUE

\* applyKey()
ApplyKey(code, key) ==
    IF key = Backspace THEN SubSeq(code, 1, IF code = <<>> THEN 0 ELSE Len(code) - 1)
    ELSE IF Len(code) < CodeLength THEN Append(code, key) ELSE code

TakesKey(key) ==
    /\ typed' = ApplyKey(typed, key) /\ typed' # typed
    /\ IF Len(typed') = CodeLength /\ key # Backspace THEN Pair(typed') ELSE UNCHANGED <<busy, lookups>>
    /\ UNCHANGED <<bridgeVars, serviceVars, session, forced, open, shown, locked, support, target, remembered>>

\* Mutant: the keypad is not locked.
PressAnyway(key) == shown /\ TakesKey(key)

\* KeypadController.press(): the last key submits the code.
Press(key) == shown /\ ~locked /\ TakesKey(key)

\* The effect of App() that follows a drawing: the keypad is locked or not, and
\* is emptied when it goes.
Draw ==
    /\ shown # KeypadVisible \/ locked # busy
    /\ shown' = KeypadVisible /\ locked' = busy
    /\ typed' = IF KeypadVisible THEN typed ELSE <<>>
    /\ UNCHANGED <<bridgeVars, serviceVars, session, forced, open, lookupVars>>

\* PairingEntry, on the page, which is busy or not as it was drawn.
Enter(code) ==
    /\ ~session /\ ~locked
    /\ Pair(code) /\ locked' = TRUE
    /\ UNCHANGED <<bridgeVars, serviceVars, session, forced, open, shown, typed, support, target, remembered>>

\* handlePair() has its answer: the page is busy no more, with whatever else is
\* looked up.
Ends(i) == lookups' = [lookups EXCEPT ![i] = Free] /\ busy' = FALSE

\* pairingSupported(): asked until there is an answer, and none is one too.
ConfigSettles(i, ok) ==
    /\ lookups[i].stage = "config"
    /\ support' = IF ok THEN "yes" ELSE "no"
    /\ IF ok THEN lookups' = [lookups EXCEPT ![i].stage = "lookup"] /\ UNCHANGED busy ELSE Ends(i)
    /\ UNCHANGED <<bridgeVars, serviceVars, panelVars, target, remembered>>

NotConfigured(i) ==
    /\ lookups[i].stage = "refused"
    /\ Ends(i)
    /\ UNCHANGED <<bridgeVars, serviceVars, panelVars, support, target, remembered>>

\* handleLookup(); and what the page makes of the response, if it is not lost.
LookupArrives(i, heard) ==
    /\ lookups[i].stage = "lookup"
    /\ limiter' = Counted
    /\ entries' = IF Allowed THEN LookedUp(lookups[i].code) ELSE entries
    /\ Ends(i)
    /\ IF heard /\ Allowed /\ Live(lookups[i].code)
       THEN target' = lookups[i].code /\ remembered' = lookups[i].code /\ open' = FALSE
       ELSE UNCHANGED <<target, remembered, open>>
    /\ UNCHANGED <<bridgeVars, session, forced, shown, locked, typed, support>>

\* The request does not arrive.
LookupLost(i) ==
    /\ lookups[i].stage = "lookup"
    /\ Ends(i)
    /\ UNCHANGED <<bridgeVars, serviceVars, panelVars, support, target, remembered>>

\* handleConnect(): an address takes the place of the code.
ConnectByAddress ==
    /\ ~session
    /\ target' = Address /\ remembered' = None /\ open' = FALSE
    /\ UNCHANGED <<bridgeVars, serviceVars, session, forced, shown, locked, typed, busy, lookups, support>>

\* The state of App() that says whether the keypad is in the way.
LinkChanges ==
    /\ target # None /\ open' = ~open
    /\ UNCHANGED <<bridgeVars, serviceVars, session, forced, shown, locked, typed, lookupVars>>
SessionChanges ==
    /\ session' = ~session
    /\ UNCHANGED <<bridgeVars, serviceVars, forced, open, shown, locked, typed, lookupVars>>
ShowKeypad ==
    /\ forced' = ~forced
    /\ UNCHANGED <<bridgeVars, serviceVars, session, open, shown, locked, typed, lookupVars>>

\* The page is loaded anew: with a code it connects to that computer.
Visit ==
    /\ session' = FALSE /\ forced' = FALSE /\ open' = FALSE
    /\ shown' = FALSE /\ locked' = FALSE /\ typed' = <<>>
    /\ busy' = FALSE /\ lookups' = [i \in Lookups |-> Free]
    /\ support' = "unknown" /\ target' = remembered
    /\ UNCHANGED <<remembered, bridgeVars, serviceVars>>
=============================================================================
