----------------------------- MODULE MCPairing ------------------------------
(***************************************************************************)
(* Codes of two keys out of two, the bridge's and a stranger's, at a       *)
(* service that has room for one; two requests in two ticks, two lookups   *)
(* at a time.                                                              *)
(***************************************************************************)
EXTENDS PairingProps, TLC

MCOwn == <<1, 2>>
MCStrangers == {<<2, 2>>}

\* What is typed is one of the two codes, and the panel is forced on screen only
\* outside a session, for which that is meant.  The keypad is used, and two codes are
\* looked up at a time, while the bridge's code is registered and no request of the
\* bridge is under way.
MCBound ==
    /\ \E c \in {Own} \cup Strangers : IsPrefix(typed, c)
    /\ ~(session /\ forced)
    /\ \/ ~session /\ ~forced /\ ~shown /\ Cardinality(Running) < 2
       \/ registered /\ reachable /\ clock = Refresh /\ wire = {}

MCSymmetry == Permutations(Lookups)
=============================================================================
