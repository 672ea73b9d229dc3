--------------------------- MODULE SignallingProps ---------------------------
(***************************************************************************)
(* What the service, the bridge and the headset keep true while offers and *)
(* answers cross, are lost, and outlive those who made them.               *)
(***************************************************************************)
EXTENDS Signalling

\* A request that is held has not missed what it waits for, although it is
\* looked for first and waited for afterwards (SignalStore.ts:99-144).
NoLostWakeup ==
    /\ client = "held" => Unanswered = {}
    /\ \A s \in answerWaiters : ~Answered(s)

\* No peer connection of the bridge is left behind: each that is not closed can
\* be found under its session, and has a timer until its channel is open
\* (RtcTransport.ts:67-78, 139-149).
NoPeerIsOrphaned ==
    \A p \in Pcs :
        /\ pc[p] \in {"live", "open"} => peers[session[p]] = p
        /\ p \in timers <=> pc[p] = "live"

\* The answer that the service keeps, and the one a headset acts on, is that of
\* the bridge's latest peer for the session: an answered offer is not handed
\* out again (SignalStore.ts:150-158), however requests were lost.
AnswerIsCurrent ==
    \A s \in Sessions : \A a \in {answer[s], got[s]} \ {None} : peers[s] \in {None, a}

\* A headset that waits gets an answer, or gives up, or its offer expires; or
\* there is an offer that the bridge cannot answer.
OfferIsAnswered ==
    \A s \in Sessions :
        (headset[s] = "waiting" /\ s \in Stored)
            ~> (headset[s] # "waiting" \/ s \notin Stored \/ BadOffers \cap Stored # {})

\* A peer whose headset has gone is closed, open or not.
DeadPeersGo ==
    \A p \in Pcs :
        (pc[p] \in {"live", "open"} /\ headset[session[p]] = "idle") ~> pc[p] \notin {"live", "open"}

-----------------------------------------------------------------------------
(* A claim of the repository that the code does not keep.                  *)

\* SignalClient.ts:131-132 says of an offer that cannot be answered, "the
\* headset's poll times out, it sees no answer and offers again": what can be
\* answered is answered.
GoodOfferIsAnswered ==
    \A s \in Sessions \ BadOffers :
        (headset[s] = "waiting" /\ s \in Stored)
            ~> (headset[s] # "waiting" \/ s \notin Stored)

=============================================================================
