------------------------------ MODULE Signalling ------------------------------
(***************************************************************************)
(* How a headset and a bridge find each other, for one pairing code.       *)
(*                                                                         *)
(* A headset's attempt to connect (apps/xr-client/src/net/Transport.ts)    *)
(* posts an offer to the pairing service, long-polls for the answer and    *)
(* waits for its data channel to open.  The service                        *)
(* (apps/web/src/SignalStore.ts, server.ts) keeps offers and answers and   *)
(* the requests that wait for them.  The bridge long-polls for offers      *)
(* (apps/desktop-bridge/src/net/SignalClient.ts), has each answered by a   *)
(* peer connection of its own (RtcTransport.ts) and posts the answer.      *)
(*                                                                         *)
(* Each request may be lost, and so may its response; each side may give   *)
(* up at any time.  A request under a code that is not registered fails    *)
(* too, and that is not told apart from its being lost.  An attempt is     *)
(* named by its session id; ids are random, so that a name is used again   *)
(* only when nothing refers to it.  An offer is its session; an answer is  *)
(* the peer connection it came from.                                       *)
(***************************************************************************)
EXTENDS Naturals, FiniteSets, SequencesExt

CONSTANTS
    Sessions,   \* names of the attempts that can be known of at one time
    Pcs,        \* names of the bridge's peer connections
    MaxPerCode, \* SignalStoreOptions.maxPerCode
    BadOffers   \* sessions whose offer the bridge cannot answer

None == 0

ASSUME PcsAssumption == Pcs \subseteq Nat \ {None}
ASSUME SessionsAssumption == Sessions \subseteq Nat \ {None} /\ BadOffers \subseteq Sessions
ASSUME MaxAssumption == MaxPerCode \in Nat

VARIABLES
    (* The pairing service *)
    store,         \* sessions.get(code): the session ids in insertion order
    answer,        \* stored session -> its answer, or None
    answerWaiters, \* the sessions somebody's request waits for the answer of
    (* The bridge's SignalClient *)
    client,        \* where loop() stands
    job,           \* the session it works on, or None
    work,          \* the peer connection that prepares the answer, or None
    (* The bridge's RtcTransport *)
    pc,            \* peer connection -> "free", "live", "open" or "closed"
    session,       \* peer connection -> Peer.id
    peers,         \* RtcTransport.peers: session -> peer connection, or None
    timers,        \* the peer connections whose openTimer is armed
    (* The headset's attempts *)
    headset,       \* session -> where its attempt stands
    got            \* session -> the answer it was given, or None

storeVars == <<store, answer, answerWaiters>>
clientVars == <<client, job, work>>
peerVars == <<pc, session, peers, timers>>
headsetVars == <<headset, got>>
vars == <<storeVars, clientVars, peerVars, headsetVars>>

Stored == {store[i] : i \in 1..Len(store)}

TypeOK ==
    /\ store \in Seq(Sessions)
    /\ Len(store) = Cardinality(Stored) /\ Len(store) <= MaxPerCode
    /\ answer \in [Sessions -> Pcs \cup {None}]
    /\ \A s \in Sessions \ Stored : answer[s] = None
    /\ answerWaiters \subseteq Sessions
    /\ client \in {"polling", "held", "answering", "preparing", "posting", "sleeping"}
    /\ job \in Sessions \cup {None}
    /\ work \in Pcs \cup {None}
    /\ pc \in [Pcs -> {"free", "live", "open", "closed"}]
    /\ session \in [Pcs -> Sessions \cup {None}]
    /\ peers \in [Sessions -> Pcs \cup {None}]
    /\ timers \subseteq Pcs
    /\ headset \in [Sessions -> {"idle", "asking", "waiting", "connected"}]
    /\ got \in [Sessions -> Pcs \cup {None}]

Init ==
    /\ store = <<>>
    /\ answer = [s \in Sessions |-> None]
    /\ answerWaiters = {}
    /\ client = "polling"
    /\ job = None
    /\ work = None
    /\ pc = [p \in Pcs |-> "free"]
    /\ session = [p \in Pcs |-> None]
    /\ peers = [s \in Sessions |-> None]
    /\ timers = {}
    /\ headset = [s \in Sessions |-> "idle"]
    /\ got = [s \in Sessions |-> None]

-----------------------------------------------------------------------------
(* The service.                                                            *)

\* Where the offers stand that have not been answered.
Unanswered == {i \in DOMAIN store : answer[store[i]] = None}

\* release(): a session that is kept is forgotten.
Release(s) ==
    /\ \E i \in DOMAIN store : store[i] = s /\ store' = RemoveAt(store, i)
    /\ answer' = [answer EXCEPT ![s] = None]

\* What sweep() leaves when the n oldest sessions have outlived ttlMs, which
\* they may have done at any time since they came.
Kept(n) == SubSeq(store, n + 1, Len(store))
AnswersKept(n) ==
    [s \in Sessions |-> IF s \in {store[i] : i \in 1..n} THEN None ELSE answer[s]]

Answered(s) == s \in Stored /\ answer[s] # None

\* The service's part in a request for an answer ends: 204.
AnswerWaitEnds(s) ==
    /\ s \in answerWaiters
    /\ answerWaiters' = answerWaiters \ {s}
    /\ headset' = [headset EXCEPT ![s] = IF @ = "waiting" THEN "asking" ELSE @]
    /\ UNCHANGED <<store, answer, clientVars, peerVars, got>>

-----------------------------------------------------------------------------
(* A headset's attempt.                                                    *)

\* The id of a new attempt is one that nobody has heard of.  Until its offer
\* arrives an attempt concerns nobody else.
Fresh(s) ==
    /\ headset[s] = "idle"
    /\ s \notin Stored \cup answerWaiters
    /\ job # s
    /\ \A p \in Pcs : session[p] # s

\* One more offer is refused, after the sweep: too many sessions.
OfferRefused ==
    /\ \E n \in 0..Len(store) :
        /\ Len(store) - n >= MaxPerCode
        /\ store' = Kept(n)
        /\ answer' = AnswersKept(n)
    /\ UNCHANGED <<answerWaiters, clientVars, peerVars, headsetVars>>

\* What becomes of a poll that is held, when an offer s comes; the response may
\* be lost.
Handed(s) ==
    \/ client = "held" /\ client' = "answering" /\ job' = s
    \/ client = "held" /\ client' = "sleeping" /\ UNCHANGED job
    \/ client # "held" /\ UNCHANGED <<client, job>>

\* putOffer(): expired sessions go, the offer is kept, and a poll that is held
\* is answered with it.  The response may be lost.
OfferAccepted(s) ==
    /\ Fresh(s)
    /\ \E n \in 0..Len(store) :
        /\ Len(store) - n < MaxPerCode
        /\ store' = Append(Kept(n), s)
        /\ answer' = AnswersKept(n)
    /\ Handed(s)
    /\ \E next \in {"asking", "idle"} : headset' = [headset EXCEPT ![s] = next]
    /\ UNCHANGED <<answerWaiters, work, peerVars, got>>

\* The headset has an answer and connects, or lost the response that carried
\* it.  When its own end of the channel opens makes no difference to others.
Receives(s, p) ==
    \/ headset' = [headset EXCEPT ![s] = "connected"] /\ got' = [got EXCEPT ![s] = p]
    \/ headset' = [headset EXCEPT ![s] = "idle"] /\ UNCHANGED got

\* The headset asks for its answer: it is there and the session is released,
\* or the request waits.
Ask(s) ==
    /\ headset[s] = "asking"
    /\ \/ /\ Answered(s)
          /\ Release(s)
          /\ Receives(s, answer[s])
          /\ UNCHANGED answerWaiters
       \/ /\ ~Answered(s)
          /\ headset' = [headset EXCEPT ![s] = "waiting"]
          /\ answerWaiters' = answerWaiters \cup {s}
          /\ UNCHANGED <<store, answer, got>>
    /\ UNCHANGED <<clientVars, peerVars>>

\* The attempt or the connection is over: the deadline, a request that failed,
\* the far end's close, the network, or the user.  pc.close().
HeadsetEnds(s) ==
    /\ headset[s] # "idle"
    /\ headset' = [headset EXCEPT ![s] = "idle"]
    /\ got' = [got EXCEPT ![s] = None]
    /\ UNCHANGED <<storeVars, clientVars, peerVars>>

-----------------------------------------------------------------------------
(* The bridge's peers.                                                     *)

\* dropPeer(): of whichever peer has the session now.
Dropped(s) == [p \in Pcs |-> IF p = peers[s] THEN "closed" ELSE pc[p]]
Unmap(s) ==
    /\ peers' = [peers EXCEPT ![s] = None]
    /\ timers' = timers \ {peers[s]}
Drop(s) == pc' = Dropped(s) /\ Unmap(s)

\* The channel opens at the bridge.
PeerOpens(p) ==
    /\ pc[p] = "live"
    /\ got[session[p]] = p
    /\ pc' = [pc EXCEPT ![p] = "open"]
    /\ timers' = timers \ {p}
    /\ UNCHANGED <<storeVars, clientVars, session, peers, headsetVars>>

\* The channel did not open in time.
OpenTimeout(p) ==
    /\ p \in timers
    /\ Drop(session[p])
    /\ UNCHANGED <<storeVars, clientVars, session, headsetVars>>

\* The library reports that a connection or its channel is gone.  It may be one
\* that was closed before: what is dropped is whichever peer has the session.
PeerLost(p) ==
    /\ pc[p] # "free"
    /\ Drop(session[p])
    /\ UNCHANGED <<storeVars, clientVars, session, headsetVars>>

\* Nothing is left of a closed peer, and nothing more will be reported of it.
ClosedPeerGoes(p) ==
    /\ pc[p] = "closed"
    /\ p # work
    /\ \A s \in Sessions : got[s] # p /\ answer[s] # p
    /\ pc' = [pc EXCEPT ![p] = "free"]
    /\ session' = [session EXCEPT ![p] = None]
    /\ UNCHANGED <<storeVars, clientVars, peers, timers, headsetVars>>

-----------------------------------------------------------------------------
(* The bridge's loop.                                                      *)

\* Mutant: the offer that was last kept is taken, answered or not.
PollTakesAny ==
    /\ client = "polling"
    /\ store # <<>>
    /\ client' = "answering" /\ job' = store[Len(store)]
    /\ UNCHANGED <<storeVars, work, peerVars, headsetVars>>

\* GET: the oldest offer without an answer, or the request is held.
Poll ==
    /\ client = "polling"
    /\ \/ \E i \in Unanswered :
            /\ \A j \in Unanswered : i <= j
            /\ client' = "answering" /\ job' = store[i]
       \/ Unanswered = {} /\ client' = "held" /\ UNCHANGED job
    /\ UNCHANGED <<storeVars, work, peerVars, headsetVars>>

\* The code is not registered, or the request or its response is lost.
PollFails ==
    /\ client = "polling"
    /\ client' = "sleeping"
    /\ UNCHANGED <<storeVars, job, work, peerVars, headsetVars>>

\* The request ends with nothing (204), or fails.
PollEnds ==
    /\ client = "held"
    /\ client' \in {"polling", "sleeping"}
    /\ UNCHANGED <<storeVars, job, work, peerVars, headsetVars>>

\* Mutant: the loop ends with the first error.
NeverWakes == FALSE /\ UNCHANGED vars

\* The sleep after an error ends.
Wakes ==
    /\ client = "sleeping"
    /\ client' = "polling"
    /\ UNCHANGED <<storeVars, job, work, peerVars, headsetVars>>

\* Mutant: the peer of an earlier offer of the session is left alone.
AnswerBesides(p) ==
    /\ client = "answering"
    /\ pc[p] = "free"
    /\ pc' = [pc EXCEPT ![p] = "live"]
    /\ session' = [session EXCEPT ![p] = job]
    /\ peers' = [peers EXCEPT ![job] = p]
    /\ timers' = timers \cup {p}
    /\ client' = "preparing" /\ work' = p
    /\ UNCHANGED <<storeVars, job, headsetVars>>

\* answer(): a peer connection is made for the session, and takes the place of
\* one that is there.
AnswerBegins(p) ==
    /\ client = "answering"
    /\ pc[p] = "free"
    /\ pc' = [Dropped(job) EXCEPT ![p] = "live"]
    /\ session' = [session EXCEPT ![p] = job]
    /\ peers' = [peers EXCEPT ![job] = p]
    /\ timers' = (timers \ {peers[job]}) \cup {p}
    /\ client' = "preparing" /\ work' = p
    /\ UNCHANGED <<storeVars, job, headsetVars>>

\* The answer is complete.
AnswerReady(s) ==
    /\ client = "preparing" /\ job = s
    /\ s \notin BadOffers
    /\ client' = "posting"
    /\ UNCHANGED <<storeVars, job, work, peerVars, headsetVars>>

\* answer() rejects: the peer is dropped, nothing is posted, and the loop polls
\* again at once.
AnswerFails ==
    /\ client = "preparing"
    /\ Drop(job)
    /\ client' = "polling" /\ job' = None /\ work' = None
    /\ UNCHANGED <<storeVars, session, headsetVars>>

\* putAnswer(): a request that waits for the answer is given it and the session
\* released; the headset that made it may have gone.
PutAnswer ==
    IF job \in answerWaiters
    THEN /\ answerWaiters' = answerWaiters \ {job}
         /\ Release(job)
         /\ IF headset[job] = "waiting" THEN Receives(job, work) ELSE UNCHANGED headsetVars
    ELSE /\ answer' = [answer EXCEPT ![job] = work]
         /\ UNCHANGED <<store, answerWaiters, headsetVars>>

\* POST of the answer; the response may be lost.
Post ==
    /\ client = "posting"
    /\ job \in Stored
    /\ PutAnswer
    /\ client' \in {"polling", "sleeping"} /\ job' = None /\ work' = None
    /\ UNCHANGED <<peerVars>>

\* It does not arrive, or the service knows neither code nor session.
PostFails ==
    /\ client = "posting"
    /\ client' = "sleeping" /\ job' = None /\ work' = None
    /\ UNCHANGED <<storeVars, peerVars, headsetVars>>

-----------------------------------------------------------------------------

AnswerIsReady == \E s \in Sessions : AnswerReady(s)
AnswerIsBegun == \E p \in Pcs : AnswerBegins(p)

ClientStep ==
    \/ Poll \/ PollFails \/ PollEnds \/ Wakes
    \/ AnswerIsBegun \/ AnswerIsReady \/ AnswerFails
    \/ Post \/ PostFails

Next ==
    \/ OfferRefused
    \/ \E s \in Sessions :
        OfferAccepted(s) \/ Ask(s) \/ AnswerWaitEnds(s) \/ HeadsetEnds(s)
    \/ \E p \in Pcs : PeerOpens(p) \/ OpenTimeout(p) \/ PeerLost(p) \/ ClosedPeerGoes(p)
    \/ ClientStep

Spec == Init /\ [][Next]_vars

\* A connection whose far end is gone is noticed.
LostAtHeadset(s) == HeadsetEnds(s) /\ got[s] # None /\ pc[got[s]] = "closed"
LostAtBridge(p) == PeerLost(p) /\ headset[session[p]] = "idle" /\ pc[p] = "open"

\* The loop and the timers run on.  A poll, a post and the preparing of an
\* answer succeed in the end if they are tried again and again.
FairSpec ==
    /\ Spec
    /\ WF_vars(ClientStep)
    /\ SF_vars(Poll) /\ SF_vars(AnswerIsReady) /\ SF_vars(Post)
    /\ \A s \in Sessions : WF_vars(LostAtHeadset(s))
    /\ \A p \in Pcs :
        WF_vars(OpenTimeout(p)) /\ WF_vars(LostAtBridge(p)) /\ WF_vars(ClosedPeerGoes(p))

=============================================================================
