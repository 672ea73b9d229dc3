--------------------------- MODULE SignallingProofs ---------------------------
(***************************************************************************)
(* Proofs about pairing's signalling, for any sessions, peer connections   *)
(* and ceiling.  That the answer which is kept is the latest peer's rests  *)
(* on what the bridge works on being unanswered for as long as it does,    *)
(* and on a session that is stored again having nothing left of before.    *)
(***************************************************************************)
EXTENDS SignallingProps, FiniteSetTheorems, TLAPS

Types ==
    /\ store \in Seq(Sessions) /\ Len(store) <= MaxPerCode
    /\ answer \in [Sessions -> Pcs \cup {None}]
    /\ answerWaiters \subseteq Sessions
    /\ client \in {"polling", "held", "answering", "preparing", "posting", "sleeping"}
    /\ job \in Sessions \cup {None}
    /\ work \in Pcs \cup {None}
    /\ pc \in [Pcs -> {"free", "live", "open", "closed"}]
    /\ session \in [Pcs -> Sessions \cup {None}]
    /\ peers \in [Sessions -> Pcs \cup {None}]
    /\ timers \subseteq Pcs
    /\ headset \in [Sessions -> {"idle", "asking", "waiting", "connected"}]
    /\ got \in [Sessions -> Pcs \cup {None}]

\* A session is kept once, and an answer only with its session.
StoreInv ==
    /\ \A i, j \in 1..Len(store) : store[i] = store[j] => i = j
    /\ \A s \in Sessions \ Stored : answer[s] = None

\* A peer is found under its session until it is closed; one that was used has
\* a session.
PeersInv ==
    /\ \A p \in Pcs : pc[p] # "free" => session[p] # None
    /\ \A s \in Sessions : peers[s] # None =>
            pc[peers[s]] \in {"live", "open"} /\ session[peers[s]] = s
    /\ NoPeerIsOrphaned

\* What the loop is about: a session that nobody has an answer for, and a peer
\* connection that is, or was, the session's latest.
JobInv ==
    /\ job # None <=> client \in {"answering", "preparing", "posting"}
    /\ work # None <=> client \in {"preparing", "posting"}
    /\ job # None => answer[job] = None /\ got[job] = None
    /\ work # None => pc[work] # "free" /\ session[work] = job /\ peers[job] \in {None, work}

\* Answers come from a peer connection of their session.  A headset has one only
\* while it is connected, and then the service has forgotten the session.
AnswerInv ==
    /\ \A s \in Sessions : \A a \in {answer[s], got[s]} \ {None} :
            pc[a] # "free" /\ session[a] = s
    /\ \A s \in Sessions : got[s] # None => headset[s] = "connected" /\ s \notin Stored
    /\ AnswerIsCurrent

IInv == Types /\ StoreInv /\ PeersInv /\ JobInv /\ AnswerInv /\ NoLostWakeup

LEMMA InitInv == Init => IInv
<1> SUFFICES ASSUME Init PROVE IInv
  OBVIOUS
<1> USE PcsAssumption, SessionsAssumption, MaxAssumption DEF Init, None
<1>1. Types /\ StoreInv
  BY DEF Types, StoreInv, Stored
<1>2. PeersInv /\ JobInv /\ AnswerInv
  BY DEF PeersInv, NoPeerIsOrphaned, JobInv, AnswerInv, AnswerIsCurrent
<1>3. NoLostWakeup
  BY DEF NoLostWakeup
<1>. QED BY <1>1, <1>2, <1>3 DEF IInv

-----------------------------------------------------------------------------
(* The service.                                                            *)

\* The service forgets sessions: each with its answer, and no other's.
Forgets ==
    /\ store' \in Seq(Sessions) /\ Len(store') <= Len(store)
    /\ \A i, j \in 1..Len(store') : store'[i] = store'[j] => i = j
    /\ Stored' \subseteq Stored
    /\ answer' \in [Sessions -> Pcs \cup {None}]
    /\ \A s \in Sessions : answer'[s] = IF s \in Stored' THEN answer[s] ELSE None

\* The oldest sessions expire: what is left is the rest of the sequence.
LEMMA KeptFacts ==
    ASSUME Types, StoreInv, NEW n \in 0..Len(store)
    PROVE  /\ Kept(n) \in Seq(Sessions) /\ Len(Kept(n)) = Len(store) - n
           /\ \A i \in 1..Len(store) - n : Kept(n)[i] = store[i + n]
           /\ AnswersKept(n) \in [Sessions -> Pcs \cup {None}]
           /\ \A s \in Sessions : AnswersKept(n)[s] =
                IF \E i \in 1..Len(store) - n : Kept(n)[i] = s THEN answer[s] ELSE None
<1> USE DEF Types
<1>1. Kept(n) \in Seq(Sessions) /\ Len(Kept(n)) = Len(store) - n
  BY DEF Kept
<1>2. \A i \in 1..Len(store) - n : Kept(n)[i] = store[i + n]
  BY DEF Kept
<1>3. ASSUME NEW s \in Sessions
      PROVE  AnswersKept(n)[s] =
                IF \E i \in 1..Len(store) - n : Kept(n)[i] = s THEN answer[s] ELSE None
  <2>1. CASE \E i \in 1..n : store[i] = s
    <3>1. ~ \E i \in 1..Len(store) - n : Kept(n)[i] = s
      BY <1>2, <2>1 DEF StoreInv
    <3>. QED BY <2>1, <3>1 DEF AnswersKept
  <2>2. CASE \E i \in 1..Len(store) - n : Kept(n)[i] = s
    <3> PICK i \in 1..Len(store) - n : Kept(n)[i] = s
      BY <2>2
    <3>1. i + n \in 1..Len(store) /\ store[i + n] = s /\ i + n \notin 1..n
      BY <1>2
    <3>2. \A j \in 1..n : j \in 1..Len(store) /\ store[j] # s
      BY <3>1 DEF StoreInv
    <3>. QED BY <2>2, <3>2 DEF AnswersKept
  <2>3. CASE s \notin Stored
    BY <1>2, <2>3 DEF AnswersKept, StoreInv, Stored
  <2>4. s \in Stored => (\E i \in 1..n : store[i] = s) \/ (\E i \in 1..Len(store) - n : Kept(n)[i] = s)
    <3> SUFFICES ASSUME NEW i \in 1..Len(store), store[i] = s, i \notin 1..n
                 PROVE  \E j \in 1..Len(store) - n : Kept(n)[j] = s
      BY DEF Stored
    <3>1. i - n \in 1..Len(store) - n /\ (i - n) + n = i
      OBVIOUS
    <3>. QED BY <1>2, <3>1
  <2>. QED BY <2>1, <2>2, <2>3, <2>4
<1>4. AnswersKept(n) \in [Sessions -> Pcs \cup {None}]
  BY DEF AnswersKept
<1>. QED BY <1>1, <1>2, <1>3, <1>4

LEMMA ExpiryForgets ==
    ASSUME Types, StoreInv, NEW n \in 0..Len(store), store' = Kept(n), answer' = AnswersKept(n)
    PROVE  Forgets
<1> DEFINE m == Len(store) - n
<1>1. /\ Kept(n) \in Seq(Sessions) /\ Len(Kept(n)) = m
      /\ \A i \in 1..m : Kept(n)[i] = store[i + n]
  BY KeptFacts
<1>2. m \in Nat /\ \A i \in 1..m : i + n \in 1..Len(store)
  BY DEF Types
<1>3. /\ AnswersKept(n) \in [Sessions -> Pcs \cup {None}]
      /\ \A s \in Sessions : AnswersKept(n)[s] =
            IF \E i \in 1..m : Kept(n)[i] = s THEN answer[s] ELSE None
  BY KeptFacts
<1> HIDE DEF m
<1>4. \A s : s \in Stored' <=> \E i \in 1..m : Kept(n)[i] = s
  BY <1>1 DEF Stored
<1>7. ASSUME NEW i \in 1..m, NEW j \in 1..m, store'[i] = store'[j] PROVE i = j
  <2>1. store[i + n] = store[j + n] /\ i + n \in 1..Len(store) /\ j + n \in 1..Len(store)
    BY <1>1, <1>2, <1>7
  <2>2. i + n = j + n
    BY <2>1 DEF StoreInv
  <2>. QED BY <1>2, <2>2
<1>5. Stored' \subseteq Stored
  BY <1>1, <1>2, <1>4, ZenonT(60) DEF Stored
<1>6. Len(store') <= Len(store)
  BY <1>1 DEF m, Types
<1>. QED BY <1>1, <1>3, <1>4, <1>5, <1>6, <1>7 DEF Forgets

\* release() takes the one place that the session has.
LEMMA ReleaseForgets ==
    ASSUME Types, StoreInv, NEW s \in Sessions, Release(s)
    PROVE  Forgets /\ s \notin Stored' /\ s \in Stored
<1> USE DEF Types
<1> DEFINE n == Len(store)
<1>0. DOMAIN store = 1..n /\ n \in Nat
  OBVIOUS
<1> PICK k \in 1..n : store[k] = s /\ store' = RemoveAt(store, k)
  BY <1>0 DEF Release
<1> DEFINE front == SubSeq(store, 1, k - 1)
           back == SubSeq(store, k + 1, n)
<1>a. front \in Seq(Sessions) /\ Len(front) = k - 1 /\ \A i \in 1..k - 1 : front[i] = store[i]
  OBVIOUS
<1>b. back \in Seq(Sessions) /\ Len(back) = n - k /\ \A i \in 1..n - k : back[i] = store[i + k]
  OBVIOUS
<1>c. store' = front \o back
  BY DEF RemoveAt
<1> HIDE DEF front, back
<1>1. /\ store' \in Seq(Sessions) /\ Len(store') = n - 1
      /\ \A i \in 1..n - 1 : store'[i] = IF i < k THEN store[i] ELSE store[i + 1]
  <2>1. store' \in Seq(Sessions) /\ Len(store') = n - 1
    BY <1>a, <1>b, <1>c
  <2>2. ASSUME NEW i \in 1..n - 1, i < k PROVE store'[i] = store[i]
    BY <1>a, <1>b, <1>c, <2>2
  <2>3. ASSUME NEW i \in 1..n - 1, ~(i < k) PROVE store'[i] = store[i + 1]
    <3>1. i - (k - 1) \in 1..n - k /\ (i - (k - 1)) + k = i + 1
      BY <2>3
    <3>2. store'[i] = back[i - (k - 1)]
      BY <1>a, <1>b, <1>c, <2>3, <3>1
    <3>. QED BY <1>b, <3>1, <3>2
  <2>. QED BY <2>1, <2>2, <2>3
<1> HIDE DEF n
<1>2. ASSUME NEW i \in 1..Len(store'), NEW j \in 1..Len(store'), store'[i] = store'[j] PROVE i = j
  BY <1>0, <1>1, <1>2 DEF StoreInv, n
<1>3. s \notin Stored' /\ Stored' \subseteq Stored /\ s \in Stored
  <2>1. \A i \in 1..n - 1 : store'[i] # s /\ store'[i] \in Stored
    BY <1>0, <1>1 DEF StoreInv, Stored, n
  <2>. QED BY <1>0, <1>1, <2>1 DEF Stored, n
<1>4. ASSUME NEW t \in Stored, t # s PROVE t \in Stored'
  <2> PICK j \in 1..n : store[j] = t
    BY DEF Stored, n
  <2>1. CASE j < k
    BY <1>0, <1>1, <2>1 DEF Stored
  <2>2. CASE j > k
    <3>1. j - 1 \in 1..n - 1 /\ ~(j - 1 < k) /\ (j - 1) + 1 = j
      BY <1>0, <2>2
    <3>. QED BY <1>1, <3>1 DEF Stored
  <2>. QED BY <1>0, <1>4, <2>1, <2>2
<1>5. answer' \in [Sessions -> Pcs \cup {None}]
  BY DEF Release
<1>6. \A t \in Sessions : answer'[t] = IF t \in Stored' THEN answer[t] ELSE None
  BY <1>3, <1>4 DEF Release, StoreInv
<1>. QED BY <1>0, <1>1, <1>2, <1>3, <1>5, <1>6 DEF Forgets, n

\* putOffer(): one session more, which has no answer.
LEMMA OfferFacts ==
    ASSUME Types, StoreInv, NEW s \in Sessions, s \notin Stored,
           NEW n \in 0..Len(store), Len(store) - n < MaxPerCode,
           store' = Append(Kept(n), s), answer' = AnswersKept(n)
    PROVE  /\ store' \in Seq(Sessions) /\ Len(store') <= MaxPerCode
           /\ StoreInv'
           /\ Stored' \subseteq Stored \cup {s}
           /\ answer' \in [Sessions -> Pcs \cup {None}]
           /\ \A t \in Sessions : answer'[t] = IF t \in Stored' THEN answer[t] ELSE None
           /\ answer'[s] = None /\ s \in Stored'
<1> USE MaxAssumption DEF Types
<1> DEFINE m == Len(store) - n
<1>1. /\ m \in Nat /\ Kept(n) \in Seq(Sessions) /\ Len(Kept(n)) = m
      /\ \A i \in 1..m : Kept(n)[i] = store[i + n] /\ i + n \in 1..Len(store)
  BY KeptFacts
<1>2. store' \in Seq(Sessions) /\ Len(store') = m + 1 /\ store'[m + 1] = s
  BY <1>1
<1>3. \A i \in 1..m : store'[i] = Kept(n)[i] /\ store'[i] = store[i + n]
  BY <1>1
<1>4. ASSUME NEW i \in 1..m + 1, NEW j \in 1..m + 1, store'[i] = store'[j] PROVE i = j
  <2>1. \A k \in 1..m : store'[k] # s
    BY <1>1, <1>3 DEF Stored
  <2>2. CASE i \in 1..m /\ j \in 1..m
    <3>1. i + n = j + n
      BY <1>1, <1>3, <1>4, <2>2 DEF StoreInv
    <3>. QED BY <1>1, <3>1
  <2>. QED BY <1>1, <1>2, <1>4, <2>1, <2>2
<1> HIDE DEF m
<1>5. \A t : t \in Stored' <=> t = s \/ \E i \in 1..m : Kept(n)[i] = t
  <2>1. m + 1 \in 1..m + 1 /\ 1..m \subseteq 1..m + 1 /\ \A i \in 1..m + 1 : i = m + 1 \/ i \in 1..m
    BY <1>1
  <2>2. \A t : t \in Stored' <=> \E i \in 1..m + 1 : store'[i] = t
    BY <1>2 DEF Stored
  <2>. QED BY <1>2, <1>3, <2>1, <2>2
<1>6. Stored' \subseteq Stored \cup {s}
  BY <1>1, <1>5 DEF Stored
<1>7. answer[s] = None
  BY DEF StoreInv
<1>8. /\ answer' \in [Sessions -> Pcs \cup {None}]
      /\ \A t \in Sessions : answer'[t] = IF \E i \in 1..m : Kept(n)[i] = t THEN answer[t] ELSE None
  BY KeptFacts DEF m
<1>9. \A t \in Sessions : answer'[t] = IF t \in Stored' THEN answer[t] ELSE None
  BY <1>5, <1>7, <1>8
<1>10. StoreInv'
  BY <1>2, <1>4, <1>9 DEF StoreInv
<1>11. Len(store') <= MaxPerCode
  BY <1>1, <1>2 DEF m
<1>. QED BY <1>2, <1>5, <1>6, <1>7, <1>8, <1>9, <1>10, <1>11

\* What it is not to have missed anything, of the sessions themselves.
LEMMA WakeupMeans ==
    ASSUME Types
    PROVE  NoLostWakeup <=>
            /\ client = "held" => \A s \in Stored : answer[s] # None
            /\ \A s \in answerWaiters : s \in Stored => answer[s] = None
BY DEF NoLostWakeup, Unanswered, Answered, Stored, Types

LEMMA WakeupMeansNext ==
    ASSUME Types'
    PROVE  NoLostWakeup' <=>
            /\ client' = "held" => \A s \in Stored' : answer'[s] # None
            /\ \A s \in answerWaiters' : s \in Stored' => answer'[s] = None
BY DEF NoLostWakeup, Unanswered, Answered, Stored, Types

-----------------------------------------------------------------------------
(* What the invariant's parts need of a step: the parts by themselves.     *)

LEMMA StoreOfForgets == ASSUME Forgets PROVE StoreInv'
BY DEF Forgets, StoreInv

\* The peers do not look at the rest.
LEMMA PeersSame == ASSUME PeersInv, UNCHANGED <<pc, session, peers, timers>> PROVE PeersInv'
BY DEF PeersInv, NoPeerIsOrphaned

\* A step that takes answers away, and leaves peers and headsets alone.
LEMMA AnswersForgotten ==
    ASSUME IInv, Forgets, UNCHANGED <<peerVars, headsetVars>>
    PROVE  AnswerInv'
<1>1. \A s \in Sessions : answer'[s] \in {answer[s], None} /\ got'[s] = got[s]
  BY DEF Forgets, headsetVars
<1>2. \A s \in Sessions : got'[s] # None => headset'[s] = "connected" /\ s \notin Stored'
  BY DEF Forgets, headsetVars, IInv, AnswerInv
<1>. QED BY <1>1, <1>2 DEF IInv, AnswerInv, AnswerIsCurrent, peerVars

LEMMA JobForgotten ==
    ASSUME IInv, Forgets, UNCHANGED <<clientVars, peerVars, got>>
    PROVE  JobInv'
<1>1. \A s \in Sessions : answer[s] = None => answer'[s] = None
  BY DEF Forgets
<1>. QED BY <1>1 DEF IInv, JobInv, Types, clientVars, peerVars

LEMMA WakeupForgotten ==
    ASSUME IInv, Types', Forgets, client' = client, answerWaiters' \subseteq answerWaiters
    PROVE  NoLostWakeup'
<1>1. /\ client = "held" => \A s \in Stored : answer[s] # None
      /\ \A s \in answerWaiters : s \in Stored => answer[s] = None
  BY WakeupMeans DEF IInv
<1>2. \A s \in Stored : s \in Sessions
  BY DEF IInv, Types, Stored
<1>3. Stored' \subseteq Stored /\ \A s \in Sessions : s \in Stored' => answer'[s] = answer[s]
  BY DEF Forgets
<1>. QED BY <1>1, <1>2, <1>3, WakeupMeansNext

-----------------------------------------------------------------------------
(* The service and the headset.                                            *)

LEMMA OfferRefusedInv == IInv /\ OfferRefused => IInv'
<1> SUFFICES ASSUME IInv, OfferRefused PROVE IInv'
  OBVIOUS
<1>1. Forgets
  <2> PICK n \in 0..Len(store) : store' = Kept(n) /\ answer' = AnswersKept(n)
    BY DEF OfferRefused
  <2>. QED BY ExpiryForgets DEF IInv
<1>2. UNCHANGED <<answerWaiters, clientVars, peerVars, headsetVars>>
  BY DEF OfferRefused
<1>3. Types'
  BY <1>1, <1>2, MaxAssumption DEF IInv, Types, Forgets, clientVars, peerVars, headsetVars
<1>. QED
  BY <1>1, <1>2, <1>3, StoreOfForgets, PeersSame, AnswersForgotten, JobForgotten, WakeupForgotten
  DEF IInv, clientVars, peerVars, headsetVars

LEMMA OfferAcceptedInv == ASSUME NEW s \in Sessions, IInv, OfferAccepted(s) PROVE IInv'
<1>0. s \notin Stored /\ s \notin answerWaiters /\ headset[s] = "idle" /\ job # s
  BY DEF OfferAccepted, Fresh
<1>1. /\ store' \in Seq(Sessions) /\ Len(store') <= MaxPerCode
      /\ StoreInv'
      /\ Stored' \subseteq Stored \cup {s}
      /\ answer' \in [Sessions -> Pcs \cup {None}]
      /\ \A t \in Sessions : answer'[t] = IF t \in Stored' THEN answer[t] ELSE None
      /\ answer'[s] = None /\ s \in Stored'
  <2> PICK n \in 0..Len(store) :
            /\ Len(store) - n < MaxPerCode
            /\ store' = Append(Kept(n), s)
            /\ answer' = AnswersKept(n)
    BY DEF OfferAccepted
  <2>. QED BY <1>0, OfferFacts DEF IInv
<1>2. UNCHANGED <<answerWaiters, work, peerVars, got>> /\ Handed(s)
  BY DEF OfferAccepted
<1>3. /\ headset' \in [Sessions -> {"idle", "asking", "waiting", "connected"}]
      /\ \A t \in Sessions : t # s => headset'[t] = headset[t]
  BY DEF OfferAccepted, IInv, Types
<1>4. Types'
  BY <1>1, <1>2, <1>3 DEF IInv, Types, Handed, peerVars
<1>5. got[s] = None
  BY <1>0 DEF IInv, AnswerInv
<1>6. PeersInv'
  BY <1>2, PeersSame DEF IInv, peerVars
<1>7. \A t \in Sessions : answer'[t] \in {answer[t], None}
  BY <1>1
<1>8. JobInv'
  <2>1. work' = work /\ UNCHANGED <<pc, session, peers, got>>
    BY <1>2 DEF peerVars
  <2>2. CASE client = "held" /\ client' = "answering" /\ job' = s
    <3>1. work = None /\ s # None
      BY <2>2, SessionsAssumption DEF IInv, JobInv
    <3>. QED BY <1>1, <1>5, <2>1, <2>2, <3>1 DEF JobInv
  <2>3. CASE client = "held" /\ client' = "sleeping" /\ job' = job
    BY <1>7, <2>1, <2>3 DEF IInv, JobInv
  <2>4. CASE UNCHANGED <<client, job>>
    BY <1>7, <2>1, <2>4 DEF IInv, JobInv, Types
  <2>. QED BY <1>2, <2>2, <2>3, <2>4 DEF Handed
<1>9. AnswerInv'
  <2>1. UNCHANGED <<pc, session, peers, got>>
    BY <1>2 DEF peerVars
  <2>2. \A t \in Sessions : got[t] # None => headset'[t] = "connected" /\ t \notin Stored'
    BY <1>1, <1>3, <1>5 DEF IInv, AnswerInv
  <2>. QED BY <1>7, <2>1, <2>2 DEF IInv, AnswerInv, AnswerIsCurrent
<1>10. NoLostWakeup'
  <2>1. client' # "held"
    BY <1>2 DEF Handed
  <2>2. \A t \in answerWaiters : t \in Stored => answer[t] = None
    BY WakeupMeans DEF IInv
  <2>3. \A t \in answerWaiters' : t \in Stored' => answer'[t] = None
    BY <1>0, <1>1, <1>2, <2>2 DEF IInv, Types
  <2>. QED BY <1>4, <2>1, <2>3, WakeupMeansNext
<1>. QED BY <1>1, <1>4, <1>6, <1>8, <1>9, <1>10 DEF IInv

\* Either way the answer is not the service's any more, or waits to be.
LEMMA ReceivesFacts ==
    ASSUME IInv, NEW s \in Sessions, NEW a \in Pcs, Receives(s, a)
    PROVE  /\ headset' \in [Sessions -> {"idle", "asking", "waiting", "connected"}]
           /\ got' \in [Sessions -> Pcs \cup {None}]
           /\ \A t \in Sessions : t # s => got'[t] = got[t] /\ headset'[t] = headset[t]
           /\ got'[s] \in {got[s], a}
           /\ (headset'[s] = "connected" /\ got'[s] = a) \/ (headset'[s] = "idle" /\ got' = got)
<1> USE DEF IInv, Types
<1>1. CASE headset' = [headset EXCEPT ![s] = "connected"] /\ got' = [got EXCEPT ![s] = a]
  <2>0. a \in Pcs \cup {None}
    OBVIOUS
  <2>1. /\ headset' \in [Sessions -> {"idle", "asking", "waiting", "connected"}]
        /\ headset'[s] = "connected"
        /\ \A t \in Sessions : t # s => headset'[t] = headset[t]
    BY <1>1
  <2>2. /\ got' \in [Sessions -> Pcs \cup {None}] /\ got'[s] = a
        /\ \A t \in Sessions : t # s => got'[t] = got[t]
    BY <1>1, <2>0
  <2>. QED BY <2>1, <2>2
<1>2. CASE headset' = [headset EXCEPT ![s] = "idle"] /\ got' = got
  BY <1>2
<1>. QED BY <1>1, <1>2 DEF Receives

LEMMA AskInv == ASSUME NEW s \in Sessions, IInv, Ask(s) PROVE IInv'
<1>0. UNCHANGED <<clientVars, peerVars>> /\ headset[s] = "asking"
  BY DEF Ask
<1>1. got[s] = None
  BY <1>0 DEF IInv, AnswerInv
<1>2. CASE /\ Answered(s)
           /\ Release(s)
           /\ Receives(s, answer[s])
           /\ UNCHANGED answerWaiters
  <2>1. Forgets /\ s \notin Stored' /\ s \in Stored
    BY <1>2, ReleaseForgets DEF IInv
  <2>2. answer[s] \in Pcs /\ answer[s] # None
    BY <1>2 DEF Answered, IInv, Types
  <2>3. /\ headset' \in [Sessions -> {"idle", "asking", "waiting", "connected"}]
        /\ got' \in [Sessions -> Pcs \cup {None}]
        /\ \A t \in Sessions : t # s => got'[t] = got[t] /\ headset'[t] = headset[t]
        /\ (headset'[s] = "connected" /\ got'[s] = answer[s]) \/ (headset'[s] = "idle" /\ got' = got)
    BY <1>2, <2>2, ReceivesFacts
  <2>4. Types'
    BY <1>0, <1>2, <2>1, <2>3, MaxAssumption DEF IInv, Types, Forgets, clientVars, peerVars
  <2>5. \A t \in Sessions : answer'[t] \in {answer[t], None}
    BY <2>1 DEF Forgets
  <2>6. JobInv'
    <3>1. job # s /\ (job # None => answer'[job] = None /\ got'[job] = None)
      BY <2>2, <2>3, <2>5, SessionsAssumption DEF IInv, JobInv, Types
    <3>. QED BY <1>0, <3>1 DEF IInv, JobInv, clientVars, peerVars
  <2>7. AnswerInv'
    <3>1. Stored' \subseteq Stored
      BY <2>1 DEF Forgets
    <3>2. \A t \in Sessions : got'[t] # None => headset'[t] = "connected" /\ t \notin Stored'
      BY <1>1, <2>1, <2>3, <3>1 DEF IInv, AnswerInv
    <3>3. \A t \in Sessions : \A a \in {answer'[t], got'[t]} \ {None} : a \in {answer[t], got[t]} \ {None}
      BY <1>1, <2>3, <2>5
    <3>. QED BY <1>0, <3>2, <3>3 DEF IInv, AnswerInv, AnswerIsCurrent, peerVars
  <2>. QED
    BY <1>0, <1>2, <2>1, <2>4, <2>6, <2>7, StoreOfForgets, PeersSame, WakeupForgotten
    DEF IInv, clientVars, peerVars
<1>3. CASE /\ ~Answered(s)
           /\ headset' = [headset EXCEPT ![s] = "waiting"]
           /\ answerWaiters' = answerWaiters \cup {s}
           /\ UNCHANGED <<store, answer, got>>
  <2>1. Types'
    BY <1>0, <1>3 DEF IInv, Types, clientVars, peerVars
  <2>2. Stored' = Stored /\ Unanswered' = Unanswered
    BY <1>3 DEF Stored, Unanswered
  <2>3. StoreInv' /\ PeersInv' /\ JobInv'
    BY <1>0, <1>3, <2>2, PeersSame DEF IInv, StoreInv, JobInv, clientVars, peerVars
  <2>4. AnswerInv'
    <3>1. \A t \in Sessions : got'[t] # None => headset'[t] = "connected" /\ t \notin Stored'
      BY <1>1, <1>3, <2>2 DEF IInv, AnswerInv, Types
    <3>. QED BY <1>0, <1>3, <3>1 DEF IInv, AnswerInv, AnswerIsCurrent, peerVars
  <2>5. NoLostWakeup'
    BY <1>0, <1>3, <2>2 DEF IInv, NoLostWakeup, Answered, clientVars
  <2>. QED BY <2>1, <2>3, <2>4, <2>5 DEF IInv
<1>. QED BY <1>2, <1>3 DEF Ask

LEMMA AnswerWaitEndsInv == ASSUME NEW s \in Sessions, IInv, AnswerWaitEnds(s) PROVE IInv'
<1>1. /\ answerWaiters' = answerWaiters \ {s}
      /\ headset' = [headset EXCEPT ![s] = IF @ = "waiting" THEN "asking" ELSE @]
      /\ UNCHANGED <<store, answer, clientVars, peerVars, got>>
  BY DEF AnswerWaitEnds
<1>2. Types' /\ Stored' = Stored /\ Unanswered' = Unanswered
  BY <1>1 DEF IInv, Types, clientVars, peerVars, Stored, Unanswered
<1>3. StoreInv' /\ PeersInv' /\ JobInv'
  BY <1>1, <1>2, PeersSame DEF IInv, StoreInv, JobInv, clientVars, peerVars
<1>4. AnswerInv'
  <2>1. \A t \in Sessions : headset[t] = "connected" => headset'[t] = "connected"
    BY <1>1 DEF IInv, Types
  <2>. QED BY <1>1, <1>2, <2>1 DEF IInv, AnswerInv, AnswerIsCurrent, peerVars
<1>5. NoLostWakeup'
  BY <1>1, <1>2 DEF IInv, NoLostWakeup, Answered, clientVars
<1>. QED BY <1>2, <1>3, <1>4, <1>5 DEF IInv

LEMMA HeadsetEndsInv == ASSUME NEW s \in Sessions, IInv, HeadsetEnds(s) PROVE IInv'
<1>1. /\ headset' = [headset EXCEPT ![s] = "idle"]
      /\ got' = [got EXCEPT ![s] = None]
      /\ UNCHANGED <<storeVars, clientVars, peerVars>>
  BY DEF HeadsetEnds
<1>2. Types' /\ Stored' = Stored /\ Unanswered' = Unanswered
  BY <1>1 DEF IInv, Types, storeVars, clientVars, peerVars, Stored, Unanswered
<1>3. /\ \A t \in Sessions : t # s => got'[t] = got[t] /\ headset'[t] = headset[t]
      /\ got'[s] = None
  BY <1>1 DEF IInv, Types
<1>4. StoreInv' /\ PeersInv' /\ JobInv'
  BY <1>1, <1>2, <1>3, PeersSame DEF IInv, StoreInv, JobInv, Types, storeVars, clientVars, peerVars
<1>5. AnswerInv'
  BY <1>1, <1>2, <1>3 DEF IInv, AnswerInv, AnswerIsCurrent, storeVars, peerVars
<1>6. NoLostWakeup'
  BY <1>1, <1>2 DEF IInv, NoLostWakeup, Answered, storeVars, clientVars
<1>. QED BY <1>2, <1>4, <1>5, <1>6 DEF IInv

-----------------------------------------------------------------------------
(* The bridge's peers.                                                     *)

\* Whoever loses a peer connection: none comes into being, and none is found
\* under a session that was not before.
Loses ==
    /\ pc' \in [Pcs -> {"free", "live", "open", "closed"}]
    /\ \A p \in Pcs : pc[p] # "free" => pc'[p] # "free"
    /\ UNCHANGED session
    /\ peers' \in [Sessions -> Pcs \cup {None}]
    /\ \A s \in Sessions : peers'[s] \in {peers[s], None}
    /\ timers' \subseteq Pcs

\* dropPeer() closes the peer of the session, takes it from the map and stops
\* its timer.
LEMMA DropFacts ==
    ASSUME IInv, NEW s \in Sessions, Drop(s), UNCHANGED session
    PROVE  Loses /\ PeersInv'
<1> USE DEF Drop, Dropped, Unmap
<1>1. Loses
  BY DEF Loses, IInv, Types
<1>2. \A t \in Sessions : t # s => peers'[t] = peers[t]
  BY DEF IInv, Types
<1>3. peers'[s] = None /\ timers' = timers \ {peers[s]}
  BY DEF IInv, Types
<1>4. \A p \in Pcs : pc'[p] = IF p = peers[s] THEN "closed" ELSE pc[p]
  OBVIOUS
<1>5. \A p \in Pcs : p # peers[s] => (pc[p] \in {"live", "open"} => session[p] # s)
  BY DEF IInv, PeersInv, NoPeerIsOrphaned
<1>6. NoPeerIsOrphaned'
  <2> SUFFICES ASSUME NEW p \in Pcs
               PROVE  /\ pc'[p] \in {"live", "open"} => peers'[session[p]] = p
                      /\ p \in timers' <=> pc'[p] = "live"
    BY DEF NoPeerIsOrphaned
  <2>1. session[p] \in Sessions \cup {None} /\ (pc[p] # "free" => session[p] \in Sessions)
    BY DEF IInv, Types, PeersInv
  <2>2. CASE p = peers[s]
    BY <1>3, <1>4, <2>2
  <2>3. CASE p # peers[s]
    BY <1>2, <1>3, <1>4, <1>5, <2>1, <2>3 DEF IInv, PeersInv, NoPeerIsOrphaned
  <2>. QED BY <2>2, <2>3
<1>7. \A p \in Pcs : pc'[p] # "free" => session'[p] # None
  BY <1>4, PcsAssumption, SessionsAssumption DEF IInv, PeersInv, Types
<1>8. ASSUME NEW t \in Sessions, peers'[t] # None
      PROVE  pc'[peers'[t]] \in {"live", "open"} /\ session'[peers'[t]] = t
  <2>1. t # s /\ peers'[t] = peers[t] /\ peers[t] \in Pcs
    BY <1>2, <1>3, <1>8 DEF IInv, Types
  <2>2. session[peers[t]] = t /\ pc[peers[t]] \in {"live", "open"}
    BY <1>8, <2>1 DEF IInv, PeersInv
  <2>3. peers[t] # peers[s]
    BY <1>8, <2>1, <2>2 DEF IInv, PeersInv
  <2>. QED BY <1>4, <2>1, <2>2, <2>3
<1>. QED BY <1>1, <1>6, <1>7, <1>8 DEF PeersInv

\* The answers stay what they are: those of the latest peer, or of the last.
LEMMA AnswersOfLost ==
    ASSUME IInv, Loses, UNCHANGED <<storeVars, headsetVars>>
    PROVE  StoreInv' /\ AnswerInv'
<1>1. Stored' = Stored
  BY DEF storeVars, Stored
<1>2. StoreInv'
  BY <1>1 DEF IInv, StoreInv, storeVars
<1>3. \A s \in Sessions : \A a \in {answer[s], got[s]} \ {None} : a \in Pcs
  BY DEF IInv, Types
<1>. QED
  BY <1>1, <1>2, <1>3 DEF IInv, AnswerInv, AnswerIsCurrent, Loses, storeVars, headsetVars

LEMMA LosesInv ==
    ASSUME IInv, Loses, PeersInv', UNCHANGED <<storeVars, clientVars, headsetVars>>
    PROVE  IInv'
<1>1. Types'
  BY DEF IInv, Types, Loses, storeVars, clientVars, headsetVars
<1>2. JobInv'
  <2>1. work # None => work \in Pcs /\ job \in Sessions
    BY DEF IInv, Types, JobInv
  <2>. QED BY <2>1 DEF IInv, JobInv, Loses, storeVars, clientVars, headsetVars
<1>3. NoLostWakeup'
  BY DEF IInv, NoLostWakeup, Unanswered, Answered, Stored, storeVars, clientVars
<1>. QED BY <1>1, <1>2, <1>3, AnswersOfLost DEF IInv

LEMMA OpenTimeoutInv == ASSUME NEW p \in Pcs, IInv, OpenTimeout(p) PROVE IInv'
<1>1. session[p] \in Sessions
  BY DEF OpenTimeout, IInv, PeersInv, NoPeerIsOrphaned, Types
<1>. QED BY <1>1, DropFacts, LosesInv DEF OpenTimeout

LEMMA PeerLostInv == ASSUME NEW p \in Pcs, IInv, PeerLost(p) PROVE IInv'
<1>1. session[p] \in Sessions
  BY DEF PeerLost, IInv, PeersInv, Types
<1>. QED BY <1>1, DropFacts, LosesInv DEF PeerLost

LEMMA PeerOpensInv == ASSUME NEW p \in Pcs, IInv, PeerOpens(p) PROVE IInv'
<1>1. /\ pc[p] = "live" /\ pc' = [pc EXCEPT ![p] = "open"] /\ timers' = timers \ {p}
      /\ UNCHANGED <<storeVars, clientVars, session, peers, headsetVars>>
  BY DEF PeerOpens
<1>2. Loses
  BY <1>1 DEF Loses, IInv, Types
<1>3. \A q \in Pcs : pc'[q] = IF q = p THEN "open" ELSE pc[q]
  BY <1>1 DEF IInv, Types
<1>4. NoPeerIsOrphaned'
  BY <1>1, <1>3 DEF IInv, PeersInv, NoPeerIsOrphaned
<1>5. \A s \in Sessions : peers[s] # None => peers[s] \in Pcs
  BY DEF IInv, Types
<1>6. PeersInv'
  BY <1>1, <1>3, <1>4, <1>5 DEF IInv, PeersInv
<1>. QED BY <1>1, <1>2, <1>6, LosesInv

LEMMA ClosedPeerGoesInv == ASSUME NEW p \in Pcs, IInv, ClosedPeerGoes(p) PROVE IInv'
<1>1. /\ pc[p] = "closed" /\ p # work
      /\ \A s \in Sessions : got[s] # p /\ answer[s] # p
      /\ pc' = [pc EXCEPT ![p] = "free"] /\ session' = [session EXCEPT ![p] = None]
      /\ UNCHANGED <<storeVars, clientVars, peers, timers, headsetVars>>
  BY DEF ClosedPeerGoes
<1>2. Types'
  BY <1>1 DEF IInv, Types, storeVars, clientVars, headsetVars
<1>3. /\ \A q \in Pcs : q # p => pc'[q] = pc[q] /\ session'[q] = session[q]
      /\ pc'[p] = "free"
  BY <1>1 DEF IInv, Types
<1>4. \A s \in Sessions : peers[s] # p /\ (peers[s] # None => peers[s] \in Pcs)
  BY <1>1, PcsAssumption DEF IInv, Types, PeersInv
<1>5. PeersInv'
  BY <1>1, <1>3, <1>4 DEF IInv, PeersInv, NoPeerIsOrphaned
<1>6. StoreInv' /\ NoLostWakeup'
  BY <1>1 DEF IInv, StoreInv, NoLostWakeup, Unanswered, Answered, Stored, storeVars, clientVars
<1>7. JobInv'
  <2>1. work # None => work \in Pcs
    BY DEF IInv, Types
  <2>. QED BY <1>1, <1>3, <2>1 DEF IInv, JobInv, storeVars, clientVars, headsetVars
<1>8. AnswerInv'
  <2>1. Stored' = Stored /\ UNCHANGED <<answer, got, headset, peers>>
    BY <1>1 DEF Stored, storeVars, headsetVars
  <2>2. \A s \in Sessions : \A a \in {answer[s], got[s]} \ {None} : a \in Pcs /\ a # p
    BY <1>1 DEF IInv, Types
  <2>. QED BY <1>3, <2>1, <2>2 DEF IInv, AnswerInv, AnswerIsCurrent
<1>. QED BY <1>2, <1>5, <1>6, <1>7, <1>8 DEF IInv

-----------------------------------------------------------------------------
(* The bridge's loop.                                                      *)

\* A step of the loop alone: only what it waits for and works on is new.
LEMMA LoopInv ==
    ASSUME IInv, UNCHANGED <<storeVars, work, peerVars, headsetVars>>,
           client' \in {"polling", "held", "answering", "preparing", "posting", "sleeping"},
           job' \in Sessions \cup {None},
           JobInv', client' = "held" => client = "held" \/ Unanswered = {}
    PROVE  IInv'
<1>1. Types' /\ Stored' = Stored /\ Unanswered' = Unanswered
  BY DEF IInv, Types, storeVars, peerVars, headsetVars, Stored, Unanswered
<1>2. StoreInv' /\ PeersInv'
  BY <1>1, PeersSame DEF IInv, StoreInv, storeVars, peerVars
<1>3. AnswerInv'
  BY <1>1 DEF IInv, AnswerInv, AnswerIsCurrent, storeVars, peerVars, headsetVars
<1>4. NoLostWakeup'
  BY <1>1 DEF IInv, NoLostWakeup, Answered, storeVars
<1>. QED BY <1>1, <1>2, <1>3, <1>4 DEF IInv

LEMMA PollInv == IInv /\ Poll => IInv'
<1> SUFFICES ASSUME IInv, Poll PROVE IInv'
  OBVIOUS
<1>1. client = "polling" /\ UNCHANGED <<storeVars, work, peerVars, headsetVars>>
  BY DEF Poll
<1>2. UNCHANGED <<work, pc, session, peers, answer, got>>
  BY <1>1 DEF storeVars, peerVars, headsetVars
<1>3. CASE \E i \in Unanswered : client' = "answering" /\ job' = store[i]
  <2> PICK i \in Unanswered : client' = "answering" /\ job' = store[i]
    BY <1>3
  <2>1. job' \in Sessions /\ job' \in Stored /\ answer[job'] = None
    BY DEF Unanswered, Stored, IInv, Types
  <2>2. job' # None /\ got[job'] = None
    BY <2>1, SessionsAssumption DEF IInv, AnswerInv
  <2>3. JobInv'
    BY <1>1, <1>2, <2>1, <2>2 DEF IInv, JobInv
  <2>. QED BY <1>1, <2>1, <2>3, LoopInv
<1>4. CASE Unanswered = {} /\ client' = "held" /\ UNCHANGED job
  <2>1. JobInv' /\ job' \in Sessions \cup {None}
    BY <1>1, <1>2, <1>4 DEF IInv, JobInv, Types
  <2>. QED BY <1>1, <1>4, <2>1, LoopInv
<1>. QED BY <1>3, <1>4 DEF Poll

\* The requests end, and the loop sleeps and wakes, with nothing to work on.
LEMMA PauseInv ==
    ASSUME IInv, PollFails \/ PollEnds \/ Wakes
    PROVE  IInv'
<1>1. /\ client \in {"polling", "held", "sleeping"} /\ client' \in {"polling", "sleeping"}
      /\ UNCHANGED <<storeVars, job, work, peerVars, headsetVars>>
  BY DEF PollFails, PollEnds, Wakes
<1>2. JobInv' /\ job' \in Sessions \cup {None}
  BY <1>1 DEF IInv, JobInv, Types, storeVars, peerVars, headsetVars
<1>. QED BY <1>1, <1>2, LoopInv

LEMMA AnswerReadyInv == ASSUME NEW s \in Sessions, IInv, AnswerReady(s) PROVE IInv'
<1>1. /\ client = "preparing" /\ client' = "posting"
      /\ UNCHANGED <<storeVars, job, work, peerVars, headsetVars>>
  BY DEF AnswerReady
<1>2. JobInv' /\ job' \in Sessions \cup {None}
  BY <1>1 DEF IInv, JobInv, Types, storeVars, peerVars, headsetVars
<1>. QED BY <1>1, <1>2, LoopInv

LEMMA AnswerFailsInv == IInv /\ AnswerFails => IInv'
<1> SUFFICES ASSUME IInv, AnswerFails PROVE IInv'
  OBVIOUS
<1>1. /\ client = "preparing" /\ Drop(job) /\ client' = "polling" /\ job' = None /\ work' = None
      /\ UNCHANGED <<storeVars, session, headsetVars>>
  BY DEF AnswerFails
<1>2. job \in Sessions
  BY <1>1 DEF IInv, JobInv, Types
<1>3. Loses /\ PeersInv' /\ StoreInv' /\ AnswerInv'
  BY <1>1, <1>2, DropFacts, AnswersOfLost
<1>4. Types'
  BY <1>1, <1>3 DEF IInv, Types, Loses, storeVars, headsetVars
<1>5. JobInv' /\ NoLostWakeup'
  BY <1>1 DEF JobInv, IInv, NoLostWakeup, Answered, Stored, storeVars
<1>. QED BY <1>3, <1>4, <1>5 DEF IInv

LEMMA AnswerBeginsInv == ASSUME NEW p \in Pcs, IInv, AnswerBegins(p) PROVE IInv'
<1>0. /\ client = "answering" /\ pc[p] = "free"
      /\ pc' = [Dropped(job) EXCEPT ![p] = "live"]
      /\ session' = [session EXCEPT ![p] = job]
      /\ peers' = [peers EXCEPT ![job] = p]
      /\ timers' = (timers \ {peers[job]}) \cup {p}
      /\ client' = "preparing" /\ work' = p
      /\ UNCHANGED <<storeVars, job, headsetVars>>
  BY DEF AnswerBegins
<1>1. job \in Sessions /\ job # None /\ p # None /\ answer[job] = None /\ got[job] = None
  BY <1>0, PcsAssumption DEF IInv, JobInv, Types
<1>2. peers[job] # p
  BY <1>0, <1>1 DEF IInv, PeersInv
<1>3. /\ \A q \in Pcs : pc'[q] = IF q = p THEN "live" ELSE IF q = peers[job] THEN "closed" ELSE pc[q]
      /\ \A q \in Pcs : session'[q] = IF q = p THEN job ELSE session[q]
      /\ \A s \in Sessions : peers'[s] = IF s = job THEN p ELSE peers[s]
  BY <1>0, <1>1 DEF Dropped, IInv, Types
<1>4. Types'
  <2>1. pc' \in [Pcs -> {"free", "live", "open", "closed"}]
    BY <1>0 DEF Dropped, IInv, Types
  <2>2. session' \in [Pcs -> Sessions \cup {None}] /\ peers' \in [Sessions -> Pcs \cup {None}]
    BY <1>0, <1>1 DEF IInv, Types
  <2>3. timers' \subseteq Pcs
    BY <1>0 DEF IInv, Types
  <2>. QED BY <1>0, <2>1, <2>2, <2>3 DEF IInv, Types, storeVars, headsetVars
<1>5. NoPeerIsOrphaned'
  <2> SUFFICES ASSUME NEW q \in Pcs
               PROVE  /\ pc'[q] \in {"live", "open"} => peers'[session'[q]] = q
                      /\ q \in timers' <=> pc'[q] = "live"
    BY DEF NoPeerIsOrphaned
  <2>1. CASE q = p
    BY <1>0, <1>1, <1>3, <2>1
  <2>2. CASE q # p /\ q = peers[job]
    BY <1>0, <1>3, <2>2
  <2>3. CASE q # p /\ q # peers[job]
    <3>1. pc'[q] = pc[q] /\ session'[q] = session[q] /\ (q \in timers' <=> q \in timers)
      BY <1>0, <1>3, <2>3
    <3>2. pc[q] \in {"live", "open"} =>
            session[q] \in Sessions /\ session[q] # job /\ peers[session[q]] = q
      BY <2>3 DEF IInv, Types, PeersInv, NoPeerIsOrphaned
    <3>. QED BY <1>3, <3>1, <3>2 DEF IInv, PeersInv, NoPeerIsOrphaned
  <2>. QED BY <2>1, <2>2, <2>3
<1>6. ASSUME NEW s \in Sessions, peers'[s] # None
      PROVE  pc'[peers'[s]] \in {"live", "open"} /\ session'[peers'[s]] = s
  <2>1. CASE s = job
    BY <1>3, <2>1
  <2>2. CASE s # job
    <3>1. peers'[s] = peers[s] /\ peers[s] \in Pcs
      BY <1>3, <1>6, <2>2 DEF IInv, Types
    <3>2. pc[peers[s]] \in {"live", "open"} /\ session[peers[s]] = s
      BY <1>6, <3>1 DEF IInv, PeersInv
    <3>3. peers[s] # p /\ peers[s] # peers[job]
      BY <1>0, <1>1, <1>6, <2>2, <3>1, <3>2 DEF IInv, PeersInv
    <3>. QED BY <1>3, <3>1, <3>2, <3>3
  <2>. QED BY <2>1, <2>2
<1>7. PeersInv'
  BY <1>1, <1>3, <1>5, <1>6, PcsAssumption DEF IInv, PeersInv
<1>8. JobInv'
  BY <1>0, <1>1, <1>3 DEF JobInv, storeVars, headsetVars
<1>9. AnswerInv'
  <2>1. Stored' = Stored /\ UNCHANGED <<answer, got, headset>>
    BY <1>0 DEF Stored, storeVars, headsetVars
  <2>2. ASSUME NEW s \in Sessions, NEW a \in {answer[s], got[s]} \ {None}
        PROVE  /\ pc'[a] # "free" /\ session'[a] = s
               /\ peers'[s] \in {None, a}
    <3>1. a \in Pcs /\ pc[a] # "free" /\ session[a] = s /\ peers[s] \in {None, a}
      BY DEF IInv, Types, AnswerInv, AnswerIsCurrent
    <3>2. a # p /\ s # job
      BY <1>0, <1>1, <3>1
    <3>. QED BY <1>3, <3>1, <3>2
  <2>. QED BY <2>1, <2>2 DEF IInv, AnswerInv, AnswerIsCurrent
<1>10. StoreInv' /\ NoLostWakeup'
  BY <1>0 DEF IInv, StoreInv, NoLostWakeup, Answered, Stored, storeVars
<1>. QED BY <1>4, <1>7, <1>8, <1>9, <1>10 DEF IInv

LEMMA PostFailsInv == IInv /\ PostFails => IInv'
<1> SUFFICES ASSUME IInv, PostFails PROVE IInv'
  OBVIOUS
<1>1. /\ client' = "sleeping" /\ job' = None /\ work' = None
      /\ UNCHANGED <<storeVars, peerVars, headsetVars>>
  BY DEF PostFails
<1>2. Types' /\ Stored' = Stored
  BY <1>1 DEF IInv, Types, storeVars, peerVars, headsetVars, Stored
<1>3. StoreInv' /\ PeersInv' /\ JobInv'
  BY <1>1, <1>2, PeersSame DEF IInv, StoreInv, JobInv, storeVars, peerVars
<1>4. AnswerInv' /\ NoLostWakeup'
  BY <1>1, <1>2
  DEF IInv, AnswerInv, AnswerIsCurrent, NoLostWakeup, Answered, storeVars, peerVars, headsetVars
<1>. QED BY <1>2, <1>3, <1>4 DEF IInv

LEMMA PostInv == IInv /\ Post => IInv'
<1> SUFFICES ASSUME IInv, Post PROVE IInv'
  OBVIOUS
<1>0. /\ client = "posting" /\ job \in Stored /\ PutAnswer
      /\ client' \in {"polling", "sleeping"} /\ job' = None /\ work' = None
      /\ UNCHANGED <<pc, session, peers, timers>>
  BY DEF Post, peerVars
<1>1. /\ job \in Sessions /\ work \in Pcs /\ job # None /\ work # None
      /\ answer[job] = None /\ got[job] = None
      /\ pc[work] # "free" /\ session[work] = job /\ peers[job] \in {None, work}
  BY <1>0 DEF IInv, JobInv, Types
<1>2. PeersInv' /\ JobInv'
  BY <1>0, PeersSame DEF IInv, JobInv
<1>3. CASE job \in answerWaiters
  <2>1. answerWaiters' = answerWaiters \ {job} /\ Release(job)
    BY <1>0, <1>3 DEF PutAnswer
  <2>2. Forgets /\ job \notin Stored'
    BY <1>1, <2>1, ReleaseForgets DEF IInv
  <2>3. /\ headset' \in [Sessions -> {"idle", "asking", "waiting", "connected"}]
        /\ got' \in [Sessions -> Pcs \cup {None}]
        /\ \A t \in Sessions : t # job => got'[t] = got[t] /\ headset'[t] = headset[t]
        /\ got'[job] # None => got'[job] = work /\ headset'[job] = "connected"
    <3>1. CASE headset[job] = "waiting"
      <4>1. Receives(job, work)
        BY <1>0, <1>3, <3>1 DEF PutAnswer
      <4>. QED BY <1>1, <4>1, ReceivesFacts
    <3>2. CASE headset[job] # "waiting"
      <4>1. UNCHANGED <<headset, got>>
        BY <1>0, <1>3, <3>2 DEF PutAnswer, headsetVars
      <4>. QED BY <1>1, <4>1 DEF IInv, Types
    <3>. QED BY <3>1, <3>2
  <2>4. Types'
    BY <1>0, <2>1, <2>2, <2>3, MaxAssumption DEF IInv, Types, Forgets
  <2>5. \A t \in Sessions : answer'[t] \in {answer[t], None}
    BY <2>2 DEF Forgets
  <2>6. Stored' \subseteq Stored
    BY <2>2 DEF Forgets
  <2>7. AnswerInv'
    <3>1. \A t \in Sessions : got'[t] # None => headset'[t] = "connected" /\ t \notin Stored'
      BY <2>2, <2>3, <2>6 DEF IInv, AnswerInv
    <3>2. ASSUME NEW t \in Sessions, NEW a \in {answer'[t], got'[t]} \ {None}
          PROVE  pc[a] # "free" /\ session[a] = t /\ peers[t] \in {None, a}
      <4>1. CASE a \in {answer[t], got[t]}
        BY <4>1 DEF IInv, AnswerInv, AnswerIsCurrent
      <4>2. CASE t = job /\ a = work
        BY <1>1, <4>2
      <4>. QED BY <2>3, <2>5, <4>1, <4>2
    <3>. QED BY <1>0, <3>1, <3>2 DEF AnswerInv, AnswerIsCurrent
  <2>8. NoLostWakeup'
    <3>1. \A t \in answerWaiters : t \in Stored => answer[t] = None
      BY WakeupMeans DEF IInv
    <3>2. \A t \in answerWaiters' : t \in Stored' => answer'[t] = None
      BY <2>1, <2>5, <2>6, <3>1 DEF IInv, Types
    <3>3. client' # "held"
      BY <1>0
    <3>. QED BY <2>4, <3>2, <3>3, WakeupMeansNext
  <2>. QED BY <1>2, <2>2, <2>4, <2>7, <2>8, StoreOfForgets DEF IInv
<1>4. CASE job \notin answerWaiters
  <2>1. answer' = [answer EXCEPT ![job] = work] /\ UNCHANGED <<store, answerWaiters, headset, got>>
    BY <1>0, <1>4 DEF PutAnswer, headsetVars
  <2>2. Stored' = Stored /\ \A t \in Sessions : answer'[t] = IF t = job THEN work ELSE answer[t]
    BY <2>1 DEF Stored, IInv, Types
  <2>3. Types'
    BY <1>0, <1>1, <2>1 DEF IInv, Types
  <2>4. StoreInv'
    BY <1>0, <2>1, <2>2 DEF IInv, StoreInv
  <2>5. AnswerInv'
    <3>1. ASSUME NEW t \in Sessions, NEW a \in {answer'[t], got[t]} \ {None}
          PROVE  pc[a] # "free" /\ session[a] = t /\ peers[t] \in {None, a}
      <4>1. CASE a \in {answer[t], got[t]}
        BY <4>1 DEF IInv, AnswerInv, AnswerIsCurrent
      <4>2. CASE t = job /\ a = work
        BY <1>1, <4>2
      <4>. QED BY <2>2, <4>1, <4>2
    <3>. QED BY <1>0, <2>1, <2>2, <3>1 DEF IInv, AnswerInv, AnswerIsCurrent
  <2>6. NoLostWakeup'
    <3>1. \A t \in answerWaiters : t \in Stored => answer[t] = None
      BY WakeupMeans DEF IInv
    <3>2. \A t \in answerWaiters' : t \in Stored' => answer'[t] = None
      BY <1>4, <2>1, <2>2, <3>1 DEF IInv, Types
    <3>3. client' # "held"
      BY <1>0
    <3>. QED BY <2>3, <3>2, <3>3, WakeupMeansNext
  <2>. QED BY <1>2, <2>3, <2>4, <2>5, <2>6 DEF IInv
<1>. QED BY <1>3, <1>4

-----------------------------------------------------------------------------

LEMMA StutterInv == IInv /\ UNCHANGED vars => IInv'
<1> SUFFICES ASSUME IInv, UNCHANGED vars PROVE IInv'
  OBVIOUS
<1> USE DEF vars, storeVars, clientVars, peerVars, headsetVars
<1>1. Types' /\ Stored' = Stored /\ Unanswered' = Unanswered
  BY DEF IInv, Types, Stored, Unanswered
<1>2. StoreInv' /\ PeersInv' /\ JobInv'
  BY <1>1, PeersSame DEF IInv, StoreInv, JobInv
<1>3. AnswerInv' /\ NoLostWakeup'
  BY <1>1 DEF IInv, AnswerInv, AnswerIsCurrent, NoLostWakeup, Answered
<1>. QED BY <1>1, <1>2, <1>3 DEF IInv

LEMMA StepInv == IInv /\ [Next]_vars => IInv'
<1> SUFFICES ASSUME IInv, [Next]_vars PROVE IInv'
  OBVIOUS
<1>1. CASE OfferRefused
  BY <1>1, OfferRefusedInv
<1>2. ASSUME NEW s \in Sessions,
             OfferAccepted(s) \/ Ask(s) \/ AnswerWaitEnds(s) \/ HeadsetEnds(s)
      PROVE  IInv'
  BY <1>2, OfferAcceptedInv, AskInv, AnswerWaitEndsInv, HeadsetEndsInv
<1>3. ASSUME NEW p \in Pcs,
             PeerOpens(p) \/ OpenTimeout(p) \/ PeerLost(p) \/ ClosedPeerGoes(p)
      PROVE  IInv'
  BY <1>3, PeerOpensInv, OpenTimeoutInv, PeerLostInv, ClosedPeerGoesInv
<1>4. CASE ClientStep
  <2>1. CASE AnswerIsBegun
    BY <2>1, AnswerBeginsInv DEF AnswerIsBegun
  <2>2. CASE AnswerIsReady
    BY <2>2, AnswerReadyInv DEF AnswerIsReady
  <2>. QED
    BY <1>4, <2>1, <2>2, PollInv, PauseInv, AnswerFailsInv, PostInv, PostFailsInv DEF ClientStep
<1>5. CASE UNCHANGED vars
  BY <1>5, StutterInv
<1>. QED BY <1>1, <1>2, <1>3, <1>4, <1>5 DEF Next

\* Service, bridge and headsets keep the invariant, however requests and
\* responses are lost and whoever gives up when.
THEOREM SignallingInvariant == Spec => []IInv
<1>. QED BY InitInv, StepInv, PTL DEF Spec

\* The service never keeps more than maxPerCode sessions of a code, nor one of
\* them twice (SignalStore.ts:52-75); the rest is in its type.
THEOREM SignallingTypeOK == Spec => []TypeOK
<1>1. IInv => TypeOK
  <2> SUFFICES ASSUME IInv PROVE TypeOK
    OBVIOUS
  <2> DEFINE n == Len(store)
             f == [i \in 1..n |-> store[i]]
  <2>1. n \in Nat
    BY DEF IInv, Types
  <2>2. f \in Bijection(1..n, Stored)
    BY DEF IInv, StoreInv, Stored, Bijection, Injection, Surjection, IsInjective
  <2> HIDE DEF n
  <2>3. IsFiniteSet(1..n) /\ Cardinality(1..n) = n
    BY <2>1, FS_Interval
  <2> HIDE DEF f
  <2>4. Cardinality(Stored) = Cardinality(1..n)
    BY <2>2, <2>3, FS_Bijection DEF ExistsBijection
  <2>. QED BY <2>1, <2>3, <2>4 DEF n, IInv, Types, StoreInv, TypeOK
<1>. QED BY <1>1, SignallingInvariant, PTL

\* A poll of the bridge and a headset's request for its answer, both of which
\* look first and wait afterwards, never wait for what is there already
\* (SignalStore.ts:99-144).
THEOREM WakeupsAreNotLost == Spec => []NoLostWakeup
<1>1. IInv => NoLostWakeup
  BY DEF IInv
<1>. QED BY <1>1, SignallingInvariant, PTL

\* Every live peer connection of the bridge is in the map under its session,
\* with its timer until it is open (RtcTransport.ts:67-78, 139-149).
THEOREM PeersAreFound == Spec => []NoPeerIsOrphaned
<1>1. IInv => NoPeerIsOrphaned
  BY DEF IInv, PeersInv
<1>. QED BY <1>1, SignallingInvariant, PTL

\* The answer that is kept, or that a headset acts on, is of the bridge's latest
\* peer connection for the session (SignalStore.ts:150-158,
\* SignalClient.ts:103-134).
THEOREM AnswersAreCurrent == Spec => []AnswerIsCurrent
<1>1. IInv => AnswerIsCurrent
  BY DEF IInv, AnswerInv
<1>. QED BY <1>1, SignallingInvariant, PTL

=============================================================================
