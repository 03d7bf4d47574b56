----------------------------- MODULE A2AProofs -----------------------------
(***************************************************************************)
(* Proofs about the two services of A2A, Discovery and Negotiation, inside  *)
(* the protocol that runs them: for any number of agents, capabilities,     *)
(* offers and calls, and any capacities.                                    *)
(***************************************************************************)
EXTENDS A2A, FiniteSetTheorems, SequenceTheorems, TLAPS

-----------------------------------------------------------------------------
(* Discovery.                                                              *)

\* What is registered, and that only the registered fall silent.
PeersProper ==
    /\ DOMAIN peers \subseteq Agents
    /\ \A a \in DOMAIN peers : peers[a] \in Announced
    /\ inactive \subseteq DOMAIN peers

\* Whatever older registrations left in the index, it holds the latest one of every peer
\* under each capability of that.
Indexed ==
    \A a \in DOMAIN peers : \A c \in peers[a] :
        <<c, a>> \in DOMAIN index /\ index[<<c, a>>] = peers[a]

DiscoveryInv == PeersProper /\ Indexed

LEMMA RestrictAt ==
    ASSUME NEW f, NEW S
    PROVE  /\ DOMAIN Restrict(f, S) = S
           /\ \A x \in S : Restrict(f, S)[x] = f[x]
BY DEF Restrict

\* A registration puts the new info under all of its capabilities, and touches no other peer.
LEMMA RegisterKeeps ==
    ASSUME DiscoveryInv, NEW a \in Agents, NEW caps \in Announced, RegisterPeer(a, caps)
    PROVE  DiscoveryInv'
<1>1. peers' = Put(peers, {a}, caps) /\ index' = Put(index, caps \X {a}, caps)
      /\ inactive' = inactive \ {a}
  BY DEF RegisterPeer
<1>2. /\ DOMAIN peers' = DOMAIN peers \cup {a}
      /\ peers'[a] = caps
      /\ \A b \in DOMAIN peers \ {a} : peers'[b] = peers[b]
  BY <1>1 DEF Put
<1>3. /\ DOMAIN index' = DOMAIN index \cup (caps \X {a})
      /\ \A k \in caps \X {a} : index'[k] = caps
      /\ \A k \in DOMAIN index \ (caps \X {a}) : index'[k] = index[k]
  BY <1>1 DEF Put
<1>4. PeersProper'
  BY <1>1, <1>2 DEF DiscoveryInv, PeersProper
<1>5. ASSUME NEW b \in DOMAIN peers', NEW c \in peers'[b]
      PROVE  <<c, b>> \in DOMAIN index' /\ index'[<<c, b>>] = peers'[b]
  <2>1. CASE b = a
    <3>1. <<c, b>> \in caps \X {a}
      BY <1>2, <2>1
    <3> QED BY <3>1, <1>2, <1>3, <2>1
  <2>2. CASE b # a
    <3>1. b \in DOMAIN peers /\ peers'[b] = peers[b]
      BY <1>2, <2>2
    <3>2. <<c, b>> \in DOMAIN index /\ index[<<c, b>>] = peers[b]
      BY <3>1 DEF DiscoveryInv, Indexed
    <3>3. <<c, b>> \notin caps \X {a}
      BY <2>2
    <3> QED BY <3>1, <3>2, <3>3, <1>3
  <2> QED BY <2>1, <2>2
<1>6. Indexed'
  BY <1>5 DEF Indexed
<1> QED BY <1>4, <1>6 DEF DiscoveryInv

\* The departure of some peers removes their entries, and those of no other peer.
LEMMA DepartKeeps ==
    ASSUME DiscoveryInv, NEW as, Depart(as)
    PROVE  DiscoveryInv'
<1> DEFINE gone == ToSet(as)
<1>1. /\ index' = Restrict(index, DOMAIN index \ EntriesOf(gone))
      /\ peers' = Restrict(peers, DOMAIN peers \ gone)
      /\ inactive' = inactive \ gone
  BY DEF Depart
<1>2. DOMAIN peers' = DOMAIN peers \ gone /\ \A b \in DOMAIN peers \ gone : peers'[b] = peers[b]
  BY <1>1, RestrictAt
<1>3. /\ DOMAIN index' = DOMAIN index \ EntriesOf(gone)
      /\ \A k \in DOMAIN index \ EntriesOf(gone) : index'[k] = index[k]
  BY <1>1, RestrictAt
<1>4. PeersProper'
  BY <1>1, <1>2 DEF DiscoveryInv, PeersProper
<1>5. ASSUME NEW b \in DOMAIN peers', NEW c \in peers'[b]
      PROVE  <<c, b>> \in DOMAIN index' /\ index'[<<c, b>>] = peers'[b]
  <2>1. b \in DOMAIN peers /\ b \notin gone /\ peers'[b] = peers[b]
    BY <1>2
  <2>2. <<c, b>> \in DOMAIN index /\ index[<<c, b>>] = peers[b]
    BY <2>1 DEF DiscoveryInv, Indexed
  <2>3. <<c, b>> \notin EntriesOf(gone)
    BY <2>1 DEF EntriesOf
  <2> QED BY <2>1, <2>2, <2>3, <1>3
<1>6. Indexed'
  BY <1>5 DEF Indexed
<1> QED BY <1>4, <1>6 DEF DiscoveryInv

\* A search that requires some of what a peer registered, in any order, finds that peer
\* with its latest registration.
LEMMA RegisteredIsFound ==
    ASSUME DiscoveryInv
    PROVE  FoundByCapabilities
<1> SUFFICES ASSUME NEW a \in DOMAIN peers, NEW required \in SetToSeqs(peers[a]),
                    NEW n \in 0 .. Len(required)
             PROVE  <<a, peers[a]>> \in GetPeersWithCapabilities(SubSeq(required, 1, n))
  BY DEF FoundByCapabilities
<1> DEFINE some == SubSeq(required, 1, n)
<1>1. a \in Agents /\ peers[a] \in Announced /\ IsFiniteSet(peers[a])
  BY DiscoveryAssumption DEF DiscoveryInv, PeersProper
<1>2. Cardinality(peers[a]) \in Nat
  BY <1>1, FS_CardinalityType
<1>3. required \in Seq(peers[a]) /\ Len(required) = Cardinality(peers[a])
  BY <1>2 DEF SetToSeqs
<1>4. /\ some \in Seq(peers[a])
      /\ Len(some) = n
      /\ \A i \in 1 .. n : some[i] = required[i]
  BY <1>3
<1>5. ToSet(some) \subseteq peers[a]
  BY <1>4 DEF ToSet
<1>6. CASE some = <<>>
  BY <1>6 DEF GetPeersWithCapabilities
<1>7. CASE some # <<>>
  <2>1. Head(some) \in peers[a]
    BY <1>4, <1>7
  <2>2. \A c \in peers[a] : <<c, a>> \in DOMAIN index /\ index[<<c, a>>] = peers[a]
    BY DEF DiscoveryInv, Indexed
  <2> DEFINE all == {b \in Agents : \A c \in ToSet(some) : <<c, b>> \in DOMAIN index}
  <2>3. a \in all
    BY <1>1, <1>5, <2>2
  <2>4. index[<<Head(some), a>>] = peers[a]
    BY <2>1, <2>2
  <2>5. <<a, peers[a]>> \in {<<b, index[<<Head(some), b>>]>> : b \in all}
    BY <2>3, <2>4
  <2> QED BY <1>7, <2>5 DEF GetPeersWithCapabilities
<1> QED BY <1>6, <1>7

-----------------------------------------------------------------------------
(* Negotiation.                                                            *)

\* The offers that carry an answer.
Answered(a) == {n \in Offers : response[n] = a}

NegotiationProper ==
    /\ negotiations \subseteq Offers
    /\ state \in [Offers -> {"unknown", "pending"} \cup Final]
    /\ response \in [Offers -> {"none"} \cup Answers]
    /\ stats \in [proposed : Nat, accepted : Nat, rejected : Nat]

\* An answer is given once, to an offer that is pending, and every answer is counted.
AnswersCounted ==
    /\ \A n \in Offers : state[n] \in {"unknown", "pending"} => response[n] = "none"
    /\ \A a \in Answers : IsFiniteSet(Answered(a)) /\ stats[a] = Cardinality(Answered(a))

\* An offer with an answer is held until it is old.
AnswersHeld == \A n \in Offers : response[n] # "none" => n \in negotiations \cup old

NegotiationInv == NegotiationProper /\ AnswersCounted /\ AnswersHeld

LEMMA AnswersStandThen ==
    ASSUME NegotiationInv
    PROVE  AnswersStand
BY DEF NegotiationInv, AnswersCounted, AnswersHeld, Answered, AnswersStand

LEMMA NegotiationStarts ==
    ASSUME NegotiationInit
    PROVE  NegotiationInv
<1>1. NegotiationProper
  BY DEF NegotiationInit, NegotiationProper
<1>2. \A a \in Answers : Answered(a) = {}
  BY DEF NegotiationInit, Answered, Answers
<1>3. \A a \in Answers : stats[a] = 0
  BY DEF NegotiationInit, Answers
<1>4. AnswersCounted
  <2>1. \A n \in Offers : response[n] = "none"
    BY DEF NegotiationInit
  <2>2. ASSUME NEW a \in Answers
        PROVE  IsFiniteSet(Answered(a)) /\ stats[a] = Cardinality(Answered(a))
    BY <1>2, <1>3, FS_EmptySet
  <2> QED BY <2>1, <2>2 DEF AnswersCounted
<1>5. AnswersHeld
  BY DEF NegotiationInit, AnswersHeld
<1> QED BY <1>1, <1>4, <1>5 DEF NegotiationInv

\* An answer to a pending offer adds that offer to those with this answer, and changes
\* nothing about the other answer.
LEMMA RespondKeeps ==
    ASSUME NegotiationInv, NEW n \in Offers, NEW answer \in Answers, RespondToOffer(n, answer)
    PROVE  NegotiationInv'
<1>1. /\ n \in negotiations /\ state[n] = "pending" /\ response[n] = "none"
      /\ response' = [response EXCEPT ![n] = answer]
      /\ state' = [state EXCEPT ![n] = answer]
      /\ negotiations' = negotiations /\ old' = old
  BY DEF RespondToOffer, NegotiationInv, AnswersCounted
<1>2. answer \in {"accepted", "rejected"} /\ Answers = {"accepted", "rejected"}
  BY DEF Answers
<1>3. /\ stats' \in [proposed : Nat, accepted : Nat, rejected : Nat]
      /\ stats'[answer] = stats[answer] + 1
      /\ \A a \in Answers \ {answer} : stats'[a] = stats[a]
  <2>0. stats' = [stats EXCEPT ![answer] = @ + 1]
        /\ stats \in [proposed : Nat, accepted : Nat, rejected : Nat]
    BY DEF RespondToOffer, NegotiationInv, NegotiationProper
  <2>1. CASE answer = "accepted"
    BY <2>0, <2>1, <1>2
  <2>2. CASE answer = "rejected"
    BY <2>0, <2>2, <1>2
  <2> QED BY <1>2, <2>1, <2>2
<1>4. NegotiationProper'
  BY <1>1, <1>3 DEF NegotiationInv, NegotiationProper, Final
<1>5. AnswersCounted'
  <2>1. ASSUME NEW m \in Offers, state'[m] \in {"unknown", "pending"}
        PROVE  response'[m] = "none"
    BY <1>1, <1>2, <2>1 DEF NegotiationInv, NegotiationProper, AnswersCounted
  <2>2. n \notin Answered(answer) /\ Answered(answer)' = Answered(answer) \cup {n}
    BY <1>1, <1>2 DEF Answered, NegotiationInv, NegotiationProper
  <2>3. \A a \in Answers \ {answer} : Answered(a)' = Answered(a)
    BY <1>1, <1>2 DEF Answered, NegotiationInv, NegotiationProper
  <2>4. ASSUME NEW a \in Answers
        PROVE  IsFiniteSet(Answered(a)') /\ stats'[a] = Cardinality(Answered(a)')
    <3>1. IsFiniteSet(Answered(a)) /\ stats[a] = Cardinality(Answered(a))
      BY DEF NegotiationInv, AnswersCounted
    <3>2. CASE a = answer
      BY <3>1, <3>2, <2>2, <1>3, FS_AddElement
    <3>3. CASE a # answer
      BY <3>1, <3>3, <2>3, <1>3
    <3> QED BY <3>2, <3>3
  <2> QED BY <2>1, <2>4 DEF AnswersCounted, Answered
<1>6. AnswersHeld'
  BY <1>1 DEF NegotiationInv, NegotiationProper, AnswersHeld
<1> QED BY <1>4, <1>5, <1>6 DEF NegotiationInv

\* What gives no answer and drops only what is old or unanswered keeps the answers.
LEMMA QuietKeeps ==
    ASSUME NegotiationInv, NegotiationProper',
           response' = response, stats'.accepted = stats.accepted,
           stats'.rejected = stats.rejected,
           \A n \in Offers : state'[n] \in {"unknown", "pending"}
                                 => state[n] \in {"unknown", "pending"},
           \A n \in negotiations \ negotiations' : n \in old \/ response[n] = "none",
           old \subseteq old'
    PROVE  NegotiationInv'
<1>1. \A a \in Answers : Answered(a)' = Answered(a) /\ stats'[a] = stats[a]
  BY DEF Answered, Answers, NegotiationInv, NegotiationProper
<1>2. AnswersCounted'
  <2>1. \A n \in Offers : state'[n] \in {"unknown", "pending"} => response'[n] = "none"
    BY DEF NegotiationInv, AnswersCounted
  <2>2. ASSUME NEW a \in Answers
        PROVE  IsFiniteSet(Answered(a)') /\ stats'[a] = Cardinality(Answered(a)')
    BY <1>1 DEF NegotiationInv, AnswersCounted
  <2> QED BY <2>1, <2>2 DEF AnswersCounted, Answered
<1>3. AnswersHeld'
  BY DEF NegotiationInv, NegotiationProper, AnswersHeld
<1> QED BY <1>2, <1>3 DEF NegotiationInv

LEMMA NegotiationKept ==
    ASSUME NegotiationInv, UNCHANGED negotiationVars
    PROVE  NegotiationInv'
BY DEF NegotiationInv, NegotiationProper, AnswersCounted, AnswersHeld, Answered, negotiationVars

LEMMA OfferKeeps ==
    ASSUME NegotiationInv, NEW n \in Offers,
           ProposeTask(n) \/ CancelNegotiation(n) \/ TimerFires(n) \/ Age(n)
    PROVE  NegotiationInv'
<1>0. NegotiationProper
  BY DEF NegotiationInv
<1>1. CASE ProposeTask(n)
  <2>1. stats' = [stats EXCEPT !.proposed = @ + 1]
    BY <1>1 DEF ProposeTask
  <2>2. stats' \in [proposed : Nat, accepted : Nat, rejected : Nat]
        /\ stats'.accepted = stats.accepted /\ stats'.rejected = stats.rejected
    BY <1>0, <2>1 DEF NegotiationProper
  <2>3. NegotiationProper'
    BY <1>0, <1>1, <2>2 DEF ProposeTask, NegotiationProper, Final
  <2> QED BY <1>0, <1>1, <2>2, <2>3, QuietKeeps DEF ProposeTask, NegotiationProper
<1>2. CASE CancelNegotiation(n)
  <2>1. NegotiationProper'
    BY <1>0, <1>2 DEF CancelNegotiation, NegotiationProper, Final
  <2> QED BY <1>0, <1>2, <2>1, QuietKeeps DEF CancelNegotiation, NegotiationProper
<1>3. CASE TimerFires(n)
  <2>1. NegotiationProper'
    BY <1>0, <1>3 DEF TimerFires, NegotiationProper, Final
  <2>2. state[n] = "pending" => response[n] = "none"
    BY DEF NegotiationInv, AnswersCounted
  <2>3. \A m \in Offers : state'[m] \in {"unknown", "pending"}
                              => state[m] \in {"unknown", "pending"}
    BY <1>0, <1>3 DEF TimerFires, NegotiationProper
  <2>4. \A m \in negotiations \ negotiations' : m \in old \/ response[m] = "none"
    BY <1>0, <1>3, <2>2 DEF TimerFires
  <2> QED BY <1>3, <2>1, <2>3, <2>4, QuietKeeps DEF TimerFires
<1>4. CASE Age(n)
  <2>1. NegotiationProper'
    BY <1>0, <1>4 DEF Age, NegotiationProper
  <2> QED BY <1>4, <2>1, QuietKeeps DEF Age
<1> QED BY <1>1, <1>2, <1>3, <1>4

LEMMA CleanupKeeps ==
    ASSUME NegotiationInv, CleanupNegotiations
    PROVE  NegotiationInv'
<1>1. NegotiationProper'
  BY DEF NegotiationInv, NegotiationProper, CleanupNegotiations
<1> QED BY <1>1, QuietKeeps DEF CleanupNegotiations

-----------------------------------------------------------------------------
(* The services in the protocol.                                           *)

LEMMA DiscoveryKept ==
    ASSUME DiscoveryInv, peers' = peers, index' = index, inactive' \subseteq DOMAIN peers
    PROVE  DiscoveryInv'
BY DEF DiscoveryInv, PeersProper, Indexed

\* A step of the protocol is a step of the services, or leaves them alone.
LEMMA ServicesStep ==
    ASSUME Next
    PROVE  \/ CleanupPeers /\ CleanupNegotiations
           \/ ServiceCall
           \/ ServiceEvent
           \/ Wedge /\ UNCHANGED negotiationVars
           \/ UNCHANGED <<discoveryVars, negotiationVars>>
<1>1. CASE Start \/ ContextEnds \/ StopStep \/ Tick \/ Beat
  BY <1>1 DEF Start, ContextEnds, StopStep, Tick, Beat
<1>2. CASE CleanupTick
  BY <1>2 DEF CleanupTick
<1>3. CASE \/ Worker(HandleMessage) \/ Worker(SendReply) \/ Worker(ProcessOutbox)
           \/ \E w \in workers : Worker(WorkerEnds(w))
  BY <1>3 DEF Worker
<1>4. CASE \E c \in Callers : ClientStep(c)
  BY <1>4 DEF ClientStep, Search
<1>5. CASE Called /\ \E c \in Callers : ClientCall(c)
  BY <1>5 DEF ClientCall, AnnounceCapabilities, LeaveCollaboration, AcceptTask, RejectTask,
              RequestCollaboration, JoinCollaboration, ReportProgress, SendData, Broadcast,
              ClientProposeTask, RequestData, ClientStop, DiscoverAgents, Look, Begin
<1>6. CASE Called /\ (RegisterHandler \/ \E m \in Messages : Receive(m))
  BY <1>6 DEF RegisterHandler, Receive
<1>7. CASE Called /\ ServiceCall
  BY <1>7
<1>8. CASE Alive /\ ServiceEvent
  BY <1>8
<1> QED BY <1>1, <1>2, <1>3, <1>4, <1>5, <1>6, <1>7, <1>8 DEF Next

LEMMA DiscoveryKeeps ==
    ASSUME DiscoveryInv, [Next]_vars
    PROVE  DiscoveryInv'
<1>1. CASE UNCHANGED discoveryVars
  <2>1. inactive \subseteq DOMAIN peers
    BY DEF DiscoveryInv, PeersProper
  <2> QED BY <1>1, <2>1, DiscoveryKept DEF discoveryVars
<1>2. CASE CleanupPeers
  BY <1>2, DepartKeeps DEF CleanupPeers
<1>3. ASSUME NEW a \in Agents, NEW caps \in Announced, RegisterPeer(a, caps)
      PROVE  DiscoveryInv'
  BY <1>3, RegisterKeeps
<1>4. ASSUME NEW a \in Agents, UnregisterPeer(a) PROVE DiscoveryInv'
  BY <1>4, DepartKeeps DEF UnregisterPeer
<1>5. ASSUME NEW a \in Agents, UpdateHeartbeat(a) \/ FallSilent(a) PROVE DiscoveryInv'
  <2>1. peers' = peers /\ index' = index /\ inactive' \subseteq DOMAIN peers
    BY <1>5 DEF UpdateHeartbeat, FallSilent, DiscoveryInv, PeersProper
  <2> QED BY <2>1, DiscoveryKept
<1>6. ASSUME NEW s, Subscribe(s) \/ ReceiveEvent(s) \/ Unsubscribe(s) \/ Wedge
      PROVE  DiscoveryInv'
  <2>1. peers' = peers /\ index' = index /\ inactive' \subseteq DOMAIN peers
    BY <1>6 DEF Subscribe, ReceiveEvent, Unsubscribe, Wedge, DiscoveryInv, PeersProper
  <2> QED BY <2>1, DiscoveryKept
<1>7. CASE ServiceCall
  BY <1>1, <1>3, <1>4, <1>5, <1>6, <1>7 DEF ServiceCall
<1>8. CASE ServiceEvent
  BY <1>1, <1>5, <1>6, <1>8 DEF ServiceEvent
<1>9. CASE UNCHANGED vars
  BY <1>1, <1>9 DEF vars
<1> QED BY <1>1, <1>2, <1>6, <1>7, <1>8, <1>9, ServicesStep

LEMMA NegotiationKeeps ==
    ASSUME NegotiationInv, [Next]_vars
    PROVE  NegotiationInv'
<1>1. CASE UNCHANGED negotiationVars
  BY <1>1, NegotiationKept
<1>2. CASE CleanupNegotiations
  BY <1>2, CleanupKeeps
<1>3. ASSUME NEW n \in Offers, NEW a \in Answers, RespondToOffer(n, a)
      PROVE  NegotiationInv'
  BY <1>3, RespondKeeps
<1>4. ASSUME NEW n \in Offers,
             ProposeTask(n) \/ CancelNegotiation(n) \/ TimerFires(n) \/ Age(n)
      PROVE  NegotiationInv'
  BY <1>4, OfferKeeps
<1>5. CASE ServiceCall
  BY <1>1, <1>3, <1>4, <1>5 DEF ServiceCall
<1>6. CASE ServiceEvent
  BY <1>1, <1>4, <1>6 DEF ServiceEvent
<1>7. CASE UNCHANGED vars
  BY <1>1, <1>7 DEF vars
<1> QED BY <1>1, <1>2, <1>5, <1>6, <1>7, ServicesStep

\* However often peers register, with more or fewer capabilities, leave, fall silent and are
\* cleaned up, a registered peer is found under any of its capabilities in any order.
THEOREM PeersAreFound == Spec => []FoundByCapabilities
<1>1. Init => DiscoveryInv
  BY DEF Init, DiscoveryInit, NoOne, DiscoveryInv, PeersProper, Indexed
<1>2. DiscoveryInv /\ [Next]_vars => DiscoveryInv'
  BY DiscoveryKeeps
<1>3. DiscoveryInv => FoundByCapabilities
  BY RegisteredIsFound
<1> QED BY <1>1, <1>2, <1>3, PTL DEF Spec

\* However an answer, a cancellation, the timer and the clean-ups of an offer follow each
\* other, the answer is counted once and can be looked up until the offer is old.
THEOREM AnswersHold == Spec => []AnswersStand
<1>1. Init => NegotiationInv
  BY NegotiationStarts DEF Init
<1>2. NegotiationInv /\ [Next]_vars => NegotiationInv'
  BY NegotiationKeeps
<1>3. NegotiationInv => AnswersStand
  BY AnswersStandThen
<1> QED BY <1>1, <1>2, <1>3, PTL DEF Spec
=============================================================================
