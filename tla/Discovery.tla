----------------------------- MODULE Discovery -----------------------------
(***************************************************************************)
(* DiscoveryService (internal/agent/a2a/discovery.go): the peers that have    *)
(* registered, an index from capabilities to peers, and the channels of those *)
(* who subscribed to changes.  Every operation runs under the service's lock,  *)
(* so each is one step; only a search that requires no capability takes the    *)
(* read lock a second time, and may lock the service, itself included, for     *)
(* good.                                                                   *)
(*                                                                         *)
(* A PeerInfo is the set of capabilities it was registered with; the index     *)
(* keeps a PeerInfo of its own for each capability and peer, which may be an    *)
(* older one than the registered.                                           *)
(***************************************************************************)
EXTENDS Naturals, Sequences, FiniteSets, SequencesExt, Functions

CONSTANTS
    Agents,
    Capabilities,
    Announced,     \* sets of capabilities that agents register with
    Subscribers,   \* contexts that may subscribe to events
    EventBuffer    \* capacity of a subscriber's channel (100 in the code)

ASSUME DiscoveryAssumption ==
    /\ EventBuffer \in Nat
    /\ \A caps \in Announced : caps \subseteq Capabilities /\ IsFiniteSet(caps)

VARIABLES
    peers,      \* the registered agents, each with its capabilities
    index,      \* DOMAIN index \subseteq Capabilities \X Agents
    inactive,   \* registered agents not heard of for too long
    events,     \* for every subscriber, the events it has not received yet
    wedged      \* nobody gets the lock any more

discoveryVars == <<peers, index, inactive, events, wedged>>

NoOne == [x \in {} |-> {}]

DiscoveryInit == /\ peers = NoOne
                 /\ index = NoOne
                 /\ inactive = {}
                 /\ events = [x \in {} |-> <<>>]
                 /\ wedged = FALSE

\* An operation that has the lock.
Unlocked == ~ wedged /\ UNCHANGED wedged

\* An event is dropped for those whose channel is full.
NotifyEvents(es) ==
    events' = [s \in DOMAIN events |->
                 LET q == events[s] \o es
                 IN  IF Len(q) <= EventBuffer THEN q ELSE SubSeq(q, 1, EventBuffer)]

\* The entries of a map for some keys are set.
Put(f, keys, v) == [k \in DOMAIN f \cup keys |-> IF k \in keys THEN v ELSE f[k]]

\* Mutant of RegisterPeer: the entries of the older registration are removed last.
RegisterPeerTidies(a, caps) ==
    /\ Unlocked
    /\ LET old == IF a \in DOMAIN peers THEN peers[a] \X {a} ELSE {}
           all == Put(index, caps \X {a}, caps)
       IN  index' = Restrict(all, DOMAIN all \ old)
    /\ peers' = Put(peers, {a}, caps)
    /\ inactive' = inactive \ {a}
    /\ NotifyEvents(<<[type |-> "joined", peer |-> a]>>)

RegisterPeer(a, caps) ==
    /\ Unlocked
    /\ peers' = Put(peers, {a}, caps)
    /\ index' = Put(index, caps \X {a}, caps)
    /\ inactive' = inactive \ {a}
    /\ NotifyEvents(<<[type |-> "joined", peer |-> a]>>)

\* The entries of the index that belong to what the agents registered last.
EntriesOf(as) == {e \in Capabilities \X as : e[1] \in peers[e[2]]}

\* The removal of some agents, in the given order.
Depart(as) ==
    /\ Unlocked
    /\ index' = Restrict(index, DOMAIN index \ EntriesOf(ToSet(as)))
    /\ peers' = Restrict(peers, DOMAIN peers \ ToSet(as))
    /\ inactive' = inactive \ ToSet(as)
    /\ NotifyEvents([i \in DOMAIN as |-> [type |-> "left", peer |-> as[i]]])

UnregisterPeer(a) == a \in DOMAIN peers /\ Depart(<<a>>)

\* Cleanup: every inactive peer goes, in the order of a Go map.
CleanupPeers == \E as \in SetToSeqs(inactive) : Depart(as)

UpdateHeartbeat(a) ==
    /\ Unlocked
    /\ a \in inactive
    /\ inactive' = inactive \ {a}
    /\ UNCHANGED <<peers, index, events>>

\* Time passes without a heartbeat of a (external).
FallSilent(a) ==
    /\ a \in DOMAIN peers \ inactive
    /\ inactive' = inactive \cup {a}
    /\ UNCHANGED <<peers, index, events, wedged>>

Subscribe(s) ==
    /\ Unlocked
    /\ s \notin DOMAIN events
    /\ events' = Put(events, {s}, <<>>)
    /\ UNCHANGED <<peers, index, inactive>>

\* A subscriber receives; its context ends and its channel is closed.
ReceiveEvent(s) ==
    /\ s \in DOMAIN events
    /\ events[s] # <<>>
    /\ events' = [events EXCEPT ![s] = Tail(@)]
    /\ UNCHANGED <<peers, index, inactive, wedged>>

Unsubscribe(s) ==
    /\ Unlocked
    /\ s \in DOMAIN events
    /\ events' = Restrict(events, DOMAIN events \ {s})
    /\ UNCHANGED <<peers, index, inactive>>

\* GetPeersWithCapabilities calls GetAllPeers with the read lock held when nothing is required:
\* a writer that came in between waits for the first read lock and keeps out the second.
Wedge ==
    /\ ~ wedged
    /\ wedged' = TRUE
    /\ UNCHANGED <<peers, index, inactive, events>>

\* GetPeersWithCapabilities: the infos kept under the first of the capabilities, of those
\* agents the index has under all of them; everyone when none is required.
GetPeersWithCapabilities(required) ==
    IF required = <<>>
    THEN {<<a, peers[a]>> : a \in DOMAIN peers}
    ELSE LET all == {a \in Agents : \A c \in ToSet(required) : <<c, a>> \in DOMAIN index}
         IN  {<<a, index[<<Head(required), a>>]>> : a \in all}

-----------------------------------------------------------------------------
(* A registered peer is found, with what it registered last, by whoever asks   *)
(* for any of its capabilities, in any order, however often it has registered  *)
(* before and whatever the older registrations left in the index.             *)
FoundByCapabilities ==
    \A a \in DOMAIN peers : \A required \in SetToSeqs(peers[a]) : \A n \in 0 .. Len(required) :
        <<a, peers[a]>> \in GetPeersWithCapabilities(SubSeq(required, 1, n))
=============================================================================
