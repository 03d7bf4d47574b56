---------------------------- MODULE Negotiation ----------------------------
(***************************************************************************)
(* NegotiationService (internal/agent/a2a/negotiation.go): offers of tasks    *)
(* that are answered, cancelled, or dropped by a timer, and a clean-up of old  *)
(* ones.  Every operation runs under the service's lock, so each is one step.  *)
(***************************************************************************)
EXTENDS Naturals, FiniteSets

CONSTANTS
    Offers    \* supply of negotiations, each with a fresh id

VARIABLES
    negotiations,   \* the ids the map holds
    state,          \* state[n]: State of the negotiation
    response,       \* response[n]: the answer that was stored, or "none"
    timers,         \* negotiations whose timer is armed
    old,            \* negotiations created longer than an hour ago
    stats           \* TotalProposed, TotalAccepted, TotalRejected

negotiationVars == <<negotiations, state, response, timers, old, stats>>

Answers == {"accepted", "rejected"}
Final   == Answers \cup {"cancelled"}

NegotiationInit == /\ negotiations = {}
                   /\ state = [n \in Offers |-> "unknown"]
                   /\ response = [n \in Offers |-> "none"]
                   /\ timers = {}
                   /\ old = {}
                   /\ stats = [proposed |-> 0, accepted |-> 0, rejected |-> 0]

ProposeTask(n) ==
    /\ state[n] = "unknown"
    /\ state' = [state EXCEPT ![n] = "pending"]
    /\ negotiations' = negotiations \cup {n}
    /\ timers' = timers \cup {n}
    /\ stats' = [stats EXCEPT !.proposed = @ + 1]
    /\ UNCHANGED <<response, old>>

\* Mutant of TimerFires: the timer does not look at the state.
TimerFiresAnyway(n) ==
    /\ n \in timers
    /\ timers' = timers \ {n}
    /\ state' = [state EXCEPT ![n] = "cancelled"]
    /\ negotiations' = negotiations \ {n}
    /\ UNCHANGED <<response, old, stats>>

TimerFires(n) ==
    /\ n \in timers
    /\ timers' = timers \ {n}
    /\ LET expired == n \in negotiations /\ state[n] = "pending"
       IN  /\ state' = IF expired THEN [state EXCEPT ![n] = "cancelled"] ELSE state
           /\ negotiations' = IF expired THEN negotiations \ {n} ELSE negotiations
    /\ UNCHANGED <<response, old, stats>>

\* An answer to a negotiation that is gone or no longer pending is an error and changes nothing.
RespondToOffer(n, answer) ==
    /\ n \in negotiations
    /\ state[n] = "pending"
    /\ response' = [response EXCEPT ![n] = answer]
    /\ state' = [state EXCEPT ![n] = answer]
    /\ stats' = [stats EXCEPT ![answer] = @ + 1]
    /\ UNCHANGED <<negotiations, timers, old>>

\* Whatever the state, an answered one too.
CancelNegotiation(n) ==
    /\ n \in negotiations
    /\ state' = [state EXCEPT ![n] = "cancelled"]
    /\ UNCHANGED <<negotiations, response, timers, old, stats>>

\* An hour passes (external).
Age(n) ==
    /\ n \in negotiations \ old
    /\ old' = old \cup {n}
    /\ UNCHANGED <<negotiations, state, response, timers, stats>>

CleanupNegotiations ==
    /\ negotiations' = {n \in negotiations : ~ (n \in old /\ state[n] \in Final)}
    /\ UNCHANGED <<state, response, timers, old, stats>>

-----------------------------------------------------------------------------
(* An answer stands: it is counted once, and the negotiation that carries it     *)
(* can be looked up for an hour at least, whatever its timer, a cancellation or   *)
(* a clean-up does; and an offer its timer withdrew has no answer.               *)
AnswersStand ==
    /\ \A a \in Answers : stats[a] = Cardinality({n \in Offers : response[n] = a})
    /\ \A n \in Offers : response[n] # "none" => n \in negotiations \cup old
=============================================================================
