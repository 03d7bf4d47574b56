------------------------------ MODULE Harness ------------------------------
(***************************************************************************)
(* The component lifecycle of internal/harness/harness.go.                 *)
(*                                                                         *)
(* Register, Start and Stop hold h.mu for their whole duration, so at most *)
(* one is under way; Start and Stop call the components one by one, and    *)
(* each such call is a step.  A Go map is ranged over in an order that is  *)
(* chosen anew for every loop: the loops of Start, of the rollback and of  *)
(* getRegistrationOrder each pick any component not visited yet.  Who calls  *)
(* the operations, and when, is left to the module Server.                 *)
(***************************************************************************)
EXTENDS Integers, Sequences, SequencesExt

CONSTANTS
    Components,   \* component names
    NoName        \* no component

ASSUME NoNameAssumption == NoName \notin Components

VARIABLES
    registered,   \* names in the order they were registered
    started,      \* h.started
    op,           \* the operation that holds h.mu
    todo,         \* components the current loop has yet to visit
    culprit,      \* the component whose Start failed, during a rollback
    order,        \* what getRegistrationOrder returned, still to be stopped
    on,           \* on[c]: c was started and not stopped since
    startFailed,  \* history: the last Start returned an error
    stopFailed    \* history: some component has returned an error from Stop

vars == <<registered, started, op, todo, culprit, order, on, startFailed, stopFailed>>

components == Range(registered)

Init == /\ registered = <<>>
        /\ started = FALSE
        /\ op = "none"
        /\ todo = {}
        /\ culprit = NoName
        /\ order = <<>>
        /\ on = [c \in Components |-> FALSE]
        /\ startFailed = FALSE
        /\ stopFailed = FALSE

-----------------------------------------------------------------------------
\* Register: refused once started and for a name that is taken.
Register(c) ==
    /\ op = "none"
    /\ ~ started
    /\ c \notin components
    /\ registered' = Append(registered, c)
    /\ UNCHANGED <<started, op, todo, culprit, order, on, startFailed, stopFailed>>

\* Start: refused when started, else range over the map.
StartBegin ==
    /\ op = "none"
    /\ ~ started
    /\ op' = "start"
    /\ todo' = components
    /\ startFailed' = FALSE
    /\ UNCHANGED <<registered, started, culprit, order, on, stopFailed>>

StartComponent(c) ==
    /\ op = "start"
    /\ c \in todo
    /\ todo' = todo \ {c}
    /\ on' = [on EXCEPT ![c] = TRUE]
    /\ UNCHANGED <<registered, started, op, culprit, order, startFailed, stopFailed>>

\* Mutant of StartFails: the error is logged and the loop goes on.
StartFailsIgnored(c) ==
    /\ op = "start"
    /\ c \in todo
    /\ todo' = todo \ {c}
    /\ UNCHANGED <<registered, started, op, culprit, order, on, startFailed, stopFailed>>

\* comp.Start returns an error: stopStartedComponents ranges over the map again.
StartFails(c) ==
    /\ op = "start"
    /\ c \in todo
    /\ op' = "rollback"
    /\ todo' = components
    /\ culprit' = c
    /\ startFailed' = TRUE
    /\ UNCHANGED <<registered, started, order, on, stopFailed>>

StartDone ==
    /\ op = "start"
    /\ todo = {}
    /\ op' = "none"
    /\ started' = TRUE
    /\ UNCHANGED <<registered, todo, culprit, order, on, startFailed, stopFailed>>

\* The rollback stops whatever comes before the culprit in its own order.
RollbackStop(c, ok) ==
    /\ op = "rollback"
    /\ c \in todo \ {culprit}
    /\ todo' = todo \ {c}
    /\ on' = IF ok THEN [on EXCEPT ![c] = FALSE] ELSE on
    /\ stopFailed' = (stopFailed \/ ~ ok)
    /\ UNCHANGED <<registered, started, op, culprit, order, startFailed>>

RollbackBreak ==
    /\ op = "rollback"
    /\ op' = "none"
    /\ todo' = {}
    /\ culprit' = NoName
    /\ UNCHANGED <<registered, started, order, on, startFailed, stopFailed>>

\* Mutant of StopBegin: the loop ends before index 0.
StopBeginSkipsFirst ==
    /\ op = "none"
    /\ started
    /\ op' = "stop"
    /\ order' \in {IF s = <<>> THEN s ELSE Tail(s) : s \in SetToSeqs(components)}
    /\ UNCHANGED <<registered, started, todo, culprit, on, startFailed, stopFailed>>

\* Stop: a no-op unless started.  The names come from the map.
StopBegin ==
    /\ op = "none"
    /\ started
    /\ op' = "stop"
    /\ order' \in SetToSeqs(components)
    /\ UNCHANGED <<registered, started, todo, culprit, on, startFailed, stopFailed>>

\* Components are stopped from the end of the list; an error is logged only.
StopComponent(ok) ==
    /\ op = "stop"
    /\ order # <<>>
    /\ order' = Front(order)
    /\ on' = IF ok THEN [on EXCEPT ![Last(order)] = FALSE] ELSE on
    /\ stopFailed' = (stopFailed \/ ~ ok)
    /\ UNCHANGED <<registered, started, op, todo, culprit, startFailed>>

StopDone ==
    /\ op = "stop"
    /\ order = <<>>
    /\ op' = "none"
    /\ started' = FALSE
    /\ UNCHANGED <<registered, todo, culprit, order, on, startFailed, stopFailed>>

-----------------------------------------------------------------------------
\* Type invariant of the harness.
TypeOK ==
    /\ registered \in Seq(Components)
    /\ IsInjective(registered)
    /\ started \in BOOLEAN
    /\ op \in {"none", "start", "rollback", "stop"}
    /\ todo \subseteq Components
    /\ culprit \in Components \cup {NoName}
    /\ order \in Seq(Components)
    /\ on \in [Components -> BOOLEAN]
    /\ startFailed \in BOOLEAN
    /\ stopFailed \in BOOLEAN

\* A started harness that is not being stopped has every component on: nothing
\* can be registered behind a running harness, and a failed Start never leaves
\* h.started set.
StartedMeansAllOn ==
    (started /\ op # "stop") => \A c \in components : on[c]

\* As long as no component fails to start or to stop, a harness that is not
\* started has nothing on: Start, Stop and Register in any order leave no
\* component running behind.
CleanWhenNothingFails ==
    (~ started /\ op = "none" /\ ~ startFailed /\ ~ stopFailed)
        => \A c \in Components : ~ on[c]
=============================================================================
