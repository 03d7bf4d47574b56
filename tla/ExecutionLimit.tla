--------------------------- MODULE ExecutionLimit ---------------------------
(***************************************************************************)
(* What skill/semaphore.go promises the code executor: at most GlobalCap   *)
(* executions at a time, and at most PerTenant of one tenant when          *)
(* per-tenant limiting is on.  An execution is one admission, whichever    *)
(* way the limit is enforced.                                              *)
(***************************************************************************)
EXTENDS Integers, FiniteSets

CONSTANTS
    Workers,     \* goroutines that call CodeExecutor.Execute
    Tenants,     \* tenant identifiers
    NoTenant,    \* the empty tenant identifier
    NoOne,       \* the worker executes nothing
    GlobalCap,   \* capacity of the global semaphore
    PerTenant    \* per-tenant sub-limit; 0 disables it

VARIABLE running     \* running[w]: the tenant w executes code for, or NoOne

Running      == {w \in Workers : running[w] # NoOne}
RunningOf(t) == {w \in Workers : running[w] = t}

\* The empty tenant identifier, and a sub-limit of 0, are not limited.
Limited(t) == PerTenant > 0 /\ t # NoTenant

Init == running = [w \in Workers |-> NoOne]

Start(w, t) ==
    /\ running[w] = NoOne
    /\ Cardinality(Running) < GlobalCap
    /\ Limited(t) => Cardinality(RunningOf(t)) < PerTenant
    /\ running' = [running EXCEPT ![w] = t]

Finish(w) ==
    /\ running[w] # NoOne
    /\ running' = [running EXCEPT ![w] = NoOne]

Next == \E w \in Workers : Finish(w) \/ \E t \in Tenants \cup {NoTenant} : Start(w, t)

Spec == Init /\ [][Next]_running
=============================================================================
