---------------------------- MODULE CodeExecutor ----------------------------
(***************************************************************************)
(* CodeExecutor.Execute (skill/code_executor.go) and the two-level         *)
(* Semaphore it runs under (skill/semaphore.go).                           *)
(*                                                                         *)
(* A semaphore is a buffered channel: a non-blocking send takes a slot, a  *)
(* receive gives it back and would block on an empty channel.  Each send   *)
(* and receive is a step of its own, because other workers run between     *)
(* them.  Python code runs in a process that cmd.Run waits for; JavaScript *)
(* runs in a goroutine that Execute abandons, interrupted, on a timeout.   *)
(***************************************************************************)
EXTENDS Integers, FiniteSets

CONSTANTS
    Workers,         \* goroutines that call Execute
    Tenants,         \* tenant identifiers
    NoTenant,        \* the empty tenant identifier
    NoOne,           \* no tenant: the worker is not executing code
    Languages,       \* the values of lang that callers pass
    GlobalCap,       \* CodeExecutorConfig.MaxConcurrent
    PerTenant,       \* CodeExecutorConfig.PerTenantMax
    MaxAbandoned     \* bound of the model on abandoned goroutines at a time

ASSUME WorkersAssumption == IsFiniteSet(Workers)
ASSUME TenantsAssumption == NoTenant \notin Tenants /\ NoOne \notin Tenants \cup {NoTenant}
ASSUME CapAssumption == GlobalCap \in Nat \ {0} /\ PerTenant \in Nat
ASSUME LanguagesAssumption == Languages \subseteq {"python", "javascript", "other"}
ASSUME AbandonedAssumption == MaxAbandoned \in Nat

VARIABLES
    global,      \* number of elements in the channel s.global
    tenantSem,   \* tenantSem[t]: number of elements in the channel of t
    worker,      \* worker[w]: the state of the goroutine w in Execute
    abandoned    \* JavaScript goroutines left behind by a timeout

executorVars == <<global, tenantSem, worker, abandoned>>

AnyTenant == Tenants \cup {NoTenant}

Limited(t) == PerTenant > 0 /\ t # NoTenant

Worker == [pc     : {"idle", "tenant", "giveback", "run", "relGlobal", "relTenant"},
           tenant : AnyTenant,
           lang   : {"python", "javascript", "other"}]

IdleWorker == [pc |-> "idle", tenant |-> NoTenant, lang |-> "other"]

ExecutorInit == /\ global = 0
                /\ tenantSem = [t \in Tenants |-> 0]
                /\ worker = [w \in Workers |-> IdleWorker]
                /\ abandoned = 0

-----------------------------------------------------------------------------
(* Semaphore.Acquire *)

Enter(w, t, l) ==
    /\ global' = global + 1
    /\ worker' = [worker EXCEPT ![w] = [pc     |-> IF Limited(t) THEN "tenant" ELSE "run",
                                        tenant |-> t,
                                        lang   |-> l]]
    /\ UNCHANGED <<tenantSem, abandoned>>

\* The first select: a global slot.  Without one the caller gets
\* ErrConcurrencyLimit at once and nothing changes.
AcquireGlobal(w, t, l) ==
    /\ worker[w].pc = "idle"
    /\ global < GlobalCap
    /\ Enter(w, t, l)

\* Mutant of AcquireTenant: the per-tenant channel is one slot too large.
AcquireTenantOffByOne(w) ==
    LET t == worker[w].tenant
    IN  /\ worker[w].pc = "tenant"
        /\ IF tenantSem[t] <= PerTenant
           THEN /\ tenantSem' = [tenantSem EXCEPT ![t] = @ + 1]
                /\ worker' = [worker EXCEPT ![w].pc = "run"]
           ELSE /\ worker' = [worker EXCEPT ![w].pc = "giveback"]
                /\ UNCHANGED tenantSem
        /\ UNCHANGED <<global, abandoned>>

\* The second select: a slot of the tenant, or give the global slot back.
AcquireTenant(w) ==
    LET t == worker[w].tenant
    IN  /\ worker[w].pc = "tenant"
        /\ IF tenantSem[t] < PerTenant
           THEN /\ tenantSem' = [tenantSem EXCEPT ![t] = @ + 1]
                /\ worker' = [worker EXCEPT ![w].pc = "run"]
           ELSE /\ worker' = [worker EXCEPT ![w].pc = "giveback"]
                /\ UNCHANGED tenantSem
        /\ UNCHANGED <<global, abandoned>>

\* Mutant of GiveBack: the refused caller keeps its global slot.
GiveBackForgotten(w) ==
    /\ worker[w].pc = "giveback"
    /\ worker' = [worker EXCEPT ![w] = IdleWorker]
    /\ UNCHANGED <<global, tenantSem, abandoned>>

\* Mutant of GiveBack: the refused caller runs Release, which receives from the
\* tenant's channel too.
GiveBackBoth(w) ==
    /\ worker[w].pc = "giveback"
    /\ global > 0
    /\ global' = global - 1
    /\ worker' = [worker EXCEPT ![w].pc = "relTenant"]
    /\ UNCHANGED <<tenantSem, abandoned>>

GiveBack(w) ==
    /\ worker[w].pc = "giveback"
    /\ global > 0
    /\ global' = global - 1
    /\ worker' = [worker EXCEPT ![w] = IdleWorker]
    /\ UNCHANGED <<tenantSem, abandoned>>

-----------------------------------------------------------------------------
(* Execute: run the code, then the deferred Release. *)

\* The code, or the refusal of an unknown language, comes back.  So does a
\* Python timeout: the process is killed and cmd.Run has waited for it.
RunReturns(w) ==
    /\ worker[w].pc = "run"
    /\ worker' = [worker EXCEPT ![w].pc = "relGlobal"]
    /\ UNCHANGED <<global, tenantSem, abandoned>>

\* vm.Interrupt only asks the goroutine to stop; Execute does not wait.
JSTimeout(w) ==
    /\ worker[w].pc = "run"
    /\ worker[w].lang = "javascript"
    /\ abandoned < MaxAbandoned
    /\ abandoned' = abandoned + 1
    /\ worker' = [worker EXCEPT ![w].pc = "relGlobal"]
    /\ UNCHANGED <<global, tenantSem>>

\* The interrupted goroutine ends; its send goes to a channel with room for it.
AbandonedEnds ==
    /\ abandoned > 0
    /\ abandoned' = abandoned - 1
    /\ UNCHANGED <<global, tenantSem, worker>>

-----------------------------------------------------------------------------
(* Semaphore.Release *)

ReleaseGlobal(w) ==
    /\ worker[w].pc = "relGlobal"
    /\ global > 0
    /\ global' = global - 1
    /\ worker' = [worker EXCEPT ![w] = IF Limited(@.tenant)
                                       THEN [@ EXCEPT !.pc = "relTenant"]
                                       ELSE IdleWorker]
    /\ UNCHANGED <<tenantSem, abandoned>>

ReleaseTenant(w) ==
    LET t == worker[w].tenant
    IN  /\ worker[w].pc = "relTenant"
        /\ tenantSem[t] > 0
        /\ tenantSem' = [tenantSem EXCEPT ![t] = @ - 1]
        /\ worker' = [worker EXCEPT ![w] = IdleWorker]
        /\ UNCHANGED <<global, abandoned>>

-----------------------------------------------------------------------------
\* A worker inside Execute.
WorkerStep(w) == \/ AcquireTenant(w)
                 \/ GiveBack(w)
                 \/ RunReturns(w)
                 \/ JSTimeout(w)
                 \/ ReleaseGlobal(w)
                 \/ ReleaseTenant(w)

ExecutorNext == \/ \E w \in Workers :
                     \/ \E t \in AnyTenant, l \in Languages : AcquireGlobal(w, t, l)
                     \/ WorkerStep(w)
                \/ AbandonedEnds

ExecutorSpec == ExecutorInit /\ [][ExecutorNext]_executorVars

(***************************************************************************)
(* Fairness: a goroutine inside Execute is scheduled, and the code it runs *)
(* returns or is stopped by the execution timeout.                         *)
(***************************************************************************)
ExecutorFairness == \A w \in Workers : WF_executorVars(WorkerStep(w))

ExecutorFairSpec == ExecutorSpec /\ ExecutorFairness

-----------------------------------------------------------------------------
HoldsGlobal == {w \in Workers : worker[w].pc \in {"tenant", "giveback", "run", "relGlobal"}}

HoldsTenant(t) == {w \in Workers : /\ worker[w].tenant = t
                                   /\ Limited(t)
                                   /\ worker[w].pc \in {"run", "relGlobal", "relTenant"}}

\* Type invariant: both channels stay within their capacity.
ExecutorTypeOK ==
    /\ global \in 0 .. GlobalCap
    /\ tenantSem \in [Tenants -> 0 .. PerTenant]
    /\ worker \in [Workers -> Worker]
    /\ abandoned \in 0 .. MaxAbandoned

\* Neither level of the semaphore ever leaks or loses a slot: the channels hold
\* as many elements as there are workers between a take and its give-back, on
\* every path through Acquire and Release and between any two of their steps.
\* In particular the two receives of Release and the one of a refused Acquire
\* never find their channel empty, so they never block.
SlotsAccounted ==
    /\ global = Cardinality(HoldsGlobal)
    /\ \A t \in Tenants : tenantSem[t] = Cardinality(HoldsTenant(t))

\* The two channels together implement the limit: refinement mapping and the
\* abstract specification.
Limit == INSTANCE ExecutionLimit WITH
           running <- [w \in Workers |->
                         IF worker[w].pc = "run" THEN worker[w].tenant ELSE NoOne]

\* The code admitted at any time is within both limits, whatever the
\* interleaving of the sends and receives of several workers.
ImplementsLimit == Limit!Spec

\* No call of Execute is stuck in Acquire or in its deferred Release.
ExecuteReturns == \A w \in Workers : worker[w].pc # "idle" ~> worker[w].pc = "idle"
=============================================================================
