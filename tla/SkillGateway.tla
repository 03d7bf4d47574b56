---------------------------- MODULE SkillGateway ----------------------------
(***************************************************************************)
(* The atomic engine of the skill gateway (skillgateway/atomic.go) with its *)
(* provider registry (provider.go) and its circuit breakers.               *)
(*                                                                         *)
(* A call is a goroutine in atomicEngine.execute.  It shares the registry  *)
(* and the breaker of its skill with the other calls; everything else is   *)
(* local.  An action is one access to the shared state together with the   *)
(* local code up to the next one.  A provider is code behind an interface: *)
(* its Execute returns a result, an error or a deadline error, or panics.  *)
(***************************************************************************)
EXTENDS CircuitBreaker, FiniteSets

CONSTANTS
    Skills,             \* skill identifiers
    Providers,          \* SkillProvider instances
    SkillIDs,           \* SkillIDs[p]: the skills provider p manages
    Calls,              \* slots for concurrent calls of execute
    RetrySettings,      \* the values of req.Retry.MaxAttempts
    MaxRetryAttempts,   \* maxRetryAttempts, 10 in the code
    Panicky,            \* the skills whose provider may panic
    None                \* no provider, no skill

ASSUME SkillIDsAssumption == SkillIDs \in [Providers -> SUBSET Skills]
ASSUME RetryAssumption ==
    /\ RetrySettings \subseteq Int
    /\ MaxRetryAttempts \in Nat
ASSUME PanicAssumption == Panicky \subseteq Skills
ASSUME NoneAssumption == None \notin Skills \cup Providers

VARIABLES
    provider,   \* provider[s]: the provider registered for s, or None
    breaker,    \* breaker[s]: the breaker of s
    call,       \* call[c]: the state of the goroutine in slot c
    failed      \* failed[s]: failures recorded since the last success of s;
                \* history, saturating at FailureThreshold

vars == <<provider, breaker, call, failed>>

(***************************************************************************)
(* A call: where it is, its skill, attempts made and allowed, whether its  *)
(* context is done, whether Allow made it a probe ("current" until the     *)
(* half-open period it opened ends, then "stale"), how often it reported   *)
(* to the breaker, what it wrote to the audit log, and what it returned.   *)
(***************************************************************************)
Located == {"allow", "loop", "backoff", "provider"}
Flying  == {"loop", "backoff", "provider"}
Result  == {"none", "not_found", "circuit_open", "cancelled", "success",
            "timeout", "failed", "panic"}

\* No call gets more attempts than the cap, whatever its request asks for.
AttemptLimit == {m \in Int : m <= MaxRetryAttempts + 1}

Call == [pc       : Located \cup {"idle", "done"},
         skill    : Skills \cup {None},
         attempt  : Nat,
         max      : AttemptLimit,
         ctxDone  : BOOLEAN,
         probe    : {"no", "current", "stale"},
         records  : Nat,
         audit    : {"none", "success", "timeout", "failed"},
         result   : Result]

IdleCall == [pc |-> "idle", skill |-> None, attempt |-> 0, max |-> 0,
             ctxDone |-> FALSE, probe |-> "no", records |-> 0,
             audit |-> "none", result |-> "none"]

Init == /\ provider = [s \in Skills |-> None]
        /\ breaker = [s \in Skills |-> NewBreaker]
        /\ call = [c \in Calls |-> IdleCall]
        /\ failed = [s \in Skills |-> 0]

InFlight(c) == call[c].pc \in Flying

-----------------------------------------------------------------------------
\* RegisterProvider: refused as a whole when one of its skills is taken.
CanRegister(p) == \A s \in SkillIDs[p] : provider[s] = None

\* Mutant of Register: the skills that are free are registered although others are
\* taken (the check and the write are made skill by skill).
RegisterFree(p) ==
    /\ SkillIDs[p] # {}
    /\ provider' = [s \in Skills |-> IF s \in SkillIDs[p] /\ provider[s] = None
                                     THEN p ELSE provider[s]]
    /\ UNCHANGED <<breaker, call, failed>>

Register(p) ==
    /\ CanRegister(p)
    /\ provider' = [s \in Skills |-> IF s \in SkillIDs[p] THEN p ELSE provider[s]]
    /\ UNCHANGED <<breaker, call, failed>>

-----------------------------------------------------------------------------
\* maxAttempts := req.Retry.MaxAttempts + 1, capped at maxRetryAttempts + 1.
MaxAttempts(m) == IF m + 1 > MaxRetryAttempts + 1 THEN MaxRetryAttempts + 1 ELSE m + 1

\* The caller enters execute, which first resolves the provider.
Resolve(c, s, m) ==
    /\ call[c].pc = "idle"
    /\ call' = [call EXCEPT ![c] =
                  IF provider[s] = None
                  THEN [IdleCall EXCEPT !.pc = "done", !.skill = s,
                                        !.result = "not_found"]
                  ELSE [IdleCall EXCEPT !.pc = "allow", !.skill = s,
                                        !.max = MaxAttempts(m)]]
    /\ UNCHANGED <<provider, breaker, failed>>

\* e.cb.Allow: refuse, or enter the retry loop.
Allow(c) ==
    LET s == call[c].skill
        b == breaker[s]
    IN  /\ call[c].pc = "allow"
        /\ breaker' = [breaker EXCEPT ![s] = AfterAllow(b)]
        /\ call' = [call EXCEPT ![c] =
                      IF Allowed(b)
                      THEN [@ EXCEPT !.pc = "loop",
                                     !.probe = IF b.state = "closed" THEN "no"
                                               ELSE "current"]
                      ELSE [@ EXCEPT !.pc = "done", !.result = "circuit_open"]]
        /\ UNCHANGED <<provider, failed>>

-----------------------------------------------------------------------------
(***************************************************************************)
(* The end of an admitted call: it reports to the breaker and returns.     *)
(* When the breaker leaves the half-open state the probes still in flight  *)
(* belong to a period that is over.                                        *)
(***************************************************************************)
Retire(s, b, c, r, a) ==
    [d \in Calls |->
       IF d = c
       THEN [call[c] EXCEPT !.pc = "done", !.result = r, !.audit = a,
                            !.records = @ + 1, !.probe = "no"]
       ELSE IF call[d].skill = s /\ call[d].probe = "current" /\ b.state # "half_open"
       THEN [call[d] EXCEPT !.probe = "stale"]
       ELSE call[d]]

FinishFailed(c, r, a) ==
    LET s == call[c].skill
        b == AfterFailure(breaker[s])
    IN  /\ breaker' = [breaker EXCEPT ![s] = b]
        /\ call' = Retire(s, b, c, r, a)
        /\ failed' = [failed EXCEPT ![s] = IF @ < FailureThreshold THEN @ + 1 ELSE @]
        /\ UNCHANGED provider

FinishOK(c) ==
    LET s == call[c].skill
        b == AfterSuccess(breaker[s])
    IN  /\ breaker' = [breaker EXCEPT ![s] = b]
        /\ call' = Retire(s, b, c, "success", "success")
        /\ failed' = [failed EXCEPT ![s] = 0]
        /\ UNCHANGED provider

MoveTo(c, pc) ==
    /\ call' = [call EXCEPT ![c].pc = pc]
    /\ UNCHANGED <<provider, breaker, failed>>

\* The head of the retry loop: all attempts used, the caller's context done,
\* or one more attempt, after a pause when it is not the first.
Exhausted(c) ==
    /\ call[c].pc = "loop"
    /\ call[c].attempt >= call[c].max
    /\ FinishFailed(c, "failed", "failed")

\* Mutant of LoopCancelled: the early return does not report to the breaker.
LoopCancelledSilently(c) ==
    /\ call[c].pc = "loop"
    /\ call[c].attempt < call[c].max
    /\ call[c].ctxDone
    /\ call' = [call EXCEPT ![c].pc = "done", ![c].result = "cancelled"]
    /\ UNCHANGED <<provider, breaker, failed>>

LoopCancelled(c) ==
    /\ call[c].pc = "loop"
    /\ call[c].attempt < call[c].max
    /\ call[c].ctxDone
    /\ FinishFailed(c, "cancelled", "none")

LoopAgain(c) ==
    /\ call[c].pc = "loop"
    /\ call[c].attempt < call[c].max
    /\ ~ call[c].ctxDone
    /\ MoveTo(c, IF call[c].attempt > 0 THEN "backoff" ELSE "provider")

\* select on time.After(delay) and ctx.Done(): either may be taken once the
\* context is done.
BackoffOver(c) ==
    /\ call[c].pc = "backoff"
    /\ MoveTo(c, "provider")

BackoffCancelled(c) ==
    /\ call[c].pc = "backoff"
    /\ call[c].ctxDone
    /\ FinishFailed(c, "cancelled", "none")

\* provider.Execute returns.
ExecuteOK(c) ==
    /\ call[c].pc = "provider"
    /\ FinishOK(c)

ExecuteTimeout(c) ==
    /\ call[c].pc = "provider"
    /\ FinishFailed(c, "timeout", "timeout")

\* Mutant of ExecuteError: every failed attempt reports to the breaker.
ExecuteErrorReports(c) ==
    LET s == call[c].skill
    IN  /\ call[c].pc = "provider"
        /\ call' = [call EXCEPT ![c].pc = "loop", ![c].attempt = @ + 1,
                                ![c].records = @ + 1]
        /\ breaker' = [breaker EXCEPT ![s] = AfterFailure(@)]
        /\ UNCHANGED <<provider, failed>>

\* Mutant of ExecuteError: the attempt is not counted.
ExecuteErrorUncounted(c) ==
    /\ call[c].pc = "provider"
    /\ call' = [call EXCEPT ![c].pc = "loop"]
    /\ UNCHANGED <<provider, breaker, failed>>

ExecuteError(c) ==
    /\ call[c].pc = "provider"
    /\ call' = [call EXCEPT ![c].pc = "loop", ![c].attempt = @ + 1]
    /\ UNCHANGED <<provider, breaker, failed>>

\* Nothing on the way up from provider.Execute recovers inside execute: the
\* breaker hears nothing of this call.
ExecutePanic(c) ==
    /\ call[c].pc = "provider"
    /\ call[c].skill \in Panicky
    /\ call' = [call EXCEPT ![c].pc = "done", ![c].result = "panic",
                            ![c].probe = "no"]
    /\ UNCHANGED <<provider, breaker, failed>>

-----------------------------------------------------------------------------
\* The environment: the caller's context ends, the caller takes the response,
\* time passes.
CancelContext(c) ==
    /\ call[c].pc \in Located
    /\ ~ call[c].ctxDone
    /\ call' = [call EXCEPT ![c].ctxDone = TRUE]
    /\ UNCHANGED <<provider, breaker, failed>>

Return(c) ==
    /\ call[c].pc = "done"
    /\ call' = [call EXCEPT ![c] = IdleCall]
    /\ UNCHANGED <<provider, breaker, failed>>

Tick ==
    /\ \E s \in Skills : breaker[s].elapsed < RecoveryTimeout
    /\ breaker' = [s \in Skills |-> AfterTick(breaker[s])]
    /\ UNCHANGED <<provider, call, failed>>

\* What the goroutine of an admitted call does next.
Step(c) ==
    \/ Exhausted(c)
    \/ LoopCancelled(c)
    \/ LoopAgain(c)
    \/ BackoffOver(c)
    \/ BackoffCancelled(c)
    \/ ExecuteOK(c)
    \/ ExecuteTimeout(c)
    \/ ExecuteError(c)
    \/ ExecutePanic(c)

Next ==
    \/ \E p \in Providers : Register(p)
    \/ \E c \in Calls :
         \/ \E s \in Skills, m \in RetrySettings : Resolve(c, s, m)
         \/ Allow(c)
         \/ Step(c)
         \/ CancelContext(c)
         \/ Return(c)
    \/ Tick

(***************************************************************************)
(* Fairness: a runnable goroutine is eventually scheduled, a timer fires,   *)
(* time passes, a caller takes its response, and provider.Execute, which    *)
(* is given a context with a deadline, returns.  Nothing is assumed of new  *)
(* calls, of providers being registered, or of what a provider returns.    *)
(***************************************************************************)
Fairness ==
    /\ \A c \in Calls : /\ WF_vars(Allow(c))
                        /\ WF_vars(Step(c))
                        /\ WF_vars(Return(c))
    /\ WF_vars(Tick)

Spec == Init /\ [][Next]_vars

FairSpec == Spec /\ Fairness

-----------------------------------------------------------------------------
\* Type invariant of the gateway's state; the attempts of a call are capped.
TypeOK ==
    /\ provider \in [Skills -> Providers \cup {None}]
    /\ breaker \in [Skills -> Breaker]
    /\ call \in [Calls -> Call]
    /\ failed \in [Skills -> 0 .. FailureThreshold]

\* The breaker is closed exactly while fewer than FailureThreshold calls have
\* failed since the last success: neither retries inside a call nor results
\* that arrive while it is open or half-open make it trip early or late.
TripsAtThreshold ==
    \A s \in Skills :
        breaker[s].state = "closed" <=> failed[s] < FailureThreshold

\* A half-open period admits one call: of the calls in flight for a skill at
\* most one is the probe of the period now running, and there is none once
\* that period is over.
OneProbePerPeriod ==
    \A s \in Skills :
        LET probes == {c \in Calls : call[c].skill = s /\ call[c].probe = "current"}
        IN  /\ \A c, d \in probes : c = d
            /\ breaker[s].state # "half_open" => probes = {}

\* A half-open breaker waits for a call that will report: the probe it let
\* through is still in flight, so half-open refusals cannot last for ever.
\* Panics of other providers do not matter; one of its own wedges the skill,
\* see ExecutePanic.
HalfOpenHasProbe ==
    \A s \in Skills \ Panicky :
        breaker[s].state = "half_open" =>
            /\ breaker[s].probing
            /\ \E c \in Calls : /\ InFlight(c)
                                /\ call[c].skill = s
                                /\ call[c].probe = "current"

\* Each admitted call reports to its breaker exactly once, whichever of the
\* return statements of execute it leaves by, and a refused call never does.
ReportsOnce ==
    \A c \in Calls :
        call[c].records =
            IF call[c].result \in {"cancelled", "success", "timeout", "failed"}
            THEN 1 ELSE 0

\* A provider is registered with all its skills or with none: a skill never changes
\* hands, and one that gets a provider gets it in the same step as all other skills of that
\* provider, so that a call never finds half of a provider (ProviderRegistry.Register).
ProviderIsStable ==
    [][\A s \in Skills :
         provider'[s] # provider[s] =>
             /\ provider[s] = None
             /\ \A t \in SkillIDs[provider'[s]] : provider'[t] = provider'[s]]_vars

\* An open breaker admits nobody before RecoveryTimeout has passed since it
\* tripped; the one way out before that is the success of a call it admitted
\* earlier and that was still in flight when it tripped.
EarlyExit ==
    [][\A s \in Skills :
         (breaker[s].state = "open" /\ breaker[s].elapsed < RecoveryTimeout) =>
             /\ breaker'[s].state # "half_open"
             /\ breaker'[s].state = "closed" =>
                  \E c \in Calls : /\ call[c].skill = s
                                   /\ InFlight(c)
                                   /\ call[c].probe # "current"
                                   /\ call'[c].result = "success"]_vars

\* A half-open period ends, unless a provider's panic has swallowed the probe:
\* the probe comes back, or a late result of an older call decides first.
ProbeResolves ==
    \A s \in Skills \ Panicky :
        breaker[s].state = "half_open" ~> breaker[s].state # "half_open"

\* Every call of execute returns.
CallReturns == \A c \in Calls : call[c].pc \in Located ~> call[c].pc = "done"
=============================================================================
