---------------------------- MODULE SkillProofs ----------------------------
(***************************************************************************)
(* Proofs about the execution of skills: about the atomic engine and its    *)
(* circuit breakers (module SkillGateway), for any sets of skills, providers *)
(* and concurrent calls, any threshold and any timeout; and about the       *)
(* executor of code skills (module CodeExecutor), for any number of         *)
(* goroutines, tenants and slots: the accounts of the two levels of the     *)
(* semaphore, and that they implement the limit of module ExecutionLimit.   *)
(***************************************************************************)
EXTENDS SkillGateway, CodeExecutor, FiniteSetTheorems, TLAPS

-----------------------------------------------------------------------------
(* What the methods of CircuitBreakerManager do to one breaker. *)

\* Allow moves a breaker only to half-open, and then claims the probe slot.
LEMMA AllowEffect ==
  ASSUME NEW b \in Breaker
  PROVE  /\ AfterAllow(b) \in Breaker
         /\ AfterAllow(b).failures = b.failures
         /\ Allowed(b) /\ b.state # "closed" =>
              AfterAllow(b).state = "half_open" /\ AfterAllow(b).probing
         /\ ~ (Allowed(b) /\ b.state # "closed") => AfterAllow(b) = b
  BY DEF AfterAllow, Breaker, CBState

\* RecordSuccess closes the breaker.
LEMMA SuccessEffect ==
  ASSUME NEW b \in Breaker
  PROVE  /\ AfterSuccess(b) \in Breaker
         /\ AfterSuccess(b).state = "closed"
         /\ AfterSuccess(b).failures = 0
  BY DEF AfterSuccess, Breaker, CBState

\* RecordFailure never leaves a breaker half-open, and trips a closed one at
\* the threshold.
LEMMA FailureEffect ==
  ASSUME NEW b \in Breaker
  PROVE  /\ AfterFailure(b) \in Breaker
         /\ b.state = "closed" =>
              /\ AfterFailure(b).failures = b.failures + 1
              /\ AfterFailure(b).state =
                   IF b.failures + 1 >= FailureThreshold THEN "open" ELSE "closed"
         /\ b.state # "closed" => AfterFailure(b).state = "open"
<1>1. \A d \in Breaker : /\ Trip(d) \in Breaker
                         /\ Trip(d).state = "open"
                         /\ Trip(d).failures = d.failures
  <2>1. 0 \in 0 .. RecoveryTimeout
    BY TimeoutAssumption
  <2> QED BY <2>1 DEF Trip, Breaker, CBState
<1>2. CASE b.state = "closed"
  <2>1. b.failures + 1 \in Nat
    BY DEF Breaker
  <2>2. CountFailure(b) \in Breaker
    BY <2>1 DEF CountFailure, Breaker, CBState
  <2>3. CountFailure(b).failures = b.failures + 1 /\ CountFailure(b).state = "closed"
    BY <1>2 DEF CountFailure, Breaker
  <2>4. CASE b.failures + 1 >= FailureThreshold
    <3>1. AfterFailure(b) = Trip(CountFailure(b))
      BY <1>2, <2>4 DEF AfterFailure
    <3> QED BY <1>1, <1>2, <2>2, <2>3, <2>4, <3>1
  <2>5. CASE ~ (b.failures + 1 >= FailureThreshold)
    <3>1. AfterFailure(b) = CountFailure(b)
      BY <1>2, <2>5 DEF AfterFailure
    <3> QED BY <1>2, <2>2, <2>3, <2>5, <3>1
  <2> QED BY <2>4, <2>5
<1>3. CASE b.state = "half_open"
  <2>1. AfterFailure(b) = Trip(b)
    BY <1>3 DEF AfterFailure
  <2> QED BY <1>1, <1>3, <2>1
<1>4. CASE b.state = "open"
  <2>1. AfterFailure(b) = [b EXCEPT !.probing = FALSE]
    BY <1>4 DEF AfterFailure
  <2> QED BY <1>4, <2>1 DEF Breaker, CBState
<1> QED
  BY <1>2, <1>3, <1>4 DEF Breaker, CBState

\* The clock changes nothing but the time since the last failure.
LEMMA TickEffect ==
  ASSUME NEW b \in Breaker
  PROVE  /\ AfterTick(b) \in Breaker
         /\ AfterTick(b).state = b.state
         /\ AfterTick(b).failures = b.failures
         /\ AfterTick(b).probing = b.probing
  BY TimeoutAssumption DEF AfterTick, Breaker

-----------------------------------------------------------------------------
(***************************************************************************)
(* The inductive invariant.  CallShape ties the fields of a call to where   *)
(* it is; FailuresCounted ties the breaker's own count to the history;      *)
(* ProbeClaimed says that a half-open breaker always has its slot claimed,  *)
(* which is what keeps a second call out.                                  *)
(***************************************************************************)
CallShape ==
    \A c \in Calls :
        /\ call[c].pc \in Located => call[c].skill \in Skills
        /\ call[c].pc # "done" => call[c].result = "none" /\ call[c].records = 0
        /\ call[c].pc \notin Flying => call[c].probe = "no"

FailuresCounted ==
    \A s \in Skills :
        /\ breaker[s].state = "closed" => /\ breaker[s].failures = failed[s]
                                          /\ failed[s] < FailureThreshold
        /\ breaker[s].state # "closed" => failed[s] = FailureThreshold

ProbeClaimed ==
    \A s \in Skills : breaker[s].state = "half_open" => breaker[s].probing

Inv == /\ TypeOK
       /\ CallShape
       /\ FailuresCounted
       /\ ProbeClaimed
       /\ OneProbePerPeriod
       /\ ReportsOnce

-----------------------------------------------------------------------------
\* The invariant holds when the engine is built.
LEMMA InitInv == Init => Inv
<1> SUFFICES ASSUME Init PROVE Inv
  OBVIOUS
<1> USE ThresholdAssumption, TimeoutAssumption, RetryAssumption DEF Init
<1>1. NewBreaker \in Breaker
  BY DEF NewBreaker, Breaker, CBState
<1>2. IdleCall \in Call
  BY DEF IdleCall, Call, Located, Result, AttemptLimit
<1>3. TypeOK
  BY <1>1, <1>2 DEF TypeOK
<1>4. CallShape
  BY DEF CallShape, IdleCall, Located, Flying
<1>5. FailuresCounted /\ ProbeClaimed
  BY DEF FailuresCounted, ProbeClaimed, NewBreaker
<1>6. OneProbePerPeriod /\ ReportsOnce
  BY DEF OneProbePerPeriod, ReportsOnce, IdleCall
<1> QED
  BY <1>3, <1>4, <1>5, <1>6 DEF Inv

\* A step that changes one call only, within its shape and without touching a
\* breaker or a probe, keeps the invariant.
LEMMA LocalStep ==
  ASSUME Inv, NEW c \in Calls, NEW d \in Call,
         call' = [call EXCEPT ![c] = d],
         UNCHANGED <<breaker, failed>>,
         provider' \in [Skills -> Providers \cup {None}],
         d.pc \in Located => d.skill \in Skills,
         d.pc # "done" => d.result = "none" /\ d.records = 0,
         d.pc \notin Flying => d.probe = "no",
         d.probe = "current" => call[c].probe = "current" /\ d.skill = call[c].skill,
         d.records = IF d.result \in {"cancelled", "success", "timeout", "failed"} THEN 1 ELSE 0
  PROVE  Inv'
<1> USE DEF Inv
<1>1. TypeOK'
  BY DEF TypeOK
<1>2. CallShape'
  BY DEF CallShape, TypeOK
<1>3. FailuresCounted' /\ ProbeClaimed'
  BY DEF FailuresCounted, ProbeClaimed
<1>4. OneProbePerPeriod'
  BY DEF OneProbePerPeriod, TypeOK
<1>5. ReportsOnce'
  BY DEF ReportsOnce, TypeOK
<1> QED
  BY <1>1, <1>2, <1>3, <1>4, <1>5

\* The report of an admitted call: the breaker leaves the half-open state, so
\* that no probe is current any more, and counts as the history does.
LEMMA ReportStep ==
  ASSUME Inv, NEW c \in Calls, NEW b \in Breaker, NEW n \in 0 .. FailureThreshold,
         NEW r \in {"cancelled", "success", "timeout", "failed"},
         NEW a \in {"none", "success", "timeout", "failed"},
         call[c].pc \in Flying,
         b.state # "half_open",
         b.state = "closed" => b.failures = n /\ n < FailureThreshold,
         b.state # "closed" => n = FailureThreshold,
         breaker' = [breaker EXCEPT ![call[c].skill] = b],
         failed' = [failed EXCEPT ![call[c].skill] = n],
         call' = Retire(call[c].skill, b, c, r, a),
         UNCHANGED provider
  PROVE  Inv'
<1> USE DEF Inv
<1> DEFINE s == call[c].skill
<1>1. s \in Skills /\ call[c].records = 0
  BY DEF CallShape, Flying, Located
<1>2. \A d \in Calls : call[d] \in Call
  BY DEF TypeOK
<1>3. \A d \in Calls : /\ call'[d].pc = IF d = c THEN "done" ELSE call[d].pc
                       /\ call'[d].skill = call[d].skill
                       /\ call'[d].result = IF d = c THEN r ELSE call[d].result
                       /\ call'[d].records = IF d = c THEN 1 ELSE call[d].records
                       /\ call'[d].probe # call[d].probe => call'[d].probe \in {"no", "stale"}
                       /\ d = c => call'[d].probe = "no"
                       /\ call[d].probe = "no" => call'[d].probe = "no"
                       /\ call[d].skill = s => call'[d].probe # "current"
  BY <1>1, <1>2 DEF Retire, Call
<1>4. TypeOK'
  <2>1. call' \in [Calls -> Call]
    <3>1. ASSUME NEW d \in Calls PROVE call'[d] \in Call
      <4>1. CASE d = c
        <5>1. call'[d] = [call[c] EXCEPT !.pc = "done", !.result = r, !.audit = a,
                                         !.records = 1, !.probe = "no"]
          BY <4>1, <1>1 DEF Retire
        <5>2. /\ call[c] \in Call
              /\ "done" \in Located \cup {"idle", "done"}
              /\ r \in Result
              /\ 1 \in Nat
          BY <1>2 DEF Result
        <5> QED BY <5>1, <5>2, Zenon DEF Call
      <4>2. CASE d # c /\ call'[d] = [call[d] EXCEPT !.probe = "stale"]
        BY <4>2, <1>2 DEF Call
      <4>3. CASE d # c /\ call'[d] = call[d]
        BY <4>3, <1>2
      <4> QED BY <4>1, <4>2, <4>3 DEF Retire
    <3> QED BY <3>1 DEF Retire
  <2> QED BY <1>1, <2>1 DEF TypeOK
<1>5. CallShape'
  BY <1>3 DEF CallShape, Located, Flying
<1>6. FailuresCounted' /\ ProbeClaimed'
  BY <1>1 DEF FailuresCounted, ProbeClaimed, TypeOK
<1>7. OneProbePerPeriod'
  <2> SUFFICES ASSUME NEW t \in Skills
               PROVE  LET probes == {d \in Calls : call'[d].skill = t /\ call'[d].probe = "current"}
                      IN  /\ \A d, e \in probes : d = e
                          /\ breaker'[t].state # "half_open" => probes = {}
    BY DEF OneProbePerPeriod
  <2>1. CASE t = s
    BY <1>3, <2>1
  <2>2. CASE t # s
    <3>1. breaker'[t] = breaker[t]
      BY <2>2, <1>1 DEF TypeOK
    <3>2. \A d \in Calls : call'[d].skill = t /\ call'[d].probe = "current" =>
                           call[d].skill = t /\ call[d].probe = "current"
      BY <1>3
    <3> QED BY <3>1, <3>2 DEF OneProbePerPeriod
  <2> QED BY <2>1, <2>2
<1>8. ReportsOnce'
  BY <1>3 DEF ReportsOnce
<1> QED
  BY <1>4, <1>5, <1>6, <1>7, <1>8

\* A call that fails reports once.
LEMMA FinishFailedStep ==
  ASSUME Inv, NEW c \in Calls, call[c].pc \in Flying,
         NEW r \in {"cancelled", "timeout", "failed"},
         NEW a \in {"none", "timeout", "failed"},
         FinishFailed(c, r, a)
  PROVE  Inv'
<1> DEFINE s == call[c].skill
           b == AfterFailure(breaker[s])
           n == IF failed[s] < FailureThreshold THEN failed[s] + 1 ELSE failed[s]
<1>1. s \in Skills
  BY DEF Inv, CallShape, Flying, Located
<1>2. breaker[s] \in Breaker /\ failed[s] \in 0 .. FailureThreshold
  BY <1>1 DEF Inv, TypeOK
<1>3. b \in Breaker /\ n \in 0 .. FailureThreshold
  BY <1>2, FailureEffect, ThresholdAssumption
<1>4. /\ b.state # "half_open"
      /\ b.state = "closed" => b.failures = n /\ n < FailureThreshold
      /\ b.state # "closed" => n = FailureThreshold
  <2>1. CASE breaker[s].state = "closed"
    <3>1. breaker[s].failures = failed[s] /\ failed[s] < FailureThreshold
      BY <2>1, <1>1 DEF Inv, FailuresCounted
    <3> QED BY <1>2, <2>1, <3>1, FailureEffect, ThresholdAssumption
  <2>2. CASE breaker[s].state # "closed"
    <3>1. failed[s] = FailureThreshold
      BY <2>2, <1>1 DEF Inv, FailuresCounted
    <3> QED BY <1>2, <2>2, <3>1, FailureEffect, ThresholdAssumption
  <2> QED BY <2>1, <2>2
<1>5. /\ breaker' = [breaker EXCEPT ![s] = b]
      /\ failed' = [failed EXCEPT ![s] = n]
      /\ call' = Retire(s, b, c, r, a)
      /\ UNCHANGED provider
  BY <1>1 DEF FinishFailed, Inv, TypeOK
<1> HIDE DEF b, n
<1> QED
  BY <1>3, <1>4, <1>5, ReportStep

\* A call that succeeds reports once.
LEMMA FinishOKStep ==
  ASSUME Inv, NEW c \in Calls, call[c].pc \in Flying, FinishOK(c)
  PROVE  Inv'
<1> DEFINE s == call[c].skill
           b == AfterSuccess(breaker[s])
<1>1. s \in Skills
  BY DEF Inv, CallShape, Flying, Located
<1>2. breaker[s] \in Breaker
  BY <1>1 DEF Inv, TypeOK
<1>3. b \in Breaker /\ b.state = "closed" /\ b.failures = 0
  BY <1>2, SuccessEffect
<1>4. 0 \in 0 .. FailureThreshold /\ 0 < FailureThreshold
  BY ThresholdAssumption
<1>5. /\ breaker' = [breaker EXCEPT ![s] = b]
      /\ failed' = [failed EXCEPT ![s] = 0]
      /\ call' = Retire(s, b, c, "success", "success")
      /\ UNCHANGED provider
  BY DEF FinishOK
<1> HIDE DEF b
<1> QED
  BY <1>3, <1>4, <1>5, ReportStep

\* A breaker's verdict: the call is refused, or admitted; the first one admitted
\* by an open breaker, or by a half-open one without a probe, is the probe.
LEMMA AllowStep ==
  ASSUME Inv, NEW c \in Calls, Allow(c)
  PROVE  Inv'
<1> DEFINE s == call[c].skill
           b == breaker[s]
<1>1. /\ s \in Skills
      /\ call[c].result = "none" /\ call[c].records = 0 /\ call[c].probe = "no"
  BY DEF Allow, Inv, CallShape, Located, Flying
<1>2. b \in Breaker /\ call[c] \in Call
  BY <1>1 DEF Inv, TypeOK
<1>3. CASE ~ Allowed(b)
  <2> DEFINE d == [call[c] EXCEPT !.pc = "done", !.result = "circuit_open"]
  <2>1. AfterAllow(b) = b
    BY <1>2, <1>3, AllowEffect
  <2>2. call' = [call EXCEPT ![c] = d] /\ UNCHANGED <<breaker, failed, provider>>
    BY <1>1, <1>3, <2>1 DEF Allow, Inv, TypeOK
  <2>3. d \in Call
    BY <1>2, Zenon DEF Call, Result
  <2>4. /\ d.pc = "done" /\ d.result = "circuit_open" /\ d.records = 0
        /\ d.probe = "no" /\ d.skill = s
    BY <1>1, <1>2 DEF Call
  <2>5. provider' \in [Skills -> Providers \cup {None}]
    BY <2>2 DEF Inv, TypeOK
  <2> HIDE DEF d
  <2> QED BY <1>1, <2>2, <2>3, <2>4, <2>5, LocalStep DEF Located, Flying
<1>4. CASE Allowed(b) /\ b.state = "closed"
  <2> DEFINE d == [call[c] EXCEPT !.pc = "loop", !.probe = "no"]
  <2>1. AfterAllow(b) = b
    BY <1>2, <1>4, AllowEffect
  <2>2. call' = [call EXCEPT ![c] = d] /\ UNCHANGED <<breaker, failed, provider>>
    BY <1>1, <1>4, <2>1 DEF Allow, Inv, TypeOK
  <2>3. d \in Call
    BY <1>2, Zenon DEF Call, Located
  <2>4. /\ d.pc = "loop" /\ d.result = "none" /\ d.records = 0
        /\ d.probe = "no" /\ d.skill = s
    BY <1>1, <1>2 DEF Call
  <2>5. provider' \in [Skills -> Providers \cup {None}]
    BY <2>2 DEF Inv, TypeOK
  <2> HIDE DEF d
  <2> QED BY <1>1, <2>2, <2>3, <2>4, <2>5, LocalStep DEF Located, Flying
<1>5. CASE Allowed(b) /\ b.state # "closed"
  <2> DEFINE d == [call[c] EXCEPT !.pc = "loop", !.probe = "current"]
             n == AfterAllow(b)
  <2>1. n \in Breaker /\ n.state = "half_open" /\ n.probing
    BY <1>2, <1>5, AllowEffect
  <2>2. /\ call' = [call EXCEPT ![c] = d] /\ UNCHANGED <<failed, provider>>
        /\ breaker' = [breaker EXCEPT ![s] = n]
    BY <1>1, <1>5 DEF Allow, Inv, TypeOK
  <2>3. d \in Call
    BY <1>2, Zenon DEF Call, Located
  <2>4. /\ d.pc = "loop" /\ d.result = "none" /\ d.records = 0
        /\ d.probe = "current" /\ d.skill = s
    BY <1>1, <1>2 DEF Call
  <2>5. \A e \in Calls : ~ (call[e].skill = s /\ call[e].probe = "current")
    <3>1. b.state # "half_open"
      BY <1>1, <1>2, <1>5 DEF Allowed, Inv, ProbeClaimed
    <3> QED BY <1>1, <3>1 DEF Inv, OneProbePerPeriod
  <2> HIDE DEF d, n
  <2>6. TypeOK'
    BY <1>1, <2>1, <2>2, <2>3 DEF Inv, TypeOK
  <2>7. CallShape' /\ ReportsOnce'
    BY <1>1, <2>2, <2>4 DEF Inv, TypeOK, CallShape, ReportsOnce, Located, Flying
  <2>8. FailuresCounted' /\ ProbeClaimed'
    BY <1>1, <1>5, <2>1, <2>2 DEF Inv, TypeOK, FailuresCounted, ProbeClaimed
  <2>9. OneProbePerPeriod'
    <3> SUFFICES ASSUME NEW t \in Skills
                 PROVE  LET probes == {e \in Calls : call'[e].skill = t /\ call'[e].probe = "current"}
                        IN  /\ \A e, f \in probes : e = f
                            /\ breaker'[t].state # "half_open" => probes = {}
      BY DEF OneProbePerPeriod
    <3>1. CASE t = s
      BY <1>1, <2>1, <2>2, <2>4, <2>5, <3>1 DEF Inv, TypeOK
    <3>2. CASE t # s
      BY <1>1, <2>2, <2>4, <3>2 DEF Inv, TypeOK, OneProbePerPeriod
    <3> QED BY <3>1, <3>2
  <2> QED BY <2>6, <2>7, <2>8, <2>9 DEF Inv
<1> QED
  BY <1>3, <1>4, <1>5

\* A call moves on, without a word to its breaker, in every other step of
\* execute and when its context ends.
LEMMA MoveStep ==
  ASSUME Inv, NEW c \in Calls, call[c].pc \in Located,
         NEW d \in Call, call' = [call EXCEPT ![c] = d],
         UNCHANGED <<provider, breaker, failed>>,
         d.pc \in Located, d.pc \in Flying <=> call[c].pc \in Flying,
         d.skill = call[c].skill, d.result = call[c].result,
         d.records = call[c].records, d.probe = call[c].probe
  PROVE  Inv'
<1>1. /\ d.skill \in Skills /\ d.result = "none" /\ d.records = 0
      /\ d.pc \notin Flying => d.probe = "no"
  BY DEF Inv, CallShape, Located
<1>2. provider' \in [Skills -> Providers \cup {None}]
  BY DEF Inv, TypeOK
<1> QED
  BY <1>1, <1>2, LocalStep DEF Located

-----------------------------------------------------------------------------
\* Every step of the gateway keeps the invariant.
LEMMA NextInv == Inv /\ [Next]_vars => Inv'
<1> SUFFICES ASSUME Inv, [Next]_vars PROVE Inv'
  OBVIOUS
<1>0. /\ provider \in [Skills -> Providers \cup {None}]
      /\ \A c \in Calls : call[c] \in Call
      /\ \A c \in Calls : call[c].attempt + 1 \in Nat
  BY DEF Inv, TypeOK, Call
<1>1. ASSUME NEW p \in Providers, Register(p) PROVE Inv'
  <2>1. provider' \in [Skills -> Providers \cup {None}]
    BY <1>0, <1>1 DEF Register
  <2> QED
    BY <1>1, <2>1 DEF Register, Inv, TypeOK, CallShape, FailuresCounted, ProbeClaimed,
                      OneProbePerPeriod, ReportsOnce
<1>2. ASSUME NEW c \in Calls, NEW s \in Skills, NEW m \in RetrySettings, Resolve(c, s, m)
      PROVE  Inv'
  <2>1. CASE provider[s] = None
    <3> DEFINE d == [IdleCall EXCEPT !.pc = "done", !.skill = s, !.result = "not_found"]
    <3>1. d \in Call
      <4>1. IdleCall \in Call
        BY RetryAssumption DEF IdleCall, Call, Result, AttemptLimit
      <4> QED BY <4>1, Zenon DEF Call, Result
    <3>2. /\ d.pc = "done" /\ d.skill = s /\ d.result = "not_found"
          /\ d.records = 0 /\ d.probe = "no"
      BY DEF IdleCall
    <3>3. call' = [call EXCEPT ![c] = d] /\ UNCHANGED <<breaker, failed, provider>>
      BY <1>2, <2>1 DEF Resolve
    <3> HIDE DEF d
    <3> QED BY <1>0, <3>1, <3>2, <3>3, LocalStep DEF Located
  <2>2. CASE provider[s] # None
    <3> DEFINE d == [IdleCall EXCEPT !.pc = "allow", !.skill = s, !.max = MaxAttempts(m)]
    <3>1. MaxAttempts(m) \in AttemptLimit
      BY RetryAssumption DEF MaxAttempts, AttemptLimit
    <3>2. d \in Call
      BY <3>1, Zenon DEF IdleCall, Call, Result, Located
    <3>3. /\ d.pc = "allow" /\ d.skill = s /\ d.result = "none"
          /\ d.records = 0 /\ d.probe = "no"
      BY DEF IdleCall
    <3>4. call' = [call EXCEPT ![c] = d] /\ UNCHANGED <<breaker, failed, provider>>
      BY <1>2, <2>2 DEF Resolve
    <3> HIDE DEF d
    <3> QED BY <1>0, <3>2, <3>3, <3>4, LocalStep DEF Flying
  <2> QED BY <2>1, <2>2
<1>3. ASSUME NEW c \in Calls, Allow(c) PROVE Inv'
  BY <1>3, AllowStep
<1>4. ASSUME NEW c \in Calls, Exhausted(c) PROVE Inv'
  BY <1>4, FinishFailedStep DEF Exhausted, Flying
<1>5. ASSUME NEW c \in Calls, LoopCancelled(c) PROVE Inv'
  BY <1>5, FinishFailedStep DEF LoopCancelled, Flying
<1>6. ASSUME NEW c \in Calls, LoopAgain(c) PROVE Inv'
  <2> DEFINE q == IF call[c].attempt > 0 THEN "backoff" ELSE "provider"
             d == [call[c] EXCEPT !.pc = q]
  <2>1. q \in Flying /\ q \in Located
    BY DEF Flying, Located
  <2>2. d \in Call
    BY <1>0, <2>1, Zenon DEF Call
  <2>3. call' = [call EXCEPT ![c] = d] /\ UNCHANGED <<provider, breaker, failed>>
    BY <1>6 DEF LoopAgain, MoveTo
  <2>4. /\ d.pc = q /\ d.skill = call[c].skill /\ d.result = call[c].result
        /\ d.records = call[c].records /\ d.probe = call[c].probe
    BY <1>0 DEF Call
  <2>5. call[c].pc \in Located /\ call[c].pc \in Flying
    BY <1>6 DEF LoopAgain, Located, Flying
  <2> HIDE DEF d, q
  <2> QED BY <2>1, <2>2, <2>3, <2>4, <2>5, MoveStep
<1>7. ASSUME NEW c \in Calls, BackoffOver(c) PROVE Inv'
  <2> DEFINE d == [call[c] EXCEPT !.pc = "provider"]
  <2>1. d \in Call
    BY <1>0, Zenon DEF Call, Located
  <2>2. call' = [call EXCEPT ![c] = d] /\ UNCHANGED <<provider, breaker, failed>>
    BY <1>7 DEF BackoffOver, MoveTo
  <2>3. /\ d.pc = "provider" /\ d.skill = call[c].skill /\ d.result = call[c].result
        /\ d.records = call[c].records /\ d.probe = call[c].probe
    BY <1>0 DEF Call
  <2>4. /\ call[c].pc \in Located /\ call[c].pc \in Flying
        /\ "provider" \in Located /\ "provider" \in Flying
    BY <1>7 DEF BackoffOver, Located, Flying
  <2> HIDE DEF d
  <2> QED BY <2>1, <2>2, <2>3, <2>4, MoveStep
<1>8. ASSUME NEW c \in Calls, BackoffCancelled(c) PROVE Inv'
  BY <1>8, FinishFailedStep DEF BackoffCancelled, Flying
<1>9. ASSUME NEW c \in Calls, ExecuteOK(c) PROVE Inv'
  BY <1>9, FinishOKStep DEF ExecuteOK, Flying
<1>10. ASSUME NEW c \in Calls, ExecuteTimeout(c) PROVE Inv'
  BY <1>10, FinishFailedStep DEF ExecuteTimeout, Flying
<1>11. ASSUME NEW c \in Calls, ExecuteError(c) PROVE Inv'
  <2> DEFINE d == [call[c] EXCEPT !.pc = "loop", !.attempt = call[c].attempt + 1]
  <2>1. d \in Call
    BY <1>0, Zenon DEF Call, Located
  <2>2. call' = [call EXCEPT ![c] = d] /\ UNCHANGED <<provider, breaker, failed>>
    BY <1>11 DEF ExecuteError
  <2>3. /\ d.pc = "loop" /\ d.skill = call[c].skill /\ d.result = call[c].result
        /\ d.records = call[c].records /\ d.probe = call[c].probe
    BY <1>0 DEF Call
  <2>4. /\ call[c].pc \in Located /\ call[c].pc \in Flying
        /\ "loop" \in Located /\ "loop" \in Flying
    BY <1>11 DEF ExecuteError, Located, Flying
  <2> HIDE DEF d
  <2> QED BY <2>1, <2>2, <2>3, <2>4, MoveStep
<1>12. ASSUME NEW c \in Calls, ExecutePanic(c) PROVE Inv'
  <2> DEFINE d == [call[c] EXCEPT !.pc = "done", !.result = "panic", !.probe = "no"]
  <2>1. d \in Call
    BY <1>0, Zenon DEF Call, Result
  <2>2. call' = [call EXCEPT ![c] = d] /\ UNCHANGED <<provider, breaker, failed>>
    BY <1>12 DEF ExecutePanic
  <2>3. call[c].records = 0
    BY <1>12 DEF ExecutePanic, Inv, CallShape
  <2>4. d.pc = "done" /\ d.result = "panic" /\ d.records = 0 /\ d.probe = "no"
    BY <1>0, <2>3 DEF Call
  <2> HIDE DEF d
  <2> QED BY <1>0, <2>1, <2>2, <2>4, LocalStep DEF Located
<1>13. ASSUME NEW c \in Calls, CancelContext(c) PROVE Inv'
  <2> DEFINE d == [call[c] EXCEPT !.ctxDone = TRUE]
  <2>1. d \in Call
    BY <1>0, Zenon DEF Call
  <2>2. call' = [call EXCEPT ![c] = d] /\ UNCHANGED <<provider, breaker, failed>>
    BY <1>13 DEF CancelContext
  <2>3. /\ d.pc = call[c].pc /\ d.skill = call[c].skill /\ d.result = call[c].result
        /\ d.records = call[c].records /\ d.probe = call[c].probe
    BY <1>0 DEF Call
  <2>4. call[c].pc \in Located
    BY <1>13 DEF CancelContext
  <2> HIDE DEF d
  <2> QED BY <2>1, <2>2, <2>3, <2>4, MoveStep
<1>14. ASSUME NEW c \in Calls, Return(c) PROVE Inv'
  <2>1. IdleCall \in Call
    BY RetryAssumption DEF IdleCall, Call, Result, AttemptLimit
  <2>2. /\ IdleCall.pc = "idle" /\ IdleCall.result = "none"
        /\ IdleCall.records = 0 /\ IdleCall.probe = "no"
    BY DEF IdleCall
  <2>3. call' = [call EXCEPT ![c] = IdleCall] /\ UNCHANGED <<provider, breaker, failed>>
    BY <1>14 DEF Return
  <2> QED BY <1>0, <2>1, <2>2, <2>3, LocalStep DEF Located
<1>15. CASE Tick
  <2>1. \A s \in Skills : /\ breaker'[s] \in Breaker
                          /\ breaker'[s].state = breaker[s].state
                          /\ breaker'[s].failures = breaker[s].failures
                          /\ breaker'[s].probing = breaker[s].probing
    BY <1>15, TickEffect DEF Tick, Inv, TypeOK
  <2>2. TypeOK'
    BY <1>15, <2>1 DEF Tick, Inv, TypeOK
  <2>3. CallShape' /\ ReportsOnce'
    BY <1>15 DEF Tick, Inv, CallShape, ReportsOnce
  <2>4. FailuresCounted' /\ ProbeClaimed' /\ OneProbePerPeriod'
    BY <1>15, <2>1 DEF Tick, Inv, FailuresCounted, ProbeClaimed, OneProbePerPeriod
  <2> QED BY <2>2, <2>3, <2>4 DEF Inv
<1>16. CASE UNCHANGED vars
  BY <1>16 DEF vars, Inv, TypeOK, CallShape, FailuresCounted, ProbeClaimed,
               OneProbePerPeriod, ReportsOnce
<1> QED
  BY <1>1, <1>2, <1>3, <1>4, <1>5, <1>6, <1>7, <1>8, <1>9, <1>10, <1>11, <1>12,
     <1>13, <1>14, <1>15, <1>16 DEF Next, Step

\* The invariant holds in every reachable state of the gateway.
LEMMA Invariance == Spec => []Inv
  BY InitInv, NextInv, PTL DEF Spec

-----------------------------------------------------------------------------
\* Type correctness, with the cap on attempts.
THEOREM TypeCorrect == Spec => []TypeOK
<1>1. Inv => TypeOK
  BY DEF Inv
<1> QED
  BY <1>1, Invariance, PTL

\* RecordFailure and RecordSuccess trip and close the breaker at exactly the
\* right count, for any number of calls whose results arrive in any order.
THEOREM BreakerTrips == Spec => []TripsAtThreshold
<1>1. Inv => TripsAtThreshold
  BY ThresholdAssumption DEF Inv, TypeOK, FailuresCounted, TripsAtThreshold
<1> QED
  BY <1>1, Invariance, PTL

\* Allow admits one probe in each half-open period, for any number of calls.
THEOREM OneProbe == Spec => []OneProbePerPeriod
<1>1. Inv => OneProbePerPeriod
  BY DEF Inv
<1> QED
  BY <1>1, Invariance, PTL

\* Every return statement of execute reports an admitted call exactly once.
THEOREM ReportedOnce == Spec => []ReportsOnce
<1>1. Inv => ReportsOnce
  BY DEF Inv
<1> QED
  BY <1>1, Invariance, PTL

-----------------------------------------------------------------------------
(***************************************************************************)
(* A half-open breaker has a probe in flight.  What a step must do to keep  *)
(* that: leave the probes that are in flight where they are, or take the    *)
(* breaker out of the half-open state.                                     *)
(***************************************************************************)
ProbesStay(s) ==
    \A e \in Calls :
        (InFlight(e) /\ call[e].skill = s /\ call[e].probe = "current") =>
            (InFlight(e) /\ call[e].skill = s /\ call[e].probe = "current")'

\* A step that keeps the current probes, or leaves the half-open state, keeps
\* HalfOpenHasProbe.
LEMMA KeepsProbe ==
  ASSUME HalfOpenHasProbe,
         \A s \in Skills \ Panicky :
            \/ breaker'[s].state # "half_open"
            \/ /\ breaker'[s].state = breaker[s].state
               /\ breaker'[s].probing = breaker[s].probing
               /\ ProbesStay(s)
  PROVE  HalfOpenHasProbe'
<1> SUFFICES ASSUME NEW s \in Skills \ Panicky, breaker'[s].state = "half_open"
             PROVE  /\ breaker'[s].probing
                    /\ \E c \in Calls : (/\ InFlight(c) /\ call[c].skill = s
                                         /\ call[c].probe = "current")'
  BY DEF HalfOpenHasProbe
<1>1. PICK c \in Calls : InFlight(c) /\ call[c].skill = s /\ call[c].probe = "current"
  BY DEF HalfOpenHasProbe
<1> QED
  BY <1>1 DEF HalfOpenHasProbe, ProbesStay

\* An admitted call that reports takes its own breaker out of the half-open
\* state, and leaves the probes of other skills alone.
LEMMA ReportKeepsProbe ==
  ASSUME Inv, HalfOpenHasProbe, NEW c \in Calls, call[c].pc \in Flying, NEW b, NEW r, NEW a,
         b.state # "half_open",
         breaker' = [breaker EXCEPT ![call[c].skill] = b],
         call' = Retire(call[c].skill, b, c, r, a)
  PROVE  HalfOpenHasProbe'
<1>1. call[c].skill \in Skills
  BY DEF Inv, CallShape, Flying, Located
<1>2. ASSUME NEW s \in Skills, s # call[c].skill
      PROVE  breaker'[s] = breaker[s] /\ ProbesStay(s)
  <2>1. breaker'[s] = breaker[s]
    BY <1>2 DEF Inv, TypeOK
  <2>2. \A e \in Calls : call[e].skill = s => call'[e] = call[e]
    BY <1>2 DEF Retire
  <2> QED BY <2>1, <2>2 DEF ProbesStay, InFlight
<1>3. breaker'[call[c].skill].state # "half_open"
  BY <1>1 DEF Inv, TypeOK
<1> QED
  BY <1>2, <1>3, KeepsProbe

\* A call that fails: its report ends the half-open period.
LEMMA FailedKeepsProbe ==
  ASSUME Inv, HalfOpenHasProbe, NEW c \in Calls, call[c].pc \in Flying, NEW r, NEW a,
         FinishFailed(c, r, a)
  PROVE  HalfOpenHasProbe'
<1> DEFINE b == AfterFailure(breaker[call[c].skill])
<1>1. breaker[call[c].skill] \in Breaker
  BY DEF Inv, TypeOK, CallShape, Flying, Located
<1>2. b.state # "half_open"
  BY <1>1, FailureEffect
<1>3. /\ breaker' = [breaker EXCEPT ![call[c].skill] = b]
      /\ call' = Retire(call[c].skill, b, c, r, a)
  BY DEF FinishFailed
<1> HIDE DEF b
<1> QED
  BY <1>2, <1>3, ReportKeepsProbe

\* A call that succeeds: its report ends the half-open period.
LEMMA OKKeepsProbe ==
  ASSUME Inv, HalfOpenHasProbe, NEW c \in Calls, call[c].pc \in Flying, FinishOK(c)
  PROVE  HalfOpenHasProbe'
<1> DEFINE b == AfterSuccess(breaker[call[c].skill])
<1>1. breaker[call[c].skill] \in Breaker
  BY DEF Inv, TypeOK, CallShape, Flying, Located
<1>2. b.state # "half_open"
  BY <1>1, SuccessEffect
<1>3. /\ breaker' = [breaker EXCEPT ![call[c].skill] = b]
      /\ call' = Retire(call[c].skill, b, c, "success", "success")
  BY DEF FinishOK
<1> HIDE DEF b
<1> QED
  BY <1>2, <1>3, ReportKeepsProbe

\* Allow makes the breaker half-open only together with a probe.
LEMMA AllowKeepsProbe ==
  ASSUME Inv, HalfOpenHasProbe, NEW c \in Calls, Allow(c)
  PROVE  HalfOpenHasProbe'
<1> DEFINE s == call[c].skill
           b == breaker[s]
<1>1. s \in Skills /\ ~ InFlight(c)
  BY DEF Allow, Inv, CallShape, Located, Flying, InFlight
<1>2. b \in Breaker /\ call[c] \in Call
  BY <1>1 DEF Inv, TypeOK
<1>3. \A t \in Skills : ProbesStay(t)
  BY <1>1 DEF ProbesStay, InFlight, Allow, Inv, TypeOK
<1>4. \A t \in Skills : t # s => breaker'[t] = breaker[t]
  BY <1>1 DEF Allow, Inv, TypeOK
<1>5. breaker'[s] = AfterAllow(b)
  BY <1>1 DEF Allow, Inv, TypeOK
<1>6. CASE ~ (Allowed(b) /\ b.state # "closed")
  BY <1>2, <1>3, <1>4, <1>5, <1>6, AllowEffect, KeepsProbe
<1>7. CASE Allowed(b) /\ b.state # "closed"
  <2>1. breaker'[s].probing
    BY <1>2, <1>5, <1>7, AllowEffect
  <2>2. call'[c] = [call[c] EXCEPT !.pc = "loop", !.probe = "current"]
    BY <1>7 DEF Allow, Inv, TypeOK
  <2>3. (InFlight(c) /\ call[c].skill = s /\ call[c].probe = "current")'
    BY <1>2, <2>2 DEF InFlight, Flying, Call
  <2> SUFFICES ASSUME NEW t \in Skills \ Panicky, breaker'[t].state = "half_open"
               PROVE  /\ breaker'[t].probing
                      /\ \E e \in Calls : (/\ InFlight(e) /\ call[e].skill = t
                                           /\ call[e].probe = "current")'
    BY DEF HalfOpenHasProbe
  <2>4. CASE t = s
    <3>1. call'[c].skill = t
      BY <1>2, <2>2, <2>4 DEF Call
    <3> QED BY <2>1, <2>3, <2>4, <3>1
  <2>5. CASE t # s
    BY <1>3, <1>4, <2>5 DEF HalfOpenHasProbe, ProbesStay
  <2> QED BY <2>4, <2>5
<1> QED
  BY <1>6, <1>7

\* Unless its own provider panics, a half-open breaker is waiting for a call
\* that is in flight: no return of execute loses the probe.
THEOREM ProbeInFlight == Spec => []HalfOpenHasProbe
<1>1. Init => HalfOpenHasProbe
  BY DEF Init, HalfOpenHasProbe, NewBreaker
<1>2. Inv /\ HalfOpenHasProbe /\ [Next]_vars => HalfOpenHasProbe'
  <2> SUFFICES ASSUME Inv, HalfOpenHasProbe, [Next]_vars PROVE HalfOpenHasProbe'
    OBVIOUS
  <2>0. \A c \in Calls : call[c] \in Call
    BY DEF Inv, TypeOK
  <2>1. ASSUME UNCHANGED breaker, \A s \in Skills \ Panicky : ProbesStay(s)
        PROVE  HalfOpenHasProbe'
    BY <2>1, KeepsProbe
  <2>2. ASSUME NEW p \in Providers, Register(p) PROVE HalfOpenHasProbe'
    BY <2>1, <2>2 DEF Register, ProbesStay, InFlight
  <2>3. ASSUME NEW c \in Calls, NEW s \in Skills, NEW m \in RetrySettings, Resolve(c, s, m)
        PROVE  HalfOpenHasProbe'
    <3>1. \A e \in Calls : InFlight(e) => call'[e] = call[e]
      BY <2>3 DEF Resolve, InFlight, Flying, Inv, TypeOK
    <3> QED BY <2>1, <2>3, <3>1 DEF Resolve, ProbesStay, InFlight
  <2>4. ASSUME NEW c \in Calls, Allow(c) PROVE HalfOpenHasProbe'
    BY <2>4, AllowKeepsProbe
  <2>5. ASSUME NEW c \in Calls,
               \/ Exhausted(c) \/ LoopCancelled(c) \/ BackoffCancelled(c) \/ ExecuteTimeout(c)
        PROVE  HalfOpenHasProbe'
    BY <2>5, FailedKeepsProbe DEF Exhausted, LoopCancelled, BackoffCancelled,
                                  ExecuteTimeout, Flying
  <2>6. ASSUME NEW c \in Calls, ExecuteOK(c) PROVE HalfOpenHasProbe'
    BY <2>6, OKKeepsProbe DEF ExecuteOK, Flying
  <2>7. ASSUME NEW c \in Calls, LoopAgain(c) \/ BackoffOver(c) PROVE HalfOpenHasProbe'
    <3>1. PICK q \in Flying : call' = [call EXCEPT ![c].pc = q]
      BY <2>7 DEF LoopAgain, BackoffOver, MoveTo, Flying
    <3>2. \A s \in Skills : ProbesStay(s)
      BY <2>0, <3>1 DEF ProbesStay, InFlight, Call, Inv, TypeOK
    <3> QED BY <2>1, <2>7, <3>2 DEF LoopAgain, BackoffOver, MoveTo
  <2>8. ASSUME NEW c \in Calls, ExecuteError(c) PROVE HalfOpenHasProbe'
    <3>1. \A s \in Skills : ProbesStay(s)
      BY <2>0, <2>8 DEF ExecuteError, ProbesStay, InFlight, Flying, Call, Inv, TypeOK
    <3> QED BY <2>1, <2>8, <3>1 DEF ExecuteError
  <2>9. ASSUME NEW c \in Calls, CancelContext(c) PROVE HalfOpenHasProbe'
    <3>1. \A s \in Skills : ProbesStay(s)
      BY <2>0, <2>9 DEF CancelContext, ProbesStay, InFlight, Call, Inv, TypeOK
    <3> QED BY <2>1, <2>9, <3>1 DEF CancelContext
  <2>10. ASSUME NEW c \in Calls, Return(c) PROVE HalfOpenHasProbe'
    <3>1. \A e \in Calls : InFlight(e) => call'[e] = call[e]
      BY <2>10 DEF Return, InFlight, Flying, Inv, TypeOK
    <3> QED BY <2>1, <2>10, <3>1 DEF Return, ProbesStay, InFlight
  <2>11. CASE Tick
    <3>1. \A s \in Skills : /\ breaker'[s].state = breaker[s].state
                            /\ breaker'[s].probing = breaker[s].probing
      BY <2>11, TickEffect DEF Tick, Inv, TypeOK
    <3>2. \A s \in Skills : ProbesStay(s)
      BY <2>11 DEF Tick, ProbesStay, InFlight
    <3> QED BY <3>1, <3>2, KeepsProbe
  <2>12. CASE UNCHANGED vars
    BY <2>1, <2>12 DEF vars, ProbesStay, InFlight
  <2>13. ASSUME NEW c \in Calls, ExecutePanic(c) PROVE HalfOpenHasProbe'
    <3>1. \A s \in Skills \ Panicky : ProbesStay(s)
      BY <2>0, <2>13 DEF ExecutePanic, ProbesStay, InFlight, Inv, TypeOK
    <3> QED BY <2>1, <2>13, <3>1 DEF ExecutePanic
  <2> QED
    BY <2>2, <2>3, <2>4, <2>5, <2>6, <2>7, <2>8, <2>9, <2>10, <2>11, <2>12, <2>13
       DEF Next, Step
<1> QED
  BY <1>1, <1>2, Invariance, PTL DEF Spec

-----------------------------------------------------------------------------
\* RegisterProvider takes a provider with all its skills or refuses it with all of them,
\* whatever calls and registrations are under way.
THEOREM ProvidersStay == Spec => ProviderIsStable
<1> DEFINE Whole(s) == provider'[s] # provider[s] =>
                         /\ provider[s] = None
                         /\ \A t \in SkillIDs[provider'[s]] : provider'[t] = provider'[s]
<1>1. [Next]_vars => [\A s \in Skills : Whole(s)]_vars
  <2> SUFFICES ASSUME Next, NEW s \in Skills, provider'[s] # provider[s]
               PROVE  /\ provider[s] = None
                      /\ \A t \in SkillIDs[provider'[s]] : provider'[t] = provider'[s]
    OBVIOUS
  <2>1. PICK p \in Providers : Register(p)
    BY DEF Next, Step, Resolve, Allow, Exhausted, LoopCancelled, LoopAgain,
       BackoffOver, BackoffCancelled, ExecuteOK, ExecuteTimeout, ExecuteError, ExecutePanic,
       FinishFailed, FinishOK, MoveTo, CancelContext, Return, Tick
  <2>2. SkillIDs[p] \subseteq Skills
    BY SkillIDsAssumption
  <2>3. /\ \A t \in SkillIDs[p] : provider[t] = None /\ provider'[t] = p
        /\ \A t \in Skills \ SkillIDs[p] : provider'[t] = provider[t]
    BY <2>1, <2>2, ZenonT(30) DEF Register, CanRegister
  <2> QED BY <2>3
<1> QED
  BY <1>1, PTL DEF Spec, ProviderIsStable

\* The step form of EarlyExit for one skill.
ExitsEarly(s) ==
    (breaker[s].state = "open" /\ breaker[s].elapsed < RecoveryTimeout) =>
        /\ breaker'[s].state # "half_open"
        /\ breaker'[s].state = "closed" =>
             \E c \in Calls : /\ call[c].skill = s
                              /\ InFlight(c)
                              /\ call[c].probe # "current"
                              /\ call'[c].result = "success"

\* Before RecoveryTimeout an open breaker is left only through RecordSuccess of
\* a call that was in flight when it tripped.
THEOREM NoEarlyAdmission == Spec => EarlyExit
<1>1. Inv /\ [Next]_vars => [\A s \in Skills : ExitsEarly(s)]_vars
  <2> SUFFICES ASSUME Inv, Next, NEW s \in Skills,
                      breaker[s].state = "open", breaker[s].elapsed < RecoveryTimeout
               PROVE  /\ breaker'[s].state # "half_open"
                      /\ breaker'[s].state = "closed" =>
                           \E c \in Calls : /\ call[c].skill = s /\ InFlight(c)
                                            /\ call[c].probe # "current"
                                            /\ call'[c].result = "success"
    BY DEF ExitsEarly
  <2>0. breaker[s] \in Breaker
    BY DEF Inv, TypeOK
  <2>1. CASE breaker'[s].state = "open"
    BY <2>1
  <2>2. ASSUME NEW c \in Calls, Allow(c) PROVE breaker'[s].state = "open"
    <3>1. ~ Allowed(breaker[s])
      BY <2>0, TimeoutAssumption DEF Allowed, RecoveryElapsed, Breaker
    <3>2. AfterAllow(breaker[s]) = breaker[s]
      BY <3>1 DEF AfterAllow
    <3> QED BY <2>2, <3>2 DEF Allow, Inv, TypeOK
  <2>3. ASSUME NEW c \in Calls,
               \/ Exhausted(c) \/ LoopCancelled(c) \/ BackoffCancelled(c) \/ ExecuteTimeout(c)
        PROVE  breaker'[s].state = "open"
    <3>1. breaker' = [breaker EXCEPT ![call[c].skill] = AfterFailure(breaker[call[c].skill])]
      BY <2>3 DEF Exhausted, LoopCancelled, BackoffCancelled, ExecuteTimeout, FinishFailed
    <3>2. AfterFailure(breaker[s]).state = "open"
      BY <2>0, FailureEffect
    <3> QED BY <3>1, <3>2 DEF Inv, TypeOK
  <2>4. ASSUME NEW c \in Calls, ExecuteOK(c), breaker'[s].state # "open"
        PROVE  /\ breaker'[s].state = "closed"
               /\ call[c].skill = s /\ InFlight(c)
               /\ call[c].probe # "current" /\ call'[c].result = "success"
    <3>1. breaker' = [breaker EXCEPT ![call[c].skill] = AfterSuccess(breaker[call[c].skill])]
      BY <2>4 DEF ExecuteOK, FinishOK
    <3>2. call[c].skill = s
      BY <2>4, <3>1 DEF Inv, TypeOK
    <3>3. breaker'[s].state = "closed"
      BY <2>0, <3>1, <3>2, SuccessEffect DEF Inv, TypeOK
    <3>4. InFlight(c) /\ call[c] \in Call
      BY <2>4 DEF ExecuteOK, InFlight, Flying, Inv, TypeOK
    <3>5. call[c].probe # "current"
      BY <3>2 DEF Inv, OneProbePerPeriod
    <3>6. call'[c] = [call[c] EXCEPT !.pc = "done", !.result = "success", !.audit = "success",
                                     !.records = @ + 1, !.probe = "no"]
      BY <2>4 DEF ExecuteOK, FinishOK, Retire
    <3>7. call'[c].result = "success"
      BY <3>4, <3>6 DEF Call
    <3> QED BY <3>2, <3>3, <3>4, <3>5, <3>7
  <2>5. CASE Tick
    BY <2>0, <2>5, TickEffect DEF Tick
  <2>6. CASE UNCHANGED breaker
    BY <2>6
  <2> QED
    BY <2>1, <2>2, <2>3, <2>4, <2>5, <2>6 DEF Next, Step, Register, Resolve, LoopAgain,
       BackoffOver, ExecuteError, ExecutePanic, MoveTo, CancelContext, Return
<1> QED
  BY <1>1, Invariance, PTL DEF Spec, EarlyExit, ExitsEarly

-----------------------------------------------------------------------------
(* The code executor *)

\* Only a call that the sub-limit applies to is ever at the second level of the
\* semaphore: Acquire and Release decide it by the same test, on a tenant that
\* does not change in between.
SecondLevelIsLimited ==
    \A w \in Workers :
        worker[w].pc \in {"tenant", "giveback", "relTenant"} => Limited(worker[w].tenant)

\* A worker that is back from Execute is an idle one.
LEMMA IdleTyped == IdleWorker \in Worker
BY DEF IdleWorker, Worker, AnyTenant

\* Type correctness: no channel of the semaphore ever holds more than its
\* capacity, and no step of Execute leaves its few program points.
THEOREM ExecutorTypeCorrect == ExecutorSpec => [](ExecutorTypeOK /\ SecondLevelIsLimited)
<1>1. ExecutorInit => ExecutorTypeOK /\ SecondLevelIsLimited
  BY CapAssumption, AbandonedAssumption, IdleTyped
  DEF ExecutorInit, ExecutorTypeOK, SecondLevelIsLimited, IdleWorker
<1>2. ExecutorTypeOK /\ SecondLevelIsLimited /\ [ExecutorNext]_executorVars => ExecutorTypeOK' /\ SecondLevelIsLimited'
  <2> SUFFICES ASSUME ExecutorTypeOK, SecondLevelIsLimited, [ExecutorNext]_executorVars
               PROVE  ExecutorTypeOK' /\ SecondLevelIsLimited'
    OBVIOUS
  <2> USE CapAssumption, AbandonedAssumption DEF ExecutorTypeOK, SecondLevelIsLimited
  <2>1. ASSUME NEW w \in Workers, NEW t \in AnyTenant, NEW l \in Languages,
               AcquireGlobal(w, t, l)
        PROVE  ExecutorTypeOK' /\ SecondLevelIsLimited'
    <3>1. [pc |-> IF Limited(t) THEN "tenant" ELSE "run", tenant |-> t, lang |-> l] \in Worker
      BY LanguagesAssumption DEF Worker
    <3> QED BY <2>1, <3>1 DEF AcquireGlobal, Enter
  <2>2. ASSUME NEW w \in Workers, AcquireTenant(w)
        PROVE  ExecutorTypeOK' /\ SecondLevelIsLimited'
    <3>1. worker' \in [Workers -> Worker]
      BY <2>2 DEF AcquireTenant, Worker
    <3>2. tenantSem' \in [Tenants -> 0 .. PerTenant]
      BY <2>2 DEF AcquireTenant, Worker
    <3>3. SecondLevelIsLimited'
      BY <2>2, <3>1 DEF AcquireTenant, Worker
    <3> QED BY <2>2, <3>1, <3>2, <3>3 DEF AcquireTenant
  <2>3. ASSUME NEW w \in Workers, GiveBack(w)
        PROVE  ExecutorTypeOK' /\ SecondLevelIsLimited'
    BY <2>3, IdleTyped DEF GiveBack, IdleWorker
  <2>4. ASSUME NEW w \in Workers, RunReturns(w)
        PROVE  ExecutorTypeOK' /\ SecondLevelIsLimited'
    BY <2>4 DEF RunReturns, Worker
  <2>5. ASSUME NEW w \in Workers, JSTimeout(w)
        PROVE  ExecutorTypeOK' /\ SecondLevelIsLimited'
    BY <2>5 DEF JSTimeout, Worker
  <2>6. ASSUME NEW w \in Workers, ReleaseGlobal(w)
        PROVE  ExecutorTypeOK' /\ SecondLevelIsLimited'
    <3>1. worker' \in [Workers -> Worker]
      BY <2>6, IdleTyped DEF ReleaseGlobal, Worker
    <3>2. SecondLevelIsLimited'
      BY <2>6 DEF ReleaseGlobal, Worker, IdleWorker
    <3> QED BY <2>6, <3>1, <3>2 DEF ReleaseGlobal
  <2>7. ASSUME NEW w \in Workers, ReleaseTenant(w)
        PROVE  ExecutorTypeOK' /\ SecondLevelIsLimited'
    <3>1. worker' \in [Workers -> Worker]
      BY <2>7, IdleTyped DEF ReleaseTenant
    <3>2. tenantSem' \in [Tenants -> 0 .. PerTenant]
      <4>1. worker[w].tenant \in Tenants
        BY <2>7 DEF ReleaseTenant, Limited, Worker, AnyTenant
      <4> QED BY <2>7, <4>1 DEF ReleaseTenant
    <3>3. SecondLevelIsLimited'
      BY <2>7 DEF ReleaseTenant, IdleWorker
    <3> QED BY <2>7, <3>1, <3>2, <3>3 DEF ReleaseTenant
  <2>8. CASE AbandonedEnds
    BY <2>8 DEF AbandonedEnds
  <2>9. CASE UNCHANGED executorVars
    BY <2>9 DEF executorVars
  <2> QED
    BY <2>1, <2>2, <2>3, <2>4, <2>5, <2>6, <2>7, <2>8, <2>9 DEF ExecutorNext, WorkerStep
<1> QED
  BY <1>1, <1>2, PTL DEF ExecutorSpec

-----------------------------------------------------------------------------
(* The accounts *)

\* The holders of a slot are finitely many, as the goroutines are.
LEMMA HoldersFinite ==
    /\ IsFiniteSet(HoldsGlobal)
    /\ \A t \in Tenants : IsFiniteSet(HoldsTenant(t))
BY WorkersAssumption, FS_Subset DEF HoldsGlobal, HoldsTenant

\* A slot that is taken by a worker without one, and a slot that its holder
\* gives back, change the number of holders by one.
LEMMA TakeAndGive ==
    ASSUME NEW S, NEW x, IsFiniteSet(S)
    PROVE  /\ Cardinality(S) \in Nat
           /\ x \notin S => Cardinality(S \cup {x}) = Cardinality(S) + 1
           /\ x \in S => Cardinality(S \ {x}) = Cardinality(S) - 1
BY FS_CardinalityType, FS_AddElement, FS_RemoveElement

\* Both channels of semaphore.go always hold one element per worker between a
\* send and its receive: no path through Acquire, Execute and Release leaks a
\* slot or gives one back twice, however the steps of the workers interleave.
THEOREM SlotsAreAccounted == ExecutorSpec => []SlotsAccounted
<1>1. ExecutorInit => SlotsAccounted
  <2> SUFFICES ASSUME ExecutorInit PROVE SlotsAccounted
    OBVIOUS
  <2>1. HoldsGlobal = {}
    BY DEF ExecutorInit, HoldsGlobal, IdleWorker
  <2>2. \A t \in Tenants : HoldsTenant(t) = {}
    BY DEF ExecutorInit, HoldsTenant, IdleWorker
  <2> QED
    BY <2>1, <2>2, FS_EmptySet DEF ExecutorInit, SlotsAccounted
<1>2. ExecutorTypeOK /\ SecondLevelIsLimited /\ SlotsAccounted /\ [ExecutorNext]_executorVars => SlotsAccounted'
  <2> SUFFICES ASSUME ExecutorTypeOK, SecondLevelIsLimited, SlotsAccounted, [ExecutorNext]_executorVars
               PROVE  SlotsAccounted'
    OBVIOUS
  <2> USE DEF ExecutorTypeOK, SlotsAccounted
  <2>1. ASSUME NEW w \in Workers, NEW t \in AnyTenant, NEW l \in Languages,
               AcquireGlobal(w, t, l)
        PROVE  SlotsAccounted'
    <3>1. w \notin HoldsGlobal /\ HoldsGlobal' = HoldsGlobal \cup {w}
      BY <2>1 DEF AcquireGlobal, Enter, HoldsGlobal
    <3>2. \A u \in Tenants : HoldsTenant(u)' = HoldsTenant(u)
      BY <2>1 DEF AcquireGlobal, Enter, HoldsTenant, Limited
    <3> QED BY <2>1, <3>1, <3>2, HoldersFinite, TakeAndGive DEF AcquireGlobal, Enter
  <2>2. ASSUME NEW w \in Workers, AcquireTenant(w)
        PROVE  SlotsAccounted'
    <3>t. PICK t \in Tenants : t = worker[w].tenant /\ Limited(t)
      BY <2>2 DEF AcquireTenant, SecondLevelIsLimited, Limited, Worker, AnyTenant
    <3>1. HoldsGlobal' = HoldsGlobal
      BY <2>2 DEF AcquireTenant, HoldsGlobal, Worker
    <3>2. CASE tenantSem[t] < PerTenant
      <4>1. w \notin HoldsTenant(t)
        BY <2>2 DEF AcquireTenant, HoldsTenant
      <4>2. HoldsTenant(t)' = HoldsTenant(t) \cup {w}
        BY <2>2, <3>t, <3>2 DEF AcquireTenant, HoldsTenant, Worker
      <4>3. \A u \in Tenants \ {t} : HoldsTenant(u)' = HoldsTenant(u)
        BY <2>2, <3>t, <3>2 DEF AcquireTenant, HoldsTenant, Worker
      <4>4. Cardinality(HoldsTenant(t)') = Cardinality(HoldsTenant(t)) + 1
        BY <4>1, <4>2, HoldersFinite, TakeAndGive
      <4>5. \A u \in Tenants : tenantSem'[u] = IF u = t THEN tenantSem[u] + 1 ELSE tenantSem[u]
        BY <2>2, <3>t, <3>2 DEF AcquireTenant
      <4>6. \A u \in Tenants : tenantSem'[u] = Cardinality(HoldsTenant(u)')
        BY <3>t, <4>3, <4>4, <4>5
      <4> QED BY <2>2, <3>1, <4>6 DEF AcquireTenant
    <3>3. CASE ~(tenantSem[t] < PerTenant)
      <4>1. \A u \in Tenants : HoldsTenant(u)' = HoldsTenant(u)
        BY <2>2, <3>t, <3>3 DEF AcquireTenant, HoldsTenant, Worker
      <4> QED BY <2>2, <3>t, <3>1, <3>3, <4>1 DEF AcquireTenant
    <3> QED BY <3>2, <3>3
  <2>3. ASSUME NEW w \in Workers, GiveBack(w)
        PROVE  SlotsAccounted'
    <3>1. w \in HoldsGlobal /\ HoldsGlobal' = HoldsGlobal \ {w}
      BY <2>3 DEF GiveBack, HoldsGlobal, IdleWorker
    <3>2. \A u \in Tenants : HoldsTenant(u)' = HoldsTenant(u)
      BY <2>3 DEF GiveBack, HoldsTenant, IdleWorker
    <3> QED BY <2>3, <3>1, <3>2, HoldersFinite, TakeAndGive DEF GiveBack
  <2>4. ASSUME NEW w \in Workers, RunReturns(w) \/ JSTimeout(w)
        PROVE  SlotsAccounted'
    <3>1. HoldsGlobal' = HoldsGlobal
      BY <2>4 DEF RunReturns, JSTimeout, HoldsGlobal, Worker
    <3>2. \A u \in Tenants : HoldsTenant(u)' = HoldsTenant(u)
      BY <2>4 DEF RunReturns, JSTimeout, HoldsTenant, Worker
    <3> QED BY <2>4, <3>1, <3>2 DEF RunReturns, JSTimeout
  <2>5. ASSUME NEW w \in Workers, ReleaseGlobal(w)
        PROVE  SlotsAccounted'
    <3>1. w \in HoldsGlobal /\ HoldsGlobal' = HoldsGlobal \ {w}
      BY <2>5 DEF ReleaseGlobal, HoldsGlobal, IdleWorker, Worker
    <3>2. \A u \in Tenants : HoldsTenant(u)' = HoldsTenant(u)
      BY <2>5 DEF ReleaseGlobal, HoldsTenant, IdleWorker, Worker
    <3> QED BY <2>5, <3>1, <3>2, HoldersFinite, TakeAndGive DEF ReleaseGlobal
  <2>6. ASSUME NEW w \in Workers, ReleaseTenant(w)
        PROVE  SlotsAccounted'
    <3>t. PICK t \in Tenants : t = worker[w].tenant /\ Limited(t)
      BY <2>6 DEF ReleaseTenant, SecondLevelIsLimited, Limited, Worker, AnyTenant
    <3>1. HoldsGlobal' = HoldsGlobal
      BY <2>6 DEF ReleaseTenant, HoldsGlobal, IdleWorker
    <3>2. w \in HoldsTenant(t)
      BY <2>6, <3>t DEF ReleaseTenant, HoldsTenant
    <3>3. HoldsTenant(t)' = HoldsTenant(t) \ {w}
      BY <2>6, <3>t DEF ReleaseTenant, HoldsTenant, IdleWorker
    <3>4. \A u \in Tenants \ {t} : HoldsTenant(u)' = HoldsTenant(u)
      BY <2>6, <3>t DEF ReleaseTenant, HoldsTenant, IdleWorker, Worker
    <3>5. Cardinality(HoldsTenant(t)') = Cardinality(HoldsTenant(t)) - 1
      BY <3>2, <3>3, HoldersFinite, TakeAndGive
    <3>6. \A u \in Tenants : tenantSem'[u] = IF u = t THEN tenantSem[u] - 1 ELSE tenantSem[u]
      BY <2>6, <3>t DEF ReleaseTenant
    <3>7. \A u \in Tenants : tenantSem'[u] = Cardinality(HoldsTenant(u)')
      BY <3>t, <3>4, <3>5, <3>6
    <3> QED BY <2>6, <3>1, <3>7 DEF ReleaseTenant
  <2>7. CASE AbandonedEnds
    BY <2>7 DEF AbandonedEnds, HoldsGlobal, HoldsTenant
  <2>8. CASE UNCHANGED executorVars
    BY <2>8 DEF executorVars, HoldsGlobal, HoldsTenant
  <2> QED
    BY <2>1, <2>2, <2>3, <2>4, <2>5, <2>6, <2>7, <2>8 DEF ExecutorNext, WorkerStep
<1> QED
  BY <1>1, <1>2, ExecutorTypeCorrect, PTL DEF ExecutorSpec

-----------------------------------------------------------------------------
(* The refinement *)

\* The module FiniteSets that ExecutionLimit extends is the one used here.
LEMMA SameCardinality == \A S : Limit!Cardinality(S) = Cardinality(S)
BY Zenon DEF Cardinality, Limit!Cardinality

\* What ExecutionLimit sees of the workers.
Admitted == [w \in Workers |-> IF worker[w].pc = "run" THEN worker[w].tenant ELSE NoOne]

\* The code that runs holds a slot at both levels.
LEMMA AdmittedHold ==
    ASSUME ExecutorTypeOK
    PROVE  /\ Limit!Running = {w \in Workers : worker[w].pc = "run"}
           /\ Limit!Running \subseteq HoldsGlobal
           /\ \A t \in Tenants : Limited(t) => Limit!RunningOf(t) \subseteq HoldsTenant(t)
           /\ IsFiniteSet(Limit!Running)
<1> USE TenantsAssumption DEF ExecutorTypeOK, Worker, AnyTenant
<1>1. Limit!Running = {w \in Workers : worker[w].pc = "run"}
  BY DEF Limit!Running
<1>2. Limit!Running \subseteq HoldsGlobal
  BY <1>1 DEF HoldsGlobal
<1>3. \A t \in Tenants : Limited(t) => Limit!RunningOf(t) \subseteq HoldsTenant(t)
  BY DEF Limit!RunningOf, HoldsTenant
<1>4. IsFiniteSet(Limit!Running)
  BY <1>2, HoldersFinite, FS_Subset
<1> QED
  BY <1>1, <1>2, <1>3, <1>4

\* Whoever takes the last slot it needs finds room in the limit: it is not among
\* the executions yet, and those hold a slot each.
LEMMA RoomForOneMore ==
    ASSUME ExecutorTypeOK, SlotsAccounted,
           NEW w \in Workers, worker[w].pc # "run",
           w \in HoldsGlobal \/ global < GlobalCap
    PROVE  Cardinality(Limit!Running) < GlobalCap
<1>1. /\ IsFiniteSet(HoldsGlobal) /\ Cardinality(HoldsGlobal) = global
      /\ Limit!Running \subseteq HoldsGlobal \ {w}
  BY AdmittedHold, HoldersFinite DEF SlotsAccounted
<1>2. IsFiniteSet(HoldsGlobal \ {w}) /\ Cardinality(HoldsGlobal \ {w}) \in Nat
  BY <1>1, FS_RemoveElement, FS_CardinalityType
<1>3. Cardinality(Limit!Running) <= Cardinality(HoldsGlobal \ {w})
      /\ Cardinality(Limit!Running) \in Nat
  BY <1>1, <1>2, FS_Subset, FS_CardinalityType, AdmittedHold
<1>4. Cardinality(HoldsGlobal \ {w}) < GlobalCap
  <2>1. CASE w \in HoldsGlobal
    BY <1>1, <2>1, TakeAndGive, CapAssumption DEF ExecutorTypeOK
  <2>2. CASE w \notin HoldsGlobal
    <3>1. HoldsGlobal \ {w} = HoldsGlobal
      BY <2>2
    <3> QED BY <1>1, <2>2, <3>1
  <2> QED BY <2>1, <2>2
<1> QED
  BY <1>2, <1>3, <1>4, CapAssumption

\* A step that changes no worker's being at "run" is invisible in the limit.
LEMMA Invisible ==
    ASSUME ExecutorTypeOK, NEW w \in Workers, NEW v, worker' = [worker EXCEPT ![w] = v],
           worker[w].pc # "run", v.pc # "run"
    PROVE  Admitted' = Admitted
BY DEF ExecutorTypeOK, Admitted

\* Refinement: every send and receive on the two channels of semaphore.go is, for
\* the code that is executed, an admission within both limits, the end of an
\* execution, or nothing at all.
THEOREM LimitIsImplemented == ExecutorSpec => ImplementsLimit
<1> USE DEF Limit!Limited, Limited
<1>1. ExecutorInit => Limit!Init
  BY DEF ExecutorInit, IdleWorker, Limit!Init
<1>2. ExecutorTypeOK /\ SecondLevelIsLimited /\ SlotsAccounted /\ [ExecutorNext]_executorVars
         => [Limit!Next]_Admitted
  <2> SUFFICES ASSUME ExecutorTypeOK, SecondLevelIsLimited, SlotsAccounted, [ExecutorNext]_executorVars
               PROVE  Limit!Next \/ Admitted' = Admitted
    OBVIOUS
  <2>a. Admitted \in [Workers -> AnyTenant \cup {NoOne}]
    BY DEF Admitted, ExecutorTypeOK, Worker
  <2>1. ASSUME NEW w \in Workers, NEW t \in AnyTenant, NEW l \in Languages,
               AcquireGlobal(w, t, l)
        PROVE  Limit!Next \/ Admitted' = Admitted
    <3>1. CASE Limited(t)
      BY <2>1, <3>1 DEF AcquireGlobal, Enter, ExecutorTypeOK, Admitted
    <3>2. CASE ~Limited(t)
      <4>1. Cardinality(Limit!Running) < GlobalCap
        BY <2>1, RoomForOneMore DEF AcquireGlobal
      <4>2. Admitted' = [Admitted EXCEPT ![w] = t] /\ Admitted[w] = NoOne
        BY <2>1, <3>2 DEF AcquireGlobal, Enter, ExecutorTypeOK, Admitted
      <4>3. Limit!Start(w, t)
        BY <3>2, <4>1, <4>2, SameCardinality DEF Limit!Start, Admitted
      <4> QED BY <4>3 DEF Limit!Next, AnyTenant
    <3> QED BY <3>1, <3>2
  <2>2. ASSUME NEW w \in Workers, AcquireTenant(w)
        PROVE  Limit!Next \/ Admitted' = Admitted
    <3>t. PICK t \in Tenants : t = worker[w].tenant
      BY <2>2 DEF AcquireTenant, SecondLevelIsLimited, ExecutorTypeOK, Worker, AnyTenant
    <3>1. CASE tenantSem[t] < PerTenant
      <4>1. Cardinality(Limit!Running) < GlobalCap
        BY <2>2, RoomForOneMore DEF AcquireTenant, HoldsGlobal
      <4>2. Admitted' = [Admitted EXCEPT ![w] = t] /\ Admitted[w] = NoOne
        <5>1. worker' = [worker EXCEPT ![w].pc = "run"] /\ worker[w].pc = "tenant"
          BY <2>2, <3>t, <3>1 DEF AcquireTenant
        <5>2. worker \in [Workers -> Worker]
          BY DEF ExecutorTypeOK
        <5> QED BY <3>t, <5>1, <5>2 DEF Admitted, Worker
      <4>3. Limited(t) => Cardinality(Limit!RunningOf(t)) < PerTenant
        <5> SUFFICES ASSUME Limited(t) PROVE Cardinality(Limit!RunningOf(t)) < PerTenant
          OBVIOUS
        <5>1. /\ IsFiniteSet(HoldsTenant(t)) /\ Cardinality(HoldsTenant(t)) = tenantSem[t]
              /\ Limit!RunningOf(t) \subseteq HoldsTenant(t)
          BY AdmittedHold, HoldersFinite DEF SlotsAccounted
        <5>2. /\ IsFiniteSet(Limit!RunningOf(t))
              /\ Cardinality(Limit!RunningOf(t)) <= Cardinality(HoldsTenant(t))
          BY <5>1, FS_Subset
        <5>3. Cardinality(Limit!RunningOf(t)) \in Nat
          BY <5>2, FS_CardinalityType
        <5> QED BY <3>1, <5>1, <5>2, <5>3, CapAssumption DEF ExecutorTypeOK
      <4>4. Limit!Start(w, t)
        BY <4>1, <4>2, <4>3, SameCardinality DEF Limit!Start, Admitted
      <4> QED BY <4>4 DEF Limit!Next
    <3>2. CASE ~(tenantSem[t] < PerTenant)
      BY <2>2, <3>t, <3>2 DEF AcquireTenant, ExecutorTypeOK, Admitted, Worker
    <3> QED BY <3>1, <3>2
  <2>3. ASSUME NEW w \in Workers, RunReturns(w) \/ JSTimeout(w)
        PROVE  Limit!Next \/ Admitted' = Admitted
    <3>1. Admitted[w] # NoOne /\ Admitted' = [Admitted EXCEPT ![w] = NoOne]
      BY <2>3, TenantsAssumption, ZenonT(30) DEF RunReturns, JSTimeout, ExecutorTypeOK, Admitted, Worker, AnyTenant
    <3>2. Limit!Finish(w)
      BY <3>1 DEF Limit!Finish, Admitted
    <3> QED BY <3>2 DEF Limit!Next
  <2>4. ASSUME NEW w \in Workers, GiveBack(w) \/ ReleaseTenant(w)
        PROVE  Limit!Next \/ Admitted' = Admitted
    BY <2>4, Invisible DEF GiveBack, ReleaseTenant, IdleWorker
  <2>5. ASSUME NEW w \in Workers, ReleaseGlobal(w)
        PROVE  Limit!Next \/ Admitted' = Admitted
    BY <2>5 DEF ReleaseGlobal, IdleWorker, ExecutorTypeOK, Admitted, Worker
  <2>6. CASE AbandonedEnds
    BY <2>6 DEF AbandonedEnds, Admitted
  <2>7. CASE UNCHANGED executorVars
    BY <2>7 DEF executorVars, Admitted
  <2> QED
    BY <2>1, <2>2, <2>3, <2>4, <2>5, <2>6, <2>7 DEF ExecutorNext, WorkerStep
<1> QED
  BY <1>1, <1>2, ExecutorTypeCorrect, SlotsAreAccounted, PTL DEF ExecutorSpec, ImplementsLimit, Limit!Spec, Admitted
=============================================================================
