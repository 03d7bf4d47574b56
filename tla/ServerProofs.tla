---------------------------- MODULE ServerProofs ----------------------------
(***************************************************************************)
(* Proofs about the harness, for any set of components.  What Register,     *)
(* Start and Stop promise does not depend on who calls them: it is proved   *)
(* of the harness under every sequence of calls, and the process of module  *)
(* Server is shown to be one of its callers.                               *)
(***************************************************************************)
EXTENDS Server, FiniteSetTheorems, TLAPS

\* The harness with a caller that does anything its lock and its guards allow.
HarnessNext ==
    \/ \E c \in Components :
         \/ Register(c) \/ StartComponent(c) \/ StartFails(c)
         \/ \E ok \in BOOLEAN : RollbackStop(c, ok)
    \/ StartBegin \/ StartDone \/ RollbackBreak \/ StopBegin \/ StopDone
    \/ \E ok \in BOOLEAN : StopComponent(ok)

HarnessSpec == Init /\ [][HarnessNext]_vars

-----------------------------------------------------------------------------
(* Lists of names *)

\* Appending a new name to the registered ones.
LEMMA AppendName ==
    ASSUME NEW S, NEW s \in Seq(S), NEW c \in S, IsInjective(s), c \notin Range(s)
    PROVE  /\ Append(s, c) \in Seq(S)
           /\ IsInjective(Append(s, c))
           /\ Range(Append(s, c)) = Range(s) \cup {c}
<1>1. /\ DOMAIN Append(s, c) = 1 .. Len(s) + 1 /\ DOMAIN s = 1 .. Len(s) /\ Len(s) \in Nat
      /\ \A i \in 1 .. Len(s) : Append(s, c)[i] = s[i]
      /\ Append(s, c)[Len(s) + 1] = c
  OBVIOUS
<1>2. IsInjective(Append(s, c))
  BY <1>1 DEF IsInjective, Range
<1>3. Range(Append(s, c)) = Range(s) \cup {c}
  BY <1>1 DEF Range
<1> QED
  BY <1>2, <1>3

\* Stop takes the names off the end of its list one by one.
LEMMA FrontAndLast ==
    ASSUME NEW S, NEW s \in Seq(S), s # <<>>
    PROVE  /\ Front(s) \in Seq(S)
           /\ Last(s) \in S
           /\ Range(s) = Range(Front(s)) \cup {Last(s)}
<1>1. /\ Len(s) \in Nat \ {0} /\ DOMAIN s = 1 .. Len(s)
      /\ Front(s) \in Seq(S) /\ DOMAIN Front(s) = 1 .. Len(s) - 1
      /\ \A i \in 1 .. Len(s) - 1 : Front(s)[i] = s[i]
  BY DEF Front
<1>2. Last(s) \in S
  BY <1>1 DEF Last
<1>3. Range(s) = Range(Front(s)) \cup {Last(s)}
  BY <1>1 DEF Range, Last
<1> QED
  BY <1>1, <1>2, <1>3

\* A list that getRegistrationOrder may return names every component of the map.
LEMMA OrderIsComplete ==
    ASSUME NEW S, NEW s \in Seq(S), NEW o \in SetToSeqs(Range(s))
    PROVE  o \in Seq(S) /\ Range(o) = Range(s)
<1> DEFINE T == Range(s)
<1> DEFINE n == Cardinality(T)
<1>1. IsFiniteSet(T)
  <2>1. DOMAIN s = 1 .. Len(s) /\ Len(s) \in Nat
    OBVIOUS
  <2>2. s \in Surjection(1 .. Len(s), T)
    BY <2>1 DEF Surjection, Range
  <2>3. IsFiniteSet(1 .. Len(s))
    BY <2>1, FS_Interval
  <2> QED BY <2>2, <2>3, FS_Surjection
<1>2. n \in Nat
  BY <1>1, FS_CardinalityType
<1>3. o \in Injection(1 .. n, T)
  BY DEF SetToSeqs, Injection, IsInjective
<1>4. Cardinality(1 .. n) = n
  BY <1>2, FS_Interval
<1>5. o \in Surjection(1 .. n, T)
  BY <1>1, <1>3, <1>4, FS_Injection
<1>6. Range(o) = T
  BY <1>5 DEF Surjection, Range
<1>7. T \subseteq S
  BY DEF Range
<1>8. o \in Seq(S)
  BY <1>2, <1>3, <1>7 DEF Injection
<1> QED
  BY <1>6, <1>8

-----------------------------------------------------------------------------
\* Type correctness of harness.go, whoever calls it: names are registered once,
\* and the loops of Start, of the rollback and of Stop only meet such names.
THEOREM HarnessTyped == HarnessSpec => []TypeOK
<1>1. Init => TypeOK
  <2>1. <<>> \in Seq(Components) /\ IsInjective(<<>>)
    BY DEF IsInjective
  <2> QED BY <2>1 DEF Init, TypeOK
<1>2. TypeOK /\ [HarnessNext]_vars => TypeOK'
  <2> SUFFICES ASSUME TypeOK, [HarnessNext]_vars PROVE TypeOK'
    OBVIOUS
  <2> USE DEF TypeOK
  <2>0. components \subseteq Components
    BY DEF components, Range
  <2>1. ASSUME NEW c \in Components, Register(c) PROVE TypeOK'
    BY <2>1, AppendName DEF Register, components
  <2>2. ASSUME NEW c \in Components, StartComponent(c) PROVE TypeOK'
    BY <2>2 DEF StartComponent
  <2>3. ASSUME NEW c \in Components, StartFails(c) PROVE TypeOK'
    BY <2>0, <2>3 DEF StartFails
  <2>4. ASSUME NEW c \in Components, NEW ok \in BOOLEAN, RollbackStop(c, ok) PROVE TypeOK'
    BY <2>4 DEF RollbackStop
  <2>5. CASE StartBegin
    BY <2>0, <2>5 DEF StartBegin
  <2>6. CASE StartDone
    BY <2>6 DEF StartDone
  <2>7. CASE RollbackBreak
    BY <2>7 DEF RollbackBreak
  <2>8. CASE StopBegin
    BY <2>8, OrderIsComplete DEF StopBegin, components
  <2>9. CASE StopDone
    BY <2>9 DEF StopDone
  <2>10. ASSUME NEW ok \in BOOLEAN, StopComponent(ok) PROVE TypeOK'
    BY <2>10, FrontAndLast DEF StopComponent
  <2>11. CASE UNCHANGED vars
    BY <2>11 DEF vars
  <2> QED
    BY <2>1, <2>2, <2>3, <2>4, <2>5, <2>6, <2>7, <2>8, <2>9, <2>10, <2>11 DEF HarnessNext
<1> QED
  BY <1>1, <1>2, PTL DEF HarnessSpec

-----------------------------------------------------------------------------
(***************************************************************************)
(* The inductive invariant of Start, the rollback and Stop.  h.started is   *)
(* written only when a loop is through; a component is on only if it is     *)
(* registered; and what a loop has left to do covers what is wrong yet:     *)
(* all that is off while starting, all that is on while stopping.          *)
(***************************************************************************)
PhaseOfLoop ==
    /\ op \in {"start", "rollback"} => ~ started
    /\ op = "stop" => started
    /\ op = "rollback" => startFailed

OnIsRegistered ==
    /\ \A c \in Components : on[c] => c \in components
    /\ todo \subseteq components

StartCovers ==
    /\ op = "start" => \A c \in components \ todo : on[c]
    /\ (op = "none" /\ started) => \A c \in components : on[c]

StopCovers ==
    /\ (op = "stop" /\ ~ stopFailed) => \A c \in Components : on[c] => c \in Range(order)
    /\ (~ started /\ op = "none" /\ ~ startFailed /\ ~ stopFailed)
          => \A c \in Components : ~ on[c]

LifecycleInv == PhaseOfLoop /\ OnIsRegistered /\ StartCovers /\ StopCovers

LEMMA LifecycleHolds == HarnessSpec => []LifecycleInv
<1> USE DEF LifecycleInv, PhaseOfLoop, OnIsRegistered, StartCovers, StopCovers
<1>1. Init => LifecycleInv
  BY DEF Init
<1>2. TypeOK /\ LifecycleInv /\ [HarnessNext]_vars => LifecycleInv'
  <2> SUFFICES ASSUME TypeOK, LifecycleInv, [HarnessNext]_vars PROVE LifecycleInv'
    OBVIOUS
  <2> USE DEF TypeOK
  <2>0. components \subseteq Components
    BY DEF components, Range
  <2>1. ASSUME NEW c \in Components, Register(c) PROVE LifecycleInv'
    <3>1. components' = components \cup {c}
      BY <2>1, AppendName DEF Register, components
    <3> QED BY <2>1, <3>1 DEF Register
  <2>2. ASSUME NEW c \in Components, StartComponent(c) PROVE LifecycleInv'
    <3>1. components' = components
      BY <2>2 DEF StartComponent, components
    <3> QED BY <2>2, <3>1 DEF StartComponent
  <2>3. ASSUME NEW c \in Components, StartFails(c) PROVE LifecycleInv'
    BY <2>3 DEF StartFails, components
  <2>4. ASSUME NEW c \in Components, NEW ok \in BOOLEAN, RollbackStop(c, ok)
        PROVE  LifecycleInv'
    <3>1. components' = components
      BY <2>4 DEF RollbackStop, components
    <3> QED BY <2>4, <3>1 DEF RollbackStop
  <2>5. CASE StartBegin
    BY <2>5 DEF StartBegin, components
  <2>6. CASE StartDone
    BY <2>6 DEF StartDone, components
  <2>7. CASE RollbackBreak
    BY <2>7 DEF RollbackBreak, components
  <2>8. CASE StopBegin
    <3>1. Range(order') = components /\ components' = components
      BY <2>8, OrderIsComplete DEF StopBegin, components
    <3> QED BY <2>8, <3>1 DEF StopBegin
  <2>9. CASE StopDone
    <3>1. Range(order) = {} /\ components' = components
      BY <2>9 DEF StopDone, Range, components
    <3> QED BY <2>9, <3>1 DEF StopDone
  <2>10. ASSUME NEW ok \in BOOLEAN, StopComponent(ok) PROVE LifecycleInv'
    <3>1. /\ Last(order) \in Components
          /\ Range(order) = Range(order') \cup {Last(order)}
          /\ components' = components
      BY <2>10, FrontAndLast DEF StopComponent, components
    <3>2. StopCovers'
      BY <2>10, <3>1 DEF StopComponent
    <3> QED BY <2>10, <3>1, <3>2 DEF StopComponent
  <2>11. CASE UNCHANGED vars
    BY <2>11 DEF vars, components
  <2> QED
    BY <2>1, <2>2, <2>3, <2>4, <2>5, <2>6, <2>7, <2>8, <2>9, <2>10, <2>11 DEF HarnessNext
<1> QED
  BY <1>1, <1>2, HarnessTyped, PTL DEF HarnessSpec

-----------------------------------------------------------------------------
\* Every step of the process, of main, of Run and of the chat-cleanup worker, is
\* a step of the harness or leaves it alone (main.go and Harness.Run go through
\* its exported operations only).
THEOREM ServerCallsHarness == ServerSpec => HarnessSpec
<1>1. ServerInit => Init
  BY DEF ServerInit
<1>2. [ServerNext]_allVars => [HarnessNext]_vars
  <2> SUFFICES ASSUME [ServerNext]_allVars PROVE HarnessNext \/ UNCHANGED vars
    OBVIOUS
  <2>1. ASSUME NEW c \in Components, MainRegister(c) PROVE HarnessNext
    BY <2>1 DEF MainRegister, HarnessNext
  <2>2. CASE MainGoRun \/ MainSignal \/ MainExit
    BY <2>2 DEF MainGoRun, MainSignal, MainExit
  <2>3. CASE RunStep
    BY <2>3 DEF RunStep, RunStart, RunStarted, RunFails, RunStop, RunReturn, RunStartComponent,
                RunStartFails, RunRollback, RunStopComponent, HarnessNext
  <2>4. CASE Tick \/ WorkerCleans \/ WorkerEnds
    BY <2>4 DEF Tick, WorkerCleans, WorkerEnds
  <2>5. CASE UNCHANGED allVars
    BY <2>5 DEF allVars
  <2> QED
    BY <2>1, <2>2, <2>3, <2>4, <2>5 DEF ServerNext
<1> QED
  BY <1>1, <1>2, PTL DEF ServerSpec, HarnessSpec

\* While the process serves, every component it registered is on: a Start that
\* fails never leaves h.started set, and nothing is registered behind it.
THEOREM StartedIsAllOn == ServerSpec => []StartedMeansAllOn
<1>1. TypeOK /\ LifecycleInv => StartedMeansAllOn
  BY DEF TypeOK, LifecycleInv, PhaseOfLoop, StartCovers, StartedMeansAllOn
<1> QED
  BY <1>1, ServerCallsHarness, HarnessTyped, LifecycleHolds, PTL

\* When nothing fails, Run leaves no component behind: whatever Start turned on is
\* on the list of Stop, in whichever order the map gave it.
THEOREM CleanStop == ServerSpec => []CleanWhenNothingFails
<1>1. LifecycleInv => CleanWhenNothingFails
  BY DEF LifecycleInv, StopCovers, CleanWhenNothingFails
<1> QED
  BY <1>1, ServerCallsHarness, LifecycleHolds, PTL

\* Type correctness of the process: the program points of main, Run and the worker,
\* and the clock of Start within the interval of the worker's ticker.
THEOREM ServerTyped == ServerSpec => []ServerTypeOK
<1> DEFINE ProcTypeOK ==
             /\ main \in {"registering", "waiting", "exited"}
             /\ run \in {"none", "start", "starting", "serving", "stopping", "returned",
                         "failed"}
             /\ ctxDone \in BOOLEAN
             /\ startCtx \in {"none", "live", "done"}
             /\ clock \in 0 .. CleanupInterval - 1
             /\ worker \in {"none", "waiting", "gone"}
             /\ due \in BOOLEAN
             /\ cleaned \in BOOLEAN
<1>1. ServerInit => ProcTypeOK
  <2>1. 0 \in 0 .. CleanupInterval - 1
    BY TimesAssumption
  <2> QED BY <2>1 DEF ServerInit
<1>2. ProcTypeOK /\ [ServerNext]_allVars => ProcTypeOK'
  <2> SUFFICES ASSUME ProcTypeOK, [ServerNext]_allVars PROVE ProcTypeOK'
    OBVIOUS
  <2>1. ASSUME NEW c \in Components, MainRegister(c) PROVE ProcTypeOK'
    BY <2>1 DEF MainRegister, procVars, workerVars
  <2>2. CASE MainGoRun \/ MainSignal \/ MainExit
    BY <2>2 DEF MainGoRun, MainSignal, MainExit, workerVars
  <2>3. CASE RunStart \/ RunStarted \/ RunFails \/ RunStop \/ RunReturn
    BY <2>3, TimesAssumption
    DEF RunStart, RunStarted, RunFails, RunStop, RunReturn, workerVars
  <2>4. ASSUME NEW c \in Components, NEW ok \in BOOLEAN,
               \/ RunStartComponent(c) \/ RunStartFails(c) \/ RunRollback(c, ok)
               \/ RunStopComponent(ok)
        PROVE  ProcTypeOK'
    BY <2>4 DEF RunStartComponent, RunStartFails, RunRollback, RunStopComponent, procVars,
                workerVars
  <2>5. CASE Tick
    BY <2>5, TimesAssumption DEF Tick, procVars
  <2>6. CASE WorkerCleans \/ WorkerEnds
    BY <2>6 DEF WorkerCleans, WorkerEnds, procVars
  <2>7. CASE UNCHANGED allVars
    BY <2>7 DEF allVars, procVars, workerVars
  <2> QED
    BY <2>1, <2>2, <2>3, <2>4, <2>5, <2>6, <2>7, CleanupAssumption DEF ServerNext, RunStep
<1>3. TypeOK /\ ProcTypeOK => ServerTypeOK
  BY DEF ServerTypeOK
<1> QED
  BY <1>1, <1>2, <1>3, ServerCallsHarness, HarnessTyped, PTL DEF ServerSpec
=============================================================================
