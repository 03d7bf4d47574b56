------------------------------- MODULE Server -------------------------------
(***************************************************************************)
(* The server process: main of cmd/server/main.go with the harness and     *)
(* Harness.Run, which main starts in a goroutine of its own.               *)
(*                                                                         *)
(* A component of the harness may fail to start (Fallible; the start       *)
(* functions that main.go registers log their errors and return nil).  One *)
(* of them, chat-cleanup, leaves a worker goroutine behind that lives as   *)
(* long as the context it was started with; Run starts components with a   *)
(* context that expires after StartTimeout.  Time is counted in ticks from *)
(* Start and wraps at CleanupInterval, when the worker's ticker fires.     *)
(***************************************************************************)
EXTENDS Harness

CONSTANTS
    Cleanup,           \* the component "chat-cleanup"
    Fallible,          \* the components whose Start may return an error
    StartTimeout,      \* the 30 seconds of Harness.Run
    CleanupInterval    \* chatCleanupInterval, 24 hours

ASSUME CleanupAssumption == Cleanup \in Components
ASSUME FallibleAssumption == Fallible \subseteq Components
ASSUME TimesAssumption ==
    /\ StartTimeout \in Nat \ {0}
    /\ CleanupInterval \in Nat
    /\ StartTimeout < CleanupInterval

VARIABLES
    main,       \* where main is
    run,        \* where the goroutine in Run is
    ctxDone,    \* main has cancelled its context
    startCtx,   \* the context of Start: "none", "live" or "done"
    clock,      \* ticks since Start, modulo CleanupInterval
    worker,     \* the goroutine of chat-cleanup: "none", "waiting", "gone"
    due,        \* the worker's ticker has fired and was not served yet
    cleaned     \* history: CleanupExpired has run

procVars   == <<main, run, ctxDone>>
workerVars == <<startCtx, clock, worker, due, cleaned>>
allVars    == <<vars, procVars, workerVars>>

ServerInit == /\ Init
              /\ main = "registering"
              /\ run = "none"
              /\ ctxDone = FALSE
              /\ startCtx = "none"
              /\ clock = 0
              /\ worker = "none"
              /\ due = FALSE
              /\ cleaned = FALSE

\* Once main has returned there is no process left.
Alive == main # "exited"

-----------------------------------------------------------------------------
MainRegister(c) ==
    /\ main = "registering"
    /\ Register(c)
    /\ UNCHANGED <<procVars, workerVars>>

MainGoRun ==
    /\ main = "registering"
    /\ components = Components
    /\ main' = "waiting"
    /\ run' = "start"
    /\ UNCHANGED <<vars, ctxDone, workerVars>>

\* A signal arrives and main cancels its context.
MainSignal ==
    /\ main = "waiting"
    /\ ~ ctxDone
    /\ ctxDone' = TRUE
    /\ startCtx' = IF startCtx = "live" THEN "done" ELSE startCtx
    /\ UNCHANGED <<vars, main, run, clock, worker, due, cleaned>>

\* Nothing in main waits for Run.
MainExit ==
    /\ main = "waiting"
    /\ ctxDone
    /\ main' = "exited"
    /\ UNCHANGED <<vars, run, ctxDone, workerVars>>

-----------------------------------------------------------------------------
(* Harness.Run *)
RunStart ==
    /\ Alive
    /\ run = "start"
    /\ StartBegin
    /\ startCtx' = IF ctxDone THEN "done" ELSE "live"
    /\ clock' = 0
    /\ run' = "starting"
    /\ UNCHANGED <<main, ctxDone, worker, due, cleaned>>

\* Mutant of RunStartComponent: the loop of chat-cleanup runs in its Start, which
\* does not return.
RunStartComponentBlocks(c) ==
    /\ Alive
    /\ run = "starting"
    /\ c # Cleanup
    /\ StartComponent(c)
    /\ UNCHANGED <<procVars, workerVars>>

RunStartComponent(c) ==
    /\ Alive
    /\ run = "starting"
    /\ StartComponent(c)
    /\ worker' = IF c = Cleanup THEN "waiting" ELSE worker
    /\ UNCHANGED <<procVars, startCtx, clock, due, cleaned>>

\* Start fails and rolls back; Run returns the error, which main only logs.
RunStartFails(c) ==
    /\ Alive
    /\ run = "starting"
    /\ c \in Fallible
    /\ StartFails(c)
    /\ UNCHANGED <<procVars, workerVars>>

RunRollback(c, ok) ==
    /\ Alive
    /\ run = "starting"
    /\ RollbackStop(c, ok)
    /\ UNCHANGED <<procVars, workerVars>>

RunFails ==
    /\ Alive
    /\ run = "starting"
    /\ RollbackBreak
    /\ run' = "failed"
    /\ startCtx' = "done"
    /\ UNCHANGED <<main, ctxDone, clock, worker, due, cleaned>>

RunStarted ==
    /\ Alive
    /\ run = "starting"
    /\ StartDone
    /\ run' = "serving"
    /\ UNCHANGED <<main, ctxDone, workerVars>>

\* <-ctx.Done(), then the deferred Stop.
RunStop ==
    /\ Alive
    /\ run = "serving"
    /\ ctxDone
    /\ StopBegin
    /\ run' = "stopping"
    /\ UNCHANGED <<main, ctxDone, workerVars>>

\* chat-cleanup's own stop function does nothing.
RunStopComponent(ok) ==
    /\ Alive
    /\ run = "stopping"
    /\ StopComponent(ok)
    /\ UNCHANGED <<procVars, workerVars>>

RunReturn ==
    /\ Alive
    /\ run = "stopping"
    /\ StopDone
    /\ run' = "returned"
    /\ startCtx' = "done"
    /\ UNCHANGED <<main, ctxDone, clock, worker, due, cleaned>>

RunStep == \/ RunStart \/ RunStarted \/ RunFails \/ RunStop \/ RunReturn
           \/ \E c \in Components :
                \/ RunStartComponent(c)
                \/ RunStartFails(c)
                \/ \E ok \in BOOLEAN : RunRollback(c, ok)
           \/ \E ok \in BOOLEAN : RunStopComponent(ok)

-----------------------------------------------------------------------------
(* Time, and the worker of chat-cleanup. *)
Tick ==
    LET now == (clock + 1) % CleanupInterval
    IN  /\ Alive
        /\ startCtx # "none"
        /\ clock' = now
        /\ startCtx' = IF now >= StartTimeout THEN "done" ELSE startCtx
        /\ due' = (due \/ (now = 0 /\ worker = "waiting"))
        /\ UNCHANGED <<vars, procVars, worker, cleaned>>

WorkerCleans ==
    /\ Alive
    /\ worker = "waiting"
    /\ due
    /\ due' = FALSE
    /\ cleaned' = TRUE
    /\ UNCHANGED <<vars, procVars, startCtx, clock, worker>>

WorkerEnds ==
    /\ Alive
    /\ worker = "waiting"
    /\ startCtx = "done"
    /\ worker' = "gone"
    /\ UNCHANGED <<vars, procVars, startCtx, clock, due, cleaned>>

ServerNext ==
    \/ \E c \in Components : MainRegister(c)
    \/ MainGoRun
    \/ MainSignal
    \/ MainExit
    \/ RunStep
    \/ Tick
    \/ WorkerCleans
    \/ WorkerEnds

ServerSpec == ServerInit /\ [][ServerNext]_allVars

(***************************************************************************)
(* Fairness: main, Run and the worker are scheduled, and time passes.      *)
(* Nothing is assumed of signals.                                          *)
(***************************************************************************)
ServerFairSpec ==
    /\ ServerSpec
    /\ WF_allVars(\E c \in Components : MainRegister(c))
    /\ WF_allVars(MainGoRun)
    /\ WF_allVars(MainExit)
    /\ WF_allVars(RunStep)
    /\ WF_allVars(Tick)
    /\ WF_allVars(WorkerCleans \/ WorkerEnds)

-----------------------------------------------------------------------------
\* Type invariant of the process.
ServerTypeOK ==
    /\ TypeOK
    /\ main \in {"registering", "waiting", "exited"}
    /\ run \in {"none", "start", "starting", "serving", "stopping", "returned", "failed"}
    /\ ctxDone \in BOOLEAN
    /\ startCtx \in {"none", "live", "done"}
    /\ clock \in 0 .. CleanupInterval - 1
    /\ worker \in {"none", "waiting", "gone"}
    /\ due \in BOOLEAN
    /\ cleaned \in BOOLEAN

\* The process comes up, or Run gives up, or it is told to stop: with fair
\* scheduling the loops of Start and of its rollback come to an end.
ComesUp == main = "waiting" ~> (run \in {"serving", "failed"} \/ ctxDone)
=============================================================================
