--------------------------- MODULE AgentExecution ---------------------------
(***************************************************************************)
(* An agent's executions: the two handlers of api/handler/agent_handler.go  *)
(* around BaseAgent.Execute (internal/agent/agent.go), the conversation      *)
(* they read and write (chat_store.go, chat_handler.go) and the record they  *)
(* leave (execution_store.go).  The ReAct graph is that of module ReAct.     *)
(*                                                                         *)
(* Registry.Get builds a new agent for every request, so executions share    *)
(* only the conversation.  The handler without streaming runs on a context   *)
(* of its own; the streaming one on the context of its request.             *)
(***************************************************************************)
EXTENDS ReAct

CONSTANTS
    Requests,       \* Requests[r]: the requests r may be: the agent's type (or "post",
                    \* a message posted by the user interface), whether it streams and
                    \* talks in the conversation, its maxSteps (0 is none)
    MaxIterations,  \* the agent's own limit
    Window          \* HistoryWindow, 20 in the code

Request == [type : {"react", "cot", "other", "post"}, stream : BOOLEAN, talk : BOOLEAN, steps : Int]

ASSUME AuthorAssumption == None \notin Runs
ASSUME RequestsAssumption == \A r \in Runs : Requests[r] \subseteq Request
ASSUME LimitAssumption == MaxIterations \in Int
ASSUME WindowAssumption == Window \in Nat \ {0}

VARIABLES
    run,     \* run[r]: where the handler of r is, and what came of it
    conv,    \* the conversation: "none", "open" or "gone"
    stale,   \* its expires_at is over
    chat     \* its messages, by created_at

chatVars == <<conv, stale, chat>>
vars == <<g, ctx, run, chatVars>>

IdleRun == [pc |-> "idle", req |-> None, result |-> "none", lost |-> {}, sent |-> <<>>,
            record |-> "none"]

Init == /\ g = [r \in Runs |-> NoGraph]
        /\ ctx = [r \in Runs |-> "live"]
        /\ run = [r \in Runs |-> IdleRun]
        /\ conv = "none"
        /\ stale = FALSE
        /\ chat = <<>>

-----------------------------------------------------------------------------
(***************************************************************************)
(* The chat store.  A conversation's messages go with it.                  *)
(***************************************************************************)
AddMessage(role, r) ==
    /\ chat' = Append(chat, [role |-> role, of |-> r])
    /\ stale' = FALSE
    /\ UNCHANGED conv

CreateConversation ==
    /\ conv = "none"
    /\ conv' = "open"
    /\ UNCHANGED <<g, ctx, run, stale, chat>>

Forget == /\ conv' = "gone"
          /\ chat' = <<>>
          /\ UNCHANGED <<g, ctx, run, stale>>

DeleteConversation ==
    /\ conv = "open"
    /\ Forget

\* 30 days without a message.
Expire ==
    /\ conv = "open"
    /\ ~ stale
    /\ stale' = TRUE
    /\ UNCHANGED <<g, ctx, run, conv, chat>>

CleanupExpired ==
    /\ conv = "open"
    /\ stale
    /\ Forget

-----------------------------------------------------------------------------
(***************************************************************************)
(* ExecuteAgent and ExecuteAgentStream up to the model.                     *)
(***************************************************************************)
\* The option replaces the agent's limit, and Execute puts it back for 0.
StepLimit(n) == IF n = 0 THEN MaxIterations ELSE n

Begin(r, req) ==
    /\ run[r].pc = "idle"
    /\ req.type # "post"
    /\ req.talk => conv # "none"
    /\ run' = [run EXCEPT ![r].pc = "load", ![r].req = [req EXCEPT !.steps = StepLimit(@)]]
    /\ UNCHANGED <<g, ctx, chatVars>>

\* One answer at the end.
ExecuteAgent(r, req) ==
    /\ ~ req.stream
    /\ Begin(r, req)

\* Events on the way, if the model streams.
ExecuteAgentStream(r, req) ==
    /\ req.stream
    /\ Begin(r, req)

\* BuildInitMessages: the last messages of the history, "agent" renamed.
BuildInitMessages(history) ==
    LET n == IF Len(history) > Window THEN Window ELSE Len(history)
        recent == SubSeq(history, Len(history) - n + 1, Len(history))
    IN  <<Message("system", None)>> \o
        [i \in 1 .. n |-> Message(IF recent[i].role = "agent" THEN "assistant" ELSE "user",
                                  recent[i].of)]

\* A history that cannot be read is an empty one.
LoadHistory(r, ok) ==
    LET history == IF run[r].req.talk /\ ok /\ ctx[r] # "done" THEN chat ELSE <<>>
    IN  /\ run[r].pc = "load"
        /\ run' = [run EXCEPT ![r].pc = "execute"]
        /\ g' = IF run[r].req.type = "react"
                THEN [g EXCEPT ![r] = Invoke(Append(BuildInitMessages(history), Message("user", r)),
                                             run[r].req.steps)]
                ELSE g
        /\ UNCHANGED <<ctx, chatVars>>

\* The graph runs; with streaming, what an attempt says is sent as it comes,
\* until the context is over.
Execute(r) ==
    /\ run[r].pc = "execute"
    /\ GraphStep(r)
    /\ UNCHANGED <<run, chatVars>>

\* Mutant of Stream: only the first attempt is sent, so that nothing is repeated.
StreamFirstAttempt(r) ==
    /\ run[r].pc = "execute"
    /\ Token(r)
    /\ run' = IF run[r].req.stream /\ ctx[r] # "done" /\ g[r].attempt = 1
              THEN [run EXCEPT ![r].sent = Append(@, Content(r))] ELSE run
    /\ UNCHANGED chatVars

Stream(r) ==
    /\ run[r].pc = "execute"
    /\ Token(r)
    /\ run' = IF run[r].req.stream /\ ctx[r] # "done"
              THEN [run EXCEPT ![r].sent = Append(@, Content(r))] ELSE run
    /\ UNCHANGED chatVars

-----------------------------------------------------------------------------
(***************************************************************************)
(* The end of Execute: the exchange is saved if there was no error, in two   *)
(* transactions whose errors are only logged.                              *)
(***************************************************************************)
\* Mutant of Conclude: the exchange is saved whatever came of it.
ConcludeSaves(r, result) ==
    /\ run[r].pc = "execute"
    /\ run' = [run EXCEPT ![r].result = result, ![r].sent = <<>>,
                          ![r].pc = IF run[r].req.talk THEN "saveUser" ELSE "respond"]
    /\ g' = [g EXCEPT ![r] = NoGraph]
    /\ UNCHANGED <<ctx, chatVars>>

\* The graph's state goes; what was sent is no longer told apart.
Conclude(r, result) ==
    /\ run[r].pc = "execute"
    /\ run' = [run EXCEPT ![r].result = result, ![r].sent = <<>>,
                          ![r].pc = IF run[r].req.talk /\ result = "success"
                                    THEN "saveUser" ELSE "respond"]
    /\ g' = [g EXCEPT ![r] = NoGraph]
    /\ UNCHANGED <<ctx, chatVars>>

GraphSucceeded(r) ==
    /\ g[r].pc = "ok"
    /\ Conclude(r, "success")

GraphFailed(r) ==
    /\ g[r].pc = "error"
    /\ Conclude(r, "error")

\* A CoT agent thinks without a model; its answer is empty if it has fewer than
\* three steps.
ThinkCoT(r) ==
    /\ run[r].pc = "execute"
    /\ run[r].req.type = "cot"
    /\ Conclude(r, "success")

\* The other types are not implemented; a ReAct agent without a gateway ends
\* the same way.
NotImplemented(r) ==
    /\ run[r].pc = "execute"
    /\ run[r].req.type = "other"
    /\ Conclude(r, "error")

\* One message: the conversation is still there and the context not over, or
\* the transaction fails.
Save(author, r, role, ok) ==
    IF ok THEN conv = "open" /\ ctx[r] # "done" /\ AddMessage(role, author)
          ELSE UNCHANGED chatVars

SaveUser(r, ok) ==
    /\ run[r].pc = "saveUser"
    /\ Save(r, r, "user", ok)
    /\ run' = [run EXCEPT ![r].pc = "saveAgent", ![r].lost = IF ok THEN @ ELSE @ \cup {"user"}]
    /\ UNCHANGED <<g, ctx>>

SaveAgent(r, ok) ==
    /\ run[r].pc = "saveAgent"
    /\ Save(r, r, "agent", ok)
    /\ run' = [run EXCEPT ![r].pc = "respond", ![r].lost = IF ok THEN @ ELSE @ \cup {"agent"}]
    /\ UNCHANGED <<g, ctx>>

\* The answer, or the events "done" and "error" of a stream.  The record is
\* inserted by a goroutine of its own, and the context is cancelled.
Respond(r) ==
    /\ run[r].pc = "respond"
    /\ run' = [run EXCEPT ![r].pc = "done", ![r].record = "pending"]
    /\ ctx' = [ctx EXCEPT ![r] = "done"]
    /\ UNCHANGED <<g, chatVars>>

\* An insert that fails leaves no record, and nobody hears of it.
Insert(r) ==
    /\ run[r].record = "pending"
    /\ run' = [run EXCEPT ![r].record = run[r].result]
    /\ UNCHANGED <<g, ctx, chatVars>>

-----------------------------------------------------------------------------
(***************************************************************************)
(* ChatHandler.AddMessage: ListMessages, whose result is not used, then     *)
(* AddMessage.                                                             *)
(***************************************************************************)
PostBegin(r, req) ==
    /\ run[r].pc = "idle"
    /\ req.type = "post"
    /\ conv # "none"
    /\ run' = [run EXCEPT ![r].pc = "post", ![r].req = req]
    /\ UNCHANGED <<g, ctx, chatVars>>

PostMessage(r, role, ok) ==
    /\ run[r].pc = "post"
    /\ Save(None, r, role, ok)
    /\ run' = [run EXCEPT ![r].pc = "posted", ![r].result = IF ok THEN "success" ELSE "error"]
    /\ UNCHANGED <<g, ctx>>

-----------------------------------------------------------------------------
\* The timeout of the request's options is over; it holds for the graph only.
Timeout(r) ==
    /\ run[r].pc = "execute"
    /\ run[r].req.type = "react"
    /\ ctx[r] = "live"
    /\ ctx' = [ctx EXCEPT ![r] = "expired"]
    /\ UNCHANGED <<g, run, chatVars>>

\* AgentExecTimeout is over, or the client of a stream is gone.
ContextDone(r) ==
    /\ run[r].pc \notin {"idle", "done", "posted"}
    /\ ctx[r] # "done"
    /\ ctx' = [ctx EXCEPT ![r] = "done"]
    /\ UNCHANGED <<g, run, chatVars>>

RunStep(r) ==
    \/ \E ok \in BOOLEAN : LoadHistory(r, ok) \/ SaveUser(r, ok) \/ SaveAgent(r, ok)
                           \/ \E role \in {"user", "agent"} : PostMessage(r, role, ok)
    \/ Execute(r)
    \/ GraphSucceeded(r) \/ GraphFailed(r) \/ ThinkCoT(r) \/ NotImplemented(r)
    \/ Respond(r)

Next ==
    \/ CreateConversation \/ DeleteConversation \/ Expire \/ CleanupExpired
    \/ \E r \in Runs :
         \/ \E req \in Requests[r] :
              ExecuteAgent(r, req) \/ ExecuteAgentStream(r, req) \/ PostBegin(r, req)
         \/ RunStep(r)
         \/ Stream(r)
         \/ Insert(r)
         \/ Timeout(r)
         \/ ContextDone(r)

Spec == Init /\ [][Next]_vars

\* Every request made on behalf of a run ends: it carries the run's context,
\* and that has a deadline.
FairSpec == Spec /\ \A r \in Runs : WF_vars(RunStep(r))

-----------------------------------------------------------------------------
\* Type invariant; a graph never takes more steps than it has, a node never
\* more attempts.
TypeOK ==
    /\ GraphTypeOK
    /\ conv \in {"none", "open", "gone"}
    /\ stale \in BOOLEAN
    /\ chat \in Seq([role : {"user", "agent"}, of : Runs \cup {None}])
    /\ \A r \in Runs :
         /\ run[r].req \in Request \cup {None}
         /\ run[r].pc \in {"idle", "load", "execute", "saveUser", "saveAgent", "respond", "done",
                           "post", "posted"}
         /\ run[r].result \in {"none", "success", "error"}
         /\ run[r].lost \subseteq {"user", "agent"}
         /\ run[r].record \in {"none", "pending", "success", "error"}

\* Where the conversation holds what r said in this role.
Said(r, role) == {i \in DOMAIN chat : chat[i] = [role |-> role, of |-> r]}

\* What is left of a run agrees with what its client was told.  In a
\* conversation that still exists, a run that answered has its question and its
\* answer, once each and in this order, except what could not be saved; a run
\* that failed has nothing, however far its graph had come.  Its record says
\* the same, if it was written.
OutcomesAgree ==
    \A r \in Runs : run[r].pc = "done" =>
        /\ run[r].record \in {"pending", run[r].result}
        /\ (conv = "open" /\ run[r].req.talk) =>
             /\ \A role \in {"user", "agent"} :
                  IF run[r].result = "success" /\ role \notin run[r].lost
                  THEN \E i \in DOMAIN chat : Said(r, role) = {i}
                  ELSE Said(r, role) = {}
             /\ \A i \in Said(r, "user"), j \in Said(r, "agent") : i < j

\* The output of a graph that ends well is the last thing the model said and,
\* in a stream that was not broken off, the last thing the client was sent,
\* although attempts that failed and rounds that asked for tools were sent
\* before it.
StreamEndsWithAnswer ==
    \A r \in Runs : g[r].pc = "ok" =>
        /\ Last(g[r].log).content = g[r].output
        /\ (run[r].req.stream /\ ctx[r] # "done" /\ g[r].output # None) =>
             /\ run[r].sent # <<>>
             /\ Last(run[r].sent) = g[r].output

\* Every execution answers its client, whatever the model and the tools do.
RunReturns == \A r \in Runs : run[r].pc # "idle" ~> run[r].pc \in {"done", "posted"}
=============================================================================
