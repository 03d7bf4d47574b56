-------------------------------- MODULE ReAct --------------------------------
(***************************************************************************)
(* The ReAct graph an agent runs (internal/agent/graph): Invoke walks from  *)
(* the node "llm" to "tool" and back until "END", the step limit, an error  *)
(* or the end of the context.  The llm node retries its request and streams *)
(* what every attempt says; the tool node answers the calls one by one.     *)
(*                                                                         *)
(* Content is known by where it was said: <<step, attempt>>.  A tool's name *)
(* and arguments are part of its call, its result is left out.             *)
(***************************************************************************)
EXTENDS Integers, SequencesExt

CONSTANTS
    Runs,          \* executions
    CallLists,     \* the lists of tool calls that a model may ask for
    Attempts,      \* DefaultRetry.Attempts, 3 in the code
    DefaultSteps,  \* Invoke's limit when none is given, 10 in the code
    None           \* no content, no call, no run

ASSUME CallsAssumption == \A l \in CallLists : /\ l \in Seq(ToSet(l)) \ {<<>>}
                                               /\ IsInjective(l)
                                               /\ ~ Contains(l, None)
ASSUME AttemptsAssumption == Attempts \in Nat \ {0}
ASSUME StepsAssumption == DefaultSteps \in Nat \ {0}

VARIABLES
    g,      \* g[r]: the graph of r
    ctx     \* ctx[r]: "live", "expired" (the graph's own context is over) or "done"

CallIDs == UNION {ToSet(l) : l \in CallLists}

\* A capgateway.LLMMessage.
Message(role, content) == [role |-> role, content |-> content, calls |-> <<>>, answers |-> None]
Asks(calls)  == [Message("assistant", None) EXCEPT !.calls = calls]
Answers(id)  == [Message("tool", None) EXCEPT !.answers = id]

NoGraph == [pc |-> "none", node |-> "llm", step |-> 0, max |-> 0, attempt |-> 1,
            said |-> FALSE, log |-> <<>>, todo |-> <<>>, output |-> None]

Limit(n) == IF n <= 0 THEN DefaultSteps ELSE n

\* Invoke with these messages; a limit that is not positive is replaced.
Invoke(messages, max) == [NoGraph EXCEPT !.pc = "loop", !.log = messages, !.max = Limit(max)]

Move(r, new) == /\ g' = [g EXCEPT ![r] = new]
                /\ UNCHANGED ctx

GraphFails(r) == Move(r, [g[r] EXCEPT !.pc = "error"])

\* A node has returned: on to the next one.
Leave(r, node, new) == Move(r, [new EXCEPT !.pc = "loop", !.node = node, !.step = @ + 1])

-----------------------------------------------------------------------------
(***************************************************************************)
(* The head of the loop.  The limit is looked at before END is.            *)
(***************************************************************************)
InvokeReturns(r) ==
    /\ g[r].pc = "loop"
    /\ g[r].step < g[r].max
    /\ g[r].node = "END"
    /\ Move(r, [g[r] EXCEPT !.pc = "ok"])

MaxStepsReached(r) ==
    /\ g[r].pc = "loop"
    /\ g[r].step >= g[r].max
    /\ GraphFails(r)

\* Looked at before a node, and once more at the head of RetryFn.
InvokeCancelled(r) ==
    /\ g[r].pc = "loop"
    /\ g[r].step < g[r].max
    /\ g[r].node # "END"
    /\ ctx[r] # "live"
    /\ GraphFails(r)

EnterNode(r) ==
    /\ g[r].pc = "loop"
    /\ g[r].step < g[r].max
    /\ g[r].node # "END"
    /\ ctx[r] = "live"
    /\ IF g[r].node = "llm"
       THEN Move(r, [g[r] EXCEPT !.pc = "llm", !.attempt = 1, !.said = FALSE])
       ELSE Move(r, [g[r] EXCEPT !.pc = "tool", !.todo = Last(g[r].log).calls])

\* A panic in a node is recovered and ends the run.
NodePanics(r) ==
    /\ g[r].pc \in {"llm", "tool"}
    /\ GraphFails(r)

-----------------------------------------------------------------------------
(***************************************************************************)
(* The llm node: RetryFn around one request to the provider.               *)
(***************************************************************************)
Content(r) == <<g[r].step, g[r].attempt>>

\* The answer begins to come in.
Token(r) ==
    /\ g[r].pc = "llm"
    /\ ~ g[r].said
    /\ Move(r, [g[r] EXCEPT !.said = TRUE])

\* No tool calls: this is the output, empty when nothing was said.
LLMAnswers(r) ==
    LET said == IF g[r].said THEN Content(r) ELSE None
    IN  /\ g[r].pc = "llm"
        /\ Leave(r, "END", [g[r] EXCEPT !.output = said,
                                        !.log = Append(@, Message("assistant", said))])

LLMAsks(r, calls) ==
    /\ g[r].pc = "llm"
    /\ Leave(r, "tool", [g[r] EXCEPT !.log = Append(@, Asks(calls))])

\* The request fails, maybe in the middle of its answer.
LLMFails(r) ==
    /\ g[r].pc = "llm"
    /\ IF g[r].attempt < Attempts THEN Move(r, [g[r] EXCEPT !.pc = "backoff"])
                                  ELSE GraphFails(r)

\* Mutant of BackoffOver: attempts are not counted.
BackoffOverUncounted(r) ==
    /\ g[r].pc = "backoff"
    /\ Move(r, [g[r] EXCEPT !.pc = "llm", !.said = FALSE])

\* In the select either case may win when both are ready.
BackoffOver(r) ==
    /\ g[r].pc = "backoff"
    /\ Move(r, [g[r] EXCEPT !.pc = "llm", !.said = FALSE, !.attempt = @ + 1])

BackoffCancelled(r) ==
    /\ g[r].pc = "backoff"
    /\ ctx[r] # "live"
    /\ GraphFails(r)

-----------------------------------------------------------------------------
(***************************************************************************)
(* The tool node: a call that fails is answered with its error.            *)
(***************************************************************************)
\* Mutant of ToolReturns: a call that fails gets no answer.
ToolReturnsSkips(r, ok) ==
    /\ g[r].pc = "tool"
    /\ g[r].todo # <<>>
    /\ Move(r, [g[r] EXCEPT !.log = IF ok THEN Append(@, Answers(Head(g[r].todo))) ELSE @,
                            !.todo = Tail(@)])

\* Its result, or its error.
ToolReturns(r, ok) ==
    /\ g[r].pc = "tool"
    /\ g[r].todo # <<>>
    /\ Move(r, [g[r] EXCEPT !.log = Append(@, Answers(Head(g[r].todo))), !.todo = Tail(@)])

ToolNodeReturns(r) ==
    /\ g[r].pc = "tool"
    /\ g[r].todo = <<>>
    /\ Leave(r, "llm", g[r])

\* What a run does by itself, whether or not it says something on the way.
GraphStep(r) ==
    \/ InvokeReturns(r) \/ MaxStepsReached(r) \/ InvokeCancelled(r) \/ EnterNode(r)
    \/ LLMAnswers(r) \/ LLMFails(r) \/ \E calls \in CallLists : LLMAsks(r, calls)
    \/ BackoffOver(r) \/ BackoffCancelled(r)
    \/ \E ok \in BOOLEAN : ToolReturns(r, ok)
    \/ ToolNodeReturns(r)
    \/ NodePanics(r)

-----------------------------------------------------------------------------
GraphTypeOK ==
    \A r \in Runs :
        /\ g[r].pc \in {"none", "loop", "llm", "backoff", "tool", "ok", "error"}
        /\ g[r].node \in {"llm", "tool", "END"}
        /\ g[r].step \in 0 .. g[r].max
        /\ g[r].attempt \in 1 .. Attempts
        /\ g[r].said \in BOOLEAN
        /\ g[r].todo \in Seq(CallIDs)
        /\ ctx[r] \in {"live", "expired", "done"}

\* The messages of every request to the model are a conversation the model
\* accepts: the calls of each assistant message are answered right behind it,
\* in order and once each, whatever became of the tools, and nothing else is an
\* answer (makeToolNode).
WellFormedRequests ==
    \A r \in Runs : g[r].pc = "llm" =>
        LET log == g[r].log
        IN  /\ \A i \in 1 .. Len(log) : \A j \in 1 .. Len(log[i].calls) :
                 i + j <= Len(log) /\ log[i + j].answers = log[i].calls[j]
            /\ \A k \in 1 .. Len(log) : log[k].role = "tool" =>
                 \E i \in 1 .. k - 1 : /\ k - i <= Len(log[i].calls)
                                       /\ log[k].answers = log[i].calls[k - i]
=============================================================================
