------------------------ MODULE AgentExecutionProofs ------------------------
(***************************************************************************)
(* Proofs about AgentExecution and the ReAct graph: types, the conversation   *)
(* with the model, the end of a stream, and what an execution leaves behind.   *)
(***************************************************************************)
EXTENDS AgentExecution, SequenceTheorems, TLAPS

(***************************************************************************)
(* Types.                                                                  *)
(***************************************************************************)
Contents == Runs \cup {None} \cup (Nat \X Nat)

Msg == [role : {"system", "user", "assistant", "tool"}, content : Contents,
        calls : Seq(CallIDs), answers : CallIDs \cup {None}]

Graph == [pc : {"none", "loop", "llm", "backoff", "tool", "ok", "error"},
          node : {"llm", "tool", "END"}, step : Nat, max : Nat, attempt : 1 .. Attempts,
          said : BOOLEAN, log : Seq(Msg), todo : Seq(CallIDs), output : Contents]

Run == [pc : {"idle", "load", "execute", "saveUser", "saveAgent", "respond", "done",
              "post", "posted"},
        req : Request \cup {None}, result : {"none", "success", "error"},
        lost : SUBSET {"user", "agent"}, sent : Seq(Nat \X Nat),
        record : {"none", "pending", "success", "error"}]

ChatMsg == [role : {"user", "agent"}, of : Runs \cup {None}]

TypeInv == /\ g \in [Runs -> Graph]
           /\ ctx \in [Runs -> {"live", "expired", "done"}]
           /\ run \in [Runs -> Run]
           /\ conv \in {"none", "open", "gone"}
           /\ stale \in BOOLEAN
           /\ chat \in Seq(ChatMsg)
           /\ \A r \in Runs : run[r].pc # "idle" => run[r].req \in Request
           /\ \A r \in Runs : g[r].pc \notin {"none", "error"} => g[r].log # <<>>

-----------------------------------------------------------------------------
(***************************************************************************)
(* The inductive invariant, run by run.                                     *)
(***************************************************************************)
\* A graph lives while its run executes, and keeps to its limits.
InLimits(r) ==
    /\ g[r].pc # "none" => run[r].pc = "execute"
    /\ g[r].step <= g[r].max
    /\ g[r].pc \in {"llm", "backoff", "tool"} => g[r].step < g[r].max
    /\ g[r].pc = "backoff" => g[r].attempt < Attempts

\* The calls of the model that still have to be answered.
Owed(x) == IF x.pc = "tool" THEN x.todo
           ELSE IF x.pc = "loop" /\ x.node = "tool" THEN Last(x.log).calls
           ELSE <<>>

\* A conversation in which all calls are answered but those that are owed: the
\* calls of a message are answered right behind it, and what is owed will be.
Conversation(log, owed) ==
    /\ \A i \in 1 .. Len(log) : \A j \in 1 .. Len(log[i].calls) :
         \/ i + j <= Len(log) /\ log[i + j].answers = log[i].calls[j]
         \/ /\ i + j > Len(log)
            /\ i + j - Len(log) <= Len(owed)
            /\ owed[i + j - Len(log)] = log[i].calls[j]
    /\ \A k \in 1 .. Len(log) : log[k].role = "tool" =>
         \E i \in 1 .. k - 1 : /\ k - i <= Len(log[i].calls)
                               /\ log[k].answers = log[i].calls[k - i]
    /\ \A k \in 1 .. Len(owed) :
         \E i \in 1 .. Len(log) : /\ Len(log) + k - i <= Len(log[i].calls)
                                  /\ owed[k] = log[i].calls[Len(log) + k - i]

Converses(r) ==
    g[r].pc \notin {"none", "error"} => Conversation(g[r].log, Owed(g[r]))

\* A stream that is not broken off has sent the answer that is coming in, and
\* at the end the output.
Heard(r, content) == /\ run[r].sent # <<>>
                     /\ run[r].sent[Len(run[r].sent)] = content

Unbroken(r) == run[r].req.stream /\ ctx[r] # "done"

Streams(r) ==
    /\ g[r].pc = "llm" /\ g[r].said /\ Unbroken(r) => Heard(r, Content(r))
    /\ g[r].pc = "ok" \/ (g[r].pc = "loop" /\ g[r].node = "END") =>
         /\ g[r].log[Len(g[r].log)].content = g[r].output
         /\ Unbroken(r) /\ g[r].output # None => Heard(r, g[r].output)

\* What the conversation should hold of a run.
Saved(r, role) ==
    /\ run[r].pc \in {"respond", "done"} \/ (run[r].pc = "saveAgent" /\ role = "user")
    /\ run[r].req.talk
    /\ run[r].result = "success"
    /\ role \notin run[r].lost

\* The talk is in a conversation that was there; the messages of a run are in
\* it, once each and in their order; the record says what came of the run.
Leaves(r) ==
    /\ run[r].pc # "idle" /\ run[r].req.talk => conv # "none"
    /\ run[r].pc \in {"saveUser", "saveAgent"} => run[r].req.talk /\ run[r].result = "success"
    /\ run[r].pc \in {"idle", "load", "execute", "saveUser"} => run[r].lost = {}
    /\ run[r].pc = "saveAgent" => run[r].lost \subseteq {"user"}
    /\ conv # "gone" =>
         /\ \A role \in {"user", "agent"} :
              IF Saved(r, role) THEN \E i \in Said(r, role) : Said(r, role) = {i}
                                ELSE Said(r, role) = {}
         /\ \A i \in Said(r, "user"), j \in Said(r, "agent") : i < j
    /\ run[r].record = "pending" => run[r].pc = "done"
    /\ run[r].pc = "done" => run[r].record \in {"pending", run[r].result}

-----------------------------------------------------------------------------
(***************************************************************************)
(* Types are kept.                                                         *)
(***************************************************************************)
\* The calls a model may ask for are a sequence of calls, and not empty.
LEMMA CallsTyped ==
    ASSUME NEW calls \in CallLists
    PROVE  calls \in Seq(CallIDs) /\ calls # <<>> /\ Len(calls) > 0
  <1>1. calls \in Seq(ToSet(calls)) /\ calls # <<>>
    BY CallsAssumption
  <1>2. ToSet(calls) \subseteq CallIDs
    BY DEF CallIDs
  <1> QED
    BY <1>1, <1>2

\* What the constructors of messages return.
LEMMA MessagesTyped ==
    /\ \A role \in {"system", "user", "assistant", "tool"}, content \in Contents :
         /\ Message(role, content) \in Msg
         /\ Message(role, content).role = role
         /\ Message(role, content).content = content
         /\ Message(role, content).calls = <<>>
    /\ \A calls \in Seq(CallIDs) :
         /\ Asks(calls) \in Msg
         /\ Asks(calls).role = "assistant"
         /\ Asks(calls).calls = calls
    /\ \A id \in CallIDs :
         /\ Answers(id) \in Msg
         /\ Answers(id).role = "tool"
         /\ Answers(id).calls = <<>>
         /\ Answers(id).answers = id
  <1>1. <<>> \in Seq(CallIDs) /\ None \in Contents
    BY DEF Contents
  <1>2. ASSUME NEW role \in {"system", "user", "assistant", "tool"}, NEW content \in Contents
        PROVE  /\ Message(role, content) \in Msg
               /\ Message(role, content).role = role
               /\ Message(role, content).content = content
               /\ Message(role, content).calls = <<>>
    BY <1>1 DEF Message, Msg
  <1>3. ASSUME NEW calls \in Seq(CallIDs)
        PROVE  /\ Asks(calls) \in Msg
               /\ Asks(calls).role = "assistant"
               /\ Asks(calls).calls = calls
    BY <1>1 DEF Message, Asks, Msg
  <1>4. ASSUME NEW id \in CallIDs
        PROVE  /\ Answers(id) \in Msg
               /\ Answers(id).role = "tool"
               /\ Answers(id).calls = <<>>
               /\ Answers(id).answers = id
    BY <1>1 DEF Message, Answers, Msg
  <1> QED
    BY <1>2, <1>3, <1>4

\* Neither calls nor answers.
Plain(log) == \A i \in 1 .. Len(log) : log[i].calls = <<>> /\ log[i].role # "tool"

LEMMA PlainConcat ==
    ASSUME NEW s \in Seq(Msg), NEW t \in Seq(Msg), Plain(s), Plain(t)
    PROVE  s \o t \in Seq(Msg) /\ Len(s \o t) = Len(s) + Len(t) /\ Plain(s \o t)
  <1>1. /\ s \o t \in Seq(Msg) /\ Len(s \o t) = Len(s) + Len(t)
        /\ \A i \in 1 .. Len(s) + Len(t) :
             (s \o t)[i] = IF i <= Len(s) THEN s[i] ELSE t[i - Len(s)]
    BY ConcatProperties
  <1> QED
    BY <1>1 DEF Plain

\* BuildInitMessages makes of a history a conversation without calls, and
\* never an empty one.
LEMMA InitMessages ==
    ASSUME NEW history \in Seq(ChatMsg)
    PROVE  /\ BuildInitMessages(history) \in Seq(Msg)
           /\ Len(BuildInitMessages(history)) > 0
           /\ Plain(BuildInitMessages(history))
  <1> DEFINE n == IF Len(history) > Window THEN Window ELSE Len(history)
             recent == SubSeq(history, Len(history) - n + 1, Len(history))
             M(i) == Message(IF recent[i].role = "agent" THEN "assistant" ELSE "user",
                             recent[i].of)
             tail == [i \in 1 .. n |-> M(i)]
             first == <<Message("system", None)>>
  <1>1. n \in Nat /\ n <= Len(history)
    BY WindowAssumption
  <1>2. recent \in Seq(ChatMsg) /\ Len(recent) = n
    BY <1>1
  <1>3. ASSUME NEW i \in 1 .. n
        PROVE  M(i) \in Msg /\ M(i).calls = <<>> /\ M(i).role # "tool"
    <2>1. recent[i] \in ChatMsg
      <3> HIDE DEF recent, n
      <3> QED
        BY <1>1, <1>2
    <2>2. recent[i].of \in Contents
      BY <2>1 DEF ChatMsg, Contents
    <2> HIDE DEF recent
    <2>3. M(i) = Message("assistant", recent[i].of) \/ M(i) = Message("user", recent[i].of)
      OBVIOUS
    <2> QED
      BY <2>2, <2>3, MessagesTyped
  <1>4. tail \in Seq(Msg) /\ Len(tail) = n /\ \A i \in 1 .. n : tail[i] = M(i)
    <2> HIDE DEF n, M
    <2> QED
      BY <1>1, <1>3
  <1>5. tail \in Seq(Msg) /\ Plain(tail) /\ Len(tail) \in Nat
    <2> HIDE DEF tail, M
    <2> QED
      BY <1>1, <1>3, <1>4 DEF Plain
  <1>6. first \in Seq(Msg) /\ Plain(first) /\ Len(first) = 1
    BY MessagesTyped DEF Contents, Plain
  <1>7. BuildInitMessages(history) = first \o tail
    BY DEF BuildInitMessages
  <1> HIDE DEF first, tail
  <1> QED
    BY <1>5, <1>6, <1>7, PlainConcat, SMTT(30)

\* A step of a graph, or a token, changes one graph and keeps its type.
LEMMA GraphStepTyped ==
    ASSUME TypeInv, NEW r \in Runs, GraphStep(r) \/ Token(r), InLimits(r)
    PROVE  /\ g' \in [Runs -> Graph]
           /\ g'[r].pc \notin {"none", "error"} => g'[r].log # <<>>
           /\ \A q \in Runs : q # r => g'[q] = g[q]
           /\ ctx' = ctx
  <1>0. /\ g \in [Runs -> Graph] /\ g[r] \in Graph
        /\ g[r].pc \notin {"none", "error"} => g[r].log # <<>>
    BY DEF TypeInv
  <1>a. None \in Contents /\ Attempts \in Nat /\ Attempts > 0 /\ 1 \in 1 .. Attempts
    BY AttemptsAssumption DEF Contents
  <1>b. g[r].step \in Nat /\ g[r].attempt \in Nat /\ g[r].log \in Seq(Msg) /\ g[r].todo \in Seq(CallIDs)
    BY <1>0, <1>a DEF Graph
  <1>c. <<g[r].step, g[r].attempt>> \in Contents
    BY <1>b DEF Contents
  <1>1. ASSUME NEW new \in Graph, Move(r, new), new.pc = "error" \/ new.log # <<>>
        PROVE  /\ g' \in [Runs -> Graph]
               /\ g'[r].pc \notin {"none", "error"} => g'[r].log # <<>>
               /\ \A q \in Runs : q # r => g'[q] = g[q]
               /\ ctx' = ctx
    BY <1>0, <1>1 DEF Move
  <1>d. ASSUME NEW new \in Graph, NEW node \in {"llm", "tool", "END"}, Leave(r, node, new),
               new.log # <<>>
        PROVE  /\ g' \in [Runs -> Graph]
               /\ g'[r].pc \notin {"none", "error"} => g'[r].log # <<>>
               /\ \A q \in Runs : q # r => g'[q] = g[q]
               /\ ctx' = ctx
    <2>1. new.step + 1 \in Nat
      BY DEF Graph
    <2>2. [new EXCEPT !.pc = "loop", !.node = node, !.step = @ + 1] \in Graph
      BY <2>1 DEF Graph
    <2>3. [new EXCEPT !.pc = "loop", !.node = node, !.step = @ + 1].log = new.log
      BY DEF Graph
    <2> QED
      BY <1>1, <1>d, <2>2, <2>3 DEF Leave
  <1>e. ASSUME NEW m \in Msg
        PROVE  Append(g[r].log, m) \in Seq(Msg) /\ Append(g[r].log, m) # <<>>
    BY <1>b, AppendProperties
  <1>2. CASE InvokeReturns(r)
    <2>1. [g[r] EXCEPT !.pc = "ok"] \in Graph /\ [g[r] EXCEPT !.pc = "ok"].log = g[r].log
      BY <1>0 DEF Graph
    <2> QED
      BY <1>0, <1>1, <1>2, <2>1 DEF InvokeReturns
  <1>3. CASE GraphFails(r)
    <2>1. [g[r] EXCEPT !.pc = "error"] \in Graph /\ [g[r] EXCEPT !.pc = "error"].pc = "error"
      BY <1>0 DEF Graph
    <2> QED
      BY <1>1, <1>3, <2>1 DEF GraphFails
  <1>4. CASE EnterNode(r)
    <2>1. CASE g[r].node = "llm"
      <3> DEFINE new == [g[r] EXCEPT !.pc = "llm", !.attempt = 1, !.said = FALSE]
      <3>1. new \in Graph /\ new.log = g[r].log
        BY <1>0, <1>a DEF Graph
      <3> QED
        BY <1>0, <1>1, <1>4, <2>1, <3>1 DEF EnterNode
    <2>2. CASE g[r].node # "llm"
      <3> DEFINE new == [g[r] EXCEPT !.pc = "tool", !.todo = Last(g[r].log).calls]
      <3>1. g[r].log # <<>>
        BY <1>0, <1>4 DEF EnterNode
      <3>2. Last(g[r].log) \in Msg
        BY <1>b, <3>1 DEF Last
      <3>3. Last(g[r].log).calls \in Seq(CallIDs)
        BY <3>2 DEF Msg
      <3>4. new \in Graph /\ new.log = g[r].log
        BY <1>0, <3>3 DEF Graph
      <3> QED
        BY <1>0, <1>1, <1>4, <2>2, <3>1, <3>4 DEF EnterNode
    <2> QED
      BY <2>1, <2>2
  <1>5. CASE Token(r)
    <2> DEFINE new == [g[r] EXCEPT !.said = TRUE]
    <2>1. new \in Graph /\ new.log = g[r].log
      BY <1>0 DEF Graph
    <2> QED
      BY <1>0, <1>1, <1>5, <2>1 DEF Token
  <1>6. CASE LLMAnswers(r)
    <2> DEFINE said == IF g[r].said THEN Content(r) ELSE None
               log == Append(g[r].log, Message("assistant", said))
               new == [g[r] EXCEPT !.output = said,
                                   !.log = Append(@, Message("assistant", said))]
    <2>1. said \in Contents
      BY <1>a, <1>c DEF Content
    <2>2. log \in Seq(Msg) /\ log # <<>>
      <3> HIDE DEF said
      <3> QED
        BY <1>e, <2>1, MessagesTyped
    <2>3. new = [g[r] EXCEPT !.output = said, !.log = log]
      OBVIOUS
    <2>4. new \in Graph /\ new.log = log
      <3> HIDE DEF said, log, new
      <3> QED
        BY <1>0, <2>1, <2>2, <2>3 DEF Graph
    <2>5. Leave(r, "END", new)
      BY <1>6 DEF LLMAnswers
    <2> HIDE DEF new, log
    <2> QED
      BY <1>d, <2>2, <2>4, <2>5
  <1>7. ASSUME NEW calls \in CallLists, LLMAsks(r, calls)
        PROVE  /\ g' \in [Runs -> Graph]
               /\ g'[r].pc \notin {"none", "error"} => g'[r].log # <<>>
               /\ \A q \in Runs : q # r => g'[q] = g[q]
               /\ ctx' = ctx
    <2> DEFINE log == Append(g[r].log, Asks(calls))
               new == [g[r] EXCEPT !.log = Append(@, Asks(calls))]
    <2>1. log \in Seq(Msg) /\ log # <<>>
      BY <1>e, MessagesTyped, CallsTyped
    <2>2. new = [g[r] EXCEPT !.log = log]
      OBVIOUS
    <2>3. new \in Graph /\ new.log = log
      <3> HIDE DEF log, new
      <3> QED
        BY <1>0, <2>1, <2>2 DEF Graph
    <2>4. Leave(r, "tool", new)
      BY <1>7 DEF LLMAsks
    <2> HIDE DEF new, log
    <2> QED
      BY <1>d, <2>1, <2>3, <2>4
  <1>8. CASE LLMFails(r)
    <2> DEFINE new == [g[r] EXCEPT !.pc = "backoff"]
    <2>1. new \in Graph /\ new.log = g[r].log
      BY <1>0 DEF Graph
    <2> QED
      BY <1>0, <1>1, <1>3, <1>8, <2>1 DEF LLMFails
  <1>9. CASE BackoffOver(r)
    <2> DEFINE new == [g[r] EXCEPT !.pc = "llm", !.said = FALSE, !.attempt = @ + 1]
    <2>1. g[r].attempt + 1 \in 1 .. Attempts
      BY <1>a, <1>b, <1>9 DEF BackoffOver, InLimits
    <2>2. new \in Graph /\ new.log = g[r].log
      BY <1>0, <2>1 DEF Graph
    <2> QED
      BY <1>0, <1>1, <1>9, <2>2 DEF BackoffOver
  <1>10. ASSUME NEW ok \in BOOLEAN, ToolReturns(r, ok)
         PROVE  /\ g' \in [Runs -> Graph]
                /\ g'[r].pc \notin {"none", "error"} => g'[r].log # <<>>
                /\ \A q \in Runs : q # r => g'[q] = g[q]
                /\ ctx' = ctx
    <2> DEFINE log == Append(g[r].log, Answers(Head(g[r].todo)))
               todo == Tail(g[r].todo)
               new == [g[r] EXCEPT !.log = Append(@, Answers(Head(g[r].todo))), !.todo = Tail(@)]
    <2>1. Head(g[r].todo) \in CallIDs /\ todo \in Seq(CallIDs)
      BY <1>b, <1>10, HeadTailProperties DEF ToolReturns
    <2>2. log \in Seq(Msg) /\ log # <<>>
      BY <1>e, <2>1, MessagesTyped
    <2>3. new = [g[r] EXCEPT !.log = log, !.todo = todo]
      OBVIOUS
    <2>4. Move(r, new)
      BY <1>10 DEF ToolReturns
    <2> HIDE DEF new, log, todo
    <2>5. new \in Graph /\ new.log = log
      BY <1>0, <2>1, <2>2, <2>3 DEF Graph
    <2> QED
      BY <1>1, <2>2, <2>4, <2>5
  <1>11. CASE ToolNodeReturns(r)
    BY <1>0, <1>d, <1>11 DEF ToolNodeReturns
  <1> QED
    BY <1>2, <1>3, <1>4, <1>5, <1>6, <1>7, <1>8, <1>9, <1>10, <1>11
    DEF GraphStep, MaxStepsReached, InvokeCancelled, BackoffCancelled, NodePanics
\* A step of a graph keeps to the limits: a node is entered below the limit of
\* steps, and left by one step more; an attempt is made below that of attempts.
LEMMA GraphStepInLimits ==
    ASSUME TypeInv, NEW r \in Runs, GraphStep(r) \/ Token(r), InLimits(r),
           run[r].pc = "execute", run'[r].pc = "execute"
    PROVE  InLimits(r)'
  <1>0. /\ g \in [Runs -> Graph] /\ g[r] \in Graph
        /\ g[r].step \in Nat /\ g[r].max \in Nat /\ g[r].attempt \in Nat /\ Attempts \in Nat
    BY AttemptsAssumption DEF TypeInv, Graph
  <1>1. CASE GraphFails(r)
    BY <1>0, <1>1 DEF GraphFails, Move, InLimits, Graph
  <1>2. CASE InvokeReturns(r)
    BY <1>0, <1>2 DEF InvokeReturns, Move, InLimits, Graph
  <1>3. CASE EnterNode(r)
    <2>1. CASE g[r].node = "llm"
      <3>1. /\ g'[r] = [g[r] EXCEPT !.pc = "llm", !.attempt = 1, !.said = FALSE]
            /\ g[r].step < g[r].max
        BY <1>0, <1>3, <2>1 DEF EnterNode, Move
      <3>2. g'[r].pc = "llm" /\ g'[r].step = g[r].step /\ g'[r].max = g[r].max
        BY <1>0, <3>1 DEF Graph
      <3> QED
        BY <1>0, <3>1, <3>2 DEF InLimits
    <2>2. CASE g[r].node # "llm"
      BY <1>0, <1>3, <2>2, ZenonT(30) DEF EnterNode, Move, InLimits, Graph
    <2> QED
      BY <2>1, <2>2
  <1>4. CASE Token(r)
    BY <1>0, <1>4 DEF Token, Move, InLimits, Graph
  <1>5. CASE LLMAnswers(r)
    BY <1>0, <1>5 DEF LLMAnswers, Move, InLimits, Graph, Leave
  <1>6. CASE LLMFails(r)
    BY <1>0, <1>6, ZenonT(30) DEF LLMFails, Move, InLimits, Graph, GraphFails
  <1>7. CASE BackoffOver(r)
    BY <1>0, <1>7 DEF BackoffOver, Move, InLimits, Graph
  <1>8. CASE ToolNodeReturns(r)
    BY <1>0, <1>8 DEF ToolNodeReturns, Move, InLimits, Graph, Leave
  <1>9. ASSUME NEW calls \in CallLists, LLMAsks(r, calls)
        PROVE  InLimits(r)'
    BY <1>0, <1>9 DEF LLMAsks, Leave, Move, InLimits, Graph
  <1>10. ASSUME NEW ok \in BOOLEAN, ToolReturns(r, ok)
         PROVE  InLimits(r)'
    BY <1>0, <1>10 DEF ToolReturns, Move, InLimits, Graph
  <1> QED
    BY <1>1, <1>2, <1>3, <1>4, <1>5, <1>6, <1>7, <1>8, <1>9, <1>10
    DEF GraphStep, MaxStepsReached, InvokeCancelled, BackoffCancelled, NodePanics
\* What there is of a graph before and after its run.
LEMMA NoGraphTyped ==
    NoGraph \in Graph /\ NoGraph.pc = "none" /\ NoGraph.step = 0 /\ NoGraph.max = 0
  BY AttemptsAssumption DEF NoGraph, Graph, Contents

LimitInv == TypeInv /\ \A r \in Runs : InLimits(r)

\* Types and limits hold at the start.
LEMMA LimitInit == Init => LimitInv
  <1> SUFFICES ASSUME Init PROVE LimitInv
    OBVIOUS
  <1>1. NoGraph \in Graph /\ NoGraph.pc = "none" /\ NoGraph.step = 0 /\ NoGraph.max = 0
    BY NoGraphTyped
  <1>2. IdleRun \in Run /\ IdleRun.pc = "idle"
    BY DEF IdleRun, Run
  <1> QED
    <2>1. TypeInv
      <3>1. g \in [Runs -> Graph] /\ run \in [Runs -> Run]
        BY <1>1, <1>2 DEF Init
      <3>2. chat \in Seq(ChatMsg)
        BY DEF Init
      <3> QED
        BY <1>1, <1>2, <3>1, <3>2 DEF Init, TypeInv
    <2>2. ASSUME NEW r \in Runs PROVE InLimits(r)
      BY <1>1 DEF Init, InLimits
    <2> QED
      BY <2>1, <2>2 DEF LimitInv

\* The conversation is a sequence of messages whatever is saved.
LEMMA SaveTyped ==
    ASSUME TypeInv, NEW author \in Runs \cup {None}, NEW r \in Runs,
           NEW role \in {"user", "agent"}, NEW ok \in BOOLEAN, Save(author, r, role, ok)
    PROVE  /\ conv' \in {"none", "open", "gone"} /\ conv' = conv
           /\ stale' \in BOOLEAN
           /\ chat' \in Seq(ChatMsg)
  <1>1. [role |-> role, of |-> author] \in ChatMsg
    BY DEF ChatMsg
  <1>2. Append(chat, [role |-> role, of |-> author]) \in Seq(ChatMsg)
    BY <1>1 DEF TypeInv
  <1> QED
    BY <1>2 DEF TypeInv, Save, AddMessage, chatVars

\* Types and limits are kept when the graph of a run and its context stay, and
\* the run is not executing before or still is.
LEMMA RunStepKeeps ==
    ASSUME LimitInv, NEW r \in Runs, NEW x \in Run, run' = [run EXCEPT ![r] = x], g' = g,
           x.pc # "idle" => x.req \in Request, run[r].pc # "execute" \/ x.pc = "execute",
           ctx' \in [Runs -> {"live", "expired", "done"}],
           conv' \in {"none", "open", "gone"}, stale' \in BOOLEAN, chat' \in Seq(ChatMsg)
    PROVE  LimitInv'
  <1>1. TypeInv'
    BY DEF LimitInv, TypeInv
  <1>2. ASSUME NEW q \in Runs PROVE InLimits(q)'
    BY DEF LimitInv, TypeInv, InLimits
  <1> QED
    BY <1>1, <1>2 DEF LimitInv

\* Types and limits are kept by every step.
LEMMA LimitStep == LimitInv /\ [Next]_vars => LimitInv'
  <1> SUFFICES ASSUME LimitInv, [Next]_vars PROVE LimitInv'
    OBVIOUS
  <1>0. /\ g \in [Runs -> Graph] /\ ctx \in [Runs -> {"live", "expired", "done"}]
        /\ run \in [Runs -> Run] /\ conv \in {"none", "open", "gone"} /\ stale \in BOOLEAN
        /\ chat \in Seq(ChatMsg)
    BY DEF LimitInv, TypeInv
  <1>1. ASSUME UNCHANGED <<g, ctx, run>>, conv' \in {"none", "open", "gone"}, stale' \in BOOLEAN,
               chat' \in Seq(ChatMsg)
        PROVE  LimitInv'
    BY <1>1 DEF LimitInv, TypeInv, InLimits
  <1>2. CASE UNCHANGED vars
    BY <1>0, <1>1, <1>2 DEF vars, chatVars
  <1>3. CASE CreateConversation
    BY <1>0, <1>1, <1>3 DEF CreateConversation
  <1>4. CASE DeleteConversation
    BY <1>0, <1>1, <1>4 DEF DeleteConversation, Forget
  <1>5. CASE Expire
    BY <1>0, <1>1, <1>5 DEF Expire
  <1>6. CASE CleanupExpired
    BY <1>0, <1>1, <1>6 DEF CleanupExpired, Forget
  <1>7. ASSUME NEW r \in Runs, NEW req \in Requests[r], Begin(r, req)
        PROVE  LimitInv'
    <2> DEFINE asked == [req EXCEPT !.steps = StepLimit(@)]
               x == [run[r] EXCEPT !.pc = "load", !.req = asked]
    <2>1. asked \in Request
      BY RequestsAssumption, LimitAssumption DEF Request, StepLimit
    <2>2. run' = [run EXCEPT ![r] = x]
      BY <1>0, <1>7 DEF Begin
    <2> HIDE DEF asked
    <2>3. x \in Run /\ x.req \in Request
      BY <1>0, <2>1, ZenonT(30) DEF Run
    <2> QED
      BY <1>0, <1>7, <2>2, <2>3, RunStepKeeps DEF Begin, chatVars
  <1>8. ASSUME NEW r \in Runs, NEW req \in Requests[r], PostBegin(r, req)
        PROVE  LimitInv'
    <2> DEFINE x == [run[r] EXCEPT !.pc = "post", !.req = req]
    <2>1. req \in Request
      BY RequestsAssumption
    <2>2. run' = [run EXCEPT ![r] = x]
      BY <1>0, <1>8 DEF PostBegin
    <2>3. x \in Run /\ x.req \in Request
      BY <1>0, <2>1, ZenonT(30) DEF Run
    <2> QED
      BY <1>0, <1>8, <2>2, <2>3, RunStepKeeps, ZenonT(30) DEF PostBegin, chatVars
  <1>9. ASSUME NEW r \in Runs, NEW ok \in BOOLEAN, LoadHistory(r, ok)
        PROVE  LimitInv'
    <2> DEFINE history == IF run[r].req.talk /\ ok /\ ctx[r] # "done" THEN chat ELSE <<>>
               x == [run[r] EXCEPT !.pc = "execute"]
               log == Append(BuildInitMessages(history), Message("user", r))
    <2>1. run' = [run EXCEPT ![r] = x] /\ x \in Run /\ x.pc = "execute" /\ x.req = run[r].req
      BY <1>0, <1>9, ZenonT(30) DEF LoadHistory, Run
    <2>2. run[r].req \in Request
      BY <1>9 DEF LoadHistory, LimitInv, TypeInv
    <2>3. CASE run[r].req.type = "react"
      <3>1. history \in Seq(ChatMsg)
        BY <1>0
      <3>2. log \in Seq(Msg) /\ log # <<>>
        <4> HIDE DEF history
        <4>1. Message("user", r) \in Msg
          BY MessagesTyped DEF Contents
        <4> QED
          BY <3>1, <4>1, InitMessages, AppendProperties
      <3>3. Limit(run[r].req.steps) \in Nat
        BY <2>2, StepsAssumption DEF Limit, Request
      <3>4. g' = [g EXCEPT ![r] = Invoke(log, run[r].req.steps)]
        BY <1>9, <2>3 DEF LoadHistory
      <3>5. PICK new \in Graph : /\ g' = [g EXCEPT ![r] = new]
                                 /\ new.pc = "loop" /\ new.log # <<>>
                                 /\ new.step = 0 /\ new.max \in Nat
        <4> DEFINE new == Invoke(log, run[r].req.steps)
        <4>1. new \in Graph /\ new.pc = "loop" /\ new.log = log /\ new.step = 0
          <5> HIDE DEF log
          <5> QED
            BY <3>2, <3>3, NoGraphTyped DEF Invoke, Graph, NoGraph
        <4> QED
          BY <3>2, <3>4, <4>1 DEF Graph
      <3>6. TypeInv'
        BY <1>0, <1>9, <2>1, <2>2, <3>5 DEF LoadHistory, LimitInv, TypeInv, chatVars
      <3>7. ASSUME NEW q \in Runs PROVE InLimits(q)'
        <4>1. CASE q = r
          BY <1>0, <2>1, <3>5, <4>1 DEF InLimits
        <4>2. CASE q # r
          BY <1>0, <2>1, <3>5, <4>2 DEF LimitInv, InLimits
        <4> QED
          BY <4>1, <4>2
      <3> QED
        BY <3>6, <3>7 DEF LimitInv
    <2>4. CASE run[r].req.type # "react"
      BY <1>0, <1>9, <2>1, <2>2, <2>4, RunStepKeeps DEF LoadHistory, chatVars
    <2> QED
      BY <2>3, <2>4
  <1>10. ASSUME NEW r \in Runs, run[r].pc = "execute", GraphStep(r) \/ Token(r),
                NEW x \in Run, run' = [run EXCEPT ![r] = x], x.pc = "execute", x.req = run[r].req,
                UNCHANGED chatVars
         PROVE  LimitInv'
    <2>1. /\ g' \in [Runs -> Graph]
          /\ g'[r].pc \notin {"none", "error"} => g'[r].log # <<>>
          /\ \A q \in Runs : q # r => g'[q] = g[q]
          /\ ctx' = ctx
      BY <1>10, GraphStepTyped DEF LimitInv
    <2>2. TypeInv'
      BY <1>10, <2>1 DEF LimitInv, TypeInv, chatVars
    <2>3. ASSUME NEW q \in Runs, q # r PROVE InLimits(q)'
      BY <1>0, <1>10, <2>1, <2>3 DEF LimitInv, InLimits
    <2>4. InLimits(r)'
      BY <1>0, <1>10, GraphStepInLimits DEF LimitInv
    <2> QED
      BY <2>2, <2>3, <2>4 DEF LimitInv
  <1>11. ASSUME NEW r \in Runs, NEW result \in {"success", "error"}, Conclude(r, result)
         PROVE  LimitInv'
    <2>1. NoGraph \in Graph /\ NoGraph.pc = "none" /\ NoGraph.step = 0 /\ NoGraph.max = 0
      BY NoGraphTyped
    <2> DEFINE pc == IF run[r].req.talk /\ result = "success" THEN "saveUser" ELSE "respond"
               x == [run[r] EXCEPT !.result = result, !.sent = <<>>, !.pc = pc]
    <2>2. run' = [run EXCEPT ![r] = x] /\ g' = [g EXCEPT ![r] = NoGraph]
      BY <1>0, <1>11 DEF Conclude
    <2>3. PICK y \in Run : run' = [run EXCEPT ![r] = y] /\ y.req = run[r].req
      <3>1. pc \in {"saveUser", "respond"} /\ <<>> \in Seq(Nat \X Nat)
        OBVIOUS
      <3> HIDE DEF pc
      <3>2. x \in Run /\ x.req = run[r].req
        BY <1>0, <3>1, ZenonT(30) DEF Run
      <3> QED
        BY <2>2, <3>2
    <2>4. run[r].req \in Request
      BY <1>11 DEF Conclude, LimitInv, TypeInv
    <2>5. TypeInv'
      BY <1>0, <1>11, <2>1, <2>2, <2>3, <2>4 DEF Conclude, LimitInv, TypeInv, chatVars
    <2>6. ASSUME NEW q \in Runs PROVE InLimits(q)'
      BY <1>0, <2>1, <2>2 DEF LimitInv, InLimits
    <2> QED
      BY <2>5, <2>6 DEF LimitInv
  <1>12. ASSUME NEW r \in Runs, NEW ok \in BOOLEAN, SaveUser(r, ok)
         PROVE  LimitInv'
    <2> DEFINE x == [run[r] EXCEPT !.pc = "saveAgent", !.lost = IF ok THEN @ ELSE @ \cup {"user"}]
    <2>1. run' = [run EXCEPT ![r] = x] /\ x \in Run /\ x.req = run[r].req
      <3>1. run[r] \in Run /\ run' = [run EXCEPT ![r] = x]
        BY <1>0, <1>12 DEF SaveUser
      <3>2. run[r].lost \cup {"user"} \in SUBSET {"user", "agent"}
        BY <3>1 DEF Run
      <3> QED
        BY <3>1, <3>2 DEF Run
    <2>2. run[r].req \in Request /\ TypeInv
      BY <1>12 DEF SaveUser, LimitInv, TypeInv
    <2>3. conv' \in {"none", "open", "gone"} /\ stale' \in BOOLEAN /\ chat' \in Seq(ChatMsg)
      BY <1>12, <2>2, SaveTyped DEF SaveUser
    <2> HIDE DEF x
    <2> QED
      BY <1>0, <1>12, <2>1, <2>2, <2>3, RunStepKeeps DEF SaveUser
  <1>13. ASSUME NEW r \in Runs, NEW ok \in BOOLEAN, SaveAgent(r, ok)
         PROVE  LimitInv'
    <2> DEFINE x == [run[r] EXCEPT !.pc = "respond", !.lost = IF ok THEN @ ELSE @ \cup {"agent"}]
    <2>1. run' = [run EXCEPT ![r] = x] /\ x \in Run /\ x.req = run[r].req
      <3>1. run[r] \in Run /\ run' = [run EXCEPT ![r] = x]
        BY <1>0, <1>13 DEF SaveAgent
      <3>2. run[r].lost \cup {"agent"} \in SUBSET {"user", "agent"}
        BY <3>1 DEF Run
      <3> QED
        BY <3>1, <3>2 DEF Run
    <2>2. run[r].req \in Request /\ TypeInv
      BY <1>13 DEF SaveAgent, LimitInv, TypeInv
    <2>3. conv' \in {"none", "open", "gone"} /\ stale' \in BOOLEAN /\ chat' \in Seq(ChatMsg)
      BY <1>13, <2>2, SaveTyped DEF SaveAgent
    <2> HIDE DEF x
    <2> QED
      BY <1>0, <1>13, <2>1, <2>2, <2>3, RunStepKeeps DEF SaveAgent
  <1>14. ASSUME NEW r \in Runs, NEW ok \in BOOLEAN, NEW role \in {"user", "agent"},
                PostMessage(r, role, ok)
         PROVE  LimitInv'
    <2> DEFINE x == [run[r] EXCEPT !.pc = "posted", !.result = IF ok THEN "success" ELSE "error"]
    <2>1. run' = [run EXCEPT ![r] = x] /\ x \in Run /\ x.req = run[r].req
      <3>1. run[r] \in Run /\ run' = [run EXCEPT ![r] = x]
        BY <1>0, <1>14 DEF PostMessage
      <3>2. (IF ok THEN "success" ELSE "error") \in {"none", "success", "error"}
        OBVIOUS
      <3> QED
        BY <3>1, <3>2 DEF Run
    <2>2. run[r].req \in Request /\ TypeInv
      BY <1>14 DEF PostMessage, LimitInv, TypeInv
    <2>3. conv' \in {"none", "open", "gone"} /\ stale' \in BOOLEAN /\ chat' \in Seq(ChatMsg)
      BY <1>14, <2>2, SaveTyped DEF PostMessage
    <2> HIDE DEF x
    <2> QED
      BY <1>0, <1>14, <2>1, <2>2, <2>3, RunStepKeeps DEF PostMessage
  <1>15. ASSUME NEW r \in Runs, Respond(r)
         PROVE  LimitInv'
    <2> DEFINE x == [run[r] EXCEPT !.pc = "done", !.record = "pending"]
    <2>1. run' = [run EXCEPT ![r] = x] /\ x \in Run /\ x.req = run[r].req
      BY <1>0, <1>15, ZenonT(30) DEF Respond, Run
    <2>2. run[r].req \in Request
      BY <1>15 DEF Respond, LimitInv, TypeInv
    <2> HIDE DEF x
    <2> QED
      BY <1>0, <1>15, <2>1, <2>2, RunStepKeeps DEF Respond, chatVars
  <1>16. ASSUME NEW r \in Runs, Insert(r)
         PROVE  LimitInv'
    <2> DEFINE x == [run[r] EXCEPT !.record = run[r].result]
    <2>1. run' = [run EXCEPT ![r] = x] /\ x \in Run /\ x.pc = run[r].pc /\ x.req = run[r].req
      BY <1>0, <1>16, ZenonT(30) DEF Insert, Run
    <2>2. run[r].pc # "idle" => run[r].req \in Request
      BY DEF LimitInv, TypeInv
    <2>3. g' = g /\ ctx' = ctx /\ conv' = conv /\ stale' = stale /\ chat' = chat
      BY <1>16 DEF Insert, chatVars
    <2>4. PICK y \in Run : run' = [run EXCEPT ![r] = y] /\ y.pc = run[r].pc /\ y.req = run[r].req
      BY <2>1
    <2> HIDE DEF x
    <2> QED
      BY <1>0, <2>2, <2>3, <2>4, RunStepKeeps
  <1>17. ASSUME NEW r \in Runs, Timeout(r) \/ ContextDone(r)
         PROVE  LimitInv'
    <2>1. ctx' \in [Runs -> {"live", "expired", "done"}]
      BY <1>0, <1>17 DEF Timeout, ContextDone
    <2>2. g' = g /\ run' = run /\ UNCHANGED chatVars
      BY <1>17 DEF Timeout, ContextDone
    <2> QED
      BY <2>1, <2>2 DEF LimitInv, TypeInv, InLimits, chatVars
  <1>18. ASSUME NEW r \in Runs, Execute(r) \/ Stream(r)
         PROVE  LimitInv'
    <2>1. run[r].pc = "execute" /\ (GraphStep(r) \/ Token(r)) /\ UNCHANGED chatVars
      BY <1>18 DEF Execute, Stream
    <2>2. CASE run' = run
      <3>1. run' = [run EXCEPT ![r] = run[r]] /\ run[r] \in Run
        BY <1>0, <2>2
      <3> QED
        BY <1>10, <2>1, <3>1
    <2>3. CASE run' = [run EXCEPT ![r].sent = Append(@, Content(r))]
      <3> DEFINE x == [run[r] EXCEPT !.sent = Append(run[r].sent, Content(r))]
      <3>1. Content(r) \in Nat \X Nat
        BY <1>0, AttemptsAssumption DEF Content, Graph
      <3>2. Append(run[r].sent, Content(r)) \in Seq(Nat \X Nat)
        BY <1>0, <3>1 DEF Run
      <3>3. run' = [run EXCEPT ![r] = x] /\ x \in Run /\ x.pc = run[r].pc /\ x.req = run[r].req
        BY <1>0, <2>3, <3>2, ZenonT(30) DEF Run
      <3> HIDE DEF x
      <3> QED
        BY <1>10, <2>1, <3>3
    <2> QED
      BY <1>18, <2>2, <2>3 DEF Execute, Stream
  <1> QED
    BY <1>2, <1>3, <1>4, <1>5, <1>6, <1>7, <1>8, <1>9, <1>11, <1>12, <1>13, <1>14, <1>15,
       <1>16, <1>17, <1>18
    DEF Next, ExecuteAgent, ExecuteAgentStream, RunStep, GraphSucceeded, GraphFailed, ThinkCoT,
        NotImplemented
LEMMA LimitInvHolds == Spec => []LimitInv
  BY LimitInit, LimitStep, PTL DEF Spec

\* The state of the executions, their graphs and their conversation has its
\* type, for all sets of runs, requests and tool calls: no graph of Invoke takes
\* more steps than its limit, no node more attempts than DefaultRetry allows.
THEOREM TypeCorrect == Spec => []TypeOK
  <1>1. ASSUME LimitInv PROVE TypeOK
    <2>1. ASSUME NEW r \in Runs
          PROVE  /\ g[r].pc \in {"none", "loop", "llm", "backoff", "tool", "ok", "error"}
                 /\ g[r].node \in {"llm", "tool", "END"}
                 /\ g[r].step \in 0 .. g[r].max
                 /\ g[r].attempt \in 1 .. Attempts
                 /\ g[r].said \in BOOLEAN
                 /\ g[r].todo \in Seq(CallIDs)
                 /\ ctx[r] \in {"live", "expired", "done"}
      BY <1>1 DEF LimitInv, TypeInv, InLimits, Graph
    <2>2. ASSUME NEW r \in Runs
          PROVE  /\ run[r].req \in Request \cup {None}
                 /\ run[r].pc \in {"idle", "load", "execute", "saveUser", "saveAgent", "respond",
                                   "done", "post", "posted"}
                 /\ run[r].result \in {"none", "success", "error"}
                 /\ run[r].lost \subseteq {"user", "agent"}
                 /\ run[r].record \in {"none", "pending", "success", "error"}
      BY <1>1 DEF LimitInv, TypeInv, Run
    <2> QED
      BY <1>1, <2>1, <2>2 DEF TypeOK, GraphTypeOK, LimitInv, TypeInv, ChatMsg
  <1> QED
    BY <1>1, LimitInvHolds, PTL

-----------------------------------------------------------------------------
(***************************************************************************)
(* The conversation with the model.                                        *)
(***************************************************************************)
\* Before the first request nothing is owed.
LEMMA PlainOwesNothing ==
    ASSUME NEW log \in Seq(Msg), Plain(log)
    PROVE  Conversation(log, <<>>)
  BY DEF Plain, Conversation

\* The calls of what the model says are owed; an answer has none.
LEMMA AskOwesCalls ==
    ASSUME NEW log \in Seq(Msg), Conversation(log, <<>>), NEW m \in Msg, m.role # "tool"
    PROVE  Conversation(Append(log, m), m.calls)
  <1> DEFINE new == Append(log, m)
  <1>1. /\ new \in Seq(Msg) /\ Len(new) = Len(log) + 1 /\ Len(log) \in Nat
        /\ \A i \in 1 .. Len(log) : new[i] = log[i]
        /\ new[Len(log) + 1] = m /\ m.calls \in Seq(CallIDs)
    BY AppendProperties DEF Msg
  <1> HIDE DEF new
  <1>2. ASSUME NEW i \in 1 .. Len(new), NEW j \in 1 .. Len(new[i].calls)
        PROVE  \/ i + j <= Len(new) /\ new[i + j].answers = new[i].calls[j]
               \/ /\ i + j > Len(new)
                  /\ i + j - Len(new) <= Len(m.calls)
                  /\ m.calls[i + j - Len(new)] = new[i].calls[j]
    <2>1. CASE i \in 1 .. Len(log)
      <3>1. new[i] = log[i]
        BY <1>1, <2>1
      <3>2. i + j <= Len(log) /\ log[i + j].answers = log[i].calls[j]
        BY <1>1, <2>1, <3>1 DEF Conversation
      <3>3. i + j \in 1 .. Len(log)
        <4>0. log[i] \in Msg
          BY <2>1
        <4>1. log[i].calls \in Seq(CallIDs)
          BY <4>0 DEF Msg
        <4>2. j \in 1 .. Len(log[i].calls) /\ Len(log[i].calls) \in Nat
          BY <3>1, <4>1
        <4> QED
          BY <1>1, <2>1, <3>2, <4>2
      <3> QED
        BY <1>1, <3>1, <3>2, <3>3
    <2>2. CASE i = Len(new)
      <3>1. new[i] = m /\ j \in 1 .. Len(m.calls) /\ Len(m.calls) \in Nat
        BY <1>1, <2>2
      <3> QED
        BY <1>1, <2>2, <3>1
    <2> QED
      BY <1>1, <2>1, <2>2
  <1>3. ASSUME NEW k \in 1 .. Len(new), new[k].role = "tool"
        PROVE  \E i \in 1 .. k - 1 : /\ k - i <= Len(new[i].calls)
                                      /\ new[k].answers = new[i].calls[k - i]
    <2>1. k \in 1 .. Len(log) /\ new[k] = log[k]
      BY <1>1, <1>3
    <2>2. PICK i \in 1 .. k - 1 : k - i <= Len(log[i].calls) /\ log[k].answers = log[i].calls[k - i]
      BY <1>3, <2>1 DEF Conversation
    <2>3. new[i] = log[i]
      BY <1>1, <2>1, <2>2
    <2> QED
      BY <2>1, <2>2, <2>3
  <1>4. ASSUME NEW k \in 1 .. Len(m.calls)
        PROVE  \E i \in 1 .. Len(new) : /\ Len(new) + k - i <= Len(new[i].calls)
                                         /\ m.calls[k] = new[i].calls[Len(new) + k - i]
    <2>1. Len(new) \in 1 .. Len(new) /\ new[Len(new)] = m /\ Len(m.calls) \in Nat
      BY <1>1
    <2>2. Len(new) + k - Len(new) = k
      BY <1>1, <2>1
    <2> QED
      BY <2>1, <2>2
  <1> QED
    BY <1>2, <1>3, <1>4 DEF Conversation, new

\* The next answer is the one that is owed first, and is owed no more.
LEMMA AnswerIsOwed ==
    ASSUME NEW log \in Seq(Msg), NEW owed \in Seq(CallIDs), owed # <<>>,
           Conversation(log, owed),
           NEW m \in Msg, m.calls = <<>>, m.answers = Head(owed)
    PROVE  Conversation(Append(log, m), Tail(owed))
  <1> DEFINE new == Append(log, m)
             rest == Tail(owed)
  <1>1. /\ new \in Seq(Msg) /\ Len(new) = Len(log) + 1 /\ Len(log) \in Nat
        /\ \A i \in 1 .. Len(log) : new[i] = log[i]
        /\ new[Len(log) + 1] = m
    BY AppendProperties
  <1>2. /\ Len(owed) \in Nat /\ Len(owed) >= 1 /\ owed[1] = Head(owed)
        /\ rest \in Seq(CallIDs) /\ Len(rest) = Len(owed) - 1
        /\ \A i \in 1 .. Len(rest) : rest[i] = owed[i + 1]
    BY HeadTailProperties
  <1> HIDE DEF new, rest
  <1>3. ASSUME NEW i \in 1 .. Len(new), NEW j \in 1 .. Len(new[i].calls)
        PROVE  \/ i + j <= Len(new) /\ new[i + j].answers = new[i].calls[j]
               \/ /\ i + j > Len(new)
                  /\ i + j - Len(new) <= Len(rest)
                  /\ rest[i + j - Len(new)] = new[i].calls[j]
    <2>1. i \in 1 .. Len(log) /\ new[i] = log[i] /\ j \in 1 .. Len(log[i].calls)
      BY <1>1
    <2>2. j \in Nat /\ j >= 1
      BY <2>1 DEF Msg
    <2>3. \/ i + j <= Len(log) /\ log[i + j].answers = log[i].calls[j]
          \/ /\ i + j > Len(log)
             /\ i + j - Len(log) <= Len(owed)
             /\ owed[i + j - Len(log)] = log[i].calls[j]
      BY <2>1 DEF Conversation
    <2>4. CASE i + j <= Len(log)
      BY <1>1, <2>1, <2>2, <2>3, <2>4, SMTT(30)
    <2>5. CASE i + j = Len(log) + 1
      <3>1. i + j - Len(log) = 1
        BY <1>1, <2>1, <2>2, <2>5
      <3> QED
        BY <1>1, <1>2, <2>1, <2>2, <2>3, <2>5, <3>1
    <2>6. CASE i + j > Len(log) + 1
      <3>1. i + j - Len(new) \in 1 .. Len(rest) /\ (i + j - Len(new)) + 1 = i + j - Len(log)
        BY <1>1, <1>2, <2>1, <2>2, <2>3, <2>6
      <3>2. rest[i + j - Len(new)] = owed[i + j - Len(log)]
        BY <1>2, <3>1
      <3> QED
        BY <1>1, <1>2, <2>1, <2>2, <2>3, <2>6, <3>1, <3>2
    <2> QED
      BY <1>1, <2>1, <2>2, <2>4, <2>5, <2>6
  <1>4. ASSUME NEW k \in 1 .. Len(new), new[k].role = "tool"
        PROVE  \E i \in 1 .. k - 1 : /\ k - i <= Len(new[i].calls)
                                      /\ new[k].answers = new[i].calls[k - i]
    <2>1. CASE k \in 1 .. Len(log)
      <3>1. new[k] = log[k]
        BY <1>1, <2>1
      <3>2. PICK i \in 1 .. k - 1 : k - i <= Len(log[i].calls) /\ log[k].answers = log[i].calls[k - i]
        BY <1>4, <2>1, <3>1 DEF Conversation
      <3>3. new[i] = log[i]
        BY <1>1, <2>1, <3>2
      <3> QED
        BY <3>1, <3>2, <3>3
    <2>2. CASE k = Len(log) + 1
      <3>1. 1 \in 1 .. Len(owed)
        BY <1>2
      <3>2. PICK i \in 1 .. Len(log) : /\ Len(log) + 1 - i <= Len(log[i].calls)
                                      /\ owed[1] = log[i].calls[Len(log) + 1 - i]
        BY <3>1 DEF Conversation
      <3>3. new[i] = log[i] /\ i \in 1 .. k - 1 /\ k - i = Len(log) + 1 - i
        BY <1>1, <2>2, <3>2
      <3> QED
        BY <1>1, <1>2, <2>2, <3>2, <3>3
    <2> QED
      BY <1>1, <2>1, <2>2
  <1>5. ASSUME NEW k \in 1 .. Len(rest)
        PROVE  \E i \in 1 .. Len(new) : /\ Len(new) + k - i <= Len(new[i].calls)
                                         /\ rest[k] = new[i].calls[Len(new) + k - i]
    <2>1. k + 1 \in 1 .. Len(owed) /\ rest[k] = owed[k + 1] /\ k \in Nat
      BY <1>2
    <2>2. PICK i \in 1 .. Len(log) : /\ Len(log) + (k + 1) - i <= Len(log[i].calls)
                                    /\ owed[k + 1] = log[i].calls[Len(log) + (k + 1) - i]
      BY <2>1 DEF Conversation
    <2>3. new[i] = log[i] /\ i \in 1 .. Len(new) /\ Len(new) + k - i = Len(log) + (k + 1) - i
      BY <1>1, <2>1, <2>2
    <2> QED
      BY <2>1, <2>2, <2>3
  <1> QED
    BY <1>3, <1>4, <1>5 DEF Conversation, new, rest
\* The conversation goes on step by step: what is owed is paid in order before
\* the model is asked again.
LEMMA GraphStepConverses ==
    ASSUME TypeInv, NEW r \in Runs, GraphStep(r) \/ Token(r), Converses(r)
    PROVE  Converses(r)'
  <1>0. /\ g \in [Runs -> Graph] /\ g[r] \in Graph
        /\ g[r].log \in Seq(Msg) /\ g[r].todo \in Seq(CallIDs)
        /\ g[r].pc \notin {"none", "error"} => g[r].log # <<>>
    BY DEF TypeInv, Graph
  <1>1. ASSUME NEW new, Move(r, new), g[r].pc \notin {"none", "error"},
               new.log = g[r].log, Owed(new) = Owed(g[r])
        PROVE  Converses(r)'
    <2>1. g'[r] = new
      BY <1>0, <1>1 DEF Move
    <2> QED
      BY <1>1, <2>1 DEF Converses
  <1>2. ASSUME NEW new, Move(r, new), Conversation(new.log, Owed(new))
        PROVE  Converses(r)'
    <2>1. g'[r] = new
      BY <1>0, <1>2 DEF Move
    <2> QED
      BY <1>2, <2>1 DEF Converses
  <1>3. CASE GraphFails(r)
    BY <1>0, <1>3 DEF GraphFails, Move, Converses, Graph
  <1>4. CASE InvokeReturns(r)
    <2> DEFINE new == [g[r] EXCEPT !.pc = "ok"]
    <2>1. new.log = g[r].log /\ Owed(new) = Owed(g[r])
      BY <1>0, <1>4 DEF InvokeReturns, Owed, Graph
    <2> QED
      BY <1>1, <1>4, <2>1 DEF InvokeReturns
  <1>5. CASE EnterNode(r)
    <2>1. CASE g[r].node = "llm"
      <3> DEFINE new == [g[r] EXCEPT !.pc = "llm", !.attempt = 1, !.said = FALSE]
      <3>1. new.log = g[r].log /\ Owed(new) = Owed(g[r])
        BY <1>0, <1>5, <2>1 DEF EnterNode, Owed, Graph
      <3> QED
        BY <1>1, <1>5, <2>1, <3>1 DEF EnterNode
    <2>2. CASE g[r].node # "llm"
      <3> DEFINE new == [g[r] EXCEPT !.pc = "tool", !.todo = Last(g[r].log).calls]
      <3>1. g[r].node = "tool"
        BY <1>0, <1>5, <2>2 DEF EnterNode, Graph
      <3>2. new.log = g[r].log /\ Owed(new) = Owed(g[r])
        BY <1>0, <1>5, <3>1 DEF EnterNode, Owed, Graph
      <3> QED
        BY <1>1, <1>5, <2>2, <3>2 DEF EnterNode
    <2> QED
      BY <2>1, <2>2
  <1>6. CASE Token(r)
    <2> DEFINE new == [g[r] EXCEPT !.said = TRUE]
    <2>1. new.log = g[r].log /\ Owed(new) = Owed(g[r])
      BY <1>0, <1>6 DEF Token, Owed, Graph
    <2> QED
      BY <1>1, <1>6, <2>1 DEF Token
  <1>7. CASE LLMFails(r)
    <2> DEFINE new == [g[r] EXCEPT !.pc = "backoff"]
    <2>1. new.log = g[r].log /\ Owed(new) = Owed(g[r])
      BY <1>0, <1>7 DEF LLMFails, Owed, Graph
    <2> QED
      BY <1>1, <1>3, <1>7, <2>1 DEF LLMFails
  <1>8. CASE BackoffOver(r)
    <2> DEFINE new == [g[r] EXCEPT !.pc = "llm", !.said = FALSE, !.attempt = @ + 1]
    <2>1. new.log = g[r].log /\ Owed(new) = Owed(g[r])
      BY <1>0, <1>8 DEF BackoffOver, Owed, Graph
    <2> QED
      BY <1>1, <1>8, <2>1 DEF BackoffOver
  <1>9. CASE LLMAnswers(r)
    <2> DEFINE said == IF g[r].said THEN Content(r) ELSE None
               m == Message("assistant", said)
               mid == [g[r] EXCEPT !.output = said, !.log = Append(@, m)]
               new == [mid EXCEPT !.pc = "loop", !.node = "END", !.step = @ + 1]
    <2>1. said \in Contents
      BY <1>0, AttemptsAssumption DEF Content, Contents, Graph
    <2>2. m \in Msg /\ m.role # "tool" /\ m.calls = <<>>
      <3> HIDE DEF said
      <3> QED
        BY <2>1, MessagesTyped
    <2>3. Conversation(g[r].log, <<>>)
      BY <1>9 DEF LLMAnswers, Converses, Owed
    <2>4. Move(r, new)
      BY <1>9 DEF LLMAnswers, Leave
    <2>5. new.log = Append(g[r].log, m) /\ Owed(new) = <<>>
      <3> HIDE DEF m, said
      <3> QED
        BY <1>0 DEF Owed, Graph
    <2>6. Conversation(Append(g[r].log, m), m.calls)
      <3> HIDE DEF m
      <3> QED
        BY <1>0, <2>2, <2>3, AskOwesCalls
    <2> HIDE DEF new, m
    <2> QED
      BY <1>2, <2>2, <2>4, <2>5, <2>6
  <1>10. ASSUME NEW calls \in CallLists, LLMAsks(r, calls)
         PROVE  Converses(r)'
    <2> DEFINE m == Asks(calls)
               mid == [g[r] EXCEPT !.log = Append(@, m)]
               new == [mid EXCEPT !.pc = "loop", !.node = "tool", !.step = @ + 1]
    <2>1. m \in Msg /\ m.role # "tool" /\ m.calls = calls
      BY CallsTyped, MessagesTyped
    <2>2. Conversation(g[r].log, <<>>)
      BY <1>10 DEF LLMAsks, Converses, Owed
    <2>3. Move(r, new)
      BY <1>10 DEF LLMAsks, Leave
    <2> HIDE DEF m
    <2>4. Last(Append(g[r].log, m)) = m
      BY <1>0, <2>1, AppendProperties DEF Last
    <2>5. new.log = Append(g[r].log, m) /\ Owed(new) = m.calls
      BY <1>0, <2>4 DEF Owed, Graph
    <2>6. Conversation(Append(g[r].log, m), m.calls)
      BY <1>0, <2>1, <2>2, AskOwesCalls
    <2> HIDE DEF new
    <2> QED
      BY <1>2, <2>3, <2>5, <2>6
  <1>11. ASSUME NEW ok \in BOOLEAN, ToolReturns(r, ok)
         PROVE  Converses(r)'
    <2> DEFINE m == Answers(Head(g[r].todo))
               new == [g[r] EXCEPT !.log = Append(@, m), !.todo = Tail(@)]
    <2>1. g[r].todo # <<>> /\ g[r].pc = "tool" /\ Move(r, new)
      BY <1>11 DEF ToolReturns
    <2>2. Head(g[r].todo) \in CallIDs
      BY <1>0, <2>1, HeadTailProperties
    <2>3. m \in Msg /\ m.calls = <<>> /\ m.answers = Head(g[r].todo)
      BY <2>2, MessagesTyped
    <2>4. Conversation(g[r].log, g[r].todo)
      BY <2>1 DEF Converses, Owed
    <2> HIDE DEF m
    <2>5. new.log = Append(g[r].log, m) /\ Owed(new) = Tail(g[r].todo)
      BY <1>0, <2>1 DEF Owed, Graph
    <2>6. Conversation(Append(g[r].log, m), Tail(g[r].todo))
      BY <1>0, <2>1, <2>3, <2>4, AnswerIsOwed
    <2> HIDE DEF new
    <2> QED
      BY <1>2, <2>1, <2>5, <2>6
  <1>12. CASE ToolNodeReturns(r)
    <2> DEFINE new == [g[r] EXCEPT !.pc = "loop", !.node = "llm", !.step = @ + 1]
    <2>1. Move(r, new) /\ g[r].pc = "tool" /\ g[r].todo = <<>>
      BY <1>12 DEF ToolNodeReturns, Leave
    <2>2. new.log = g[r].log /\ Owed(new) = Owed(g[r])
      BY <1>0, <2>1 DEF Owed, Graph
    <2> HIDE DEF new
    <2> QED
      BY <1>1, <2>1, <2>2
  <1> QED
    BY <1>3, <1>4, <1>5, <1>6, <1>7, <1>8, <1>9, <1>10, <1>11, <1>12
    DEF GraphStep, MaxStepsReached, InvokeCancelled, BackoffCancelled, NodePanics
-----------------------------------------------------------------------------
(***************************************************************************)
(* What a step of the system means to one graph.                           *)
(***************************************************************************)
\* LoadHistory has made the graph of r.
Starts(r) == /\ g'[r].pc = "loop" /\ g'[r].node = "llm"
             /\ g'[r].log \in Seq(Msg)
             /\ Plain(g'[r].log)

\* The graph of r makes a step, says something, or stays as it is.
GraphSteps(r) == GraphStep(r) /\ ctx'[r] = ctx[r] /\ UNCHANGED run

Says(r) == /\ Token(r) /\ ctx'[r] = ctx[r]
           /\ run'[r] = IF Unbroken(r) THEN [run[r] EXCEPT !.sent = Append(@, Content(r))]
                                       ELSE run[r]

Rests(r) == /\ g'[r] = g[r]
            /\ run'[r].req = run[r].req
            /\ run'[r].sent = run[r].sent
            /\ ctx[r] = "done" => ctx'[r] = "done"

LEMMA GraphChanges ==
    ASSUME LimitInv, [Next]_vars, NEW r \in Runs
    PROVE  g'[r].pc = "none" \/ Starts(r) \/ GraphSteps(r) \/ Says(r) \/ Rests(r)
  <1> DEFINE Goal == g'[r].pc = "none" \/ Starts(r) \/ GraphSteps(r) \/ Says(r) \/ Rests(r)
  <1>0. /\ g \in [Runs -> Graph] /\ ctx \in [Runs -> {"live", "expired", "done"}]
        /\ run \in [Runs -> Run] /\ chat \in Seq(ChatMsg)
        /\ g[r].pc # "none" => run[r].pc = "execute"
    BY DEF LimitInv, TypeInv, InLimits
  <1>1. ASSUME g' = g, run' = run, ctx' = ctx PROVE Goal
    BY <1>1 DEF Rests
  <1>2. CASE UNCHANGED vars
    BY <1>1, <1>2 DEF vars
  <1>3. CASE CreateConversation \/ DeleteConversation \/ Expire \/ CleanupExpired
    BY <1>1, <1>3 DEF CreateConversation, DeleteConversation, Expire, CleanupExpired, Forget
  <1>4. ASSUME NEW q \in Runs, g' = g, ctx' = ctx, run[q].pc # "execute", NEW x,
               run' = [run EXCEPT ![q] = x]
        PROVE  Goal
    BY <1>0, <1>4 DEF Rests
  <1>5. ASSUME NEW q \in Runs, NEW req \in Requests[q], Begin(q, req) PROVE Goal
    BY <1>0, <1>4, <1>5, ZenonT(30) DEF Begin
  <1>6. ASSUME NEW q \in Runs, NEW req \in Requests[q], PostBegin(q, req) PROVE Goal
    BY <1>0, <1>4, <1>6, ZenonT(30) DEF PostBegin
  <1>7. ASSUME NEW q \in Runs, NEW ok \in BOOLEAN, LoadHistory(q, ok) PROVE Goal
    <2>1. CASE q = r /\ run[q].req.type = "react"
      <3> DEFINE history == IF run[r].req.talk /\ ok /\ ctx[r] # "done" THEN chat ELSE <<>>
                 init == BuildInitMessages(history)
                 log == Append(init, Message("user", r))
      <3>1. history \in Seq(ChatMsg)
        BY <1>0
      <3>2. /\ Message("user", r) \in Msg /\ Message("user", r).calls = <<>>
            /\ Message("user", r).role # "tool"
        BY MessagesTyped DEF Contents
      <3>3. log \in Seq(Msg) /\ Plain(log)
        <4> HIDE DEF history
        <4>1. init \in Seq(Msg) /\ Plain(init)
          BY <3>1, InitMessages
        <4> HIDE DEF init
        <4>2. /\ log \in Seq(Msg) /\ Len(log) = Len(init) + 1 /\ Len(init) \in Nat
              /\ \A i \in 1 .. Len(init) : log[i] = init[i]
              /\ log[Len(init) + 1] = Message("user", r)
          BY <3>2, <4>1, AppendProperties
        <4> HIDE DEF log
        <4> QED
          BY <3>2, <4>1, <4>2 DEF Plain
      <3>4. g'[r] = Invoke(log, run[r].req.steps)
        BY <1>0, <1>7, <2>1 DEF LoadHistory
      <3> HIDE DEF log
      <3>5. g'[r].pc = "loop" /\ g'[r].node = "llm" /\ g'[r].log = log
        BY <3>4 DEF Invoke, NoGraph
      <3> QED
        BY <3>3, <3>5 DEF Starts
    <2>2. CASE q # r \/ run[q].req.type # "react"
      <3>1. g'[r] = g[r]
        BY <1>0, <1>7, <2>2 DEF LoadHistory
      <3>2. run'[r].req = run[r].req /\ run'[r].sent = run[r].sent /\ ctx' = ctx
        BY <1>0, <1>7 DEF LoadHistory, Run
      <3> QED
        BY <3>1, <3>2 DEF Rests
    <2> QED
      BY <2>1, <2>2
  <1>8. ASSUME NEW q \in Runs, Execute(q) PROVE Goal
    <2>1. CASE q = r
      BY <1>8, <2>1, GraphStepTyped DEF Execute, GraphSteps, LimitInv
    <2>2. CASE q # r
      BY <1>8, <2>2, GraphStepTyped DEF Execute, Rests, LimitInv
    <2> QED
      BY <2>1, <2>2
  <1>9. ASSUME NEW q \in Runs, Stream(q) PROVE Goal
    <2>1. ctx' = ctx /\ \A p \in Runs : p # q => g'[p] = g[p]
      BY <1>9, GraphStepTyped DEF Stream, LimitInv
    <2>2. CASE q = r
      BY <1>0, <1>9, <2>1, <2>2 DEF Stream, Says, Unbroken
    <2>3. CASE q # r
      BY <1>0, <1>9, <2>1, <2>3 DEF Stream, Rests
    <2> QED
      BY <2>2, <2>3
  <1>10. ASSUME NEW q \in Runs, NEW result, Conclude(q, result) PROVE Goal
    BY <1>0, <1>10, NoGraphTyped DEF Conclude, Rests
  <1>11. ASSUME NEW q \in Runs, NEW ok \in BOOLEAN, SaveUser(q, ok) PROVE Goal
    <2>1. /\ run[q].pc = "saveUser" /\ g' = g /\ ctx' = ctx
          /\ run' = [run EXCEPT ![q].pc = "saveAgent",
                                ![q].lost = IF ok THEN @ ELSE @ \cup {"user"}]
      BY <1>11 DEF SaveUser
    <2>2. run' = [run EXCEPT ![q] = [run[q] EXCEPT !.pc = "saveAgent",
                                          !.lost = IF ok THEN @ ELSE @ \cup {"user"}]]
      BY <1>0, <2>1
    <2> QED
      BY <1>4, <2>1, <2>2
  <1>12. ASSUME NEW q \in Runs, NEW ok \in BOOLEAN, SaveAgent(q, ok) PROVE Goal
    <2>1. /\ run[q].pc = "saveAgent" /\ g' = g /\ ctx' = ctx
          /\ run' = [run EXCEPT ![q].pc = "respond",
                                ![q].lost = IF ok THEN @ ELSE @ \cup {"agent"}]
      BY <1>12 DEF SaveAgent
    <2>2. run' = [run EXCEPT ![q] = [run[q] EXCEPT !.pc = "respond",
                                          !.lost = IF ok THEN @ ELSE @ \cup {"agent"}]]
      BY <1>0, <2>1
    <2> QED
      BY <1>4, <2>1, <2>2
  <1>13. ASSUME NEW q \in Runs, NEW ok \in BOOLEAN, NEW role, PostMessage(q, role, ok) PROVE Goal
    <2>1. /\ run[q].pc = "post" /\ g' = g /\ ctx' = ctx
          /\ run' = [run EXCEPT ![q].pc = "posted",
                                ![q].result = IF ok THEN "success" ELSE "error"]
      BY <1>13 DEF PostMessage
    <2>2. run' = [run EXCEPT ![q] = [run[q] EXCEPT !.pc = "posted",
                                          !.result = IF ok THEN "success" ELSE "error"]]
      BY <1>0, <2>1
    <2> QED
      BY <1>4, <2>1, <2>2
  <1>14. ASSUME NEW q \in Runs, Respond(q) PROVE Goal
    BY <1>0, <1>14 DEF Respond, Rests, Run
  <1>15. ASSUME NEW q \in Runs, Insert(q) PROVE Goal
    BY <1>0, <1>15 DEF Insert, Rests, Run
  <1>16. ASSUME NEW q \in Runs, Timeout(q) \/ ContextDone(q) PROVE Goal
    BY <1>0, <1>16 DEF Timeout, ContextDone, Rests
  <1> QED
    BY <1>2, <1>3, <1>5, <1>6, <1>7, <1>8, <1>9, <1>10, <1>11, <1>12, <1>13, <1>14, <1>15, <1>16
    DEF Next, ExecuteAgent, ExecuteAgentStream, RunStep, GraphSucceeded, GraphFailed, ThinkCoT,
        NotImplemented

-----------------------------------------------------------------------------
ConverseInv == LimitInv /\ \A r \in Runs : Converses(r)

LEMMA ConverseInvHolds == Spec => []ConverseInv
  <1>1. Init => ConverseInv
    BY LimitInit, NoGraphTyped DEF Init, ConverseInv, Converses
  <1>2. ConverseInv /\ [Next]_vars => ConverseInv'
    <2> SUFFICES ASSUME ConverseInv, [Next]_vars, NEW r \in Runs PROVE Converses(r)'
      BY LimitStep DEF ConverseInv
    <2>1. CASE g'[r].pc = "none"
      BY <2>1 DEF Converses
    <2>2. CASE Starts(r)
      <3>1. Conversation(g'[r].log, <<>>)
        BY <2>2, PlainOwesNothing DEF Starts
      <3>2. Owed(g'[r]) = <<>>
        BY <2>2 DEF Starts, Owed
      <3> QED
        BY <3>1, <3>2 DEF Converses
    <2>3. CASE GraphSteps(r) \/ Says(r)
      BY <2>3, GraphStepConverses DEF GraphSteps, Says, ConverseInv, LimitInv
    <2>4. CASE Rests(r)
      BY <2>4 DEF Rests, Converses, ConverseInv
    <2> QED
      BY <2>1, <2>2, <2>3, <2>4, GraphChanges DEF ConverseInv
  <1> QED
    BY <1>1, <1>2, PTL DEF Spec

\* makeToolNode answers the calls of a message one by one, and its errors are
\* answers too: with any lists of calls and any limit, every request an agent
\* makes of its model is a conversation in which each call is answered, right
\* behind it and in order, and nothing else is an answer.
THEOREM RequestsAreWellFormed == Spec => []WellFormedRequests
  <1>1. ASSUME ConverseInv PROVE WellFormedRequests
    <2> SUFFICES ASSUME NEW r \in Runs, g[r].pc = "llm"
                 PROVE  /\ \A i \in 1 .. Len(g[r].log) : \A j \in 1 .. Len(g[r].log[i].calls) :
                             /\ i + j <= Len(g[r].log)
                             /\ g[r].log[i + j].answers = g[r].log[i].calls[j]
                        /\ \A k \in 1 .. Len(g[r].log) : g[r].log[k].role = "tool" =>
                             \E i \in 1 .. k - 1 : /\ k - i <= Len(g[r].log[i].calls)
                                                   /\ g[r].log[k].answers = g[r].log[i].calls[k - i]
      BY DEF WellFormedRequests
    <2>1. Conversation(g[r].log, <<>>)
      BY <1>1 DEF ConverseInv, Converses, Owed
    <2>2. g[r].log \in Seq(Msg)
      BY <1>1 DEF ConverseInv, LimitInv, TypeInv, Graph
    <2>3. ASSUME NEW i \in 1 .. Len(g[r].log), NEW j \in 1 .. Len(g[r].log[i].calls)
          PROVE  i + j <= Len(g[r].log) /\ g[r].log[i + j].answers = g[r].log[i].calls[j]
      <3>1. g[r].log[i] \in Msg
        BY <2>2
      <3>2. g[r].log[i].calls \in Seq(CallIDs)
        BY <3>1 DEF Msg
      <3>3. j \in Nat /\ i \in Nat /\ Len(g[r].log) \in Nat
        BY <2>2, <3>2
      <3> QED
        <4>1. Len(<<>>) = 0
          OBVIOUS
        <4>2. \/ i + j <= Len(g[r].log) /\ g[r].log[i + j].answers = g[r].log[i].calls[j]
              \/ i + j > Len(g[r].log) /\ i + j - Len(g[r].log) <= Len(<<>>)
          BY <2>1 DEF Conversation
        <4> QED
          BY <3>3, <4>1, <4>2
    <2>4. \A k \in 1 .. Len(g[r].log) : g[r].log[k].role = "tool" =>
            \E i \in 1 .. k - 1 : /\ k - i <= Len(g[r].log[i].calls)
                                  /\ g[r].log[k].answers = g[r].log[i].calls[k - i]
      BY <2>1 DEF Conversation
    <2> QED
      BY <2>3, <2>4
  <1> QED
    BY <1>1, ConverseInvHolds, PTL
-----------------------------------------------------------------------------
(***************************************************************************)
(* What a stream says.                                                     *)
(***************************************************************************)
\* Only an attempt says something, and only the last one that did is the output.
LEMMA GraphStepStreams ==
    ASSUME TypeInv, NEW r \in Runs, GraphSteps(r), Streams(r)
    PROVE  Streams(r)'
  <1>0. /\ g \in [Runs -> Graph] /\ g[r] \in Graph /\ g[r].log \in Seq(Msg)
        /\ run' = run /\ ctx'[r] = ctx[r]
    BY DEF TypeInv, Graph, GraphSteps
  <1>1. ASSUME NEW new, Move(r, new), new.pc \notin {"llm", "ok"},
               new.pc = "loop" => new.node # "END"
        PROVE  Streams(r)'
    <2>1. g'[r] = new
      BY <1>0, <1>1 DEF Move
    <2> QED
      BY <1>1, <2>1 DEF Streams
  <1>2. ASSUME NEW new, Move(r, new), new.pc = "llm", ~ new.said
        PROVE  Streams(r)'
    <2>1. g'[r] = new
      BY <1>0, <1>2 DEF Move
    <2> QED
      BY <1>2, <2>1 DEF Streams
  <1>3. CASE GraphFails(r)
    <2>1. [g[r] EXCEPT !.pc = "error"].pc = "error"
      BY <1>0 DEF Graph
    <2> QED
      BY <1>1, <1>3, <2>1 DEF GraphFails
  <1>4. CASE InvokeReturns(r)
    <2>1. g'[r] = [g[r] EXCEPT !.pc = "ok"] /\ g[r].pc = "loop" /\ g[r].node = "END"
      BY <1>0, <1>4 DEF InvokeReturns, Move
    <2>2. g'[r].pc = "ok" /\ g'[r].log = g[r].log /\ g'[r].output = g[r].output
      BY <1>0, <2>1 DEF Graph
    <2> QED
      BY <1>0, <2>1, <2>2 DEF Streams, Unbroken, Heard
  <1>5. CASE EnterNode(r)
    <2>1. CASE g[r].node = "llm"
      <3> DEFINE new == [g[r] EXCEPT !.pc = "llm", !.attempt = 1, !.said = FALSE]
      <3>1. new.pc = "llm" /\ ~ new.said
        BY <1>0 DEF Graph
      <3> QED
        BY <1>2, <1>5, <2>1, <3>1 DEF EnterNode
    <2>2. CASE g[r].node # "llm"
      <3> DEFINE new == [g[r] EXCEPT !.pc = "tool", !.todo = Last(g[r].log).calls]
      <3>1. new.pc = "tool"
        BY <1>0 DEF Graph
      <3> QED
        BY <1>1, <1>5, <2>2, <3>1 DEF EnterNode
    <2> QED
      BY <2>1, <2>2
  <1>6. CASE LLMFails(r)
    <2>1. [g[r] EXCEPT !.pc = "backoff"].pc = "backoff"
      BY <1>0 DEF Graph
    <2> QED
      BY <1>1, <1>3, <1>6, <2>1 DEF LLMFails
  <1>7. CASE BackoffOver(r)
    <2> DEFINE new == [g[r] EXCEPT !.pc = "llm", !.said = FALSE, !.attempt = @ + 1]
    <2>1. new.pc = "llm" /\ ~ new.said
      BY <1>0 DEF Graph
    <2> QED
      BY <1>2, <1>7, <2>1 DEF BackoffOver
  <1>8. CASE LLMAnswers(r)
    <2> DEFINE said == IF g[r].said THEN Content(r) ELSE None
               m == Message("assistant", said)
               mid == [g[r] EXCEPT !.output = said, !.log = Append(@, m)]
               new == [mid EXCEPT !.pc = "loop", !.node = "END", !.step = @ + 1]
    <2>1. said \in Contents
      BY <1>0, AttemptsAssumption DEF Content, Contents, Graph
    <2>2. m \in Msg /\ m.content = said
      <3> HIDE DEF said
      <3> QED
        BY <2>1, MessagesTyped
    <2>3. g'[r] = new /\ g[r].pc = "llm"
      BY <1>0, <1>8 DEF LLMAnswers, Leave, Move
    <2>4. /\ new.log = Append(g[r].log, m) /\ new.output = said
          /\ new.pc = "loop"
      <3> HIDE DEF m, said
      <3> QED
        BY <1>0 DEF Graph
    <2>5. new.log[Len(new.log)].content = said
      <3> HIDE DEF new, m, said
      <3> QED
        BY <1>0, <2>2, <2>4, AppendProperties
    <2>6. Unbroken(r) /\ said # None => Heard(r, said)
      BY <2>3 DEF Streams
    <2> HIDE DEF new, said, m
    <2>7. g'[r].pc = "loop" /\ g'[r].log[Len(g'[r].log)].content = said /\ g'[r].output = said
      BY <2>3, <2>4, <2>5
    <2>8. run'[r] = run[r] /\ ctx'[r] = ctx[r]
      BY <1>0
    <2> QED
      BY <2>6, <2>7, <2>8 DEF Streams, Unbroken, Heard
  <1>9. ASSUME NEW calls \in CallLists, LLMAsks(r, calls)
        PROVE  Streams(r)'
    <2> DEFINE mid == [g[r] EXCEPT !.log = Append(@, Asks(calls))]
               new == [mid EXCEPT !.pc = "loop", !.node = "tool", !.step = @ + 1]
    <2>1. new.node = "tool" /\ new.pc = "loop"
      BY <1>0 DEF Graph
    <2> QED
      BY <1>1, <1>9, <2>1 DEF LLMAsks, Leave
  <1>10. ASSUME NEW ok \in BOOLEAN, ToolReturns(r, ok)
         PROVE  Streams(r)'
    <2> DEFINE new == [g[r] EXCEPT !.log = Append(@, Answers(Head(g[r].todo))), !.todo = Tail(@)]
    <2>1. new.pc = "tool"
      BY <1>0, <1>10 DEF ToolReturns, Graph
    <2> QED
      BY <1>1, <1>10, <2>1 DEF ToolReturns
  <1>11. CASE ToolNodeReturns(r)
    <2> DEFINE new == [g[r] EXCEPT !.pc = "loop", !.node = "llm", !.step = @ + 1]
    <2>1. new.pc = "loop" /\ new.node = "llm"
      BY <1>0 DEF Graph
    <2> QED
      BY <1>1, <1>11, <2>1 DEF ToolNodeReturns, Leave
  <1> QED
    BY <1>3, <1>4, <1>5, <1>6, <1>7, <1>8, <1>9, <1>10, <1>11
    DEF GraphSteps, GraphStep, MaxStepsReached, InvokeCancelled, BackoffCancelled, NodePanics

LEMMA LastOfAppend ==
    ASSUME NEW S, NEW s \in Seq(S), NEW e \in S
    PROVE  Append(s, e) # <<>> /\ Append(s, e)[Len(Append(s, e))] = e
  <1>1. Append(s, e) # <<>> /\ Len(Append(s, e)) = Len(s) + 1 /\ Append(s, e)[Len(s) + 1] = e
    BY AppendProperties
  <1> QED
    BY <1>1

\* What an attempt says has been sent while the stream is not broken off.
LEMMA SaysStreams ==
    ASSUME TypeInv, NEW r \in Runs, Says(r)
    PROVE  Streams(r)'
  <1>0. /\ g \in [Runs -> Graph] /\ g[r] \in Graph /\ run[r] \in Run
        /\ run[r].sent \in Seq(Nat \X Nat) /\ Content(r) \in Nat \X Nat
    BY AttemptsAssumption, SMTT(30) DEF TypeInv, Graph, Run, Content
  <1>1. g'[r] = [g[r] EXCEPT !.said = TRUE] /\ g[r].pc = "llm"
    BY <1>0 DEF Says, Token, Move
  <1>2. g'[r].pc = "llm" /\ g'[r].step = g[r].step /\ g'[r].attempt = g[r].attempt
    BY <1>0, <1>1 DEF Graph
  <1>3. Content(r)' = Content(r)
    BY <1>2 DEF Content
  <1>4. CASE Unbroken(r)
    <2>1. run'[r] = [run[r] EXCEPT !.sent = Append(@, Content(r))]
      BY <1>4 DEF Says
    <2>2. run'[r].sent = Append(run[r].sent, Content(r))
      BY <1>0, <2>1 DEF Run
    <2>3. run'[r].sent # <<>> /\ run'[r].sent[Len(run'[r].sent)] = Content(r)
      <3>1. \A S : run[r].sent \in Seq(S) /\ Content(r) \in S =>
              /\ Append(run[r].sent, Content(r)) # <<>>
              /\ Append(run[r].sent, Content(r))[Len(Append(run[r].sent, Content(r)))] = Content(r)
        BY LastOfAppend
      <3> QED
        BY <1>0, <2>2, <3>1, Zenon
    <2> QED
      BY <1>2, <1>3, <2>3 DEF Streams, Heard
  <1>5. CASE ~ Unbroken(r)
    <2>1. run'[r] = run[r] /\ ctx'[r] = ctx[r]
      BY <1>5 DEF Says
    <2> QED
      BY <1>2, <1>5, <2>1 DEF Streams, Unbroken
  <1> QED
    BY <1>4, <1>5

StreamInv == LimitInv /\ \A r \in Runs : Streams(r)

LEMMA StreamInvHolds == Spec => []StreamInv
  <1>1. Init => StreamInv
    BY LimitInit, NoGraphTyped DEF Init, StreamInv, Streams
  <1>2. StreamInv /\ [Next]_vars => StreamInv'
    <2> SUFFICES ASSUME StreamInv, [Next]_vars, NEW r \in Runs PROVE Streams(r)'
      BY LimitStep DEF StreamInv
    <2>1. CASE g'[r].pc = "none" \/ Starts(r)
      BY <2>1 DEF Streams, Starts
    <2>2. CASE GraphSteps(r)
      BY <2>2, GraphStepStreams DEF StreamInv, LimitInv
    <2>3. CASE Says(r)
      BY <2>3, SaysStreams DEF StreamInv, LimitInv
    <2>4. CASE Rests(r)
      <3>1. Content(r)' = Content(r) /\ (Unbroken(r)' => Unbroken(r))
        BY <2>4 DEF Rests, Content, Unbroken
      <3>2. Streams(r)
        BY DEF StreamInv
      <3> QED
        BY <2>4, <3>1, <3>2 DEF Rests, Streams, Heard
    <2> QED
      BY <2>1, <2>2, <2>3, <2>4, GraphChanges DEF StreamInv
  <1> QED
    BY <1>1, <1>2, PTL DEF Spec

\* Attempts that failed half-way were streamed as well: whatever they said, a
\* stream that is not broken off ends with the output of the graph.
THEOREM StreamsEndWithAnswer == Spec => []StreamEndsWithAnswer
  <1>1. ASSUME StreamInv PROVE StreamEndsWithAnswer
    <2> SUFFICES ASSUME NEW r \in Runs, g[r].pc = "ok"
                 PROVE  /\ Last(g[r].log).content = g[r].output
                        /\ (run[r].req.stream /\ ctx[r] # "done" /\ g[r].output # None) =>
                             /\ run[r].sent # <<>>
                             /\ Last(run[r].sent) = g[r].output
      BY DEF StreamEndsWithAnswer
    <2> QED
      BY <1>1 DEF StreamInv, Streams, Unbroken, Heard, Last
  <1> QED
    BY <1>1, StreamInvHolds, PTL
-----------------------------------------------------------------------------
(***************************************************************************)
(* What an execution leaves behind.                                        *)
(***************************************************************************)
\* A message that is added is said by its author, after all there was.
LEMMA SaidMore ==
    ASSUME TypeInv, NEW author \in Runs \cup {None}, NEW role \in {"user", "agent"},
           AddMessage(role, author), NEW r \in Runs, NEW as \in {"user", "agent"}
    PROVE  /\ Said(r, as)' = IF r = author /\ as = role THEN Said(r, as) \cup {Len(chat) + 1}
                                                        ELSE Said(r, as)
           /\ \A i \in Said(r, as) : i \in Nat /\ i < Len(chat) + 1
  <1> DEFINE m == [role |-> role, of |-> author]
  <1>1. chat \in Seq(ChatMsg) /\ m \in ChatMsg /\ m.role = role /\ m.of = author
    BY DEF TypeInv, ChatMsg
  <1>2. chat' = Append(chat, m)
    BY DEF AddMessage
  <1>3. [role |-> as, of |-> r].role = as /\ [role |-> as, of |-> r].of = r
    OBVIOUS
  <1>4. m = [role |-> as, of |-> r] <=> (r = author /\ as = role)
    BY <1>1, <1>3
  <1> HIDE DEF m
  <1>5. /\ Len(chat) \in Nat /\ DOMAIN chat = 1 .. Len(chat)
        /\ DOMAIN chat' = 1 .. Len(chat) + 1
        /\ \A i \in 1 .. Len(chat) : chat'[i] = chat[i]
        /\ chat'[Len(chat) + 1] = m
    BY <1>1, <1>2, AppendProperties, LenProperties
  <1>6. Said(r, as)' = {i \in 1 .. Len(chat) + 1 : chat'[i] = [role |-> as, of |-> r]}
    BY <1>5 DEF Said
  <1>7. Said(r, as) = {i \in 1 .. Len(chat) : chat[i] = [role |-> as, of |-> r]}
    BY <1>5 DEF Said
  <1>8. Said(r, as)' = Said(r, as) \cup {i \in {Len(chat) + 1} : m = [role |-> as, of |-> r]}
    <2>1. \A i : i \in 1 .. Len(chat) + 1 <=> i \in 1 .. Len(chat) \/ i = Len(chat) + 1
      BY <1>5
    <2>2. \A i : i \in 1 .. Len(chat) => chat'[i] = chat[i]
      BY <1>5
    <2> QED
      BY <1>5, <1>6, <1>7, <2>1, <2>2, Zenon
  <1>9. \A i \in Said(r, as) : i \in Nat /\ i < Len(chat) + 1
    BY <1>5, <1>7
  <1> QED
    BY <1>4, <1>8, <1>9

\* Nothing changes for a run that stays as it is while its messages do.
LEMMA LeavesStay ==
    ASSUME NEW r \in Runs, Leaves(r), run'[r] = run[r],
           conv' \in {conv, "open", "gone"},
           conv' # "gone" => /\ conv # "gone"
                             /\ \A role \in {"user", "agent"} : Said(r, role)' = Said(r, role)
    PROVE  Leaves(r)'
  <1>1. \A role \in {"user", "agent"} : Saved(r, role)' = Saved(r, role)
    BY DEF Saved
  <1> QED
    BY <1>1 DEF Leaves

\* One step of a run that writes no message.
LEMMA LeavesMoves ==
    ASSUME LimitInv, NEW r \in Runs, NEW x \in Run, run' = [run EXCEPT ![r] = x],
           \A q \in Runs : Leaves(q), UNCHANGED chatVars,
           x.pc # "idle" /\ x.req.talk => conv # "none",
           x.pc \in {"saveUser", "saveAgent"} => x.req.talk /\ x.result = "success",
           x.pc \in {"idle", "load", "execute", "saveUser"} => x.lost = {},
           x.pc = "saveAgent" => x.lost \subseteq {"user"},
           x.record = "pending" => x.pc = "done",
           x.pc = "done" => x.record \in {"pending", x.result},
           conv # "gone" => \A role \in {"user", "agent"} : Saved(r, role)' <=> Saved(r, role)
    PROVE  \A q \in Runs : Leaves(q)'
  <1>0. run \in [Runs -> Run] /\ run'[r] = x /\ conv' = conv /\ chat' = chat
    BY DEF LimitInv, TypeInv, chatVars
  <1>1. \A q \in Runs, role \in {"user", "agent"} : Said(q, role)' = Said(q, role)
    BY <1>0 DEF Said
  <1>2. ASSUME NEW q \in Runs, q # r PROVE Leaves(q)'
    BY <1>0, <1>1, <1>2, LeavesStay
  <1>3. Leaves(r)'
    BY <1>0, <1>1 DEF Leaves
  <1> QED
    BY <1>2, <1>3
\* Nobody's execution says a message that comes in by hand, and that of one
\* execution is not another's.
LEMMA LeavesOthers ==
    ASSUME LimitInv, \A q \in Runs : Leaves(q), NEW author \in Runs \cup {None},
           NEW role \in {"user", "agent"}, AddMessage(role, author), NEW q \in Runs,
           q # author, run'[q] = run[q]
    PROVE  Leaves(q)'
  <1>1. \A as \in {"user", "agent"} : Said(q, as)' = Said(q, as)
    BY SaidMore DEF LimitInv
  <1>2. conv' = conv
    BY DEF AddMessage
  <1> QED
    BY <1>1, <1>2, LeavesStay

SavedInv == LimitInv /\ \A r \in Runs : Leaves(r)

LEMMA SavedStep == SavedInv /\ [Next]_vars => SavedInv'
  <1> SUFFICES ASSUME SavedInv, [Next]_vars PROVE \A r \in Runs : Leaves(r)'
    BY LimitStep DEF SavedInv
  <1> DEFINE Goal == \A r \in Runs : Leaves(r)'
  <1>0. /\ LimitInv /\ TypeInv /\ run \in [Runs -> Run]
        /\ \A r \in Runs : Leaves(r)
        /\ \A r \in Runs : run[r].pc # "idle" => run[r].req \in Request
    BY DEF SavedInv, LimitInv, TypeInv
  <1>1. ASSUME run' = run, chat' = chat, conv' \in {conv, "open"}, conv' # "gone" => conv # "gone"
        PROVE  Goal
    BY <1>0, <1>1, LeavesStay DEF Said
  <1>2. CASE UNCHANGED vars
    BY <1>1, <1>2 DEF vars, chatVars
  <1>3. CASE CreateConversation \/ Expire
    BY <1>1, <1>3 DEF CreateConversation, Expire
  <1>4. CASE DeleteConversation \/ CleanupExpired
    <2>1. run' = run /\ conv' = "gone"
      BY <1>4 DEF DeleteConversation, CleanupExpired, Forget
    <2> QED
      BY <1>0, <2>1, LeavesStay
  <1>5. ASSUME NEW r \in Runs, NEW req \in Requests[r], Begin(r, req) PROVE Goal
    <2> DEFINE asked == [req EXCEPT !.steps = StepLimit(@)]
               x == [run[r] EXCEPT !.pc = "load", !.req = asked]
    <2>1. asked \in Request /\ asked.talk = req.talk
      BY RequestsAssumption, LimitAssumption DEF Request, StepLimit
    <2>2. run' = [run EXCEPT ![r] = x] /\ run[r].pc = "idle" /\ UNCHANGED chatVars
      BY <1>0, <1>5 DEF Begin
    <2>3. req.talk => conv # "none"
      BY <1>5 DEF Begin
    <2> HIDE DEF asked
    <2>4. /\ x \in Run /\ x.pc = "load" /\ x.req = asked /\ x.lost = run[r].lost
          /\ x.record = run[r].record
      BY <1>0, <2>1, ZenonT(30) DEF Run
    <2> HIDE DEF x
    <2>5. \A role \in {"user", "agent"} : Saved(r, role)' <=> Saved(r, role)
      BY <1>0, <2>2, <2>4 DEF Saved
    <2> QED
      BY <1>0, <2>1, <2>2, <2>3, <2>4, <2>5, LeavesMoves, ZenonT(30) DEF Leaves
  <1>6. ASSUME NEW r \in Runs, NEW req \in Requests[r], PostBegin(r, req) PROVE Goal
    <2> DEFINE x == [run[r] EXCEPT !.pc = "post", !.req = req]
    <2>1. req \in Request
      BY RequestsAssumption
    <2>2. run' = [run EXCEPT ![r] = x] /\ run[r].pc = "idle" /\ conv # "none" /\ UNCHANGED chatVars
      BY <1>0, <1>6 DEF PostBegin
    <2>3. /\ x \in Run /\ x.pc = "post" /\ x.record = run[r].record
      BY <1>0, <2>1, ZenonT(30) DEF Run
    <2> HIDE DEF x
    <2>4. \A role \in {"user", "agent"} : Saved(r, role)' <=> Saved(r, role)
      BY <1>0, <2>2, <2>3 DEF Saved
    <2> QED
      BY <1>0, <2>2, <2>3, <2>4, LeavesMoves DEF Leaves
  <1>7. ASSUME NEW r \in Runs, NEW ok \in BOOLEAN, LoadHistory(r, ok) PROVE Goal
    <2> DEFINE x == [run[r] EXCEPT !.pc = "execute"]
    <2>1. run' = [run EXCEPT ![r] = x] /\ run[r].pc = "load" /\ UNCHANGED chatVars
      BY <1>0, <1>7 DEF LoadHistory
    <2>2. /\ x \in Run /\ x.pc = "execute" /\ x.req = run[r].req /\ x.lost = run[r].lost
          /\ x.record = run[r].record
      BY <1>0, ZenonT(30) DEF Run
    <2> HIDE DEF x
    <2>3. \A role \in {"user", "agent"} : Saved(r, role)' <=> Saved(r, role)
      BY <1>0, <2>1, <2>2 DEF Saved
    <2> QED
      BY <1>0, <2>1, <2>2, <2>3, LeavesMoves, ZenonT(30) DEF Leaves
  <1>8. ASSUME NEW r \in Runs, Execute(r) PROVE Goal
    BY <1>1, <1>8 DEF Execute, chatVars
  <1>9. ASSUME NEW r \in Runs, Stream(r) PROVE Goal
    <2>1. CASE run' = run
      BY <1>1, <1>9, <2>1 DEF Stream, chatVars
    <2>2. CASE run' = [run EXCEPT ![r].sent = Append(@, Content(r))]
      <3> DEFINE x == [run[r] EXCEPT !.sent = Append(run[r].sent, Content(r))]
      <3>1. LimitInv' /\ run' = [run EXCEPT ![r] = x] /\ UNCHANGED chatVars
        BY <1>0, <1>9, <2>2, LimitStep DEF Stream
      <3>2. x \in Run
        BY <1>0, <3>1 DEF LimitInv, TypeInv
      <3>3. /\ x.pc = run[r].pc /\ x.req = run[r].req /\ x.lost = run[r].lost
            /\ x.record = run[r].record /\ x.result = run[r].result
        BY <1>0 DEF Run
      <3> HIDE DEF x
      <3>4. \A role \in {"user", "agent"} : Saved(r, role)' <=> Saved(r, role)
        BY <1>0, <3>1, <3>3 DEF Saved
      <3>5. /\ run[r].pc = "execute" /\ run[r].lost = {} /\ run[r].record # "pending"
            /\ run[r].req.talk => conv # "none"
        BY <1>0, <1>9 DEF Stream, Leaves
      <3> QED
        BY <1>0, <3>1, <3>2, <3>3, <3>4, <3>5, LeavesMoves
    <2> QED
      BY <1>9, <2>1, <2>2 DEF Stream
  <1>10. ASSUME NEW r \in Runs, NEW result \in {"success", "error"}, Conclude(r, result) PROVE Goal
    <2> DEFINE pc == IF run[r].req.talk /\ result = "success" THEN "saveUser" ELSE "respond"
               x == [run[r] EXCEPT !.result = result, !.sent = <<>>, !.pc = pc]
    <2>1. run' = [run EXCEPT ![r] = x] /\ run[r].pc = "execute" /\ UNCHANGED chatVars
      BY <1>0, <1>10 DEF Conclude
    <2>2. PICK y \in Run :
             /\ run' = [run EXCEPT ![r] = y] /\ y.pc = pc /\ y.req = run[r].req
             /\ y.lost = run[r].lost /\ y.record = run[r].record /\ y.result = result
      <3>1. pc \in {"saveUser", "respond"} /\ <<>> \in Seq(Nat \X Nat)
        OBVIOUS
      <3> HIDE DEF pc
      <3>2. x \in Run
        BY <1>0, <3>1, ZenonT(30) DEF Run
      <3>3. /\ x.pc = pc /\ x.req = run[r].req /\ x.lost = run[r].lost
            /\ x.record = run[r].record /\ x.result = result
        BY <1>0 DEF Run
      <3> QED
        BY <2>1, <3>2, <3>3
    <2>3. /\ run[r].lost = {} /\ run[r].record # "pending"
          /\ run[r].req.talk => conv # "none"
          /\ pc \in {"saveUser", "respond"}
          /\ pc = "saveUser" <=> run[r].req.talk /\ result = "success"
      BY <1>0, <2>1 DEF Leaves
    <2> HIDE DEF pc, x
    <2>4. ASSUME NEW role \in {"user", "agent"}
          PROVE  ~ Saved(r, role)' /\ ~ Saved(r, role)
      BY <1>0, <2>1, <2>2, <2>3 DEF Saved
    <2> QED
      BY <1>0, <2>1, <2>2, <2>3, <2>4, LeavesMoves, ZenonT(30)
  <1>11. ASSUME NEW r \in Runs, Respond(r) PROVE Goal
    <2> DEFINE x == [run[r] EXCEPT !.pc = "done", !.record = "pending"]
    <2>1. run' = [run EXCEPT ![r] = x] /\ run[r].pc = "respond" /\ UNCHANGED chatVars
      BY <1>0, <1>11 DEF Respond
    <2>2. /\ x \in Run /\ x.pc = "done" /\ x.req = run[r].req /\ x.lost = run[r].lost
          /\ x.record = "pending" /\ x.result = run[r].result
      BY <1>0, ZenonT(30) DEF Run
    <2> HIDE DEF x
    <2>3. \A role \in {"user", "agent"} : Saved(r, role)' <=> Saved(r, role)
      BY <1>0, <2>1, <2>2 DEF Saved
    <2> QED
      BY <1>0, <2>1, <2>2, <2>3, LeavesMoves DEF Leaves
  <1>12. ASSUME NEW r \in Runs, Insert(r) PROVE Goal
    <2> DEFINE x == [run[r] EXCEPT !.record = run[r].result]
    <2>1. run' = [run EXCEPT ![r] = x] /\ run[r].record = "pending" /\ UNCHANGED chatVars
      BY <1>0, <1>12 DEF Insert
    <2>2. /\ x \in Run /\ x.pc = run[r].pc /\ x.req = run[r].req /\ x.lost = run[r].lost
          /\ x.record = run[r].result /\ x.result = run[r].result
      BY <1>0, ZenonT(30) DEF Run
    <2>3. run[r].pc = "done" /\ run[r].result # "pending"
      BY <1>0, <2>1 DEF Leaves, Run
    <2> HIDE DEF x
    <2>4. \A role \in {"user", "agent"} : Saved(r, role)' <=> Saved(r, role)
      BY <1>0, <2>1, <2>2 DEF Saved
    <2> QED
      BY <1>0, <2>1, <2>2, <2>3, <2>4, LeavesMoves, ZenonT(30) DEF Leaves
  <1>13. ASSUME NEW r \in Runs, Timeout(r) \/ ContextDone(r) PROVE Goal
    BY <1>1, <1>13 DEF Timeout, ContextDone, chatVars
  <1>14. ASSUME NEW r \in Runs, NEW ok \in BOOLEAN, NEW role \in {"user", "agent"},
                PostMessage(r, role, ok)
         PROVE  Goal
    <2> DEFINE x == [run[r] EXCEPT !.pc = "posted", !.result = IF ok THEN "success" ELSE "error"]
    <2>1. run' = [run EXCEPT ![r] = x] /\ run[r].pc = "post"
      BY <1>0, <1>14 DEF PostMessage
    <2>2. /\ x \in Run /\ x.pc = "posted" /\ x.req = run[r].req /\ x.record = run[r].record
      BY <1>0, ZenonT(30) DEF Run
    <2> HIDE DEF x
    <2>3. \A as \in {"user", "agent"} : ~ Saved(r, as)' /\ ~ Saved(r, as)
      BY <1>0, <2>1, <2>2 DEF Saved
    <2>4. CASE ~ ok
      <3>1. UNCHANGED chatVars
        BY <1>14, <2>4 DEF PostMessage, Save
      <3> QED
        BY <1>0, <2>1, <2>2, <2>3, <3>1, LeavesMoves, ZenonT(30) DEF Leaves
    <2>5. CASE ok
      <3>1. AddMessage(role, None) /\ conv' = conv
        BY <1>14, <2>5 DEF PostMessage, Save, AddMessage
      <3>2. ASSUME NEW q \in Runs, q # r PROVE Leaves(q)'
        BY <1>0, <2>1, <3>1, <3>2, AuthorAssumption, LeavesOthers
      <3>3. \A as \in {"user", "agent"} : Said(r, as)' = Said(r, as)
        BY <1>0, <3>1, AuthorAssumption, SaidMore
      <3>4. run'[r] = x
        BY <1>0, <2>1
      <3>5. Leaves(r)'
        BY <1>0, <2>1, <2>2, <2>3, <3>1, <3>3, <3>4 DEF Leaves
      <3> QED
        BY <3>2, <3>5
    <2> QED
      BY <2>4, <2>5
  <1>15. ASSUME NEW r \in Runs, NEW ok \in BOOLEAN, SaveUser(r, ok) PROVE Goal
    <2> DEFINE lost == IF ok THEN run[r].lost ELSE run[r].lost \cup {"user"}
               x == [run[r] EXCEPT !.pc = "saveAgent", !.lost = lost]
    <2>1. run' = [run EXCEPT ![r] = x] /\ run[r].pc = "saveUser"
      BY <1>0, <1>15 DEF SaveUser
    <2>2. lost = IF ok THEN {} ELSE {"user"}
      BY <1>0, <2>1 DEF Leaves
    <2> HIDE DEF lost
    <2>3. /\ x \in Run /\ x.pc = "saveAgent" /\ x.req = run[r].req /\ x.record = run[r].record
          /\ x.lost = lost /\ x.result = run[r].result
      BY <1>0, <2>2, ZenonT(30) DEF Run
    <2> HIDE DEF x
    <2>4. run'[r] = x /\ run[r].req.talk /\ run[r].result = "success"
      BY <1>0, <2>1 DEF Leaves
    <2>5. /\ ~ Saved(r, "user") /\ ~ Saved(r, "agent") /\ ~ Saved(r, "agent")'
          /\ Saved(r, "user")' <=> ok
      BY <2>1, <2>2, <2>3, <2>4 DEF Saved
    <2>6. CASE ~ ok
      <3>1. UNCHANGED chatVars
        BY <1>15, <2>6 DEF SaveUser, Save
      <3>2. x.record # "pending" /\ conv # "none"
        BY <1>0, <2>1, <2>3, <2>4 DEF Leaves
      <3>3. x.lost \subseteq {"user"}
        BY <2>2, <2>3
      <3> QED
        BY <1>0, <2>1, <2>3, <2>4, <2>5, <2>6, <3>1, <3>2, <3>3, LeavesMoves
    <2>7. CASE ok
      <3>1. AddMessage("user", r) /\ conv' = conv /\ conv = "open"
        BY <1>15, <2>7 DEF SaveUser, Save, AddMessage
      <3>2. ASSUME NEW q \in Runs, q # r PROVE Leaves(q)'
        BY <1>0, <2>1, <3>1, <3>2, LeavesOthers
      <3>3. Said(r, "user") = {} /\ Said(r, "agent") = {}
        BY <1>0, <2>5, <3>1 DEF Leaves
      <3>4. Said(r, "user")' = {Len(chat) + 1} /\ Said(r, "agent")' = {}
        BY <1>0, <3>1, <3>3, SaidMore
      <3>5. Leaves(r)'
        BY <1>0, <2>1, <2>2, <2>3, <2>4, <2>5, <2>7, <3>1, <3>4 DEF Leaves
      <3> QED
        BY <3>2, <3>5
    <2> QED
      BY <2>6, <2>7
  <1>16. ASSUME NEW r \in Runs, NEW ok \in BOOLEAN, SaveAgent(r, ok) PROVE Goal
    <2> DEFINE lost == IF ok THEN run[r].lost ELSE run[r].lost \cup {"agent"}
               x == [run[r] EXCEPT !.pc = "respond", !.lost = lost]
    <2>1. run' = [run EXCEPT ![r] = x] /\ run[r].pc = "saveAgent"
      BY <1>0, <1>16 DEF SaveAgent
    <2>2. /\ lost \subseteq {"user", "agent"}
          /\ "agent" \in lost <=> ~ ok
          /\ "user" \in lost <=> "user" \in run[r].lost
      BY <1>0, <2>1 DEF Leaves
    <2> HIDE DEF lost
    <2>3. /\ x \in Run /\ x.pc = "respond" /\ x.req = run[r].req /\ x.record = run[r].record
          /\ x.lost = lost /\ x.result = run[r].result
      BY <1>0, <2>2, ZenonT(30) DEF Run
    <2> HIDE DEF x
    <2>4. run'[r] = x /\ run[r].req.talk /\ run[r].result = "success"
      BY <1>0, <2>1 DEF Leaves
    <2>5. /\ ~ Saved(r, "agent") /\ (Saved(r, "user")' <=> Saved(r, "user"))
          /\ Saved(r, "agent")' <=> ok
      BY <2>1, <2>2, <2>3, <2>4 DEF Saved
    <2>6. CASE ~ ok
      <3>1. UNCHANGED chatVars
        BY <1>16, <2>6 DEF SaveAgent, Save
      <3>2. x.record # "pending" /\ conv # "none"
        BY <1>0, <2>1, <2>3, <2>4 DEF Leaves
      <3> QED
        BY <1>0, <2>1, <2>3, <2>5, <2>6, <3>1, <3>2, LeavesMoves
    <2>7. CASE ok
      <3>1. AddMessage("agent", r) /\ conv' = conv /\ conv = "open"
        BY <1>16, <2>7 DEF SaveAgent, Save, AddMessage
      <3>2. ASSUME NEW q \in Runs, q # r PROVE Leaves(q)'
        BY <1>0, <2>1, <3>1, <3>2, LeavesOthers
      <3>3. Said(r, "agent") = {}
        BY <1>0, <2>5, <3>1 DEF Leaves
      <3>4. /\ Said(r, "agent")' = {Len(chat) + 1} /\ Said(r, "user")' = Said(r, "user")
            /\ \A i \in Said(r, "user") : i < Len(chat) + 1
        BY <1>0, <3>1, <3>3, SaidMore
      <3>5. IF Saved(r, "user") THEN \E i \in Said(r, "user") : Said(r, "user") = {i}
                                ELSE Said(r, "user") = {}
        BY <1>0, <3>1 DEF Leaves
      <3>6. /\ conv' # "none" /\ run'[r].pc = "respond" /\ run'[r].record # "pending"
        BY <1>0, <2>1, <2>3, <2>4, <3>1 DEF Leaves
      <3>7. Leaves(r)'
        BY <2>5, <2>7, <3>4, <3>5, <3>6 DEF Leaves
      <3> QED
        BY <3>2, <3>7
    <2> QED
      BY <2>6, <2>7
  <1> QED
    BY <1>2, <1>3, <1>4, <1>5, <1>6, <1>7, <1>8, <1>9, <1>10, <1>11, <1>12, <1>13, <1>14,
       <1>15, <1>16
    DEF Next, ExecuteAgent, ExecuteAgentStream, RunStep, GraphSucceeded, GraphFailed, ThinkCoT,
        NotImplemented

LEMMA SavedInvHolds == Spec => []SavedInv
  <1>1. Init => SavedInv
    <2> SUFFICES ASSUME Init, NEW r \in Runs PROVE Leaves(r)
      BY LimitInit DEF SavedInv
    <2>1. /\ run[r].pc = "idle" /\ run[r].lost = {} /\ run[r].record = "none"
          /\ \A role : Said(r, role) = {}
      BY DEF Init, IdleRun, Said
    <2> QED
      BY <2>1 DEF Leaves, Saved
  <1> QED
    BY <1>1, SavedStep, PTL DEF Spec

\* The question and the answer are saved in two transactions, on a context that
\* may end and in a conversation that may go between them, beside any number of
\* other executions and posts: what is left of an execution agrees with what its
\* client was told.
THEOREM OutcomesHold == Spec => []OutcomesAgree
  <1>1. ASSUME SavedInv PROVE OutcomesAgree
    <2> SUFFICES ASSUME NEW r \in Runs, run[r].pc = "done"
                 PROVE  /\ run[r].record \in {"pending", run[r].result}
                        /\ (conv = "open" /\ run[r].req.talk) =>
                             /\ \A role \in {"user", "agent"} :
                                  IF run[r].result = "success" /\ role \notin run[r].lost
                                  THEN \E i \in DOMAIN chat : Said(r, role) = {i}
                                  ELSE Said(r, role) = {}
                             /\ \A i \in Said(r, "user"), j \in Said(r, "agent") : i < j
      BY DEF OutcomesAgree
    <2>1. Leaves(r) /\ \A role : Said(r, role) \subseteq DOMAIN chat
      BY <1>1 DEF SavedInv, Said
    <2>2. ASSUME run[r].req.talk, NEW role \in {"user", "agent"}
          PROVE  Saved(r, role) <=> run[r].result = "success" /\ role \notin run[r].lost
      BY <2>2 DEF Saved
    <2> QED
      BY <2>1, <2>2 DEF Leaves
  <1> QED
    BY <1>1, SavedInvHolds, PTL
=============================================================================
