-------------------------- MODULE MCAgentExecution --------------------------
(* An instance of AgentExecution for TLC. *)
EXTENDS AgentExecution

CONSTANTS r1, r2, t1, t2

TwoRuns    == {r1, r2}

Asked(type, stream, talk) == [type |-> type, stream |-> stream, talk |-> talk, steps |-> 0]

\* A ReAct agent in full beside an agent that does not need the model.
Mixed      == (r1 :> {Asked("react", TRUE, TRUE), Asked("other", FALSE, FALSE)}
               @@ r2 :> {Asked("cot", FALSE, TRUE), Asked("post", FALSE, TRUE)})

TwoCalls   == {<<t2, t1>>}
=============================================================================
