\* A ReAct run beside another run of the same conversation, which may be
\* posted to, deleted and cleaned up meanwhile.  Both runs end.
SPECIFICATION FairSpec
CONSTANTS
    r1 = r1  r2 = r2  t1 = t1  t2 = t2  None = None
    Runs <- TwoRuns
    Requests <- Mixed
    CallLists <- TwoCalls
    Attempts = 2
    DefaultSteps = 2
    MaxIterations = 4
    Window = 1
CHECK_DEADLOCK FALSE
INVARIANTS
    WellFormedRequests
    OutcomesAgree
    StreamEndsWithAnswer
PROPERTIES
    RunReturns
