\* main, Run and the chat-cleanup worker; components that fail to start or stop.
\* The process ends when main returns.
SPECIFICATION ServerFairSpec
CONSTANTS
    http = http  chat = chat  nats = nats  NoName = NoName
    Components <- MainComponents
    Cleanup = chat
    Fallible <- TwoFallible
    StartTimeout = 2
    CleanupInterval = 4
CHECK_DEADLOCK FALSE
INVARIANTS
    StartedMeansAllOn
    CleanWhenNothingFails
PROPERTIES
    ComesUp
