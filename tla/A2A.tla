-------------------------------- MODULE A2A --------------------------------
(***************************************************************************)
(* The agent-to-agent protocol of one process (internal/agent/a2a): the       *)
(* ProtocolHandler with its two bounded channels and the goroutine behind      *)
(* each, the heartbeat and clean-up loops, the discovery and negotiation       *)
(* services, and the calls that goroutines make on one A2AClient.             *)
(*                                                                         *)
(* There is no transport: the outbox is emptied into the log, and what a peer   *)
(* sends comes in through Receive.  No code calls the listeners of a client,     *)
(* so no reply ever reaches a channel of replyChans; and the client gives its   *)
(* messages no ID, so that map has one key for all of its calls.  Only        *)
(* DiscoverAgents asks the discovery service on behalf of a client.            *)
(***************************************************************************)
EXTENDS Discovery, Negotiation

CONSTANTS
    Callers,       \* goroutines that call the client
    Nobody,        \* no caller
    ChannelSize,   \* capacity of inbox and outbox (1000 in the code)
    MaxHandlers,   \* bound on the handlers registered for one type of message
    MaxCalls       \* bound on the calls from outside the package

ASSUME A2AAssumption == /\ ChannelSize \in Nat
                        /\ MaxHandlers \in Nat \ {0}
                        /\ MaxCalls \in Nat
                        /\ Nobody \notin Callers

VARIABLES
    phase,      \* "new", "running", "stopping", "closed", "stuck" in Stop, or "crashed"
    done,       \* the context of the goroutines has ended
    inbox,      \* messages received, by what their handler does
    outbox,     \* messages to be sent: how many
    handlers,   \* handlers of the messages that are answered
    replies,    \* answers processInbox still has to put into the outbox
    workers,    \* the goroutines of the handler that run
    beats,      \* peers sendHeartbeats still has to send to
    call,       \* call[c]: the operation c is in
    pc,         \* pc[c]: where c is in it
    mu,         \* holder of the client's lock
    reply,      \* whose channel replyChans holds
    closed,     \* callers whose channel Stop has closed
    calls       \* calls made so far

clientVars  == <<call, pc, mu, reply, closed>>
handlerVars == <<inbox, outbox, handlers, replies, workers, beats>>
vars == <<phase, done, clientVars, handlerVars, discoveryVars, negotiationVars, calls>>

Init == /\ phase = "new" /\ done = FALSE
        /\ inbox = <<>> /\ outbox = 0
        /\ handlers = 1 /\ replies = 0
        /\ workers = {} /\ beats = {}
        /\ call = [c \in Callers |-> "none"] /\ pc = [c \in Callers |-> "idle"]
        /\ mu = Nobody /\ reply = Nobody /\ closed = {}
        /\ calls = 0
        /\ DiscoveryInit
        /\ NegotiationInit

Alive == phase # "crashed"

\* A call from outside.
Called == Alive /\ calls < MaxCalls /\ calls' = calls + 1

ChannelsOpen == phase \notin {"closed", "stuck"}
Room == outbox < ChannelSize

-----------------------------------------------------------------------------
(* A2AProtocol: Start, Stop, the heartbeat and the clean-up loop.              *)

Start ==
    /\ phase = "new"
    /\ phase' = "running"
    /\ workers' = {"inbox", "outbox"}
    /\ UNCHANGED <<done, clientVars, inbox, outbox, handlers, replies, beats,
                   discoveryVars, negotiationVars, calls>>

\* The context Start was given ends, and with it the goroutines, but not `running'.
ContextEnds ==
    /\ phase = "running"
    /\ ~ done
    /\ done' = TRUE
    /\ UNCHANGED <<phase, clientVars, handlerVars, discoveryVars, negotiationVars, calls>>

\* Stop takes the lock of the protocol, cancels, closes the channels, waits for the goroutines
\* of the handler, and then takes the lock it holds.
Stop ==
    \/ phase = "running"  /\ phase' = "stopping" /\ done' = TRUE
    \/ phase = "stopping" /\ phase' = "closed" /\ UNCHANGED done
    \/ phase = "closed" /\ workers = {} /\ phase' = "stuck" /\ UNCHANGED done

StopStep ==
    /\ Stop
    /\ UNCHANGED <<clientVars, handlerVars, discoveryVars, negotiationVars, calls>>

\* sendHeartbeats: a copy of the peers, and a message to each; a round that has begun goes on
\* when the context ends.
Tick ==
    /\ phase \notin {"new", "crashed"}
    /\ ~ done
    /\ ~ wedged
    /\ beats = {}
    /\ DOMAIN peers # {}
    /\ beats' = DOMAIN peers
    /\ UNCHANGED <<phase, done, clientVars, inbox, outbox, handlers, replies, workers,
                   discoveryVars, negotiationVars, calls>>

Beat ==
    /\ Alive
    /\ \E a \in beats :
         \/ /\ ChannelsOpen /\ Room
            /\ outbox' = outbox + 1
            /\ beats' = beats \ {a}
            /\ UNCHANGED phase
         \/ /\ ~ ChannelsOpen
            /\ phase' = "crashed"
            /\ UNCHANGED <<outbox, beats>>
    /\ UNCHANGED <<done, clientVars, inbox, handlers, replies, workers,
                   discoveryVars, negotiationVars, calls>>

\* The clean-up of peers and that of negotiations, which share nothing and are one step here.
\* The third one, of plans, removes those that are completed or failed, and no code marks a
\* plan so.
CleanupTick ==
    /\ phase \notin {"new", "crashed"}
    /\ ~ done
    /\ CleanupPeers
    /\ CleanupNegotiations
    /\ UNCHANGED <<phase, done, clientVars, handlerVars, calls>>

-----------------------------------------------------------------------------
(* ProtocolHandler: the inbox and the outbox.                                *)


\* A message of one of the built-in types, well formed or not; the types without a handler and
\* those whose handlers return nothing are "tells".  (After Stop the sender panics.)
Receive(m) ==
    /\ ChannelsOpen
    /\ Len(inbox) < ChannelSize
    /\ inbox' = Append(inbox, m)
    /\ UNCHANGED <<phase, done, clientVars, outbox, handlers, replies, workers, beats,
                   discoveryVars, negotiationVars>>

RegisterHandler ==
    /\ handlers < MaxHandlers
    /\ handlers' = handlers + 1
    /\ UNCHANGED <<phase, done, clientVars, inbox, outbox, replies, workers, beats,
                   discoveryVars, negotiationVars>>

\* processInbox takes a message; a handler asserts the type of a field of the payload that
\* a malformed message lacks, and panics.
HandleMessage ==
    /\ "inbox" \in workers
    /\ replies = 0
    /\ inbox # <<>>
    /\ inbox' = Tail(inbox)
    /\ replies' = IF Head(inbox) = "asks" THEN handlers ELSE 0
    /\ phase' = IF Head(inbox) = "malformed" THEN "crashed" ELSE phase
    /\ UNCHANGED <<outbox, workers>>

SendReply ==
    /\ "inbox" \in workers
    /\ replies > 0
    /\ \/ /\ ChannelsOpen /\ Room
          /\ outbox' = outbox + 1
          /\ replies' = replies - 1
          /\ UNCHANGED phase
       \/ /\ ~ ChannelsOpen
          /\ phase' = "crashed"
          /\ UNCHANGED <<outbox, replies>>
    /\ UNCHANGED <<inbox, workers>>

ProcessOutbox ==
    /\ "outbox" \in workers
    /\ outbox > 0
    /\ outbox' = outbox - 1
    /\ UNCHANGED <<phase, inbox, replies, workers>>

\* The select may take ctx.Done, or a channel that is closed and empty, and the goroutine ends.
WorkerEnds(w) ==
    /\ w \in workers
    /\ done
    /\ w = "inbox" => replies = 0
    /\ workers' = workers \ {w}
    /\ UNCHANGED <<phase, inbox, outbox, replies>>

Worker(A) ==
    /\ Alive
    /\ A
    /\ UNCHANGED <<done, clientVars, handlers, beats, discoveryVars, negotiationVars,
                   calls>>

-----------------------------------------------------------------------------
(* A2AClient.                                                              *)

AfterSend == [announce |-> "idle", leave |-> "idle", tell |-> "idle", propose |-> "lock",
              request |-> "wait", stop |-> "lock"]

Begin(c, op, step) ==
    /\ pc[c] = "idle"
    /\ call' = [call EXCEPT ![c] = op]
    /\ pc' = [pc EXCEPT ![c] = step]
    /\ UNCHANGED <<phase, done, mu, reply, closed, handlerVars, discoveryVars, negotiationVars>>

\* These send a message with the lock held, send one after they had the lock, and only send.
AnnounceCapabilities(c) == Begin(c, "announce", "lock")
LeaveCollaboration(c)   == Begin(c, "leave", "lock")
AcceptTask(c)           == Begin(c, "tell", "send")
RejectTask(c)           == Begin(c, "tell", "send")
RequestCollaboration(c) == Begin(c, "tell", "send")
JoinCollaboration(c)    == Begin(c, "tell", "send")
ReportProgress(c)       == Begin(c, "tell", "send")
SendData(c)             == Begin(c, "tell", "send")
Broadcast(c)            == Begin(c, "tell", "send")

\* These wait for a reply: the first registers its channel after it has sent, the other before.
ClientProposeTask(c) == Begin(c, "propose", "send")
RequestData(c)       == Begin(c, "request", "lock")

ClientStop(c) == Begin(c, "stop", "send")

\* DiscoverAgents sends nothing and does not take the client's lock; the capabilities it
\* requires are some, or none.
DiscoverAgents(c) == \E op \in {"find", "findall"} : Begin(c, op, "search")

\* These only look at what the client keeps, or change it, with the lock held once: RegisterHandler,
\* GetCapabilities, GetCollaboration, GetActiveCollaborations, AddSharedData, GetSharedData.
Look(c) == Begin(c, "look", "lock")

ClientCall(c) ==
    \/ AnnounceCapabilities(c) \/ LeaveCollaboration(c) \/ AcceptTask(c) \/ RejectTask(c)
    \/ RequestCollaboration(c) \/ JoinCollaboration(c) \/ ReportProgress(c) \/ SendData(c)
    \/ Broadcast(c) \/ ClientProposeTask(c) \/ RequestData(c) \/ ClientStop(c)
    \/ DiscoverAgents(c) \/ Look(c)

\* The call returns or panics; the lock is released by a defer.
Ends(c) == /\ pc' = [pc EXCEPT ![c] = "idle"]
           /\ call' = [call EXCEPT ![c] = "none"]
           /\ closed' = closed \ {c}
           /\ mu' = IF mu = c THEN Nobody ELSE mu

\* SendMessage, which blocks while the outbox is full and panics on a closed one.
Send(c) ==
    /\ pc[c] = "send"
    /\ \/ /\ ~ ChannelsOpen
          /\ Ends(c)
          /\ UNCHANGED outbox
       \/ /\ ChannelsOpen /\ Room
          /\ outbox' = outbox + 1
          /\ IF AfterSend[call[c]] = "idle"
             THEN Ends(c)
             ELSE /\ pc' = [pc EXCEPT ![c] = AfterSend[call[c]]]
                  /\ UNCHANGED <<call, mu, closed>>
    /\ UNCHANGED reply

\* What a call does under the lock: all but AnnounceCapabilities release it at once.
Locked(c) ==
    /\ pc[c] = "lock"
    /\ mu = Nobody
    /\ \/ /\ call[c] \in {"announce", "leave"}
          /\ pc' = [pc EXCEPT ![c] = "send"]
          /\ mu' = IF call[c] = "announce" THEN c ELSE mu
          /\ UNCHANGED <<call, reply, closed>>
       \/ /\ call[c] \in {"propose", "request"}
          /\ pc' = [pc EXCEPT ![c] = IF call[c] = "propose" THEN "wait" ELSE "send"]
          /\ reply' = c
          /\ UNCHANGED <<call, mu, closed>>
       \/ call[c] = "look" /\ Ends(c) /\ UNCHANGED reply
       \/ /\ call[c] = "stop"
          /\ pc' = [pc EXCEPT ![c] = "idle"]
          /\ call' = [call EXCEPT ![c] = "none"]
          /\ closed' = closed \cup ({reply} \ {Nobody})
          /\ reply' = Nobody
          /\ UNCHANGED mu
    /\ UNCHANGED outbox

\* Mutant of Awaited: only a reply, or the end of the channel, ends the wait.
AwaitedForEver(c) ==
    /\ pc[c] = "wait"
    /\ c \in closed
    /\ mu = Nobody
    /\ Ends(c)
    /\ reply' = Nobody
    /\ UNCHANGED outbox

\* The wait ends: the channel was closed (a nil reply, and a panic), the context ended, or
\* TaskTimeout passed.  Each way deletes the entry of replyChans, whosever it is.
Awaited(c) ==
    /\ pc[c] = "wait"
    /\ mu = Nobody
    /\ Ends(c)
    /\ reply' = Nobody
    /\ UNCHANGED outbox

\* GetPeersWithCapabilities, under the read lock of the discovery service: with nothing
\* required it returns only if no writer came in between its two read locks (see Wedge), and
\* stays where it is if one did.
Search(c) ==
    /\ pc[c] = "search"
    /\ \/ ~ wedged /\ Ends(c) /\ UNCHANGED discoveryVars
       \/ call[c] = "findall" /\ Wedge /\ UNCHANGED <<call, pc, mu, closed>>
    /\ UNCHANGED <<reply, outbox>>

ClientStep(c) ==
    /\ Alive
    /\ \/ (Send(c) \/ Locked(c) \/ Awaited(c)) /\ UNCHANGED discoveryVars
       \/ Search(c)
    /\ UNCHANGED <<phase, done, inbox, handlers, replies, workers, beats, negotiationVars,
                   calls>>

-----------------------------------------------------------------------------
Messages == {"asks", "tells", "malformed"}

\* Calls from outside on the services.
ServiceCall ==
    \/ /\ \/ \E a \in Agents :
               \/ \E caps \in Announced : RegisterPeer(a, caps)
               \/ UnregisterPeer(a)
               \/ UpdateHeartbeat(a)
          \/ \E s \in Subscribers : Subscribe(s)
          \/ Wedge
       /\ UNCHANGED negotiationVars
    \/ /\ \E n \in Offers :
            \/ ProposeTask(n)
            \/ \E a \in Answers : RespondToOffer(n, a)
            \/ CancelNegotiation(n)
       /\ UNCHANGED discoveryVars

\* What happens in the services without a call.
ServiceEvent ==
    \/ /\ \/ \E a \in Agents : FallSilent(a)
          \/ \E s \in Subscribers : ReceiveEvent(s) \/ Unsubscribe(s)
       /\ UNCHANGED negotiationVars
    \/ /\ \E n \in Offers : TimerFires(n) \/ Age(n)
       /\ UNCHANGED discoveryVars

Next ==
    \/ Start \/ ContextEnds \/ StopStep
    \/ Tick \/ Beat \/ CleanupTick
    \/ Worker(HandleMessage) \/ Worker(SendReply) \/ Worker(ProcessOutbox)
    \/ \E w \in workers : Worker(WorkerEnds(w))
    \/ \E c \in Callers : ClientStep(c)
    \/ /\ Called
       /\ \/ \E c \in Callers : ClientCall(c)
          \/ \E m \in Messages : Receive(m)
          \/ RegisterHandler
          \/ ServiceCall /\ UNCHANGED <<phase, done, clientVars, handlerVars>>
    \/ /\ Alive
       /\ ServiceEvent
       /\ UNCHANGED <<phase, done, clientVars, handlerVars, calls>>

\* The goroutine of the outbox runs, a sender and one who waits for a lock are served in the
\* order in which they came (so that others cannot overtake them for ever), and time-outs pass.
Fairness == WF_vars(Worker(ProcessOutbox)) /\ \A c \in Callers : SF_vars(ClientStep(c))

Spec == Init /\ [][Next]_vars /\ Fairness

-----------------------------------------------------------------------------
(* A call on a client of a protocol that runs returns, though it may hold the   *)
(* client's lock while it waits for room in the outbox and though no reply ever   *)
(* comes, unless the protocol is stopped, its context ends or the process dies    *)
(* first.  There is one exception: DiscoverAgents never returns once the lock of   *)
(* the discovery service is taken for good, which a DiscoverAgents that requires   *)
(* no capability may bring about itself (discovery.go:140-144, 127).  The other     *)
(* calls return all the same.                                              *)
CallsReturn ==
    \A c \in Callers :
        pc[c] # "idle" /\ phase = "running"
            ~> \/ pc[c] = "idle" \/ phase # "running" \/ done
               \/ pc[c] = "search" /\ wedged
=============================================================================
