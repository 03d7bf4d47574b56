# A TLA+ model of ClawHermes (Stratum)

ClawHermes is a multi-tenant server for AI agents: a Go process with an HTTP API
(Gin) in front of agents, skills, MCP servers, knowledge bases and memories, with
PostgreSQL (one schema per tenant), Redis, Milvus, Neo4j and NATS behind it. This
directory holds TLA+ modules for the parts of it that carry state across
concurrent steps, the TLC configurations that check them, and proofs that TLAPS
checks. `PROJECT.json` is the index: components, runs, the lines of source behind
every definition, hazards, theorems.

    tlc -workers 2 -config SkillGateway_calls.cfg MCSkillGateway   # a run
    tlapm SkillProofs.tla                                          # proofs

## 1. The system

| component | state it keeps | operations | interacts with |
|---|---|---|---|
| skill gateway (`internal/skillgateway`) | provider registry; one circuit breaker per skill; audit log | `Register`, `execute` (resolve, `Allow`, attempts with back-off, `RecordSuccess`/`RecordFailure`), pipelines | called by agents' tool nodes and the HTTP API; calls providers (registry adapter, MCP provider) |
| code executor (`internal/skill`) | two levels of semaphores (Go channels), abandoned goroutines | `Acquire`, `Release`, `runPython`, `runJS` | called by code skills |
| harness and server process (`internal/harness`, `cmd/server`) | registered components, `started`; main, the goroutine in `Run`, the chat-cleanup worker | `Register`, `Start`, rollback, `Stop`, `Run`; signals | starts everything else; the worker calls the chat store |
| sessions (`internal/auth`, `auth_handler.go`) | `refresh_tokens` rows, blacklist keys in Redis, cookies, `tenant_members` | sign-in, `Refresh`, `Logout`, `SwitchTenant`, tenant creation | every other handler trusts the role in the access token |
| tenant members (`tenant_handler.go`) | `tenant_members` rows, roles in access tokens | `UpdateMemberRole`, `RemoveMember`, `JoinTenant` | sessions |
| tenant settings (`tenant_handler.go`, `tenant_cache.go`) | encrypted API keys in the tenant's row; cache of gateways with a TTL | `GetSettings`, `UpdateSettings`, `resolveTenantGateway` | the agent handlers use the gateways |
| MCP client manager (`internal/mcp`) | clients, connections, `mcp_configs` rows, capability cache | `Connect`, `Disconnect`, `ListTools`, `ListResources`, health check, `RestoreFromDB`, `Stop` | skill adapter, agent tools |
| agent executions (`internal/agent`, `agent_handler.go`) | the ReAct graph of each run, conversations and messages, execution records | `ExecuteAgent`, `ExecuteAgentStream`, `Invoke`, llm and tool nodes, `AddMessage`, `DeleteConversation`, clean-up | LLM gateway, skill gateway, chat store |
| skill registry (`internal/orchestrator`, `skill_handler.go`) | one map of skill objects for all tenants, with the `skills` table of each tenant's schema behind it | `Register`, `Remove`, `Get`; `UpdateSkill` changes the object in place | agents run what the map serves |
| agents and workspaces (`internal/agent/registry.go`, `rag_handler.go`) | `agents`, link tables, `rag_workspaces` | create, update, delete | foreign keys tie agents to skills and workspaces |
| knowledge (`internal/knowledge`, `textchunk`, `pkg/vector`) | one Milvus collection per tenant, the connection made at start | upload (parse, chunk, embed, create, insert, flush), vector, keyword and hybrid queries | the RAG handlers; agents with workspaces |
| memory (`internal/memory`) | one window of entries for all tenants, one `RWMutex` | add, get, search, delete, clear, statistics | memory handlers |
| agent-to-agent (`internal/agent/a2a`) | peers and capability index, subscribers, negotiations with timers, inbox and outbox, the client's lock and reply channels | register, search, `Cleanup`, propose, respond, cancel, `Start`/`Stop`, the client's calls | used by nothing outside its package |

What is hard in it, and what makes each part correct:

* **Concurrency without one lock.** A call of the skill gateway looks at its
  breaker twice, minutes apart; in between the breaker belongs to the other
  calls. Correct: it trips at its threshold, lets one probe through per
  half-open period, and never waits for a report that cannot come. The executor's
  semaphore is two channels and no lock: no slot may leak between them.
* **Statements without a transaction.** Token rotation, membership changes and
  settings updates are a read, a decision and a write; any other request may run
  in between, and any statement may fail. Correct: a session never forks, a
  tenant keeps its owner, a save leaves alone what it was not asked to change.
* **Caches and copies.** Roles live on in access tokens, keys in cached
  gateways, tool lists in the capability cache, clients in the health check's
  copy. Correct: what is stale goes away by itself.
* **Time.** Recovery and execution time-outs, TTLs, the 30 seconds of `Start`, the
  deadlines of a run. Correct: everything that was begun ends.
* **Retries and partial failure.** Model requests are repeated after part of
  their answer was sent on; a tool of several fails; a component of several does
  not start; the question of an exchange is saved and its answer is not; an upload
  fails between two of its services. Correct: what is asked, told, saved and
  recorded agree.
* **Two stores for one thing.** A skill is an object in a map that all tenants share and a
  row in a table that they do not; a workspace is linked by name and by key. Correct: they
  agree whenever nobody is at work on them, and what an agent is linked to can be run, as
  long as no other tenant interferes.
* **Waiting.** A lock held over a transaction, a message sent on a full channel with a
  lock held, a loop that steps back. Correct: whoever asked is answered.

## 2. Modules

| module | models | state (code) |
|---|---|---|
| `CircuitBreaker` | `circuit_breaker.go`: `Allow`, `RecordSuccess`, `RecordFailure` as functions of a breaker | constants only |
| `SkillGateway` | `atomic.go`, `provider.go`; extends `CircuitBreaker` | `provider` (registry), `breaker` (manager), `call` (goroutines in `execute`), `failed` (history) |
| `ExecutionLimit` | abstract: at most so much code at a time, overall and per tenant | `running` |
| `CodeExecutor` | `semaphore.go`, `code_executor.go`; shown to implement `ExecutionLimit` | `global`, `tenantSem` (channels), `worker`, `abandoned` |
| `Harness` | `harness.go`: `Register`, `Start`, rollback, `Stop`, a component at a time | `registered`, `started`, the operation under way, `on` |
| `Server` | `main.go`, `Harness.Run`, chat-cleanup; extends `Harness` | `main`, `run`, `ctxDone`, `startCtx`, `clock`, `worker` |
| `AuthSession` | `token_store.go`, `auth_handler.go`, `onboard.go` for one user, a statement at a time | `role`, `row`, `blacklist`, `cookie`, `req` |
| `TenantMembers` | the membership handlers of one tenant | `role`, `token`, `req` |
| `TenantSettings` | `UpdateSettings`, `GetSettings`, `resolveTenantGateway`, the TTL cache | `row`, `cache`, `writer`, `reader`, `served` |
| `McpManager` | `client_manager.go`, `cache.go`, connection state of `client.go` | `clients`, `conn`, `pending`, `row`, `cache`, `lister`, `check`, `restore` |
| `ReAct` | `graph.go`, `react.go`, `retry.go` and the request to the model | `g` (one graph per run), `ctx` |
| `AgentExecution` | the two execution handlers, `BaseAgent.Execute`, chat store, execution record; extends `ReAct` | `run`, `conv`, `stale`, `chat` |
| `SkillRegistry` | `orchestrator/registry.go`, `skill_handler.go`, an access at a time | `object`, `skills` (the one map), `rows` (a table per tenant), `req`; `askers`, `tainted` (histories) |
| `Catalog` | agents, links and workspaces; extends `SkillRegistry` | `agents`, `links`, `ws`, `edit`, `crossed` (history) |
| `Filter` | the loop that keeps some elements of a list, used by `Chunker` and `Memory` | constants only |
| `Chunker` | `chunker.go` as operators, its loops an iteration at a time | constants only |
| `Retrieval` | results of a search, and `HybridSearch`'s fusion, as operators | constants only |
| `Knowledge` | uploads and queries; extends `Chunker` and `Retrieval` | `alive`, `connected`, `upload`, `collection`, `inserted`, `flushed`, `query`, `fault` (history) |
| `RWLock` | Go's `sync.RWMutex` (external) | `writer`, `writing`, `readers`, `blocked` |
| `Memory` | `manager.go`, `short_term.go` (window), `memory_handler.go`; extends `RWLock` and `Filter` | `window`, `req`, `added`, `dropped` (histories) |
| `Discovery` | `discovery.go` | `peers`, `index`, `inactive`, `events`, `wedged` |
| `Negotiation` | `negotiation.go` | `negotiations`, `state`, `response`, `timers`, `old`, `stats` |
| `A2A` | `protocol.go`, `handler.go`, `client.go`; extends `Discovery` and `Negotiation` | `phase`, `done`, `inbox`, `outbox`, `handlers`, `replies`, `workers`, `beats`; `call`, `pc`, `mu`, `reply`, `closed` of the client |
| `SkillProofs` (gateway and executor), `ServerProofs`, `AuthSessionProofs`, `TenantProofs` (members and settings), `CatalogProofs` (catalog and MCP manager), `AgentExecutionProofs`, `RecallProofs` (memory and knowledge), `A2AProofs` | theorems about the modules named and those they extend | |

The `MC*` modules only name sets for the configurations. An operator whose comment
says *Mutant of X* is a plausible bug in X; `PROJECT.json` pairs it with the
property that must catch it, and nothing else uses it.

**Granularity.** An action is one access to shared state (a lock's critical
section, a channel operation, a database or Redis statement) with the local code up
to the next one; what runs under one lock, or in one transaction, is one action.
`Connect` of the MCP manager holds the manager's lock throughout but is two actions,
because the cache it fills has a lock of its own and is read in between.

**Data.** Skills, tenants, tokens, keys and contents are model values or are known by
where they came from: a list of tools by the client it was read from, an answer by
the step and the attempt that said it. Encryption is a tag, masking turns a key
into a "masked" text that is not a key. Time is a saturating or wrapping tick
counter per component. Go maps are iterated in any order.

**Environment.** Providers, tools and models return, fail, run into their deadline
or panic as they like. With `Faults`, any statement to PostgreSQL or Redis may fail.
Contexts may be cancelled at any moment at which the code can see it.

### How actions follow the code

* `SkillGateway`: `Resolve` and `Allow` are the head of `execute`; `LoopAgain`,
  `BackoffOver`, `BackoffCancelled`, `LoopCancelled` the retry loop;
  `ExecuteOK`, `ExecuteError`, `ExecuteTimeout`, `ExecutePanic` what the provider
  does; each return path carries its report to the breaker and its audit record.
  A limit of `MaxAttempts = -1` leaves no attempt at all, and is in the instance.
* `CodeExecutor`: every send and receive of `Acquire` and `Release` is an action;
  `JSTimeout` frees the slot and leaves a goroutine behind.
* `Harness`/`Server`: `Start`, rollback and `Stop` each choose the next component
  freely. `RunStartComponent` also starts the worker of chat-cleanup with the
  context of `Start`; `Tick` ends that context.
* `AuthSession`: `Refresh` is `IsBlacklisted`, `GetActiveClaims`, `RotateClaim`,
  `RotateSet`, `RotateCreate`, `RefreshRole`, `Respond`; the others likewise.
  Memberships are changed under way by `UpdateMemberRole` and `RemoveMember`.
* `TenantMembers`: `UpdateMemberRole` and `RemoveMember` are the check,
  `WriteRole` and `DeleteMember` the write; `Refresh` decides how old a token is.
* `TenantSettings`: `ReadSettings`, `WriteSettings`, `Invalidate` against
  `CacheMiss`, `QuerySettings`, `CacheSet`.
* `McpManager`: as above. The health check takes a copy of the map, looks at a client and
  reads its configuration under the lock (`CheckLook`), and connects it without
  (`CheckConnect`), so a disconnect may come in between. The look at the health and
  the read of the configuration are one step: only this check makes a client healthy
  again, so one that was seen closed still is when the lock is there. `Wired` adds `RestoreFromDB` and the health check, which
  the code has and `api/router.go` does not call today. The run has them on, so what
  it shows holds with and without them.
* `ReAct`: the head of `Invoke`'s loop (`InvokeReturns`, `MaxStepsReached`,
  `InvokeCancelled`, `EnterNode`), the llm node (`Token`, `LLMAnswers`, `LLMAsks`,
  `LLMFails`, `BackoffOver`, `BackoffCancelled`), the tool node (`ToolReturns`,
  `ToolNodeReturns`) and `NodePanics`.
* `AgentExecution`: `ExecuteAgent`/`ExecuteAgentStream`, `LoadHistory`, the graph,
  `Stream` (the token callback), the four ends of `Execute`'s switch, `SaveUser`,
  `SaveAgent`, `Respond`, `Insert`; beside them the chat handlers and the clean-up.
  An agent object is built anew for every request, so runs share the conversation
  and nothing else.
* `SkillRegistry`: the three handlers up to the registry, then `Store`, `ReadObject`,
  `Upsert` or `Conflict` and `Drop` for `Register`, `DeleteRow` or `InUse` and `Forget`
  for `Remove`. A request is made by some tenant: what it does to the map is seen by all,
  its statements run in the schema of that tenant, with the rows, names and links there.
  `tainted` records the skills to which one of the four things happened that take memory
  and table apart whoever asks, and `askers` which tenants have asked anything of a skill:
  another tenant is the fifth thing.
* `Catalog`: an operation of the agent registry is one transaction and one action;
  `ReadWorkspace` and `WriteWorkspace` are the two statements of an update, which finds
  the row it writes (`Hit`) by its name; `crossed` records the workspaces that were written
  by an update that had read another one.
* `Knowledge`: `Upload` to `GraphNodes` are the steps of an upload; `TakeWindow` is an
  iteration of `ChunkText`'s loop and `TakeBreak` one of `ChunkBySemanticBreaks`' two loops:
  over the breaks (an empty line, then the four rulers in their order, constant `Rulers`)
  and over the occurrences of one. What it cuts at is in no chunk.
  A query makes its searches in any order and `Combine`s them. A search sees the chunks
  that are flushed, or all that are inserted: Milvus promises the former only.
* `Memory`: a request takes the lock (`ReadOnly`, or `Write`, `AnnounceWrite`,
  `WriteLock`), works and releases it; `Persist` is the transaction made with the lock
  held. A request is made by some tenant; only `ClearSession` does not look at it.
  The table has no part in it: the insert always fails on its foreign key, since
  nothing inserts sessions, and the failure is only logged.
* `Discovery`, `Negotiation`: one action per operation, as each runs under one lock.
* `A2A`: the phases of `Stop`, the goroutines of the two channels, the heartbeat loop a
  message at a time, and each call of the client as its sequence of locking, sending and
  waiting. The calls that differ only in what they send share those steps.
  `DiscoverAgents` sends nothing: it takes the read lock of the discovery service, once,
  or twice when nothing is required, and is stuck if a writer comes in between (`Search`).
  `Look` stands for the calls that make one access under the client's lock and return.

## 3. Runs

Twelve runs, one for each composition; all pass.

| run | instance | shows |
|---|---|---|
| `gateway_calls` | 2 skills, 2 providers that overlap, one may panic, 2 calls, threshold 2, recovery 1 tick, retries −1 and above the cap | `TripsAtThreshold`, `OneProbePerPeriod`, `HalfOpenHasProbe`, `ReportsOnce`, `ProviderIsStable`, `EarlyExit`; live: `ProbeResolves`, `CallReturns` |
| `executor_slots` | 3 workers, 2 tenants and the empty one, 2 global slots, 1 per tenant, 1 abandoned goroutine | `SlotsAccounted`, `ImplementsLimit` (refinement), `ExecuteReturns` |
| `server_process` | 3 components, 2 may fail, `StartTimeout` 2 < `CleanupInterval` 4 | `StartedMeansAllOn`, `CleanWhenNothingFails`, `ComesUp` |
| `auth_sessions` | 1 user, 2 tenants, 3 tokens, 2 requests, faults | `SessionNeverForks`, `BlacklistedIsRevoked`, `IssuedRoleWasHeld` |
| `members_owner` | 3 users, 2 requests | `TenantKeepsOwner` |
| `settings_cache` | 2 providers, 2 writers, 1 reader, TTL 2, faults | `UndisturbedSave`, `EventuallyCurrent` |
| `mcp_servers` | 2 servers, 3 client objects, 1 list call, cache of 1, 1 restart, faults | `CacheBounded`, `ServedIsPersisted`, `ForgetsDisconnected` |
| `agent_runs` | a streaming ReAct run (4 steps, 2 attempts, 2 tool calls) beside a second run or a post, window 1 | `WellFormedRequests`, `OutcomesAgree`, `StreamEndsWithAnswer`, `RunReturns` |
| `catalog_links` | 2 tenants, 2 skills and names, 2 requests at a time and 3 in all, 1 agent and 2 workspaces of one name of the first tenant, 2 models, 1 update, 1 restart | `RegistryAgrees`, `LinkedIsServed`, `ModelIsFixed` |
| `knowledge_uploads` | 2 uploads, 1 query, chunks of 5 characters with 2 of overlap, every text of 4 characters by where its line breaks are, the empty one, texts of 5 with a ruler or an empty line, and longer ones, room for 4 chunks, 1 restart | `NothingLost`, `AnswersAreTrue`, `FoundByBothFirst`; live: `UploadReturns` |
| `memory_window` | 3 entries of 2 tenants that use the same session, which either may clear, window of 2, 2 requests, 1 restart | `KeptUntilPushedOut`, `OwnEntriesOnly`; live: `RequestsAnswered` |
| `a2a_calls` | 2 callers of 1 client, channels of 1, 1 peer with one capability or two, 1 subscriber with a buffer of 1, 1 offer, 3 calls | `FoundByCapabilities`, `AnswersStand`; live: `CallsReturn` |

**Why the bounds are enough.** Interference in all these parts is between two
requests: a third adds no new kind of step, only more of the same, and where it
matters (who holds a slot when another is refused) there are three. Two skills let
a panic in one be told from the other; two calls let a late result meet another's
probe; threshold 2 tells "at" from "before" and "after". Three tokens are the
longest chain two refreshes can make with a fork to look for; two tenants let a role
come from the wrong one. A cache of one is full with the second server. Four steps
are two rounds of the graph, so that calls, answers and a second request to the
model all occur; two tool calls let one of them fail beside one that does not; a
window of one is exceeded by the first exchange. Counters that the code leaves
unbounded are capped by named constants (`MaxAbandoned`, `MaxUpdates`,
`MaxRestarts`, `MaxAsks`, `MaxChunks`, `MaxCalls`, `MaxHandlers`) or by a finite supply (`Clients`,
`Tokens`, `SkillIds`, `Docs`, `Entries`, `Offers`), never inside a property. Two
workspaces of one name are a deletion and a second creation under an update. Three requests on
skills are a creation and two that meet it, each of either tenant. The rulers of the run are two
or three characters where the code's have 33 to 40, of the same order by length, and one of
equals signs is a part of another, as in the code: the loops only look where they begin. Texts
of the chunk size and one more are the boundary at which the chunker's loops differ, and
nine characters make more than one paragraph chunk; `TopK` 1 cuts both lists of a hybrid
search and the fused one. A window of two is overrun by the third entry. A channel of one is
full after one message, and three calls put two callers at it with a third message in the
way.

**Deadlock** is checked except where the system really stops: `Server` (the process
ends when main returns), `McpManager` (the supplies of clients and restarts end),
`AgentExecution` (both runs end), and `Catalog`, `Knowledge`, `Memory` and `A2A` (their
supplies of identifiers, entries and calls end; a process that died or a protocol that is
stuck stays so). The liveness properties say that nothing that was begun waits.

**Symmetry** is used in `auth_sessions` and `catalog_links`, where no liveness is
checked: tokens and identifiers are random, requests anonymous, and names and models are
only compared.

**Fairness** is of what a goroutine does by itself, never of the environment's choices, and
weak except where Go queues those who wait:

* `SkillGateway`: of each call's own steps. A provider's `Execute` is given a
  context with a deadline, so it comes back in one of the modelled ways; a breaker
  that waits needs time to pass, so ticks are fair too.
* `CodeExecutor`: of each worker; code is stopped by the execution time-out.
* `Server`: of main, `Run`, the worker and time; nothing is assumed of signals.
* `TenantSettings`, `McpManager`: of time and of the requests under way: a statement
  is answered or fails with its context. No request has to be made.
* `AgentExecution`: of each run. Every request of a run carries a context with a
  deadline (`reactLLMTimeout`, `AgentExecTimeout`), so it is answered or fails.
* `Knowledge`: of each upload's own steps; the services answer, if only with an error.
* `Memory`: of each request's own steps, strong for `AnnounceWrite`: `sync.Mutex` hands
  itself to a waiter that has starved for a millisecond, so others cannot overtake it for
  ever.
* `A2A`: of the goroutine of the outbox, and strong for a client's steps: senders on a
  channel are queued, and so are those who wait for a mutex.

### Behaviours the models exhibit that no property excludes

They follow from the code and were met while modelling; the properties above are
stated so that they hold beside them.

* A failure of a call admitted while the breaker was closed reopens a half-open
  breaker whose probe still runs, and a second probe follows later. (One probe per
  *period* does hold.) A success of such a call closes an open breaker early.
* A provider that panics in a probe leaves its skill half-open for good.
* A call cancelled between attempts reports a failure but leaves no audit record.
* A JavaScript time-out frees the slot while the goroutine may still run.
* A failed `Start` may leave components on, because the rollback ranges over the map
  in another order; `Stop` follows no order; main does not wait for `Run` to stop.
* A logout whose `UPDATE` fails answers "logged out"; a refresh under way during a
  logout leaves the session alive; a sign-in whose lookup fails joins the default
  tenant again and resets the role there.
* An admin's request may delete a member promoted to admin after its `SELECT`.
* A gateway built from old keys may be cached after the invalidation, until its TTL
  is over; a masked key sent back is stored as a key; a failed read of the settings
  lets the write drop the stored keys.
* The capability cache evicts an arbitrary entry; a failed `UPDATE` in `Disconnect`
  leaves the row enabled; the health check may revive a client that was replaced.
* The client of a stream sees what failed attempts said before the answer.
* The worker of the chat clean-up selects on the context of `Start`, which `Harness.Run`
  (`internal/harness/harness.go:162`) cancels after 30 seconds, before its first daily tick
  (`cmd/server/main.go:203`); `main.go:173` says it "runs daily".
* A removed member is refreshed as `member`: the role starts as that and keeps the value
  when no row is found (`auth_handler.go:333`; the comment above it says "so role
  changes take effect on next refresh").
* Of two concurrent saves of settings for two providers the later write undoes the other
  (`tenant_handler.go:404`), although `docs/superpowers/specs/2026-06-09-tenant-api-key-design.md:215`
  has each provider saved "独立" (on its own).
* A graph that reaches `END` with its last step fails with "max steps reached"
  (`graph.go:94`); the comment at line 86 says "until END or max steps".
* *Skills.* The map of the registry is one for all tenants (`registry.go:23-28`) and no handler
  asks whose a skill is. A DELETE of another tenant finds no row in its schema, which is no
  error, and drops the entry (`registry.go:106-129`): the owner's row and links stay, and the
  skill is not served any more. A PUT of another tenant renames the shared object and puts a
  row into its own schema (`skill_handler.go:131-206`); the owner's row keeps the old name, and
  the agents of the other tenant may link the skill. The lists show every tenant's skills.
  A rename that meets a name in use drops the skill from memory and leaves the
  row; a failed statement leaves the entry; after a restart the table is not read back and no
  skill is served.
* *Workspaces.* An update written after its workspace was deleted and created again gives
  the new one the old one's model.
* *Chunker.* A text above the chunk size that goes through `ChunkText` never ends: the next
  position is the boundary less the overlap, also at the end of the text. The process runs
  out of memory (`OutOfMemory`). A document of a single paragraph loses the rulers it is cut
  at (`chunker.go:219`), also when they are a part of a longer line of equals signs or dashes.
* *Knowledge.* Without a connection to Milvus at start an upload answers 500, and a hybrid
  query or an agent's search panics in a goroutine that nobody recovers and ends the process
  (`SearchPanics`). The query handler copies sources into a slice of length 0 and panics (500)
  whenever there is one. A failed flush leaves the chunks, and a second try doubles them. All
  workspaces of a tenant share one collection. No graph node is ever made: the tenant's id is
  not a valid label.
* *Memory.* Entries of one tenant push out those of another; clearing a session clears it
  for all tenants, whichever of them asks (`short_term.go:156-175`); a search with a limit returns the oldest; nothing survives a restart.
  `AddRelation` and `UpdateEntity` lock for writing and unlock for reading, and
  `HybridSearch` takes the read lock twice; none of them has a caller.
* *Agent-to-agent.* `Stop` locks a mutex it holds and never returns, having closed
  channels others send on (they panic). When the context of `Start` ends, `running` stays
  true and senders block as soon as the outbox is full. No reply ever reaches `ProposeTask` or
  `RequestData`; a client's `Stop` makes those who wait panic on a nil reply. A peer that
  registers again with fewer capabilities is still found under the old ones. A search that
  requires nothing, by a client's `DiscoverAgents` or directly, may lock the discovery service
  for good (`Wedge`), and no `DiscoverAgents` returns from then on. A malformed message
  panics the goroutine of the inbox. An answered negotiation can be cancelled.

## 4. Proofs

TLAPS proves, for every value of the constants that satisfies the assumptions:

* `SkillProofs`, on the gateway: `TypeCorrect`, `BreakerTrips`, `OneProbe`, `ReportedOnce`,
  `ProbeInFlight` (invariants) and `ProvidersStay`, `NoEarlyAdmission` (action
  properties), for any sets of skills, providers and calls, any threshold ≥ 1 and
  any recovery time. On the executor: `ExecutorTypeCorrect`; `SlotsAreAccounted`;
  `LimitIsImplemented`, the refinement of `ExecutionLimit`; for any finite set of workers, any
  tenants and capacities.
* `ServerProofs`: `HarnessTyped`, `ServerTyped`; `ServerCallsHarness` (the process implements
  the harness with an arbitrary caller); `StartedIsAllOn`, `CleanStop`; for any components, any
  of which may fail.
* `AuthSessionProofs`: `TypeCorrect`; `SessionsNeverFork`, `BlacklistFollowsTable`,
  `IssuedRoleHeld`; for any tenants, tokens, browsers and requests.
* `TenantProofs`, on the members: `TypeCorrect` and `OwnerIsKept`, for any users and requests.
  On the settings: `SettingsTypeCorrect` and the action property `SavesLeaveOthers`, for any
  providers, keys, saves and agent runs.
* `CatalogProofs`, on the catalog: `TypeCorrect`; `RegistryAgreement`, `LinkedAreServed`, and the
  action property `ModelStaysFixed`; for any skills, agents, workspaces, requests and restarts. On
  the MCP manager: `ManagerTypeCorrect`, `CacheStaysBounded`, `ServedArePersisted`, for any
  servers, clients, calls and size of the cache.
* `AgentExecutionProofs`: `TypeCorrect`; `RequestsAreWellFormed`, `StreamsEndWithAnswer`,
  `OutcomesHold`; for any runs, lists of tool calls, limits of steps and attempts.
* `RecallProofs`, on the memory: `MemoryCorrect` (its inductive invariant), `EntriesStay`,
  `EntriesOfOneTenant`, for any tenants, sessions, entries, requests and size of the window. On
  the knowledge base: `UploadsCorrect` (the invariant of the uploads), `AnswersHold`,
  `ParagraphsTell` (of `ChunkByParagraphs`, for every text), `SplittingLosesNothing`, for any
  documents, texts and chunk sizes; `AgreedComesFirst`, for any rankings and `TopK` ≤ 30.
* `A2AProofs`: `PeersAreFound`, `AnswersHold`; for any peers, capabilities, offers and calls.

Together they state 30 of the 40 properties the runs check: every invariant and every action
property. What is left are the ten liveness properties. The inductive invariants of the proof
modules also hold on the instances of the runs (a module that extends both the `MC` module and
the proof module lets TLC check them).

*Arguments.* *Skill gateway.* `TripsAtThreshold` is not inductive: it says nothing of the breaker's own
counter, nor of the calls that will report. `Inv` adds `CallShape` (a call in flight
has a skill, has not reported, and only such a call can be a probe),
`FailuresCounted` (while closed, the breaker's counter is the history's; otherwise the
history is at the threshold) and `ProbeClaimed` (a current probe means a half-open
breaker with its slot taken). Lemmas on `CircuitBreaker` (`AllowEffect`,
`SuccessEffect`, `FailureEffect`, `TickEffect`) say what each operation does to a
breaker; `LocalStep`, `ReportStep`, `AllowStep` and `MoveStep` say why the
four shapes of a step keep `Inv`; `NextInv` has one step per action and cites them.
`ProbeInFlight` needs `Inv` and an induction of its own (`KeepsProbe` and the lemmas
after it), for the skills outside `Panicky`. The action properties follow from `Inv`
and a look at each action.

*Members.* `OwnerIsKept` needs `TargetsOthers`: a request between its check and its write is
never about the owner. The check made it so, and it stays so because no step makes an
owner; that is why the separate `SELECT` and `UPDATE` are harmless here, while an admin
may still be removed by one.

*Settings.* What a save writes is its request merged into what it has read. `SeenIsCurrent`: what a
save has read without an error is still what the row holds, unless another save wrote after
it (`sound` ends there). So a sound save can only change what it was asked to: the
merge keeps the value of every key that is not `Mentioned` (`MergeTyped`), and a key sent back
masked or empty is not.

*Code executor.* Both channels are counted in one induction: a worker that takes a slot was
not among the holders, one that gives it back was, and each changes their number by one
(`HoldersFinite`, `TakeAndGive`). That only calls under the sub-limit are ever at
the second level (`SecondLevelIsLimited`) is part of the type invariant: `Acquire` and
`Release` decide it by the same test. For the refinement, what `ExecutionLimit` sees of a
worker changes only when it gets its last slot or stops (`Invisible`); those who run hold a slot
each (`AdmittedHold`), so a free slot means room in the limit (`RoomForOneMore`).

*Process.* `LifecycleInv` says what each loop has covered so far: while `Start` runs, all
components are on but those still to come (`StartCovers`); while `Stop` runs and nothing has
failed, what is on is still on its list (`StopCovers`); only what is registered is ever on
(`OnIsRegistered`); and `started` is written only when a loop is through (`PhaseOfLoop`). `getRegistrationOrder` may return any order, but every name once.

*Sessions.* That a session never forks follows from who holds a *claim* on a token: the
request between the `UPDATE` that revoked it and the `INSERT` of its successor. A claimed token
is revoked, has one claimant and no successor (`ClaimInv`); a token drawn but not stored is in
no row and in no other request (`NewInv`); a token with a successor is revoked. Since `Rotate`
and `Revoke` write the blacklist after their `UPDATE` only, what Redis refuses is revoked. As
soon as a request has chosen its tenant, the role held there is in its history, and so is every
change of it (`HeldInv`); the role it reads is therefore one it has recorded.

*Catalog.* `AgreeInv`: unless a skill is tainted, at most one request is in the course of
changing it, and for each program counter of that request `InProgress` says what the map and the
tables hold. While nobody is at work on it, a skill of the map has a row under its name in some
tenant's table; while one tenant only has asked for it (`OneTenant`), no other table has a row
of it (`RowsAsked`), and that tenant's agrees with the map. `LinkedIsServed` needs that a linked
skill has its row in the schema of the agent (`LinkedHasRow`: the foreign key), and that such a
row, with one tenant, is never without its entry.
`ModelIsFixed` rests on `CarriesOwnModel`: an update in flight carries the model of the
workspace it read, unless that one has been crossed meanwhile. Without `crossed` in the
statement the property is false for two updates in flight (TLC finds nine states): the first is written
to a new workspace of the old name, and a second one, which has read that workspace before, changes
the model back. The run has one update; the theorem is about any number.

*MCP manager.* The cache is bounded because every method that adds an entry first evicts one when
the cache is full, whatever other methods have put in or taken out meanwhile: no count is
remembered from one critical section to the next (`CacheRoom`). For `ServedIsPersisted`, a client
comes into the map in the step that writes its row, and a step that disables the row takes the
client out.

*Agent executions.* `RequestsAreWellFormed`: the log of a graph, followed by answers to the
calls its tool node still owes (`Owed`), is a complete conversation (`Conversation`);
each step pays a debt, makes one, or has none. `StreamsEndWithAnswer`: the last thing the model
said is the last the client was sent, or is about to be (`Streams`). `OutcomesHold`: which
messages of a run are in the conversation, for each of its program counters (`Leaves`). Others
only append their own messages, delete the conversation as a whole, or let it expire
(`LeavesOthers`). All three need the bound on steps and attempts (`LimitInv`).

*Memory.* `MemoryInv` relates the window to the log of all entries ever added: it is what the loop
of module `Filter` keeps of that log, each entry once, and an entry of the log that is not in
the window was dropped or has `WindowSize` newer ones behind it. An addition appends to both and
takes away the oldest (`NewestAppend`, `KeepRest`), a deletion keeps the others
(`KeepTwice`); an entry on its way is in no other request and not yet in
the log (`RequestProper`). A deletion that has passed its check
carries an entry of its own tenant to the second lock; the window may have lost it by then.
`EntriesOfOneTenant` traces what leaves the window to the step that took it: an addition, a
restart, or the write of a request (`ServeTakes`), which takes an entry of its own tenant or,
clearing, those of its session. That one operation is the exception the property states.

*Induction over lists.* What a loop computes for a list of any length is an induction, and the
library's induction theorems take an operator as a parameter, which the provers cannot
instantiate. `RecallProofs` takes the least counterexample instead: a set of numbers that is not
empty has a least one (`LeastNumber`, from the well-foundedness of `<`), so a set that holds 0 and,
with every number below a bound, the next is all of them (`UpTo`); and a function defined step by
step exists (`Iteration`). The loops are therefore recursive functions in the modules, one
value per iteration, and each has a lemma that unfolds it (`KeptAfterDef`, `LinesAfterDef`,
`ParagraphsAfterDef`, `ProductsDef`, `FlattenIs`).

*Chunker.* Every loop is shown to carry the letters along: what `strings.Split` has cut
off with the line that has begun (`CutTells`), the chunks with the one that is growing
(`AddParagraphTells`), the last chunk and the ruler cut off behind it with what is left of the
text (`CutTellsBreak`, `BreakTells`). Trimming takes line breaks only (`LettersTrim`). The chunks,
each followed by what was dropped behind it (`Gaps`: nothing, or a ruler; `Woven`), hold the
letters of what is taken (`Holds`). `SplitInv` then says, for a document that fits, what an upload
has made and what it has still to take, together the letters of the text; `ChunkText` is not
reached (`TakeWindow` needs a piece that is too long).

*Answers of uploads.* `UploadInv` says of each program counter what is inserted and flushed; since
`CreateCollection` takes "already exists" for success, no step of one upload fails another.

*Hybrid search.* Ranks are at most `2 * TopK`, so a chunk in both lists scores at least
2/(60 + 2·`TopK`), and one in a single list at most 1/61. The former is more up to `TopK` = 30;
at 31 it is a tie, and beyond the statement is false, so the bound is a hypothesis of
`AgreedComesFirst` and named in the property. The default is 5; the handler accepts any
`top_k`, so the order above 30 is for the client to know.

*Agent-to-agent.* `DiscoveryInv`: a peer is in the index, with what it registered last, under
each capability of that (`Indexed`), whatever older entries remain; a departure removes
entries of those who depart only. Finding it is then a matter of taking the first of any
selection of its capabilities. `NegotiationInv`: only a negotiation that was answered has an
answer, so that an answer adds its offer to those counted (`AnswersCounted`), and the timer and
the clean-up drop none that is answered and not old (`AnswersHeld`). `ServicesStep` says that
every step of the protocol is one of the services, or none to them; a client that searches
can at most leave the discovery service wedged.

*Assumptions* are the named `ASSUME`s of the modules, and TLC evaluates them in every run. They
are of four kinds: bounds and capacities are numbers (in Go they are `int`s and durations);
the stand-ins for "no value" (`None`, `NoTenant`, `NoOne`, `NoName`, `Nobody`) are no values;
inputs have the shape the decoder of a request gives them (`RequestsAssumption`,
`InitialAssumption`); and what a caller hands over is a finite list (a message has each of its
tool calls once, `CallsAssumption`; a peer announces finitely many capabilities,
`DiscoveryAssumption`; goroutines are finitely many, `WorkersAssumption`). Two are about the
configuration: `StartTimeout < CleanupInterval` (30 seconds and a day in `main.go`), and the
order of the chunk sizes (`SizesAssumption`); the rulers are strings without a line break.

*Types.* The modules of the first eight runs and the catalog define a type invariant, which holds
on their instances (add it to a configuration to check it) and is proved; those of the memory and
the uploads are part of `MemoryInv` and `UploadInv`.

*Only model-checked*: every liveness property (`ProbeResolves`, `CallReturns`, `ExecuteReturns`,
`ComesUp`, `EventuallyCurrent`, `ForgetsDisconnected`, `RunReturns`, `UploadReturns`,
`RequestsAnswered`, `CallsReturn`), since fairness and `ENABLED` are outside the prover; and the
channels of `A2A`, of which only the services are proved about.

## 5. Not modelled, and why

* Wire formats and I/O: the HTTP clients of the model providers, the MCP wire protocol,
  GitHub's OAuth, NATS, the scoring of Milvus, Neo4j. They appear as calls that succeed or
  fail, or that return any order of what they may find.
* Middleware, configuration, routing, observability, the web frontend: no state that a
  behaviour depends on; what the middleware lets through is an input of the models.
* Reads (lists and gets) and writes of one statement without interplay (administration,
  renaming a conversation).
* What a skill or a tool computes.
* Code without a caller: plans of the agent-to-agent orchestrator, collaborations and
  listeners of its client, the buffer and summary memories, entity and long-term memory.
* The graph mode of a query: without graph nodes (see above) it finds nothing.
* Planned, see below: pipelines.

## 6. Plan

Done, in this order because each is relied upon by the next: the skill gateway and its
breaker, the code executor, harness and process, sessions, members, settings, MCP
servers, agent executions; then the catalog of skills, agents and workspaces, knowledge,
memory and the agent-to-agent protocol.

1. *Proofs.* Done for every invariant and action property the runs check. Next: the types of
   `A2A`'s channels, and what a text that goes through `ChunkText` keeps.
2. *Pipelines*: sequential, conditional and parallel steps over the atomic engine, with
   a failing branch; the outcome against a reference definition.
3. The registration of model providers and its fallback; the MCP skill adapter.
