----------------------------- MODULE McpManager -----------------------------
(***************************************************************************)
(* The manager of MCP servers (internal/mcp/client_manager.go) with the     *)
(* capability cache (cache.go), the state of its clients (client.go) and    *)
(* the mcp_configs table it persists connections to.                       *)
(*                                                                         *)
(* Connect holds the manager's lock from its first check to its return, but *)
(* the cache has a lock of its own: what Connect caches is visible before    *)
(* the connection is persisted.  ListTools and ListResources hold no lock    *)
(* while they talk to the server, and neither does the health check.        *)
(***************************************************************************)
EXTENDS Integers, FiniteSets

CONSTANTS
    Servers,    \* server identifiers
    Clients,    \* supply of client objects (NewBaseClient)
    Listers,    \* slots for calls of ListTools and ListResources
    MaxSize,    \* CapabilityCache.maxSize, 1000 in the code
    TTL,        \* CapabilityCache.ttl in clock ticks
    Wired,      \* whether start-up calls RestoreFromDB and StartHealthCheck;
                \* api/router.go calls neither
    Faults,     \* whether the database or a server may fail
    RestartBound, \* bound on restarts of the process
    Absent      \* no client, no server, no entry

ASSUME SizeAssumption == MaxSize \in Nat \ {0}
ASSUME TTLAssumption == TTL \in Nat \ {0}
ASSUME WiredAssumption == Wired \in BOOLEAN
ASSUME FaultsAssumption == Faults \in BOOLEAN
ASSUME RestartBoundAssumption == RestartBound \in Nat
ASSUME AbsentAssumption == Absent \notin Servers \cup Clients

VARIABLES
    clients,    \* clients[s]: the client registered for s (configs[s] goes along)
    conn,       \* conn[c]: "unused", "connected" or "closed"
    pending,    \* the Connect under way: its server and client
    row,        \* row[s]: mcp_configs, "none", "enabled" or "disabled"
    cache,      \* cache[s]: the cache entry of s
    lister,     \* lister[l]: the call in slot l
    check,      \* what the health check under way still has to visit, and what is next there
    restore,    \* servers RestoreFromDB still has to connect
    restarts    \* restarts so far

managerVars == <<clients, conn, pending, row, cache, lister, check, restore, restarts>>

\* Lists are known by the client they were read from; Absent is a nil list.
Entry == [tools : Clients \cup {Absent}, resources : Clients \cup {Absent}, ttl : 0 .. TTL]

NoEntry == [s \in Servers |-> Absent]

IdleLister == [pc |-> "idle", server |-> Absent, client |-> Absent, what |-> "tools"]

Lister == [pc : {"idle"}, server : Servers \cup {Absent}, client : {Absent}, what : {"tools"}]
          \cup
          [pc : {"call", "store"}, server : Servers, client : Clients,
           what : {"tools", "resources"}]

ManagerInit == /\ clients = [s \in Servers |-> Absent]
               /\ conn = [c \in Clients |-> "unused"]
               /\ pending = Absent
               /\ row = [s \in Servers |-> "none"]
               /\ cache = NoEntry
               /\ lister = [l \in Listers |-> IdleLister]
               /\ check = {}
               /\ restore = {}
               /\ restarts = 0

-----------------------------------------------------------------------------
(***************************************************************************)
(* The capability cache.  An entry past its time stays in the map.         *)
(***************************************************************************)
Cached == {s \in Servers : cache[s] # Absent}

\* Mutant of Live: ExpiresAt is not looked at.
LiveForEver(s) == cache[s] # Absent

Live(s) == cache[s] # Absent /\ cache[s].ttl > 0

\* Mutant of Evictions: the limit is compared with > instead of >=.
EvictionsLate == IF Cardinality(Cached) > MaxSize THEN Cached ELSE {Absent}

\* A full cache gives up some entry: the first one a range over the map yields.
Evictions == IF Cardinality(Cached) >= MaxSize THEN Cached ELSE {Absent}

Put(s, k, e) == cache' = [t \in Servers |-> IF t = s THEN e
                                            ELSE IF t = k THEN Absent ELSE cache[t]]

\* Store evicts even when s has an entry already.
CacheStore(s, tools, resources) ==
    \E k \in Evictions : Put(s, k, [tools |-> tools, resources |-> resources, ttl |-> TTL])

\* StoreTools and StoreResources change one list of the entry and renew it.
StoreList(s, c, what) ==
    LET new == [tools |-> Absent, resources |-> Absent, ttl |-> TTL]
        old == IF s \in Cached THEN cache[s] ELSE new
        e   == IF what = "tools" THEN [old EXCEPT !.tools = c, !.ttl = TTL]
                                 ELSE [old EXCEPT !.resources = c, !.ttl = TTL]
    IN  IF s \in Cached THEN Put(s, Absent, e) ELSE \E k \in Evictions : Put(s, k, e)

-----------------------------------------------------------------------------
(***************************************************************************)
(* Connect and Disconnect.                                                 *)
(***************************************************************************)
Unlocked == pending = Absent

\* Connect up to cache.Store: an error of ListTools or ListResources leaves a
\* nil list.  (A failed client.Connect changes nothing.)
ConnectBegin(s, c, tools, resources) ==
    /\ Unlocked
    /\ clients[s] = Absent
    /\ conn[c] = "unused"
    /\ conn' = [conn EXCEPT ![c] = "connected"]
    /\ CacheStore(s, tools, resources)
    /\ pending' = [server |-> s, client |-> c]
    /\ UNCHANGED <<clients, row, lister, check, restarts>>

Connect(s, c, tools, resources) ==
    /\ ConnectBegin(s, c, tools, resources)
    /\ UNCHANGED restore

\* Mutant of ConnectPersist: the client is registered whether or not the
\* configuration was saved.
ConnectPersistLater(ok) ==
    /\ ~ Unlocked
    /\ row' = IF ok THEN [row EXCEPT ![pending.server] = "enabled"] ELSE row
    /\ clients' = [clients EXCEPT ![pending.server] = pending.client]
    /\ pending' = Absent
    /\ UNCHANGED <<conn, cache, lister, check, restore, restarts>>

\* persistConnect: on an error (a name conflict, the database) the cache entry
\* goes and the client is dropped, still connected.
ConnectPersist(ok) ==
    LET s == pending.server
    IN  /\ ~ Unlocked
        /\ IF ok
           THEN /\ row' = [row EXCEPT ![s] = "enabled"]
                /\ clients' = [clients EXCEPT ![s] = pending.client]
                /\ UNCHANGED cache
           ELSE /\ cache' = [cache EXCEPT ![s] = Absent]
                /\ UNCHANGED <<row, clients>>
        /\ pending' = Absent
        /\ UNCHANGED <<conn, lister, check, restore, restarts>>

\* Disconnect; the error of persistDisconnect is dropped.
Disconnect(s, persisted) ==
    /\ Unlocked
    /\ clients[s] # Absent
    /\ conn' = [conn EXCEPT ![clients[s]] = "closed"]
    /\ clients' = [clients EXCEPT ![s] = Absent]
    /\ cache' = [cache EXCEPT ![s] = Absent]
    /\ row' = IF persisted THEN [row EXCEPT ![s] = "disabled"] ELSE row
    /\ UNCHANGED <<pending, lister, check, restore, restarts>>

-----------------------------------------------------------------------------
(***************************************************************************)
(* ListTools and ListResources.  A live entry answers at once.             *)
(***************************************************************************)
\* The slot remembers the server it answered for last.
ListHit(l, s) ==
    /\ lister[l].pc = "idle"
    /\ Live(s)
    /\ lister' = [lister EXCEPT ![l] = [IdleLister EXCEPT !.server = s]]
    /\ UNCHANGED <<clients, conn, pending, row, cache, check, restore, restarts>>

ListMiss(l, s, what) ==
    /\ lister[l].pc = "idle"
    /\ ~ Live(s)
    /\ Unlocked
    /\ clients[s] # Absent
    /\ lister' = [lister EXCEPT ![l] = [pc |-> "call", server |-> s,
                                        client |-> clients[s], what |-> what]]
    /\ UNCHANGED <<clients, conn, pending, row, cache, check, restore, restarts>>

\* The client's request: an answer, or an error when it is closed or fails.
ListCall(l, ok) ==
    /\ lister[l].pc = "call"
    /\ ok => conn[lister[l].client] = "connected"
    /\ lister' = [lister EXCEPT ![l] = IF ok THEN [@ EXCEPT !.pc = "store"] ELSE IdleLister]
    /\ UNCHANGED <<clients, conn, pending, row, cache, check, restore, restarts>>

ListStore(l) ==
    /\ lister[l].pc = "store"
    /\ StoreList(lister[l].server, lister[l].client, lister[l].what)
    /\ lister' = [lister EXCEPT ![l] = IdleLister]
    /\ UNCHANGED <<clients, conn, pending, row, check, restore, restarts>>

-----------------------------------------------------------------------------
(***************************************************************************)
(* performHealthCheck: a copy of the clients map is taken, then each client *)
(* in the copy is visited, one after the other: its health is looked at, the *)
(* manager's lock is taken to read the configuration, and it is connected     *)
(* again.  A client is unhealthy once it is closed (nobody calls              *)
(* BaseClient.HealthCheck), and stays so until this check connects it: so a    *)
(* bad health may as well be seen when the configuration is read.  That may be *)
(* the one of a newer client, and the server may be disconnected before the    *)
(* client is connected.                                                    *)
(***************************************************************************)
CheckBegin ==
    /\ Wired
    /\ Unlocked
    /\ check = {}
    /\ check' = {<<s, clients[s], "look">> : s \in {t \in Servers : clients[t] # Absent}}
    /\ UNCHANGED <<clients, conn, pending, row, cache, lister, restore, restarts>>

CheckLook(s, c) ==
    /\ <<s, c, "look">> \in check
    /\ \A v \in check : v[3] = "look"
    /\ conn[c] # "connected" => Unlocked
    /\ check' = (check \ {<<s, c, "look">>})
                 \cup (IF conn[c] # "connected" /\ clients[s] # Absent
                       THEN {<<s, c, "connect">>} ELSE {})
    /\ UNCHANGED <<clients, conn, pending, row, cache, lister, restore, restarts>>

CheckConnect(s, c, ok) ==
    /\ <<s, c, "connect">> \in check
    /\ check' = check \ {<<s, c, "connect">>}
    /\ conn' = IF ok THEN [conn EXCEPT ![c] = "connected"] ELSE conn
    /\ UNCHANGED <<clients, pending, row, cache, lister, restore, restarts>>

-----------------------------------------------------------------------------
\* Stop waits for the health check and closes every client.  The cache and the
\* table are left as they are.
Stop ==
    /\ Wired
    /\ Unlocked
    /\ check = {}
    /\ conn' = [c \in Clients |-> IF \E s \in Servers : clients[s] = c THEN "closed" ELSE conn[c]]
    /\ clients' = [s \in Servers |-> Absent]
    /\ UNCHANGED <<pending, row, cache, lister, check, restore, restarts>>

\* The process ends and another one starts: all that is left is the table.
ManagerRestart ==
    /\ restarts < RestartBound
    /\ restarts' = restarts + 1
    /\ conn' = [c \in Clients |-> IF conn[c] = "unused" THEN "unused" ELSE "closed"]
    /\ clients' = [s \in Servers |-> Absent]
    /\ pending' = Absent
    /\ cache' = NoEntry
    /\ lister' = [l \in Listers |-> IdleLister]
    /\ check' = {}
    /\ restore' = IF Wired THEN {s \in Servers : row[s] = "enabled"} ELSE {}
    /\ UNCHANGED row

\* RestoreFromDB: Connect for each enabled row; an error is only logged.
RestoreNext(s, c, tools, resources) ==
    /\ s \in restore
    /\ ConnectBegin(s, c, tools, resources)
    /\ restore' = restore \ {s}

RestoreFails(s) ==
    /\ Faults
    /\ s \in restore
    /\ Unlocked
    /\ restore' = restore \ {s}
    /\ UNCHANGED <<clients, conn, pending, row, cache, lister, check, restarts>>

\* Entries age and stay where they are when they have expired.
Tick ==
    LET aging == {s \in Cached : cache[s].ttl > 0}
    IN  /\ aging # {}
        /\ cache' = [s \in Servers |-> IF s \in aging THEN [cache[s] EXCEPT !.ttl = @ - 1]
                                                     ELSE cache[s]]
        /\ UNCHANGED <<clients, conn, pending, row, lister, check, restore, restarts>>

\* How a call to the database or to a server may end.
Outcomes == IF Faults THEN BOOLEAN ELSE {TRUE}

ListerStep(l) == \/ \E ok \in BOOLEAN : ListCall(l, ok)
                 \/ ListStore(l)

ManagerNext ==
    \/ \E s \in Servers, c \in Clients : \E tools, resources \in {c, Absent} :
         Connect(s, c, tools, resources) \/ RestoreNext(s, c, tools, resources)
    \/ \E ok \in Outcomes :
         \/ ConnectPersist(ok)
         \/ \E s \in Servers : Disconnect(s, ok)
         \/ \E s \in Servers, c \in Clients : CheckConnect(s, c, ok)
    \/ \E l \in Listers :
         \/ \E s \in Servers : \/ ListHit(l, s)
                               \/ \E what \in {"tools", "resources"} : ListMiss(l, s, what)
         \/ ListerStep(l)
    \/ CheckBegin
    \/ \E s \in Servers, c \in Clients : CheckLook(s, c)
    \/ Stop
    \/ ManagerRestart
    \/ \E s \in Servers : RestoreFails(s)
    \/ Tick

\* Calls under way go on and time passes.
ManagerFairness ==
    /\ \A l \in Listers : WF_managerVars(ListerStep(l))
    /\ WF_managerVars(\E ok \in Outcomes : ConnectPersist(ok))
    /\ WF_managerVars(\E s \in restore : RestoreFails(s) \/ \E c \in Clients : RestoreNext(s, c, c, c))
    /\ WF_managerVars(Tick)

ManagerSpec == ManagerInit /\ [][ManagerNext]_managerVars

ManagerFairSpec == ManagerSpec /\ ManagerFairness

-----------------------------------------------------------------------------
\* Type invariant of the manager's state; a list call has a client to talk to.
ManagerTypeOK ==
    /\ clients \in [Servers -> Clients \cup {Absent}]
    /\ conn \in [Clients -> {"unused", "connected", "closed"}]
    /\ pending \in [server : Servers, client : Clients] \cup {Absent}
    /\ row \in [Servers -> {"none", "enabled", "disabled"}]
    /\ cache \in [Servers -> Entry \cup {Absent}]
    /\ lister \in [Listers -> Lister]
    /\ check \in SUBSET (Servers \X Clients \X {"look", "connect"})
    /\ restore \in SUBSET Servers
    /\ restarts \in 0 .. RestartBound

\* The cache never outgrows its limit, though an entry may be added by Connect
\* while calls that were started against other servers add theirs.
CacheBounded == Cardinality(Cached) <= MaxSize

\* A server the manager serves is enabled in the table, so the next start knows
\* of it; a failed save never leaves a server that only this process knows.
ServedIsPersisted == \A s \in Servers : clients[s] # Absent => row[s] = "enabled"

\* A server that was disconnected goes out of the cache, even if a call that was
\* under way then put its lists back: they expire unless it is connected again.
ForgetsDisconnected ==
    \A s \in Servers : clients[s] = Absent ~> (clients[s] # Absent \/ ~ Live(s))
=============================================================================
