--------------------------- MODULE TenantSettings ---------------------------
(***************************************************************************)
(* The LLM API keys of one tenant: the settings column of its row, the      *)
(* handlers that show and update it (api/handler/tenant_handler.go), and    *)
(* the cache of gateways built from it (internal/llmgateway/tenant_cache.go, *)
(* resolveTenantGateway in api/handler/agent_handler.go).                   *)
(*                                                                         *)
(* UpdateSettings reads the column, merges and writes it back in statements *)
(* of their own; resolveTenantGateway reads the cache, the row and writes   *)
(* the cache.  Each of these accesses is one step.                         *)
(***************************************************************************)
EXTENDS Integers

CONSTANTS
    Providers,      \* LLM providers, "qwen" and "zhipu" in the code
    Keys,           \* API keys a user may type
    Names,          \* tenant names a user may type
    Writers,        \* slots for calls of UpdateSettings
    Readers,        \* slots for calls of resolveTenantGateway
    CacheTTL,       \* GatewayCacheTTL, in clock ticks
    MaxUpdates,     \* bound on the calls of UpdateSettings
    Faults,         \* whether a statement may fail
    Unset           \* no key, no name, no gateway

ASSUME TTLAssumption == CacheTTL \in Nat \ {0}
ASSUME BoundAssumption == MaxUpdates \in Nat
ASSUME FaultsAssumption == Faults \in BOOLEAN

VARIABLES
    row,        \* the tenant's row: its name and its encrypted keys
    cache,      \* the cache entry of the tenant, or Unset
    writer,     \* writer[w]: the call of UpdateSettings in slot w
    reader,     \* reader[r]: the call of resolveTenantGateway in slot r
    served,     \* the gateway the last agent run was given, Unset for the
                \* global one
    updates     \* calls of UpdateSettings so far

settingsVars == <<row, cache, writer, reader, served, updates>>

(***************************************************************************)
(* Texts a key field can hold: a key, what maskAPIKey makes of a key (its   *)
(* first characters and eight bullets), bullets only, nothing.  Masking a   *)
(* masked key changes nothing: its first characters are the same.          *)
(***************************************************************************)
Typed(k) == [kind |-> "key", key |-> k]
Bullets  == [kind |-> "bullets", key |-> Unset]
Empty    == [kind |-> "empty", key |-> Unset]

Text == [kind : {"key", "masked"}, key : Keys] \cup {Bullets, Empty}

Mask(v) == IF v.kind = "key" THEN [v EXCEPT !.kind = "masked"] ELSE v

Encrypt(v) == [aes |-> v]

Decrypt(e) == e.aes

Stored == [Providers -> [aes : Text] \cup {Unset}]

Plain(s) == [p \in Providers |-> IF s[p] = Unset THEN Unset ELSE Decrypt(s[p])]

NoKeys == [p \in Providers |-> Unset]

\* A request: a name or none, and a text for some of the providers.
UpdateRequest == [name : Names \cup {Unset}, keys : [Providers -> Text \cup {Unset}]]

\* sound (history): seen was read without an error and nobody wrote the row since.
Writer == [pc    : {"idle", "name", "read", "write", "invalidate"},
           req   : UpdateRequest \cup {Unset},
           seen  : Stored,
           sound : BOOLEAN]

Reader == [pc : {"idle", "query", "set"}, seen : Stored]

Entry == [gateway : [Providers -> Text \cup {Unset}], ttl : 0 .. CacheTTL]

IdleWriter == [pc |-> "idle", req |-> Unset, seen |-> NoKeys, sound |-> FALSE]
IdleReader == [pc |-> "idle", seen |-> NoKeys]

SettingsInit == /\ row = [name |-> Unset, keys |-> NoKeys]
                /\ cache = Unset
                /\ writer = [w \in Writers |-> IdleWriter]
                /\ reader = [r \in Readers |-> IdleReader]
                /\ served = Unset
                /\ updates = 0

-----------------------------------------------------------------------------
\* GetSettings shows masked keys.
GetSettings == [p \in Providers |->
                  IF row.keys[p] = Unset THEN Unset ELSE Mask(Decrypt(row.keys[p]))]

\* What a user submits for a provider: nothing, a key, an empty field, a
\* placeholder, or the masked key GetSettings showed.
Submitted(p) == {Unset, Empty, Bullets, GetSettings[p]} \cup {Typed(k) : k \in Keys}

\* Fields left empty and placeholders are skipped.
Mentioned(req) == {p \in Providers : req.keys[p] \notin {Unset, Empty, Bullets}}

\* Mutant of Merge: the keys sent replace the keys stored.
MergeReplaces(seen, req) ==
    [p \in Providers |-> IF p \in Mentioned(req) THEN Encrypt(req.keys[p]) ELSE Unset]

\* The keys sent are laid over the keys read.
Merge(seen, req) ==
    [p \in Providers |-> IF p \in Mentioned(req) THEN Encrypt(req.keys[p]) ELSE seen[p]]

UpdateSettings(w, req) ==
    /\ updates < MaxUpdates
    /\ writer[w].pc = "idle"
    /\ \A p \in Providers : req.keys[p] \in Submitted(p)
    /\ req # [name |-> Unset, keys |-> NoKeys]
    /\ updates' = updates + 1
    /\ writer' = [writer EXCEPT ![w] = [pc |-> IF req.name = Unset THEN "read" ELSE "name",
                                        req |-> req, seen |-> NoKeys, sound |-> FALSE]]
    /\ UNCHANGED <<row, cache, reader, served>>

\* UPDATE name; a request without settings ends here.
UpdateName(w) ==
    /\ writer[w].pc = "name"
    /\ row' = [row EXCEPT !.name = writer[w].req.name]
    /\ writer' = [writer EXCEPT ![w] = IF @.req.keys = NoKeys THEN IdleWriter
                                       ELSE [@ EXCEPT !.pc = "read"]]
    /\ UNCHANGED <<cache, reader, served, updates>>

\* SELECT settings; its error is dropped and leaves nothing to merge with.
ReadSettings(w) ==
    /\ writer[w].pc = "read"
    /\ \E ok \in BOOLEAN :
         /\ ok \/ Faults
         /\ writer' = [writer EXCEPT ![w].pc = "write", ![w].sound = ok,
                                     ![w].seen = IF ok THEN row.keys ELSE NoKeys]
    /\ UNCHANGED <<row, cache, reader, served, updates>>

WriteSettings(w) ==
    /\ writer[w].pc = "write"
    /\ row' = [row EXCEPT !.keys = Merge(writer[w].seen, writer[w].req)]
    /\ writer' = [v \in Writers |->
                    IF v = w THEN [writer[w] EXCEPT !.pc = "invalidate", !.seen = NoKeys]
                    ELSE [writer[v] EXCEPT !.sound = FALSE]]
    /\ UNCHANGED <<cache, reader, served, updates>>

\* TenantGatewayCache.Invalidate, then the response.
Invalidate(w) ==
    /\ writer[w].pc = "invalidate"
    /\ cache' = Unset
    /\ writer' = [writer EXCEPT ![w] = IdleWriter]
    /\ UNCHANGED <<row, reader, served, updates>>

\* The UPDATE of the name or of the settings fails: response 500.
UpdateFails(w) ==
    /\ Faults
    /\ writer[w].pc \in {"name", "write"}
    /\ writer' = [writer EXCEPT ![w] = IdleWriter]
    /\ UNCHANGED <<row, cache, reader, served, updates>>

-----------------------------------------------------------------------------
\* TenantGatewayCache.Get: an entry past its time is a miss.
Live(e) == e # Unset /\ e.ttl > 0

\* Mutant of CacheHit: a hit renews the entry.
CacheHitRenews(r) ==
    /\ reader[r].pc = "idle"
    /\ Live(cache)
    /\ served' = cache.gateway
    /\ cache' = [cache EXCEPT !.ttl = CacheTTL]
    /\ UNCHANGED <<row, writer, reader, updates>>

\* resolveTenantGateway: a hit ends the call, a miss drops an expired entry.
CacheHit(r) ==
    /\ reader[r].pc = "idle"
    /\ Live(cache)
    /\ served' = cache.gateway
    /\ UNCHANGED <<row, cache, writer, reader, updates>>

CacheMiss(r) ==
    /\ reader[r].pc = "idle"
    /\ ~ Live(cache)
    /\ cache' = Unset
    /\ reader' = [reader EXCEPT ![r].pc = "query"]
    /\ UNCHANGED <<row, writer, served, updates>>

\* SELECT settings; without keys, or on an error, the global gateway is used and
\* nothing is cached.
UseGlobal(r) ==
    /\ reader' = [reader EXCEPT ![r] = IdleReader]
    /\ served' = Unset

QuerySettings(r) ==
    /\ reader[r].pc = "query"
    /\ \/ /\ row.keys # NoKeys
          /\ reader' = [reader EXCEPT ![r] = [pc |-> "set", seen |-> row.keys]]
          /\ UNCHANGED served
       \/ /\ row.keys = NoKeys \/ Faults
          /\ UseGlobal(r)
    /\ UNCHANGED <<row, cache, writer, updates>>

\* The keys are decrypted, a gateway is built, put into the cache and used.
CacheSet(r) ==
    /\ reader[r].pc = "set"
    /\ cache' = [gateway |-> Plain(reader[r].seen), ttl |-> CacheTTL]
    /\ served' = Plain(reader[r].seen)
    /\ reader' = [reader EXCEPT ![r] = IdleReader]
    /\ UNCHANGED <<row, writer, updates>>

\* Time passes.
Tick ==
    /\ Live(cache)
    /\ cache' = [cache EXCEPT !.ttl = @ - 1]
    /\ UNCHANGED <<row, writer, reader, served, updates>>

ReaderStep(r) == QuerySettings(r) \/ CacheSet(r)

WriterStep(w) == UpdateName(w) \/ ReadSettings(w) \/ WriteSettings(w) \/ Invalidate(w)
                 \/ UpdateFails(w)

SettingsNext ==
    \/ \E w \in Writers :
         \/ \E n \in Names \cup {Unset}, f \in [Providers -> Text \cup {Unset}] :
              UpdateSettings(w, [name |-> n, keys |-> f])
         \/ WriterStep(w)
    \/ \E r \in Readers : CacheHit(r) \/ CacheMiss(r) \/ ReaderStep(r)
    \/ Tick

\* Handlers run on and time passes; nobody has to change a key or run an agent.
SettingsFairness ==
    /\ \A w \in Writers : WF_settingsVars(WriterStep(w))
    /\ \A r \in Readers : WF_settingsVars(ReaderStep(r))
    /\ WF_settingsVars(Tick)

SettingsSpec == SettingsInit /\ [][SettingsNext]_settingsVars

SettingsFairSpec == SettingsSpec /\ SettingsFairness

-----------------------------------------------------------------------------
\* Type invariant of the settings and the cache; the row holds no key in clear.
SettingsTypeOK ==
    /\ row \in [name : Names \cup {Unset}, keys : Stored]
    /\ cache \in Entry \cup {Unset}
    /\ writer \in [Writers -> Writer]
    /\ reader \in [Readers -> Reader]
    /\ served \in [Providers -> Text \cup {Unset}] \cup {Unset}
    /\ updates \in 0 .. MaxUpdates

\* w saves, and the keys of the providers it does not mention stay as they are.
LeavesOthers(w) ==
    (writer[w].pc = "write" /\ writer'[w].pc = "invalidate") =>
        \A p \in Providers \ Mentioned(writer[w].req) : row'.keys[p] = row.keys[p]

\* A save whose SELECT worked and that no other save overtook between its SELECT
\* and its UPDATE leaves the keys of other providers alone, whatever fields were
\* empty, placeholders or masked keys sent back.
UndisturbedSave == [][\A w \in Writers : writer[w].sound => LeavesOthers(w)]_settingsVars

\* Old keys go out of use: when the updates are over, whatever the order in
\* which readers and writers touched row and cache, the cache ends up without
\* an entry that differs from the row.
EventuallyCurrent == <>[](Live(cache) => cache.gateway = Plain(row.keys))
=============================================================================
