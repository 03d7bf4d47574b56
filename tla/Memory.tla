------------------------------- MODULE Memory -------------------------------
(***************************************************************************)
(* The conversation memory: one ConversationWindowMemory for all tenants and  *)
(* sessions of the process (internal/memory, wired in api/router.go), behind  *)
(* the handlers of api/handler/memory_handler.go.                           *)
(*                                                                         *)
(* A request takes MemoryManager.mu, for reading or for writing, works and   *)
(* releases it; adding an entry keeps the lock over a transaction of the      *)
(* database.  The row of the entry refers to a row of sessions, which no code  *)
(* inserts, so the transaction fails, the failure is logged, and the window    *)
(* is all that is kept: a restart loses it.                                  *)
(***************************************************************************)
EXTENDS RWLock, Filter, SequencesExt, FiniteSetsExt

CONSTANTS
    Entries,       \* supply of entries, each with a fresh id (uuid.New): numbers here
    Tenants,
    Sessions,
    TenantOf,      \* TenantOf[e]: the tenant that adds e
    SessionOf,     \* SessionOf[e]: the session the entry names
    WindowSize,    \* ShortTermWindowSize
    MaxStarts      \* bound on the times the process starts again

ASSUME MemoryAssumption ==
    /\ Entries \subseteq Nat
    /\ TenantOf \in [Entries -> Tenants]
    /\ SessionOf \in [Entries -> Sessions]
    /\ WindowSize \in Nat \ {0}
    /\ MaxStarts \in Nat
    /\ None \notin Requests \cup Entries \cup Sessions

VARIABLES
    window,     \* the entries in memory, oldest first
    req,        \* req[r]: the request r is serving
    starts,     \* how often it has started again
    added,      \* all entries ever added, in order (history)
    dropped     \* entries deleted, cleared or lost in a restart (history)

history == <<added, dropped>>
memoryVars == <<lockVars, window, req, starts, history>>

Ask(op, tenant, entry, session) ==
    [pc |-> "idle", op |-> op, tenant |-> tenant, entry |-> entry, session |-> session,
     result |-> <<>>]

Idle == Ask("none", None, None, None)

MemoryInit == /\ LockInit
              /\ window = <<>>
              /\ req = [r \in Requests |-> Idle]
              /\ starts = 0
              /\ added = <<>>
              /\ dropped = {}

-----------------------------------------------------------------------------
(* Requests.  A client knows the ids of entries that were added; the session of *)
(* a search may be left out (None).                                           *)

\* A request that goes for the write lock, and one that tries the read lock.
Write(r, q) ==
    /\ req[r] = Idle
    /\ req' = [req EXCEPT ![r] = [q EXCEPT !.pc = "lock"]]
    /\ UNCHANGED <<lockVars, window, starts, history>>

ReadOnly(r, q) ==
    /\ req[r] = Idle
    /\ \/ RLock(r) /\ req' = [req EXCEPT ![r] = [q EXCEPT !.pc = "read"]]
       \/ RLockWaits(r) /\ req' = [req EXCEPT ![r] = [q EXCEPT !.pc = "rwait"]]
    /\ UNCHANGED <<window, starts, history>>

\* Entries are numbered in the order in which their requests arrive.
Fresh == Entries \ (ToSet(added) \cup {req[r].entry : r \in {q \in Requests : req[q].op = "add"}})

AddMemory(r) ==
    /\ Fresh # {}
    /\ LET e == Min(Fresh) IN Write(r, Ask("add", TenantOf[e], e, None))

GetMemory(r, t, e) ==
    /\ e \in ToSet(added)
    /\ ReadOnly(r, Ask("get", t, e, None))

SearchMemory(r, t, s) ==
    ReadOnly(r, Ask("search", t, None, s))

DeleteMemory(r, t, e) ==
    /\ e \in ToSet(added)
    /\ ReadOnly(r, Ask("delete", t, e, None))

\* Tenant t clears a session it names; whether it is one of its own is not asked.
ClearSession(r, t, s) ==
    Write(r, Ask("clear", t, None, s))

\* Requests that read and answer nothing the properties tell apart: the two that count
\* the entries of a session, those about entities (there is no entity memory, the
\* answer is empty) and about a summary (not available with a window, 500).
Inspect(r) == ReadOnly(r, Ask("inspect", None, None, None))

CreateSession(r)   == Inspect(r)
GetStats(r)        == Inspect(r)
GetEntities(r)     == Inspect(r)
ExtractEntities(r) == Inspect(r)
GetSummary(r)      == Inspect(r)

-----------------------------------------------------------------------------
(* The lock *)

\* The writer that unlocked has let r in.
Woken(r) ==
    /\ req[r].pc = "rwait"
    /\ r \notin blocked
    /\ req' = [req EXCEPT ![r].pc = "read"]
    /\ UNCHANGED <<lockVars, window, starts, history>>

AnnounceWrite(r) ==
    /\ req[r].pc = "lock"
    /\ Announce(r)
    /\ req' = [req EXCEPT ![r].pc = "wwait"]
    /\ UNCHANGED <<window, starts, history>>

WriteLock(r) ==
    /\ req[r].pc = "wwait"
    /\ TakeLock(r)
    /\ req' = [req EXCEPT ![r].pc = "write"]
    /\ UNCHANGED <<window, starts, history>>

-----------------------------------------------------------------------------
(* What is done under the read lock *)

\* Mutant of Matches: a search for a session looks for nothing else.
MatchesSession(e, t, s) == IF s = None THEN TenantOf[e] = t ELSE SessionOf[e] = s

Matches(e, t, s) == TenantOf[e] = t /\ (s # None => SessionOf[e] = s)

\* The entries a request is after: Get looks for the id, and the handler compares the
\* tenant of what it finds; Search goes through the window.
Wanted(q) ==
    CASE q.op = "search"            -> {e \in Entries : Matches(e, q.tenant, q.session)}
      [] q.op \in {"get", "delete"} -> {e \in Entries : e = q.entry /\ TenantOf[e] = q.tenant}
      [] OTHER                      -> {}

Found(q) == Keep(window, Wanted(q))

\* Mutant of Read: the read lock is taken once more before the search, as
\* HybridSearch does around Search.
ReadTwice(r) ==
    /\ req[r].pc = "read"
    /\ writer = None
    /\ req' = [req EXCEPT ![r].pc = "release", ![r].result = Found(req[r])]
    /\ UNCHANGED <<lockVars, window, starts, history>>

\* The search ends when it has the number of entries asked for, the oldest ones.
Read(r) ==
    /\ req[r].pc = "read"
    /\ \E limit \in 1 .. WindowSize :
         LET found == Found(req[r])
         IN  req' = [req EXCEPT ![r].pc = "release",
                                ![r].result = SubSeq(found, 1, Min({limit, Len(found)}))]
    /\ UNCHANGED <<lockVars, window, starts, history>>

\* The answer; DeleteMemory goes on, for the write lock, when it found the entry.
ReadUnlock(r) ==
    /\ req[r].pc = "release"
    /\ RUnlock(r)
    /\ req' = [req EXCEPT ![r] = IF @.op = "delete" /\ @.result # <<>>
                                 THEN [@ EXCEPT !.pc = "lock", !.result = <<>>] ELSE Idle]
    /\ UNCHANGED <<window, starts, history>>

-----------------------------------------------------------------------------
(* What is done under the write lock *)

Newest(seq, n) == IF Len(seq) > n THEN SubSeq(seq, Len(seq) - n + 1, Len(seq)) ELSE seq

\* Mutant of Add: the window is trimmed as soon as it is full.
AddTrimsFull(r) ==
    /\ req[r].pc = "write"
    /\ req[r].op = "add"
    /\ window' = Newest(Append(window, req[r].entry), WindowSize - 1)
    /\ added' = Append(added, req[r].entry)
    /\ req' = [req EXCEPT ![r].pc = "persist"]
    /\ UNCHANGED <<lockVars, starts, dropped>>

\* ConversationWindowMemory.Add
Add(r) ==
    /\ req[r].pc = "write"
    /\ req[r].op = "add"
    /\ window' = Newest(Append(window, req[r].entry), WindowSize)
    /\ added' = Append(added, req[r].entry)
    /\ req' = [req EXCEPT ![r].pc = "persist"]
    /\ UNCHANGED <<lockVars, starts, dropped>>

\* The transaction ends, in vain, and the entry is acknowledged.
Persist(r) ==
    /\ req[r].pc = "persist"
    /\ Unlock(r)
    /\ req' = [req EXCEPT ![r] = Idle]
    /\ UNCHANGED <<window, starts, history>>

TakeOut(gone) ==
    /\ window' = Keep(window, Entries \ gone)
    /\ dropped' = dropped \cup (ToSet(window) \cap gone)

\* The entry may have left the window since the handler saw it; 200 all the same.
Delete(r) ==
    /\ req[r].pc = "write"
    /\ req[r].op = "delete"
    /\ TakeOut({req[r].entry})
    /\ Unlock(r)
    /\ req' = [req EXCEPT ![r] = Idle]
    /\ UNCHANGED <<starts, added>>

\* Clear compares the session only: the entries of all tenants that named it go.
Clear(r) ==
    /\ req[r].pc = "write"
    /\ req[r].op = "clear"
    /\ TakeOut({e \in Entries : SessionOf[e] = req[r].session})
    /\ Unlock(r)
    /\ req' = [req EXCEPT ![r] = Idle]
    /\ UNCHANGED <<starts, added>>

-----------------------------------------------------------------------------
MemoryRestart ==
    /\ starts < MaxStarts
    /\ starts' = starts + 1
    /\ TakeOut(Entries)
    /\ req' = [r \in Requests |-> Idle]
    /\ writer' = None
    /\ writing' = FALSE
    /\ readers' = [r \in Requests |-> 0]
    /\ blocked' = {}
    /\ UNCHANGED added

Arrive(r) ==
    \/ AddMemory(r)
    \/ \E t \in Tenants, e \in Entries : GetMemory(r, t, e) \/ DeleteMemory(r, t, e)
    \/ \E t \in Tenants, s \in Sessions \cup {None} : SearchMemory(r, t, s)
    \/ \E t \in Tenants, s \in Sessions : ClearSession(r, t, s)
    \/ CreateSession(r) \/ GetStats(r) \/ GetEntities(r) \/ ExtractEntities(r) \/ GetSummary(r)

Serve(r) ==
    \/ Woken(r) \/ WriteLock(r)
    \/ Read(r) \/ ReadUnlock(r)
    \/ Add(r) \/ Persist(r) \/ Delete(r) \/ Clear(r)

MemoryNext == \/ \E r \in Requests : Arrive(r) \/ Serve(r) \/ AnnounceWrite(r)
              \/ MemoryRestart

\* A goroutine that can run does, transactions end, and the mutex of the writers is
\* handed on to those that wait for it (sync.Mutex does not starve them).
MemorySpec == /\ MemoryInit /\ [][MemoryNext]_memoryVars
              /\ \A r \in Requests : WF_memoryVars(Serve(r)) /\ SF_memoryVars(AnnounceWrite(r))

-----------------------------------------------------------------------------
(* Properties *)

\* The window is a suffix of the entries ever added, less those that were deleted or
\* cleared: an entry leaves it only on purpose or because WindowSize newer ones were
\* added, by whatever tenant (ConversationWindowMemory.Add, Delete and Clear).
KeptUntilPushedOut ==
    /\ Len(window) <= WindowSize
    /\ \A i \in DOMAIN added :
         Len(added) - i < WindowSize /\ added[i] \notin dropped => added[i] \in ToSet(window)
    /\ \A e \in dropped : e \notin ToSet(window)
    /\ window = Keep(added, ToSet(window))

\* What may take an entry out of the window: a newer one, a restart, a request of its
\* tenant, and a request of any tenant that clears a session of the name it has.
MayGo(e) ==
    \/ added' # added
    \/ starts' # starts
    \/ \E r \in Requests : /\ req[r].pc = "write" /\ req' = [req EXCEPT ![r] = Idle]
                           /\ \/ TenantOf[e] = req[r].tenant
                              \/ req[r].op = "clear" /\ SessionOf[e] = req[r].session

\* A tenant is shown entries of its own only, although all tenants share the window
\* (GetMemory, SearchMemory).  What a request takes out of the window is its tenant's own
\* as well, although a deletion checks the entry and removes it under two locks
\* (DeleteMemory), with one exception: clearing a session takes the entries of every
\* tenant that names a session so, as Clear compares no tenants (short_term.go:156-175).
OwnEntriesOnly ==
    [][/\ \A r \in Requests : \A e \in ToSet(req'[r].result) : TenantOf[e] = req'[r].tenant
       /\ \A e \in ToSet(window) \ ToSet(window') : MayGo(e)]_memoryVars

\* Every request is answered: no request waits for the lock for ever, as a reader
\* that locks twice around a waiting writer would (MemoryManager.mu).
RequestsAnswered == \A r \in Requests : req[r].pc # "idle" ~> req[r].pc = "idle"
=============================================================================
