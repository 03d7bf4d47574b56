------------------------------- MODULE RWLock -------------------------------
(***************************************************************************)
(* sync.RWMutex, as MemoryManager.mu is used: a writer that waits keeps new   *)
(* readers out, and lets in all of those that wait when it unlocks.          *)
(***************************************************************************)
EXTENDS Naturals, FiniteSets

CONSTANTS
    Requests,   \* goroutines that use the lock
    None        \* no request, no entry

VARIABLES
    writer,    \* the goroutine that holds the writers' mutex, or None
    writing,   \* it has the lock: no reader is left
    readers,   \* readers[r]: read locks r holds
    blocked    \* goroutines that wait for a read lock

lockVars == <<writer, writing, readers, blocked>>

LockInit == /\ writer = None
            /\ writing = FALSE
            /\ readers = [r \in Requests |-> 0]
            /\ blocked = {}

\* RLock that succeeds at once, and RLock that has to wait.
RLock(r) == /\ writer = None
            /\ readers' = [readers EXCEPT ![r] = @ + 1]
            /\ UNCHANGED <<writer, writing, blocked>>

RLockWaits(r) == /\ writer # None
                 /\ r \notin blocked
                 /\ blocked' = blocked \cup {r}
                 /\ UNCHANGED <<writer, writing, readers>>

RUnlock(r) == /\ readers' = [readers EXCEPT ![r] = @ - 1]
              /\ UNCHANGED <<writer, writing, blocked>>

\* Lock: the mutex of the writers first, then the wait for the readers to leave.
Announce(r) == /\ writer = None
               /\ writer' = r
               /\ UNCHANGED <<writing, readers, blocked>>

TakeLock(r) == /\ writer = r
               /\ ~writing
               /\ \A q \in Requests : readers[q] = 0
               /\ writing' = TRUE
               /\ UNCHANGED <<writer, readers, blocked>>

Unlock(r) == /\ writer' = None
             /\ writing' = FALSE
             /\ readers' = [q \in Requests |-> readers[q] + IF q \in blocked THEN 1 ELSE 0]
             /\ blocked' = {}
=============================================================================
