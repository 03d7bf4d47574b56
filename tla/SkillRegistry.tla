--------------------------- MODULE SkillRegistry ---------------------------
(***************************************************************************)
(* The registry of skills (internal/orchestrator/registry.go) and the       *)
(* handlers that change it (api/handler/skill_handler.go).                  *)
(*                                                                         *)
(* A skill lives twice: as an object in the memory of the process, which is *)
(* what agents run, and as a row of a skills table.  The map in memory is   *)
(* one for all tenants and nothing in it says whose a skill is; the table   *)
(* is the one in the schema of the tenant that asks.  So a tenant may       *)
(* rename or delete a skill of another: the shared object is renamed, the   *)
(* shared entry dropped, and the row of the other tenant stays as it is.    *)
(*                                                                         *)
(* Register writes memory first and the table second; Remove deletes the    *)
(* row, if there is one, first and the entry second.  The lock of the       *)
(* registry covers a single access to the map and nothing else, and         *)
(* UpdateSkill changes the registered object in place before it registers   *)
(* it again.  Nothing reads a table back.                                   *)
(***************************************************************************)
EXTENDS Integers, FiniteSets

CONSTANTS
    Tenants,      \* tenants, each with a schema of its own
    SkillIds,     \* supply of identifiers (uuid.New)
    Names,        \* names of skills
    Requests,     \* requests that may be in flight at a time
    MaxAsks,      \* bound on requests in all
    MaxRestarts,  \* bound on restarts of the process
    None          \* no name, no identifier

ASSUME BoundsAssumption == MaxAsks \in Nat /\ MaxRestarts \in Nat
ASSUME NoneAssumption == None \notin SkillIds \cup Names

VARIABLES
    object,    \* object[id]: the name in the skill object, None before it exists
    skills,    \* Registry.skills: the identifiers in memory
    rows,      \* rows[t][id]: the name in the skills table of t, None without a row
    req,       \* req[r]: the request r is serving, and the tenant that asks
    askers,    \* history: the tenants that have asked to create, change or delete id
    asks,      \* requests so far
    tainted,   \* history: the identifiers something out of order happened to
    starts     \* restarts so far

registryVars == <<object, skills, rows, req, asks, askers, tainted, starts>>

Idle == [op |-> "none", pc |-> "idle", tenant |-> None, id |-> None, name |-> None]

InFlight(id) == {r \in Requests : req[r].pc # "idle" /\ req[r].id = id}

\* Registry.Get, which every reader and RunSkill go through.
Served(id) == id \in skills

RegistryInit ==
    /\ object = [id \in SkillIds |-> None]
    /\ skills = {}
    /\ rows = [t \in Tenants |-> [id \in SkillIds |-> None]]
    /\ req = [r \in Requests |-> Idle]
    /\ askers = [id \in SkillIds |-> {}]
    /\ asks = 0
    /\ tainted = {}
    /\ starts = 0

\* A request of tenant t starts on id; requests that overlap on one skill taint it.
Start(r, t, op, id, pc) ==
    /\ req[r].pc = "idle"
    /\ asks < MaxAsks
    /\ asks' = asks + 1
    /\ req' = [req EXCEPT ![r] = [op |-> op, pc |-> pc, tenant |-> t, id |-> id, name |-> None]]
    /\ askers' = [askers EXCEPT ![id] = @ \cup {t}]
    /\ tainted' = IF InFlight(id) = {} THEN tainted ELSE tainted \cup {id}

Goto(r, pc) == req' = [req EXCEPT ![r].pc = pc]

Answer(r) == req' = [req EXCEPT ![r] = Idle]

-----------------------------------------------------------------------------
(* The handlers up to their call of the registry.  None of them looks whose the  *)
(* skill is.                                                                     *)

CreateSkill(r, t, id, name) ==
    /\ object[id] = None
    /\ object' = [object EXCEPT ![id] = name]
    /\ Start(r, t, "create", id, "store")
    /\ UNCHANGED <<skills, rows, starts>>

\* The object everybody else holds is changed here, before anything is saved.
UpdateSkill(r, t, id, name) ==
    /\ Served(id)
    /\ object' = [object EXCEPT ![id] = name]
    /\ Start(r, t, "update", id, "store")
    /\ UNCHANGED <<skills, rows, starts>>

\* Mutant of DeleteSkill: the entry is deleted before the row.
DeleteSkillForgets(r, t, id) ==
    /\ Served(id)
    /\ skills' = skills \ {id}
    /\ Start(r, t, "delete", id, "delete")
    /\ UNCHANGED <<object, rows, starts>>

DeleteSkill(r, t, id) ==
    /\ Served(id)
    /\ Start(r, t, "delete", id, "delete")
    /\ UNCHANGED <<object, skills, rows, starts>>

-----------------------------------------------------------------------------
(* Registry.Register *)

Store(r) ==
    /\ req[r].pc = "store"
    /\ skills' = skills \cup {req[r].id}
    /\ Goto(r, "read")
    /\ UNCHANGED <<object, rows, asks, askers, tainted, starts>>

\* The arguments of the statement are read from the object, without a lock.
ReadObject(r) ==
    /\ req[r].pc = "read"
    /\ req' = [req EXCEPT ![r].pc = "upsert", ![r].name = object[req[r].id]]
    /\ UNCHANGED <<object, skills, rows, asks, askers, tainted, starts>>

\* The unique index on the name is the asking tenant's.
NameTaken(r) == \E id \in SkillIds \ {req[r].id} : rows[req[r].tenant][id] = req[r].name

Upsert(r) ==
    /\ req[r].pc = "upsert"
    /\ ~NameTaken(r)
    /\ rows' = [rows EXCEPT ![req[r].tenant][req[r].id] = req[r].name]
    /\ Answer(r)
    /\ UNCHANGED <<object, skills, asks, askers, tainted, starts>>

\* A unique violation: the entry is dropped, also when it was there before.
Conflict(r) ==
    /\ req[r].pc = "upsert"
    /\ NameTaken(r)
    /\ Goto(r, "drop")
    /\ tainted' = IF req[r].op = "update" THEN tainted \cup {req[r].id} ELSE tainted
    /\ UNCHANGED <<object, skills, rows, asks, askers, starts>>

\* Mutant of Drop: the conflict is answered and the entry stays.
DropNothing(r) ==
    /\ req[r].pc = "drop"
    /\ Answer(r)
    /\ UNCHANGED <<object, skills, rows, asks, askers, tainted, starts>>

Drop(r) ==
    /\ req[r].pc = "drop"
    /\ skills' = skills \ {req[r].id}
    /\ Answer(r)
    /\ UNCHANGED <<object, rows, asks, askers, tainted, starts>>

\* Any other error of the statement leaves the entry in memory.
StatementFails(r) ==
    /\ req[r].pc \in {"upsert", "delete"}
    /\ tainted' = tainted \cup {req[r].id}
    /\ Answer(r)
    /\ UNCHANGED <<object, skills, rows, asks, askers, starts>>

-----------------------------------------------------------------------------
(* Registry.Remove; linked is the set of pairs <<t, id>> with id in the links table *)
(* of tenant t.                                                                    *)

\* DELETE runs in the schema of the tenant that asks; nobody looks whether a row was
\* hit, so a skill of another tenant is "deleted" without an error.
DeleteRow(r, linked) ==
    /\ req[r].pc = "delete"
    /\ <<req[r].tenant, req[r].id>> \notin linked
    /\ rows' = [rows EXCEPT ![req[r].tenant][req[r].id] = None]
    /\ Goto(r, "forget")
    /\ UNCHANGED <<object, skills, asks, askers, tainted, starts>>

\* The foreign key of that schema restricts the deletion: ErrSkillInUse.
InUse(r, linked) ==
    /\ req[r].pc = "delete"
    /\ <<req[r].tenant, req[r].id>> \in linked
    /\ Answer(r)
    /\ UNCHANGED <<object, skills, rows, asks, askers, tainted, starts>>

\* The shared entry goes, whoever has asked for it.
Forget(r) ==
    /\ req[r].pc = "forget"
    /\ skills' = skills \ {req[r].id}
    /\ Answer(r)
    /\ UNCHANGED <<object, rows, asks, askers, tainted, starts>>

-----------------------------------------------------------------------------
\* NewRegistry starts with empty maps and nothing fills them from the tables.
Restart ==
    /\ starts < MaxRestarts
    /\ starts' = starts + 1
    /\ skills' = {}
    /\ tainted' = tainted \cup {id \in SkillIds : object[id] # None}
    /\ req' = [r \in Requests |-> Idle]
    /\ UNCHANGED <<object, rows, asks, askers>>

RegistryNext(linked) ==
    \/ \E r \in Requests :
         \/ \E t \in Tenants, id \in SkillIds, n \in Names :
              CreateSkill(r, t, id, n) \/ UpdateSkill(r, t, id, n)
         \/ \E t \in Tenants, id \in SkillIds : DeleteSkill(r, t, id)
         \/ Store(r) \/ ReadObject(r) \/ Upsert(r) \/ Conflict(r) \/ Drop(r)
         \/ StatementFails(r)
         \/ DeleteRow(r, linked) \/ InUse(r, linked) \/ Forget(r)
    \/ Restart

-----------------------------------------------------------------------------
(* Properties *)

RegistryTypeOK ==
    /\ object \in [SkillIds -> Names \cup {None}]
    /\ skills \subseteq SkillIds
    /\ rows \in [Tenants -> [SkillIds -> Names \cup {None}]]
    /\ req \in [Requests -> [op : {"none", "create", "update", "delete"},
                             pc : {"idle", "store", "read", "upsert", "drop", "delete",
                                   "forget"},
                             tenant : Tenants \cup {None}, id : SkillIds \cup {None}, name : Names \cup {None}]]
    /\ askers \in [SkillIds -> SUBSET Tenants]
    /\ asks \in 0 .. MaxAsks
    /\ tainted \subseteq SkillIds
    /\ starts \in 0 .. MaxRestarts

\* Only one tenant has ever asked anything of the skill.
OneTenant(id) == \A t, u \in askers[id] : t = u

\* Whenever no request is at work on a skill, however the requests on different skills
\* interleave: a skill in memory has a row under the name of the object in the schema of
\* some tenant, whichever tenants have changed or deleted it; and as long as a single
\* tenant has asked for it, a row has the skill in memory, under its name.  Memory and
\* table part by what "tainted" records (two requests that overlap on one skill, a
\* statement that fails, a rename that meets a name in use, a restart) and, in the second
\* half, by the request of another tenant: the map is shared and has no owner, so a DELETE
\* of another tenant drops the entry and leaves the row, and a PUT of another tenant
\* renames the object and leaves the row of the first under the old name (Register and
\* Remove of the registry, UpdateSkill of its handler).
RegistryAgrees ==
    \A id \in SkillIds \ tainted :
        InFlight(id) = {} =>
            /\ Served(id) => \E t \in Tenants : rows[t][id] = object[id]
            /\ OneTenant(id) =>
                 \A t \in Tenants : rows[t][id] # None => Served(id) /\ rows[t][id] = object[id]
=============================================================================
