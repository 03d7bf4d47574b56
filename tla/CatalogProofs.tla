--------------------------- MODULE CatalogProofs ---------------------------
(***************************************************************************)
(* Proofs about what an agent may be given: about Catalog and the           *)
(* SkillRegistry it extends, for any number of skills, agents, workspaces,  *)
(* requests and restarts, and about McpManager, for any number of servers,  *)
(* clients and calls and a cache of any size.                              *)
(***************************************************************************)
EXTENDS Catalog, McpManager, FiniteSetTheorems, TLAPS

\* What a request on a skill has in hand: the identifier of a skill whose object
\* exists, and the name it is about to write.
RequestsProper ==
    \A r \in Requests : req[r].pc # "idle" =>
        /\ req[r].id \in SkillIds
        /\ req[r].tenant \in askers[req[r].id]
        /\ object[req[r].id] \in Names
        /\ req[r].pc = "upsert" => req[r].name \in Names
        /\ req[r].pc \in {"store", "read", "upsert", "drop"} => req[r].op \in {"create", "update"}
        /\ req[r].pc \in {"delete", "forget"} => req[r].op = "delete"

\* A skill whose object does not exist has left no trace.
NoTraceBefore ==
    \A id \in SkillIds : object[id] = None =>
        id \notin skills /\ askers[id] = {} /\ \A t \in Tenants : rows[t][id] = None

\* A tenant has a row of the skills it has asked for only.
RowsAsked == \A t \in Tenants, id \in SkillIds : rows[t][id] # None => t \in askers[id]

RegistryProper == RegistryTypeOK /\ RequestsProper /\ NoTraceBefore /\ RowsAsked

RequestRecord == [op : {"none", "create", "update", "delete"},
                  pc : {"idle", "store", "read", "upsert", "drop", "delete", "forget"},
                  tenant : Tenants \cup {None}, id : SkillIds \cup {None}, name : Names \cup {None}]

LEMMA IdleTyped ==
    Idle \in [op : {"none", "create", "update", "delete"},
              pc : {"idle", "store", "read", "upsert", "drop", "delete", "forget"},
              tenant : Tenants \cup {None}, id : SkillIds \cup {None}, name : Names \cup {None}]
BY DEF Idle

\* A request that has read the name of its skill is about to write it.
LEMMA ReadKeeps ==
    ASSUME RegistryProper, NEW r \in Requests, ReadObject(r)
    PROVE  RegistryProper'
<1> DEFINE Rec == [op : {"none", "create", "update", "delete"},
                   pc : {"idle", "store", "read", "upsert", "drop", "delete", "forget"},
                   tenant : Tenants \cup {None}, id : SkillIds \cup {None}, name : Names \cup {None}]
           x == [req[r] EXCEPT !.pc = "upsert", !.name = object[req[r].id]]
<1>1. /\ req \in [Requests -> Rec]
      /\ req[r] \in Rec /\ req[r].pc = "read" /\ req[r].id \in SkillIds
      /\ object[req[r].id] \in Names /\ req[r].op \in {"create", "update"}
  BY DEF ReadObject, RegistryProper, RegistryTypeOK, RequestsProper
<1>2. req' = [req EXCEPT ![r] = x] /\ UNCHANGED <<object, skills, rows, asks, askers, tainted, starts>>
  BY <1>1 DEF ReadObject
<1>3. /\ x \in Rec /\ x.pc = "upsert" /\ x.id = req[r].id /\ x.op = req[r].op
      /\ x.tenant = req[r].tenant
      /\ x.name = object[req[r].id]
  BY <1>1
<1> HIDE DEF x, Rec
<1>4. req' \in [Requests -> Rec] /\ req'[r] = x /\ \A s \in Requests \ {r} : req'[s] = req[s]
  BY <1>1, <1>2, <1>3
<1>5. RegistryTypeOK'
  BY <1>2, <1>4 DEF RegistryProper, RegistryTypeOK, Rec
<1>6. RequestsProper'
  BY <1>1, <1>2, <1>3, <1>4 DEF RegistryProper, RequestsProper
<1>7. NoTraceBefore' /\ RowsAsked'
  BY <1>2 DEF RegistryProper, NoTraceBefore, RowsAsked
<1> QED BY <1>5, <1>6, <1>7 DEF RegistryProper

\* What a request that starts on a skill leaves: it is the only one that changes.
Started(r, t, op, id, pc) ==
    /\ req' \in [Requests -> RequestRecord]
    /\ req'[r] = [op |-> op, pc |-> pc, tenant |-> t, id |-> id, name |-> None]
    /\ \A s \in Requests \ {r} : req'[s] = req[s]
    /\ askers' \in [SkillIds -> SUBSET Tenants]
    /\ askers'[id] = askers[id] \cup {t}
    /\ \A i \in SkillIds \ {id} : askers'[i] = askers[i]
    /\ asks' \in 0 .. MaxAsks
    /\ tainted' \subseteq SkillIds

LEMMA StartTells ==
    ASSUME RegistryProper, NEW r \in Requests, NEW t \in Tenants, NEW id \in SkillIds,
           NEW op \in {"create", "update", "delete"}, NEW pc \in {"store", "delete"},
           Start(r, t, op, id, pc)
    PROVE  Started(r, t, op, id, pc)
<1>1. [op |-> op, pc |-> pc, tenant |-> t, id |-> id, name |-> None] \in RequestRecord
  BY DEF RequestRecord
<1>2. askers' \in [SkillIds -> SUBSET Tenants] /\ askers'[id] = askers[id] \cup {t}
      /\ \A i \in SkillIds \ {id} : askers'[i] = askers[i]
  BY DEF Start, RegistryProper, RegistryTypeOK
<1>3. asks' \in 0 .. MaxAsks /\ tainted' \subseteq SkillIds
  BY BoundsAssumption DEF Start, RegistryProper, RegistryTypeOK
<1>4. /\ req' \in [Requests -> RequestRecord]
      /\ req'[r] = [op |-> op, pc |-> pc, tenant |-> t, id |-> id, name |-> None]
      /\ \A s \in Requests \ {r} : req'[s] = req[s]
  <2>1. req \in [Requests -> RequestRecord]
    BY DEF RegistryProper, RegistryTypeOK, RequestRecord
  <2> QED BY <1>1, <2>1 DEF Start
<1> QED BY <1>2, <1>3, <1>4 DEF Started

\* The steps of the registry keep its types, whatever is linked.
LEMMA RegistryStep ==
    ASSUME RegistryProper, NEW linked, RegistryNext(linked)
    PROVE  RegistryProper'
<1> USE NoneAssumption DEF RegistryProper
<1>1. ASSUME NEW r \in Requests, NEW t \in Tenants, NEW id \in SkillIds, NEW n \in Names,
             CreateSkill(r, t, id, n) \/ UpdateSkill(r, t, id, n)
      PROVE  RegistryProper'
  <2>1. PICK op \in {"create", "update"} : Start(r, t, op, id, "store")
    BY <1>1 DEF CreateSkill, UpdateSkill
  <2>2. /\ object' = [object EXCEPT ![id] = n]
        /\ UNCHANGED <<skills, rows, starts>>
    BY <1>1 DEF CreateSkill, UpdateSkill
  <2>0. Started(r, t, op, id, "store")
    BY <2>1, StartTells
  <2>3. RegistryTypeOK'
    BY <2>0, <2>2 DEF Started, RegistryTypeOK, RequestRecord
  <2>4. RequestsProper'
    BY <2>0, <2>2 DEF Started, RegistryTypeOK, RequestsProper
  <2>5. NoTraceBefore' /\ RowsAsked'
    BY <2>0, <2>2 DEF Started, RegistryTypeOK, NoTraceBefore, RowsAsked
  <2> QED BY <2>3, <2>4, <2>5
<1>2. ASSUME NEW r \in Requests, NEW t \in Tenants, NEW id \in SkillIds, DeleteSkill(r, t, id)
      PROVE  RegistryProper'
  <2>1. Start(r, t, "delete", id, "delete") /\ id \in skills
        /\ UNCHANGED <<object, skills, rows, starts>>
    BY <1>2 DEF DeleteSkill, Served
  <2>2. object[id] \in Names
    BY <2>1 DEF NoTraceBefore, RegistryTypeOK
  <2>0. Started(r, t, "delete", id, "delete")
    BY <2>1, StartTells
  <2>3. RegistryTypeOK'
    BY <2>0, <2>1 DEF Started, RegistryTypeOK, RequestRecord
  <2>4. RequestsProper'
    <3> SUFFICES ASSUME NEW s \in Requests, req'[s].pc # "idle"
                 PROVE  /\ req'[s].id \in SkillIds
                        /\ req'[s].tenant \in askers'[req'[s].id]
                        /\ object'[req'[s].id] \in Names
                        /\ req'[s].pc = "upsert" => req'[s].name \in Names
                        /\ req'[s].pc \in {"store", "read", "upsert", "drop"} =>
                             req'[s].op \in {"create", "update"}
                        /\ req'[s].pc \in {"delete", "forget"} => req'[s].op = "delete"
      BY DEF RequestsProper
    <3>1. CASE s = r
      BY <2>0, <2>1, <2>2, <3>1 DEF Started
    <3>2. CASE s # r
      <4>1. req'[s] = req[s] /\ object' = object
        BY <2>0, <2>1, <3>2 DEF Started
      <4>2. \A i \in SkillIds : askers[i] \subseteq askers'[i]
        BY <2>0 DEF Started
      <4> QED BY <4>1, <4>2 DEF RequestsProper
    <3> QED BY <3>1, <3>2
  <2>5. NoTraceBefore' /\ RowsAsked'
    BY <2>0, <2>1, <2>2 DEF Started, RegistryTypeOK, NoTraceBefore, RowsAsked
  <2> QED BY <2>3, <2>4, <2>5
<1> USE DEF RegistryTypeOK, RequestsProper, NoTraceBefore, RowsAsked
<1>4. ASSUME NEW r \in Requests, Store(r) PROVE RegistryProper'
  <2>1. /\ req[r].id \in SkillIds /\ object[req[r].id] # None
        /\ req[r].op \in {"create", "update"}
    BY <1>4 DEF Store
  <2>2. RegistryTypeOK'
    BY <1>4, <2>1 DEF Store, Goto
  <2>4. RequestsProper'
    BY <1>4, <2>1 DEF Store, Goto
  <2>3. NoTraceBefore' /\ RowsAsked'
    BY <1>4, <2>1 DEF Store
  <2> QED BY <2>2, <2>3, <2>4
<1>5. ASSUME NEW r \in Requests, ReadObject(r) PROVE RegistryProper'
  BY <1>5, ReadKeeps
<1>6. ASSUME NEW r \in Requests, Upsert(r) PROVE RegistryProper'
  <2>1. /\ req[r].id \in SkillIds /\ req[r].tenant \in askers[req[r].id]
        /\ req[r].name \in Names /\ object[req[r].id] # None
    BY <1>6 DEF Upsert
  <2>2. RequestsProper'
    BY <1>6, <2>1 DEF Upsert, Answer, Idle
  <2>3. RegistryTypeOK'
    BY <1>6, <2>1, IdleTyped DEF Upsert, Answer
  <2>4. NoTraceBefore' /\ RowsAsked'
    BY <1>6, <2>1 DEF Upsert
  <2> QED BY <2>2, <2>3, <2>4
<1>7. ASSUME NEW r \in Requests, Conflict(r) PROVE RegistryProper'
  BY <1>7 DEF Conflict, Goto
<1>8. ASSUME NEW r \in Requests, Drop(r) \/ Forget(r) PROVE RegistryProper'
  <2>1. RequestsProper'
    BY <1>8 DEF Drop, Forget, Answer, Idle
  <2>2. RegistryTypeOK'
    BY <1>8, IdleTyped DEF Drop, Forget, Answer
  <2>3. NoTraceBefore' /\ RowsAsked'
    BY <1>8 DEF Drop, Forget
  <2> QED BY <2>1, <2>2, <2>3
<1>9. ASSUME NEW r \in Requests, StatementFails(r) PROVE RegistryProper'
  BY <1>9, IdleTyped DEF StatementFails, Answer, Idle
<1>10. ASSUME NEW r \in Requests, DeleteRow(r, linked) PROVE RegistryProper'
  BY <1>10 DEF DeleteRow, Goto
<1>11. ASSUME NEW r \in Requests, InUse(r, linked) PROVE RegistryProper'
  BY <1>11, IdleTyped DEF InUse, Answer, Idle
<1>12. CASE Restart
  BY <1>12, IdleTyped, BoundsAssumption DEF Restart, Idle
<1> QED
  BY <1>1, <1>2, <1>4, <1>5, <1>6, <1>7, <1>8, <1>9, <1>10, <1>11, <1>12 DEF RegistryNext

-----------------------------------------------------------------------------
(***************************************************************************)
(* The inductive invariant of memory and table.  A skill that nothing out   *)
(* of order has happened to is worked on by one request at a time, and how  *)
(* far that request has got says how the two differ.                       *)
(***************************************************************************)
Busy(r, id) == req[r].pc # "idle" /\ req[r].id = id

OneAtATime(id) == \A r, s \in Requests : (Busy(r, id) /\ Busy(s, id)) => r = s

NoRows(id) == \A t \in Tenants : rows[t][id] = None

RowsAgree(id) == \A t \in Tenants : rows[t][id] \in {None, object[id]}

InProgress(r, id) ==
    /\ (req[r].op = "create" /\ req[r].pc = "store") => id \notin skills /\ NoRows(id)
    /\ (req[r].op = "create" /\ req[r].pc # "store") => id \in skills /\ NoRows(id)
    /\ req[r].op = "update" => id \in skills /\ req[r].pc # "drop"
    /\ req[r].pc = "upsert" => req[r].name = object[id]
    /\ req[r].pc = "delete" => /\ id \in skills
                               /\ \E t \in Tenants : rows[t][id] = object[id]
                               /\ OneTenant(id) => RowsAgree(id)
    /\ req[r].pc = "forget" => id \in skills /\ (OneTenant(id) => NoRows(id))

IdleAgree(id) ==
    /\ id \in skills => \E t \in Tenants : rows[t][id] = object[id]
    /\ OneTenant(id) => RowsAgree(id) /\ (id \notin skills => NoRows(id))

Agree(id) ==
    /\ OneAtATime(id)
    /\ \A r \in Requests : Busy(r, id) => InProgress(r, id)
    /\ (\A r \in Requests : ~ Busy(r, id)) => IdleAgree(id)

AgreeInv == \A id \in SkillIds \ tainted : Agree(id)

\* Nothing that the invariant says of a skill changes.
LEMMA Untouched ==
    ASSUME NEW id \in SkillIds, Agree(id), object'[id] = object[id],
           id \in skills' <=> id \in skills, askers'[id] = askers[id],
           \A t \in Tenants : rows'[t][id] = rows[t][id],
           \A r \in Requests : req'[r] = req[r] \/ ~ (Busy(r, id) \/ Busy(r, id)')
    PROVE  Agree(id)'
<1>1. /\ NoRows(id)' = NoRows(id) /\ RowsAgree(id)' = RowsAgree(id)
      /\ OneTenant(id)' = OneTenant(id) /\ IdleAgree(id)' = IdleAgree(id)
  BY DEF NoRows, RowsAgree, OneTenant, IdleAgree
<1>2. \A r \in Requests : Busy(r, id)' <=> Busy(r, id)
  BY DEF Busy
<1>3. ASSUME NEW r \in Requests, Busy(r, id) PROVE InProgress(r, id)'
  <2>1. InProgress(r, id) /\ req'[r] = req[r]
    BY <1>3 DEF Agree
  <2> QED BY <2>1, <1>1 DEF InProgress
<1>4. OneAtATime(id)'
  BY <1>2 DEF Agree, OneAtATime
<1> QED BY <1>1, <1>2, <1>3, <1>4 DEF Agree

\* The one request at work on a skill goes on with it, or is answered.
LEMMA Moved ==
    ASSUME NEW id \in SkillIds, Agree(id), NEW r \in Requests, Busy(r, id),
           \A s \in Requests \ {r} : req'[s] = req[s],
           \/ req'[r].pc = "idle" /\ IdleAgree(id)'
           \/ Busy(r, id)' /\ InProgress(r, id)'
    PROVE  Agree(id)'
<1>1. \A s \in Requests \ {r} : ~ Busy(s, id) /\ ~ Busy(s, id)'
  BY DEF Agree, OneAtATime, Busy
<1>2. (req'[r].pc = "idle") <=> ~ Busy(r, id)'
  BY DEF Busy
<1> QED BY <1>1, <1>2 DEF Agree, OneAtATime

\* A request starts on a skill that no other is at work on.
LEMMA Began ==
    ASSUME NEW id \in SkillIds, NEW r \in Requests, \A s \in Requests : ~ Busy(s, id),
           \A s \in Requests \ {r} : req'[s] = req[s], Busy(r, id)', InProgress(r, id)'
    PROVE  Agree(id)'
<1>1. \A s \in Requests \ {r} : ~ Busy(s, id)'
  BY DEF Busy
<1> QED BY <1>1 DEF Agree, OneAtATime

LEMMA AgreeStep ==
    ASSUME RegistryProper, AgreeInv, NEW linked, RegistryNext(linked)
    PROVE  AgreeInv'
<1> USE NoneAssumption
<1>t. /\ object \in [SkillIds -> Names \cup {None}]
      /\ rows \in [Tenants -> [SkillIds -> Names \cup {None}]]
      /\ req \in [Requests -> [op : {"none", "create", "update", "delete"},
                               pc : {"idle", "store", "read", "upsert", "drop", "delete",
                                     "forget"},
                               tenant : Tenants \cup {None}, id : SkillIds \cup {None},
                               name : Names \cup {None}]]
      /\ askers \in [SkillIds -> SUBSET Tenants]
  BY DEF RegistryProper, RegistryTypeOK
\* The skill a request starts on.
<1>a. ASSUME NEW r \in Requests, NEW t \in Tenants, NEW id \in SkillIds,
             NEW op \in {"create", "update", "delete"}, NEW pc \in {"store", "delete"},
             Start(r, t, op, id, pc), UNCHANGED <<skills, rows>>,
             \A i \in SkillIds \ {id} : object'[i] = object[i],
             id \notin tainted' => InProgress(r, id)'
      PROVE  AgreeInv'
  <2> SUFFICES ASSUME NEW i \in SkillIds, i \notin tainted' PROVE Agree(i)'
    BY DEF AgreeInv
  <2>0. Started(r, t, op, id, pc)
    BY <1>a, StartTells
  <2>1. /\ req'[r] = [op |-> op, pc |-> pc, tenant |-> t, id |-> id, name |-> None]
        /\ \A s \in Requests \ {r} : req'[s] = req[s]
        /\ \A k \in SkillIds \ {id} : askers'[k] = askers[k]
    BY <2>0 DEF Started
  <2>2. req[r].pc = "idle" /\ (InFlight(id) # {} => id \in tainted') /\ i \notin tainted
    BY <1>a DEF Start
  <2>3. Agree(i)
    BY <2>2 DEF AgreeInv
  <2>4. CASE i = id
    <3>1. \A s \in Requests : ~ Busy(s, id)
      BY <2>2, <2>4 DEF InFlight, Busy
    <3>2. Busy(r, id)'
      BY <2>1 DEF Busy
    <3> QED BY <1>a, <2>1, <2>4, <3>1, <3>2, Began
  <2>5. CASE i # id
    <3>1. ~ Busy(r, i) /\ ~ Busy(r, i)'
      BY <2>1, <2>2, <2>5 DEF Busy
    <3> QED BY <1>a, <2>1, <2>3, <2>5, <3>1, Untouched
  <2> QED BY <2>4, <2>5
\* The skill a request is at work on.
<1>b. ASSUME NEW r \in Requests, NEW id, id = req[r].id, req[r].pc # "idle",
             \A s \in Requests \ {r} : req'[s] = req[s],
             req'[r].pc = "idle" \/ req'[r].id = id,
             object' = object, askers' = askers, tainted \subseteq tainted',
             \A i \in SkillIds \ {id} :
                 /\ i \in skills' <=> i \in skills
                 /\ \A t \in Tenants : rows'[t][i] = rows[t][i],
             (id \notin tainted' /\ InProgress(r, id)) =>
                 \/ req'[r].pc = "idle" /\ IdleAgree(id)'
                 \/ Busy(r, id)' /\ InProgress(r, id)'
      PROVE  AgreeInv'
  <2> SUFFICES ASSUME NEW i \in SkillIds, i \notin tainted' PROVE Agree(i)'
    BY DEF AgreeInv
  <2>1. Agree(i)
    BY <1>b DEF AgreeInv
  <2>2. CASE i = id
    <3>1. Busy(r, i)
      BY <1>b, <2>2 DEF Busy
    <3>2. InProgress(r, i)
      BY <2>1, <3>1 DEF Agree
    <3>3. \/ req'[r].pc = "idle" /\ IdleAgree(i)'
          \/ Busy(r, i)' /\ InProgress(r, i)'
      BY <1>b, <2>2, <3>2
    <3> QED BY <1>b, <2>1, <3>1, <3>3, Moved
  <2>3. CASE i # id
    <3>1. ~ Busy(r, i) /\ ~ Busy(r, i)'
      BY <1>b, <2>3 DEF Busy
    <3> QED BY <1>b, <2>1, <2>3, <3>1, Untouched
  <2> QED BY <2>2, <2>3
<1>1. ASSUME NEW r \in Requests, NEW t \in Tenants, NEW id \in SkillIds, NEW n \in Names,
             CreateSkill(r, t, id, n)
      PROVE  AgreeInv'
  <2>1. /\ Start(r, t, "create", id, "store") /\ UNCHANGED <<skills, rows>>
        /\ object' = [object EXCEPT ![id] = n] /\ object[id] = None
    BY <1>1 DEF CreateSkill
  <2>2. id \notin skills' /\ NoRows(id)'
    BY <2>1 DEF RegistryProper, NoTraceBefore, NoRows
  <2>0. Started(r, t, "create", id, "store")
    BY <2>1, StartTells
  <2>3. InProgress(r, id)'
    BY <2>0, <2>2 DEF Started, InProgress
  <2>4. \A i \in SkillIds \ {id} : object'[i] = object[i]
    BY <1>t, <2>1
  <2> QED BY <1>a, <2>1, <2>3, <2>4
<1>2. ASSUME NEW r \in Requests, NEW t \in Tenants, NEW id \in SkillIds, NEW n \in Names,
             UpdateSkill(r, t, id, n)
      PROVE  AgreeInv'
  <2>1. /\ Start(r, t, "update", id, "store") /\ UNCHANGED <<skills, rows>>
        /\ object' = [object EXCEPT ![id] = n] /\ id \in skills
    BY <1>2 DEF UpdateSkill, Served
  <2>0. Started(r, t, "update", id, "store")
    BY <2>1, StartTells
  <2>2. InProgress(r, id)'
    BY <2>0, <2>1 DEF Started, InProgress
  <2>3. \A i \in SkillIds \ {id} : object'[i] = object[i]
    BY <1>t, <2>1
  <2> QED BY <1>a, <2>1, <2>2, <2>3
<1>3. ASSUME NEW r \in Requests, NEW t \in Tenants, NEW id \in SkillIds, DeleteSkill(r, t, id)
      PROVE  AgreeInv'
  <2>1. /\ Start(r, t, "delete", id, "delete") /\ UNCHANGED <<object, skills, rows>>
        /\ id \in skills
    BY <1>3 DEF DeleteSkill, Served
  <2>0. Started(r, t, "delete", id, "delete")
    BY <2>1, StartTells
  <2>2. ASSUME id \notin tainted' PROVE InProgress(r, id)'
    <3>1. InFlight(id) = {} /\ id \notin tainted
      BY <2>1, <2>2 DEF Start
    <3>2. IdleAgree(id)
      BY <3>1 DEF AgreeInv, Agree, InFlight, Busy
    <3>3. OneTenant(id)' => OneTenant(id)
      BY <2>0 DEF Started, OneTenant
    <3>4. OneTenant(id)' => RowsAgree(id)'
      BY <2>1, <3>2, <3>3 DEF IdleAgree, RowsAgree
    <3>5. id \in skills' /\ \E u \in Tenants : rows'[u][id] = object'[id]
      BY <2>1, <3>2 DEF IdleAgree
    <3> QED BY <2>0, <3>4, <3>5 DEF Started, InProgress
  <2> QED BY <1>a, <2>1, <2>2
<1>4. ASSUME NEW r \in Requests, Store(r) PROVE AgreeInv'
  <2>0. PICK id : id = req[r].id
    OBVIOUS
  <2>1. /\ req[r].pc = "store" /\ skills' = skills \cup {id}
        /\ req' = [req EXCEPT ![r].pc = "read"] /\ UNCHANGED <<object, rows, askers, tainted>>
    BY <1>4, <2>0 DEF Store, Goto
  <2>2. /\ req'[r].pc = "read" /\ req'[r].op = req[r].op /\ req'[r].id = id
        /\ req[r].op \in {"create", "update"} /\ \A s \in Requests \ {r} : req'[s] = req[s]
    BY <1>t, <2>0, <2>1 DEF RegistryProper, RequestsProper
  <2>3. Busy(r, id)' /\ (InProgress(r, id) => InProgress(r, id)')
    BY <2>1, <2>2 DEF InProgress, Busy, NoRows
  <2> QED BY <1>b, <2>0, <2>1, <2>2, <2>3
<1>5. ASSUME NEW r \in Requests, ReadObject(r) PROVE AgreeInv'
  <2>0. PICK id : id = req[r].id
    OBVIOUS
  <2>1. /\ req[r].pc = "read"
        /\ req' = [req EXCEPT ![r].pc = "upsert", ![r].name = object[id]]
        /\ UNCHANGED <<object, skills, rows, askers, tainted>>
    BY <1>5, <2>0 DEF ReadObject
  <2>2. /\ req'[r].pc = "upsert" /\ req'[r].op = req[r].op /\ req'[r].id = id
        /\ req'[r].name = object[id] /\ \A s \in Requests \ {r} : req'[s] = req[s]
    BY <1>t, <2>0, <2>1
  <2>3. Busy(r, id)' /\ (InProgress(r, id) => InProgress(r, id)')
    BY <2>1, <2>2 DEF InProgress, Busy, NoRows
  <2> QED BY <1>b, <2>0, <2>1, <2>2, <2>3
<1>6. ASSUME NEW r \in Requests, Upsert(r) PROVE AgreeInv'
  <2>0. PICK id, t : id = req[r].id /\ t = req[r].tenant
    OBVIOUS
  <2>1. /\ req[r].pc = "upsert" /\ rows' = [rows EXCEPT ![t][id] = req[r].name]
        /\ req' = [req EXCEPT ![r] = Idle] /\ UNCHANGED <<object, skills, askers, tainted>>
    BY <1>6, <2>0 DEF Upsert, Answer
  <2>2. req'[r].pc = "idle" /\ \A s \in Requests \ {r} : req'[s] = req[s]
    BY <1>t, <2>0, <2>1 DEF Idle
  <2>3. id \in SkillIds /\ t \in askers[id] /\ t \in Tenants /\ req[r].op \in {"create", "update"}
    BY <1>t, <2>0, <2>1 DEF RegistryProper, RequestsProper
  <2>4. /\ rows'[t][id] = req[r].name
        /\ \A u \in Tenants \ {t} : rows'[u][id] = rows[u][id]
        /\ \A u \in Tenants, i \in SkillIds \ {id} : rows'[u][i] = rows[u][i]
    BY <1>t, <2>0, <2>1, <2>3
  <2>5. ASSUME InProgress(r, id) PROVE IdleAgree(id)'
    <3>1. id \in skills' /\ rows'[t][id] = object'[id]
      BY <2>1, <2>3, <2>4, <2>5 DEF InProgress
    <3>2. ASSUME OneTenant(id), NEW u \in Tenants \ {t} PROVE rows'[u][id] = None
      <4>1. u \notin askers[id]
        BY <2>3, <3>2 DEF OneTenant
      <4> QED BY <2>3, <2>4, <4>1 DEF RegistryProper, RowsAsked
    <3>3. OneTenant(id)' <=> OneTenant(id)
      BY <2>1 DEF OneTenant
    <3> QED BY <2>3, <3>1, <3>2, <3>3 DEF IdleAgree, RowsAgree
  <2> QED BY <1>b, <2>0, <2>1, <2>2, <2>4, <2>5
<1>7. ASSUME NEW r \in Requests, Conflict(r) PROVE AgreeInv'
  <2>0. PICK id : id = req[r].id
    OBVIOUS
  <2>1. /\ req[r].pc = "upsert" /\ req' = [req EXCEPT ![r].pc = "drop"]
        /\ UNCHANGED <<object, skills, rows, askers>>
        /\ tainted' = IF req[r].op = "update" THEN tainted \cup {id} ELSE tainted
    BY <1>7, <2>0 DEF Conflict, Goto
  <2>2. /\ req'[r].pc = "drop" /\ req'[r].op = req[r].op /\ req'[r].id = id
        /\ req[r].op \in {"create", "update"} /\ \A s \in Requests \ {r} : req'[s] = req[s]
    BY <1>t, <2>0, <2>1 DEF RegistryProper, RequestsProper
  <2>3. (id \notin tainted' /\ InProgress(r, id)) => Busy(r, id)' /\ InProgress(r, id)'
    BY <2>1, <2>2 DEF InProgress, Busy, NoRows
  <2> QED BY <1>b, <2>0, <2>1, <2>2, <2>3
<1>8. ASSUME NEW r \in Requests, Drop(r) \/ Forget(r) PROVE AgreeInv'
  <2>0. PICK id : id = req[r].id
    OBVIOUS
  <2>1. /\ req[r].pc \in {"drop", "forget"} /\ skills' = skills \ {id}
        /\ req' = [req EXCEPT ![r] = Idle] /\ UNCHANGED <<object, rows, askers, tainted>>
    BY <1>8, <2>0 DEF Drop, Forget, Answer
  <2>2. req'[r].pc = "idle" /\ \A s \in Requests \ {r} : req'[s] = req[s]
    BY <1>t, <2>0, <2>1 DEF Idle
  <2>3. req[r].pc = "drop" => req[r].op \in {"create", "update"}
    BY DEF RegistryProper, RequestsProper
  <2>4. InProgress(r, id) => (OneTenant(id) => NoRows(id))
    BY <2>1, <2>3 DEF InProgress
  <2>5. InProgress(r, id) => IdleAgree(id)'
    BY <2>1, <2>4 DEF IdleAgree, NoRows, RowsAgree, OneTenant
  <2> QED BY <1>b, <2>0, <2>1, <2>2, <2>5
<1>9. ASSUME NEW r \in Requests, StatementFails(r) PROVE AgreeInv'
  <2>0. PICK id : id = req[r].id
    OBVIOUS
  <2>1. /\ req[r].pc \in {"upsert", "delete"} /\ tainted' = tainted \cup {id}
        /\ req' = [req EXCEPT ![r] = Idle] /\ UNCHANGED <<object, skills, rows, askers>>
    BY <1>9, <2>0 DEF StatementFails, Answer
  <2>2. req'[r].pc = "idle" /\ \A s \in Requests \ {r} : req'[s] = req[s]
    BY <1>t, <2>0, <2>1 DEF Idle
  <2> QED BY <1>b, <2>0, <2>1, <2>2
<1>10. ASSUME NEW r \in Requests, DeleteRow(r, linked) PROVE AgreeInv'
  <2>0. PICK id, t : id = req[r].id /\ t = req[r].tenant
    OBVIOUS
  <2>1. /\ req[r].pc = "delete" /\ rows' = [rows EXCEPT ![t][id] = None]
        /\ req' = [req EXCEPT ![r].pc = "forget"]
        /\ UNCHANGED <<object, skills, askers, tainted>>
    BY <1>10, <2>0 DEF DeleteRow, Goto
  <2>2. /\ req'[r].pc = "forget" /\ req'[r].op = req[r].op /\ req'[r].id = id
        /\ \A s \in Requests \ {r} : req'[s] = req[s]
    BY <1>t, <2>0, <2>1
  <2>3. id \in SkillIds /\ t \in askers[id] /\ t \in Tenants /\ req[r].op = "delete"
    BY <1>t, <2>0, <2>1 DEF RegistryProper, RequestsProper
  <2>4. /\ rows'[t][id] = None
        /\ \A u \in Tenants \ {t} : rows'[u][id] = rows[u][id]
        /\ \A u \in Tenants, i \in SkillIds \ {id} : rows'[u][i] = rows[u][i]
    BY <1>t, <2>0, <2>1, <2>3
  <2>5. ASSUME InProgress(r, id) PROVE Busy(r, id)' /\ InProgress(r, id)'
    <3>1. ASSUME OneTenant(id), NEW u \in Tenants \ {t} PROVE rows'[u][id] = None
      <4>1. u \notin askers[id]
        BY <2>3, <3>1 DEF OneTenant
      <4> QED BY <2>3, <2>4, <4>1 DEF RegistryProper, RowsAsked
    <3>2. OneTenant(id)' => NoRows(id)'
      BY <2>1, <2>4, <3>1 DEF OneTenant, NoRows
    <3>3. id \in skills'
      BY <2>1, <2>5 DEF InProgress
    <3> QED BY <2>2, <2>3, <3>2, <3>3 DEF InProgress, Busy
  <2> QED BY <1>b, <2>0, <2>1, <2>2, <2>4, <2>5
<1>11. ASSUME NEW r \in Requests, InUse(r, linked) PROVE AgreeInv'
  <2>0. PICK id : id = req[r].id
    OBVIOUS
  <2>1. /\ req[r].pc = "delete" /\ req' = [req EXCEPT ![r] = Idle]
        /\ UNCHANGED <<object, skills, rows, askers, tainted>>
    BY <1>11, <2>0 DEF InUse, Answer
  <2>2. req'[r].pc = "idle" /\ \A s \in Requests \ {r} : req'[s] = req[s]
    BY <1>t, <2>0, <2>1 DEF Idle
  <2>3. InProgress(r, id) => IdleAgree(id)'
    BY <2>1 DEF InProgress, IdleAgree, RowsAgree, OneTenant
  <2> QED BY <1>b, <2>0, <2>1, <2>2, <2>3
<1>12. CASE Restart
  <2> SUFFICES ASSUME NEW i \in SkillIds, i \notin tainted' PROVE Agree(i)'
    BY DEF AgreeInv
  <2>1. /\ skills' = {} /\ UNCHANGED rows /\ object[i] = None
        /\ \A r \in Requests : req'[r] = Idle
    BY <1>12 DEF Restart
  <2>2. NoRows(i)'
    BY <2>1 DEF RegistryProper, NoTraceBefore, NoRows
  <2>3. IdleAgree(i)'
    BY <2>1, <2>2 DEF IdleAgree, NoRows, RowsAgree
  <2>4. \A r \in Requests : ~ Busy(r, i)'
    BY <2>1 DEF Busy, Idle
  <2> QED BY <2>3, <2>4 DEF Agree, OneAtATime
<1> QED
  BY <1>1, <1>2, <1>3, <1>4, <1>5, <1>6, <1>7, <1>8, <1>9, <1>10, <1>11, <1>12 DEF RegistryNext

\* An update that has read a workspace has the configuration of an existing one in
\* hand; identifiers are not used again.
EditsProper ==
    \A e \in Editors : edit[e].pc = "write" =>
        edit[e].model \in Models /\ edit[e].read \in WsIds /\ ws[edit[e].read] # None

CatalogProper == TypeOK /\ RegistryProper /\ EditsProper

\* Type correctness of the configuration of a tenant: requests on skills always
\* have a skill that was created in hand, and links, workspaces and the updates of
\* workspaces in flight are well formed.
THEOREM TypeCorrect == Spec => [](TypeOK /\ RegistryProper /\ EditsProper)
<1>1. Init => CatalogProper
  BY IdleTyped, BoundsAssumption
  DEF Init, RegistryInit, CatalogProper, EditsProper, TypeOK, RegistryProper, RegistryTypeOK, RequestsProper, NoTraceBefore, RowsAsked,
      Idle, NoEdit
<1>2. CatalogProper /\ [Next]_vars => CatalogProper'
  <2> SUFFICES ASSUME CatalogProper, [Next]_vars PROVE CatalogProper'
    OBVIOUS
  <2>u. ASSUME UNCHANGED registryVars PROVE RegistryProper'
    BY <2>u DEF CatalogProper, registryVars, RegistryProper, RegistryTypeOK, RequestsProper, NoTraceBefore, RowsAsked
  <2>l. \A t \in Tenants : Linkable(t) \subseteq SkillIds \cup WsIds
    BY DEF Linkable
  <2>t. \A a \in AgentIds : TenantOf[a] \in Tenants
    BY TenantOfAssumption
  <2>n. NoEdit \in [pc : {"idle", "write"}, name : WsNames \cup {None},
                    read : WsIds \cup {None}, model : Models \cup {None}]
    BY DEF NoEdit
  <2> USE IdsAssumption DEF TypeOK, CatalogProper, EditsProper
  <2>1. CASE RegistryNext(Linked) /\ UNCHANGED <<agentVars, wsVars>>
    BY <2>1, RegistryStep DEF agentVars, wsVars, RegistryProper
  <2>2. ASSUME NEW a \in AgentIds, NEW n \in AgentNames,
               NEW x \in SUBSET Linkable(TenantOf[a]),
               CreateAgent(a, n, x) \/ UpdateAgent(a, n, x)
        PROVE  CatalogProper'
    BY <2>2, <2>u, <2>l, <2>t DEF CreateAgent, UpdateAgent, wsVars, RegistryProper
  <2>3. ASSUME NEW a \in AgentIds, DeleteAgent(a) PROVE CatalogProper'
    BY <2>3, <2>u DEF DeleteAgent, wsVars, RegistryProper
  <2>4. ASSUME NEW w \in WsIds, NEW n \in WsNames, NEW m \in Models, CreateWorkspace(w, n, m)
        PROVE  CatalogProper'
    BY <2>4, <2>u DEF CreateWorkspace, agentVars, RegistryProper
  <2>5. ASSUME NEW e \in Editors, NEW w \in WsIds, ReadWorkspace(e, w)
        PROVE  CatalogProper'
    <3>1. ws[w] \in [name : WsNames, model : Models]
      BY <2>5 DEF ReadWorkspace, Exists
    <3> QED BY <2>5, <2>u, <3>1 DEF ReadWorkspace, agentVars, RegistryProper
  <2>6. ASSUME NEW e \in Editors, WriteWorkspace(e) PROVE CatalogProper'
    <3>1. \A w \in Hit(e) : ws[w] \in [name : WsNames, model : Models]
      BY DEF Hit, Exists
    <3>2. /\ ws' \in [WsIds -> [name : WsNames, model : Models] \cup {None, Gone}]
          /\ \A w \in WsIds : ws[w] # None => ws'[w] # None
      BY <2>6, <3>1 DEF WriteWorkspace
    <3>3. edit' = [edit EXCEPT ![e] = NoEdit] /\ NoEdit.pc = "idle"
      BY <2>6 DEF WriteWorkspace, NoEdit
    <3>4. EditsProper'
      BY <3>2, <3>3
    <3>5. crossed' \subseteq WsIds
      BY <2>6 DEF WriteWorkspace, Hit
    <3> QED BY <2>6, <2>u, <2>n, <3>2, <3>3, <3>4, <3>5
            DEF WriteWorkspace, agentVars, RegistryProper
  <2>7. ASSUME NEW w \in WsIds, DeleteWorkspace(w) PROVE CatalogProper'
    <3>1. Gone # None
      BY DEF Gone
    <3> QED BY <2>7, <2>u, <3>1 DEF DeleteWorkspace, agentVars, RegistryProper
  <2>8. CASE UNCHANGED vars
    BY <2>8, <2>u DEF vars, agentVars, wsVars, RegistryProper
  <2> QED
    BY <2>1, <2>2, <2>3, <2>4, <2>5, <2>6, <2>7, <2>8 DEF Next
<1> QED
  BY <1>1, <1>2, PTL DEF Spec, CatalogProper

-----------------------------------------------------------------------------
\* The steps that are not the registry's leave it alone.
LEMMA RegistryOrNot ==
    ASSUME [Next]_vars
    PROVE  RegistryNext(Linked) \/ UNCHANGED registryVars
BY DEF Next, vars, CreateAgent, UpdateAgent, DeleteAgent, CreateWorkspace, ReadWorkspace,
       WriteWorkspace, DeleteWorkspace

LEMMA AgreeInvHolds == Spec => []AgreeInv
<1>1. Init => AgreeInv
  BY DEF Init, RegistryInit, AgreeInv, Agree, IdleAgree, OneAtATime, OneTenant, RowsAgree, NoRows,
         Busy, Idle
<1>2. RegistryProper /\ AgreeInv /\ [Next]_vars => AgreeInv'
  <2> SUFFICES ASSUME RegistryProper, AgreeInv, [Next]_vars PROVE AgreeInv'
    OBVIOUS
  <2>1. CASE RegistryNext(Linked)
    BY <2>1, AgreeStep
  <2>2. CASE UNCHANGED registryVars
    <3> SUFFICES ASSUME NEW id \in SkillIds \ tainted PROVE Agree(id)'
      BY <2>2 DEF registryVars, AgreeInv
    <3> QED BY <2>2, Untouched DEF registryVars, AgreeInv
  <2> QED BY <2>1, <2>2, RegistryOrNot
<1> QED
  BY <1>1, <1>2, TypeCorrect, PTL DEF Spec

\* Register and Remove of registry.go, for any tenants and any number of requests on any
\* number of skills, but for what "tainted" records: what the map holds has a row in some
\* tenant's table, and what the only tenant that ever asked for it has in its table is in
\* the map under the same name.  A second tenant that asks can break the latter and not
\* the former.
THEOREM RegistryAgreement == Spec => []RegistryAgrees
<1>1. RegistryProper /\ AgreeInv => RegistryAgrees
  <2> SUFFICES ASSUME RegistryProper, AgreeInv, NEW id \in SkillIds \ tainted, InFlight(id) = {}
               PROVE  /\ Served(id) => \E t \in Tenants : rows[t][id] = object[id]
                      /\ OneTenant(id) =>
                           \A t \in Tenants :
                             rows[t][id] # None => Served(id) /\ rows[t][id] = object[id]
    BY DEF RegistryAgrees
  <2>1. IdleAgree(id)
    BY DEF AgreeInv, Agree, InFlight, Busy
  <2> QED BY <2>1 DEF IdleAgree, RowsAgree, NoRows, Served
<1> QED
  BY <1>1, TypeCorrect, AgreeInvHolds, PTL

-----------------------------------------------------------------------------
\* The foreign key of agent_skills: a skill that is linked has its row, in the schema of
\* the agent.
LinkedHasRow ==
    \A a \in AgentIds : \A id \in links[a] \cap SkillIds : rows[TenantOf[a]][id] # None

LEMMA LinkedHasRowHolds == Spec => []LinkedHasRow
<1>1. Init => LinkedHasRow
  BY DEF Init, LinkedHasRow
<1>2. CatalogProper /\ LinkedHasRow /\ [Next]_vars => LinkedHasRow'
  <2> SUFFICES ASSUME CatalogProper, LinkedHasRow, [Next]_vars PROVE LinkedHasRow'
    OBVIOUS
  <2> USE IdsAssumption DEF CatalogProper, TypeOK, LinkedHasRow
  <2>t. \A a \in AgentIds : TenantOf[a] \in Tenants
    BY TenantOfAssumption
  <2>1. ASSUME RegistryNext(Linked), UNCHANGED agentVars PROVE LinkedHasRow'
    <3>1. ASSUME NEW r \in Requests, Upsert(r) PROVE LinkedHasRow'
      <4>1. req[r].name # None /\ req[r].id \in SkillIds
        BY <3>1, NoneAssumption DEF Upsert, RegistryProper, RequestsProper
      <4>2. /\ rows' = [rows EXCEPT ![req[r].tenant][req[r].id] = req[r].name]
            /\ rows \in [Tenants -> [SkillIds -> Names \cup {None}]] /\ links' = links
        BY <2>1, <3>1 DEF Upsert, agentVars, RegistryProper, RegistryTypeOK
      <4>3. \A t \in Tenants, id \in SkillIds : rows[t][id] # None => rows'[t][id] # None
        BY <4>1, <4>2
      <4> QED BY <2>t, <4>2, <4>3
    <3>2. ASSUME NEW r \in Requests, DeleteRow(r, Linked) PROVE LinkedHasRow'
      <4>1. /\ rows' = [rows EXCEPT ![req[r].tenant][req[r].id] = None]
            /\ rows \in [Tenants -> [SkillIds -> Names \cup {None}]] /\ links' = links
            /\ <<req[r].tenant, req[r].id>> \notin Linked
        BY <2>1, <3>2 DEF DeleteRow, agentVars, RegistryProper, RegistryTypeOK
      <4>2. SUFFICES ASSUME NEW a \in AgentIds, NEW id \in links[a] \cap SkillIds
                     PROVE  rows'[TenantOf[a]][id] # None
        BY <4>1
      <4>3. rows[TenantOf[a]][id] # None
        OBVIOUS
      <4>4. <<TenantOf[a], id>> \in Linked
        BY DEF Linked
      <4>5. TenantOf[a] # req[r].tenant \/ id # req[r].id
        BY <4>1, <4>4
      <4> QED BY <2>t, <4>1, <4>3, <4>5
    <3>3. CASE UNCHANGED rows
      BY <2>1, <3>3 DEF agentVars
    <3>4. \/ \E r \in Requests : Upsert(r) \/ DeleteRow(r, Linked)
          \/ UNCHANGED rows
      BY <2>1 DEF RegistryNext, CreateSkill, UpdateSkill, DeleteSkill, Store, ReadObject, Conflict,
                  Drop, StatementFails, InUse, Forget, Restart
    <3> QED BY <3>1, <3>2, <3>3, <3>4
  <2>2. ASSUME NEW a \in AgentIds, NEW n \in AgentNames,
               NEW x \in SUBSET Linkable(TenantOf[a]),
               CreateAgent(a, n, x) \/ UpdateAgent(a, n, x)
        PROVE  LinkedHasRow'
    BY <2>2 DEF CreateAgent, UpdateAgent, Linkable, registryVars
  <2>3. ASSUME NEW a \in AgentIds, DeleteAgent(a) PROVE LinkedHasRow'
    BY <2>3 DEF DeleteAgent, registryVars
  <2>4. CASE UNCHANGED <<registryVars, agentVars>>
    BY <2>4 DEF registryVars, agentVars
  <2> QED
    BY <2>1, <2>2, <2>3, <2>4
    DEF Next, vars, CreateWorkspace, ReadWorkspace, WriteWorkspace, DeleteWorkspace
<1> QED
  BY <1>1, <1>2, TypeCorrect, PTL DEF Spec, CatalogProper

\* What an agent is linked to can be run: replaceSkills checks the table only, and in no
\* state a row of the tenant is there while the entry of the process is not, but for the
\* skills something out of order has happened to and those another tenant has asked for.
THEOREM LinkedAreServed == Spec => []LinkedIsServed
<1>1. RegistryProper /\ AgreeInv /\ LinkedHasRow => LinkedIsServed
  <2> SUFFICES ASSUME RegistryProper, AgreeInv, LinkedHasRow,
                      NEW a \in AgentIds, NEW id \in links[a] \cap SkillIds,
                      id \notin tainted, OneTenant(id)
               PROVE  id \in skills
    BY DEF LinkedIsServed, Served
  <2>1. ~ NoRows(id)
    BY TenantOfAssumption DEF LinkedHasRow, NoRows
  <2>2. CASE \A r \in Requests : ~ Busy(r, id)
    BY <2>1, <2>2 DEF AgreeInv, Agree, IdleAgree
  <2>3. ASSUME NEW r \in Requests, Busy(r, id) PROVE id \in skills
    <3>1. InProgress(r, id)
      BY <2>3 DEF AgreeInv, Agree
    <3>2. req[r].op \in {"create", "update", "delete"}
          /\ (req[r].op = "delete" => req[r].pc \in {"delete", "forget"})
      BY <2>3 DEF Busy, RegistryProper, RegistryTypeOK, RequestsProper
    <3> QED BY <2>1, <3>1, <3>2 DEF InProgress
  <2> QED BY <2>2, <2>3
<1> QED
  BY <1>1, TypeCorrect, AgreeInvHolds, LinkedHasRowHolds, PTL

-----------------------------------------------------------------------------
\* An update in flight carries the model of the workspace it has read, as long as
\* no update of another workspace was written to that one.
CarriesOwnModel ==
    \A e \in Editors : \A w \in WsIds \ crossed :
        (edit[e].pc = "write" /\ edit[e].read = w /\ Exists(w)) => edit[e].model = ws[w].model

LEMMA CarriesOwnModelHolds == Spec => []CarriesOwnModel
<1>1. Init => CarriesOwnModel
  BY DEF Init, NoEdit, CarriesOwnModel
<1>2. CatalogProper /\ CarriesOwnModel /\ [Next]_vars => CarriesOwnModel'
  <2> SUFFICES ASSUME CatalogProper, CarriesOwnModel, [Next]_vars PROVE CarriesOwnModel'
    OBVIOUS
  <2> USE IdsAssumption DEF CatalogProper, TypeOK, EditsProper, CarriesOwnModel
  <2>1. CASE UNCHANGED wsVars
    BY <2>1 DEF wsVars, Exists
  <2>2. ASSUME NEW w \in WsIds, NEW n \in WsNames, NEW m \in Models, CreateWorkspace(w, n, m)
        PROVE  CarriesOwnModel'
    BY <2>2 DEF CreateWorkspace, Exists
  <2>3. ASSUME NEW e \in Editors, NEW w \in WsIds, ReadWorkspace(e, w)
        PROVE  CarriesOwnModel'
    BY <2>3 DEF ReadWorkspace, Exists
  <2>4. ASSUME NEW e \in Editors, WriteWorkspace(e) PROVE CarriesOwnModel'
    <3> SUFFICES ASSUME NEW f \in Editors, NEW w \in WsIds, w \notin crossed',
                        edit'[f].pc = "write", edit'[f].read = w, Exists(w)'
                 PROVE  edit'[f].model = ws'[w].model
      OBVIOUS
    <3>1. edit'[f] = edit[f] /\ f # e
      BY <2>4 DEF WriteWorkspace, NoEdit
    <3>2. w \notin crossed /\ (w \in Hit(e) => edit[e].read = w)
      BY <2>4 DEF WriteWorkspace
    <3>3. CASE w \notin Hit(e)
      BY <2>4, <3>1, <3>2, <3>3 DEF WriteWorkspace, Exists
    <3>4. CASE w \in Hit(e)
      <4>1. Exists(w) /\ ws[w] \in [name : WsNames, model : Models]
        BY <3>4 DEF Hit, Exists
      <4>2. edit[e].model = ws[w].model /\ edit[f].model = ws[w].model
        BY <2>4, <3>1, <3>2, <3>4, <4>1 DEF WriteWorkspace
      <4>3. ws'[w].model = edit[e].model
        BY <2>4, <3>4, <4>1 DEF WriteWorkspace
      <4> QED BY <3>1, <4>2, <4>3
    <3> QED BY <3>3, <3>4
  <2>5. ASSUME NEW w \in WsIds, DeleteWorkspace(w) PROVE CarriesOwnModel'
    BY <2>5 DEF DeleteWorkspace, Exists
  <2> QED
    BY <2>1, <2>2, <2>3, <2>4, <2>5 DEF Next, vars, CreateAgent, UpdateAgent, DeleteAgent
<1> QED
  BY <1>1, <1>2, TypeCorrect, PTL DEF Spec, CatalogProper

\* UpdateWorkspace keeps its promise "embedding_model is immutable after creation",
\* for any number of updates in flight, until one of them is written to a workspace
\* other than the one it has read.
THEOREM ModelStaysFixed == Spec => ModelIsFixed
<1> DEFINE Fixed == \A w \in WsIds :
             (Exists(w) /\ Exists(w)' /\ ws'[w].model # ws[w].model) => w \in crossed'
<1>1. CatalogProper /\ CarriesOwnModel /\ [Next]_vars => [Fixed]_vars
  <2> SUFFICES ASSUME CatalogProper, CarriesOwnModel, [Next]_vars PROVE Fixed \/ UNCHANGED vars
    OBVIOUS
  <2> USE IdsAssumption DEF CatalogProper, TypeOK, CarriesOwnModel
  <2>1. ASSUME NEW e \in Editors, WriteWorkspace(e) PROVE Fixed
    <3> SUFFICES ASSUME NEW w \in WsIds, Exists(w), Exists(w)', ws'[w].model # ws[w].model
                 PROVE  w \in crossed'
      OBVIOUS
    <3>1. w \in Hit(e)
      BY <2>1 DEF WriteWorkspace
    <3>2. ws[w] \in [name : WsNames, model : Models]
      BY DEF Exists
    <3>3. ws'[w].model = edit[e].model
      BY <2>1, <3>1, <3>2 DEF WriteWorkspace
    <3>4. CASE edit[e].read = w
      BY <2>1, <3>1, <3>3, <3>4 DEF WriteWorkspace
    <3>5. CASE edit[e].read # w
      BY <2>1, <3>1, <3>5 DEF WriteWorkspace
    <3> QED BY <3>4, <3>5
  <2>2. ASSUME NEW w \in WsIds, NEW n \in WsNames, NEW m \in Models, CreateWorkspace(w, n, m)
        PROVE  Fixed
    BY <2>2 DEF CreateWorkspace, Exists
  <2>3. ASSUME NEW w \in WsIds, DeleteWorkspace(w) PROVE Fixed
    BY <2>3 DEF DeleteWorkspace, Exists
  <2>4. CASE UNCHANGED ws
    BY <2>4
  <2> QED
    BY <2>1, <2>2, <2>3, <2>4
    DEF Next, vars, wsVars, CreateAgent, UpdateAgent, DeleteAgent, ReadWorkspace
<1> QED
  BY <1>1, TypeCorrect, CarriesOwnModelHolds, PTL DEF Spec, CatalogProper, ModelIsFixed

-----------------------------------------------------------------------------
(***************************************************************************)
(* The MCP manager.  Its types, what an eviction makes of the size of the    *)
(* cache, and that a server is registered and its row written in one step.   *)
(***************************************************************************)

\* An entry that is put into the cache by Store, StoreTools or StoreResources.
LEMMA EntriesTyped ==
    /\ IdleLister \in Lister
    /\ \A tools, resources \in Clients \cup {Absent} :
         [tools |-> tools, resources |-> resources, ttl |-> TTL] \in Entry
    /\ \A e \in Entry, c \in Clients :
         [e EXCEPT !.tools = c, !.ttl = TTL] \in Entry /\ [e EXCEPT !.resources = c, !.ttl = TTL] \in Entry
<1>1. IdleLister \in Lister
  BY DEF IdleLister, Lister
<1>2. TTL \in 0 .. TTL
  BY TTLAssumption
<1>3. \A tools, resources \in Clients \cup {Absent} :
        [tools |-> tools, resources |-> resources, ttl |-> TTL] \in Entry
  BY <1>2 DEF Entry
<1>4. \A e \in Entry, c \in Clients :
        [e EXCEPT !.tools = c, !.ttl = TTL] \in Entry /\ [e EXCEPT !.resources = c, !.ttl = TTL] \in Entry
  BY <1>2 DEF Entry
<1> QED BY <1>1, <1>3, <1>4

\* StoreTools and StoreResources put one entry, and an eviction makes room for it
\* unless the server has an entry already.
LEMMA StoreListPuts ==
    ASSUME ManagerTypeOK, NEW s \in Servers, NEW c \in Clients,
           NEW what \in {"tools", "resources"}, StoreList(s, c, what)
    PROVE  \E e \in Entry : \/ s \in Cached /\ Put(s, Absent, e)
                            \/ \E k \in Evictions : Put(s, k, e)
<1> DEFINE new == [tools |-> Absent, resources |-> Absent, ttl |-> TTL]
           old == IF s \in Cached THEN cache[s] ELSE new
           e   == IF what = "tools" THEN [old EXCEPT !.tools = c, !.ttl = TTL]
                                    ELSE [old EXCEPT !.resources = c, !.ttl = TTL]
<1>1. new \in Entry
  BY EntriesTyped
<1>2. old \in Entry
  BY <1>1 DEF ManagerTypeOK, Cached
<1>3. e \in Entry
  <2> HIDE DEF old
  <2> QED BY <1>2, EntriesTyped
<1>4. IF s \in Cached THEN Put(s, Absent, e) ELSE \E k \in Evictions : Put(s, k, e)
  BY DEF StoreList
<1> HIDE DEF e
<1> QED BY <1>3, <1>4

\* A put keeps the types.
LEMMA PutTyped ==
    ASSUME NEW s \in Servers, NEW k, NEW e \in Entry, Put(s, k, e),
           cache \in [Servers -> Entry \cup {Absent}]
    PROVE  cache' \in [Servers -> Entry \cup {Absent}]
BY DEF Put

\* Type correctness of the manager: a list call under way has a client to talk to, and
\* what is cached was read from a client.
LEMMA ManagerTypeStep == ManagerTypeOK /\ [ManagerNext]_managerVars => ManagerTypeOK'
<1> SUFFICES ASSUME ManagerTypeOK, [ManagerNext]_managerVars
             PROVE  ManagerTypeOK'
  OBVIOUS
<1> USE AbsentAssumption, RestartBoundAssumption DEF ManagerTypeOK
<1>0. ASSUME NEW s \in Servers, NEW c \in Clients, NEW tools \in {c, Absent},
             NEW resources \in {c, Absent}, ConnectBegin(s, c, tools, resources)
      PROVE  /\ cache' \in [Servers -> Entry \cup {Absent}]
             /\ conn' \in [Clients -> {"unused", "connected", "closed"}]
             /\ pending' \in [server : Servers, client : Clients] \cup {Absent}
  <2>1. PICK k \in Evictions :
          Put(s, k, [tools |-> tools, resources |-> resources, ttl |-> TTL])
    BY <1>0 DEF ConnectBegin, CacheStore
  <2>2. [tools |-> tools, resources |-> resources, ttl |-> TTL] \in Entry
    BY EntriesTyped
  <2>3. cache' \in [Servers -> Entry \cup {Absent}]
    BY <2>1, <2>2, PutTyped
  <2> QED BY <2>3, <1>0 DEF ConnectBegin
<1>1. ASSUME NEW s \in Servers, NEW c \in Clients, NEW tools \in {c, Absent},
             NEW resources \in {c, Absent},
             Connect(s, c, tools, resources) \/ RestoreNext(s, c, tools, resources)
      PROVE  ManagerTypeOK'
  <2>1. ConnectBegin(s, c, tools, resources) /\ restore' \in SUBSET Servers
    BY <1>1 DEF Connect, RestoreNext
  <2> QED BY <2>1, <1>0 DEF ConnectBegin
<1>2. ASSUME NEW ok \in Outcomes, ConnectPersist(ok)
      PROVE  ManagerTypeOK'
  <2>1. pending.server \in Servers /\ pending.client \in Clients
    BY <1>2 DEF ConnectPersist, Unlocked
  <2> QED BY <1>2, <2>1 DEF ConnectPersist
<1>3. ASSUME NEW ok \in Outcomes, NEW s \in Servers, Disconnect(s, ok)
      PROVE  ManagerTypeOK'
  BY <1>3 DEF Disconnect
<1>4. ASSUME NEW ok \in Outcomes, NEW s \in Servers, NEW c \in Clients,
             CheckConnect(s, c, ok)
      PROVE  ManagerTypeOK'
  BY <1>4 DEF CheckConnect
<1>5. ASSUME NEW l \in Listers, NEW s \in Servers, ListHit(l, s)
      PROVE  ManagerTypeOK'
  <2>1. [IdleLister EXCEPT !.server = s] \in Lister
    BY DEF IdleLister, Lister
  <2> QED BY <1>5, <2>1 DEF ListHit
<1>6. ASSUME NEW l \in Listers, NEW s \in Servers, NEW what \in {"tools", "resources"},
             ListMiss(l, s, what)
      PROVE  ManagerTypeOK'
  <2>1. [pc |-> "call", server |-> s, client |-> clients[s], what |-> what] \in Lister
    BY <1>6 DEF ListMiss, Lister
  <2> QED BY <1>6, <2>1 DEF ListMiss
<1>7. ASSUME NEW l \in Listers, NEW ok \in BOOLEAN, ListCall(l, ok)
      PROVE  ManagerTypeOK'
  <2>1. IdleLister \in Lister /\ [lister[l] EXCEPT !.pc = "store"] \in Lister
    BY <1>7, EntriesTyped DEF ListCall, Lister
  <2> QED BY <1>7, <2>1 DEF ListCall
<1>8. ASSUME NEW l \in Listers, ListStore(l)
      PROVE  ManagerTypeOK'
  <2>1. /\ lister[l].server \in Servers /\ lister[l].client \in Clients
        /\ lister[l].what \in {"tools", "resources"}
    BY <1>8 DEF ListStore, Lister
  <2>2. StoreList(lister[l].server, lister[l].client, lister[l].what)
    BY <1>8 DEF ListStore
  <2>3. PICK e \in Entry : \E k : Put(lister[l].server, k, e)
    BY <2>1, <2>2, StoreListPuts
  <2>4. cache' \in [Servers -> Entry \cup {Absent}]
    BY <2>1, <2>3, PutTyped
  <2> QED BY <1>8, <2>4, EntriesTyped DEF ListStore
<1>9. CASE CheckBegin
  BY <1>9 DEF CheckBegin
<1>10. CASE Stop
  BY <1>10 DEF Stop
<1>11. CASE ManagerRestart
  <2>1. lister' \in [Listers -> Lister] /\ cache' \in [Servers -> Entry \cup {Absent}]
    BY <1>11, EntriesTyped DEF ManagerRestart, NoEntry
  <2>2. restarts' \in 0 .. RestartBound
    BY <1>11 DEF ManagerRestart
  <2> QED BY <1>11, <2>1, <2>2 DEF ManagerRestart
<1>12. ASSUME NEW s \in Servers, RestoreFails(s)
       PROVE  ManagerTypeOK'
  BY <1>12 DEF RestoreFails
<1>13. CASE Tick
  <2>1. \A s \in Cached : cache[s] \in Entry
    BY DEF Cached
  <2>2. \A e \in Entry : e.ttl > 0 => [e EXCEPT !.ttl = @ - 1] \in Entry
    BY TTLAssumption DEF Entry
  <2>3. cache' \in [Servers -> Entry \cup {Absent}]
    BY <1>13, <2>1, <2>2 DEF Tick
  <2> QED BY <1>13, <2>3 DEF Tick
<1>14. ASSUME NEW s \in Servers, NEW c \in Clients, CheckLook(s, c)
       PROVE  ManagerTypeOK'
  BY <1>14 DEF CheckLook
<1>15. CASE UNCHANGED managerVars
  BY <1>15 DEF managerVars
<1> QED
  BY <1>1, <1>2, <1>3, <1>4, <1>5, <1>6, <1>7, <1>8, <1>9, <1>10, <1>11, <1>12, <1>13, <1>14,
     <1>15
  DEF ManagerNext, ListerStep

\* The manager's state is well formed for any servers, clients and calls.
THEOREM ManagerTypeCorrect == ManagerSpec => []ManagerTypeOK
<1>1. ManagerInit => ManagerTypeOK
  <2> SUFFICES ASSUME ManagerInit PROVE ManagerTypeOK
    OBVIOUS
  <2>1. lister \in [Listers -> Lister] /\ cache \in [Servers -> Entry \cup {Absent}]
    BY EntriesTyped DEF ManagerInit, NoEntry
  <2>2. restarts \in 0 .. RestartBound
    BY RestartBoundAssumption DEF ManagerInit
  <2> QED BY <2>1, <2>2 DEF ManagerInit, ManagerTypeOK
<1> QED BY <1>1, ManagerTypeStep, PTL DEF ManagerSpec

-----------------------------------------------------------------------------
\* The size of the cache, which is finite because entries come one at a time.
CacheRoom == IsFiniteSet(Cached) /\ CacheBounded

\* An eviction makes room for one entry when there is none.
LEMMA PutFits ==
    ASSUME CacheRoom, NEW s \in Servers, NEW e, NEW k \in Evictions, Put(s, k, e)
    PROVE  CacheRoom'
<1> USE SizeAssumption
<1>0. Cardinality(Cached) \in Nat /\ Cardinality(Cached) <= MaxSize /\ IsFiniteSet(Cached)
  BY FS_CardinalityType DEF CacheRoom, CacheBounded
<1>1. \A T : IsFiniteSet(T) /\ Cardinality(T) <= MaxSize /\ Cached' \subseteq T => CacheRoom'
  <2> SUFFICES ASSUME NEW T, IsFiniteSet(T), Cardinality(T) <= MaxSize, Cached' \subseteq T
               PROVE  CacheRoom'
    OBVIOUS
  <2>1. IsFiniteSet(Cached') /\ Cardinality(Cached') <= Cardinality(T)
    BY FS_Subset
  <2>2. Cardinality(Cached') \in Nat /\ Cardinality(T) \in Nat
    BY <2>1, FS_CardinalityType
  <2> QED BY <2>1, <2>2 DEF CacheRoom, CacheBounded
<1>2. CASE Cardinality(Cached) < MaxSize
  <2>1. Cached' \subseteq Cached \cup {s}
    BY DEF Put, Cached
  <2>2. IsFiniteSet(Cached \cup {s}) /\ Cardinality(Cached \cup {s}) <= MaxSize
    <3>1. /\ IsFiniteSet(Cached \cup {s})
          /\ \/ Cardinality(Cached \cup {s}) = Cardinality(Cached)
             \/ Cardinality(Cached \cup {s}) = Cardinality(Cached) + 1
      BY <1>0, FS_AddElement
    <3> QED BY <3>1, <1>0, <1>2
  <2> QED BY <1>1, <2>1, <2>2
<1>3. CASE Cardinality(Cached) = MaxSize
  <2>1. k \in Cached
    BY <1>3, <1>0 DEF Evictions
  <2>2. CASE k = s
    <3>1. Cached' \subseteq Cached
      BY <2>1, <2>2 DEF Put, Cached
    <3> QED BY <1>0, <1>1, <3>1
  <2>3. CASE k # s
    <3> DEFINE Kept == Cached \ {k}
    <3>1. Cached' \subseteq Kept \cup {s}
      BY <2>3 DEF Put, Cached
    <3>2. IsFiniteSet(Kept) /\ Cardinality(Kept) = MaxSize - 1
      BY <1>0, <1>3, <2>1, FS_RemoveElement
    <3>3. IsFiniteSet(Kept \cup {s}) /\ Cardinality(Kept \cup {s}) <= MaxSize
      <4> HIDE DEF Kept
      <4> QED BY <3>2, FS_AddElement
    <3> QED BY <1>1, <3>1, <3>3
  <2> QED BY <2>2, <2>3
<1> QED BY <1>0, <1>2, <1>3

\* What only takes entries away, or renews one.
LEMMA ShrinkFits ==
    ASSUME CacheRoom, Cached' \subseteq Cached
    PROVE  CacheRoom'
<1>1. IsFiniteSet(Cached') /\ Cardinality(Cached') <= Cardinality(Cached)
  BY FS_Subset DEF CacheRoom
<1>2. Cardinality(Cached') \in Nat /\ Cardinality(Cached) \in Nat
  BY <1>1, FS_CardinalityType DEF CacheRoom
<1> QED BY <1>1, <1>2, SizeAssumption DEF CacheRoom, CacheBounded

\* The cache never outgrows its limit, whoever adds entries to it and in whichever order.
THEOREM CacheStaysBounded == ManagerSpec => []CacheBounded
<1>1. ManagerInit => CacheRoom
  <2> SUFFICES ASSUME ManagerInit PROVE CacheRoom
    OBVIOUS
  <2>1. Cached = {}
    BY DEF ManagerInit, Cached, NoEntry
  <2> QED BY <2>1, FS_EmptySet, SizeAssumption DEF CacheRoom, CacheBounded
<1>2. ManagerTypeOK /\ CacheRoom /\ [ManagerNext]_managerVars => CacheRoom'
  <2> SUFFICES ASSUME ManagerTypeOK, CacheRoom, [ManagerNext]_managerVars
               PROVE  CacheRoom'
    OBVIOUS
  <2>1. ASSUME NEW s \in Servers, NEW c \in Clients, NEW tools, NEW resources,
               Connect(s, c, tools, resources) \/ RestoreNext(s, c, tools, resources)
        PROVE  CacheRoom'
    <3>1. CacheStore(s, tools, resources)
      BY <2>1 DEF Connect, RestoreNext, ConnectBegin
    <3> QED BY <3>1, PutFits DEF CacheStore
  <2>2. ASSUME NEW l \in Listers, ListStore(l)
        PROVE  CacheRoom'
    <3>1. /\ lister[l].server \in Servers /\ lister[l].client \in Clients
          /\ lister[l].what \in {"tools", "resources"}
      BY <2>2 DEF ListStore, Lister, ManagerTypeOK
    <3> DEFINE s == lister[l].server
    <3>2. PICK e \in Entry : \/ s \in Cached /\ Put(s, Absent, e)
                             \/ \E k \in Evictions : Put(s, k, e)
      BY <2>2, <3>1, StoreListPuts DEF ListStore
    <3>3. CASE s \in Cached /\ Put(s, Absent, e)
      <4>1. Cached' \subseteq Cached
        BY <3>3 DEF Put, Cached
      <4> QED BY <4>1, ShrinkFits
    <3>4. CASE \E k \in Evictions : Put(s, k, e)
      BY <3>1, <3>4, PutFits
    <3> QED BY <3>2, <3>3, <3>4
  <2>3. ASSUME NEW ok \in Outcomes, ConnectPersist(ok) PROVE CacheRoom'
    <3>1. Cached' \subseteq Cached
      BY <2>3 DEF ConnectPersist, Cached, ManagerTypeOK
    <3> QED BY <3>1, ShrinkFits
  <2>4. ASSUME NEW ok \in Outcomes, NEW s \in Servers, Disconnect(s, ok) PROVE CacheRoom'
    <3>1. Cached' \subseteq Cached
      BY <2>4 DEF Disconnect, Cached, ManagerTypeOK
    <3> QED BY <3>1, ShrinkFits
  <2>5. CASE ManagerRestart
    <3>1. Cached' \subseteq Cached
      BY <2>5 DEF ManagerRestart, NoEntry, Cached
    <3> QED BY <3>1, ShrinkFits
  <2>6. CASE Tick
    <3>1. Cached' \subseteq Cached
      BY <2>6 DEF Tick, Cached
    <3> QED BY <3>1, ShrinkFits
  <2>7. CASE UNCHANGED cache
    <3>1. Cached' = Cached
      BY <2>7 DEF Cached
    <3> QED BY <3>1, ShrinkFits
  <2> QED
    BY <2>1, <2>2, <2>3, <2>4, <2>5, <2>6, <2>7
    DEF ManagerNext, ListerStep, CheckLook, CheckConnect, ListHit, ListMiss, ListCall, CheckBegin, Stop,
        RestoreFails, managerVars
<1>3. CacheRoom => CacheBounded
  BY DEF CacheRoom
<1> QED BY <1>1, <1>2, <1>3, ManagerTypeCorrect, PTL DEF ManagerSpec

\* A server the manager serves is enabled in the table, whatever saves fail.
THEOREM ServedArePersisted == ManagerSpec => []ServedIsPersisted
<1>1. ManagerInit => ServedIsPersisted
  BY DEF ManagerInit, ServedIsPersisted
<1>2. ManagerTypeOK /\ ServedIsPersisted /\ [ManagerNext]_managerVars => ServedIsPersisted'
  <2> SUFFICES ASSUME ManagerTypeOK, ServedIsPersisted, [ManagerNext]_managerVars
               PROVE  ServedIsPersisted'
    OBVIOUS
  <2> USE AbsentAssumption DEF ManagerTypeOK, ServedIsPersisted
  <2>1. ASSUME NEW ok \in Outcomes, ConnectPersist(ok) PROVE ServedIsPersisted'
    <3>1. pending.server \in Servers /\ pending.client \in Clients
      BY <2>1 DEF ConnectPersist, Unlocked
    <3> QED BY <2>1, <3>1 DEF ConnectPersist
  <2>2. ASSUME NEW ok \in Outcomes, NEW s \in Servers, Disconnect(s, ok)
        PROVE  ServedIsPersisted'
    BY <2>2 DEF Disconnect
  <2>3. CASE Stop \/ ManagerRestart
    BY <2>3 DEF Stop, ManagerRestart
  <2>4. CASE UNCHANGED <<clients, row>>
    BY <2>4
  <2> QED
    BY <2>1, <2>2, <2>3, <2>4
    DEF ManagerNext, ListerStep, Connect, RestoreNext, ConnectBegin, CheckLook, CheckConnect, ListHit,
        ListMiss, ListCall, ListStore, CheckBegin, RestoreFails, Tick, managerVars
<1> QED BY <1>1, <1>2, ManagerTypeCorrect, PTL DEF ManagerSpec
=============================================================================
