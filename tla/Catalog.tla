------------------------------ MODULE Catalog ------------------------------
(***************************************************************************)
(* What tenants configure: their skills (SkillRegistry), agents             *)
(* (internal/agent/registry.go and the handlers of agent_handler.go) and    *)
(* knowledge workspaces (api/handler/rag_handler.go), tied together by the   *)
(* foreign keys of the link tables (pkg/tenantdb/tenant_schema.sql).  Every *)
(* tenant has a schema with these tables, and keys and unique names reach    *)
(* no further; identifiers are never given twice.                           *)
(*                                                                         *)
(* Every operation of the agent registry is one transaction whose first     *)
(* statement locks the row of the agent, so it is one step here.  An update  *)
(* of a workspace reads the row and writes it back in two statements.       *)
(***************************************************************************)
EXTENDS SkillRegistry

CONSTANTS
    AgentIds,     \* supply of agent identifiers
    AgentNames,   \* names of agents
    WsIds,        \* supply of workspace identifiers (gen_random_uuid)
    WsNames,      \* names of workspaces
    Models,       \* embedding models
    Editors,      \* UpdateWorkspace requests that may be in flight at a time
    TenantOf      \* TenantOf[x]: the tenant of agent or workspace x

ASSUME IdsAssumption ==
    /\ WsIds \cap SkillIds = {}
    /\ None \notin WsIds \cup AgentNames \cup Models
    /\ None \notin [name : WsNames \cup {None}, model : Models \cup {None}]

ASSUME TenantOfAssumption == TenantOf \in [AgentIds \cup WsIds -> Tenants]

VARIABLES
    agents,   \* agents[a]: the name in the agents table, None without a row
    links,    \* links[a]: the skills and workspaces agent a is linked to
    ws,       \* ws[w]: row of rag_workspaces, None before and Gone after it exists
    edit,     \* edit[e]: the update of a workspace e is serving
    crossed   \* history: workspaces written by an update that had read another one

agentVars == <<agents, links>>
wsVars == <<ws, edit, crossed>>
vars == <<registryVars, agentVars, wsVars>>

Gone == [name |-> None, model |-> None]

Exists(w) == ws[w] \notin {None, Gone}

\* What the link tables refer to, each in its schema.
Linked == UNION {{<<TenantOf[a], x>> : x \in links[a]} : a \in AgentIds}

NoEdit == [pc |-> "idle", name |-> None, read |-> None, model |-> None]

Init == /\ RegistryInit
        /\ agents = [a \in AgentIds |-> None]
        /\ links = [a \in AgentIds |-> {}]
        /\ ws = [w \in WsIds |-> None]
        /\ edit = [e \in Editors |-> NoEdit]
        /\ crossed = {}

-----------------------------------------------------------------------------
(* Agents *)

\* replaceSkills and replaceKnowledgeWorkspaces: a link needs the row it refers to,
\* and one that is missing rolls the transaction back.
Linkable(t) == {id \in SkillIds : rows[t][id] # None}
                 \cup {w \in WsIds : Exists(w) /\ TenantOf[w] = t}

NameFree(a, name) ==
    \A b \in AgentIds \ {a} : TenantOf[b] = TenantOf[a] => agents[b] # name

CreateAgent(a, name, targets) ==
    /\ agents[a] = None
    /\ NameFree(a, name)
    /\ targets \subseteq Linkable(TenantOf[a])
    /\ agents' = [agents EXCEPT ![a] = name]
    /\ links' = [links EXCEPT ![a] = targets]
    /\ UNCHANGED <<registryVars, wsVars>>

UpdateAgent(a, name, targets) ==
    /\ agents[a] # None
    /\ NameFree(a, name)
    /\ targets \subseteq Linkable(TenantOf[a])
    /\ agents' = [agents EXCEPT ![a] = name]
    /\ links' = [links EXCEPT ![a] = targets]
    /\ UNCHANGED <<registryVars, wsVars>>

\* The links go along with the agent (ON DELETE CASCADE).
DeleteAgent(a) ==
    /\ agents[a] # None
    /\ agents' = [agents EXCEPT ![a] = None]
    /\ links' = [links EXCEPT ![a] = {}]
    /\ UNCHANGED <<registryVars, wsVars>>

-----------------------------------------------------------------------------
(* Workspaces *)

CreateWorkspace(w, name, model) ==
    /\ ws[w] = None
    /\ \A v \in WsIds : (Exists(v) /\ TenantOf[v] = TenantOf[w]) => ws[v].name # name
    /\ ws' = [ws EXCEPT ![w] = [name |-> name, model |-> model]]
    /\ UNCHANGED <<registryVars, agentVars, edit, crossed>>

\* Mutant of ReadWorkspace: the model of the request is taken over.
ReadWorkspaceAnyModel(e, w) ==
    /\ edit[e].pc = "idle"
    /\ Exists(w)
    /\ \E m \in Models :
         edit' = [edit EXCEPT ![e] = [pc |-> "write", name |-> ws[w].name, read |-> w,
                                      model |-> m]]
    /\ UNCHANGED <<registryVars, agentVars, ws, crossed>>

\* The row is read by its name; a request that names another model is refused.
ReadWorkspace(e, w) ==
    /\ edit[e].pc = "idle"
    /\ Exists(w)
    /\ edit' = [edit EXCEPT ![e] = [pc |-> "write", name |-> ws[w].name, read |-> w,
                                    model |-> ws[w].model]]
    /\ UNCHANGED <<registryVars, agentVars, ws, crossed>>

\* UPDATE ... WHERE name: whatever row of the schema has the name by then.
Hit(e) == {w \in WsIds : /\ Exists(w)
                         /\ TenantOf[w] = TenantOf[edit[e].read]
                         /\ ws[w].name = edit[e].name}

\* The whole configuration is written back.
WriteWorkspace(e) ==
    /\ edit[e].pc = "write"
    /\ ws' = [w \in WsIds |-> IF w \in Hit(e) THEN [ws[w] EXCEPT !.model = edit[e].model]
                                               ELSE ws[w]]
    /\ edit' = [edit EXCEPT ![e] = NoEdit]
    /\ crossed' = crossed \cup (Hit(e) \ {edit[e].read})
    /\ UNCHANGED <<registryVars, agentVars>>

\* A workspace that is linked to an agent cannot be deleted (ON DELETE RESTRICT).
DeleteWorkspace(w) ==
    /\ Exists(w)
    /\ <<TenantOf[w], w>> \notin Linked
    /\ ws' = [ws EXCEPT ![w] = Gone]
    /\ UNCHANGED <<registryVars, agentVars, edit, crossed>>

-----------------------------------------------------------------------------
Next ==
    \/ RegistryNext(Linked) /\ UNCHANGED <<agentVars, wsVars>>
    \/ \E a \in AgentIds, n \in AgentNames : \E targets \in SUBSET Linkable(TenantOf[a]) :
         CreateAgent(a, n, targets) \/ UpdateAgent(a, n, targets)
    \/ \E a \in AgentIds : DeleteAgent(a)
    \/ \E w \in WsIds, n \in WsNames, m \in Models : CreateWorkspace(w, n, m)
    \/ \E e \in Editors, w \in WsIds : ReadWorkspace(e, w)
    \/ \E e \in Editors : WriteWorkspace(e)
    \/ \E w \in WsIds : DeleteWorkspace(w)

Spec == Init /\ [][Next]_vars

-----------------------------------------------------------------------------
(* Properties *)

TypeOK ==
    /\ RegistryTypeOK
    /\ agents \in [AgentIds -> AgentNames \cup {None}]
    /\ links \in [AgentIds -> SUBSET (SkillIds \cup WsIds)]
    /\ ws \in [WsIds -> [name : WsNames, model : Models] \cup {None, Gone}]
    /\ edit \in [Editors -> [pc : {"idle", "write"}, name : WsNames \cup {None},
                             read : WsIds \cup {None}, model : Models \cup {None}]]
    /\ crossed \subseteq WsIds

\* A skill an agent is linked to can be run as long as no other tenant has
\* asked anything of it: the registry of the process serves it, although links are checked
\* against the table only (replaceSkills) and Remove takes row and entry away in two
\* steps.  The foreign key protects a linked skill in its own schema only: what another
\* tenant deletes is not served any more, links or not (Remove of registry.go), so
\* skills that several tenants have asked for are left out, like those in "tainted".
LinkedIsServed ==
    \A a \in AgentIds : \A id \in links[a] \cap SkillIds :
        Served(id) \/ id \in tainted \/ ~ OneTenant(id)

\* "embedding_model is immutable after creation": the model of a workspace never
\* changes unless an update has been written to it that had read another workspace
\* of the same name, deleted and created again in between (UpdateWorkspace).
ModelIsFixed ==
    [][\A w \in WsIds :
         (Exists(w) /\ Exists(w)' /\ ws'[w].model # ws[w].model) => w \in crossed']_vars
=============================================================================
