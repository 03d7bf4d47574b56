\* Two tenants, two skills, an agent and two workspaces of the first tenant under one
\* name; two requests on the skills and an update of a workspace in flight, a restart.
SPECIFICATION Spec
CONSTANTS
    t1 = t1  t2 = t2  k1 = k1  k2 = k2  n1 = n1  n2 = n2  r1 = r1  r2 = r2  a1 = a1  m1 = m1
    w1 = w1  w2 = w2  v1 = v1  e1 = e1  x1 = x1  x2 = x2  None = None
    Tenants <- TwoTenants
    TenantOf <- FirstTenant
    SkillIds <- TwoSkills
    Names <- TwoNames
    Requests <- TwoRequests
    MaxAsks = 3
    MaxRestarts = 1
    AgentIds <- OneAgent
    AgentNames <- AgentName
    WsIds <- TwoWs
    WsNames <- WsName
    Models <- TwoModels
    Editors <- OneEditor
SYMMETRY Symmetry
CHECK_DEADLOCK FALSE
INVARIANTS
    RegistryAgrees
    LinkedIsServed
PROPERTIES
    ModelIsFixed
