------------------------- MODULE AuthSessionProofs -------------------------
(***************************************************************************)
(* Proofs about AuthSession, for any number of tenants, tokens, browsers    *)
(* and requests, with and without failing statements.                      *)
(***************************************************************************)
EXTENDS AuthSession, TLAPS

\* The steps of a request that has chosen its tenant, and those of a request
\* that has chosen the role as well.
TenantSteps == {"rotate", "set", "create", "role", "sign", "member", "switchRole", "store",
                "issue"}
RoleSteps   == {"sign", "store", "issue"}

\* What a request has in hand at each of its steps.
Proper(q) ==
    /\ q \in Request
    /\ q.pc # "idle" => q.browser \in Browsers
    /\ q.pc \in RefreshSteps \cup IssueSteps => q.new \in Tokens
    /\ q.pc \in RefreshSteps \cup {"revoke", "revokeSet"} => q.tok \in Tokens
    /\ q.pc \in TenantSteps => q.tenant \in Tenants
    /\ q.pc \in RoleSteps => q.role \in Role

RequestsProper == \A r \in Requests : Proper(req[r])

\* The row a rotation works on is there.
RotatedRowExists ==
    \A r \in Requests :
        req[r].pc \in {"rotate", "set", "create"} => row[req[r].tok].status # "absent"

LEMMA IdleProper == Proper(Idle)
BY NoneAssumption
DEF Idle, Proper, Request, RefreshSteps, LogoutSteps, IssueSteps, TenantSteps, RoleSteps

\* A request that moves on to a proper state leaves the others alone.
LEMMA ReplaceProper ==
    ASSUME TypeOK, RequestsProper, NEW r \in Requests, NEW v, Proper(v),
           req' = [req EXCEPT ![r] = v]
    PROVE  /\ req' \in [Requests -> Request]
           /\ RequestsProper'
           /\ req'[r] = v
           /\ \A s \in Requests \ {r} : req'[s] = req[s]
BY DEF TypeOK, RequestsProper, Proper

\* A request that answers is idle again.
LEMMA GotoIdle ==
    ASSUME TypeOK, RequestsProper, NEW r \in Requests, Goto(r, "idle")
    PROVE  /\ req' \in [Requests -> Request]
           /\ RequestsProper'
           /\ req'[r] = Idle
           /\ \A s \in Requests \ {r} : req'[s] = req[s]
<1>1. req' = [req EXCEPT ![r] = Idle]
  BY DEF Goto
<1> QED
  BY <1>1, IdleProper, ReplaceProper

\* A request that goes to another step keeps what it has in hand.
LEMMA GotoProper ==
    ASSUME RequestsProper, TypeOK, NEW r \in Requests,
           NEW pc \in RefreshSteps \cup LogoutSteps \cup IssueSteps, Goto(r, pc),
           req[r].pc # "idle",
           pc \in RefreshSteps => req[r].pc \in RefreshSteps,
           pc \in IssueSteps => req[r].pc \in IssueSteps,
           pc \in {"revoke", "revokeSet"} => req[r].pc \in {"revoke", "revokeSet"},
           pc \in TenantSteps => req[r].pc \in TenantSteps,
           pc \in RoleSteps => req[r].pc \in RoleSteps
    PROVE  /\ req' \in [Requests -> Request]
           /\ RequestsProper'
           /\ req'[r] = [req[r] EXCEPT !.pc = pc]
           /\ req'[r].pc = pc
           /\ req'[r].tok = req[r].tok
           /\ req'[r].new = req[r].new
           /\ req'[r].tenant = req[r].tenant
           /\ req'[r].role = req[r].role
           /\ req'[r].held = req[r].held
           /\ \A s \in Requests \ {r} : req'[s] = req[s]
<1>1. pc # "idle"
  BY DEF RefreshSteps, LogoutSteps, IssueSteps
<1>2. req' = [req EXCEPT ![r] = [req[r] EXCEPT !.pc = pc]]
  BY <1>1 DEF Goto
<1>3. Proper([req[r] EXCEPT !.pc = pc])
  BY DEF RequestsProper, Proper, Request
<1>4. req' \in [Requests -> Request] /\ RequestsProper'
  BY <1>2, <1>3 DEF RequestsProper, TypeOK, Proper
<1>5. req'[r] = [req[r] EXCEPT !.pc = pc] /\ \A s \in Requests \ {r} : req'[s] = req[s]
  BY <1>2 DEF TypeOK
<1>6. req[r] \in Request
  BY DEF TypeOK
<1> QED
  BY <1>4, <1>5, <1>6 DEF Request

\* Recording a role in the history of a request changes nothing else of it.
LEMMA WitnessProper ==
    ASSUME NEW q, Proper(q), NEW t \in Tenants, NEW ro \in Role \cup {None}
    PROVE  /\ Proper(Witness(q, t, ro))
           /\ Witness(q, t, ro).pc = q.pc
           /\ Witness(q, t, ro).tok = q.tok
           /\ Witness(q, t, ro).new = q.new
           /\ Witness(q, t, ro).tenant = q.tenant
           /\ Witness(q, t, ro).role = q.role
           /\ Witness(q, t, ro).held = IF q.tenant = t THEN q.held \cup {ro} ELSE q.held
BY DEF Proper, Request, Witness

LEMMA WitnessKeeps ==
    ASSUME NEW q, q \in Request, NEW t, NEW ro
    PROVE  /\ Witness(q, t, ro).pc = q.pc
           /\ Witness(q, t, ro).tok = q.tok
           /\ Witness(q, t, ro).new = q.new
BY DEF Request, Witness

\* The requests that begin.
LEMMA LogoutProper ==
    ASSUME TypeOK, NEW b \in Browsers
    PROVE  Proper([Idle EXCEPT !.pc = IF cookie[b] = None THEN "clear" ELSE "revoke",
                               !.browser = b, !.tok = cookie[b]])
BY NoneAssumption
DEF TypeOK, Idle, Proper, Request, RefreshSteps, LogoutSteps, IssueSteps, TenantSteps, RoleSteps

LEMMA BeginProper ==
    ASSUME TypeOK, NEW b \in Browsers, NEW k \in Tokens, NEW t \in Tenants
    PROVE  /\ cookie[b] # None =>
                 Proper([Idle EXCEPT !.pc = "blacklisted", !.browser = b, !.tok = cookie[b],
                                     !.new = k])
           /\ Proper([Idle EXCEPT !.pc = "lookup", !.browser = b, !.new = k, !.tenant = None,
                                  !.held = {role[u] : u \in Tenants \cap {None}}])
           /\ Proper([Idle EXCEPT !.pc = "member", !.browser = b, !.new = k, !.tenant = t,
                                  !.held = {role[u] : u \in Tenants \cap {t}}])
           /\ Proper([Idle EXCEPT !.pc = "store", !.browser = b, !.new = k, !.tenant = t,
                                  !.role = "owner"])
BY NoneAssumption, ZenonT(30)
DEF TypeOK, Idle, Proper, Request, RefreshSteps, LogoutSteps, IssueSteps, TenantSteps,
    RoleSteps, Role

-----------------------------------------------------------------------------
(* What the statements do to the table. *)

\* A row that is there can be revoked and can expire.
LEMMA RowChanges ==
    ASSUME TypeOK, NEW k \in Tokens, row[k].status # "absent"
    PROVE  /\ [row[k] EXCEPT !.status = "revoked"] \in Row
           /\ [row[k] EXCEPT !.expired = TRUE] \in Row
           /\ row[k].tenant \in Tenants
<1> DEFINE R == [status : {"active", "revoked"}, tenant : Tenants, from : Tokens \cup {None},
                 expired : BOOLEAN]
<1>1. row[k] \in R
  BY DEF TypeOK, Row, NoRow
<1>2. /\ [row[k] EXCEPT !.status = "revoked"] \in R
      /\ [row[k] EXCEPT !.expired = TRUE] \in R
      /\ row[k].tenant \in Tenants
  BY <1>1
<1> QED
  BY <1>2 DEF Row

\* INSERT INTO refresh_tokens: one row is there and active.
LEMMA CreateTyped ==
    ASSUME TypeOK, NEW k \in Tokens, NEW t \in Tenants, NEW from \in Tokens \cup {None},
           Create(k, t, from)
    PROVE  /\ row' \in [Tokens -> Row]
           /\ row'[k].status = "active" /\ row'[k].from = from
           /\ \A m \in Tokens \ {k} : row'[m] = row[m]
BY DEF TypeOK, Create, Row

\* UPDATE ... SET revoked_at of a row that is there.
LEMMA RevokeTyped ==
    ASSUME TypeOK, NEW k \in Tokens, row[k].status = "active",
           row' = [row EXCEPT ![k].status = "revoked"]
    PROVE  /\ row' \in [Tokens -> Row]
           /\ row'[k].status = "revoked" /\ row'[k].from = row[k].from
           /\ \A m \in Tokens \ {k} : row'[m] = row[m]
<1>1. [row[k] EXCEPT !.status = "revoked"] \in Row
  BY RowChanges
<1>2. row[k] \in [status : {"active", "revoked"}, tenant : Tenants, from : Tokens \cup {None},
                  expired : BOOLEAN]
  BY DEF TypeOK, Row, NoRow
<1> QED
  BY <1>1, <1>2 DEF TypeOK

TypeInv == TypeOK /\ RequestsProper /\ RotatedRowExists

LEMMA TypeInvHolds == Spec => []TypeInv
<1>1. Init => TypeInv
  <2> SUFFICES ASSUME Init PROVE TypeInv
    OBVIOUS
  <2>1. Idle \in Request /\ \A r \in Requests : req[r] = Idle
    BY IdleProper DEF Init, Proper
  <2>2. TypeOK
    BY <2>1, InitialAssumption DEF Init, TypeOK, Row
  <2> QED BY <2>1, <2>2, IdleProper DEF Init, TypeInv, RequestsProper, RotatedRowExists, Idle
<1>2. TypeInv /\ [Next]_vars => TypeInv'
  <2> SUFFICES ASSUME TypeInv, [Next]_vars PROVE TypeInv'
    OBVIOUS
  <2> USE DEF TypeInv
  <2>p. \A r \in Requests : Proper(req[r])
    BY DEF RequestsProper
  \* A step that only gives up or answers.
  <2>i. ASSUME NEW r \in Requests, Goto(r, "idle"), UNCHANGED <<role, row, blacklist, cookie>>
        PROVE  TypeInv'
    BY <2>i, GotoIdle DEF TypeOK, RotatedRowExists, Idle
  <2>1. ASSUME NEW r \in Requests, NEW b \in Browsers, LogoutBegin(r, b) PROVE TypeInv'
    <3> DEFINE v == [Idle EXCEPT !.pc = IF cookie[b] = None THEN "clear" ELSE "revoke",
                                 !.browser = b, !.tok = cookie[b]]
    <3>1. Proper(v) /\ req' = [req EXCEPT ![r] = v]
      BY <2>1, LogoutProper DEF LogoutBegin
    <3>2. v.pc \in {"clear", "revoke"}
      BY DEF Idle
    <3> QED BY <2>1, <3>1, <3>2, ReplaceProper DEF LogoutBegin, TypeOK, RotatedRowExists
  <2>2. ASSUME NEW r \in Requests, NEW b \in Browsers, NEW k \in Tokens, RefreshBegin(r, b, k)
        PROVE  TypeInv'
    <3> DEFINE v == [Idle EXCEPT !.pc = "blacklisted", !.browser = b, !.tok = cookie[b],
                                 !.new = k]
    <3>1. Proper(v) /\ req' = [req EXCEPT ![r] = v] /\ v.pc = "blacklisted"
      BY <2>2, BeginProper, DefaultAssumption DEF RefreshBegin, Idle
    <3> QED BY <2>2, <3>1, ReplaceProper DEF RefreshBegin, TypeOK, RotatedRowExists
  <2>3. ASSUME NEW r \in Requests, NEW b \in Browsers, NEW k \in Tokens, LoginBegin(r, b, k)
        PROVE  TypeInv'
    <3> DEFINE v == [Idle EXCEPT !.pc = "lookup", !.browser = b, !.new = k, !.tenant = None,
                                 !.held = {role[u] : u \in Tenants \cap {None}}]
    <3>1. Proper(v) /\ req' = [req EXCEPT ![r] = v] /\ v.pc = "lookup"
      BY <2>3, BeginProper, DefaultAssumption DEF LoginBegin, IssueBegin, Idle
    <3> QED BY <2>3, <3>1, ReplaceProper DEF LoginBegin, IssueBegin, TypeOK, RotatedRowExists
  <2>4. ASSUME NEW r \in Requests, NEW b \in Browsers, NEW k \in Tokens, NEW t \in Tenants,
               SwitchBegin(r, b, k, t)
        PROVE  TypeInv'
    <3> DEFINE v == [Idle EXCEPT !.pc = "member", !.browser = b, !.new = k, !.tenant = t,
                                 !.held = {role[u] : u \in Tenants \cap {t}}]
    <3>1. Proper(v) /\ req' = [req EXCEPT ![r] = v] /\ v.pc = "member"
      BY <2>4, BeginProper DEF SwitchBegin, IssueBegin, Idle
    <3> QED BY <2>4, <3>1, ReplaceProper DEF SwitchBegin, IssueBegin, TypeOK, RotatedRowExists
  <2>5. ASSUME NEW r \in Requests, NEW b \in Browsers, NEW k \in Tokens, NEW t \in Tenants,
               CreateTenant(r, b, k, t)
        PROVE  TypeInv'
    <3> DEFINE v == [Idle EXCEPT !.pc = "store", !.browser = b, !.new = k, !.tenant = t,
                                 !.role = "owner"]
    <3>1. Proper(v) /\ v.pc = "store"
      BY BeginProper DEF Idle
    <3>2. \A q \in Requests : req'[q] = Witness(IF q = r THEN v ELSE req[q], t, "owner")
      BY <2>5 DEF CreateTenant
    <3>3. \A q \in Requests : Proper(req'[q]) /\ (q # r => req'[q].pc = req[q].pc
                                                           /\ req'[q].tok = req[q].tok)
                              /\ (q = r => req'[q].pc = "store")
      <4>1. \A q \in Requests \ {r} : req'[q] = Witness(req[q], t, "owner")
        BY <3>2
      <4>2. req'[r] = Witness(v, t, "owner")
        BY <3>2
      <4> HIDE DEF v
      <4>3. "owner" \in Role \cup {None}
        BY DEF Role
      <4>4. Proper(req'[r]) /\ req'[r].pc = "store"
        <5>1. Proper(Witness(v, t, "owner")) /\ Witness(v, t, "owner").pc = v.pc
          BY <3>1, <4>3, WitnessProper
        <5> QED BY <3>1, <4>2, <5>1
      <4>5. \A q \in Requests \ {r} : /\ Proper(req'[q]) /\ req'[q].pc = req[q].pc
                                      /\ req'[q].tok = req[q].tok
        <5> SUFFICES ASSUME NEW q \in Requests \ {r}
                     PROVE  /\ Proper(req'[q]) /\ req'[q].pc = req[q].pc
                            /\ req'[q].tok = req[q].tok
          OBVIOUS
        <5>1. /\ Proper(Witness(req[q], t, "owner"))
              /\ Witness(req[q], t, "owner").pc = req[q].pc
              /\ Witness(req[q], t, "owner").tok = req[q].tok
          BY <2>p, <4>3, WitnessProper, ZenonT(30)
        <5> QED BY <4>1, <5>1
      <4> QED BY <4>4, <4>5
    <3>4. req' \in [Requests -> Request]
      BY <2>5, <3>3 DEF CreateTenant, Proper
    <3>5. role' \in [Tenants -> Role \cup {None}]
      BY <2>5 DEF CreateTenant, Become, TypeOK, Role
    <3>6. RotatedRowExists'
      BY <2>5, <3>3 DEF CreateTenant, RotatedRowExists
    <3> QED BY <2>5, <3>3, <3>4, <3>5, <3>6 DEF CreateTenant, TypeOK, RequestsProper
  <2>6. ASSUME NEW r \in Requests, IsBlacklisted(r) PROVE TypeInv'
    <3>1. CASE req[r].tok \in blacklist
      BY <2>6, <3>1, <2>i DEF IsBlacklisted
    <3>2. CASE req[r].tok \notin blacklist
      <4>1. Goto(r, "claims") /\ req[r].pc = "blacklisted"
        BY <2>6, <3>2 DEF IsBlacklisted
      <4>2. /\ req' \in [Requests -> Request] /\ RequestsProper'
            /\ req'[r].pc = "claims" /\ \A s \in Requests \ {r} : req'[s] = req[s]
        BY <4>1, GotoProper
        DEF RefreshSteps, IssueSteps, TenantSteps, RoleSteps
      <4> QED BY <2>6, <4>2 DEF IsBlacklisted, TypeOK, RotatedRowExists
    <3> QED BY <3>1, <3>2
  <2>7. ASSUME NEW r \in Requests, GetActiveClaims(r) PROVE TypeInv'
    <3> DEFINE k == req[r].tok
    <3> DEFINE v == [req[r] EXCEPT !.pc = "rotate", !.tenant = row[k].tenant,
                                   !.held = {role[row[k].tenant]}]
    <3>1. CASE Usable(k)
      <4>0. k \in Tokens /\ req[r].new \in Tokens /\ req[r].browser \in Browsers
        BY <2>7, <2>p DEF GetActiveClaims, Proper, RefreshSteps
      <4>1. row[k].tenant \in Tenants
        BY <3>1, <4>0, RowChanges DEF Usable
      <4>2. role[row[k].tenant] \in Role \cup {None}
        BY <4>1 DEF TypeOK
      <4>3. Proper(v) /\ v.tok = k
        BY <2>p, <4>0, <4>1, <4>2
        DEF Proper, Request, RefreshSteps, LogoutSteps, IssueSteps, TenantSteps, RoleSteps
      <4>4. req' = [req EXCEPT ![r] = v]
        BY <2>7, <3>1 DEF GetActiveClaims
      <4>5. /\ req' \in [Requests -> Request] /\ RequestsProper' /\ req'[r] = v
            /\ \A s \in Requests \ {r} : req'[s] = req[s]
        BY <4>3, <4>4, ReplaceProper
      <4> QED BY <2>7, <3>1, <4>3, <4>5 DEF GetActiveClaims, TypeOK, RotatedRowExists, Usable
    <3>2. CASE ~ Usable(k)
      BY <2>7, <3>2, <2>i DEF GetActiveClaims, Goto
    <3> QED BY <3>1, <3>2
  <2>8. ASSUME NEW r \in Requests, RotateClaim(r) PROVE TypeInv'
    <3> DEFINE k == req[r].tok
    <3>1. k \in Tokens
      BY <2>8, <2>p DEF RotateClaim, Proper, RefreshSteps
    <3>2. CASE row[k].status = "active"
      <4>1. Goto(r, "set") /\ req[r].pc = "rotate" /\ row' = [row EXCEPT ![k].status = "revoked"]
        BY <2>8, <3>2 DEF RotateClaim
      <4>2. /\ req' \in [Requests -> Request] /\ RequestsProper'
            /\ req'[r] = [req[r] EXCEPT !.pc = "set"]
            /\ \A s \in Requests \ {r} : req'[s] = req[s]
        BY <4>1, GotoProper DEF RefreshSteps, IssueSteps, TenantSteps, RoleSteps
      <4>3. row' \in [Tokens -> Row] /\ \A m \in Tokens : row[m].status # "absent"
                                                          => row'[m].status # "absent"
        BY <3>1, <3>2, <4>1, RevokeTyped
      <4>4. \A s \in Requests : /\ req'[s].tok = req[s].tok
                                /\ req'[s].pc \in {"rotate", "set", "create"} =>
                                     req[s].pc \in {"rotate", "set", "create"}
                                     /\ req[s].tok \in Tokens
        BY <2>p, <4>1, <4>2 DEF Proper, Request, RefreshSteps
      <4> QED BY <2>8, <4>2, <4>3, <4>4 DEF RotateClaim, TypeOK, RotatedRowExists
    <3>3. CASE row[k].status # "active"
      BY <2>8, <3>3, <2>i DEF RotateClaim
    <3> QED BY <3>2, <3>3
  <2>9. ASSUME NEW r \in Requests, NEW lost \in BOOLEAN, RotateSet(r, lost) PROVE TypeInv'
    <3>1. Goto(r, "create") /\ req[r].pc = "set" /\ req[r].tok \in Tokens
      BY <2>9, <2>p DEF RotateSet, Proper, RefreshSteps
    <3>2. /\ req' \in [Requests -> Request] /\ RequestsProper'
          /\ req'[r] = [req[r] EXCEPT !.pc = "create"]
          /\ \A s \in Requests \ {r} : req'[s] = req[s]
      BY <3>1, GotoProper DEF RefreshSteps, IssueSteps, TenantSteps, RoleSteps
    <3>3. req'[r].tok = req[r].tok
      BY <2>p, <3>2 DEF Proper, Request
    <3>4. blacklist' \in SUBSET Tokens
      BY <2>9, <3>1 DEF RotateSet, Blacklist, TypeOK
    <3>5. role' = role /\ row' = row /\ cookie' = cookie
      BY <2>9 DEF RotateSet
    <3>6. TypeOK'
      BY <3>2, <3>4, <3>5 DEF TypeOK
    <3>7. ASSUME NEW s \in Requests, req'[s].pc \in {"rotate", "set", "create"}
          PROVE  row'[req'[s].tok].status # "absent"
      <4>1. req[s].pc \in {"rotate", "set", "create"} /\ req'[s].tok = req[s].tok
        BY <3>1, <3>2, <3>3, <3>7
      <4> QED BY <3>5, <4>1 DEF RotatedRowExists
    <3> QED BY <3>2, <3>6, <3>7 DEF RotatedRowExists
  <2>10. ASSUME NEW r \in Requests, NEW lost \in BOOLEAN, RevokeSet(r, lost) PROVE TypeInv'
    <3>1. Goto(r, "clear") /\ req[r].pc = "revokeSet" /\ req[r].tok \in Tokens
      BY <2>10, <2>p DEF RevokeSet, Proper
    <3>2. /\ req' \in [Requests -> Request] /\ RequestsProper'
          /\ req'[r].pc = "clear"
          /\ \A s \in Requests \ {r} : req'[s] = req[s]
      BY <3>1, GotoProper
      DEF RefreshSteps, LogoutSteps, IssueSteps, TenantSteps, RoleSteps
    <3>3. blacklist' \in SUBSET Tokens
      BY <2>10, <3>1 DEF RevokeSet, Blacklist, TypeOK
    <3>4. RotatedRowExists'
      BY <2>10, <3>2 DEF RevokeSet, RotatedRowExists
    <3> QED BY <2>10, <3>2, <3>3, <3>4 DEF RevokeSet, TypeOK
  <2>11. ASSUME NEW r \in Requests, RotateCreate(r) PROVE TypeInv'
    <3> DEFINE k == req[r].tok
    <3> DEFINE n == req[r].new
    <3>1. /\ Goto(r, "role") /\ req[r].pc = "create" /\ k \in Tokens /\ n \in Tokens
          /\ row[k].status # "absent"
      BY <2>11, <2>p DEF RotateCreate, Proper, RefreshSteps, RotatedRowExists
    <3>2. /\ req' \in [Requests -> Request] /\ RequestsProper'
          /\ req'[r].pc = "role"
          /\ \A s \in Requests \ {r} : req'[s] = req[s]
      BY <3>1, GotoProper
      DEF RefreshSteps, LogoutSteps, IssueSteps, TenantSteps, RoleSteps
    <3>3. row' \in [Tokens -> Row] /\ \A m \in Tokens : row[m].status # "absent"
                                                        => row'[m].status # "absent"
      BY <2>11, <3>1, CreateTyped, RowChanges DEF RotateCreate
    <3>4. RotatedRowExists'
      BY <2>p, <3>2, <3>3 DEF Proper, RefreshSteps, RotatedRowExists
    <3> QED BY <2>11, <3>2, <3>3, <3>4 DEF RotateCreate, TypeOK
  <2>12. ASSUME NEW r \in Requests, Store(r) PROVE TypeInv'
    <3> DEFINE n == req[r].new
    <3>1. /\ Goto(r, "issue") /\ req[r].pc = "store" /\ n \in Tokens
          /\ req[r].tenant \in Tenants
      BY <2>12, <2>p DEF Store, Proper, IssueSteps, TenantSteps
    <3>2. /\ req' \in [Requests -> Request] /\ RequestsProper'
          /\ req'[r].pc = "issue"
          /\ \A s \in Requests \ {r} : req'[s] = req[s]
      BY <3>1, GotoProper
      DEF RefreshSteps, LogoutSteps, IssueSteps, TenantSteps, RoleSteps
    <3>3. row' \in [Tokens -> Row] /\ \A m \in Tokens : row[m].status # "absent"
                                                        => row'[m].status # "absent"
      BY <2>12, <3>1, CreateTyped DEF Store
    <3>4. RotatedRowExists'
      BY <2>p, <3>2, <3>3 DEF Proper, RefreshSteps, RotatedRowExists
    <3> QED BY <2>12, <3>2, <3>3, <3>4 DEF Store, TypeOK
  <2>13. ASSUME NEW r \in Requests, NEW ro \in Role, RefreshRole(r, ro) \/ SwitchRole(r, ro)
         PROVE  TypeInv'
    <3> DEFINE pc == IF req[r].pc = "role" THEN "sign" ELSE "store"
    <3> DEFINE v == [req[r] EXCEPT !.pc = pc, !.role = ro]
    <3>1. req[r].pc \in {"role", "switchRole"} /\ req' = [req EXCEPT ![r] = v]
      BY <2>13 DEF RefreshRole, SwitchRole
    <3>2. Proper(v) /\ v.pc \in {"sign", "store"}
      BY <2>p, <3>1, ZenonT(30)
      DEF Proper, Request, RefreshSteps, LogoutSteps, IssueSteps, TenantSteps, RoleSteps
    <3>3. /\ req' \in [Requests -> Request] /\ RequestsProper' /\ req'[r].pc \in {"sign", "store"}
          /\ \A s \in Requests \ {r} : req'[s] = req[s]
      BY <3>1, <3>2, ReplaceProper
    <3>4. UNCHANGED <<role, row, blacklist, cookie>>
      BY <2>13 DEF RefreshRole, SwitchRole
    <3>5. RotatedRowExists'
      BY <3>3, <3>4 DEF RotatedRowExists
    <3> QED BY <3>3, <3>4, <3>5 DEF TypeOK
  <2>14. ASSUME NEW r \in Requests, NEW arrives \in BOOLEAN,
                \/ Respond(r, "sign", arrives) \/ Respond(r, "issue", arrives)
                \/ LogoutRespond(r, arrives)
         PROVE  TypeInv'
    <3>1. Goto(r, "idle") /\ UNCHANGED <<role, row, blacklist>>
      BY <2>14 DEF Respond, LogoutRespond
    <3>2. cookie' \in [Browsers -> Tokens \cup {None}]
      <4>1. req[r].new \in Tokens \cup {None}
        BY <2>p DEF Proper, Request
      <4> QED BY <2>14, <4>1 DEF Respond, LogoutRespond, TypeOK
    <3> QED BY <3>1, <3>2, GotoIdle DEF TypeOK, RotatedRowExists, Idle
  <2>15. ASSUME NEW r \in Requests, Revoke(r) PROVE TypeInv'
    <3> DEFINE k == req[r].tok
    <3>1. k \in Tokens /\ req[r].pc = "revoke"
      BY <2>15, <2>p DEF Revoke, Proper
    <3>2. PICK pc \in {"revokeSet", "clear"} : Goto(r, pc)
      BY <2>15 DEF Revoke
    <3>3. /\ req' \in [Requests -> Request] /\ RequestsProper'
          /\ req'[r].pc \in {"revokeSet", "clear"}
          /\ \A s \in Requests \ {r} : req'[s] = req[s]
      BY <3>1, <3>2, GotoProper
      DEF RefreshSteps, LogoutSteps, IssueSteps, TenantSteps, RoleSteps
    <3>4. row' \in [Tokens -> Row] /\ \A m \in Tokens : row[m].status # "absent"
                                                        => row'[m].status # "absent"
      <4>1. CASE row[k].status = "active"
        BY <2>15, <3>1, <4>1, RevokeTyped DEF Revoke
      <4>2. CASE row[k].status # "active"
        BY <2>15, <4>2 DEF Revoke, TypeOK
      <4> QED BY <4>1, <4>2
    <3>5. RotatedRowExists'
      BY <2>p, <3>3, <3>4 DEF Proper, RefreshSteps, RotatedRowExists
    <3>6. UNCHANGED <<role, blacklist, cookie>>
      BY <2>15 DEF Revoke
    <3> QED BY <3>3, <3>4, <3>5, <3>6 DEF TypeOK
  <2>16. ASSUME NEW r \in Requests, RevokeFails(r) \/ LookupFails(r) PROVE TypeInv'
    <3>1. PICK pc \in {"clear", "autojoin"} :
            Goto(r, pc) /\ req[r].pc = (IF pc = "clear" THEN "revoke" ELSE "lookup")
      BY <2>16 DEF RevokeFails, LookupFails
    <3>2. /\ req' \in [Requests -> Request] /\ RequestsProper'
          /\ req'[r].pc = pc
          /\ \A s \in Requests \ {r} : req'[s] = req[s]
      BY <3>1, GotoProper
      DEF RefreshSteps, LogoutSteps, IssueSteps, TenantSteps, RoleSteps
    <3>3. UNCHANGED <<role, row, blacklist, cookie>>
      BY <2>16 DEF RevokeFails, LookupFails
    <3>4. RotatedRowExists'
      BY <3>2, <3>3 DEF RotatedRowExists
    <3> QED BY <3>2, <3>3, <3>4 DEF TypeOK
  <2>17. ASSUME NEW r \in Requests, Lookup(r) PROVE TypeInv'
    <3>1. UNCHANGED <<role, row, blacklist, cookie>> /\ req[r].pc = "lookup"
      BY <2>17 DEF Lookup
    <3>2. /\ req' \in [Requests -> Request] /\ RequestsProper'
          /\ req'[r].pc \in {"autojoin", "store"}
          /\ \A s \in Requests \ {r} : req'[s] = req[s]
      <4>1. CASE Goto(r, "autojoin")
        BY <3>1, <4>1, GotoProper
        DEF RefreshSteps, LogoutSteps, IssueSteps, TenantSteps, RoleSteps
      <4>2. CASE ~ Goto(r, "autojoin")
        <5>1. PICK t \in Tenants :
                /\ role[t] # None
                /\ req' = [req EXCEPT ![r].pc = "store", ![r].tenant = t, ![r].role = role[t],
                                      ![r].held = {role[t]}]
          BY <2>17, <4>2, DefaultAssumption DEF Lookup
        <5> DEFINE v == [req[r] EXCEPT !.pc = "store", !.tenant = t, !.role = role[t],
                                       !.held = {role[t]}]
        <5>2. role[t] \in Role
          BY <5>1 DEF TypeOK
        <5>3. Proper(v) /\ v.pc = "store"
          BY <2>p, <3>1, <5>2, ZenonT(30)
          DEF Proper, Request, RefreshSteps, LogoutSteps, IssueSteps, TenantSteps, RoleSteps
        <5>4. req' = [req EXCEPT ![r] = v]
          BY <5>1
        <5> QED BY <5>3, <5>4, ReplaceProper
      <4> QED BY <4>1, <4>2
    <3>3. RotatedRowExists'
      BY <3>1, <3>2 DEF RotatedRowExists
    <3> QED BY <3>1, <3>2, <3>3 DEF TypeOK
  <2>18. ASSUME NEW r \in Requests, AutoJoin(r) PROVE TypeInv'
    <3> DEFINE v == [req[r] EXCEPT !.pc = "store", !.tenant = DefaultTenant,
                                   !.role = AutoJoinRole]
    <3>1. Proper(v) /\ v.pc = "store"
      BY <2>18, <2>p, DefaultAssumption, AutoJoinAssumption, ZenonT(30)
      DEF AutoJoin, Proper, Request, RefreshSteps, LogoutSteps, IssueSteps, TenantSteps,
          RoleSteps, Role
    <3>2. \A q \in Requests :
            req'[q] = Witness(IF q = r THEN v ELSE req[q], DefaultTenant, AutoJoinRole)
      BY <2>18 DEF AutoJoin
    <3>3. \A q \in Requests : Proper(req'[q]) /\ (q # r => req'[q].pc = req[q].pc
                                                           /\ req'[q].tok = req[q].tok)
                              /\ (q = r => req'[q].pc = "store")
      <4>1. \A q \in Requests \ {r} : req'[q] = Witness(req[q], DefaultTenant, AutoJoinRole)
        BY <3>2
      <4>2. req'[r] = Witness(v, DefaultTenant, AutoJoinRole)
        BY <3>2
      <4> HIDE DEF v
      <4>3. AutoJoinRole \in Role \cup {None} /\ DefaultTenant \in Tenants
        BY DefaultAssumption, AutoJoinAssumption DEF Role
      <4>4. Proper(req'[r]) /\ req'[r].pc = "store"
        <5>1. Proper(Witness(v, DefaultTenant, AutoJoinRole)) /\ Witness(v, DefaultTenant, AutoJoinRole).pc = v.pc
          BY <3>1, <4>3, WitnessProper
        <5> QED BY <3>1, <4>2, <5>1
      <4>5. \A q \in Requests \ {r} : /\ Proper(req'[q]) /\ req'[q].pc = req[q].pc
                                      /\ req'[q].tok = req[q].tok
        <5> SUFFICES ASSUME NEW q \in Requests \ {r}
                     PROVE  /\ Proper(req'[q]) /\ req'[q].pc = req[q].pc
                            /\ req'[q].tok = req[q].tok
          OBVIOUS
        <5>1. /\ Proper(Witness(req[q], DefaultTenant, AutoJoinRole))
              /\ Witness(req[q], DefaultTenant, AutoJoinRole).pc = req[q].pc
              /\ Witness(req[q], DefaultTenant, AutoJoinRole).tok = req[q].tok
          BY <2>p, <4>3, WitnessProper, ZenonT(30)
        <5> QED BY <4>1, <5>1
      <4> QED BY <4>4, <4>5
    <3>4. req' \in [Requests -> Request]
      BY <2>18, <3>3 DEF AutoJoin, Proper
    <3>5. role' \in [Tenants -> Role \cup {None}]
      BY <2>18, AutoJoinAssumption DEF AutoJoin, Become, TypeOK, Role
    <3>6. RotatedRowExists'
      BY <2>18, <3>3 DEF AutoJoin, RotatedRowExists
    <3> QED BY <2>18, <3>3, <3>4, <3>5, <3>6 DEF AutoJoin, TypeOK, RequestsProper
  <2>19. ASSUME NEW r \in Requests, IsMember(r) PROVE TypeInv'
    <3>1. CASE role[req[r].tenant] = None
      BY <2>19, <3>1, <2>i DEF IsMember
    <3>2. CASE role[req[r].tenant] # None
      <4>1. Goto(r, "switchRole") /\ req[r].pc = "member"
        BY <2>19, <3>2 DEF IsMember
      <4>2. /\ req' \in [Requests -> Request] /\ RequestsProper'
            /\ req'[r].pc = "switchRole" /\ \A s \in Requests \ {r} : req'[s] = req[s]
        BY <4>1, GotoProper
        DEF RefreshSteps, LogoutSteps, IssueSteps, TenantSteps, RoleSteps
      <4> QED BY <2>19, <4>2 DEF IsMember, TypeOK, RotatedRowExists
    <3> QED BY <3>1, <3>2
  <2>20. ASSUME NEW r \in Requests,
                Fails(r, {"blacklisted", "claims", "rotate", "create", "autojoin", "member",
                          "store"})
         PROVE  TypeInv'
    BY <2>20, <2>i DEF Fails
  <2>21. ASSUME NEW t \in Tenants, NEW ro \in Role \cup {None}, Become(t, ro),
                req' = [q \in Requests |-> Witness(req[q], t, ro)],
                UNCHANGED <<row, blacklist, cookie>>
         PROVE  TypeInv'
    <3>1. \A q \in Requests : /\ Proper(req'[q]) /\ req'[q].pc = req[q].pc
                              /\ req'[q].tok = req[q].tok
      BY <2>21, <2>p, WitnessProper, ZenonT(30)
    <3>2. req' \in [Requests -> Request]
      BY <2>21, <3>1 DEF Proper
    <3>3. role' \in [Tenants -> Role \cup {None}]
      BY <2>21 DEF Become, TypeOK
    <3>4. RotatedRowExists'
      BY <2>21, <3>1 DEF RotatedRowExists
    <3> QED BY <2>21, <3>1, <3>2, <3>3, <3>4 DEF TypeOK, RequestsProper
  <2>22. ASSUME NEW t \in Tenants, NEW ro \in {"admin", "member"}, UpdateMemberRole(t, ro)
         PROVE  TypeInv'
    BY <2>21, <2>22 DEF UpdateMemberRole, Role
  <2>23. ASSUME NEW t \in Tenants, RemoveMember(t) PROVE TypeInv'
    BY <2>21, <2>23 DEF RemoveMember
  <2>24. ASSUME NEW k \in Tokens, Expire(k) PROVE TypeInv'
    <3>1. row' \in [Tokens -> Row] /\ \A m \in Tokens : row'[m].status = row[m].status
      <4>1. row[k] \in [status : {"active", "revoked"}, tenant : Tenants,
                        from : Tokens \cup {None}, expired : BOOLEAN]
        BY <2>24 DEF Expire, TypeOK, Row, NoRow
      <4> QED BY <2>24, <4>1, RowChanges DEF Expire, TypeOK
    <3>2. RotatedRowExists'
      BY <2>24, <2>p, <3>1 DEF Expire, Proper, RefreshSteps, RotatedRowExists
    <3> QED BY <2>24, <3>1, <3>2 DEF Expire, TypeOK, RequestsProper
  <2>25. CASE UNCHANGED vars
    BY <2>25 DEF vars, TypeOK, RequestsProper, RotatedRowExists
  <2>26. ASSUME NEW r \in Requests, Step(r) PROVE TypeInv'
    BY <2>26, <2>6, <2>7, <2>8, <2>9, <2>10, <2>11, <2>12, <2>13, <2>14, <2>15, <2>16, <2>17,
       <2>18, <2>19, <2>20 DEF Step
  <2> QED
    BY <2>1, <2>2, <2>3, <2>4, <2>5, <2>22, <2>23, <2>24, <2>25, <2>26
    DEF Next, Register, CreateUserTenant
<1> QED
  BY <1>1, <1>2, PTL DEF Spec

\* Type correctness of the sessions: a request of auth_handler.go never reaches a
\* statement without the token, tenant or role the statement is about, and every
\* row of refresh_tokens that is there belongs to a tenant.
THEOREM TypeCorrect == Spec => []TypeOK
BY TypeInvHolds, PTL DEF TypeInv

-----------------------------------------------------------------------------
(***************************************************************************)
(* The inductive invariant of the tokens.  A request that is past the       *)
(* UPDATE of Rotate holds a claim on the old token: nobody else has one,    *)
(* the token is revoked and has no successor until the claim is cashed in.  *)
(* The raw token a request has drawn is its own and not in the table until  *)
(* the request stores it.                                                  *)
(***************************************************************************)
ClaimSteps   == {"set", "create"}
BeforeCreate == {"blacklisted", "claims", "rotate", "set", "create", "lookup", "autojoin",
                 "member", "switchRole", "store"}

Successor(m, k) == row[m].status # "absent" /\ row[m].from = k

NewIsReserved ==
    \A r, s \in Requests : (r # s /\ req[r].new # None) => req[s].new # req[r].new

NewIsAbsent ==
    \A r \in Requests : req[r].pc \in BeforeCreate => row[req[r].new].status = "absent"

ClaimIsRevoked ==
    \A r \in Requests : req[r].pc \in ClaimSteps \cup {"revokeSet"}
                          => row[req[r].tok].status = "revoked"

ClaimIsUnique ==
    \A r, s \in Requests : (/\ req[r].pc \in ClaimSteps /\ req[s].pc \in ClaimSteps
                            /\ req[r].tok = req[s].tok) => r = s

ClaimHasNoSuccessor ==
    \A r \in Requests : req[r].pc \in ClaimSteps =>
        \A m \in Tokens : ~ Successor(m, req[r].tok)

OneSuccessor ==
    \A k \in Tokens : \A m, n \in Tokens : (Successor(m, k) /\ Successor(n, k)) => m = n

SuccessorRevokes ==
    \A k \in Tokens : \A m \in Tokens : Successor(m, k) => row[k].status = "revoked"

ClaimInv == ClaimIsRevoked /\ ClaimIsUnique /\ ClaimHasNoSuccessor
NewInv   == NewIsReserved /\ NewIsAbsent
TokenInv == NewInv /\ ClaimInv /\ OneSuccessor /\ SuccessorRevokes /\ BlacklistedIsRevoked

\* A request that takes no claim and draws no token, seen from the invariant.
Quiet(s) ==
    \/ req'[s].pc = req[s].pc /\ req'[s].tok = req[s].tok /\ req'[s].new = req[s].new
    \/ /\ req'[s].pc \notin ClaimSteps \cup {"revokeSet"}
       /\ req'[s].new \in {req[s].new, None}
       /\ req'[s].pc \in BeforeCreate => /\ req[s].pc \in BeforeCreate
                                         /\ req'[s].new = req[s].new

LEMMA QuietStep ==
    ASSUME TokenInv, row' = row, blacklist' = blacklist, \A s \in Requests : Quiet(s)
    PROVE  TokenInv'
<1> USE DEF TokenInv, NewInv, ClaimInv
<1>1. NewIsReserved'
  BY DEF NewIsReserved, Quiet
<1>2. NewIsAbsent'
  BY DEF NewIsAbsent, Quiet
<1>3. ClaimIsRevoked'
  BY DEF ClaimIsRevoked, Quiet
<1>4. ClaimIsUnique'
  BY DEF ClaimIsUnique, Quiet
<1>5. ClaimHasNoSuccessor'
  BY DEF ClaimHasNoSuccessor, Successor, Quiet
<1>6. OneSuccessor' /\ SuccessorRevokes' /\ BlacklistedIsRevoked'
  BY DEF OneSuccessor, SuccessorRevokes, Successor, BlacklistedIsRevoked
<1> QED
  BY <1>1, <1>2, <1>3, <1>4, <1>5, <1>6

\* One request goes idle.
LEMMA QuietIdle ==
    ASSUME TypeInv, TokenInv, NEW r \in Requests, Goto(r, "idle"),
           row' = row, blacklist' = blacklist
    PROVE  TokenInv'
<1>1. req'[r] = Idle /\ \A s \in Requests \ {r} : req'[s] = req[s]
  BY GotoIdle DEF TypeInv
<1>2. \A s \in Requests : Quiet(s)
  BY <1>1 DEF Quiet, Idle, ClaimSteps, BeforeCreate
<1> QED
  BY <1>2, QuietStep

\* One request goes on, to a step that holds no claim.
LEMMA QuietGoto ==
    ASSUME TypeInv, TokenInv, NEW r \in Requests, NEW v, req' = [req EXCEPT ![r] = v],
           row' = row, blacklist' = blacklist, v.new = req[r].new,
           v.pc \notin ClaimSteps \cup {"revokeSet"},
           v.pc \in BeforeCreate => req[r].pc \in BeforeCreate
    PROVE  TokenInv'
<1>1. req'[r] = v /\ \A s \in Requests \ {r} : req'[s] = req[s]
  BY DEF TypeInv, TypeOK
<1>2. \A s \in Requests : Quiet(s)
  BY <1>1 DEF Quiet
<1> QED
  BY <1>2, QuietStep

\* One request draws a token that is neither in the table nor drawn by another.
LEMMA FreshStep ==
    ASSUME TypeInv, TokenInv, NEW r \in Requests, NEW k \in Fresh,
           row' = row, blacklist' = blacklist,
           req'[r].new = k, req'[r].pc \notin ClaimSteps \cup {"revokeSet"},
           \A s \in Requests \ {r} : /\ req'[s].pc = req[s].pc /\ req'[s].tok = req[s].tok
                                     /\ req'[s].new = req[s].new
    PROVE  TokenInv'
<1> USE DEF TokenInv, NewInv, ClaimInv
<1>0. k \in Tokens /\ row[k].status = "absent" /\ \A s \in Requests : req[s].new # k
  BY DEF Fresh
<1>1. NewIsReserved'
  BY <1>0 DEF NewIsReserved
<1>2. NewIsAbsent'
  BY <1>0 DEF NewIsAbsent
<1>3. ClaimIsRevoked'
  BY DEF ClaimIsRevoked
<1>4. ClaimIsUnique'
  BY DEF ClaimIsUnique
<1>5. ClaimHasNoSuccessor'
  BY DEF ClaimHasNoSuccessor, Successor
<1>6. OneSuccessor' /\ SuccessorRevokes' /\ BlacklistedIsRevoked'
  BY DEF OneSuccessor, SuccessorRevokes, Successor, BlacklistedIsRevoked
<1> QED
  BY <1>1, <1>2, <1>3, <1>4, <1>5, <1>6

\* One request stores the token it has drawn, on its way out of its claim if it
\* has one; only the holder of a claim stores a successor.
LEMMA CreateStep ==
    ASSUME TypeInv, TokenInv, NEW r \in Requests, NEW t \in Tenants,
           NEW from \in Tokens \cup {None}, Create(req[r].new, t, from),
           req[r].pc \in {"create", "store"},
           from = (IF req[r].pc = "create" THEN req[r].tok ELSE None),
           blacklist' = blacklist,
           req'[r].pc \in {"role", "issue"}, req'[r].new = req[r].new,
           \A s \in Requests \ {r} : req'[s] = req[s]
    PROVE  TokenInv'
<1> USE DEF TokenInv, NewInv, ClaimInv
<1> DEFINE n == req[r].new
<1>1. /\ n \in Tokens /\ row[n].status = "absent"
      /\ \A s \in Requests : Proper(req[s])
  BY DEF TypeInv, RequestsProper, Proper, RefreshSteps, IssueSteps, NewIsAbsent, BeforeCreate
<1>2. /\ row'[n].status = "active" /\ row'[n].from = from
      /\ \A m \in Tokens \ {n} : row'[m] = row[m]
  BY <1>1, CreateTyped DEF TypeInv
<1>3. \A s \in Requests \ {r} : req[s].new # n
  BY <1>1, NoneAssumption DEF NewIsReserved
<1>4. NewIsReserved'
  BY DEF NewIsReserved
<1>5. NewIsAbsent'
  <2> SUFFICES ASSUME NEW s \in Requests, req'[s].pc \in BeforeCreate
               PROVE  row'[req'[s].new].status = "absent"
    BY DEF NewIsAbsent
  <2>1. s # r /\ req'[s] = req[s]
    BY DEF BeforeCreate
  <2>2. req[s].new \in Tokens
    BY <1>1, <2>1 DEF Proper, BeforeCreate, RefreshSteps, IssueSteps
  <2> QED BY <1>2, <1>3, <2>1, <2>2 DEF NewIsAbsent
<1>6. \A s \in Requests : req[s].pc \in ClaimSteps \cup {"revokeSet"} =>
        /\ req[s].tok \in Tokens \ {n} /\ row'[req[s].tok] = row[req[s].tok]
  BY <1>1, <1>2 DEF Proper, ClaimSteps, RefreshSteps, ClaimIsRevoked
<1>7. \A s \in Requests : req'[s].pc \in ClaimSteps \cup {"revokeSet"} =>
        s # r /\ req'[s] = req[s]
  BY DEF ClaimSteps
<1>8. ClaimIsRevoked' /\ ClaimIsUnique'
  BY <1>6, <1>7 DEF ClaimIsRevoked, ClaimIsUnique
<1>9. \A m \in Tokens, k \in Tokens : Successor(m, k)' <=> Successor(m, k) \/ (m = n /\ from = k)
  BY <1>1, <1>2 DEF Successor
<1>10. \A k \in Tokens : from = k => /\ req[r].pc = "create" /\ req[r].tok = k
                                     /\ \A m \in Tokens : ~ Successor(m, k)
  BY NoneAssumption DEF ClaimHasNoSuccessor, ClaimSteps
<1>11. ClaimHasNoSuccessor'
  <2> SUFFICES ASSUME NEW s \in Requests, req'[s].pc \in ClaimSteps, NEW m \in Tokens,
                      row'[m].status # "absent", row'[m].from = req'[s].tok
               PROVE  FALSE
    BY DEF ClaimHasNoSuccessor, Successor
  <2>1. s # r /\ req'[s] = req[s] /\ req[s].tok \in Tokens
    BY <1>6, <1>7
  <2>2. ~ Successor(m, req[s].tok)
    BY <2>1 DEF ClaimHasNoSuccessor
  <2>3. m = n /\ from = req[s].tok
    BY <1>9, <2>1, <2>2 DEF Successor
  <2> QED BY <1>10, <2>1, <2>3 DEF ClaimIsUnique, ClaimSteps
<1>12. OneSuccessor'
  BY <1>9, <1>10 DEF OneSuccessor
<1>13. SuccessorRevokes'
  <2> SUFFICES ASSUME NEW k \in Tokens, NEW m \in Tokens, Successor(m, k)'
               PROVE  row'[k].status = "revoked"
    BY DEF SuccessorRevokes, Successor
  <2>1. row[k].status = "revoked"
    <3>1. CASE Successor(m, k)
      BY <3>1 DEF SuccessorRevokes
    <3>2. CASE m = n /\ from = k
      BY <1>10, <3>2 DEF ClaimIsRevoked, ClaimSteps
    <3> QED BY <1>9, <3>1, <3>2
  <2>2. k # n
    BY <1>1, <2>1
  <2> QED BY <1>2, <2>1, <2>2
<1>14. BlacklistedIsRevoked'
  <2>1. n \notin blacklist
    BY <1>1 DEF BlacklistedIsRevoked
  <2> QED BY <1>2, <2>1 DEF BlacklistedIsRevoked, TypeInv, TypeOK
<1> QED
  BY <1>4, <1>5, <1>8, <1>11, <1>12, <1>13, <1>14

\* One request revokes an active token, in Rotate or in Revoke: there was no claim
\* on it and no successor of it.
LEMMA RevokeStep ==
    ASSUME TypeInv, TokenInv, NEW r \in Requests, NEW k \in Tokens,
           k = req[r].tok, row[k].status = "active",
           row' = [row EXCEPT ![k].status = "revoked"], blacklist' = blacklist,
           \/ req[r].pc = "rotate" /\ req'[r].pc = "set"
           \/ req[r].pc = "revoke" /\ req'[r].pc = "revokeSet",
           req'[r].tok = k, req'[r].new = req[r].new,
           \A s \in Requests \ {r} : req'[s] = req[s]
    PROVE  TokenInv'
<1> USE DEF TokenInv, NewInv, ClaimInv
<1>1. /\ row'[k].status = "revoked" /\ row'[k].from = row[k].from
      /\ \A m \in Tokens \ {k} : row'[m] = row[m]
  BY RevokeTyped DEF TypeInv
<1>2. \A s \in Requests : Proper(req[s])
  BY DEF TypeInv, RequestsProper
<1>3. \A s \in Requests : req[s].pc \in ClaimSteps \cup {"revokeSet"} => req[s].tok # k
  BY DEF ClaimIsRevoked
<1>4. \A m \in Tokens : ~ Successor(m, k)
  BY DEF SuccessorRevokes
<1>5. \A m, j \in Tokens : (row'[m].status # "absent" /\ row'[m].from = j) <=> Successor(m, j)
  BY <1>1 DEF Successor
<1>6. NewIsReserved'
  BY DEF NewIsReserved
<1>7. NewIsAbsent'
  <2> SUFFICES ASSUME NEW s \in Requests, req'[s].pc \in BeforeCreate
               PROVE  row'[req'[s].new].status = "absent"
    BY DEF NewIsAbsent
  <2>1. req[s].pc \in BeforeCreate /\ req'[s].new = req[s].new
    BY DEF BeforeCreate
  <2>2. req[s].new \in Tokens /\ row[req[s].new].status = "absent"
    BY <1>2, <2>1 DEF Proper, BeforeCreate, RefreshSteps, IssueSteps, NewIsAbsent
  <2> QED BY <1>1, <2>1, <2>2
<1>8. ClaimIsRevoked'
  <2> SUFFICES ASSUME NEW s \in Requests, req'[s].pc \in ClaimSteps \cup {"revokeSet"}
               PROVE  row'[req'[s].tok].status = "revoked"
    BY DEF ClaimIsRevoked
  <2>1. CASE s = r
    BY <1>1, <2>1
  <2>2. CASE s # r
    BY <1>1, <1>2, <2>2 DEF Proper, ClaimSteps, RefreshSteps, ClaimIsRevoked
  <2> QED BY <2>1, <2>2
<1>9. ClaimIsUnique'
  BY <1>3 DEF ClaimIsUnique
<1>10. ClaimHasNoSuccessor'
  <2> SUFFICES ASSUME NEW s \in Requests, req'[s].pc \in ClaimSteps, NEW m \in Tokens,
                      row'[m].status # "absent", row'[m].from = req'[s].tok
               PROVE  FALSE
    BY DEF ClaimHasNoSuccessor, Successor
  <2>1. CASE s = r
    BY <1>4, <1>5, <2>1
  <2>2. CASE s # r
    <3>1. req'[s] = req[s] /\ req[s].tok \in Tokens
      BY <1>2, <2>2 DEF Proper, ClaimSteps, RefreshSteps
    <3> QED BY <1>5, <3>1 DEF ClaimHasNoSuccessor
  <2> QED BY <2>1, <2>2
<1>11. OneSuccessor'
  BY <1>5 DEF OneSuccessor, Successor
<1>12. SuccessorRevokes'
  BY <1>1, <1>5 DEF SuccessorRevokes, Successor
<1>13. BlacklistedIsRevoked'
  BY <1>1 DEF BlacklistedIsRevoked, TypeInv, TypeOK
<1> QED
  BY <1>6, <1>7, <1>8, <1>9, <1>10, <1>11, <1>12, <1>13

\* One request tells Redis about a token that it has revoked.
LEMMA BlacklistStep ==
    ASSUME TypeInv, TokenInv, NEW r \in Requests, NEW lost \in BOOLEAN,
           Blacklist(req[r].tok, lost), row' = row,
           \/ req[r].pc = "set" /\ req'[r].pc = "create"
           \/ req[r].pc = "revokeSet" /\ req'[r].pc = "clear",
           req'[r].tok = req[r].tok, req'[r].new = req[r].new,
           \A s \in Requests \ {r} : req'[s] = req[s]
    PROVE  TokenInv'
<1> USE DEF TokenInv, NewInv, ClaimInv
<1>1. NewIsReserved'
  BY DEF NewIsReserved
<1>2. NewIsAbsent'
  BY DEF NewIsAbsent, BeforeCreate
<1>3. ClaimIsRevoked'
  BY DEF ClaimIsRevoked, ClaimSteps
<1>4. ClaimIsUnique'
  BY DEF ClaimIsUnique, ClaimSteps
<1>5. ClaimHasNoSuccessor'
  BY DEF ClaimHasNoSuccessor, ClaimSteps, Successor
<1>6. OneSuccessor' /\ SuccessorRevokes'
  BY DEF OneSuccessor, SuccessorRevokes, Successor
<1>7. BlacklistedIsRevoked'
  BY DEF Blacklist, BlacklistedIsRevoked, ClaimIsRevoked, ClaimSteps
<1> QED
  BY <1>1, <1>2, <1>3, <1>4, <1>5, <1>6, <1>7

\* A step of a request by Goto that takes no claim.
LEMMA QuietGotoStep ==
    ASSUME TypeInv, TokenInv, NEW r \in Requests,
           NEW pc \in (RefreshSteps \cup LogoutSteps \cup IssueSteps)
                        \ (ClaimSteps \cup {"revokeSet"}),
           Goto(r, pc), row' = row, blacklist' = blacklist,
           pc \in BeforeCreate => req[r].pc \in BeforeCreate
    PROVE  TokenInv'
<1> DEFINE v == [req[r] EXCEPT !.pc = pc]
<1>1. pc # "idle"
  BY DEF RefreshSteps, LogoutSteps, IssueSteps
<1>2. req' = [req EXCEPT ![r] = v]
  BY <1>1 DEF Goto
<1>3. v.new = req[r].new /\ v.pc = pc
  BY DEF TypeInv, TypeOK, Request
<1> QED
  BY <1>2, <1>3, QuietGoto

LEMMA TokenInvHolds == Spec => []TokenInv
<1>1. Init => TokenInv
  BY DEF Init, TokenInv, NewInv, ClaimInv, NewIsReserved, NewIsAbsent, ClaimIsRevoked,
         ClaimIsUnique, ClaimHasNoSuccessor, OneSuccessor, SuccessorRevokes, Successor,
         BlacklistedIsRevoked, Idle, NoRow, ClaimSteps, BeforeCreate
<1>2. TypeInv /\ TokenInv /\ [Next]_vars => TokenInv'
  <2> SUFFICES ASSUME TypeInv, TokenInv, [Next]_vars PROVE TokenInv'
    OBVIOUS
  <2>p. \A s \in Requests : Proper(req[s])
    BY DEF TypeInv, RequestsProper
  <2>t. req \in [Requests -> Request]
    BY DEF TypeInv, TypeOK
  <2>1. ASSUME NEW r \in Requests, NEW b \in Browsers, LogoutBegin(r, b) PROVE TokenInv'
    <3> DEFINE v == [Idle EXCEPT !.pc = IF cookie[b] = None THEN "clear" ELSE "revoke",
                                 !.browser = b, !.tok = cookie[b]]
    <3>1. /\ req' = [req EXCEPT ![r] = v] /\ v.pc \in {"clear", "revoke"} /\ v.new = None
          /\ UNCHANGED <<row, blacklist>>
      BY <2>1 DEF LogoutBegin, Idle
    <3>2. req'[r] = v /\ \A s \in Requests \ {r} : req'[s] = req[s]
      BY <2>t, <3>1
    <3>3. \A s \in Requests : Quiet(s)
      BY <3>1, <3>2 DEF Quiet, ClaimSteps, BeforeCreate
    <3> QED BY <3>1, <3>3, QuietStep
  <2>2. ASSUME NEW r \in Requests, NEW b \in Browsers, NEW k \in Tokens, RefreshBegin(r, b, k)
        PROVE  TokenInv'
    <3> DEFINE v == [Idle EXCEPT !.pc = "blacklisted", !.browser = b, !.tok = cookie[b],
                                 !.new = k]
    <3>1. req' = [req EXCEPT ![r] = v] /\ k \in Fresh /\ UNCHANGED <<row, blacklist>>
      BY <2>2 DEF RefreshBegin
    <3>2. v.new = k /\ v.pc = "blacklisted"
      BY DEF Idle
    <3>3. req'[r] = v /\ \A s \in Requests \ {r} : req'[s] = req[s]
      BY <2>t, <3>1
    <3> QED BY <3>1, <3>2, <3>3, FreshStep DEF ClaimSteps
  <2>3. ASSUME NEW r \in Requests, NEW b \in Browsers, NEW k \in Tokens, NEW pc, NEW t,
               pc \in {"lookup", "member"}, IssueBegin(r, b, k, pc, t)
        PROVE  TokenInv'
    <3> DEFINE v == [Idle EXCEPT !.pc = pc, !.browser = b, !.new = k, !.tenant = t,
                                 !.held = {role[u] : u \in Tenants \cap {t}}]
    <3>1. req' = [req EXCEPT ![r] = v] /\ k \in Fresh /\ UNCHANGED <<row, blacklist>>
      BY <2>3 DEF IssueBegin
    <3>2. v.new = k /\ v.pc = pc
      BY DEF Idle
    <3>3. req'[r] = v /\ \A s \in Requests \ {r} : req'[s] = req[s]
      BY <2>t, <3>1
    <3> QED BY <2>3, <3>1, <3>2, <3>3, FreshStep DEF ClaimSteps
  <2>4. ASSUME NEW r \in Requests, NEW b \in Browsers, NEW k \in Tokens, NEW t \in Tenants,
               CreateTenant(r, b, k, t)
        PROVE  TokenInv'
    <3> DEFINE v == [Idle EXCEPT !.pc = "store", !.browser = b, !.new = k, !.tenant = t,
                                 !.role = "owner"]
    <3>1. /\ req' = [q \in Requests |-> Witness(IF q = r THEN v ELSE req[q], t, "owner")]
          /\ k \in Fresh /\ UNCHANGED <<row, blacklist>>
      BY <2>4 DEF CreateTenant
    <3>2. Proper(v) /\ v.pc = "store" /\ v.new = k
      BY BeginProper DEF TypeInv, Idle
    <3>3. req'[r] = Witness(v, t, "owner")
      BY <3>1
    <3>4. \A s \in Requests \ {r} : req'[s] = Witness(req[s], t, "owner")
      BY <3>1
    <3>5. "owner" \in Role \cup {None}
      BY DEF Role
    <3> HIDE DEF v
    <3>6. Witness(v, t, "owner").pc = v.pc /\ Witness(v, t, "owner").new = v.new
      BY <3>2, <3>5, WitnessProper
    <3>7. \A s \in Requests \ {r} : /\ req'[s].pc = req[s].pc /\ req'[s].tok = req[s].tok
                                    /\ req'[s].new = req[s].new
      <4> SUFFICES ASSUME NEW s \in Requests \ {r}
                   PROVE  /\ req'[s].pc = req[s].pc /\ req'[s].tok = req[s].tok
                          /\ req'[s].new = req[s].new
        OBVIOUS
      <4>1. /\ Witness(req[s], t, "owner").pc = req[s].pc
            /\ Witness(req[s], t, "owner").tok = req[s].tok
            /\ Witness(req[s], t, "owner").new = req[s].new
        BY <2>t, WitnessKeeps
      <4> QED BY <3>4, <4>1
    <3>8. req'[r].new = k /\ req'[r].pc = "store"
      BY <3>2, <3>3, <3>6
    <3> QED BY <3>1, <3>7, <3>8, FreshStep DEF ClaimSteps
  <2>5. ASSUME NEW r \in Requests, IsBlacklisted(r) PROVE TokenInv'
    <3>1. CASE Goto(r, "idle")
      BY <2>5, <3>1, QuietIdle DEF IsBlacklisted
    <3>2. CASE Goto(r, "claims")
      BY <2>5, <3>2, QuietGotoStep DEF IsBlacklisted, RefreshSteps, ClaimSteps, BeforeCreate
    <3> QED BY <2>5, <3>1, <3>2 DEF IsBlacklisted
  <2>6. ASSUME NEW r \in Requests, GetActiveClaims(r) PROVE TokenInv'
    <3> DEFINE k == req[r].tok
    <3> DEFINE v == [req[r] EXCEPT !.pc = "rotate", !.tenant = row[k].tenant,
                                   !.held = {role[row[k].tenant]}]
    <3>1. req[r].pc = "claims" /\ UNCHANGED <<row, blacklist>>
      BY <2>6 DEF GetActiveClaims
    <3>2. CASE Usable(k)
      <4>1. req' = [req EXCEPT ![r] = v]
        BY <2>6, <3>2 DEF GetActiveClaims
      <4>2. v.new = req[r].new /\ v.pc = "rotate"
        BY <2>t DEF Request
      <4> QED BY <3>1, <4>1, <4>2, QuietGoto DEF ClaimSteps, BeforeCreate
    <3>3. CASE ~ Usable(k)
      BY <2>6, <3>1, <3>3, QuietIdle DEF GetActiveClaims, Goto
    <3> QED BY <3>2, <3>3
  <2>7. ASSUME NEW r \in Requests, RotateClaim(r) PROVE TokenInv'
    <3> DEFINE k == req[r].tok
    <3>1. k \in Tokens /\ req[r].pc = "rotate" /\ blacklist' = blacklist
      BY <2>7, <2>p DEF RotateClaim, Proper, RefreshSteps
    <3>2. CASE row[k].status = "active"
      <4>1. Goto(r, "set") /\ row' = [row EXCEPT ![k].status = "revoked"]
        BY <2>7, <3>2 DEF RotateClaim
      <4>2. /\ req'[r].pc = "set" /\ req'[r].tok = k /\ req'[r].new = req[r].new
            /\ \A s \in Requests \ {r} : req'[s] = req[s]
        BY <3>1, <4>1, GotoProper
        DEF TypeInv, RefreshSteps, LogoutSteps, IssueSteps, TenantSteps, RoleSteps
      <4> QED BY <3>1, <3>2, <4>1, <4>2, RevokeStep
    <3>3. CASE row[k].status # "active"
      BY <2>7, <3>1, <3>3, QuietIdle DEF RotateClaim
    <3> QED BY <3>2, <3>3
  <2>8. ASSUME NEW r \in Requests, NEW lost \in BOOLEAN, RotateSet(r, lost) PROVE TokenInv'
    <3>1. Goto(r, "create") /\ req[r].pc = "set" /\ Blacklist(req[r].tok, lost) /\ row' = row
      BY <2>8 DEF RotateSet
    <3>2. /\ req'[r].pc = "create" /\ req'[r].tok = req[r].tok /\ req'[r].new = req[r].new
          /\ \A s \in Requests \ {r} : req'[s] = req[s]
      BY <3>1, GotoProper
      DEF TypeInv, RefreshSteps, LogoutSteps, IssueSteps, TenantSteps, RoleSteps
    <3> QED BY <3>1, <3>2, BlacklistStep
  <2>9. ASSUME NEW r \in Requests, NEW lost \in BOOLEAN, RevokeSet(r, lost) PROVE TokenInv'
    <3>1. Goto(r, "clear") /\ req[r].pc = "revokeSet" /\ Blacklist(req[r].tok, lost) /\ row' = row
      BY <2>9 DEF RevokeSet
    <3>2. /\ req'[r].pc = "clear" /\ req'[r].tok = req[r].tok /\ req'[r].new = req[r].new
          /\ \A s \in Requests \ {r} : req'[s] = req[s]
      BY <3>1, GotoProper
      DEF TypeInv, RefreshSteps, LogoutSteps, IssueSteps, TenantSteps, RoleSteps
    <3> QED BY <3>1, <3>2, BlacklistStep
  <2>10. ASSUME NEW r \in Requests, RotateCreate(r) PROVE TokenInv'
    <3> DEFINE k == req[r].tok
    <3>1. Goto(r, "role") /\ req[r].pc = "create" /\ blacklist' = blacklist
      BY <2>10 DEF RotateCreate
    <3>2. k \in Tokens /\ row[k].tenant \in Tenants
      BY <2>p, <3>1, RowChanges DEF Proper, RefreshSteps, TypeInv, RotatedRowExists
    <3>3. /\ req'[r].pc = "role" /\ req'[r].new = req[r].new
          /\ \A s \in Requests \ {r} : req'[s] = req[s]
      BY <3>1, GotoProper
      DEF TypeInv, RefreshSteps, LogoutSteps, IssueSteps, TenantSteps, RoleSteps
    <3>4. Create(req[r].new, row[k].tenant, k)
      BY <2>10 DEF RotateCreate
    <3> QED BY <3>1, <3>2, <3>3, <3>4, CreateStep
  <2>11. ASSUME NEW r \in Requests, Store(r) PROVE TokenInv'
    <3>1. /\ Goto(r, "issue") /\ req[r].pc = "store" /\ blacklist' = blacklist
          /\ Create(req[r].new, req[r].tenant, None)
      BY <2>11 DEF Store
    <3>2. req[r].tenant \in Tenants
      BY <2>p, <3>1 DEF Proper, TenantSteps
    <3>3. /\ req'[r].pc = "issue" /\ req'[r].new = req[r].new
          /\ \A s \in Requests \ {r} : req'[s] = req[s]
      BY <3>1, GotoProper
      DEF TypeInv, RefreshSteps, LogoutSteps, IssueSteps, TenantSteps, RoleSteps
    <3> QED BY <3>1, <3>2, <3>3, CreateStep
  <2>12. ASSUME NEW r \in Requests, NEW ro \in Role, RefreshRole(r, ro) \/ SwitchRole(r, ro)
         PROVE  TokenInv'
    <3> DEFINE pc == IF req[r].pc = "role" THEN "sign" ELSE "store"
    <3> DEFINE v == [req[r] EXCEPT !.pc = pc, !.role = ro]
    <3>1. /\ req[r].pc \in {"role", "switchRole"} /\ req' = [req EXCEPT ![r] = v]
          /\ UNCHANGED <<row, blacklist>>
      BY <2>12 DEF RefreshRole, SwitchRole
    <3>2. /\ v.new = req[r].new /\ v.pc \in {"sign", "store"}
          /\ v.pc = "store" => req[r].pc = "switchRole"
      BY <2>t, <3>1 DEF Request
    <3> HIDE DEF v
    <3> QED BY <3>1, <3>2, QuietGoto DEF ClaimSteps, BeforeCreate
  <2>13. ASSUME NEW r \in Requests, NEW arrives \in BOOLEAN,
                \/ Respond(r, "sign", arrives) \/ Respond(r, "issue", arrives)
                \/ LogoutRespond(r, arrives)
         PROVE  TokenInv'
    BY <2>13, QuietIdle DEF Respond, LogoutRespond
  <2>14. ASSUME NEW r \in Requests, Revoke(r) PROVE TokenInv'
    <3> DEFINE k == req[r].tok
    <3>1. k \in Tokens /\ req[r].pc = "revoke" /\ blacklist' = blacklist
      BY <2>14, <2>p DEF Revoke, Proper
    <3>2. CASE row[k].status = "active"
      <4>1. Goto(r, "revokeSet") /\ row' = [row EXCEPT ![k].status = "revoked"]
        BY <2>14, <3>2 DEF Revoke
      <4>2. /\ req'[r].pc = "revokeSet" /\ req'[r].tok = k /\ req'[r].new = req[r].new
            /\ \A s \in Requests \ {r} : req'[s] = req[s]
        BY <3>1, <4>1, GotoProper
        DEF TypeInv, RefreshSteps, LogoutSteps, IssueSteps, TenantSteps, RoleSteps
      <4> QED BY <3>1, <3>2, <4>1, <4>2, RevokeStep
    <3>3. CASE row[k].status # "active"
      <4>1. Goto(r, "clear") /\ row' = row
        BY <2>14, <3>3 DEF Revoke
      <4> QED BY <3>1, <4>1, QuietGotoStep DEF LogoutSteps, ClaimSteps, BeforeCreate
    <3> QED BY <3>2, <3>3
  <2>15. ASSUME NEW r \in Requests, RevokeFails(r) PROVE TokenInv'
    BY <2>15, QuietGotoStep DEF RevokeFails, LogoutSteps, ClaimSteps, BeforeCreate
  <2>16. ASSUME NEW r \in Requests, LookupFails(r) PROVE TokenInv'
    BY <2>16, QuietGotoStep DEF LookupFails, IssueSteps, ClaimSteps, BeforeCreate
  <2>17. ASSUME NEW r \in Requests, Lookup(r) PROVE TokenInv'
    <3>1. req[r].pc = "lookup" /\ UNCHANGED <<row, blacklist>>
      BY <2>17 DEF Lookup
    <3>2. CASE Goto(r, "autojoin")
      BY <3>1, <3>2, QuietGotoStep DEF IssueSteps, ClaimSteps, BeforeCreate
    <3>3. CASE ~ Goto(r, "autojoin")
      <4>1. PICK t \in Tenants :
              req' = [req EXCEPT ![r].pc = "store", ![r].tenant = t, ![r].role = role[t],
                                 ![r].held = {role[t]}]
        BY <2>17, <3>3, DefaultAssumption DEF Lookup
      <4> DEFINE v == [req[r] EXCEPT !.pc = "store", !.tenant = t, !.role = role[t],
                                     !.held = {role[t]}]
      <4>2. req' = [req EXCEPT ![r] = v]
        BY <4>1
      <4>3. v.new = req[r].new /\ v.pc = "store"
        BY <2>t DEF Request
      <4> QED BY <3>1, <4>2, <4>3, QuietGoto DEF ClaimSteps, BeforeCreate
    <3> QED BY <3>2, <3>3
  <2>18. ASSUME NEW r \in Requests, AutoJoin(r) PROVE TokenInv'
    <3> DEFINE v == [req[r] EXCEPT !.pc = "store", !.tenant = DefaultTenant,
                                   !.role = AutoJoinRole]
    <3>1. /\ req' = [q \in Requests |-> Witness(IF q = r THEN v ELSE req[q], DefaultTenant,
                                                AutoJoinRole)]
          /\ req[r].pc = "autojoin" /\ UNCHANGED <<row, blacklist>>
      BY <2>18 DEF AutoJoin
    <3>2. Proper(v) /\ v.pc = "store" /\ v.new = req[r].new
      BY <2>p, <3>1, DefaultAssumption, AutoJoinAssumption, ZenonT(30)
      DEF Proper, Request, RefreshSteps, LogoutSteps, IssueSteps, TenantSteps, RoleSteps, Role
    <3>3. req'[r] = Witness(v, DefaultTenant, AutoJoinRole)
      BY <3>1
    <3>4. \A s \in Requests \ {r} : req'[s] = Witness(req[s], DefaultTenant, AutoJoinRole)
      BY <3>1
    <3>5. AutoJoinRole \in Role \cup {None} /\ DefaultTenant \in Tenants
      BY DefaultAssumption, AutoJoinAssumption DEF Role
    <3> HIDE DEF v
    <3>6. /\ Witness(v, DefaultTenant, AutoJoinRole).pc = v.pc
          /\ Witness(v, DefaultTenant, AutoJoinRole).new = v.new
      BY <3>2, <3>5, WitnessProper
    <3>7. \A s \in Requests \ {r} : Quiet(s)
      <4> SUFFICES ASSUME NEW s \in Requests \ {r} PROVE Quiet(s)
        OBVIOUS
      <4>1. /\ Witness(req[s], DefaultTenant, AutoJoinRole).pc = req[s].pc
            /\ Witness(req[s], DefaultTenant, AutoJoinRole).tok = req[s].tok
            /\ Witness(req[s], DefaultTenant, AutoJoinRole).new = req[s].new
        BY <2>t, WitnessKeeps
      <4> QED BY <3>4, <4>1 DEF Quiet
    <3>8. Quiet(r)
      BY <3>1, <3>2, <3>3, <3>6 DEF Quiet, ClaimSteps, BeforeCreate
    <3> QED BY <3>1, <3>7, <3>8, QuietStep
  <2>19. ASSUME NEW r \in Requests, IsMember(r) PROVE TokenInv'
    <3>1. CASE Goto(r, "idle")
      BY <2>19, <3>1, QuietIdle DEF IsMember
    <3>2. CASE Goto(r, "switchRole")
      BY <2>19, <3>2, QuietGotoStep DEF IsMember, IssueSteps, ClaimSteps, BeforeCreate
    <3> QED BY <2>19, <3>1, <3>2 DEF IsMember
  <2>20. ASSUME NEW r \in Requests,
                Fails(r, {"blacklisted", "claims", "rotate", "create", "autojoin", "member",
                          "store"})
         PROVE  TokenInv'
    BY <2>20, QuietIdle DEF Fails
  <2>21. ASSUME NEW t \in Tenants, NEW ro \in Role \cup {None},
                req' = [q \in Requests |-> Witness(req[q], t, ro)],
                UNCHANGED <<row, blacklist>>
         PROVE  TokenInv'
    <3>1. \A s \in Requests : Quiet(s)
      <4> SUFFICES ASSUME NEW s \in Requests PROVE Quiet(s)
        OBVIOUS
      <4>1. /\ Witness(req[s], t, ro).pc = req[s].pc
            /\ Witness(req[s], t, ro).tok = req[s].tok
            /\ Witness(req[s], t, ro).new = req[s].new
        BY <2>t, WitnessKeeps
      <4> QED BY <2>21, <4>1 DEF Quiet
    <3> QED BY <2>21, <3>1, QuietStep
  <2>22. ASSUME NEW t \in Tenants, NEW ro \in {"admin", "member"}, UpdateMemberRole(t, ro)
         PROVE  TokenInv'
    BY <2>21, <2>22 DEF UpdateMemberRole, Role
  <2>23. ASSUME NEW t \in Tenants, RemoveMember(t) PROVE TokenInv'
    BY <2>21, <2>23 DEF RemoveMember
  <2>24. ASSUME NEW k \in Tokens, Expire(k) PROVE TokenInv'
    <3>1. \A m \in Tokens : row'[m].status = row[m].status /\ row'[m].from = row[m].from
      <4>1. row[k] \in [status : {"active", "revoked"}, tenant : Tenants,
                        from : Tokens \cup {None}, expired : BOOLEAN]
        BY <2>24 DEF Expire, TypeInv, TypeOK, Row, NoRow
      <4> QED BY <2>24, <4>1 DEF Expire, TypeInv, TypeOK
    <3>2. req' = req /\ blacklist' \subseteq blacklist /\ blacklist \subseteq Tokens
      BY <2>24 DEF Expire, TypeInv, TypeOK
    <3>3. \A s \in Requests : /\ req[s].pc \in BeforeCreate => req[s].new \in Tokens
                              /\ req[s].pc \in ClaimSteps \cup {"revokeSet"} => req[s].tok \in Tokens
      BY <2>p DEF Proper, BeforeCreate, ClaimSteps, RefreshSteps, IssueSteps
    <3> USE DEF TokenInv, NewInv, ClaimInv
    <3>4. NewIsReserved' /\ ClaimIsUnique'
      BY <3>2 DEF NewIsReserved, ClaimIsUnique
    <3>5. NewIsAbsent' /\ ClaimIsRevoked'
      BY <3>1, <3>2, <3>3 DEF NewIsAbsent, ClaimIsRevoked
    <3>6. ClaimHasNoSuccessor'
      BY <3>1, <3>2 DEF ClaimHasNoSuccessor, Successor
    <3>7. OneSuccessor' /\ SuccessorRevokes'
      BY <3>1 DEF OneSuccessor, SuccessorRevokes, Successor
    <3>8. BlacklistedIsRevoked'
      BY <3>1, <3>2 DEF BlacklistedIsRevoked
    <3> QED BY <3>4, <3>5, <3>6, <3>7, <3>8
  <2>25. CASE UNCHANGED vars
    BY <2>25, QuietStep DEF vars, Quiet
  <2>26. ASSUME NEW r \in Requests, Step(r) PROVE TokenInv'
    BY <2>26, <2>5, <2>6, <2>7, <2>8, <2>9, <2>10, <2>11, <2>12, <2>13, <2>14, <2>15, <2>16,
       <2>17, <2>18, <2>19, <2>20 DEF Step
  <2> QED
    BY <2>1, <2>2, <2>3, <2>4, <2>22, <2>23, <2>24, <2>25, <2>26
    DEF Next, LoginBegin, SwitchBegin, Register, CreateUserTenant
<1> QED
  BY <1>1, <1>2, TypeInvHolds, PTL DEF Spec

\* However many requests present one refresh token, in whatever interleaving and
\* with whichever statement failing, Rotate of token_store.go gives it at most one
\* successor, and none while it is active.
THEOREM SessionsNeverFork == Spec => []SessionNeverForks
<1>1. TokenInv => SessionNeverForks
  BY DEF TokenInv, OneSuccessor, SuccessorRevokes, Successor, SessionNeverForks
<1> QED
  BY <1>1, TokenInvHolds, PTL

\* Redis never refuses a session that PostgreSQL holds active: Rotate and Revoke
\* write the blacklist only after their UPDATE, and a revoked row stays revoked.
THEOREM BlacklistFollowsTable == Spec => []BlacklistedIsRevoked
BY TokenInvHolds, PTL DEF TokenInv

-----------------------------------------------------------------------------
(***************************************************************************)
(* The inductive invariant of the roles: the history of a request that has  *)
(* chosen its tenant includes the role held there now, and a role it has    *)
(* chosen is in its history or is the fallback.                            *)
(***************************************************************************)
HeldOf(q, roles) ==
    /\ q.pc \in TenantSteps => roles[q.tenant] \in q.held
    /\ q.pc \in RoleSteps => q.role \in q.held \cup {"member"}

HeldInv == \A r \in Requests : HeldOf(req[r], role)

\* A step of one request while no role changes.
LEMMA HeldStep ==
    ASSUME TypeInv, HeldInv, role' = role, NEW r \in Requests, HeldOf(req'[r], role),
           \A s \in Requests \ {r} : req'[s] = req[s]
    PROVE  HeldInv'
BY DEF HeldInv

LEMMA HeldIdle == \A roles : HeldOf(Idle, roles)
BY DEF HeldOf, Idle, TenantSteps, RoleSteps

\* A step by Goto, within the steps whose tenant and role are chosen alike.
LEMMA HeldGoto ==
    ASSUME TypeInv, HeldInv, role' = role, NEW r \in Requests,
           NEW pc \in RefreshSteps \cup LogoutSteps \cup IssueSteps, Goto(r, pc),
           pc \in TenantSteps => req[r].pc \in TenantSteps,
           pc \in RoleSteps => req[r].pc \in RoleSteps
    PROVE  HeldInv'
<1> DEFINE v == [req[r] EXCEPT !.pc = pc]
<1>1. pc # "idle"
  BY DEF RefreshSteps, LogoutSteps, IssueSteps
<1>2. req' = [req EXCEPT ![r] = v]
  BY <1>1 DEF Goto
<1>3. req'[r] = v /\ \A s \in Requests \ {r} : req'[s] = req[s]
  BY <1>2 DEF TypeInv, TypeOK
<1>4. v.pc = pc /\ v.tenant = req[r].tenant /\ v.role = req[r].role /\ v.held = req[r].held
  BY DEF TypeInv, TypeOK, Request
<1>5. HeldOf(v, role)
  BY <1>4 DEF HeldInv, HeldOf
<1> QED
  BY <1>3, <1>5, HeldStep

LEMMA HeldGotoIdle ==
    ASSUME TypeInv, HeldInv, role' = role, NEW r \in Requests, Goto(r, "idle")
    PROVE  HeldInv'
<1>1. req'[r] = Idle /\ \A s \in Requests \ {r} : req'[s] = req[s]
  BY GotoIdle DEF TypeInv
<1> QED
  BY <1>1, HeldStep, HeldIdle

\* A change of a role is recorded by every request that is about its tenant.
LEMMA WitnessHeld ==
    ASSUME NEW q, q \in Request, NEW t, NEW ro,
           NEW roles, roles \in [Tenants -> Role \cup {None}], t \in Tenants,
           q.pc \in TenantSteps => q.tenant \in Tenants,
           (q.pc \in TenantSteps /\ q.tenant # t) => roles[q.tenant] \in q.held,
           q.pc \in RoleSteps => (q.role \in q.held \cup {"member"} \/ (q.tenant = t /\ q.role = ro))
    PROVE  HeldOf(Witness(q, t, ro), [roles EXCEPT ![t] = ro])
<1> DEFINE w == Witness(q, t, ro)
<1>1. /\ w.pc = q.pc /\ w.tenant = q.tenant /\ w.role = q.role
      /\ w.held = IF q.tenant = t THEN q.held \cup {ro} ELSE q.held
  BY DEF Witness, Request
<1> HIDE DEF w
<1>2. w.pc \in TenantSteps => [roles EXCEPT ![t] = ro][w.tenant] \in w.held
  BY <1>1
<1>3. w.pc \in RoleSteps => w.role \in w.held \cup {"member"}
  BY <1>1
<1>4. HeldOf(w, [roles EXCEPT ![t] = ro])
  BY <1>2, <1>3 DEF HeldOf
<1> QED
  BY <1>4 DEF w

LEMMA HeldInvHolds == Spec => []HeldInv
<1>1. Init => HeldInv
  BY HeldIdle DEF Init, HeldInv
<1>2. TypeInv /\ HeldInv /\ [Next]_vars => HeldInv'
  <2> SUFFICES ASSUME TypeInv, HeldInv, [Next]_vars PROVE HeldInv'
    OBVIOUS
  <2>p. \A s \in Requests : Proper(req[s])
    BY DEF TypeInv, RequestsProper
  <2>t. req \in [Requests -> Request] /\ role \in [Tenants -> Role \cup {None}]
    BY DEF TypeInv, TypeOK
  <2>h. \A s \in Requests : HeldOf(req[s], role)
    BY DEF HeldInv
  <2>v. ASSUME NEW r \in Requests, NEW v, req' = [req EXCEPT ![r] = v], HeldOf(v, role),
               role' = role
        PROVE  HeldInv'
    <3>1. req'[r] = v /\ \A s \in Requests \ {r} : req'[s] = req[s]
      BY <2>t, <2>v
    <3> QED BY <2>v, <3>1, HeldStep
  <2>1. ASSUME NEW r \in Requests, NEW b \in Browsers, LogoutBegin(r, b) PROVE HeldInv'
    <3> DEFINE v == [Idle EXCEPT !.pc = IF cookie[b] = None THEN "clear" ELSE "revoke",
                                 !.browser = b, !.tok = cookie[b]]
    <3>1. HeldOf(v, role)
      BY DEF Idle, HeldOf, TenantSteps, RoleSteps
    <3> QED BY <2>1, <3>1, <2>v DEF LogoutBegin
  <2>2. ASSUME NEW r \in Requests, NEW b \in Browsers, NEW k \in Tokens, RefreshBegin(r, b, k)
        PROVE  HeldInv'
    <3> DEFINE v == [Idle EXCEPT !.pc = "blacklisted", !.browser = b, !.tok = cookie[b],
                                 !.new = k]
    <3>1. HeldOf(v, role)
      BY DEF Idle, HeldOf, TenantSteps, RoleSteps
    <3> QED BY <2>2, <3>1, <2>v DEF RefreshBegin
  <2>3. ASSUME NEW r \in Requests, NEW b \in Browsers, NEW k \in Tokens, LoginBegin(r, b, k)
        PROVE  HeldInv'
    <3> DEFINE v == [Idle EXCEPT !.pc = "lookup", !.browser = b, !.new = k, !.tenant = None,
                                 !.held = {role[u] : u \in Tenants \cap {None}}]
    <3>1. HeldOf(v, role)
      BY DEF Idle, HeldOf, TenantSteps, RoleSteps
    <3> QED BY <2>3, <3>1, <2>v DEF LoginBegin, IssueBegin
  <2>4. ASSUME NEW r \in Requests, NEW b \in Browsers, NEW k \in Tokens, NEW t \in Tenants,
               SwitchBegin(r, b, k, t)
        PROVE  HeldInv'
    <3> DEFINE v == [Idle EXCEPT !.pc = "member", !.browser = b, !.new = k, !.tenant = t,
                                 !.held = {role[u] : u \in Tenants \cap {t}}]
    <3>1. HeldOf(v, role)
      BY DEF Idle, HeldOf, TenantSteps, RoleSteps
    <3> QED BY <2>4, <3>1, <2>v DEF SwitchBegin, IssueBegin
  <2>5. ASSUME NEW r \in Requests, NEW b \in Browsers, NEW k \in Tokens, NEW t \in Tenants,
               CreateTenant(r, b, k, t)
        PROVE  HeldInv'
    <3> DEFINE v == [Idle EXCEPT !.pc = "store", !.browser = b, !.new = k, !.tenant = t,
                                 !.role = "owner"]
    <3>1. /\ req' = [q \in Requests |-> Witness(IF q = r THEN v ELSE req[q], t, "owner")]
          /\ role' = [role EXCEPT ![t] = "owner"]
      BY <2>5 DEF CreateTenant, Become
    <3>2. v \in Request /\ v.pc = "store" /\ v.tenant = t /\ v.role = "owner"
      <4>1. Proper(v)
        BY BeginProper DEF TypeInv
      <4>2. v \in Request
        BY <4>1 DEF Proper
      <4> QED BY <4>2 DEF Idle
    <3> HIDE DEF v
    <3>3. HeldOf(req'[r], role')
      BY <2>t, <3>1, <3>2, WitnessHeld
    <3>4. ASSUME NEW s \in Requests \ {r} PROVE HeldOf(req'[s], role')
      <4>1. HeldOf(Witness(req[s], t, "owner"), [role EXCEPT ![t] = "owner"])
        BY <2>t, <2>p, <2>h, WitnessHeld DEF HeldOf, Proper
      <4> QED BY <3>1, <4>1
    <3> QED BY <3>3, <3>4 DEF HeldInv
  <2>6. ASSUME NEW r \in Requests, IsBlacklisted(r) PROVE HeldInv'
    <3>1. CASE Goto(r, "idle")
      BY <2>6, <3>1, HeldGotoIdle DEF IsBlacklisted
    <3>2. CASE Goto(r, "claims")
      BY <2>6, <3>2, HeldGoto DEF IsBlacklisted, RefreshSteps, TenantSteps, RoleSteps
    <3> QED BY <2>6, <3>1, <3>2 DEF IsBlacklisted
  <2>7. ASSUME NEW r \in Requests, GetActiveClaims(r) PROVE HeldInv'
    <3> DEFINE k == req[r].tok
    <3> DEFINE v == [req[r] EXCEPT !.pc = "rotate", !.tenant = row[k].tenant,
                                   !.held = {role[row[k].tenant]}]
    <3>1. CASE Usable(k)
      <4>1. req' = [req EXCEPT ![r] = v] /\ role' = role
        BY <2>7, <3>1 DEF GetActiveClaims
      <4>2. HeldOf(v, role)
        BY <2>t DEF HeldOf, Request, TenantSteps, RoleSteps
      <4> QED BY <4>1, <4>2, <2>v
    <3>2. CASE ~ Usable(k)
      BY <2>7, <3>2, HeldGotoIdle DEF GetActiveClaims, Goto
    <3> QED BY <3>1, <3>2
  <2>8. ASSUME NEW r \in Requests, RotateClaim(r) PROVE HeldInv'
    <3>1. CASE Goto(r, "idle")
      BY <2>8, <3>1, HeldGotoIdle DEF RotateClaim
    <3>2. CASE Goto(r, "set")
      BY <2>8, <3>2, HeldGoto DEF RotateClaim, RefreshSteps, TenantSteps, RoleSteps
    <3> QED BY <2>8, <3>1, <3>2 DEF RotateClaim
  <2>9. ASSUME NEW r \in Requests, NEW lost \in BOOLEAN, RotateSet(r, lost) PROVE HeldInv'
    BY <2>9, HeldGoto DEF RotateSet, RefreshSteps, TenantSteps, RoleSteps
  <2>10. ASSUME NEW r \in Requests, NEW lost \in BOOLEAN, RevokeSet(r, lost) PROVE HeldInv'
    BY <2>10, HeldGoto DEF RevokeSet, LogoutSteps, TenantSteps, RoleSteps
  <2>11. ASSUME NEW r \in Requests, RotateCreate(r) PROVE HeldInv'
    BY <2>11, HeldGoto DEF RotateCreate, RefreshSteps, TenantSteps, RoleSteps
  <2>12. ASSUME NEW r \in Requests, Store(r) PROVE HeldInv'
    BY <2>12, HeldGoto DEF Store, IssueSteps, TenantSteps, RoleSteps
  <2>13. ASSUME NEW r \in Requests, NEW ro \in Role, RefreshRole(r, ro) \/ SwitchRole(r, ro)
         PROVE  HeldInv'
    <3> DEFINE pc == IF req[r].pc = "role" THEN "sign" ELSE "store"
    <3> DEFINE v == [req[r] EXCEPT !.pc = pc, !.role = ro]
    <3>1. /\ req[r].pc \in {"role", "switchRole"} /\ req' = [req EXCEPT ![r] = v]
          /\ role' = role /\ ro \in TenantRole(req[r].tenant)
      BY <2>13 DEF RefreshRole, SwitchRole
    <3>2. ro \in {role[req[r].tenant], "member"}
      BY <3>1 DEF TenantRole
    <3>3. role[req[r].tenant] \in req[r].held
      BY <2>h, <3>1 DEF HeldOf, TenantSteps
    <3>4. v.tenant = req[r].tenant /\ v.role = ro /\ v.held = req[r].held
      BY <2>t DEF Request
    <3>5. HeldOf(v, role)
      BY <3>2, <3>3, <3>4 DEF HeldOf
    <3> QED BY <3>1, <3>5, <2>v
  <2>14. ASSUME NEW r \in Requests, NEW arrives \in BOOLEAN,
                \/ Respond(r, "sign", arrives) \/ Respond(r, "issue", arrives)
                \/ LogoutRespond(r, arrives)
         PROVE  HeldInv'
    BY <2>14, HeldGotoIdle DEF Respond, LogoutRespond
  <2>15. ASSUME NEW r \in Requests, Revoke(r) \/ RevokeFails(r) PROVE HeldInv'
    <3>1. PICK pc \in {"revokeSet", "clear"} : Goto(r, pc) /\ role' = role
      BY <2>15 DEF Revoke, RevokeFails
    <3> QED BY <3>1, HeldGoto DEF LogoutSteps, TenantSteps, RoleSteps
  <2>16. ASSUME NEW r \in Requests, LookupFails(r) PROVE HeldInv'
    BY <2>16, HeldGoto DEF LookupFails, IssueSteps, TenantSteps, RoleSteps
  <2>17. ASSUME NEW r \in Requests, Lookup(r) PROVE HeldInv'
    <3>1. role' = role
      BY <2>17 DEF Lookup
    <3>2. CASE Goto(r, "autojoin")
      BY <3>1, <3>2, HeldGoto DEF IssueSteps, TenantSteps, RoleSteps
    <3>3. CASE ~ Goto(r, "autojoin")
      <4>1. PICK t \in Tenants :
              req' = [req EXCEPT ![r].pc = "store", ![r].tenant = t, ![r].role = role[t],
                                 ![r].held = {role[t]}]
        BY <2>17, <3>3, DefaultAssumption DEF Lookup
      <4> DEFINE v == [req[r] EXCEPT !.pc = "store", !.tenant = t, !.role = role[t],
                                     !.held = {role[t]}]
      <4>2. req' = [req EXCEPT ![r] = v]
        BY <4>1
      <4>3. HeldOf(v, role)
        BY <2>t DEF Request, HeldOf
      <4> QED BY <3>1, <4>2, <4>3, <2>v
    <3> QED BY <3>2, <3>3
  <2>18. ASSUME NEW r \in Requests, AutoJoin(r) PROVE HeldInv'
    <3> DEFINE v == [req[r] EXCEPT !.pc = "store", !.tenant = DefaultTenant,
                                   !.role = AutoJoinRole]
    <3>1. /\ req' = [q \in Requests |-> Witness(IF q = r THEN v ELSE req[q], DefaultTenant,
                                                AutoJoinRole)]
          /\ role' = [role EXCEPT ![DefaultTenant] = AutoJoinRole]
      BY <2>18 DEF AutoJoin, Become
    <3>2. v \in Request /\ v.pc = "store" /\ v.tenant = DefaultTenant /\ v.role = AutoJoinRole
      BY <2>t, DefaultAssumption, AutoJoinAssumption DEF Request, IssueSteps, Role
    <3> HIDE DEF v
    <3>3. HeldOf(req'[r], role')
      BY <2>t, <3>1, <3>2, WitnessHeld, DefaultAssumption
    <3>4. ASSUME NEW s \in Requests \ {r} PROVE HeldOf(req'[s], role')
      <4>1. HeldOf(Witness(req[s], DefaultTenant, AutoJoinRole),
                   [role EXCEPT ![DefaultTenant] = AutoJoinRole])
        BY <2>t, <2>p, <2>h, WitnessHeld, DefaultAssumption DEF HeldOf, Proper
      <4> QED BY <3>1, <4>1
    <3> QED BY <3>3, <3>4 DEF HeldInv
  <2>19. ASSUME NEW r \in Requests, IsMember(r) PROVE HeldInv'
    <3>1. CASE Goto(r, "idle")
      BY <2>19, <3>1, HeldGotoIdle DEF IsMember
    <3>2. CASE Goto(r, "switchRole")
      BY <2>19, <3>2, HeldGoto DEF IsMember, IssueSteps, TenantSteps, RoleSteps
    <3> QED BY <2>19, <3>1, <3>2 DEF IsMember
  <2>20. ASSUME NEW r \in Requests,
                Fails(r, {"blacklisted", "claims", "rotate", "create", "autojoin", "member",
                          "store"})
         PROVE  HeldInv'
    BY <2>20, HeldGotoIdle DEF Fails
  <2>21. ASSUME NEW t \in Tenants, NEW ro \in Role \cup {None}, Become(t, ro),
                req' = [q \in Requests |-> Witness(req[q], t, ro)]
         PROVE  HeldInv'
    <3> SUFFICES ASSUME NEW s \in Requests PROVE HeldOf(req'[s], role')
      BY DEF HeldInv
    <3>1. HeldOf(Witness(req[s], t, ro), [role EXCEPT ![t] = ro])
      BY <2>t, <2>p, <2>h, WitnessHeld DEF HeldOf, Proper
    <3> QED BY <2>21, <3>1 DEF Become
  <2>22. ASSUME NEW t \in Tenants, NEW ro \in {"admin", "member"}, UpdateMemberRole(t, ro)
         PROVE  HeldInv'
    BY <2>21, <2>22 DEF UpdateMemberRole, Role
  <2>23. ASSUME NEW t \in Tenants, RemoveMember(t) PROVE HeldInv'
    BY <2>21, <2>23 DEF RemoveMember
  <2>24. CASE UNCHANGED <<role, req>>
    BY <2>24 DEF HeldInv
  <2>25. ASSUME NEW k \in Tokens, Expire(k) PROVE HeldInv'
    BY <2>24, <2>25 DEF Expire
  <2>26. ASSUME NEW r \in Requests, Step(r) PROVE HeldInv'
    BY <2>26, <2>6, <2>7, <2>8, <2>9, <2>10, <2>11, <2>12, <2>13, <2>14, <2>15, <2>16, <2>17,
       <2>18, <2>19, <2>20 DEF Step
  <2> QED
    BY <2>1, <2>2, <2>3, <2>4, <2>5, <2>22, <2>23, <2>24, <2>25, <2>26
    DEF Next, Register, CreateUserTenant, vars
<1> QED
  BY <1>1, <1>2, TypeInvHolds, PTL DEF Spec

\* The role that Refresh, SwitchTenant, sign-in and tenant creation sign into an
\* access token was held in that tenant at some moment of the request, or is the
\* fallback "member", whatever UpdateMemberRole and RemoveMember do meanwhile.
THEOREM IssuedRoleHeld == Spec => []IssuedRoleWasHeld
<1>1. HeldInv => IssuedRoleWasHeld
  BY DEF HeldInv, HeldOf, RoleSteps, IssuedRoleWasHeld
<1> QED
  BY <1>1, HeldInvHolds, PTL
=============================================================================
