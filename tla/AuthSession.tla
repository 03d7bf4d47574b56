---------------------------- MODULE AuthSession ----------------------------
(***************************************************************************)
(* Sign-in sessions of one user: the refresh tokens kept in PostgreSQL and  *)
(* Redis (internal/auth/token_store.go), the /auth/* handlers that create,  *)
(* rotate and revoke them (api/handler/auth_handler.go), and the user's     *)
(* memberships (internal/auth/onboard.go, api/handler/tenant_handler.go).   *)
(*                                                                         *)
(* A request is a goroutine of the HTTP server.  Each of its statements to  *)
(* PostgreSQL or Redis is one step: no two of them share a transaction.    *)
(* Raw tokens are random, so a token is a fresh element of Tokens; the     *)
(* browser keeps the one it was given last in its cookie.                  *)
(***************************************************************************)
EXTENDS FiniteSets

CONSTANTS
    Tenants,        \* tenants that exist
    DefaultTenant,  \* the tenant with is_default
    Tokens,         \* supply of raw refresh tokens
    Browsers,       \* cookie jars of the user
    Requests,       \* slots for requests under way
    InitialRoles,   \* the memberships the user may start with
    AutoJoinRole,   \* role of AutoJoinDefaultTenant: "owner" for the login
                    \* named by GlobalAdmin, "member" for everyone else
    Faults,         \* whether a statement to PostgreSQL or Redis may fail
    None            \* no token, no tenant

Role == {"owner", "admin", "member"}

ASSUME DefaultAssumption == DefaultTenant \in Tenants
ASSUME InitialAssumption == InitialRoles \subseteq [Tenants -> Role \cup {None}]
ASSUME AutoJoinAssumption == AutoJoinRole \in {"owner", "member"}
ASSUME FaultsAssumption == Faults \in BOOLEAN
ASSUME NoneAssumption == None \notin Tenants \cup Tokens \cup Browsers \cup Role

VARIABLES
    role,       \* role[t]: tenant_members, None when there is no row
    row,        \* row[k]: the row of token k in refresh_tokens
    blacklist,  \* tokens with a rt:blacklist: key in Redis
    cookie,     \* cookie[b]: the refresh_token cookie of browser b
    req         \* req[r]: the request in slot r

vars == <<role, row, blacklist, cookie, req>>

(***************************************************************************)
(* A row remembers the token it was rotated from.  A request remembers its  *)
(* cookie, the token it will issue, the tenant and role it puts into the    *)
(* access token, and (history) the roles the user has held in that tenant   *)
(* since the request chose it.                                             *)
(***************************************************************************)
NoRow == [status |-> "absent", tenant |-> None, from |-> None, expired |-> FALSE]

Row == {NoRow} \cup [status  : {"active", "revoked"},
                     tenant  : Tenants,
                     from    : Tokens \cup {None},
                     expired : BOOLEAN]

RefreshSteps == {"blacklisted", "claims", "rotate", "set", "create", "role", "sign"}
LogoutSteps  == {"revoke", "revokeSet", "clear"}
IssueSteps   == {"lookup", "autojoin", "member", "switchRole", "store", "issue"}

Request == [pc      : RefreshSteps \cup LogoutSteps \cup IssueSteps \cup {"idle"},
            browser : Browsers \cup {None},
            tok     : Tokens \cup {None},
            new     : Tokens \cup {None},
            tenant  : Tenants \cup {None},
            role    : Role \cup {None},
            held    : SUBSET (Role \cup {None})]

Idle == [pc |-> "idle", browser |-> None, tok |-> None, new |-> None,
         tenant |-> None, role |-> None, held |-> {}]

Init == /\ role \in InitialRoles
        /\ row = [k \in Tokens |-> NoRow]
        /\ blacklist = {}
        /\ cookie = [b \in Browsers |-> None]
        /\ req = [r \in Requests |-> Idle]

Fresh == {k \in Tokens : row[k].status = "absent" /\ \A r \in Requests : req[r].new # k}

\* The request moves on to another step, or responds and is gone.
Goto(r, pc) == req' = [req EXCEPT ![r] = IF pc = "idle" THEN Idle ELSE [@ EXCEPT !.pc = pc]]

\* A statement fails, or the process dies before it: the handler gives up.
Fails(r, pcs) ==
    /\ Faults
    /\ req[r].pc \in pcs
    /\ Goto(r, "idle")
    /\ UNCHANGED <<role, row, blacklist, cookie>>

-----------------------------------------------------------------------------
(***************************************************************************)
(* Refresh: IsBlacklisted, GetActiveClaims, Rotate (revoke, blacklist,      *)
(* create), GetTenantRole, Sign.                                           *)
(***************************************************************************)
RefreshBegin(r, b, k) ==
    /\ req[r].pc = "idle"
    /\ cookie[b] # None
    /\ k \in Fresh
    /\ req' = [req EXCEPT ![r] = [Idle EXCEPT !.pc = "blacklisted",
                                    !.browser = b, !.tok = cookie[b], !.new = k]]
    /\ UNCHANGED <<role, row, blacklist, cookie>>

IsBlacklisted(r) ==
    /\ req[r].pc = "blacklisted"
    /\ Goto(r, IF req[r].tok \in blacklist THEN "idle" ELSE "claims")
    /\ UNCHANGED <<role, row, blacklist, cookie>>

Usable(k) == row[k].status = "active" /\ ~ row[k].expired

GetActiveClaims(r) ==
    /\ req[r].pc = "claims"
    /\ req' = [req EXCEPT ![r] = IF Usable(req[r].tok)
                                 THEN [@ EXCEPT !.pc = "rotate",
                                                !.tenant = row[req[r].tok].tenant,
                                                !.held = {role[row[req[r].tok].tenant]}]
                                 ELSE Idle]
    /\ UNCHANGED <<role, row, blacklist, cookie>>

\* Mutant of RotateClaim: the UPDATE lacks AND revoked_at IS NULL.
RotateClaimTwice(r) ==
    LET k == req[r].tok
    IN  /\ req[r].pc = "rotate"
        /\ row' = [row EXCEPT ![k].status = "revoked"]
        /\ Goto(r, "set")
        /\ UNCHANGED <<role, blacklist, cookie>>

\* UPDATE ... SET revoked_at WHERE token_hash = $1 AND revoked_at IS NULL: of
\* several requests with one token, one gets the row back.
RotateClaim(r) ==
    LET k == req[r].tok
    IN  /\ req[r].pc = "rotate"
        /\ IF row[k].status = "active"
           THEN /\ row' = [row EXCEPT ![k].status = "revoked"]
                /\ Goto(r, "set")
           ELSE /\ Goto(r, "idle")
                /\ UNCHANGED row
        /\ UNCHANGED <<role, blacklist, cookie>>

\* rdb.Set with the time the token has left; its error is not looked at.
Blacklist(k, lost) ==
    blacklist' = IF row[k].expired \/ lost THEN blacklist ELSE blacklist \cup {k}

RotateSet(r, lost) ==
    /\ lost => Faults
    /\ req[r].pc = "set"
    /\ Blacklist(req[r].tok, lost)
    /\ Goto(r, "create")
    /\ UNCHANGED <<role, row, cookie>>

\* Create: INSERT INTO refresh_tokens.
Create(k, t, from) ==
    row' = [row EXCEPT ![k] = [status |-> "active", tenant |-> t,
                               from |-> from, expired |-> FALSE]]

RotateCreate(r) ==
    /\ req[r].pc = "create"
    /\ Create(req[r].new, row[req[r].tok].tenant, req[r].tok)
    /\ Goto(r, "role")
    /\ UNCHANGED <<role, blacklist, cookie>>

\* Mutant of TenantRole: the role is looked up without the tenant.
TenantRoleAnywhere(t) == {role[u] : u \in {v \in Tenants : role[v] # None}}
                         \cup (IF Faults \/ role[t] = None THEN {"member"} ELSE {})

\* GetTenantRole: no row, or a failed query, counts as "member".
TenantRole(t) == {role[u] : u \in {v \in {t} : role[v] # None}}
                 \cup (IF Faults \/ role[t] = None THEN {"member"} ELSE {})

RefreshRole(r, ro) ==
    /\ req[r].pc = "role"
    /\ ro \in TenantRole(req[r].tenant)
    /\ req' = [req EXCEPT ![r].pc = "sign", ![r].role = ro]
    /\ UNCHANGED <<role, row, blacklist, cookie>>

\* Sign and respond; the browser may be gone before the response arrives.
Respond(r, pc, arrives) ==
    /\ req[r].pc = pc
    /\ cookie' = IF arrives THEN [cookie EXCEPT ![req[r].browser] = req[r].new] ELSE cookie
    /\ Goto(r, "idle")
    /\ UNCHANGED <<role, row, blacklist>>

-----------------------------------------------------------------------------
(***************************************************************************)
(* Logout: Revoke (update, blacklist), its error dropped, then the cookie   *)
(* is cleared.                                                             *)
(***************************************************************************)
LogoutBegin(r, b) ==
    /\ req[r].pc = "idle"
    /\ req' = [req EXCEPT ![r] = [Idle EXCEPT
                   !.pc = IF cookie[b] = None THEN "clear" ELSE "revoke",
                   !.browser = b, !.tok = cookie[b]]]
    /\ UNCHANGED <<role, row, blacklist, cookie>>

Revoke(r) ==
    LET k == req[r].tok
    IN  /\ req[r].pc = "revoke"
        /\ IF row[k].status = "active"
           THEN /\ row' = [row EXCEPT ![k].status = "revoked"]
                /\ Goto(r, "revokeSet")
           ELSE /\ Goto(r, "clear")
                /\ UNCHANGED row
        /\ UNCHANGED <<role, blacklist, cookie>>

\* Mutant of RevokeFails: Redis is written before the UPDATE that fails.
RevokeFailsLate(r) ==
    /\ Faults
    /\ req[r].pc = "revoke"
    /\ blacklist' = blacklist \cup {req[r].tok}
    /\ Goto(r, "clear")
    /\ UNCHANGED <<role, row, cookie>>

RevokeFails(r) ==
    /\ Faults
    /\ req[r].pc = "revoke"
    /\ Goto(r, "clear")
    /\ UNCHANGED <<role, row, blacklist, cookie>>

RevokeSet(r, lost) ==
    /\ lost => Faults
    /\ req[r].pc = "revokeSet"
    /\ Blacklist(req[r].tok, lost)
    /\ Goto(r, "clear")
    /\ UNCHANGED <<role, row, cookie>>

LogoutRespond(r, arrives) ==
    /\ req[r].pc = "clear"
    /\ cookie' = IF arrives THEN [cookie EXCEPT ![req[r].browser] = None] ELSE cookie
    /\ Goto(r, "idle")
    /\ UNCHANGED <<role, row, blacklist>>

-----------------------------------------------------------------------------
(***************************************************************************)
(* Sign-in, tenant switch and tenant creation: find tenant and role, then   *)
(* issueTokenPair (Create, Sign).                                          *)
(***************************************************************************)
IssueBegin(r, b, k, pc, t) ==
    /\ req[r].pc = "idle"
    /\ k \in Fresh
    /\ req' = [req EXCEPT ![r] = [Idle EXCEPT !.pc = pc, !.browser = b,
                                    !.new = k, !.tenant = t,
                                    !.held = {role[u] : u \in Tenants \cap {t}}]]
    /\ UNCHANGED <<role, row, blacklist, cookie>>

\* The role of tenant t changes under every request that is under way.
Become(t, ro) == role' = [role EXCEPT ![t] = ro]

Witness(q, t, ro) == [q EXCEPT !.held = IF q.tenant = t THEN @ \cup {ro} ELSE @]

LoginBegin(r, b, k) == IssueBegin(r, b, k, "lookup", None)

\* GetUserTenants: a tenant that is not the default one is preferred; without
\* any tenant the user is a new one.
Lookup(r) ==
    LET mine == {t \in Tenants : role[t] # None}
        pick == IF mine = {DefaultTenant} THEN mine ELSE mine \ {DefaultTenant}
    IN  /\ req[r].pc = "lookup"
        /\ \/ /\ mine = {}
              /\ Goto(r, "autojoin")
           \/ \E t \in pick :
                 req' = [req EXCEPT ![r].pc = "store", ![r].tenant = t, ![r].role = role[t],
                                     ![r].held = {role[t]}]
        /\ UNCHANGED <<role, row, blacklist, cookie>>

\* "get user tenants failed, falling back to auto-join".
LookupFails(r) ==
    /\ Faults
    /\ req[r].pc = "lookup"
    /\ Goto(r, "autojoin")
    /\ UNCHANGED <<role, row, blacklist, cookie>>

\* AutoJoinDefaultTenant: ON CONFLICT (tenant_id, user_id) DO UPDATE SET role.
AutoJoin(r) ==
    /\ req[r].pc = "autojoin"
    /\ Become(DefaultTenant, AutoJoinRole)
    /\ req' = [q \in Requests |->
                 Witness(IF q = r THEN [req[r] EXCEPT !.pc = "store", !.tenant = DefaultTenant,
                                                      !.role = AutoJoinRole]
                                  ELSE req[q], DefaultTenant, AutoJoinRole)]
    /\ UNCHANGED <<row, blacklist, cookie>>

\* SwitchTenant, for a user who has signed in before: IsMember, GetTenantRole.
SwitchBegin(r, b, k, t) ==
    /\ \E old \in Tokens : row[old].status # "absent"
    /\ IssueBegin(r, b, k, "member", t)

IsMember(r) ==
    /\ req[r].pc = "member"
    /\ Goto(r, IF role[req[r].tenant] = None THEN "idle" ELSE "switchRole")
    /\ UNCHANGED <<role, row, blacklist, cookie>>

SwitchRole(r, ro) ==
    /\ req[r].pc = "switchRole"
    /\ ro \in TenantRole(req[r].tenant)
    /\ req' = [req EXCEPT ![r].pc = "store", ![r].role = ro]
    /\ UNCHANGED <<role, row, blacklist, cookie>>

\* CreateTenant and CreateTenantForUser, one transaction each: the user becomes
\* owner of a tenant that nothing refers to yet.
CreateTenant(r, b, k, t) ==
    /\ req[r].pc = "idle"
    /\ k \in Fresh
    /\ t # DefaultTenant
    /\ role[t] = None
    /\ \A old \in Tokens : row[old].tenant # t
    /\ \A q \in Requests : req[q].tenant # t
    /\ Become(t, "owner")
    /\ req' = [q \in Requests |->
                 Witness(IF q = r THEN [Idle EXCEPT !.pc = "store",
                                          !.browser = b, !.new = k, !.tenant = t,
                                          !.role = "owner"]
                                  ELSE req[q], t, "owner")]
    /\ UNCHANGED <<row, blacklist, cookie>>

\* Register with an onboarding token, action "create"; "join" is not implemented (501).
Register(r, b, k, t) == CreateTenant(r, b, k, t)

\* CreateUserTenant, for a user who has signed in before.
CreateUserTenant(r, b, k, t) ==
    /\ \E old \in Tokens : row[old].status # "absent"
    /\ CreateTenant(r, b, k, t)

Store(r) ==
    /\ req[r].pc = "store"
    /\ Create(req[r].new, req[r].tenant, None)
    /\ Goto(r, "issue")
    /\ UNCHANGED <<role, blacklist, cookie>>

-----------------------------------------------------------------------------
\* UpdateMemberRole and RemoveMember by someone else: what the committed
\* statement does to this user's row.  Owners are out of their reach.
UpdateMemberRole(t, ro) ==
    /\ role[t] \in {"admin", "member"} \ {ro}
    /\ Become(t, ro)
    /\ req' = [q \in Requests |-> Witness(req[q], t, ro)]
    /\ UNCHANGED <<row, blacklist, cookie>>

RemoveMember(t) ==
    /\ role[t] \in {"admin", "member"}
    /\ Become(t, None)
    /\ req' = [q \in Requests |-> Witness(req[q], t, None)]
    /\ UNCHANGED <<row, blacklist, cookie>>

\* The token's lifetime ends, in PostgreSQL and in Redis.
Expire(k) ==
    /\ row[k].status # "absent"
    /\ ~ row[k].expired
    /\ row' = [row EXCEPT ![k].expired = TRUE]
    /\ blacklist' = blacklist \ {k}
    /\ UNCHANGED <<role, cookie, req>>

Step(r) ==
    \/ IsBlacklisted(r) \/ GetActiveClaims(r) \/ RotateClaim(r)
    \/ \E lost \in BOOLEAN : RotateSet(r, lost) \/ RevokeSet(r, lost)
    \/ RotateCreate(r)
    \/ \E ro \in Role : RefreshRole(r, ro) \/ SwitchRole(r, ro)
    \/ \E arrives \in BOOLEAN :
         Respond(r, "sign", arrives) \/ Respond(r, "issue", arrives) \/ LogoutRespond(r, arrives)
    \/ Revoke(r) \/ RevokeFails(r)
    \/ Lookup(r) \/ LookupFails(r) \/ AutoJoin(r) \/ IsMember(r) \/ Store(r)
    \/ Fails(r, {"blacklisted", "claims", "rotate", "create", "autojoin", "member", "store"})

Next ==
    \/ \E r \in Requests :
         \/ \E b \in Browsers :
              \/ LogoutBegin(r, b)
              \/ \E k \in Tokens :
                   \/ RefreshBegin(r, b, k)
                   \/ LoginBegin(r, b, k)
                   \/ \E t \in Tenants : \/ SwitchBegin(r, b, k, t)
                                         \/ Register(r, b, k, t)
                                         \/ CreateUserTenant(r, b, k, t)
         \/ Step(r)
    \/ \E t \in Tenants :
         \/ \E ro \in {"admin", "member"} : UpdateMemberRole(t, ro)
         \/ RemoveMember(t)
    \/ \E k \in Tokens : Expire(k)

Spec == Init /\ [][Next]_vars

-----------------------------------------------------------------------------
\* Type invariant of the session state; every stored token belongs to a tenant.
TypeOK ==
    /\ role \in [Tenants -> Role \cup {None}]
    /\ row \in [Tokens -> Row]
    /\ blacklist \in SUBSET Tokens
    /\ cookie \in [Browsers -> Tokens \cup {None}]
    /\ req \in [Requests -> Request]

\* A session never forks: however many refreshes are sent with one token (two
\* tabs, a retry after a lost response), at most one of them gets a successor,
\* and a token that has a successor is not active any more.
SessionNeverForks ==
    \A k \in Tokens :
        LET next == {m \in Tokens : row[m].status # "absent" /\ row[m].from = k}
        IN  /\ \A m, n \in next : m = n
            /\ next # {} => row[k].status = "revoked"

\* Redis never gets ahead of PostgreSQL: whatever fails in between, a token on
\* the blacklist is revoked in the table too, so no live session is refused.
BlacklistedIsRevoked == \A k \in blacklist : row[k].status = "revoked"

\* The role in an access token was the user's role in that very tenant at some
\* moment of the request that issued it, or is the fallback "member".
IssuedRoleWasHeld ==
    \A r \in Requests :
        req[r].pc \in {"sign", "issue"} =>
            req[r].role \in req[r].held \cup {"member"}
=============================================================================
