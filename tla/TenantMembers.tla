--------------------------- MODULE TenantMembers ---------------------------
(***************************************************************************)
(* The members of one tenant (api/handler/tenant_handler.go), not the one   *)
(* that sign-ins join by themselves (see AuthSession).  The handlers        *)
(* that change a member's role or remove a member take the caller's role    *)
(* from its access token, read the target's role in one statement and write *)
(* in another: what they decide on may have changed by the time they write. *)
(***************************************************************************)
EXTENDS FiniteSets

CONSTANTS
    Users,          \* users of the system
    Owner,          \* the user who created the tenant
    Requests,       \* slots for requests under way
    None            \* not a member, no user

Role == {"owner", "admin", "member"}

ASSUME OwnerAssumption == Owner \in Users
ASSUME NoneAssumption == None \notin Users \cup Role

VARIABLES
    role,   \* role[u]: the row of u in tenant_members
    token,  \* token[u]: auth.role of u's access token, None without one
    req     \* req[r]: the request in slot r

vars == <<role, token, req>>

Request == [pc     : {"idle", "update", "delete"},
            caller : Users \cup {None},
            as     : Role \cup {None},
            target : Users \cup {None},
            role   : {"admin", "member", None}]

Idle == [pc |-> "idle", caller |-> None, as |-> None, target |-> None, role |-> None]

Init == /\ role = [u \in Users |-> IF u = Owner THEN "owner" ELSE None]
        /\ token = [u \in Users |-> None]
        /\ req = [r \in Requests |-> Idle]

Finish(r) == req' = [req EXCEPT ![r] = Idle]

-----------------------------------------------------------------------------
\* JoinTenant: an invitation names the role; an existing row is left alone.
JoinTenant(u, ro) ==
    /\ role[u] = None
    /\ ro \in {"admin", "member"}
    /\ role' = [role EXCEPT ![u] = ro]
    /\ UNCHANGED <<token, req>>

\* A refresh copies the role of the moment into the access token.
Refresh(u) ==
    /\ token' = [token EXCEPT ![u] = IF role[u] = None THEN "member" ELSE role[u]]
    /\ UNCHANGED <<role, req>>

-----------------------------------------------------------------------------
\* UpdateMemberRole up to its SELECT.
MayUpdate(caller, target) ==
    /\ token[caller] = "owner"
    /\ caller # target
    /\ role[target] \in {"admin", "member"}

UpdateMemberRole(r, caller, target, ro) ==
    /\ req[r].pc = "idle"
    /\ MayUpdate(caller, target)
    /\ ro \in {"admin", "member"}
    /\ req' = [req EXCEPT ![r] = [pc |-> "update", caller |-> caller,
                                  as |-> token[caller], target |-> target, role |-> ro]]
    /\ UNCHANGED <<role, token>>

\* Its UPDATE: no row, no effect.
WriteRole(r) ==
    LET u == req[r].target
    IN  /\ req[r].pc = "update"
        /\ role' = [role EXCEPT ![u] = IF @ = None THEN None ELSE req[r].role]
        /\ Finish(r)
        /\ UNCHANGED token

-----------------------------------------------------------------------------
\* Mutant of MayRemove: the target may be the owner.
MayRemoveOwner(caller, target) ==
    /\ token[caller] \in {"owner", "admin"}
    /\ caller # target
    /\ role[target] # None
    /\ ~ (token[caller] = "admin" /\ role[target] = "admin")

\* RemoveMember up to its SELECT.
MayRemove(caller, target) ==
    /\ token[caller] \in {"owner", "admin"}
    /\ caller # target
    /\ role[target] \in {"admin", "member"}
    /\ ~ (token[caller] = "admin" /\ role[target] = "admin")

RemoveMember(r, caller, target) ==
    /\ req[r].pc = "idle"
    /\ MayRemove(caller, target)
    /\ req' = [req EXCEPT ![r] = [pc |-> "delete", caller |-> caller,
                                  as |-> token[caller], target |-> target, role |-> None]]
    /\ UNCHANGED <<role, token>>

\* Its DELETE.
DeleteMember(r) ==
    /\ req[r].pc = "delete"
    /\ role' = [role EXCEPT ![req[r].target] = None]
    /\ Finish(r)
    /\ UNCHANGED token

Next ==
    \/ \E u \in Users :
         \/ \E ro \in Role : JoinTenant(u, ro)
         \/ Refresh(u)
    \/ \E r \in Requests :
         \/ \E caller, target \in Users :
              \/ \E ro \in Role : UpdateMemberRole(r, caller, target, ro)
              \/ RemoveMember(r, caller, target)
         \/ WriteRole(r)
         \/ DeleteMember(r)

Spec == Init /\ [][Next]_vars

-----------------------------------------------------------------------------
\* Type invariant of the membership state; a request writes no role but admin
\* and member.
TypeOK ==
    /\ role \in [Users -> Role \cup {None}]
    /\ token \in [Users -> Role \cup {None}]
    /\ req \in [Requests -> Request]

\* The tenant keeps its owner: however old the access tokens are and however
\* the requests interleave, nobody removes or demotes the user who created the
\* tenant, and nobody else becomes owner.  The check in the SELECT is enough
\* because no request can turn a target into an owner before the write.
TenantKeepsOwner == \A u \in Users : role[u] = "owner" <=> u = Owner
=============================================================================
