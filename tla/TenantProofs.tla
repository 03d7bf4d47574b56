---------------------------- MODULE TenantProofs ----------------------------
(***************************************************************************)
(* Proofs about the handlers of a tenant: its members (TenantMembers), for  *)
(* any users and requests, and its settings (TenantSettings), for any        *)
(* providers, keys, saves and agent runs.                                   *)
(***************************************************************************)
EXTENDS TenantMembers, TenantSettings, TLAPS

\* Type correctness: what the two handlers of tenant_handler.go keep between
\* their SELECT and their write is always a well-formed request.
THEOREM TypeCorrect == Spec => []TypeOK
<1>1. Init => TypeOK
  BY OwnerAssumption DEF Init, TypeOK, Idle, Request, Role
<1>2. TypeOK /\ [Next]_vars => TypeOK'
  <2> SUFFICES ASSUME TypeOK, [Next]_vars PROVE TypeOK'
    OBVIOUS
  <2> USE DEF TypeOK
  <2>1. ASSUME NEW u \in Users, NEW ro \in Role, JoinTenant(u, ro) PROVE TypeOK'
    BY <2>1 DEF JoinTenant
  <2>2. ASSUME NEW u \in Users, Refresh(u) PROVE TypeOK'
    BY <2>2 DEF Refresh, Role
  <2>3. ASSUME NEW r \in Requests, NEW caller \in Users, NEW target \in Users,
               NEW ro \in Role, UpdateMemberRole(r, caller, target, ro)
        PROVE  TypeOK'
    BY <2>3 DEF UpdateMemberRole, Request
  <2>4. ASSUME NEW r \in Requests, NEW caller \in Users, NEW target \in Users,
               RemoveMember(r, caller, target)
        PROVE  TypeOK'
    BY <2>4 DEF RemoveMember, Request
  <2>5. ASSUME NEW r \in Requests, WriteRole(r) PROVE TypeOK'
    <3>1. Idle \in Request
      BY DEF Idle, Request
    <3> QED BY <2>5, <3>1 DEF WriteRole, Finish, Request, Role
  <2>6. ASSUME NEW r \in Requests, DeleteMember(r) PROVE TypeOK'
    <3>1. Idle \in Request
      BY DEF Idle, Request
    <3> QED BY <2>6, <3>1 DEF DeleteMember, Finish
  <2>7. CASE UNCHANGED vars
    BY <2>7 DEF vars
  <2> QED
    BY <2>1, <2>2, <2>3, <2>4, <2>5, <2>6, <2>7 DEF Next
<1> QED
  BY <1>1, <1>2, PTL DEF Spec

-----------------------------------------------------------------------------
(***************************************************************************)
(* A request passes its SELECT only with a target that is not the owner,    *)
(* and nobody becomes owner afterwards: what the check saw is stale by the  *)
(* time of the write, but not in this respect.                             *)
(***************************************************************************)
TargetsOthers ==
    \A r \in Requests : req[r].pc # "idle" => /\ req[r].target # Owner
                                              /\ req[r].target \in Users

\* The tenant keeps its one owner under every interleaving of UpdateMemberRole,
\* RemoveMember and JoinTenant, however stale the callers' access tokens are.
THEOREM OwnerIsKept == Spec => []TenantKeepsOwner
<1>1. Init => TenantKeepsOwner /\ TargetsOthers
  BY OwnerAssumption, NoneAssumption DEF Init, TenantKeepsOwner, TargetsOthers, Idle, Role
<1>2. TypeOK /\ TenantKeepsOwner /\ TargetsOthers /\ [Next]_vars
         => TenantKeepsOwner' /\ TargetsOthers'
  <2> SUFFICES ASSUME TypeOK, TenantKeepsOwner, TargetsOthers, [Next]_vars
               PROVE  TenantKeepsOwner' /\ TargetsOthers'
    OBVIOUS
  <2> USE OwnerAssumption, NoneAssumption DEF TypeOK, TenantKeepsOwner, TargetsOthers
  <2>1. ASSUME NEW u \in Users, NEW ro \in Role, JoinTenant(u, ro)
        PROVE  TenantKeepsOwner' /\ TargetsOthers'
    BY <2>1 DEF JoinTenant, Role
  <2>2. ASSUME NEW u \in Users, Refresh(u)
        PROVE  TenantKeepsOwner' /\ TargetsOthers'
    BY <2>2 DEF Refresh
  <2>3. ASSUME NEW r \in Requests, NEW caller \in Users, NEW target \in Users,
               NEW ro \in Role, UpdateMemberRole(r, caller, target, ro)
        PROVE  TenantKeepsOwner' /\ TargetsOthers'
    BY <2>3 DEF UpdateMemberRole, MayUpdate
  <2>4. ASSUME NEW r \in Requests, NEW caller \in Users, NEW target \in Users,
               RemoveMember(r, caller, target)
        PROVE  TenantKeepsOwner' /\ TargetsOthers'
    BY <2>4 DEF RemoveMember, MayRemove
  <2>5. ASSUME NEW r \in Requests, WriteRole(r)
        PROVE  TenantKeepsOwner' /\ TargetsOthers'
    <3>1. req[r].role # "owner" /\ req[r].target # Owner /\ req[r].target \in Users
      BY <2>5, NoneAssumption DEF WriteRole, Request, Role
    <3>2. TenantKeepsOwner'
      BY <2>5, <3>1 DEF WriteRole, Role
    <3>3. TargetsOthers'
      BY <2>5 DEF WriteRole, Finish, Idle
    <3> QED BY <3>2, <3>3
  <2>6. ASSUME NEW r \in Requests, DeleteMember(r)
        PROVE  TenantKeepsOwner' /\ TargetsOthers'
    <3>1. req[r].target # Owner /\ req[r].target \in Users
      BY <2>6 DEF DeleteMember
    <3>2. TenantKeepsOwner'
      BY <2>6, <3>1 DEF DeleteMember, Role
    <3>3. TargetsOthers'
      BY <2>6 DEF DeleteMember, Finish, Idle
    <3> QED BY <3>2, <3>3
  <2>7. CASE UNCHANGED vars
    BY <2>7 DEF vars
  <2> QED
    BY <2>1, <2>2, <2>3, <2>4, <2>5, <2>6, <2>7 DEF Next
<1> QED
  BY <1>1, <1>2, TypeCorrect, PTL DEF Spec

-----------------------------------------------------------------------------
(***************************************************************************)
(* The settings of a tenant.  What a save merges with is what the row holds, *)
(* as long as nobody else has written it.                                  *)
(***************************************************************************)

\* A call of UpdateSettings that has passed its checks has a request, with a name when
\* it is about to write one, and with settings after that.
WritersProper ==
    \A w \in Writers :
        /\ writer[w].pc # "idle" => writer[w].req \in UpdateRequest
        /\ writer[w].pc = "name" => writer[w].req.name \in Names

\* What was read without an error, and not overtaken by a save, is what the row holds.
SeenIsCurrent ==
    \A w \in Writers : (writer[w].sound /\ writer[w].pc = "write") => writer[w].seen = row.keys

SettingsInv == SettingsTypeOK /\ WritersProper /\ SeenIsCurrent

\* What a save writes is encrypted, key by key: what was sent, or what was read.
LEMMA MergeTyped ==
    ASSUME NEW seen \in Stored, NEW q \in UpdateRequest
    PROVE  /\ Merge(seen, q) \in Stored
           /\ \A p \in Providers \ Mentioned(q) : Merge(seen, q)[p] = seen[p]
<1>1. ASSUME NEW p \in Mentioned(q)
      PROVE  Encrypt(q.keys[p]) \in [aes : Text]
  <2>1. q.keys[p] \in Text
    BY DEF Mentioned, UpdateRequest
  <2> QED BY <2>1 DEF Encrypt
<1> QED BY <1>1 DEF Merge, Stored

\* The gateway built from a row has a text for each key stored.
LEMMA PlainTyped ==
    ASSUME NEW s \in Stored
    PROVE  Plain(s) \in [Providers -> Text \cup {Unset}]
BY DEF Plain, Stored, Decrypt

LEMMA IdleSlotsTyped == /\ NoKeys \in Stored
                   /\ IdleWriter \in Writer /\ IdleWriter.pc = "idle" /\ ~ IdleWriter.sound
                   /\ IdleReader \in Reader
<1>1. NoKeys \in Stored
  BY DEF NoKeys, Stored
<1> QED BY <1>1 DEF IdleWriter, IdleReader, Writer, Reader

\* A step of UpdateSettings.
LEMMA WriterKeeps ==
    ASSUME SettingsInv, NEW w \in Writers, WriterStep(w)
    PROVE  SettingsInv'
<1> USE DEF SettingsInv, SettingsTypeOK, WritersProper, SeenIsCurrent
<1>w. writer[w] \in Writer
  OBVIOUS
<1>1. CASE UpdateName(w)
  <2>1. [writer[w] EXCEPT !.pc = "read"] \in Writer /\ IdleWriter \in Writer
    BY <1>w, IdleSlotsTyped DEF Writer
  <2>2. writer' \in [Writers -> Writer]
    BY <1>1, <2>1 DEF UpdateName
  <2>3. writer[w].req.name \in Names
    BY <1>1 DEF UpdateName
  <2>4. row' \in [name : Names \cup {Unset}, keys : Stored] /\ row'.keys = row.keys
    BY <1>1, <2>3 DEF UpdateName
  <2>5. SettingsTypeOK'
    BY <1>1, <2>2, <2>4 DEF UpdateName
  <2>6. WritersProper' /\ SeenIsCurrent'
    BY <1>1, <1>w, <2>4, IdleSlotsTyped DEF UpdateName, Writer
  <2> QED BY <2>5, <2>6
<1>2. CASE ReadSettings(w)
  <2>1. PICK ok \in BOOLEAN :
          writer' = [writer EXCEPT ![w].pc = "write", ![w].sound = ok,
                                   ![w].seen = IF ok THEN row.keys ELSE NoKeys]
    BY <1>2 DEF ReadSettings
  <2> DEFINE x == [writer[w] EXCEPT !.pc = "write", !.sound = ok,
                                    !.seen = IF ok THEN row.keys ELSE NoKeys]
  <2>2. /\ x \in Writer /\ x.pc = "write" /\ x.req = writer[w].req
        /\ x.sound => x.seen = row.keys
    BY <1>w, IdleSlotsTyped DEF Writer
  <2>3. writer' = [writer EXCEPT ![w] = x]
    BY <2>1
  <2>4. writer[w].pc = "read" /\ UNCHANGED <<row, cache, reader, served, updates>>
    BY <1>2 DEF ReadSettings
  <2> HIDE DEF x
  <2>5. SettingsTypeOK'
    BY <2>2, <2>3, <2>4
  <2>6. WritersProper' /\ SeenIsCurrent'
    BY <2>2, <2>3, <2>4
  <2> QED BY <2>5, <2>6
<1>3. CASE WriteSettings(w)
  <2>1. writer[w].req \in UpdateRequest /\ writer[w].seen \in Stored
    BY <1>3, <1>w DEF WriteSettings, Writer
  <2>2. Merge(writer[w].seen, writer[w].req) \in Stored
    BY <2>1, MergeTyped
  <2>3. row' \in [name : Names \cup {Unset}, keys : Stored]
    BY <1>3, <2>2 DEF WriteSettings
  <2>4. ASSUME NEW v \in Writers
        PROVE  /\ writer'[v] \in Writer
               /\ writer'[v].sound => writer'[v].pc # "write"
               /\ writer'[v].pc # "idle" => writer[v].pc # "idle"
               /\ writer'[v].pc = "name" => writer[v].pc = "name"
               /\ writer'[v].req = writer[v].req
    BY <1>3, <1>w, IdleSlotsTyped DEF WriteSettings, Writer
  <2>5. writer' \in [Writers -> Writer]
    BY <1>3, <2>4 DEF WriteSettings
  <2>6. SettingsTypeOK'
    BY <1>3, <2>3, <2>5 DEF WriteSettings
  <2>7. WritersProper' /\ SeenIsCurrent'
    BY <2>4
  <2> QED BY <2>6, <2>7
<1>4. CASE Invalidate(w) \/ UpdateFails(w)
  BY <1>4, IdleSlotsTyped DEF Invalidate, UpdateFails
<1> QED BY <1>1, <1>2, <1>3, <1>4 DEF WriterStep

\* The settings and the cache are well formed and hold no key in clear, and a save that
\* was not overtaken has the row before it.
LEMMA SettingsStep == SettingsInv /\ [SettingsNext]_settingsVars => SettingsInv'
<1> SUFFICES ASSUME SettingsInv, [SettingsNext]_settingsVars PROVE SettingsInv'
  OBVIOUS
<1> USE TTLAssumption, BoundAssumption DEF SettingsInv, SettingsTypeOK, WritersProper, SeenIsCurrent
<1>1. ASSUME NEW w \in Writers, NEW n \in Names \cup {Unset},
             NEW f \in [Providers -> Text \cup {Unset}],
             UpdateSettings(w, [name |-> n, keys |-> f])
      PROVE  SettingsInv'
  <2> DEFINE q == [name |-> n, keys |-> f]
             x == [pc |-> IF q.name = Unset THEN "read" ELSE "name",
                   req |-> q, seen |-> NoKeys, sound |-> FALSE]
  <2>1. q \in UpdateRequest
    BY DEF UpdateRequest
  <2>2. /\ x \in Writer /\ ~ x.sound /\ x.req \in UpdateRequest
        /\ x.pc = "name" => x.req.name \in Names
    BY <2>1, IdleSlotsTyped DEF Writer
  <2>3. /\ writer' = [writer EXCEPT ![w] = x] /\ updates' = updates + 1 /\ updates < MaxUpdates
        /\ UNCHANGED <<row, cache, reader, served>>
    BY <1>1 DEF UpdateSettings
  <2> HIDE DEF x
  <2>4. SettingsTypeOK'
    BY <2>2, <2>3
  <2>5. WritersProper' /\ SeenIsCurrent'
    BY <2>2, <2>3
  <2> QED BY <2>4, <2>5
<1>2. ASSUME NEW w \in Writers, WriterStep(w) PROVE SettingsInv'
  BY <1>2, WriterKeeps
<1>3. ASSUME NEW r \in Readers, CacheHit(r) PROVE SettingsInv'
  BY <1>3 DEF CacheHit, Live, Entry
<1>4. ASSUME NEW r \in Readers, CacheMiss(r) PROVE SettingsInv'
  BY <1>4 DEF CacheMiss, Reader
<1>5. ASSUME NEW r \in Readers, QuerySettings(r) PROVE SettingsInv'
  <2>1. [pc |-> "set", seen |-> row.keys] \in Reader
    BY DEF Reader
  <2> QED BY <1>5, <2>1, IdleSlotsTyped DEF QuerySettings, UseGlobal
<1>6. ASSUME NEW r \in Readers, CacheSet(r) PROVE SettingsInv'
  <2>1. Plain(reader[r].seen) \in [Providers -> Text \cup {Unset}]
    BY PlainTyped DEF Reader
  <2>2. [gateway |-> Plain(reader[r].seen), ttl |-> CacheTTL] \in Entry
    BY <2>1 DEF Entry
  <2> QED BY <1>6, <2>1, <2>2, IdleSlotsTyped DEF CacheSet
<1>7. CASE Tick
  <2>1. [cache EXCEPT !.ttl = @ - 1] \in Entry
    BY <1>7 DEF Tick, Live, Entry
  <2> QED BY <1>7, <2>1 DEF Tick
<1>8. CASE UNCHANGED settingsVars
  BY <1>8 DEF settingsVars
<1> QED
  BY <1>1, <1>2, <1>3, <1>4, <1>5, <1>6, <1>7, <1>8 DEF SettingsNext, ReaderStep

\* The row never holds a key in clear, the cache holds gateways only, and a request under
\* way has what it is about to write.
THEOREM SettingsTypeCorrect == SettingsSpec => [](SettingsTypeOK /\ WritersProper /\ SeenIsCurrent)
<1>1. SettingsInit => SettingsInv
  <2> SUFFICES ASSUME SettingsInit PROVE SettingsInv
    OBVIOUS
  <2>1. row \in [name : Names \cup {Unset}, keys : Stored]
    BY IdleSlotsTyped DEF SettingsInit
  <2> QED
    BY <2>1, IdleSlotsTyped, BoundAssumption
    DEF SettingsInit, SettingsInv, SettingsTypeOK, WritersProper, SeenIsCurrent
<1> QED BY <1>1, SettingsStep, PTL DEF SettingsSpec, SettingsInv

\* A save that no other save overtook, and whose SELECT worked, leaves the keys alone that
\* it does not mention, for any number of concurrent saves of any providers.
THEOREM SavesLeaveOthers == SettingsSpec => UndisturbedSave
<1>1. SettingsInv /\ [SettingsNext]_settingsVars
        => [\A w \in Writers : writer[w].sound => LeavesOthers(w)]_settingsVars
  <2> SUFFICES ASSUME SettingsInv, SettingsNext, NEW w \in Writers, writer[w].sound,
                      writer[w].pc = "write", writer'[w].pc = "invalidate"
               PROVE  \A p \in Providers \ Mentioned(writer[w].req) : row'.keys[p] = row.keys[p]
    BY DEF LeavesOthers
  <2> USE DEF SettingsInv, SettingsTypeOK
  <2>1. ASSUME NEW v \in Writers, NEW q, UpdateSettings(v, q) PROVE FALSE
    BY <2>1 DEF UpdateSettings
  <2>2. ASSUME NEW v \in Writers, UpdateName(v) \/ ReadSettings(v) \/ Invalidate(v) \/ UpdateFails(v)
        PROVE  FALSE
    <3>1. CASE UpdateName(v)
      BY <3>1 DEF UpdateName, IdleWriter
    <3>2. CASE ReadSettings(v)
      BY <3>2 DEF ReadSettings
    <3>3. CASE Invalidate(v) \/ UpdateFails(v)
      BY <3>3 DEF Invalidate, UpdateFails, IdleWriter
    <3> QED BY <2>2, <3>1, <3>2, <3>3
  <2>3. ASSUME NEW v \in Writers, v # w, WriteSettings(v) PROVE FALSE
    BY <2>3 DEF WriteSettings
  <2>4. CASE WriteSettings(w)
    <3>1. writer[w].req \in UpdateRequest /\ writer[w].seen \in Stored /\ writer[w].seen = row.keys
      BY DEF WritersProper, SeenIsCurrent, Writer
    <3>2. row'.keys = Merge(writer[w].seen, writer[w].req)
      BY <2>4 DEF WriteSettings
    <3> QED BY <3>1, <3>2, MergeTyped
  <2>5. ASSUME UNCHANGED writer PROVE FALSE
    BY <2>5
  <2> QED
    BY <2>1, <2>2, <2>3, <2>4, <2>5
    DEF SettingsNext, WriterStep, ReaderStep, CacheHit, CacheMiss, QuerySettings, CacheSet, Tick
<1> QED BY <1>1, SettingsTypeCorrect, PTL DEF SettingsSpec, UndisturbedSave, SettingsInv
=============================================================================
