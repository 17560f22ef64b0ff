-------------------------- MODULE TeamRequestsProofs --------------------------
(***************************************************************************)
(* The handlers as the server runs them keep the promises of TeamAccess,   *)
(* for any number of requests, accounts, teams and roles.                  *)
(*                                                                         *)
(* What a request checked under its team's lock still stands when it       *)
(* commits (ChecksStand): a transaction of another request leaves the team *)
(* untouched unless it holds the same lock, but for an erasure, and an     *)
(* erasure that takes a settings admin from a team without holding its     *)
(* lock marks the team unguarded.  So every commit satisfies AccessSteps.  *)
(***************************************************************************)
EXTENDS TeamRequests, WellFoundedInduction, TLAPS

-----------------------------------------------------------------------------
(* The promise: TeamAccess, whose operations happen at once.               *)

USE DEF None, Read, Write, Levels

\* The system roles and the permissions they carry.
LEMMA SystemRoleFacts ==
  /\ \A t \in Teams : /\ AdminRole[t] \in Roles /\ MemberRole[t] \in Roles
                      /\ RoleTeam[AdminRole[t]] = t /\ RoleTeam[MemberRole[t]] = t
                      /\ AdminRole[t] # MemberRole[t]
  /\ AdminPerms \in Perms /\ MemberPerms \in Perms
  /\ AdminPerms["settings"] = Write
BY TeamAccessAssumption DEF TeamAccessAssumption, AdminPerms

LEMMA InitKeepsAccessInv == AccessInit => AccessInv
<1> SUFFICES ASSUME AccessInit PROVE AccessInv
  OBVIOUS
<1>1. AccessTypeOK
  BY SystemRoleFacts, TeamAccessAssumption
  DEF AccessInit, AccessTypeOK, TeamAccessAssumption
<1>2. Belonging /\ NoDanglingRoles /\ AdminKept
  BY DEF AccessInit, Belonging, NoDanglingRoles, AdminKept
<1> QED
  BY <1>1, <1>2 DEF AccessInv

-----------------------------------------------------------------------------
(* One lemma per action: a step preserves the invariant.                   *)

LEMMA SetRolesKeeps ==
  ASSUME AccessInv,
         NEW c \in Users, NEW t \in Teams, NEW u \in Users, NEW ids \in SUBSET Roles,
         SetRoles(c, t, u, ids)
  PROVE  AccessInv'
<1> USE DEF AccessInv
<1> USE DEF SetRoles, WriteSetRoles
<1>1. AccessTypeOK'
  BY DEF AccessTypeOK
<1>2. Belonging'
  BY DEF AccessTypeOK, Belonging, SetRolesPermitted
<1>3. NoDanglingRoles'
  BY DEF AccessTypeOK, NoDanglingRoles, SetRolesPermitted, RolesOf
<1>4. AdminKept'
  <2> SUFFICES ASSUME NEW s \in teams, s \notin unguarded
               PROVE  LivingAdmins(s)' # {}
    BY DEF AdminKept
  <2>1. PICK v \in Users \ erased : Holds(s, v, "settings", Write)
    BY DEF AdminKept, LivingAdmins, SettingsAdmins
  <2>2. CASE s # t \/ v # u
    BY <2>1, <2>2 DEF LivingAdmins, SettingsAdmins, Holds, AccessTypeOK
  <2>3. CASE s = t /\ v = u
    <3>1. CASE \E r \in ids : perms[r]["settings"] = Write
      BY <2>1, <2>3, <3>1 DEF LivingAdmins, SettingsAdmins, Holds, AccessTypeOK
    <3>2. CASE AnotherAdmin(t, u)
      BY <2>3, <3>2 DEF AnotherAdmin, LivingAdmins, SettingsAdmins, Holds, AccessTypeOK
    <3> QED
      BY <2>3, <3>1, <3>2 DEF SetRolesKeepsAdmin
  <2> QED
    BY <2>2, <2>3
<1> QED
  BY <1>1, <1>2, <1>3, <1>4

LEMMA RemoveMemberKeeps ==
  ASSUME AccessInv,
         NEW c \in Users, NEW t \in Teams, NEW u \in Users,
         RemoveMember(c, t, u)
  PROVE  AccessInv'
<1> USE DEF AccessInv, RemoveMember, WriteRemoveMember
<1>1. AccessTypeOK'
  BY DEF AccessTypeOK
<1>2. Belonging'
  BY DEF AccessTypeOK, Belonging
<1>3. NoDanglingRoles'
  BY DEF AccessTypeOK, NoDanglingRoles, RolesOf
<1>4. AdminKept'
  <2> SUFFICES ASSUME NEW s \in teams, s \notin unguarded
               PROVE  LivingAdmins(s)' # {}
    BY DEF AdminKept
  <2>1. PICK v \in Users \ erased : Holds(s, v, "settings", Write) /\ (s = t => v # u)
    BY DEF AdminKept, RemoveMemberKeepsAdmin, AnotherAdmin, LivingAdmins, SettingsAdmins
  <2> QED
    BY <2>1 DEF LivingAdmins, SettingsAdmins, Holds, AccessTypeOK
<1> QED
  BY <1>1, <1>2, <1>3, <1>4

LEMMA UpdateRoleKeeps ==
  ASSUME AccessInv,
         NEW c \in Users, NEW t \in Teams, NEW r \in Roles, NEW p \in Perms,
         UpdateRole(c, t, r, p)
  PROVE  AccessInv'
<1> USE DEF AccessInv, UpdateRole, WriteUpdateRole
<1>1. AccessTypeOK'
  BY DEF AccessTypeOK
<1>s. \A s \in teams : /\ perms'[AdminRole[s]] = perms[AdminRole[s]]
                      /\ perms'[MemberRole[s]] = perms[MemberRole[s]]
  BY SystemRoleFacts DEF AccessTypeOK, UpdateRolePermitted, SystemRole
<1>2. Belonging' /\ NoDanglingRoles'
  BY <1>s DEF Belonging, NoDanglingRoles, RolesOf
<1>3. AdminKept'
  <2> SUFFICES ASSUME NEW s \in teams, s \notin unguarded
               PROVE  LivingAdmins(s)' # {}
    BY DEF AdminKept
  <2>0. PICK v \in Users \ erased : Holds(s, v, "settings", Write)
    BY DEF AdminKept, LivingAdmins, SettingsAdmins
  <2>1. PICK x \in held[s][v] : perms[x]["settings"] >= Write
    BY <2>0 DEF Holds
  <2>2. x \in Roles /\ RoleTeam[x] = s /\ s \in Teams
    BY <2>1 DEF NoDanglingRoles, RolesOf, AccessTypeOK
  <2>3. CASE x # r \/ p["settings"] = Write
    BY <2>1, <2>2, <2>3 DEF LivingAdmins, SettingsAdmins, Holds, AccessTypeOK
  <2>4. CASE x = r /\ p["settings"] # Write
    <3>1. s = t
      BY <2>2, <2>4 DEF UpdateRolePermitted, RolesOf
    <3>2. perms[r]["settings"] = Write
      BY <2>1, <2>4, TeamAccessAssumption DEF AccessTypeOK, TeamAccessAssumption
    <3>3. AnotherAdminRole(t, r)
      BY <2>4, <3>1, <3>2 DEF UpdateRoleKeepsAdmin
    <3> QED
      BY <3>1, <3>3 DEF AnotherAdminRole, LivingAdmins, SettingsAdmins, Holds, AccessTypeOK
  <2> QED
    BY <2>3, <2>4
<1> QED
  BY <1>1, <1>2, <1>3

LEMMA DeleteRoleKeeps ==
  ASSUME AccessInv, NEW t \in Teams, NEW r \in Roles, DeleteRole(t, r)
  PROVE  AccessInv'
<1> USE DEF AccessInv, DeleteRole, WriteDeleteRole
<1>1. AccessTypeOK'
  BY DEF AccessTypeOK
<1>2. Belonging'
  BY DEF AccessTypeOK, Belonging
<1>3. NoDanglingRoles'
  BY DEF AccessTypeOK, NoDanglingRoles, DeleteRolePermitted, RolesOf
<1>4. AdminKept'
  <2> SUFFICES ASSUME NEW s \in teams, s \notin unguarded
               PROVE  LivingAdmins(s)' # {}
    BY DEF AdminKept
  <2>0. PICK v \in Users \ erased : Holds(s, v, "settings", Write)
    BY DEF AdminKept, LivingAdmins, SettingsAdmins
  <2>1. PICK x \in held[s][v] : perms[x]["settings"] >= Write
    BY <2>0 DEF Holds
  <2>2. x \in Roles /\ RoleTeam[x] = s /\ s \in Teams
    BY <2>1 DEF NoDanglingRoles, RolesOf, AccessTypeOK
  <2>3. CASE x # r
    BY <2>1, <2>2, <2>3 DEF LivingAdmins, SettingsAdmins, Holds, AccessTypeOK
  <2>4. CASE x = r
    <3>1. s = t
      BY <2>2, <2>4 DEF DeleteRolePermitted, RolesOf
    <3>2. perms[r]["settings"] = Write
      BY <2>1, <2>4, TeamAccessAssumption DEF AccessTypeOK, TeamAccessAssumption
    <3>3. AnotherAdminRole(t, r)
      BY <3>1, <3>2 DEF DeleteRoleKeepsAdmin
    <3> QED
      BY <3>1, <3>3 DEF AnotherAdminRole, LivingAdmins, SettingsAdmins, Holds, AccessTypeOK
  <2> QED
    BY <2>3, <2>4
<1> QED
  BY <1>1, <1>2, <1>3, <1>4

\* Only the permissions of a role nobody holds change, and only a role is added.
LEMMA CreateRoleKeeps ==
  ASSUME AccessInv, NEW t \in Teams, NEW r \in Roles, NEW p \in Perms,
         CreateRole(t, r, p)
  PROVE  AccessInv'
<1> USE DEF AccessInv, CreateRole, WriteCreateRole
<1>1. AccessTypeOK'
  BY DEF AccessTypeOK
<1>s. \A s \in teams : /\ perms'[AdminRole[s]] = perms[AdminRole[s]]
                      /\ perms'[MemberRole[s]] = perms[MemberRole[s]]
  BY SystemRoleFacts DEF AccessTypeOK, SystemRole
<1>2. Belonging' /\ NoDanglingRoles'
  BY <1>s DEF AccessTypeOK, Belonging, NoDanglingRoles, RolesOf
<1>3. AdminKept'
  <2> SUFFICES ASSUME NEW s \in teams, s \notin unguarded
               PROVE  LivingAdmins(s)' # {}
    BY DEF AdminKept
  <2>1. PICK v \in Users \ erased : Holds(s, v, "settings", Write)
    BY DEF AdminKept, LivingAdmins, SettingsAdmins
  <2>2. PICK x \in held[s][v] : perms[x]["settings"] >= Write
    BY <2>1 DEF Holds
  <2>3. x \in Roles /\ x # r
    BY <2>2 DEF NoDanglingRoles, Belonging, RolesOf, AccessTypeOK
  <2> QED
    BY <2>2, <2>3 DEF LivingAdmins, SettingsAdmins, Holds, AccessTypeOK
<1> QED
  BY <1>1, <1>2, <1>3

LEMMA CreateTeamKeeps ==
  ASSUME AccessInv, NEW u \in Users, NEW t \in Teams, WriteCreateTeam(u, t)
  PROVE  AccessInv'
<1> DEFINE a == AdminRole[t]
           m == MemberRole[t]
<1>0. /\ a \in Roles /\ m \in Roles /\ a # m /\ RoleTeam[a] = t /\ RoleTeam[m] = t
      /\ AdminPerms \in Perms /\ MemberPerms \in Perms /\ AdminPerms["settings"] = Write
  BY SystemRoleFacts
<1> HIDE DEF a, m
<1> USE <1>0 DEF AccessInv
<1>w. /\ t \in Teams \ teams /\ teams' = teams \cup {t}
      /\ members' = [members EXCEPT ![t] = {u}]
      /\ roles' = roles \cup {a, m} /\ minted' = minted \cup {a, m}
      /\ perms' = [perms EXCEPT ![a] = AdminPerms, ![m] = MemberPerms]
      /\ held' = [held EXCEPT ![t][u] = {a}]
      /\ unguarded' = IF u \in erased THEN unguarded \cup {t} ELSE unguarded
      /\ UNCHANGED <<refs, invites, erased, email, personal>>
  BY DEF WriteCreateTeam, a, m
<1>p. perms' = [r \in Roles |-> CASE r = a -> AdminPerms [] r = m -> MemberPerms
                                  [] OTHER -> perms[r]]
  BY <1>w DEF AccessTypeOK
<1>q. perms'[a] = AdminPerms /\ perms'[m] = MemberPerms
  BY <1>p
<1>s. \A s \in teams' : /\ perms'[AdminRole[s]] = AdminPerms
                       /\ perms'[MemberRole[s]] = MemberPerms
  <2> SUFFICES ASSUME NEW s \in teams'
               PROVE  /\ perms'[AdminRole[s]] = AdminPerms
                      /\ perms'[MemberRole[s]] = MemberPerms
    OBVIOUS
  <2>1. CASE s = t
    BY <2>1, <1>q DEF a, m
  <2>2. CASE s # t
    <3>1. s \in teams /\ s \in Teams
      BY <2>2, <1>w DEF AccessTypeOK
    <3>2. /\ AdminRole[s] \in Roles \ {a, m} /\ MemberRole[s] \in Roles \ {a, m}
      BY <2>2, <3>1, SystemRoleFacts
    <3> QED
      BY <1>p, <3>1, <3>2 DEF Belonging
  <2> QED
    BY <2>1, <2>2
<1> USE <1>w
<1>1. AccessTypeOK'
  BY DEF AccessTypeOK
<1>2. Belonging'
  <2>1. /\ invites' \subseteq teams'
        /\ roles' \subseteq minted'
        /\ \A s \in Teams : members'[s] # {} => s \in teams'
        /\ \A s \in Teams, v \in Users : held'[s][v] # {} => v \in members'[s]
    BY DEF AccessTypeOK, Belonging
  <2> QED
    BY <1>s, <2>1 DEF Belonging
<1>3. NoDanglingRoles'
  BY DEF AccessTypeOK, NoDanglingRoles, RolesOf
<1>4. AdminKept'
  <2> SUFFICES ASSUME NEW s \in teams', s \notin unguarded'
               PROVE  LivingAdmins(s)' # {}
    BY DEF AdminKept
  <2>1. CASE s = t
    <3>1. u \in Users \ erased'
      BY <2>1
    <3>2. held'[t][u] = {a}
      BY DEF AccessTypeOK
    <3>3. Holds(t, u, "settings", Write)'
      BY <3>2, <1>q DEF Holds
    <3> QED
      BY <2>1, <3>1, <3>3 DEF LivingAdmins, SettingsAdmins
  <2>2. CASE s # t
    <3>0. s \in teams /\ s \notin unguarded
      BY <2>2
    <3>1. PICK v \in Users \ erased : Holds(s, v, "settings", Write)
      BY <3>0 DEF AdminKept, LivingAdmins, SettingsAdmins
    <3>2. PICK x \in held[s][v] : perms[x]["settings"] >= Write
      BY <3>1 DEF Holds
    <3>3. x \in Roles /\ RoleTeam[x] = s
      BY <3>0, <3>2 DEF NoDanglingRoles, RolesOf, AccessTypeOK
    <3>4. perms'[x] = perms[x] /\ held'[s] = held[s]
      BY <2>2, <3>3 DEF AccessTypeOK
    <3> QED
      BY <3>2, <3>4 DEF LivingAdmins, SettingsAdmins, Holds
  <2> QED
    BY <2>1, <2>2
<1> QED
  BY <1>1, <1>2, <1>3, <1>4

LEMMA AcceptInviteKeeps ==
  ASSUME AccessInv, NEW u \in Users, NEW t \in Teams, AcceptInvite(u, t)
  PROVE  AccessInv'
<1> USE SystemRoleFacts DEF AccessInv, AcceptInvite, WriteAcceptInvite
<1>1. AccessTypeOK'
  BY DEF AccessTypeOK
<1>2. Belonging'
  BY DEF AccessTypeOK, Belonging
<1>3. NoDanglingRoles'
  BY DEF AccessTypeOK, NoDanglingRoles, RolesOf
<1>4. AdminKept'
  <2> SUFFICES ASSUME NEW s \in teams, s \notin unguarded
               PROVE  LivingAdmins(s)' # {}
    BY DEF AdminKept
  <2>1. PICK v \in Users \ erased : Holds(s, v, "settings", Write)
    BY DEF AdminKept, LivingAdmins, SettingsAdmins
  <2>2. held'[s][v] = held[s][v]
    BY <2>1 DEF Belonging, Holds, AccessTypeOK
  <2> QED
    BY <2>1, <2>2 DEF LivingAdmins, SettingsAdmins, Holds
<1> QED
  BY <1>1, <1>2, <1>3, <1>4

\* An erased settings admin leaves another one behind, or the team unguarded.
LEMMA EraseUserKeeps ==
  ASSUME AccessInv, NEW u \in Users, NEW locked \in SUBSET Teams,
         EraseUser(u, locked)
  PROVE  AccessInv'
<1> USE DEF AccessInv, EraseUser, WriteEraseUser
<1>1. AccessTypeOK'
  BY DEF AccessTypeOK
<1>2. Belonging' /\ NoDanglingRoles'
  BY DEF Belonging, NoDanglingRoles, RolesOf
<1>3. AdminKept'
  <2> SUFFICES ASSUME NEW s \in teams, s \notin unguarded'
               PROVE  LivingAdmins(s)' # {}
    BY DEF AdminKept
  <2>0. s \in Teams /\ s \notin unguarded
    BY DEF AccessTypeOK
  <2>1. PICK v \in Users \ erased : Holds(s, v, "settings", Write)
    BY <2>0 DEF AdminKept, LivingAdmins, SettingsAdmins
  <2>2. CASE u \in SettingsAdmins(s)
    <3>1. s \in locked \ unguarded
      BY <2>0, <2>2
    <3> QED
      BY <2>2, <3>1
      DEF EraseKeepsAdmin, AnotherAdmin, LivingAdmins, SettingsAdmins, Holds
  <2>3. CASE u \notin SettingsAdmins(s)
    BY <2>1, <2>3 DEF LivingAdmins, SettingsAdmins, Holds
  <2> QED
    BY <2>2, <2>3
<1> QED
  BY <1>1, <1>2, <1>3

\* The actions that touch no membership, role or account state AdminKept reads.
LEMMA OthersKeep ==
  ASSUME AccessInv,
         \/ \E t \in Teams : CreateInvite(t) \/ ExpireInvite(t)
         \/ \E t \in Teams, c \in Columns, ids \in SUBSET Roles : SetReferences(t, c, ids)
         \/ \E c, u \in Users, t \in Teams, patch \in Patches : UpdateMember(c, t, u, patch)
         \/ UNCHANGED accessVars
  PROVE  AccessInv'
<1> USE DEF AccessInv
<1>1. AdminKept' /\ (\A t \in Teams, u \in Users : (held[t][u] \subseteq RolesOf(t))')
  BY DEF CreateInvite, WriteCreateInvite, ExpireInvite, SetReferences, WriteReferences,
         UpdateMember, WriteUpdateMember, accessVars, NoDanglingRoles, RolesOf,
         AdminKept, LivingAdmins, SettingsAdmins, Holds
<1>2. ASSUME NEW t \in Teams, CreateInvite(t) \/ ExpireInvite(t) PROVE AccessInv'
  BY <1>1, <1>2 DEF CreateInvite, WriteCreateInvite, ExpireInvite,
         AccessTypeOK, Belonging, NoDanglingRoles, RolesOf
<1>3. ASSUME NEW t \in Teams, NEW c \in Columns, NEW ids \in SUBSET Roles,
             SetReferences(t, c, ids)
      PROVE AccessInv'
  BY <1>1, <1>3 DEF SetReferences, WriteReferences,
         AccessTypeOK, Belonging, NoDanglingRoles, RolesOf
<1>4. ASSUME NEW c \in Users, NEW u \in Users, NEW t \in Teams, NEW patch \in Patches,
             UpdateMember(c, t, u, patch)
      PROVE AccessInv'
  BY <1>1, <1>4 DEF UpdateMember, WriteUpdateMember, Patches,
         AccessTypeOK, Belonging, NoDanglingRoles, RolesOf
<1>5. CASE UNCHANGED accessVars
  BY <1>1, <1>5 DEF accessVars, AccessTypeOK, Belonging, NoDanglingRoles, RolesOf
<1> QED
  BY <1>2, <1>3, <1>4, <1>5

LEMMA StepKeepsAccessInv == AccessInv /\ [AccessNext]_accessVars => AccessInv'
BY SetRolesKeeps, RemoveMemberKeeps, UpdateRoleKeeps, DeleteRoleKeeps, CreateRoleKeeps,
   CreateTeamKeeps, AcceptInviteKeeps, EraseUserKeeps, OthersKeep
DEF AccessNext

-----------------------------------------------------------------------------

\* Every state of the promise is well-typed.
THEOREM AccessTypesKept == AccessSpec => []AccessTypeOK
<1>1. AccessInv => AccessTypeOK
  BY DEF AccessInv
<1> QED
  BY <1>1, InitKeepsAccessInv, StepKeepsAccessInv, PTL DEF AccessSpec, AccessSteps

\* No sequence of roles granted, revoked, rewritten or deleted, of members
\* removed or joining, of accounts erased under their teams' locks takes the
\* last living settings administrator out of a team. (members.SetRoles,
\* members.RemoveMember, roles.UpdateRole, roles.DeleteRole, auth.EraseUser.)
THEOREM AdminAlwaysKept == AccessSpec => []AdminKept
<1>1. AccessInv => AdminKept
  BY DEF AccessInv
<1> QED
  BY <1>1, InitKeepsAccessInv, StepKeepsAccessInv, PTL DEF AccessSpec, AccessSteps

-----------------------------------------------------------------------------
(* Requests.                                                               *)

Common == {"setRoles", "removeMember", "updateMember", "updateRole", "deleteRole",
           "setReferences", "createRole", "createInvite", "acceptInvite"}

\* What the fields of a request hold, by operation.
LEMMA RequestFields ==
  ASSUME NEW r \in Request
  PROVE  /\ r.caller \in Users
         /\ r.op \in Common \cup {"createTeam", "eraseUser"}
         /\ r.op \in Common => r.team \in Teams
         /\ r.op \in {"setRoles", "removeMember", "updateMember"} => r.user \in Users
         /\ r.op \in {"setRoles", "setReferences"} => r.ids \in SUBSET Roles
         /\ r.op = "updateMember" => r.patch \in Patches
         /\ r.op \in {"updateRole", "deleteRole"} => r.role \in Roles
         /\ r.op \in {"updateRole", "createRole"} => r.perms \in Perms
         /\ r.op = "setReferences" => r.column \in Columns
         /\ r.op = "eraseUser" => r.want \in SUBSET Teams
<1> USE DEF Common
<1>1. CASE r \in SetRolesRequest
  BY <1>1 DEF SetRolesRequest
<1>2. CASE r \in RemoveMemberRequest
  BY <1>2 DEF RemoveMemberRequest
<1>3. CASE r \in UpdateMemberRequest
  BY <1>3 DEF UpdateMemberRequest
<1>4. CASE r \in UpdateRoleRequest
  BY <1>4 DEF UpdateRoleRequest
<1>5. CASE r \in DeleteRoleRequest
  BY <1>5 DEF DeleteRoleRequest
<1>6. CASE r \in SetReferencesRequest
  BY <1>6 DEF SetReferencesRequest
<1>7. CASE r \in CreateRoleRequest
  BY <1>7 DEF CreateRoleRequest
<1>8. CASE r \in CreateInviteRequest
  BY <1>8 DEF CreateInviteRequest
<1>9. CASE r \in AcceptInviteRequest
  BY <1>9 DEF AcceptInviteRequest
<1>10. CASE r \in CreateTeamRequest
  BY <1>10 DEF CreateTeamRequest
<1>11. CASE r \in EraseUserRequest
  BY <1>11 DEF EraseUserRequest
<1> QED
  BY <1>1, <1>2, <1>3, <1>4, <1>5, <1>6, <1>7, <1>8, <1>9, <1>10, <1>11 DEF Request

\* A slot that is not free serves a request.
LEMMA InFlight ==
  ASSUME TypeOK, NEW q \in Requests, req[q] # Idle
  PROVE  req[q] \in Request
BY DEF TypeOK

\* Every step of a request leaves a request.
LEMMA NextStatement ==
  ASSUME NEW r \in Request
  PROVE  /\ r.pc = "lookup" => [r EXCEPT !.pc = "lock"] \in Request
         /\ r.pc = "lock" /\ r.op # "eraseUser" =>
              [r EXCEPT !.pc = IF r.op = "acceptInvite" THEN "commit" ELSE "check"]
                \in Request
         /\ r.pc = "check" => [r EXCEPT !.pc = "commit"] \in Request
         /\ r.op = "eraseUser" => [r EXCEPT !.pc = "check"] \in Request
         /\ r.op = "eraseUser" =>
              \A ts \in SUBSET Teams : [r EXCEPT !.pc = "lock", !.want = ts] \in Request
<1>1. CASE r \in SetRolesRequest
  BY <1>1 DEF SetRolesRequest, Request
<1>2. CASE r \in RemoveMemberRequest
  BY <1>2 DEF RemoveMemberRequest, Request
<1>3. CASE r \in UpdateMemberRequest
  BY <1>3 DEF UpdateMemberRequest, Request
<1>4. CASE r \in UpdateRoleRequest
  BY <1>4 DEF UpdateRoleRequest, Request
<1>5. CASE r \in DeleteRoleRequest
  BY <1>5 DEF DeleteRoleRequest, Request
<1>6. CASE r \in SetReferencesRequest
  BY <1>6 DEF SetReferencesRequest, Request
<1>7. CASE r \in CreateRoleRequest
  BY <1>7 DEF CreateRoleRequest, Request
<1>8. CASE r \in CreateInviteRequest
  BY <1>8 DEF CreateInviteRequest, Request
<1>9. CASE r \in AcceptInviteRequest
  BY <1>9 DEF AcceptInviteRequest, Request
<1>10. CASE r \in CreateTeamRequest
  BY <1>10 DEF CreateTeamRequest, Request
<1>11. CASE r \in EraseUserRequest
  BY <1>11 DEF EraseUserRequest, Request
<1> QED
  BY <1>1, <1>2, <1>3, <1>4, <1>5, <1>6, <1>7, <1>8, <1>9, <1>10, <1>11 DEF Request

-----------------------------------------------------------------------------
(* What a check relies on, and who may disturb it.                         *)

\* Team t as another transaction leaves it: nobody joins or leaves, no role is
\* taken, granted, deleted or rewritten, and no settings admin is erased unless
\* the team is marked unguarded.
Untouched(t) ==
  /\ members'[t] = members[t]
  /\ held'[t] = held[t]
  /\ \A r \in roles : RoleTeam[r] = t => r \in roles' /\ perms'[r] = perms[r]
  /\ unguarded \subseteq unguarded'
  /\ t \in unguarded' \/ \A u \in Users : u \in SettingsAdmins(t) \cap erased' => u \in erased

LEMMA HoldsStands ==
  ASSUME AccessInv, NEW t \in Teams, Untouched(t),
         NEW u \in Users, NEW m, NEW l
  PROVE  Holds(t, u, m, l)' <=> Holds(t, u, m, l)
<1>1. \A r \in held[t][u] : perms'[r] = perms[r]
  BY DEF AccessInv, NoDanglingRoles, RolesOf, Untouched
<1> QED
  BY <1>1 DEF Holds, Untouched

LEMMA AdminsStand ==
  ASSUME AccessInv, NEW t \in Teams, Untouched(t)
  PROVE  /\ SettingsAdmins(t)' = SettingsAdmins(t)
         /\ t \in unguarded' \/ LivingAdmins(t) \subseteq LivingAdmins(t)'
<1>1. SettingsAdmins(t)' = SettingsAdmins(t)
  BY HoldsStands DEF SettingsAdmins
<1>2. SettingsAdmins(t) \subseteq Users
  BY DEF SettingsAdmins
<1> QED
  BY <1>1, <1>2 DEF Untouched, LivingAdmins

LEMMA PermittedStands ==
  ASSUME AccessInv, NEW r \in Request, r.op \in Common,
         Untouched(r.team), Permitted(r)
  PROVE  Permitted(r)'
<1> USE RequestFields
<1> DEFINE t == r.team
<1>0. t \in Teams
  OBVIOUS
<1>r. RolesOf(t) \subseteq RolesOf(t)' /\ \A x \in RolesOf(t) : perms'[x] = perms[x]
  BY DEF RolesOf, Untouched
<1>1. CASE r.op = "setRoles"
  <2>1. SetRolesPermitted(r.caller, t, r.user, r.ids)
    BY <1>1 DEF Permitted
  <2>2. SetRolesPermitted(r.caller, t, r.user, r.ids)'
    BY <2>1, <1>1, <1>r, <1>0, HoldsStands DEF SetRolesPermitted, Untouched
  <2> QED
    BY <1>1, <2>2 DEF Permitted
<1>2. CASE r.op = "removeMember"
  <2>1. RemoveMemberPermitted(r.caller, t, r.user)
    BY <1>2 DEF Permitted
  <2>2. RemoveMemberPermitted(r.caller, t, r.user)'
    BY <2>1, <1>2, <1>0, AdminsStand DEF RemoveMemberPermitted, Untouched
  <2> QED
    BY <1>2, <2>2 DEF Permitted
<1>3. CASE r.op = "updateMember"
  <2>1. UpdateMemberPermitted(r.caller, t, r.user, r.patch)
    BY <1>3 DEF Permitted
  <2>2. UpdateMemberPermitted(r.caller, t, r.user, r.patch)'
    BY <2>1, <1>3, <1>0, AdminsStand DEF UpdateMemberPermitted, Untouched
  <2> QED
    BY <1>3, <2>2 DEF Permitted
<1>4. CASE r.op = "updateRole"
  <2>1. UpdateRolePermitted(r.caller, t, r.role, r.perms)
    BY <1>4 DEF Permitted
  <2>2. UpdateRolePermitted(r.caller, t, r.role, r.perms)'
    BY <2>1, <1>4, <1>r, <1>0, HoldsStands DEF UpdateRolePermitted
  <2> QED
    BY <1>4, <2>2 DEF Permitted
<1>5. CASE r.op = "deleteRole"
  <2>1. DeleteRolePermitted(t, r.role)'
    BY <1>5, <1>r DEF Permitted, DeleteRolePermitted
  <2> QED
    BY <1>5, <2>1 DEF Permitted
<1>6. CASE r.op = "setReferences"
  BY <1>6, <1>r DEF Permitted
<1>7. CASE r.op \in {"createRole", "createInvite", "acceptInvite"}
  BY <1>7 DEF Permitted
<1> QED
  BY <1>1, <1>2, <1>3, <1>4, <1>5, <1>6, <1>7 DEF Common

LEMMA KeepsAdminStands ==
  ASSUME AccessInv, NEW r \in Request, r.op \in Common,
         Untouched(r.team), Permitted(r), KeepsAdmin(r) \/ r.team \in unguarded
  PROVE  KeepsAdmin(r)' \/ r.team \in unguarded'
<1> USE RequestFields
<1> DEFINE t == r.team
<1> SUFFICES ASSUME t \notin unguarded' PROVE KeepsAdmin(r)'
  OBVIOUS
<1>0. /\ t \in Teams
      /\ KeepsAdmin(r)
      /\ SettingsAdmins(t)' = SettingsAdmins(t)
      /\ LivingAdmins(t) \subseteq LivingAdmins(t)'
  BY AdminsStand DEF Untouched
<1>r. \A x \in RolesOf(t) : perms'[x] = perms[x]
  BY DEF RolesOf, Untouched
<1>1. CASE r.op = "setRoles"
  <2>1. SetRolesKeepsAdmin(t, r.user, r.ids)'
    BY <1>0, <1>r, <1>1
    DEF KeepsAdmin, SetRolesKeepsAdmin, AnotherAdmin, Permitted, SetRolesPermitted
  <2> QED
    BY <1>1, <2>1 DEF KeepsAdmin
<1>2. CASE r.op = "removeMember"
  <2>1. RemoveMemberKeepsAdmin(t, r.user)'
    BY <1>0, <1>2 DEF KeepsAdmin, RemoveMemberKeepsAdmin, AnotherAdmin
  <2> QED
    BY <1>2, <2>1 DEF KeepsAdmin
<1>3. ASSUME NEW x \in Roles, AnotherAdminRole(t, x) PROVE AnotherAdminRole(t, x)'
  <2>1. PICK u \in Users \ erased : \E s \in held[t][u] \ {x} : perms[s]["settings"] = Write
    BY <1>3 DEF AnotherAdminRole
  <2>2. PICK s \in held[t][u] \ {x} : perms[s]["settings"] = Write
    BY <2>1
  <2>3. s \in RolesOf(t) /\ perms'[s] = perms[s]
    BY <1>0, <1>r, <2>2 DEF AccessInv, NoDanglingRoles
  <2>4. u \in SettingsAdmins(t)
    BY <2>2 DEF SettingsAdmins, Holds, Write
  <2>5. u \notin erased'
    BY <1>0, <2>1, <2>4 DEF LivingAdmins
  <2> QED
    BY <2>2, <2>3, <2>5 DEF AnotherAdminRole, Untouched
<1>4. CASE r.op = "updateRole"
  <2>1. UpdateRoleKeepsAdmin(t, r.role, r.perms)'
    BY <1>0, <1>r, <1>3, <1>4
    DEF KeepsAdmin, UpdateRoleKeepsAdmin, Permitted, UpdateRolePermitted
  <2> QED
    BY <1>4, <2>1 DEF KeepsAdmin
<1>5. CASE r.op = "deleteRole"
  <2>1. DeleteRoleKeepsAdmin(t, r.role)'
    BY <1>0, <1>r, <1>3, <1>5
    DEF KeepsAdmin, DeleteRoleKeepsAdmin, Permitted, DeleteRolePermitted
  <2> QED
    BY <1>5, <2>1 DEF KeepsAdmin
<1>6. CASE r.op \notin {"setRoles", "removeMember", "updateRole", "deleteRole"}
  BY <1>6 DEF KeepsAdmin
<1> QED
  BY <1>1, <1>2, <1>4, <1>5, <1>6

LEMMA ErasureStands ==
  ASSUME AccessInv, NEW u \in Users, NEW ts \in SUBSET Teams,
         \A t \in ts : Untouched(t),
         EraseKeepsAdmin(u, ts \ unguarded)
  PROVE  EraseKeepsAdmin(u, ts \ unguarded)'
BY AdminsStand DEF EraseKeepsAdmin, AnotherAdmin, Untouched

\* What a transaction leaves untouched: every team but the one it writes, and
\* for an erasure every team but those it holds.
LEMMA WritesElsewhere ==
  ASSUME AccessInv, NEW t \in teams, NEW s \in Teams
  PROVE  /\ \A u \in Users, ids \in SUBSET Roles :
              WriteSetRoles(s, u, ids) /\ s # t => Untouched(t)
         /\ \A u \in Users : WriteRemoveMember(s, u) /\ s # t => Untouched(t)
         /\ \A r \in Roles, p \in Perms : WriteUpdateRole(r, p) /\ RoleTeam[r] # t => Untouched(t)
         /\ \A r \in Roles :
              WriteDeleteRole(s, r) /\ RoleTeam[r] = s /\ s # t => Untouched(t)
         /\ \A r \in Roles, p \in Perms : WriteCreateRole(s, r, p) => Untouched(t)
         /\ \A u \in Users : WriteCreateTeam(u, s) => Untouched(t)
         /\ \A u \in Users : WriteAcceptInvite(u, s) /\ s # t => Untouched(t)
<1> USE DEF AccessInv, AccessTypeOK, Untouched
<1>0. t \in Teams
  OBVIOUS
<1>1. \A u \in Users, ids \in SUBSET Roles : WriteSetRoles(s, u, ids) /\ s # t => Untouched(t)
  BY DEF WriteSetRoles
<1>2. \A u \in Users : WriteRemoveMember(s, u) /\ s # t => Untouched(t)
  BY DEF WriteRemoveMember
<1>3. \A r \in Roles, p \in Perms : WriteUpdateRole(r, p) /\ RoleTeam[r] # t => Untouched(t)
  BY DEF WriteUpdateRole
<1>4. \A r \in Roles : WriteDeleteRole(s, r) /\ RoleTeam[r] = s /\ s # t => Untouched(t)
  BY DEF WriteDeleteRole
<1>5. \A r \in Roles, p \in Perms : WriteCreateRole(s, r, p) => Untouched(t)
  BY DEF WriteCreateRole, Belonging
<1>6. \A u \in Users : WriteCreateTeam(u, s) => Untouched(t)
  <2> SUFFICES ASSUME NEW u \in Users, WriteCreateTeam(u, s) PROVE Untouched(t)
    OBVIOUS
  <2>1. s # t
    BY DEF WriteCreateTeam
  <2>2. \A x \in roles : RoleTeam[x] = t => perms'[x] = perms[x]
    BY <2>1, SystemRoleFacts DEF WriteCreateTeam
  <2> QED
    BY <2>1, <2>2 DEF WriteCreateTeam
<1>7. \A u \in Users : WriteAcceptInvite(u, s) /\ s # t => Untouched(t)
  BY DEF WriteAcceptInvite
<1> QED
  BY <1>1, <1>2, <1>3, <1>4, <1>5, <1>6, <1>7

LEMMA WritesNoTeam ==
  ASSUME AccessInv, NEW t \in Teams
  PROVE  /\ \A s \in Teams : WriteCreateInvite(s) => Untouched(t)
         /\ \A s \in Teams, c \in Columns, ids \in SUBSET Roles :
              WriteReferences(s, c, ids) => Untouched(t)
         /\ \A u \in Users, patch \in Patches : WriteUpdateMember(u, patch) => Untouched(t)
         /\ \A u \in Users, locked \in SUBSET Teams :
              WriteEraseUser(u, locked) /\ t \notin locked => Untouched(t)
         /\ UNCHANGED <<teams, members, roles, perms, held, erased, unguarded>> => Untouched(t)
<1> USE DEF AccessInv, AccessTypeOK, Untouched
<1>1. \A s \in Teams : WriteCreateInvite(s) => Untouched(t)
  BY DEF WriteCreateInvite
<1>2. \A s \in Teams, c \in Columns, ids \in SUBSET Roles :
        WriteReferences(s, c, ids) => Untouched(t)
  BY DEF WriteReferences
<1>3. \A u \in Users, patch \in Patches : WriteUpdateMember(u, patch) => Untouched(t)
  BY DEF WriteUpdateMember
<1>4. \A u \in Users, locked \in SUBSET Teams :
        WriteEraseUser(u, locked) /\ t \notin locked => Untouched(t)
  BY DEF WriteEraseUser
<1>5. UNCHANGED <<teams, members, roles, perms, held, erased, unguarded>> => Untouched(t)
  OBVIOUS
<1> QED
  BY <1>1, <1>2, <1>3, <1>4, <1>5

-----------------------------------------------------------------------------
(* Every commit is a step of the promise.                                  *)

\* What is known of a request that commits.
LEMMA AtCommit ==
  ASSUME Inv, NEW q \in Requests, req[q] # Idle, req[q].pc = "commit"
  PROVE  /\ AccessInv
         /\ req[q] \in Request
         /\ Permitted(req[q])
         /\ KeepsAdmin(req[q]) \/ req[q].team \in unguarded
         /\ ErasureKeepsAdmin(req[q], req[q].want \ unguarded)
         /\ req[q].op \notin {"eraseUser", "createTeam"} => req[q].team \in teams
BY InFlight DEF Inv, ChecksStand, TeamsExist, Served

LEMMA CommitSteps ==
  ASSUME Inv, NEW q \in Requests, CommitAny(q)
  PROVE  /\ [AccessNext]_accessVars
         /\ \A t \in teams : t \notin Locks(req[q]) => Untouched(t)
         /\ Finish(q)
<1> DEFINE r == req[q]
<1>0. r # Idle /\ r.pc = "commit"
  BY DEF CommitAny, CommitSetRoles, CommitRemoveMember, CommitUpdateMember,
         CommitUpdateRole, CommitDeleteRole, CommitSetReferences, CommitCreateRole,
         CommitCreateInvite, CommitAcceptInvite, CommitCreateTeam, CommitEraseUser, At
<1>i. /\ AccessInv
      /\ r \in Request
      /\ Permitted(r)
      /\ KeepsAdmin(r) \/ r.team \in unguarded
      /\ ErasureKeepsAdmin(r, r.want \ unguarded)
      /\ r.op \notin {"eraseUser", "createTeam"} => r.team \in teams
  BY <1>0, AtCommit
<1>t. \A t \in teams : t \in Teams
  BY <1>i DEF AccessInv, AccessTypeOK
<1>f. /\ r.caller \in Users
      /\ r.op \in Common => r.team \in Teams
      /\ r.op \in {"setRoles", "removeMember", "updateMember"} => r.user \in Users
      /\ r.op \in {"setRoles", "setReferences"} => r.ids \in SUBSET Roles
      /\ r.op = "updateMember" => r.patch \in Patches
      /\ r.op \in {"updateRole", "deleteRole"} => r.role \in Roles
      /\ r.op \in {"updateRole", "createRole"} => r.perms \in Perms
      /\ r.op = "setReferences" => r.column \in Columns
      /\ r.op = "eraseUser" => r.want \in SUBSET Teams
  BY <1>i, RequestFields
<1> HIDE DEF r
<1> USE <1>i, <1>f
<1>1. CASE CommitSetRoles(q)
  <2>1. /\ r.op = "setRoles" /\ WriteSetRoles(r.team, r.user, r.ids) /\ Finish(q)
    BY <1>1 DEF CommitSetRoles, At, r
  <2>2. SetRoles(r.caller, r.team, r.user, r.ids)
    BY <2>1 DEF SetRoles, Permitted, KeepsAdmin
  <2>3. Locks(r) = {r.team}
    BY <2>1 DEF Locks
  <2> QED
    BY <1>t, <2>1, <2>2, <2>3, WritesElsewhere DEF AccessNext, r, Common
<1>2. CASE CommitRemoveMember(q)
  <2>1. /\ r.op = "removeMember" /\ WriteRemoveMember(r.team, r.user) /\ Finish(q)
    BY <1>2 DEF CommitRemoveMember, At, r
  <2>2. RemoveMember(r.caller, r.team, r.user)
    BY <2>1 DEF RemoveMember, Permitted, KeepsAdmin
  <2>3. Locks(r) = {r.team}
    BY <2>1 DEF Locks
  <2> QED
    BY <1>t, <2>1, <2>2, <2>3, WritesElsewhere DEF AccessNext, r, Common
<1>3. CASE CommitUpdateMember(q)
  <2>1. r.op = "updateMember" /\ Finish(q)
    BY <1>3 DEF CommitUpdateMember, At, r
  <2>2. CASE EmailFree(r.user, r.patch)
    <3>1. WriteUpdateMember(r.user, r.patch)
      BY <1>3, <2>2 DEF CommitUpdateMember, r
    <3>2. UpdateMember(r.caller, r.team, r.user, r.patch)
      BY <2>1, <2>2, <3>1 DEF UpdateMember, Permitted
    <3> QED
      BY <1>t, <2>1, <3>1, <3>2, WritesNoTeam DEF AccessNext, r, Common
  <2>3. CASE ~EmailFree(r.user, r.patch)
    <3>1. UNCHANGED accessVars
      BY <1>3, <2>3 DEF CommitUpdateMember, r
    <3> QED
      BY <1>t, <2>1, <3>1, WritesNoTeam DEF accessVars
  <2> QED
    BY <2>2, <2>3
<1>4. CASE CommitUpdateRole(q)
  <2>1. /\ r.op = "updateRole" /\ WriteUpdateRole(r.role, r.perms) /\ Finish(q)
    BY <1>4 DEF CommitUpdateRole, At, r
  <2>2. UpdateRole(r.caller, r.team, r.role, r.perms)
    BY <2>1 DEF UpdateRole, Permitted, KeepsAdmin
  <2>3. Locks(r) = {r.team} /\ RoleTeam[r.role] = r.team
    BY <2>1 DEF Locks, Permitted, UpdateRolePermitted, RolesOf
  <2> QED
    BY <1>t, <2>1, <2>2, <2>3, WritesElsewhere DEF AccessNext, r, Common
<1>5. CASE CommitDeleteRole(q)
  <2>1. /\ r.op = "deleteRole" /\ WriteDeleteRole(r.team, r.role) /\ Finish(q)
    BY <1>5 DEF CommitDeleteRole, At, r
  <2>2. DeleteRole(r.team, r.role)
    BY <2>1 DEF DeleteRole, Permitted, KeepsAdmin
  <2>3. Locks(r) = {r.team} /\ RoleTeam[r.role] = r.team
    BY <2>1 DEF Locks, Permitted, DeleteRolePermitted, RolesOf
  <2> QED
    BY <1>t, <2>1, <2>2, <2>3, WritesElsewhere DEF AccessNext, r, Common
<1>6. CASE CommitSetReferences(q)
  <2>1. /\ r.op = "setReferences" /\ WriteReferences(r.team, r.column, r.ids) /\ Finish(q)
    BY <1>6 DEF CommitSetReferences, At, r
  <2>2. SetReferences(r.team, r.column, r.ids)
    BY <2>1 DEF SetReferences, Permitted
  <2> QED
    BY <1>t, <2>1, <2>2, WritesNoTeam DEF AccessNext, r, Common
<1>7. CASE CommitCreateRole(q)
  <2>1. PICK x \in Roles : WriteCreateRole(r.team, x, r.perms)
    BY <1>7 DEF CommitCreateRole, r
  <2>2. r.op = "createRole" /\ Finish(q)
    BY <1>7 DEF CommitCreateRole, At, r
  <2>3. CreateRole(r.team, x, r.perms)
    BY <2>1, <2>2 DEF CreateRole
  <2> QED
    BY <1>t, <2>1, <2>2, <2>3, WritesElsewhere DEF AccessNext, r, Common
<1>8. CASE CommitCreateInvite(q)
  <2>1. r.op = "createInvite" /\ WriteCreateInvite(r.team) /\ Finish(q)
    BY <1>8 DEF CommitCreateInvite, At, r
  <2>2. CreateInvite(r.team)
    BY <2>1 DEF CreateInvite
  <2> QED
    BY <1>t, <2>1, <2>2, WritesNoTeam DEF AccessNext, r, Common
<1>9. CASE CommitAcceptInvite(q)
  <2>1. r.op = "acceptInvite" /\ WriteAcceptInvite(r.caller, r.team) /\ Finish(q)
    BY <1>9 DEF CommitAcceptInvite, At, r
  <2>2. AcceptInvite(r.caller, r.team)
    BY <2>1 DEF AcceptInvite
  <2>3. Locks(r) = {r.team}
    BY <2>1 DEF Locks
  <2> QED
    BY <1>t, <2>1, <2>2, <2>3, WritesElsewhere DEF AccessNext, r, Common
<1>10. CASE CommitCreateTeam(q)
  <2>1. PICK s \in Teams : WriteCreateTeam(r.caller, s)
    BY <1>10 DEF CommitCreateTeam, r
  <2>2. Finish(q)
    BY <1>10 DEF CommitCreateTeam
  <2> QED
    BY <1>t, <2>1, <2>2, WritesElsewhere DEF AccessNext, r, Common
<1>11. CASE CommitEraseUser(q)
  <2>1. r.op = "eraseUser" /\ WriteEraseUser(r.caller, r.want) /\ Finish(q)
    BY <1>11 DEF CommitEraseUser, At, r
  <2>2. EraseUser(r.caller, r.want)
    BY <2>1 DEF EraseUser, ErasureKeepsAdmin
  <2>3. Locks(r) = r.want
    BY <2>1 DEF Locks
  <2> QED
    BY <1>t, <2>1, <2>2, <2>3, WritesNoTeam DEF AccessNext, r
<1> QED
  BY <1>1, <1>2, <1>3, <1>4, <1>5, <1>6, <1>7, <1>8, <1>9, <1>10, <1>11 DEF CommitAny

-----------------------------------------------------------------------------
(* The invariant, step by step.                                            *)

\* A check stands as long as the teams it holds are left untouched.
LEMMA CheckStands ==
  ASSUME AccessInv, NEW r \in Request, \A t \in Locks(r) : Untouched(t),
         Permitted(r),
         KeepsAdmin(r) \/ r.team \in unguarded,
         ErasureKeepsAdmin(r, r.want \ unguarded)
  PROVE  /\ Permitted(r)'
         /\ KeepsAdmin(r)' \/ r.team \in unguarded'
         /\ ErasureKeepsAdmin(r, r.want \ unguarded)'
<1> USE RequestFields
<1>1. CASE r.op = "eraseUser"
  <2>1. Permitted(r)' /\ KeepsAdmin(r)'
    BY <1>1 DEF Permitted, KeepsAdmin
  <2>2. EraseKeepsAdmin(r.caller, r.want \ unguarded)
    BY <1>1 DEF ErasureKeepsAdmin
  <2>3. EraseKeepsAdmin(r.caller, r.want \ unguarded)'
    BY <1>1, <2>2, ErasureStands DEF Locks
  <2> QED
    BY <2>1, <2>3 DEF ErasureKeepsAdmin
<1>2. CASE r.op \in {"createTeam", "createRole", "createInvite"}
  BY <1>2 DEF Permitted, KeepsAdmin, ErasureKeepsAdmin
<1>3. CASE r.op = "setReferences" /\ r.ids = {}
  BY <1>3 DEF Permitted, KeepsAdmin, ErasureKeepsAdmin
<1>4. CASE /\ r.op \in Common \ {"createTeam", "createRole", "createInvite"}
           /\ ~(r.op = "setReferences" /\ r.ids = {})
  <2>1. Untouched(r.team)
    BY <1>4 DEF Locks, Common
  <2>2. ErasureKeepsAdmin(r, r.want \ unguarded)'
    BY <1>4 DEF ErasureKeepsAdmin, Common
  <2> QED
    BY <1>4, <2>1, <2>2, PermittedStands, KeepsAdminStands
<1> QED
  BY <1>1, <1>2, <1>3, <1>4

\* A request enters or advances, and the tables stay as they are.
LEMMA MoveKeepsInv ==
  ASSUME Inv, UNCHANGED accessVars,
         NEW q \in Requests, NEW r \in Request, req' = [req EXCEPT ![q] = r],
         lock' \in [Teams -> Requests \cup {Idle}],
         \A p \in Requests \ {q}, t \in Teams : lock[t] = p => lock'[t] = p,
         r.pc \in {"check", "commit"} => \A t \in Locks(r) : lock'[t] = q,
         r.op = "eraseUser" => r.want \subseteq teams,
         r.op \notin {"eraseUser", "createTeam"} /\ r.pc # "lookup" => r.team \in teams,
         r.pc = "commit" => /\ Permitted(r)
                            /\ KeepsAdmin(r) \/ r.team \in unguarded
                            /\ ErasureKeepsAdmin(r, r.want \ unguarded)
  PROVE  Inv'
<1>0. AccessInv /\ AccessInv'
  BY OthersKeep DEF Inv
<1>1. TypeOK'
  BY <1>0 DEF Inv, TypeOK, AccessInv
<1>2. req'[q] = r /\ \A p \in Requests \ {q} : req'[p] = req[p]
  BY DEF Inv, TypeOK
<1>3. \A p \in Requests : \A x \in Served(p)' :
        x \in Request /\ ((p = q /\ x = r) \/ (p # q /\ x \in Served(p)))
  <2> SUFFICES ASSUME NEW p \in Requests, NEW x \in Served(p)'
               PROVE  x \in Request /\ ((p = q /\ x = r) \/ (p # q /\ x \in Served(p)))
    OBVIOUS
  <2>1. x = req'[p] /\ x # Idle
    BY DEF Served
  <2>2. x \in Request
    BY <1>1, <2>1 DEF TypeOK
  <2>4. CASE p = q
    BY <1>2, <2>1, <2>2, <2>4
  <2>5. CASE p # q
    BY <1>2, <2>1, <2>2, <2>5 DEF Served
  <2> QED
    BY <2>4, <2>5
<1>4. \A t \in Teams : Untouched(t)
  BY <1>0, WritesNoTeam DEF accessVars
<1>w. \A x \in Request : Locks(x) \subseteq Teams
  BY RequestFields DEF Locks, Common
<1>5. Serialised'
  BY <1>3, <1>w DEF Inv, Serialised
<1>6. TeamsExist'
  BY <1>3 DEF Inv, TeamsExist, accessVars
<1>7. ChecksStand'
  <2> SUFFICES ASSUME NEW p \in Requests, NEW x \in Served(p)', x.pc = "commit"
               PROVE  /\ Permitted(x)'
                      /\ KeepsAdmin(x)' \/ x.team \in unguarded'
                      /\ ErasureKeepsAdmin(x, x.want \ unguarded)'
    BY DEF ChecksStand
  <2>1. /\ x \in Request
        /\ Permitted(x)
        /\ KeepsAdmin(x) \/ x.team \in unguarded
        /\ ErasureKeepsAdmin(x, x.want \ unguarded)
    BY <1>3 DEF Inv, ChecksStand
  <2> QED
    BY <1>0, <1>4, <1>w, <2>1, CheckStands
<1> QED
  BY <1>0, <1>1, <1>5, <1>6, <1>7 DEF Inv

\* A request ends: its transaction has changed nothing, or only the teams whose
\* lock it held.
LEMMA FinishKeepsInv ==
  ASSUME Inv, [AccessNext]_accessVars,
         NEW q \in Requests, req[q] # Idle, Finish(q),
         \A t \in teams : Untouched(t) \/ lock[t] = q
  PROVE  Inv'
<1>0. AccessInv /\ AccessInv'
  BY StepKeepsAccessInv DEF Inv
<1>1. TypeOK'
  BY <1>0 DEF Inv, TypeOK, AccessInv, Finish
<1>2. \A p \in Requests : \A x \in Served(p)' :
        x \in Request /\ p # q /\ x \in Served(p)
  BY <1>1 DEF Inv, Served, TypeOK, Finish
<1>w. \A x \in Request : Locks(x) \subseteq Teams
  BY RequestFields DEF Locks, Common
<1>3. \A p \in Requests \ {q}, t \in Teams : lock[t] = p => lock'[t] = p
  BY DEF Inv, TypeOK, Finish
<1>4. Serialised'
  BY <1>2, <1>3, <1>w DEF Inv, Serialised
<1>5. teams \subseteq teams'
  BY DEF AccessNext, accessVars, SetRoles, RemoveMember, UpdateMember, UpdateRole,
         DeleteRole, CreateRole, AcceptInvite, CreateInvite, ExpireInvite,
         SetReferences, EraseUser, WriteSetRoles, WriteRemoveMember, WriteUpdateMember,
         WriteUpdateRole, WriteDeleteRole, WriteCreateRole, WriteCreateTeam,
         WriteAcceptInvite, WriteCreateInvite, WriteReferences, WriteEraseUser
<1>6. TeamsExist'
  BY <1>2, <1>5 DEF Inv, TeamsExist
<1>7. ChecksStand'
  <2> SUFFICES ASSUME NEW p \in Requests, NEW x \in Served(p)', x.pc = "commit"
               PROVE  /\ Permitted(x)'
                      /\ KeepsAdmin(x)' \/ x.team \in unguarded'
                      /\ ErasureKeepsAdmin(x, x.want \ unguarded)'
    BY DEF ChecksStand
  <2>1. /\ x \in Request
        /\ Permitted(x)
        /\ KeepsAdmin(x) \/ x.team \in unguarded
        /\ ErasureKeepsAdmin(x, x.want \ unguarded)
    BY <1>2 DEF Inv, ChecksStand
  <2>2. \A t \in Locks(x) : t \in teams /\ lock[t] = p /\ p # q
    BY <1>2 DEF Inv, Serialised, TeamsExist, Locks
  <2> QED
    BY <1>0, <2>1, <2>2, CheckStands
<1> QED
  BY <1>0, <1>1, <1>4, <1>6, <1>7 DEF Inv

\* A submitted request holds no lock, has nothing checked, and names a team its
\* caller is a member of.
LEMMA SubmitAddsRequest ==
  ASSUME Inv, NEW q \in Requests, SubmitAny(q)
  PROVE  \E r \in Request :
           /\ req' = [req EXCEPT ![q] = r]
           /\ UNCHANGED <<accessVars, lock>>
           /\ req[q] = Idle
           /\ r.caller \notin erased
           /\ r.pc \in {"check", "commit"} => Locks(r) = {}
           /\ r.op = "eraseUser" => r.pc = "snapshot" /\ r.want = {}
           /\ r.op \notin {"eraseUser", "createTeam"} /\ r.pc # "lookup" => r.team \in teams
           /\ r.pc = "commit" =>
                r.op = "createInvite" \/ (r.op = "setReferences" /\ r.ids = {})
<1>a. ASSUME NEW c \in Users, NEW t \in Teams, NEW m, Authorised(c, t, m)
      PROVE  t \in teams
  BY <1>a DEF Authorised, Inv, AccessInv, Belonging
<1>1. CASE SubmitSetRoles(q)
  <2>1. PICK c \in Users, u \in Users, t \in Teams, ids \in SUBSET Roles :
          /\ Authorised(c, t, "settings")
          /\ Submit(q, [op |-> "setRoles", pc |-> "lock", caller |-> c, team |-> t,
                        user |-> u, ids |-> ids])
    BY <1>1 DEF SubmitSetRoles
  <2> DEFINE r == [op |-> "setRoles", pc |-> "lock", caller |-> c, team |-> t,
                   user |-> u, ids |-> ids]
  <2>2. r \in Request
    BY DEF SetRolesRequest, Request
  <2>3. r.op = "setRoles" /\ r.pc = "lock" /\ r.team = t
    OBVIOUS
  <2> HIDE DEF r
  <2> QED
    BY <1>a, <2>1, <2>2, <2>3 DEF r, Submit
<1>2. CASE SubmitRemoveMember(q)
  <2>1. PICK c \in Users, u \in Users, t \in Teams :
          /\ Authorised(c, t, "members")
          /\ Submit(q, [op |-> "removeMember", pc |-> "lock", caller |-> c, team |-> t,
                        user |-> u])
    BY <1>2 DEF SubmitRemoveMember
  <2> DEFINE r == [op |-> "removeMember", pc |-> "lock", caller |-> c, team |-> t,
                   user |-> u]
  <2>2. r \in Request
    BY DEF RemoveMemberRequest, Request
  <2>3. r.op = "removeMember" /\ r.pc = "lock" /\ r.team = t
    OBVIOUS
  <2> HIDE DEF r
  <2> QED
    BY <1>a, <2>1, <2>2, <2>3 DEF r, Submit
<1>3. CASE SubmitUpdateMember(q)
  <2>1. PICK c \in Users, u \in Users, t \in Teams, patch \in Patches :
          /\ Authorised(c, t, "members")
          /\ Submit(q, [op |-> "updateMember", pc |-> "lock", caller |-> c, team |-> t,
                        user |-> u, patch |-> patch])
    BY <1>3 DEF SubmitUpdateMember
  <2> DEFINE r == [op |-> "updateMember", pc |-> "lock", caller |-> c, team |-> t,
                   user |-> u, patch |-> patch]
  <2>2. r \in Request
    BY DEF UpdateMemberRequest, Request
  <2>3. r.op = "updateMember" /\ r.pc = "lock" /\ r.team = t
    OBVIOUS
  <2> HIDE DEF r
  <2> QED
    BY <1>a, <2>1, <2>2, <2>3 DEF r, Submit
<1>4. CASE SubmitUpdateRole(q)
  <2>1. PICK c \in Users, t \in Teams, x \in Roles, p \in Perms :
          /\ Authorised(c, t, "settings")
          /\ Submit(q, [op |-> "updateRole", pc |-> "lock", caller |-> c, team |-> t,
                        role |-> x, perms |-> p])
    BY <1>4 DEF SubmitUpdateRole
  <2> DEFINE r == [op |-> "updateRole", pc |-> "lock", caller |-> c, team |-> t,
                   role |-> x, perms |-> p]
  <2>2. r \in Request
    BY DEF UpdateRoleRequest, Request
  <2>3. r.op = "updateRole" /\ r.pc = "lock" /\ r.team = t
    OBVIOUS
  <2> HIDE DEF r
  <2> QED
    BY <1>a, <2>1, <2>2, <2>3 DEF r, Submit
<1>5. CASE SubmitDeleteRole(q)
  <2>1. PICK c \in Users, t \in Teams, x \in Roles :
          /\ Authorised(c, t, "settings")
          /\ Submit(q, [op |-> "deleteRole", pc |-> "lock", caller |-> c, team |-> t,
                        role |-> x])
    BY <1>5 DEF SubmitDeleteRole
  <2> DEFINE r == [op |-> "deleteRole", pc |-> "lock", caller |-> c, team |-> t,
                   role |-> x]
  <2>2. r \in Request
    BY DEF DeleteRoleRequest, Request
  <2>3. r.op = "deleteRole" /\ r.pc = "lock" /\ r.team = t
    OBVIOUS
  <2> HIDE DEF r
  <2> QED
    BY <1>a, <2>1, <2>2, <2>3 DEF r, Submit
<1>6. CASE SubmitSetReferences(q)
  <2>1. PICK c \in Users, t \in Teams, col \in Columns, ids \in SUBSET Roles :
          /\ Authorised(c, t, IF col = "nominated" THEN "events" ELSE "settings")
          /\ Submit(q, [op |-> "setReferences", pc |-> IF ids = {} THEN "commit" ELSE "lock", caller |-> c, team |-> t,
                        column |-> col, ids |-> ids])
    BY <1>6 DEF SubmitSetReferences
  <2> DEFINE r == [op |-> "setReferences", pc |-> IF ids = {} THEN "commit" ELSE "lock", caller |-> c, team |-> t,
                   column |-> col, ids |-> ids]
  <2>2. r \in Request
    BY DEF SetReferencesRequest, Request
  <2>3. r.op = "setReferences" /\ r.pc = (IF r.ids = {} THEN "commit" ELSE "lock") /\ r.team = t
    OBVIOUS
  <2> HIDE DEF r
  <2> QED
    BY <1>a, <2>1, <2>2, <2>3 DEF r, Submit, Locks
<1>7. CASE SubmitCreateRole(q)
  <2>1. PICK c \in Users, t \in Teams, p \in Perms :
          /\ Authorised(c, t, "settings")
          /\ Submit(q, [op |-> "createRole", pc |-> "check", caller |-> c, team |-> t,
                        perms |-> p])
    BY <1>7 DEF SubmitCreateRole
  <2> DEFINE r == [op |-> "createRole", pc |-> "check", caller |-> c, team |-> t,
                   perms |-> p]
  <2>2. r \in Request
    BY DEF CreateRoleRequest, Request
  <2>3. r.op = "createRole" /\ r.pc = "check" /\ r.team = t
    OBVIOUS
  <2> HIDE DEF r
  <2> QED
    BY <1>a, <2>1, <2>2, <2>3 DEF r, Submit, Locks
<1>8. CASE SubmitCreateInvite(q)
  <2>1. PICK c \in Users, t \in Teams :
          /\ Authorised(c, t, "settings")
          /\ Submit(q, [op |-> "createInvite", pc |-> "commit", caller |-> c, team |-> t])
    BY <1>8 DEF SubmitCreateInvite
  <2> DEFINE r == [op |-> "createInvite", pc |-> "commit", caller |-> c, team |-> t]
  <2>2. r \in Request
    BY DEF CreateInviteRequest, Request
  <2>3. r.op = "createInvite" /\ r.pc = "commit" /\ r.team = t
    OBVIOUS
  <2> HIDE DEF r
  <2> QED
    BY <1>a, <2>1, <2>2, <2>3 DEF r, Submit, Locks
<1>9. CASE SubmitAcceptInvite(q)
  <2>1. PICK c \in Users, t \in Teams :
          Submit(q, [op |-> "acceptInvite", pc |-> "lookup", caller |-> c, team |-> t])
    BY <1>9 DEF SubmitAcceptInvite
  <2> DEFINE r == [op |-> "acceptInvite", pc |-> "lookup", caller |-> c, team |-> t]
  <2>2. r \in Request
    BY DEF AcceptInviteRequest, Request
  <2>3. r.op = "acceptInvite" /\ r.pc = "lookup" /\ r.team = t
    OBVIOUS
  <2> HIDE DEF r
  <2> QED
    BY <2>1, <2>2, <2>3 DEF r, Submit
<1>10. CASE SubmitCreateTeam(q)
  <2>1. PICK c \in Users :
          Submit(q, [op |-> "createTeam", pc |-> "check", caller |-> c])
    BY <1>10 DEF SubmitCreateTeam
  <2> DEFINE r == [op |-> "createTeam", pc |-> "check", caller |-> c]
  <2>2. r \in Request
    BY DEF CreateTeamRequest, Request
  <2>3. r.op = "createTeam" /\ r.pc = "check"
    OBVIOUS
  <2> HIDE DEF r
  <2> QED
    BY <2>1, <2>2, <2>3 DEF r, Submit, Locks
<1>11. CASE SubmitEraseUser(q)
  <2>1. PICK c \in Users :
          Submit(q, [op |-> "eraseUser", pc |-> "snapshot", caller |-> c,
                     want |-> {}])
    BY <1>11 DEF SubmitEraseUser
  <2> DEFINE r == [op |-> "eraseUser", pc |-> "snapshot", caller |-> c, want |-> {}]
  <2>2. r \in Request
    BY DEF EraseUserRequest, Request
  <2>3. r.op = "eraseUser" /\ r.pc = "snapshot" /\ r.want = {}
    OBVIOUS
  <2> HIDE DEF r
  <2> QED
    BY <2>1, <2>2, <2>3 DEF r, Submit
<1> QED
  BY <1>1, <1>2, <1>3, <1>4, <1>5, <1>6, <1>7, <1>8, <1>9, <1>10, <1>11 DEF SubmitAny

LEMMA SubmitKeepsInv ==
  ASSUME Inv, NEW q \in Requests, SubmitAny(q)
  PROVE  Inv'
<1>1. PICK r \in Request :
        /\ req' = [req EXCEPT ![q] = r]
        /\ UNCHANGED <<accessVars, lock>>
        /\ r.pc \in {"check", "commit"} => Locks(r) = {}
        /\ r.op = "eraseUser" => r.pc = "snapshot" /\ r.want = {}
        /\ r.op \notin {"eraseUser", "createTeam"} /\ r.pc # "lookup" => r.team \in teams
        /\ r.pc = "commit" =>
             r.op = "createInvite" \/ (r.op = "setReferences" /\ r.ids = {})
  BY SubmitAddsRequest
<1>2. r.pc = "commit" => /\ Permitted(r)
                         /\ KeepsAdmin(r)
                         /\ ErasureKeepsAdmin(r, r.want \ unguarded)
  BY <1>1 DEF Permitted, KeepsAdmin, ErasureKeepsAdmin
<1>3. lock' \in [Teams -> Requests \cup {Idle}]
  BY <1>1 DEF Inv, TypeOK
<1> QED
  BY <1>1, <1>2, <1>3, MoveKeepsInv

\* A statement that moves a request on, to pc, maybe taking a lock.
LEMMA GotoIsMove ==
  ASSUME TypeOK, NEW q \in Requests, NEW pc, Goto(q, pc)
  PROVE  req' = [req EXCEPT ![q] = [req[q] EXCEPT !.pc = pc]]
BY DEF TypeOK, Goto

\* Moving on changes nothing but pc.
LEMMA SameFields ==
  ASSUME NEW r \in Request, NEW pc
  PROVE  LET x == [r EXCEPT !.pc = pc]
         IN  /\ x.pc = pc /\ x.op = r.op /\ x.caller = r.caller
             /\ r.op \in Common => x.team = r.team
             /\ r.op \in {"setRoles", "removeMember", "updateMember"} => x.user = r.user
             /\ r.op \in {"setRoles", "setReferences"} => x.ids = r.ids
             /\ r.op = "updateMember" => x.patch = r.patch
             /\ r.op \in {"updateRole", "deleteRole"} => x.role = r.role
             /\ r.op \in {"updateRole", "createRole"} => x.perms = r.perms
             /\ r.op = "eraseUser" => x.want = r.want
<1>1. CASE r \in SetRolesRequest
  BY <1>1 DEF SetRolesRequest, Common
<1>2. CASE r \in RemoveMemberRequest
  BY <1>2 DEF RemoveMemberRequest, Common
<1>3. CASE r \in UpdateMemberRequest
  BY <1>3 DEF UpdateMemberRequest, Common
<1>4. CASE r \in UpdateRoleRequest
  BY <1>4 DEF UpdateRoleRequest, Common
<1>5. CASE r \in DeleteRoleRequest
  BY <1>5 DEF DeleteRoleRequest, Common
<1>6. CASE r \in SetReferencesRequest
  BY <1>6 DEF SetReferencesRequest, Common
<1>7. CASE r \in CreateRoleRequest
  BY <1>7 DEF CreateRoleRequest, Common
<1>8. CASE r \in CreateInviteRequest
  BY <1>8 DEF CreateInviteRequest, Common
<1>9. CASE r \in AcceptInviteRequest
  BY <1>9 DEF AcceptInviteRequest, Common
<1>10. CASE r \in CreateTeamRequest
  BY <1>10 DEF CreateTeamRequest, Common
<1>11. CASE r \in EraseUserRequest
  BY <1>11 DEF EraseUserRequest, Common
<1> QED
  BY <1>1, <1>2, <1>3, <1>4, <1>5, <1>6, <1>7, <1>8, <1>9, <1>10, <1>11 DEF Request

LEMMA LocksOfMove ==
  ASSUME NEW r \in Request, NEW pc
  PROVE  Locks([r EXCEPT !.pc = pc]) = Locks(r)
<1> DEFINE x == [r EXCEPT !.pc = pc]
<1>1. /\ x.op = r.op
      /\ r.op \in Common => x.team = r.team
      /\ r.op = "setReferences" => x.ids = r.ids
      /\ r.op = "eraseUser" => x.want = r.want
      /\ r.op \in Common \cup {"createTeam", "eraseUser"}
  BY SameFields, RequestFields
<1> HIDE DEF x
<1>2. Locks(x) = Locks(r)
  BY <1>1 DEF Locks, Common
<1> QED
  BY <1>2 DEF x

LEMMA AcquireLockKeepsInv ==
  ASSUME Inv, NEW q \in Requests, AcquireLock(q)
  PROVE  Inv'
<1> DEFINE pc == IF req[q].op = "acceptInvite" THEN "commit" ELSE "check"
           r == [req[q] EXCEPT !.pc = pc]
<1>0. /\ req[q] \in Request /\ req[q].pc = "lock" /\ req[q].op # "eraseUser"
      /\ TypeOK /\ UNCHANGED accessVars /\ Goto(q, pc)
      /\ lock[req[q].team] = Idle /\ lock' = [lock EXCEPT ![req[q].team] = q]
  BY InFlight DEF AcquireLock, Inv
<1>1. r \in Request
  BY <1>0, NextStatement
<1>2. /\ r.pc = pc /\ r.op = req[q].op /\ Locks(r) = Locks(req[q])
      /\ req[q].op \in Common => r.team = req[q].team
  BY <1>0, SameFields, LocksOfMove
<1>3. req' = [req EXCEPT ![q] = r]
  BY <1>0, GotoIsMove
<1>4. Locks(r) \subseteq {req[q].team}
  BY <1>0, <1>2 DEF Locks
<1>n. req[q].op # "createTeam"
  BY <1>0 DEF Request, CreateTeamRequest, SetRolesRequest, RemoveMemberRequest,
    UpdateMemberRequest, UpdateRoleRequest, DeleteRoleRequest, SetReferencesRequest,
    CreateRoleRequest, CreateInviteRequest, AcceptInviteRequest, EraseUserRequest
<1>5. req[q].op \in Common /\ req[q].team \in Teams
  BY <1>0, <1>n, RequestFields
<1>6. r.team \in teams
  BY <1>0, <1>2, <1>5 DEF Inv, TeamsExist, Served, Common, TypeOK, AcquireLock
<1> HIDE DEF r, pc
<1>7. r.pc = "commit" => /\ Permitted(r)
                         /\ KeepsAdmin(r)
                         /\ ErasureKeepsAdmin(r, r.want \ unguarded)
  BY <1>2 DEF Permitted, KeepsAdmin, ErasureKeepsAdmin, pc
<1>8. /\ lock' \in [Teams -> Requests \cup {Idle}]
      /\ lock'[req[q].team] = q
      /\ \A p \in Requests \ {q}, t \in Teams : lock[t] = p => lock'[t] = p
  BY <1>0, <1>5, TeamRequestsAssumption DEF TypeOK, TeamRequestsAssumption
<1>9. /\ \A t \in Locks(r) : lock'[t] = q
      /\ r.op # "eraseUser"
      /\ KeepsAdmin(r) => KeepsAdmin(r) \/ r.team \in unguarded
  BY <1>0, <1>2, <1>4, <1>8
<1>10. UNCHANGED accessVars
  BY <1>0
<1> QED
  BY <1>1, <1>3, <1>6, <1>7, <1>8, <1>9, <1>10, MoveKeepsInv

LEMMA AcquireNextLockKeepsInv ==
  ASSUME Inv, NEW q \in Requests, AcquireNextLock(q)
  PROVE  Inv'
<1> DEFINE r == req[q]
<1>0. r \in Request /\ r.op = "eraseUser" /\ r.pc = "lock" /\ TypeOK
  BY InFlight DEF AcquireNextLock, At, Inv
<1>1. r.want \in SUBSET Teams /\ r.want \subseteq teams
  BY <1>0, RequestFields DEF Inv, TeamsExist, Served, AcquireNextLock, At
<1>2. UNCHANGED accessVars /\ req' = [req EXCEPT ![q] = r]
  BY <1>0 DEF AcquireNextLock, TypeOK
<1>3. PICK t \in r.want : lock[t] = Idle /\ lock' = [lock EXCEPT ![t] = q]
  BY DEF AcquireNextLock, Missing
<1>4. /\ lock' \in [Teams -> Requests \cup {Idle}]
      /\ \A p \in Requests \ {q}, s \in Teams : lock[s] = p => lock'[s] = p
  BY <1>0, <1>1, <1>3, TeamRequestsAssumption DEF TypeOK, TeamRequestsAssumption
<1> HIDE DEF r
<1> QED
  BY <1>0, <1>1, <1>2, <1>4, MoveKeepsInv

LEMMA SnapshotTeamsKeepsInv ==
  ASSUME Inv, NEW q \in Requests, SnapshotTeams(q)
  PROVE  Inv'
<1> DEFINE ts == {t \in Teams : req[q].caller \in members[t]}
           r == [req[q] EXCEPT !.pc = "lock", !.want = ts]
<1>0. req[q] \in Request /\ req[q].op = "eraseUser" /\ TypeOK
  BY InFlight DEF SnapshotTeams, At, Inv
<1>1. req[q] \in EraseUserRequest
  BY <1>0 DEF Request, CreateTeamRequest, SetRolesRequest, RemoveMemberRequest,
    UpdateMemberRequest, UpdateRoleRequest, DeleteRoleRequest, SetReferencesRequest,
    CreateRoleRequest, CreateInviteRequest, AcceptInviteRequest, EraseUserRequest
<1>2. r \in Request /\ r.op = "eraseUser" /\ r.pc = "lock" /\ r.want = ts
  BY <1>1 DEF EraseUserRequest, Request
<1>3. UNCHANGED <<accessVars, lock>> /\ req' = [req EXCEPT ![q] = r]
  BY <1>0 DEF SnapshotTeams, TypeOK
<1>4. ts \subseteq teams
  BY DEF Inv, AccessInv, Belonging
<1>5. lock' \in [Teams -> Requests \cup {Idle}]
  BY <1>0, <1>3 DEF TypeOK
<1> HIDE DEF r
<1> QED
  BY <1>2, <1>3, <1>4, <1>5, MoveKeepsInv

LEMMA AllLockedKeepsInv ==
  ASSUME Inv, NEW q \in Requests, AllLocked(q)
  PROVE  Inv'
<1> DEFINE r == [req[q] EXCEPT !.pc = "check"]
<1>0. /\ req[q] \in Request /\ req[q] # Idle /\ req[q].op = "eraseUser" /\ TypeOK
      /\ UNCHANGED <<accessVars, lock>> /\ Goto(q, "check") /\ Missing(q) = {}
  BY InFlight DEF AllLocked, At, Inv
<1>1. r \in Request
  BY <1>0, NextStatement
<1>2. /\ r.pc = "check" /\ r.op = "eraseUser" /\ r.want = req[q].want
      /\ Locks(r) = req[q].want
  BY <1>0, SameFields, LocksOfMove DEF Locks
<1>3. req' = [req EXCEPT ![q] = r]
  BY <1>0, GotoIsMove
<1>4. \A t \in req[q].want : lock[t] = q
  BY <1>0 DEF Missing
<1>5. req[q].want \subseteq teams
  BY <1>0 DEF Inv, TeamsExist, Served
<1>6. lock' \in [Teams -> Requests \cup {Idle}]
  BY <1>0 DEF TypeOK
<1> HIDE DEF r
<1> QED
  BY <1>0, <1>1, <1>2, <1>3, <1>4, <1>5, <1>6, MoveKeepsInv

LEMMA SameChecks ==
  ASSUME NEW r \in Request, NEW pc
  PROVE  LET x == [r EXCEPT !.pc = pc]
         IN  /\ Permitted(r) => Permitted(x)
             /\ KeepsAdmin(r) => KeepsAdmin(x)
             /\ ErasureKeepsAdmin(r, Teams) => ErasureKeepsAdmin(x, x.want \ unguarded)
<1> DEFINE x == [r EXCEPT !.pc = pc]
<1>1. /\ x.op = r.op /\ x.caller = r.caller
      /\ r.op \in Common => x.team = r.team
      /\ r.op \in {"setRoles", "removeMember", "updateMember"} => x.user = r.user
      /\ r.op \in {"setRoles", "setReferences"} => x.ids = r.ids
      /\ r.op = "updateMember" => x.patch = r.patch
      /\ r.op \in {"updateRole", "deleteRole"} => x.role = r.role
      /\ r.op \in {"updateRole", "createRole"} => x.perms = r.perms
      /\ r.op = "eraseUser" => x.want = r.want /\ r.want \in SUBSET Teams
  BY SameFields, RequestFields
<1> HIDE DEF x
<1>2. Permitted(r) => Permitted(x)
  BY <1>1 DEF Permitted, Common
<1>3. KeepsAdmin(r) => KeepsAdmin(x)
  BY <1>1 DEF KeepsAdmin, Common
<1>4. ErasureKeepsAdmin(r, Teams) => ErasureKeepsAdmin(x, x.want \ unguarded)
  BY <1>1 DEF ErasureKeepsAdmin, EraseKeepsAdmin
<1> QED
  BY <1>2, <1>3, <1>4 DEF x

LEMMA UnchangedIsUntouched ==
  ASSUME Inv, UNCHANGED accessVars
  PROVE  [AccessNext]_accessVars /\ \A t \in teams : Untouched(t)
BY WritesNoTeam DEF Inv, AccessInv, AccessTypeOK, accessVars

LEMMA CheckKeepsInv ==
  ASSUME Inv, NEW q \in Requests, Check(q)
  PROVE  Inv'
<1> DEFINE r == [req[q] EXCEPT !.pc = "commit"]
<1>0. /\ req[q] \in Request /\ req[q] # Idle /\ req[q].pc = "check" /\ TypeOK
      /\ UNCHANGED accessVars
  BY InFlight DEF Check, Inv
<1>1. CASE Passes(req[q])
  <2>0. Goto(q, "commit") /\ UNCHANGED lock
    BY <1>1 DEF Check
  <2>1. r \in Request
    BY <1>0, NextStatement
  <2>2. /\ r.pc = "commit" /\ r.op = req[q].op /\ Locks(r) = Locks(req[q])
        /\ req[q].op \in Common => r.team = req[q].team
        /\ req[q].op = "eraseUser" => r.want = req[q].want
        /\ req[q].op \in Common \cup {"createTeam", "eraseUser"}
    BY <1>0, SameFields, RequestFields, LocksOfMove
  <2>3. req' = [req EXCEPT ![q] = r]
    BY <1>0, <2>0, GotoIsMove
  <2>4. \A t \in Locks(req[q]) : lock[t] = q
    BY <1>0 DEF Inv, Serialised, Served
  <2>5. /\ req[q].op = "eraseUser" => req[q].want \subseteq teams
        /\ req[q].op \notin {"eraseUser", "createTeam"} => req[q].team \in teams
    BY <1>0 DEF Inv, TeamsExist, Served
  <2>6. lock' \in [Teams -> Requests \cup {Idle}]
    BY <1>0, <2>0 DEF TypeOK
  <2>7. /\ Permitted(r) /\ KeepsAdmin(r)
        /\ ErasureKeepsAdmin(r, r.want \ unguarded)
    BY <1>0, <1>1, SameChecks DEF Passes
  <2> HIDE DEF r
  <2> QED
    BY <1>0, <2>0, <2>1, <2>2, <2>3, <2>4, <2>5, <2>6, <2>7, MoveKeepsInv
<1>2. CASE ~Passes(req[q])
  <2>1. Finish(q)
    BY <1>2 DEF Check
  <2> QED
    BY <1>0, <2>1, UnchangedIsUntouched, FinishKeepsInv
<1> QED
  BY <1>1, <1>2

LEMMA LookupInviteKeepsInv ==
  ASSUME Inv, NEW q \in Requests, LookupInvite(q)
  PROVE  Inv'
<1> DEFINE r == [req[q] EXCEPT !.pc = "lock"]
<1>0. /\ req[q] \in Request /\ req[q] # Idle /\ req[q].pc = "lookup" /\ TypeOK
      /\ req[q].op = "acceptInvite" /\ UNCHANGED accessVars
  BY InFlight DEF LookupInvite, At, Inv
<1>1. CASE req[q].team \in invites
  <2>0. Goto(q, "lock") /\ UNCHANGED lock
    BY <1>1 DEF LookupInvite
  <2>1. r \in Request
    BY <1>0, NextStatement
  <2>2. r.pc = "lock" /\ r.op = "acceptInvite" /\ r.team = req[q].team
    BY <1>0, SameFields DEF Common
  <2>3. req' = [req EXCEPT ![q] = r]
    BY <1>0, <2>0, GotoIsMove
  <2>4. r.team \in teams
    BY <1>1, <2>2 DEF Inv, AccessInv, Belonging
  <2>5. lock' \in [Teams -> Requests \cup {Idle}]
    BY <1>0, <2>0 DEF TypeOK
  <2> HIDE DEF r
  <2> QED
    BY <1>0, <2>0, <2>1, <2>2, <2>3, <2>4, <2>5, MoveKeepsInv
<1>2. CASE req[q].team \notin invites
  <2>1. Finish(q)
    BY <1>2 DEF LookupInvite
  <2> QED
    BY <1>0, <2>1, UnchangedIsUntouched, FinishKeepsInv
<1> QED
  BY <1>1, <1>2

LEMMA AbortKeepsInv ==
  ASSUME Inv, NEW q \in Requests, Abort(q)
  PROVE  Inv'
BY UnchangedIsUntouched, FinishKeepsInv DEF Abort

LEMMA CommitKeepsInv ==
  ASSUME Inv, NEW q \in Requests, CommitAny(q)
  PROVE  Inv'
<1>1. req[q] # Idle /\ req[q].pc = "commit"
  BY DEF CommitAny, CommitSetRoles, CommitRemoveMember, CommitUpdateMember,
         CommitUpdateRole, CommitDeleteRole, CommitSetReferences, CommitCreateRole,
         CommitCreateInvite, CommitAcceptInvite, CommitCreateTeam, CommitEraseUser, At
<1>2. \A t \in Locks(req[q]) : lock[t] = q
  BY <1>1 DEF Inv, Serialised, Served
<1> QED
  BY <1>1, <1>2, CommitSteps, FinishKeepsInv

\* An expiring invite, or no step at all, changes nothing a request has checked.
LEMMA InviteExpiresKeepsInv ==
  ASSUME Inv, InviteExpires \/ UNCHANGED vars
  PROVE  Inv'
<1>1. (\E s \in Teams : ExpireInvite(s)) \/ UNCHANGED accessVars
  BY DEF InviteExpires, vars, accessVars
<1>2. AccessInv /\ AccessInv' /\ UNCHANGED <<req, lock>>
  BY <1>1, OthersKeep DEF Inv, InviteExpires, requestVars, vars
<1>3. UNCHANGED <<teams, members, roles, perms, held, erased, unguarded>>
  BY <1>1 DEF ExpireInvite, accessVars
<1>4. \A t \in Teams : Untouched(t)
  BY <1>2, <1>3, WritesNoTeam
<1>5. TypeOK' /\ Serialised' /\ TeamsExist'
  BY <1>2, <1>3 DEF Inv, TypeOK, AccessInv, Serialised, TeamsExist, Served
<1>6. ChecksStand'
  <2> SUFFICES ASSUME NEW p \in Requests, NEW x \in Served(p)', x.pc = "commit"
               PROVE  /\ Permitted(x)'
                      /\ KeepsAdmin(x)' \/ x.team \in unguarded'
                      /\ ErasureKeepsAdmin(x, x.want \ unguarded)'
    BY DEF ChecksStand
  <2>1. x \in Served(p) /\ x \in Request
    BY <1>2 DEF Served, Inv, TypeOK
  <2>2. /\ Permitted(x)
        /\ KeepsAdmin(x) \/ x.team \in unguarded
        /\ ErasureKeepsAdmin(x, x.want \ unguarded)
    BY <2>1 DEF Inv, ChecksStand
  <2>3. Locks(x) \subseteq Teams
    BY <2>1, RequestFields DEF Locks, Common
  <2> QED
    BY <1>2, <1>4, <2>1, <2>2, <2>3, CheckStands
<1> QED
  BY <1>2, <1>5, <1>6 DEF Inv

LEMMA InitInv == Init => Inv
<1> SUFFICES ASSUME Init PROVE Inv
  OBVIOUS
<1>1. AccessInv
  BY InitKeepsAccessInv DEF Init
<1>2. \A q \in Requests : Served(q) = {}
  BY DEF Init, Served
<1> QED
  BY <1>1, <1>2 DEF Init, Inv, TypeOK, AccessInv, Serialised, TeamsExist, ChecksStand

LEMMA NextInv == Inv /\ [Next]_vars => Inv'
<1> SUFFICES ASSUME Inv, [Next]_vars PROVE Inv'
  OBVIOUS
<1>1. ASSUME NEW q \in Requests, SubmitAny(q) \/ Acquire(q) \/ Proceed(q) \/ Abort(q)
      PROVE  Inv'
  BY <1>1, SubmitKeepsInv, AcquireLockKeepsInv, AcquireNextLockKeepsInv,
     LookupInviteKeepsInv, SnapshotTeamsKeepsInv, AllLockedKeepsInv, CheckKeepsInv,
     CommitKeepsInv, AbortKeepsInv DEF Acquire, Proceed
<1>2. CASE InviteExpires \/ UNCHANGED vars
  BY <1>2, InviteExpiresKeepsInv
<1> QED
  BY <1>1, <1>2 DEF Next

-----------------------------------------------------------------------------

\* Every handler, interleaved with any others, timed out or crashed, does what
\* its atomic action in TeamAccess promises or nothing at all.
THEOREM RequestsImplementAccess == Spec => AccessInit /\ AccessSteps
<1>1. Init => AccessInit
  BY DEF Init
<1>2. Inv /\ [Next]_vars => [AccessNext]_accessVars
  <2> SUFFICES ASSUME Inv, [Next]_vars PROVE [AccessNext]_accessVars
    OBVIOUS
  <2>1. ASSUME NEW q \in Requests, SubmitAny(q) PROVE UNCHANGED accessVars
    BY <2>1, SubmitAddsRequest
  <2>2. ASSUME NEW q \in Requests, Acquire(q) \/ Abort(q) PROVE UNCHANGED accessVars
    BY <2>2 DEF Acquire, AcquireLock, AcquireNextLock, Abort
  <2>3. ASSUME NEW q \in Requests, Proceed(q) PROVE [AccessNext]_accessVars
    BY <2>3, CommitSteps DEF Proceed, LookupInvite, SnapshotTeams, AllLocked, Check
  <2>4. CASE InviteExpires
    BY <2>4 DEF InviteExpires, AccessNext
  <2>5. CASE UNCHANGED vars
    BY <2>5 DEF vars, accessVars
  <2> QED
    BY <2>1, <2>2, <2>3, <2>4, <2>5 DEF Next
<1> QED
  BY <1>1, <1>2, InitInv, NextInv, PTL DEF Spec, AccessSteps

\* What was checked under the lock still stands at the commit, and every lock is
\* held by the request that relies on it.
THEOREM InvHolds == Spec => []Inv
BY InitInv, NextInv, PTL DEF Spec

\* A team keeps a living settings administrator, whatever the interleaving,
\* unless an erasure took one without holding the team's lock.
THEOREM AdminKeptByRequests == Spec => []AdminKept
<1>1. Inv => AdminKept
  BY DEF Inv, AccessInv
<1> QED
  BY <1>1, InvHolds, PTL

\* No role id dangles: deletions scrub every reference, and a reference is
\* written only while the role it names exists.
THEOREM NoRoleDangles == Spec => []NoDanglingRoles
<1>1. Inv => NoDanglingRoles
  BY DEF Inv, AccessInv
<1> QED
  BY <1>1, InvHolds, PTL

-----------------------------------------------------------------------------
(* Who may change what.                                                    *)

LEMMA OnlyCommitsWrite ==
  ASSUME Inv, [Next]_vars
  PROVE  \/ UNCHANGED <<teams, members, roles, perms, held, erased, email>>
         \/ \E q \in Requests : CommitAny(q)
<1>1. ASSUME NEW q \in Requests, SubmitAny(q) PROVE UNCHANGED accessVars
  BY <1>1, SubmitAddsRequest
<1>2. ASSUME NEW q \in Requests, Acquire(q) \/ Abort(q) PROVE UNCHANGED accessVars
  BY <1>2 DEF Acquire, AcquireLock, AcquireNextLock, Abort
<1>3. ASSUME NEW q \in Requests, Proceed(q) PROVE CommitAny(q) \/ UNCHANGED accessVars
  BY <1>3 DEF Proceed, LookupInvite, SnapshotTeams, AllLocked, Check
<1>4. CASE InviteExpires
  BY <1>4 DEF InviteExpires, ExpireInvite
<1>5. CASE UNCHANGED vars
  BY <1>5 DEF vars
<1>6. UNCHANGED accessVars => UNCHANGED <<teams, members, roles, perms, held, erased, email>>
  BY DEF accessVars
<1> QED
  BY <1>1, <1>2, <1>3, <1>4, <1>5, <1>6 DEF Next

\* A committing request is at its commit and frees its slot.
LEMMA CommitFrees ==
  ASSUME Inv, NEW q \in Requests, CommitAny(q)
  PROVE  req[q] # Idle /\ req[q].pc = "commit" /\ req'[q] = Idle
<1>1. req[q] # Idle /\ req[q].pc = "commit"
  BY DEF CommitAny, CommitSetRoles, CommitRemoveMember, CommitUpdateMember,
         CommitUpdateRole, CommitDeleteRole, CommitSetReferences, CommitCreateRole,
         CommitCreateInvite, CommitAcceptInvite, CommitCreateTeam, CommitEraseUser, At
<1>2. Finish(q)
  BY CommitSteps
<1> QED
  BY <1>1, <1>2 DEF Finish, Inv, TypeOK

\* Who gains what, commit by commit.
LEMMA GainsAreGranted ==
  ASSUME Inv, NEW q \in Requests, CommitAny(q),
         NEW t \in Teams, NEW u \in Users, NEW m \in Modules, NEW l \in {Read, Write},
         ~Holds(t, u, m, l), Holds(t, u, m, l)'
  PROVE  \/ u \notin members[t] /\ (t \notin teams \/ l = Read)
         \/ /\ Committing(q, {"setRoles", "updateRole"})
            /\ req[q].team = t
            /\ Holds(t, req[q].caller, m, l)
<1> DEFINE r == req[q]
<1> USE DEF Read, Write, None
<1>0. /\ r # Idle /\ r.pc = "commit" /\ req'[q] = Idle
      /\ AccessInv /\ AccessTypeOK /\ r \in Request /\ Permitted(r)
  BY CommitFrees, AtCommit DEF AccessInv
<1>f. /\ r.caller \in Users
      /\ r.op \in Common => r.team \in Teams
      /\ r.op \in {"setRoles", "removeMember", "updateMember"} => r.user \in Users
      /\ r.op \in {"setRoles", "setReferences"} => r.ids \in SUBSET Roles
      /\ r.op \in {"updateRole", "deleteRole"} => r.role \in Roles
      /\ r.op \in {"updateRole", "createRole"} => r.perms \in Perms
  BY <1>0, RequestFields
<1>l. \A x \in Roles : perms[x] \in [Modules -> Levels]
  BY <1>0, TeamAccessAssumption DEF AccessTypeOK, TeamAccessAssumption
<1>g. PICK x \in held'[t][u] : perms'[x][m] >= l
  BY DEF Holds
<1>n. \A y \in held[t][u] : y \in Roles /\ y \in roles /\ RoleTeam[y] = t /\ ~(perms[y][m] >= l)
  BY <1>0 DEF Holds, AccessInv, NoDanglingRoles, RolesOf, AccessTypeOK
<1>k. x \notin held[t][u] \/ perms'[x] # perms[x]
  BY <1>g, <1>n
<1> HIDE DEF r
<1>1. CASE CommitSetRoles(q)
  <2>1. r.op = "setRoles" /\ WriteSetRoles(r.team, r.user, r.ids)
    BY <1>1 DEF CommitSetRoles, At, r
  <2>2. SetRolesPermitted(r.caller, r.team, r.user, r.ids)
    BY <1>0, <2>1 DEF Permitted
  <2>3. t = r.team /\ u = r.user /\ x \in r.ids /\ perms' = perms
    BY <1>0, <1>f, <1>g, <1>k, <2>1 DEF WriteSetRoles, AccessTypeOK, Common
  <2>4. x \in Roles /\ perms[x][m] \in Levels /\ perms[x][m] >= l
    BY <1>f, <1>g, <1>l, <2>1, <2>3
  <2>5. perms[x][m] > None /\ ~Holds(t, u, m, perms[x][m])
    BY <1>l, <1>n, <2>4 DEF Holds, Levels
  <2>6. Holds(t, r.caller, m, perms[x][m])
    BY <2>2, <2>3, <2>5 DEF SetRolesPermitted
  <2>7. PICK y \in held[t][r.caller] : perms[y][m] >= perms[x][m]
    BY <2>6 DEF Holds
  <2>8. y \in Roles
    BY <1>0, <1>f DEF AccessTypeOK
  <2>9. Holds(t, r.caller, m, l)
    BY <1>l, <2>4, <2>7, <2>8 DEF Holds, Levels
  <2> QED
    BY <1>0, <2>1, <2>3, <2>9 DEF Committing, r
<1>2. CASE CommitUpdateRole(q)
  <2>1. r.op = "updateRole" /\ WriteUpdateRole(r.role, r.perms)
    BY <1>2 DEF CommitUpdateRole, At, r
  <2>2. UpdateRolePermitted(r.caller, r.team, r.role, r.perms)
    BY <1>0, <2>1 DEF Permitted
  <2>3. x = r.role /\ x \in held[t][u] /\ perms'[x] = r.perms
    BY <1>0, <1>f, <1>g, <1>k, <1>n, <2>1 DEF WriteUpdateRole, AccessTypeOK
  <2>4. t = r.team
    BY <1>n, <2>2, <2>3 DEF UpdateRolePermitted, RolesOf
  <2>5. r.perms \in [Modules -> Levels]
    BY <1>f, <2>1, TeamAccessAssumption DEF TeamAccessAssumption
  <2>6. r.perms[m] >= l /\ r.perms[m] > perms[x][m]
    BY <1>g, <1>l, <1>n, <2>3, <2>5 DEF Levels
  <2>7. Holds(t, r.caller, m, r.perms[m])
    BY <2>2, <2>3, <2>4, <2>6 DEF UpdateRolePermitted
  <2>8. PICK y \in held[t][r.caller] : perms[y][m] >= r.perms[m]
    BY <2>7 DEF Holds
  <2>9. y \in Roles
    BY <1>0, <1>f DEF AccessTypeOK
  <2>10. Holds(t, r.caller, m, l)
    BY <1>l, <2>5, <2>6, <2>8, <2>9 DEF Holds, Levels
  <2> QED
    BY <1>0, <2>1, <2>4, <2>10 DEF Committing, r
<1>3. CASE CommitCreateTeam(q)
  <2>1. PICK s \in Teams : WriteCreateTeam(r.caller, s)
    BY <1>3 DEF CommitCreateTeam, r
  <2>2. s \notin teams
    BY <2>1 DEF WriteCreateTeam
  <2>3. CASE s = t
    BY <1>0, <2>2, <2>3 DEF AccessInv, Belonging
  <2>4. CASE s # t
    <3>1. x \in held[t][u]
      BY <1>0, <1>g, <2>1, <2>4 DEF WriteCreateTeam, AccessTypeOK
    <3>2. x # AdminRole[s] /\ x # MemberRole[s]
      BY <1>n, <2>4, <3>1, SystemRoleFacts
    <3>3. perms'[x] = perms[x]
      BY <1>0, <1>n, <2>1, <3>1, <3>2, SystemRoleFacts DEF WriteCreateTeam, AccessTypeOK
    <3> QED
      BY <1>k, <3>1, <3>3
  <2> QED
    BY <2>3, <2>4
<1>4. CASE CommitAcceptInvite(q)
  <2>1. r.op = "acceptInvite" /\ WriteAcceptInvite(r.caller, r.team)
    BY <1>4 DEF CommitAcceptInvite, At, r
  <2>2. /\ t = r.team /\ u = r.caller /\ u \notin members[t]
        /\ x \in {MemberRole[t]} /\ perms' = perms
    BY <1>0, <1>f, <1>g, <1>k, <2>1 DEF WriteAcceptInvite, AccessTypeOK, Common
  <2>3. t \in teams
    BY <2>1, <2>2, AtCommit, <1>0 DEF r
  <2>4. perms'[x] = MemberPerms
    BY <1>0, <2>2, <2>3 DEF AccessInv, Belonging
  <2>5. l = Read
    BY <1>g, <2>4 DEF MemberPerms
  <2> QED
    BY <2>2, <2>5
<1>5. CASE CommitCreateRole(q)
  <2>1. PICK y \in Roles : WriteCreateRole(r.team, y, r.perms)
    BY <1>5 DEF CommitCreateRole, r
  <2>2. x \in held[t][u] /\ x # y
    BY <1>0, <1>g, <1>n, <2>1 DEF WriteCreateRole, AccessInv, Belonging
  <2> QED
    BY <1>0, <1>k, <1>n, <2>1, <2>2 DEF WriteCreateRole, AccessTypeOK
<1>6. CASE \/ CommitRemoveMember(q) \/ CommitDeleteRole(q)
  <2>1. /\ perms' = perms
        /\ \/ WriteRemoveMember(r.team, r.user) /\ r.op = "removeMember"
           \/ WriteDeleteRole(r.team, r.role) /\ r.op = "deleteRole"
    BY <1>6 DEF CommitRemoveMember, CommitDeleteRole, WriteRemoveMember, WriteDeleteRole, At, r
  <2>a. ASSUME WriteRemoveMember(r.team, r.user), r.op = "removeMember"
        PROVE  held'[t][u] \subseteq held[t][u]
    BY <1>0, <1>f, <2>a DEF WriteRemoveMember, AccessTypeOK, Common
  <2>b. ASSUME WriteDeleteRole(r.team, r.role), r.op = "deleteRole"
        PROVE  held'[t][u] \subseteq held[t][u]
    BY <1>0, <1>f, <2>b DEF WriteDeleteRole, AccessTypeOK, Common
  <2>2. held'[t][u] \subseteq held[t][u]
    BY <2>1, <2>a, <2>b
  <2> QED
    BY <1>g, <1>k, <2>1, <2>2
<1>7. CASE \/ CommitUpdateMember(q) \/ CommitSetReferences(q)
           \/ CommitCreateInvite(q) \/ CommitEraseUser(q)
  <2>1. UNCHANGED <<perms, held>>
    BY <1>7 DEF CommitUpdateMember, CommitSetReferences, CommitCreateInvite, CommitEraseUser,
      WriteUpdateMember, WriteReferences, WriteCreateInvite, WriteEraseUser, accessVars
  <2> QED
    BY <1>g, <1>k, <2>1
<1> QED
  BY <1>1, <1>2, <1>3, <1>4, <1>5, <1>6, <1>7 DEF CommitAny

\* Nobody gains a permission that the caller of the change does not hold when it
\* commits. (members.enforceNoPermissionEscalation, roles.enforceNoRoleEscalation.)
THEOREM NothingEscalates == Spec => NoEscalation
<1> DEFINE Granted ==
      \A t \in Teams, u \in Users, m \in Modules, l \in {Read, Write} :
        ~Holds(t, u, m, l) /\ Holds(t, u, m, l)' =>
          \/ u \notin members[t] /\ (t \notin teams \/ l = Read)
          \/ \E q \in Requests : /\ Committing(q, {"setRoles", "updateRole"})
                                 /\ req[q].team = t
                                 /\ Holds(t, req[q].caller, m, l)
<1>1. Inv /\ [Next]_vars => Granted
  <2> SUFFICES ASSUME Inv, [Next]_vars,
                      NEW t \in Teams, NEW u \in Users, NEW m \in Modules,
                      NEW l \in {Read, Write},
                      ~Holds(t, u, m, l), Holds(t, u, m, l)'
               PROVE  \/ u \notin members[t] /\ (t \notin teams \/ l = Read)
                      \/ \E q \in Requests :
                           /\ Committing(q, {"setRoles", "updateRole"})
                           /\ req[q].team = t
                           /\ Holds(t, req[q].caller, m, l)
    OBVIOUS
  <2>1. ~UNCHANGED <<perms, held>>
    BY DEF Holds
  <2>2. PICK q \in Requests : CommitAny(q)
    BY <2>1, OnlyCommitsWrite
  <2> QED
    BY <2>2, GainsAreGranted
<1> QED
  BY <1>1, InvHolds, PTL DEF Spec, NoEscalation

LEMMA RemovalsAreCommits ==
  ASSUME Inv, NEW q \in Requests, CommitAny(q),
         NEW t \in Teams, NEW u \in members[t] \ members'[t]
  PROVE  /\ Committing(q, {"removeMember"})
         /\ req[q].team = t
         /\ u \in SettingsAdmins(t) => req[q].caller \in SettingsAdmins(t)
<1> DEFINE r == req[q]
<1>0. /\ r # Idle /\ r.pc = "commit" /\ req'[q] = Idle
      /\ AccessInv /\ AccessTypeOK /\ r \in Request /\ Permitted(r)
  BY CommitFrees, AtCommit DEF AccessInv
<1>f. /\ r.caller \in Users
      /\ r.op \in Common => r.team \in Teams
  BY <1>0, RequestFields
<1>1. CommitRemoveMember(q)
  <2>1. ASSUME CommitCreateTeam(q) PROVE FALSE
    <3>1. PICK s \in Teams : WriteCreateTeam(r.caller, s)
      BY <2>1 DEF CommitCreateTeam
    <3>2. s # t
      BY <1>0, <3>1 DEF WriteCreateTeam, AccessInv, Belonging
    <3> QED
      BY <1>0, <3>1, <3>2 DEF WriteCreateTeam, AccessTypeOK
  <2>2. ASSUME CommitAcceptInvite(q) PROVE FALSE
    BY <1>0, <1>f, <2>2 DEF CommitAcceptInvite, At, WriteAcceptInvite, AccessTypeOK, Common
  <2>3. ASSUME \/ CommitSetRoles(q) \/ CommitUpdateRole(q) \/ CommitDeleteRole(q)
               \/ CommitUpdateMember(q) \/ CommitSetReferences(q) \/ CommitCreateRole(q)
               \/ CommitCreateInvite(q) \/ CommitEraseUser(q)
        PROVE  FALSE
    <3>1. members' = members
      BY <2>3 DEF CommitSetRoles, CommitUpdateRole, CommitDeleteRole, CommitUpdateMember,
        CommitSetReferences, CommitCreateRole, CommitCreateInvite, CommitEraseUser,
        WriteSetRoles, WriteUpdateRole, WriteDeleteRole, WriteUpdateMember, WriteReferences,
        WriteCreateRole, WriteCreateInvite, WriteEraseUser, accessVars
    <3> QED
      BY <3>1
  <2> QED
    BY <2>1, <2>2, <2>3 DEF CommitAny
<1>2. r.op = "removeMember" /\ WriteRemoveMember(r.team, r.user)
  BY <1>1 DEF CommitRemoveMember, At
<1>3. r.team = t /\ r.user = u
  BY <1>0, <1>f, <1>2 DEF WriteRemoveMember, AccessTypeOK, Common
<1>4. RemoveMemberPermitted(r.caller, t, u)
  BY <1>0, <1>2, <1>3 DEF Permitted
<1> QED
  BY <1>0, <1>2, <1>3, <1>4 DEF Committing, RemoveMemberPermitted

\* A settings admin is removed only by a settings admin, judged at the commit.
\* (members.ErrCannotRemoveSettingsAdmin.)
THEOREM OnlyAdminsRemoveAdmins == Spec => AdminsRemovedByAdmins
<1> DEFINE Removed ==
      \A t \in Teams : \A u \in SettingsAdmins(t) :
        u \in members[t] \ members'[t] =>
          \E q \in Requests : /\ Committing(q, {"removeMember"})
                              /\ req[q].team = t
                              /\ req[q].caller \in SettingsAdmins(t)
<1>1. Inv /\ [Next]_vars => Removed
  <2> SUFFICES ASSUME Inv, [Next]_vars, NEW t \in Teams, NEW u \in SettingsAdmins(t),
                      u \in members[t] \ members'[t]
               PROVE  \E q \in Requests : /\ Committing(q, {"removeMember"})
                                          /\ req[q].team = t
                                          /\ req[q].caller \in SettingsAdmins(t)
    OBVIOUS
  <2>1. PICK q \in Requests : CommitAny(q)
    BY OnlyCommitsWrite
  <2> QED
    BY <2>1, RemovalsAreCommits
<1> QED
  BY <1>1, InvHolds, PTL DEF Spec, AdminsRemovedByAdmins

LEMMA AddressesAreCommits ==
  ASSUME Inv, NEW q \in Requests, CommitAny(q),
         NEW u \in Users, email'[u] \notin {email[u], Anonymised}
  PROVE  /\ Committing(q, {"updateMember"})
         /\ req[q].user = u
         /\ u \in members[req[q].team]
         /\ req[q].caller = u \/ req[q].caller \in SettingsAdmins(req[q].team)
<1> DEFINE r == req[q]
<1>0. /\ r # Idle /\ r.pc = "commit" /\ req'[q] = Idle
      /\ AccessTypeOK /\ r \in Request /\ Permitted(r)
  BY CommitFrees, AtCommit DEF AccessInv
<1>f. r.caller \in Users
  BY <1>0, RequestFields
<1>1. CommitUpdateMember(q)
  <2>1. ASSUME CommitEraseUser(q) PROVE FALSE
    BY <1>0, <1>f, <2>1 DEF CommitEraseUser, WriteEraseUser, AccessTypeOK
  <2>2. ASSUME \/ CommitSetRoles(q) \/ CommitUpdateRole(q) \/ CommitDeleteRole(q)
               \/ CommitRemoveMember(q) \/ CommitSetReferences(q) \/ CommitCreateRole(q)
               \/ CommitCreateInvite(q) \/ CommitAcceptInvite(q) \/ CommitCreateTeam(q)
        PROVE  FALSE
    <3>1. email' = email
      BY <2>2 DEF CommitSetRoles, CommitUpdateRole, CommitDeleteRole, CommitRemoveMember,
        CommitSetReferences, CommitCreateRole, CommitCreateInvite, CommitAcceptInvite,
        CommitCreateTeam, WriteSetRoles, WriteUpdateRole, WriteDeleteRole,
        WriteRemoveMember, WriteReferences, WriteCreateRole, WriteCreateInvite,
        WriteAcceptInvite, WriteCreateTeam
    <3> QED
      BY <3>1
  <2> QED
    BY <2>1, <2>2 DEF CommitAny
<1>2. r.op = "updateMember" /\ EmailFree(r.user, r.patch) /\ WriteUpdateMember(r.user, r.patch)
  BY <1>1 DEF CommitUpdateMember, At, accessVars
<1>3. r.user = u /\ r.patch # OtherField
  BY <1>0, <1>2 DEF WriteUpdateMember, AccessTypeOK
<1>4. UpdateMemberPermitted(r.caller, r.team, u, r.patch)
  BY <1>0, <1>2, <1>3 DEF Permitted
<1> QED
  BY <1>0, <1>2, <1>3, <1>4 DEF Committing, UpdateMemberPermitted

\* An address changes only at the hands of its owner or of a settings admin of a
\* team the owner belongs to, judged at the commit. (members.UpdateMember.)
THEOREM AddressesChangeWithAuthority == Spec => AddressChangesAuthorised
<1> DEFINE Changed ==
      \A u \in Users :
        email'[u] \notin {email[u], Anonymised} =>
          \E q \in Requests : /\ Committing(q, {"updateMember"})
                              /\ req[q].user = u
                              /\ u \in members[req[q].team]
                              /\ \/ req[q].caller = u
                                 \/ req[q].caller \in SettingsAdmins(req[q].team)
<1>1. Inv /\ [Next]_vars => Changed
  <2> SUFFICES ASSUME Inv, [Next]_vars, NEW u \in Users,
                      email'[u] \notin {email[u], Anonymised}
               PROVE  \E q \in Requests :
                        /\ Committing(q, {"updateMember"})
                        /\ req[q].user = u
                        /\ u \in members[req[q].team]
                        /\ \/ req[q].caller = u
                           \/ req[q].caller \in SettingsAdmins(req[q].team)
    OBVIOUS
  <2>1. PICK q \in Requests : CommitAny(q)
    BY OnlyCommitsWrite
  <2> QED
    BY <2>1, AddressesAreCommits
<1> QED
  BY <1>1, InvHolds, PTL DEF Spec, AddressChangesAuthorised

-----------------------------------------------------------------------------
(* Without late joins nothing is left unguarded.                           *)

\* What a step of slot q does to the requests.
LEMMA StepsOfASlot ==
  ASSUME Inv, NEW q \in Requests, Acquire(q) \/ Proceed(q) \/ Abort(q)
  PROVE  /\ \A p \in Requests \ {q} : req'[p] = req[p]
         /\ req[q] # Idle
         /\ \/ req'[q] = Idle
            \/ /\ req'[q].caller = req[q].caller
               /\ req'[q].op = req[q].op
               /\ req'[q].op = "eraseUser" /\ req'[q].pc # "snapshot" =>
                    \/ req[q].pc # "snapshot" /\ req'[q].want = req[q].want
                    \/ req'[q].want = {t \in Teams : req[q].caller \in members[t]}
<1> USE DEF At
<1>0. TypeOK /\ (req[q] # Idle => req[q] \in Request)
  BY InFlight DEF Inv
<1>g. ASSUME NEW pc, Goto(q, pc), req[q] # Idle,
             req[q].op = "eraseUser" => req[q].pc # "snapshot"
      PROVE  /\ \A p \in Requests \ {q} : req'[p] = req[p]
             /\ req'[q].caller = req[q].caller /\ req'[q].op = req[q].op
             /\ req'[q].op = "eraseUser" =>
                  req[q].pc # "snapshot" /\ req'[q].want = req[q].want
  <2> DEFINE x == [req[q] EXCEPT !.pc = pc]
  <2>1. req' = [req EXCEPT ![q] = x]
    BY <1>0, <1>g, GotoIsMove
  <2>2. x.caller = req[q].caller /\ x.op = req[q].op
        /\ (req[q].op = "eraseUser" => x.want = req[q].want)
    BY <1>0, <1>g, SameFields
  <2> HIDE DEF x
  <2> QED
    BY <1>0, <1>g, <2>1, <2>2 DEF TypeOK
<1>f. ASSUME Finish(q)
      PROVE  req'[q] = Idle /\ \A p \in Requests \ {q} : req'[p] = req[p]
  BY <1>0, <1>f DEF Finish, TypeOK
<1>1. CASE AcquireLock(q)
  BY <1>1, <1>g DEF AcquireLock
<1>2. CASE AcquireNextLock(q)
  BY <1>2 DEF AcquireNextLock
<1>3. CASE LookupInvite(q)
  BY <1>3, <1>g, <1>f DEF LookupInvite
<1>4. CASE SnapshotTeams(q)
  <2> DEFINE ts == {t \in Teams : req[q].caller \in members[t]}
             r == [req[q] EXCEPT !.pc = "lock", !.want = ts]
  <2>1. req[q] # Idle /\ req[q].op = "eraseUser" /\ req' = [req EXCEPT ![q] = r]
    BY <1>0, <1>4 DEF SnapshotTeams, TypeOK
  <2>2. req[q] \in EraseUserRequest
    BY <1>0, <2>1 DEF Request, CreateTeamRequest, SetRolesRequest, RemoveMemberRequest,
      UpdateMemberRequest, UpdateRoleRequest, DeleteRoleRequest, SetReferencesRequest,
      CreateRoleRequest, CreateInviteRequest, AcceptInviteRequest, EraseUserRequest
  <2>3. r.op = "eraseUser" /\ r.caller = req[q].caller /\ r.want = ts
    BY <2>2 DEF EraseUserRequest
  <2> HIDE DEF r
  <2> QED
    BY <1>0, <2>1, <2>3 DEF TypeOK
<1>5. CASE AllLocked(q)
  BY <1>5, <1>g DEF AllLocked
<1>6. CASE Check(q)
  BY <1>6, <1>g, <1>f DEF Check
<1>7. CASE CommitAny(q)
  BY <1>7, <1>f, CommitSteps, CommitFrees
<1>8. CASE Abort(q)
  BY <1>8, <1>f DEF Abort
<1> QED
  BY <1>1, <1>2, <1>3, <1>4, <1>5, <1>6, <1>7, <1>8 DEF Acquire, Proceed

\* An erasure that covers its account's teams leaves none unguarded, and no account
\* founds a team once it is erased.
LEMMA CommitsGuard ==
  ASSUME Inv, ErasuresCover, ~LateJoin, NEW q \in Requests, CommitAny(q)
  PROVE  unguarded' = {}
<1> DEFINE r == req[q]
<1>0. /\ r # Idle /\ r.pc = "commit" /\ AccessInv /\ AccessTypeOK /\ r.caller \in Users
      /\ unguarded = {}
  BY CommitFrees, AtCommit, RequestFields DEF AccessInv, ErasuresCover
<1>1. CASE CommitEraseUser(q)
  <2>1. r.op = "eraseUser" /\ WriteEraseUser(r.caller, r.want)
    BY <1>1 DEF CommitEraseUser, At
  <2>2. \A t \in Teams : r.caller \in SettingsAdmins(t) => r.caller \in members[t]
    BY <1>0 DEF SettingsAdmins, Holds, AccessInv, Belonging
  <2>3. \A t \in Teams : r.caller \in members[t] => t \in r.want
    BY <1>0, <2>1 DEF ErasuresCover, Served
  <2> QED
    BY <1>0, <2>1, <2>2, <2>3 DEF WriteEraseUser
<1>2. CASE CommitCreateTeam(q)
  <2>1. PICK s \in Teams : WriteCreateTeam(r.caller, s)
    BY <1>2 DEF CommitCreateTeam
  <2>2. s \notin teams /\ members' = [members EXCEPT ![s] = {r.caller}]
    BY <2>1 DEF WriteCreateTeam
  <2>3. members[s] = {}
    BY <1>0, <2>2 DEF AccessInv, Belonging, AccessTypeOK
  <2>4. r.caller \in members'[s] \ members[s]
    BY <1>0, <2>2, <2>3 DEF AccessTypeOK
  <2>5. r.caller \notin erased
    BY <1>0, <2>4 DEF LateJoin
  <2> QED
    BY <1>0, <2>1, <2>5 DEF WriteCreateTeam
<1>3. CASE \/ CommitSetRoles(q) \/ CommitUpdateRole(q) \/ CommitDeleteRole(q)
           \/ CommitRemoveMember(q) \/ CommitUpdateMember(q) \/ CommitAcceptInvite(q)
           \/ CommitSetReferences(q) \/ CommitCreateRole(q) \/ CommitCreateInvite(q)
  <2>1. UNCHANGED unguarded
    BY <1>3 DEF CommitSetRoles, CommitUpdateRole, CommitDeleteRole, CommitRemoveMember,
      CommitUpdateMember, CommitAcceptInvite, CommitSetReferences, CommitCreateRole,
      CommitCreateInvite, WriteSetRoles, WriteUpdateRole, WriteDeleteRole,
      WriteRemoveMember, WriteUpdateMember, WriteAcceptInvite, WriteReferences,
      WriteCreateRole, WriteCreateInvite, accessVars
  <2> QED
    BY <1>0, <2>1
<1> QED
  BY <1>1, <1>2, <1>3 DEF CommitAny

\* An erasure past its snapshot still covers the teams its account is a member of.
LEMMA NextErasuresCover ==
  ASSUME Inv, ErasuresCover, [Next]_vars, [~LateJoin]_vars
  PROVE  ErasuresCover'
<1>t. /\ AccessTypeOK /\ req \in [Requests -> Request \cup {Idle}]
      /\ \A p \in Requests : req[p] # Idle => req[p].caller \in Users
  BY InFlight, RequestFields DEF Inv, TypeOK
<1>1. ASSUME NEW q \in Requests, SubmitAny(q) PROVE ErasuresCover'
  <2>1. PICK r \in Request :
          /\ req' = [req EXCEPT ![q] = r]
          /\ UNCHANGED accessVars
          /\ r.op = "eraseUser" => r.pc = "snapshot"
    BY <1>1, SubmitAddsRequest
  <2>2. UNCHANGED <<members, unguarded>>
    BY <2>1 DEF accessVars
  <2>3. req'[q] = r /\ \A p \in Requests \ {q} : req'[p] = req[p]
    BY <1>t, <2>1
  <2> QED
    BY <2>1, <2>2, <2>3 DEF ErasuresCover, Served
<1>2. ASSUME NEW q \in Requests, Acquire(q) \/ Proceed(q) \/ Abort(q)
      PROVE  ErasuresCover'
  <2>0. /\ \A p \in Requests \ {q} : req'[p] = req[p]
        /\ req[q] # Idle
        /\ \/ req'[q] = Idle
           \/ /\ req'[q].caller = req[q].caller
              /\ req'[q].op = req[q].op
              /\ req'[q].op = "eraseUser" /\ req'[q].pc # "snapshot" =>
                   \/ req[q].pc # "snapshot" /\ req'[q].want = req[q].want
                   \/ req'[q].want = {t \in Teams : req[q].caller \in members[t]}
    BY <1>2, StepsOfASlot
  <2>1. CASE CommitAny(q)
    <3>0. req'[q] = Idle /\ req' # req
      BY <2>0, <2>1, CommitFrees
    <3>1. ~LateJoin
      BY <3>0 DEF vars
    <3>2. unguarded' = {}
      BY <2>1, <3>1, CommitsGuard
    <3>3. ASSUME NEW p \in Requests, req'[p] # Idle,
                 req'[p].op = "eraseUser", req'[p].pc # "snapshot",
                 NEW t \in Teams, req'[p].caller \in members'[t]
          PROVE  t \in req'[p].want
      <4>1. p # q /\ req'[p] = req[p]
        BY <2>0, <3>0, <3>3
      <4>2. req[p].caller \in members[t]
        BY <1>t, <3>1, <3>3, <4>1 DEF LateJoin, Served
      <4> QED
        BY <3>3, <4>1, <4>2 DEF ErasuresCover, Served
    <3> QED
      BY <3>2, <3>3 DEF ErasuresCover, Served
  <2>2. CASE UNCHANGED accessVars
    <3>1. UNCHANGED <<members, unguarded>>
      BY <2>2 DEF accessVars
    <3> QED
      BY <2>0, <3>1 DEF ErasuresCover, Served
  <2> QED
    BY <1>2, <2>1, <2>2 DEF Acquire, Proceed, AcquireLock, AcquireNextLock, LookupInvite,
      SnapshotTeams, AllLocked, Check, Abort
<1>3. CASE InviteExpires \/ UNCHANGED vars
  <2>1. UNCHANGED <<members, unguarded, req>>
    BY <1>3 DEF InviteExpires, ExpireInvite, requestVars, vars
  <2> QED
    BY <2>1 DEF ErasuresCover, Served
<1> QED
  BY <1>1, <1>2, <1>3 DEF Next

\* A team ends up without a living settings admin only where an account joined or
\* founded a team after its own erasure read its memberships: in every behaviour
\* without such a late join the promise of auth.EraseUser and of
\* docs/gdpr-data-subject-rights.md holds without exception, for any number of
\* requests, of the same account too.
THEOREM OnlyLateJoinsOrphan ==
  Spec /\ [][~LateJoin]_vars => []EveryTeamHasALivingAdmin
<1>1. Init => ErasuresCover
  BY DEF Init, AccessInit, ErasuresCover, Served
<1>2. Inv /\ ErasuresCover /\ [Next]_vars /\ [~LateJoin]_vars => ErasuresCover'
  BY NextErasuresCover
<1>3. Inv /\ ErasuresCover => EveryTeamHasALivingAdmin
  BY DEF Inv, AccessInv, ErasuresCover, AdminKept, EveryTeamHasALivingAdmin
<1> QED
  BY <1>1, <1>2, <1>3, InvHolds, PTL DEF Spec

-----------------------------------------------------------------------------
(* Waiting for locks.                                                      *)

\* A lock belongs to a request in flight that has reached its lock statement; one
\* that still waits there is an erasure, and asks only for teams after those it
\* holds.
LocksAscend ==
  \A q \in Requests, t \in Teams :
    lock[t] = q =>
      /\ req[q] # Idle
      /\ req[q].pc \notin {"lookup", "snapshot"}
      /\ req[q].pc = "lock" =>
           /\ req[q].op = "eraseUser"
           /\ \A s \in Missing(q) : t < s

\* The request of slot q asks for the lock of team t.
WaitsFor(q, t) ==
  /\ req[q] # Idle /\ req[q].pc = "lock"
  /\ req[q].op # "eraseUser" => t = req[q].team
  /\ req[q].op = "eraseUser" => t \in Missing(q)

\* The request of slot q holds a lock the request of slot p asks for.
Blocks(q, p) == \E t \in Teams : lock[t] = q /\ WaitsFor(p, t)

\* Among any requests there is one that blocks none of them: in a circle of
\* waits every request would.
NoCircleOfWaits ==
  \A W \in SUBSET Requests : W # {} => \E q \in W : \A p \in W : ~Blocks(q, p)

LEMMA SmallestTeam ==
  ASSUME NEW T \in SUBSET Teams, T # {}
  PROVE  \E t \in T : \A s \in T : t <= s
<1>1. T \subseteq Nat
  BY TeamAccessAssumption DEF TeamAccessAssumption
<1>2. IsWellFoundedOn(OpToRel(<, Nat), Nat)
  BY NatLessThanWellFounded
<1>3. PICK t \in T : \A s \in T : <<s, t>> \notin OpToRel(<, Nat)
  BY <1>1, <1>2, WFMin
<1>4. \A s \in T : s \in Nat /\ t \in Nat /\ <<s, t>> \in Nat \X Nat
  BY <1>1
<1>5. \A s \in T : ~(s < t)
  BY <1>3, <1>4 DEF OpToRel
<1> QED
  BY <1>1, <1>5

\* If every request of W blocked one of W, the one asked for the smallest team
\* would wait itself, for a team after it, and block one that asks for a smaller.
LEMMA AscentBreaksCircles == TypeOK /\ LocksAscend => NoCircleOfWaits
<1> SUFFICES ASSUME TypeOK, LocksAscend,
                    NEW W \in SUBSET Requests, W # {},
                    \A q \in W : \E p \in W : Blocks(q, p)
             PROVE  FALSE
  BY DEF NoCircleOfWaits
<1> DEFINE T == {t \in Teams : \E q \in W, p \in W : lock[t] = q /\ WaitsFor(p, t)}
<1>1. T # {}
  <2>1. PICK q \in W : TRUE
    OBVIOUS
  <2> QED
    BY <2>1 DEF Blocks
<1>2. PICK t \in T : \A s \in T : t <= s
  BY <1>1, SmallestTeam
<1>3. PICK p \in W : WaitsFor(p, t)
  BY <1>2
<1>4. PICK s \in Teams : lock[s] = p /\ \E x \in W : WaitsFor(x, s)
  BY <1>3 DEF Blocks
<1>5. s \in T /\ t \in Teams
  BY <1>2, <1>3, <1>4
<1>6. t \in Missing(p)
  BY <1>3, <1>4 DEF LocksAscend, WaitsFor
<1>7. s < t
  BY <1>3, <1>4, <1>6 DEF LocksAscend, WaitsFor
<1>8. s \in Nat /\ t \in Nat /\ t <= s
  BY <1>2, <1>5, TeamAccessAssumption DEF TeamAccessAssumption
<1> QED
  BY <1>7, <1>8

\* What a request does to its own slot and to the locks keeps the order of the
\* others' locks.
LEMMA OthersAscend ==
  ASSUME TypeOK, LocksAscend, NEW q \in Requests, NEW p \in Requests, p # q,
         NEW t \in Teams, lock'[t] = p,
         req'[p] = req[p],
         \A s \in Teams : (lock'[s] = p) <=> (lock[s] = p)
  PROVE  /\ req'[p] # Idle
         /\ req'[p].pc \notin {"lookup", "snapshot"}
         /\ req'[p].pc = "lock" =>
              /\ req'[p].op = "eraseUser"
              /\ \A s \in Missing(p)' : t < s
<1>1. lock[t] = p
  OBVIOUS
<1>2. /\ req[p] # Idle
      /\ req[p].pc \notin {"lookup", "snapshot"}
      /\ req[p].pc = "lock" => req[p].op = "eraseUser" /\ \A s \in Missing(p) : t < s
  BY <1>1 DEF LocksAscend
<1>3. req[p].op = "eraseUser" => req[p].want \subseteq Teams
  BY <1>2, InFlight, RequestFields
<1>4. req[p].op = "eraseUser" => Missing(p)' = Missing(p)
  BY <1>3 DEF Missing
<1> QED
  BY <1>2, <1>4

\* A step of a slot that leaves it Idle, or past its lock statement.
LEMMA PassedAscends ==
  ASSUME TypeOK, LocksAscend, NEW q \in Requests,
         \A p \in Requests \ {q} : req'[p] = req[p],
         \A p \in Requests \ {q}, s \in Teams : (lock'[s] = p) <=> (lock[s] = p),
         \/ \A s \in Teams : lock'[s] # q
         \/ req'[q] # Idle /\ req'[q].pc \in {"check", "commit"}
  PROVE  LocksAscend'
<1> SUFFICES ASSUME NEW p \in Requests, NEW t \in Teams, lock'[t] = p
             PROVE  /\ req'[p] # Idle
                    /\ req'[p].pc \notin {"lookup", "snapshot"}
                    /\ req'[p].pc = "lock" =>
                         /\ req'[p].op = "eraseUser"
                         /\ \A s \in Missing(p)' : t < s
  BY DEF LocksAscend
<1>1. CASE p = q
  BY <1>1
<1>2. CASE p # q
  BY <1>2, OthersAscend
<1> QED
  BY <1>1, <1>2

LEMMA FinishAscends ==
  ASSUME TypeOK, LocksAscend, NEW q \in Requests, Finish(q)
  PROVE  LocksAscend'
<1>1. /\ \A p \in Requests \ {q} : req'[p] = req[p]
      /\ \A p \in Requests \ {q}, s \in Teams : (lock'[s] = p) <=> (lock[s] = p)
      /\ \A s \in Teams : lock'[s] # q
  BY TeamRequestsAssumption DEF Finish, TypeOK, TeamRequestsAssumption
<1> QED
  BY <1>1, PassedAscends

\* A step that moves the request on to pc and takes no lock.
LEMMA GotoAscends ==
  ASSUME TypeOK, LocksAscend, NEW q \in Requests, req[q] # Idle, UNCHANGED lock,
         NEW pc, Goto(q, pc), [req[q] EXCEPT !.pc = pc] \in Request,
         pc \in {"check", "commit"} \/ req[q].pc \in {"lookup", "snapshot"}
  PROVE  LocksAscend'
<1> DEFINE x == [req[q] EXCEPT !.pc = pc]
<1>1. req' = [req EXCEPT ![q] = x] /\ x # Idle /\ x.pc = pc
  BY InFlight, GotoIsMove, SameFields, TeamRequestsAssumption DEF TeamRequestsAssumption
<1> HIDE DEF x
<1>2. req'[q] = x /\ \A p \in Requests \ {q} : req'[p] = req[p]
  BY <1>1 DEF TypeOK
<1>3. req[q].pc \in {"lookup", "snapshot"} => \A s \in Teams : lock[s] # q
  BY DEF LocksAscend
<1> QED
  BY <1>1, <1>2, <1>3, PassedAscends

LEMMA NextAscends == Inv /\ LocksAscend /\ [Next]_vars => LocksAscend'
<1> SUFFICES ASSUME Inv, LocksAscend, [Next]_vars PROVE LocksAscend'
  OBVIOUS
<1> USE DEF At
<1>0. TypeOK
  BY DEF Inv
<1>1. ASSUME NEW q \in Requests, SubmitAny(q) PROVE LocksAscend'
  <2>1. PICK r \in Request :
          req' = [req EXCEPT ![q] = r] /\ UNCHANGED <<accessVars, lock>> /\ req[q] = Idle
    BY <1>1, SubmitAddsRequest
  <2>2. /\ \A p \in Requests \ {q} : req'[p] = req[p]
        /\ UNCHANGED lock
        /\ \A s \in Teams : lock'[s] # q
    BY <1>0, <2>1 DEF TypeOK, LocksAscend
  <2> QED
    BY <1>0, <2>2, PassedAscends
<1>2. ASSUME NEW q \in Requests, AcquireLock(q) PROVE LocksAscend'
  <2> DEFINE pc == IF req[q].op = "acceptInvite" THEN "commit" ELSE "check"
             x == [req[q] EXCEPT !.pc = pc]
  <2>1. /\ req[q] # Idle /\ req[q].pc = "lock" /\ req[q].op # "eraseUser"
        /\ req[q] \in Request /\ Goto(q, pc)
        /\ lock[req[q].team] = Idle /\ lock' = [lock EXCEPT ![req[q].team] = q]
    BY <1>0, <1>2, InFlight DEF AcquireLock
  <2>2. x \in Request /\ x.pc = pc
    <3>1. x \in Request
      BY <2>1, NextStatement
    <3>2. x.pc = pc
      BY <2>1, SameFields
    <3> QED
      BY <3>1, <3>2
  <2>m. req' = [req EXCEPT ![q] = x]
    BY <1>0, <2>1, GotoIsMove
  <2>3. pc \in {"check", "commit"} /\ x # Idle
    BY <2>2, TeamRequestsAssumption DEF TeamRequestsAssumption
  <2> HIDE DEF x, pc
  <2>4. req'[q] = x /\ \A p \in Requests \ {q} : req'[p] = req[p]
    BY <1>0, <2>m DEF TypeOK
  <2>5. \A p \in Requests \ {q}, s \in Teams : (lock'[s] = p) <=> (lock[s] = p)
    BY <1>0, <2>1, TeamRequestsAssumption DEF TypeOK, TeamRequestsAssumption
  <2> QED
    BY <1>0, <2>2, <2>3, <2>4, <2>5, PassedAscends
<1>3. ASSUME NEW q \in Requests, AcquireNextLock(q) PROVE LocksAscend'
  <2>1. req[q] # Idle /\ req[q].op = "eraseUser" /\ req[q].pc = "lock" /\ UNCHANGED req
    BY <1>3 DEF AcquireNextLock
  <2>2. PICK t \in Missing(q) : /\ \A s \in Missing(q) : t <= s
                                /\ lock[t] = Idle
                                /\ lock' = [lock EXCEPT ![t] = q]
    BY <1>3 DEF AcquireNextLock
  <2>3. Missing(q) \subseteq Teams /\ Teams \subseteq Nat
    BY <1>0, <2>1, InFlight, RequestFields, TeamRequestsAssumption, TeamAccessAssumption
       DEF Missing, TeamAccessAssumption
  <2>4. /\ \A p \in Requests \ {q}, s \in Teams : (lock'[s] = p) <=> (lock[s] = p)
        /\ \A s \in Teams : lock'[s] = q => s = t \/ lock[s] = q
    BY <1>0, <2>2, <2>3, TeamRequestsAssumption DEF TypeOK, TeamRequestsAssumption
  <2>5. Missing(q)' \subseteq Missing(q) \ {t}
    BY <1>0, <2>1, <2>2, <2>3 DEF Missing, TypeOK
  <2> SUFFICES ASSUME NEW p \in Requests, NEW u \in Teams, lock'[u] = p
               PROVE  /\ req'[p] # Idle
                      /\ req'[p].pc \notin {"lookup", "snapshot"}
                      /\ req'[p].pc = "lock" =>
                           /\ req'[p].op = "eraseUser"
                           /\ \A s \in Missing(p)' : u < s
    BY DEF LocksAscend
  <2>6. CASE p # q
    BY <1>0, <2>1, <2>4, <2>6, OthersAscend
  <2>7. CASE p = q /\ u = t
    <3>1. \A s \in Missing(q)' : t \in Nat /\ s \in Nat /\ t <= s /\ s # t
      BY <2>2, <2>3, <2>5
    <3>2. \A s \in Missing(q)' : t < s
      BY <3>1
    <3> QED
      BY <2>1, <2>7, <3>2
  <2>8. CASE p = q /\ u # t
    <3>1. lock[u] = q
      BY <2>4, <2>8
    <3>2. \A s \in Missing(q) : u < s
      BY <2>1, <3>1 DEF LocksAscend
    <3> QED
      BY <2>1, <2>5, <2>8, <3>2
  <2> QED
    BY <2>6, <2>7, <2>8
<1>4. ASSUME NEW q \in Requests, LookupInvite(q) PROVE LocksAscend'
  BY <1>0, <1>4, InFlight, NextStatement, GotoAscends, FinishAscends DEF LookupInvite
<1>5. ASSUME NEW q \in Requests, SnapshotTeams(q) PROVE LocksAscend'
  <2>1. /\ \A p \in Requests \ {q} : req'[p] = req[p]
        /\ UNCHANGED lock
        /\ \A s \in Teams : lock'[s] # q
    BY <1>0, <1>5 DEF SnapshotTeams, TypeOK, LocksAscend
  <2> QED
    BY <1>0, <2>1, PassedAscends
<1>6. ASSUME NEW q \in Requests, AllLocked(q) PROVE LocksAscend'
  BY <1>0, <1>6, InFlight, NextStatement, GotoAscends DEF AllLocked
<1>7. ASSUME NEW q \in Requests, Check(q) PROVE LocksAscend'
  BY <1>0, <1>7, InFlight, NextStatement, GotoAscends, FinishAscends DEF Check
<1>8. ASSUME NEW q \in Requests, CommitAny(q) \/ Abort(q) PROVE LocksAscend'
  BY <1>0, <1>8, CommitSteps, FinishAscends DEF Abort
<1>9. CASE InviteExpires \/ UNCHANGED vars
  <2>1. UNCHANGED <<req, lock>>
    BY <1>9 DEF InviteExpires, requestVars, vars
  <2> QED
    BY <2>1 DEF LocksAscend, Missing
<1> QED
  BY <1>1, <1>2, <1>3, <1>4, <1>5, <1>6, <1>7, <1>8, <1>9 DEF Next, Acquire, Proceed

\* However many requests wait for locks, and although an erasure holds some while
\* it waits for others, they never wait in a circle: the ORDER BY of
\* auth.EraseUser's lock statement is what keeps the server from a deadlock.
THEOREM WaitsNeverCircle == Spec => []NoCircleOfWaits
<1>1. Init => LocksAscend
  BY TeamRequestsAssumption DEF Init, LocksAscend, TeamRequestsAssumption
<1>2. Inv /\ LocksAscend => NoCircleOfWaits
  BY AscentBreaksCircles DEF Inv
<1> QED
  BY <1>1, <1>2, NextAscends, InvHolds, PTL DEF Spec

=============================================================================
