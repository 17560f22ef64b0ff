------------------------------ MODULE TeamAccess ------------------------------
(***************************************************************************)
(* Who may do what in a team: memberships, roles, the permissions a role   *)
(* grants, the roles a membership holds, the columns that name roles       *)
(* without a foreign key, invites, and the accounts behind the members.    *)
(*                                                                         *)
(* Every handler of the backend that writes these tables is ONE atomic     *)
(* action here: this module is the promise.  TeamRequests models the same  *)
(* handlers statement by statement, under READ COMMITTED and the per-team  *)
(* advisory lock, and implements it.                                       *)
(***************************************************************************)
EXTENDS Naturals

CONSTANTS
  Users,          \* accounts (users.id)
  Teams,          \* team ids, numbered in the order Postgres sorts them
  Roles,          \* role ids
  RoleTeam,       \* the team each role id belongs to once it is minted
  AdminRole,      \* per team, the id of its system role "Admin"
  MemberRole,     \* per team, the id of its system role "Member"
  Modules,        \* RBAC modules
  Perms,          \* the permission records a role may carry
  Emails,         \* login addresses
  InitialEmail,   \* the address each account registered with
  Anonymised      \* what erasure leaves in users.email

None == 0
Read == 1
Write == 2
Levels == {None, Read, Write}

\* The permission records CreateTeam gives the two system roles.
AdminPerms == [m \in Modules |-> Write]
MemberPerms == [m \in Modules |-> IF m = "finances" THEN None ELSE Read]

\* Columns that hold role ids with no foreign key to roles.
Columns == {"reasonVisibility", "nominated"}

\* What UpdateMember patches: the login address, or any other personal column.
OtherField == "otherField"
Patches == Emails \cup {OtherField}

ASSUME TeamAccessAssumption ==
  /\ Teams \subseteq Nat
  /\ RoleTeam \in [Roles -> Teams]
  /\ AdminRole \in [Teams -> Roles]
  /\ MemberRole \in [Teams -> Roles]
  /\ \A t \in Teams : /\ RoleTeam[AdminRole[t]] = t
                      /\ RoleTeam[MemberRole[t]] = t
                      /\ AdminRole[t] # MemberRole[t]
  /\ {"settings", "members", "events"} \subseteq Modules
  /\ Perms \subseteq [Modules -> Levels]
  /\ {AdminPerms, MemberPerms} \subseteq Perms
  /\ InitialEmail \in [Users -> Emails]
  /\ Anonymised \notin Patches
  /\ OtherField \notin Emails

VARIABLES
  teams,      \* teams that exist
  members,    \* memberships: per team, its users
  roles,      \* roles that exist
  minted,     \* role ids ever used (a UUID never comes back)
  perms,      \* roles.permissions
  held,       \* membership_roles: per team and user, the roles held
  refs,       \* per team and column, the role ids the column names
  invites,    \* teams with an unexpired invite code
  erased,     \* accounts with deleted_at set
  email,      \* users.email
  personal,   \* accounts whose row carries a name or other personal data
  unguarded   \* history: teams a settings admin left by an erasure that did
              \* not hold the team's lock

accessVars == <<teams, members, roles, minted, perms, held, refs, invites,
                erased, email, personal, unguarded>>

AccessTypeOK ==
  /\ teams \subseteq Teams
  /\ members \in [Teams -> SUBSET Users]
  /\ roles \subseteq Roles
  /\ minted \subseteq Roles
  /\ perms \in [Roles -> Perms]
  /\ held \in [Teams -> [Users -> SUBSET Roles]]
  /\ refs \in [Teams -> [Columns -> SUBSET Roles]]
  /\ invites \subseteq Teams
  /\ erased \subseteq Users
  /\ email \in [Users -> Emails \cup {Anonymised}]
  /\ personal \subseteq Users
  /\ unguarded \subseteq Teams

AccessInit ==
  /\ teams = {}
  /\ members = [t \in Teams |-> {}]
  /\ roles = {}
  /\ minted = {}
  /\ perms = [r \in Roles |-> MemberPerms]
  /\ held = [t \in Teams |-> [u \in Users |-> {}]]
  /\ refs = [t \in Teams |-> [c \in Columns |-> {}]]
  /\ invites = {}
  /\ erased = {}
  /\ email = InitialEmail
  /\ personal = Users
  /\ unguarded = {}

-----------------------------------------------------------------------------
(* Permissions.                                                            *)

RolesOf(t) == {r \in roles : RoleTeam[r] = t}
SystemRole(r) == r \in {AdminRole[RoleTeam[r]], MemberRole[RoleTeam[r]]}

\* The per-module maximum over the roles u holds in t is at least l.
Holds(t, u, m, l) == \E r \in held[t][u] : perms[r][m] >= l

SettingsAdmins(t) == {u \in Users : Holds(t, u, "settings", Write)}
LivingAdmins(t) == SettingsAdmins(t) \ erased

\* A living member other than u can administer t.
AnotherAdmin(t, u) == LivingAdmins(t) \ {u} # {}

\* Mutant: the holders of r itself count.
AnotherAdminRole_SameRole(t, r) == LivingAdmins(t) # {}

\* A living member administers t through a role other than r.
AnotherAdminRole(t, r) ==
  \E u \in Users \ erased : \E s \in held[t][u] \ {r} : perms[s]["settings"] = Write

-----------------------------------------------------------------------------
(* What each handler checks.                                               *)

\* Mutant: only what the target lacks is looked at, not what the caller holds.
SetRolesPermitted_AnyCaller(c, t, u, ids) == u \in members[t] /\ ids \subseteq RolesOf(t)

\* SetRoles: the ids are the team's, and no module ends up above both what the
\* caller holds and what the target held before.
SetRolesPermitted(c, t, u, ids) ==
  /\ u \in members[t]
  /\ ids \subseteq RolesOf(t)
  /\ \A r \in ids, m \in Modules :
       perms[r][m] > None => \/ Holds(t, c, m, perms[r][m])
                             \/ Holds(t, u, m, perms[r][m])

SetRolesKeepsAdmin(t, u, ids) ==
  \/ \E r \in ids : perms[r]["settings"] = Write
  \/ AnotherAdmin(t, u)

\* Mutant: members:write alone removes anybody.
RemoveMemberPermitted_AnyTarget(c, t, u) == u \in members[t]

RemoveMemberPermitted(c, t, u) ==
  /\ u \in members[t]
  /\ u \in SettingsAdmins(t) => c \in SettingsAdmins(t)

RemoveMemberKeepsAdmin(t, u) == u \in SettingsAdmins(t) => AnotherAdmin(t, u)

UpdateRolePermitted(c, t, r, p) ==
  /\ r \in RolesOf(t)
  /\ ~SystemRole(r)
  /\ \A m \in Modules : p[m] > perms[r][m] => Holds(t, c, m, p[m])

UpdateRoleKeepsAdmin(t, r, p) ==
  \/ p["settings"] = Write
  \/ AnotherAdminRole(t, r)
  \/ perms[r]["settings"] # Write

DeleteRolePermitted(t, r) == r \in RolesOf(t) /\ ~SystemRole(r)

DeleteRoleKeepsAdmin(t, r) ==
  AnotherAdminRole(t, r) \/ perms[r]["settings"] # Write

\* Mutant: members:write alone changes anybody's address.
UpdateMemberPermitted_AnyAddress(c, t, u, patch) == u \in members[t]

UpdateMemberPermitted(c, t, u, patch) ==
  /\ u \in members[t]
  /\ patch # OtherField /\ c # u => c \in SettingsAdmins(t)

\* users.email is UNIQUE.
EmailFree(u, patch) == \A v \in Users \ {u} : email[v] # patch

\* EraseUser over a set of teams.
EraseKeepsAdmin(u, ts) ==
  \A t \in ts : u \in SettingsAdmins(t) => AnotherAdmin(t, u)

-----------------------------------------------------------------------------
(* What each handler writes, in one transaction.                           *)

WriteSetRoles(t, u, ids) ==
  /\ held' = [held EXCEPT ![t][u] = ids]
  /\ UNCHANGED <<teams, members, roles, minted, perms, refs, invites,
                 erased, email, personal, unguarded>>

\* Deleting the membership cascades to membership_roles.
WriteRemoveMember(t, u) ==
  /\ members' = [members EXCEPT ![t] = @ \ {u}]
  /\ held' = [held EXCEPT ![t][u] = {}]
  /\ UNCHANGED <<teams, roles, minted, perms, refs, invites,
                 erased, email, personal, unguarded>>

WriteUpdateRole(r, p) ==
  /\ perms' = [perms EXCEPT ![r] = p]
  /\ UNCHANGED <<teams, members, roles, minted, held, refs, invites,
                 erased, email, personal, unguarded>>

\* Mutant: the columns without a foreign key are not scrubbed.
WriteDeleteRole_NoScrub(t, r) ==
  /\ roles' = roles \ {r}
  /\ held' = [held EXCEPT ![t] = [u \in Users |-> held[t][u] \ {r}]]
  /\ UNCHANGED <<teams, members, minted, perms, refs, invites,
                 erased, email, personal, unguarded>>

\* Deleting a role cascades to membership_roles and scrubs the columns that
\* name roles without a foreign key.
WriteDeleteRole(t, r) ==
  /\ roles' = roles \ {r}
  /\ held' = [held EXCEPT ![t] = [u \in Users |-> held[t][u] \ {r}]]
  /\ refs' = [refs EXCEPT ![t] = [c \in Columns |-> refs[t][c] \ {r}]]
  /\ UNCHANGED <<teams, members, minted, perms, invites,
                 erased, email, personal, unguarded>>

WriteCreateRole(t, r, p) ==
  /\ r \in Roles \ minted /\ RoleTeam[r] = t /\ ~SystemRole(r)
  /\ roles' = roles \cup {r}
  /\ minted' = minted \cup {r}
  /\ perms' = [perms EXCEPT ![r] = p]
  /\ UNCHANGED <<teams, members, held, refs, invites,
                 erased, email, personal, unguarded>>

\* Team, membership, the two system roles and the creator's Admin role. An
\* account that was erased after the request was authenticated still succeeds.
WriteCreateTeam(u, t) ==
  /\ t \in Teams \ teams
  /\ teams' = teams \cup {t}
  /\ members' = [members EXCEPT ![t] = {u}]
  /\ roles' = roles \cup {AdminRole[t], MemberRole[t]}
  /\ minted' = minted \cup {AdminRole[t], MemberRole[t]}
  /\ perms' = [perms EXCEPT ![AdminRole[t]] = AdminPerms,
                            ![MemberRole[t]] = MemberPerms]
  /\ held' = [held EXCEPT ![t][u] = {AdminRole[t]}]
  /\ unguarded' = IF u \in erased THEN unguarded \cup {t} ELSE unguarded
  /\ UNCHANGED <<refs, invites, erased, email, personal>>

\* Only a brand-new membership gets the Member role.
WriteAcceptInvite(u, t) ==
  /\ members' = [members EXCEPT ![t] = @ \cup {u}]
  /\ held' = IF u \in members[t] THEN held
             ELSE [held EXCEPT ![t][u] = {MemberRole[t]} \cap roles]
  /\ UNCHANGED <<teams, roles, minted, perms, refs, invites,
                 erased, email, personal, unguarded>>

WriteCreateInvite(t) ==
  /\ invites' = invites \cup {t}
  /\ UNCHANGED <<teams, members, roles, minted, perms, held, refs,
                 erased, email, personal, unguarded>>

\* UpdateTeam writes one column, CreateEvent and UpdateEvent the other.
WriteReferences(t, c, ids) ==
  /\ refs' = [refs EXCEPT ![t][c] = ids]
  /\ UNCHANGED <<teams, members, roles, minted, perms, held, invites,
                 erased, email, personal, unguarded>>

\* The UPDATE is keyed by the user's id alone: deleted_at is not looked at.
WriteUpdateMember(u, patch) ==
  /\ IF patch = OtherField
     THEN personal' = personal \cup {u} /\ UNCHANGED email
     ELSE email' = [email EXCEPT ![u] = patch] /\ UNCHANGED personal
  /\ UNCHANGED <<teams, members, roles, minted, perms, held, refs, invites,
                 erased, unguarded>>

\* Anonymises the row unless deleted_at is already set; memberships and their
\* roles survive.
WriteEraseUser(u, locked) ==
  /\ erased' = erased \cup {u}
  /\ IF u \in erased
     THEN UNCHANGED <<email, personal>>
     ELSE /\ email' = [email EXCEPT ![u] = Anonymised]
          /\ personal' = personal \ {u}
  /\ unguarded' = unguarded \cup {t \in Teams \ locked : u \in SettingsAdmins(t)}
  /\ UNCHANGED <<teams, members, roles, minted, perms, held, refs, invites>>

-----------------------------------------------------------------------------
(* The handlers as atomic actions. A team in unguarded has lost the        *)
(* protection of the lock, so its last-admin guards promise nothing.       *)

SetRoles(c, t, u, ids) ==
  /\ SetRolesPermitted(c, t, u, ids)
  /\ SetRolesKeepsAdmin(t, u, ids) \/ t \in unguarded
  /\ WriteSetRoles(t, u, ids)

RemoveMember(c, t, u) ==
  /\ RemoveMemberPermitted(c, t, u)
  /\ RemoveMemberKeepsAdmin(t, u) \/ t \in unguarded
  /\ WriteRemoveMember(t, u)

UpdateRole(c, t, r, p) ==
  /\ UpdateRolePermitted(c, t, r, p)
  /\ UpdateRoleKeepsAdmin(t, r, p) \/ t \in unguarded
  /\ WriteUpdateRole(r, p)

DeleteRole(t, r) ==
  /\ DeleteRolePermitted(t, r)
  /\ DeleteRoleKeepsAdmin(t, r) \/ t \in unguarded
  /\ WriteDeleteRole(t, r)

CreateRole(t, r, p) == t \in teams /\ WriteCreateRole(t, r, p)

AcceptInvite(u, t) == t \in teams /\ WriteAcceptInvite(u, t)

CreateInvite(t) == t \in teams /\ WriteCreateInvite(t)

SetReferences(t, c, ids) ==
  t \in teams /\ ids \subseteq RolesOf(t) /\ WriteReferences(t, c, ids)

UpdateMember(c, t, u, patch) ==
  /\ UpdateMemberPermitted(c, t, u, patch)
  /\ EmailFree(u, patch)
  /\ WriteUpdateMember(u, patch)

EraseUser(u, locked) ==
  /\ EraseKeepsAdmin(u, locked \ unguarded)
  /\ WriteEraseUser(u, locked)

ExpireInvite(t) ==
  /\ t \in invites
  /\ invites' = invites \ {t}
  /\ UNCHANGED <<teams, members, roles, minted, perms, held, refs,
                 erased, email, personal, unguarded>>

AccessNext ==
  \/ \E c, u \in Users, t \in Teams :
       \/ \E ids \in SUBSET Roles : SetRoles(c, t, u, ids)
       \/ RemoveMember(c, t, u)
       \/ \E patch \in Patches : UpdateMember(c, t, u, patch)
  \/ \E c \in Users, t \in Teams, r \in Roles, p \in Perms : UpdateRole(c, t, r, p)
  \/ \E t \in Teams, r \in Roles : DeleteRole(t, r)
  \/ \E t \in Teams, r \in Roles, p \in Perms : CreateRole(t, r, p)
  \/ \E u \in Users, t \in Teams : WriteCreateTeam(u, t) \/ AcceptInvite(u, t)
  \/ \E t \in Teams : CreateInvite(t) \/ ExpireInvite(t)
  \/ \E t \in Teams, c \in Columns, ids \in SUBSET Roles : SetReferences(t, c, ids)
  \/ \E u \in Users, locked \in SUBSET Teams : EraseUser(u, locked)

\* Whatever a request does statement by statement, the tables change only by one of
\* these handlers as a whole, with what it requires true in the state it commits in.
AccessSteps == [][AccessNext]_accessVars

AccessSpec == AccessInit /\ AccessSteps

-----------------------------------------------------------------------------
(* What must hold.                                                         *)

\* A team keeps a living member with settings:write, so somebody can always
\* manage its roles, invites and settings -- unless an erasure took a settings
\* admin out of it without holding its lock.  (ErrLastSettingsAdmin in
\* members, roles; SoleSettingsAdminError in auth.)
AdminKept == \A t \in teams : LivingAdmins(t) # {} \/ t \in unguarded

\* The same promise as the repository states it, with no exception.
\* (auth.Repository.EraseUser; docs/gdpr-data-subject-rights.md.)
EveryTeamHasALivingAdmin == \A t \in teams : LivingAdmins(t) # {}

\* A role id held by a member or named by a column is a role of that team:
\* DeleteRole leaves no dangling id behind, and no concurrent write of the
\* column brings one back.
NoDanglingRoles ==
  \A t \in Teams :
    /\ \A u \in Users : held[t][u] \subseteq RolesOf(t)
    /\ \A c \in Columns : refs[t][c] \subseteq RolesOf(t)

-----------------------------------------------------------------------------
(* What makes the above inductive.                                         *)

\* Roles belong to members, memberships and invites to teams, ids are minted, and
\* the system roles grant what CreateTeam gave them.
Belonging ==
  /\ invites \subseteq teams
  /\ roles \subseteq minted
  /\ \A t \in Teams : members[t] # {} => t \in teams
  /\ \A t \in Teams, u \in Users : held[t][u] # {} => u \in members[t]
  /\ \A t \in teams : /\ perms[AdminRole[t]] = AdminPerms
                      /\ perms[MemberRole[t]] = MemberPerms

AccessInv == AccessTypeOK /\ Belonging /\ NoDanglingRoles /\ AdminKept

=============================================================================
