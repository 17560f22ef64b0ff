----------------------------- MODULE TeamRequests -----------------------------
(***************************************************************************)
(* The handlers of TeamAccess as the server runs them: requests in flight, *)
(* each passing the session and RBAC middleware first and only later       *)
(* opening its transaction; every statement of a READ COMMITTED            *)
(* transaction reading the latest committed state; writers of a team       *)
(* serialised by pg_advisory_xact_lock(hashtextextended(team_id, 0)).      *)
(*                                                                         *)
(* A transaction's writes are invisible until it commits, so they are the  *)
(* commit step.  Any request may die in any state (the 5 s and 10 s        *)
(* context timeouts, a lost connection, a crashed process): Postgres rolls *)
(* back and frees its locks.                                               *)
(***************************************************************************)
EXTENDS TeamAccess, FiniteSets

CONSTANTS
  Requests,         \* request slots
  Idle,             \* a free slot
  Enabled,          \* the operations clients submit
  MaxTeamsPerUser,  \* teams.maxTeamsPerUser
  MaxRolesPerTeam   \* roles.maxRolesPerTeam

VARIABLES
  req,    \* per slot, Idle or the request it serves
  lock    \* per team, the slot holding its advisory lock, or Idle

requestVars == <<req, lock>>
vars == <<teams, members, roles, minted, perms, held, refs, invites,
          erased, email, personal, unguarded, req, lock>>

\* A request in flight; pc is its next step.
SetRolesRequest == [op : {"setRoles"}, pc : {"lock", "check", "commit"},
                    caller : Users, team : Teams, user : Users, ids : SUBSET Roles]
RemoveMemberRequest == [op : {"removeMember"}, pc : {"lock", "check", "commit"},
                        caller : Users, team : Teams, user : Users]
UpdateMemberRequest == [op : {"updateMember"}, pc : {"lock", "check", "commit"},
                        caller : Users, team : Teams, user : Users, patch : Patches]
UpdateRoleRequest == [op : {"updateRole"}, pc : {"lock", "check", "commit"},
                      caller : Users, team : Teams, role : Roles, perms : Perms]
DeleteRoleRequest == [op : {"deleteRole"}, pc : {"lock", "check", "commit"},
                      caller : Users, team : Teams, role : Roles]
SetReferencesRequest == [op : {"setReferences"}, pc : {"lock", "check", "commit"},
                         caller : Users, team : Teams, column : Columns, ids : SUBSET Roles]
CreateRoleRequest == [op : {"createRole"}, pc : {"check", "commit"},
                      caller : Users, team : Teams, perms : Perms]
CreateInviteRequest == [op : {"createInvite"}, pc : {"commit"},
                        caller : Users, team : Teams]
AcceptInviteRequest == [op : {"acceptInvite"}, pc : {"lookup", "lock", "commit"},
                        caller : Users, team : Teams]
CreateTeamRequest == [op : {"createTeam"}, pc : {"check", "commit"}, caller : Users]
EraseUserRequest == [op : {"eraseUser"}, pc : {"snapshot", "lock", "check", "commit"},
                     caller : Users, want : SUBSET Teams]

Request ==
  UNION {SetRolesRequest, RemoveMemberRequest, UpdateMemberRequest,
         UpdateRoleRequest, DeleteRoleRequest, SetReferencesRequest,
         CreateRoleRequest, CreateInviteRequest, AcceptInviteRequest,
         CreateTeamRequest, EraseUserRequest}

ASSUME TeamRequestsAssumption ==
  /\ Idle \notin Request
  /\ Idle \notin Requests

TypeOK ==
  /\ AccessTypeOK
  /\ req \in [Requests -> Request \cup {Idle}]
  /\ lock \in [Teams -> Requests \cup {Idle}]

Init ==
  /\ AccessInit
  /\ req = [q \in Requests |-> Idle]
  /\ lock = [t \in Teams |-> Idle]

\* The request a slot serves, if any.
Served(q) == {req[q]} \ {Idle}

At(q, op, pc) == req[q] # Idle /\ req[q].op = op /\ req[q].pc = pc
Goto(q, pc) == req' = [req EXCEPT ![q].pc = pc]

\* Commit or roll back: the transaction's locks are freed with it.
Finish(q) ==
  /\ req' = [req EXCEPT ![q] = Idle]
  /\ lock' = [t \in Teams |-> IF lock[t] = q THEN Idle ELSE lock[t]]

-----------------------------------------------------------------------------
(* Middleware: a live session, membership and the module's permission,     *)
(* read before the handler runs and never again.                           *)

Authorised(c, t, m) == c \in members[t] /\ Holds(t, c, m, Write)

Submit(q, r) ==
  /\ req[q] = Idle
  /\ r.op \in Enabled
  /\ r.caller \notin erased
  /\ req' = [req EXCEPT ![q] = r]
  /\ UNCHANGED <<accessVars, lock>>

SubmitSetRoles(q) ==
  \E c, u \in Users, t \in Teams, ids \in SUBSET Roles :
    /\ Authorised(c, t, "settings")
    /\ Submit(q, [op |-> "setRoles", pc |-> "lock", caller |-> c, team |-> t,
                  user |-> u, ids |-> ids])

SubmitRemoveMember(q) ==
  \E c, u \in Users, t \in Teams :
    /\ Authorised(c, t, "members")
    /\ Submit(q, [op |-> "removeMember", pc |-> "lock", caller |-> c, team |-> t,
                  user |-> u])

SubmitUpdateMember(q) ==
  \E c, u \in Users, t \in Teams, patch \in Patches :
    /\ Authorised(c, t, "members")
    /\ Submit(q, [op |-> "updateMember", pc |-> "lock", caller |-> c, team |-> t,
                  user |-> u, patch |-> patch])

SubmitUpdateRole(q) ==
  \E c \in Users, t \in Teams, r \in Roles, p \in Perms :
    /\ Authorised(c, t, "settings")
    /\ Submit(q, [op |-> "updateRole", pc |-> "lock", caller |-> c, team |-> t,
                  role |-> r, perms |-> p])

SubmitDeleteRole(q) ==
  \E c \in Users, t \in Teams, r \in Roles :
    /\ Authorised(c, t, "settings")
    /\ Submit(q, [op |-> "deleteRole", pc |-> "lock", caller |-> c, team |-> t,
                  role |-> r])

\* Clearing a column takes no lock and validates nothing.
SubmitSetReferences(q) ==
  \E c \in Users, t \in Teams, col \in Columns, ids \in SUBSET Roles :
    /\ Authorised(c, t, IF col = "nominated" THEN "events" ELSE "settings")
    /\ Submit(q, [op |-> "setReferences", pc |-> IF ids = {} THEN "commit" ELSE "lock",
                  caller |-> c, team |-> t, column |-> col, ids |-> ids])

SubmitCreateRole(q) ==
  \E c \in Users, t \in Teams, p \in Perms :
    /\ Authorised(c, t, "settings")
    /\ Submit(q, [op |-> "createRole", pc |-> "check", caller |-> c, team |-> t,
                  perms |-> p])

SubmitCreateInvite(q) ==
  \E c \in Users, t \in Teams :
    /\ Authorised(c, t, "settings")
    /\ Submit(q, [op |-> "createInvite", pc |-> "commit", caller |-> c, team |-> t])

\* The routes without a team need a session only.
SubmitAcceptInvite(q) ==
  \E c \in Users, t \in Teams :
    Submit(q, [op |-> "acceptInvite", pc |-> "lookup", caller |-> c, team |-> t])

SubmitCreateTeam(q) ==
  \E c \in Users : Submit(q, [op |-> "createTeam", pc |-> "check", caller |-> c])

SubmitEraseUser(q) ==
  \E c \in Users :
    Submit(q, [op |-> "eraseUser", pc |-> "snapshot", caller |-> c, want |-> {}])

-----------------------------------------------------------------------------
(* Reads and locks.                                                        *)

\* The invite is looked up before the lock is taken.
LookupInvite(q) ==
  /\ At(q, "acceptInvite", "lookup")
  /\ IF req[q].team \in invites THEN Goto(q, "lock") /\ UNCHANGED lock
     ELSE Finish(q)
  /\ UNCHANGED accessVars

\* Mutant: the check runs without waiting for the team's lock.
AcquireLock_NoWait(q) ==
  /\ req[q] # Idle /\ req[q].pc = "lock" /\ req[q].op # "eraseUser"
  /\ Goto(q, IF req[q].op = "acceptInvite" THEN "commit" ELSE "check")
  /\ UNCHANGED <<accessVars, lock>>

AcquireLock(q) ==
  /\ req[q] # Idle /\ req[q].pc = "lock" /\ req[q].op # "eraseUser"
  /\ lock[req[q].team] = Idle
  /\ lock' = [lock EXCEPT ![req[q].team] = q]
  /\ Goto(q, IF req[q].op = "acceptInvite" THEN "commit" ELSE "check")
  /\ UNCHANGED accessVars

\* Mutant: the erasure locks no team.
SnapshotTeams_NoLocks(q) ==
  /\ At(q, "eraseUser", "snapshot")
  /\ Goto(q, "lock")
  /\ UNCHANGED <<accessVars, lock>>

\* EraseUser's lock statement reads the memberships once ...
SnapshotTeams(q) ==
  /\ At(q, "eraseUser", "snapshot")
  /\ req' = [req EXCEPT ![q].pc = "lock",
                        ![q].want = {t \in Teams : req[q].caller \in members[t]}]
  /\ UNCHANGED <<accessVars, lock>>

\* ... and takes the locks one by one, in team_id order.
Missing(q) == {t \in req[q].want : lock[t] # q}

\* Mutant: without ORDER BY the locks are taken in any order.
AcquireNextLock_AnyOrder(q) ==
  /\ At(q, "eraseUser", "lock")
  /\ \E t \in Missing(q) : lock[t] = Idle /\ lock' = [lock EXCEPT ![t] = q]
  /\ UNCHANGED <<accessVars, req>>

AcquireNextLock(q) ==
  /\ At(q, "eraseUser", "lock")
  /\ \E t \in Missing(q) :
       /\ \A s \in Missing(q) : t <= s
       /\ lock[t] = Idle
       /\ lock' = [lock EXCEPT ![t] = q]
  /\ UNCHANGED <<accessVars, req>>

AllLocked(q) ==
  /\ At(q, "eraseUser", "lock")
  /\ Missing(q) = {}
  /\ Goto(q, "check")
  /\ UNCHANGED <<accessVars, lock>>

\* What a request's statements between lock and write require: the caller's and
\* the ids' validity, ...
Permitted(r) ==
  /\ r.op = "setRoles" => SetRolesPermitted(r.caller, r.team, r.user, r.ids)
  /\ r.op = "removeMember" => RemoveMemberPermitted(r.caller, r.team, r.user)
  /\ r.op = "updateMember" => UpdateMemberPermitted(r.caller, r.team, r.user, r.patch)
  /\ r.op = "updateRole" => UpdateRolePermitted(r.caller, r.team, r.role, r.perms)
  /\ r.op = "deleteRole" => DeleteRolePermitted(r.team, r.role)
  /\ r.op = "setReferences" => r.ids \subseteq RolesOf(r.team)

\* ... somebody left to administer the team, ...
KeepsAdmin(r) ==
  /\ r.op = "setRoles" => SetRolesKeepsAdmin(r.team, r.user, r.ids)
  /\ r.op = "removeMember" => RemoveMemberKeepsAdmin(r.team, r.user)
  /\ r.op = "updateRole" => UpdateRoleKeepsAdmin(r.team, r.role, r.perms)
  /\ r.op = "deleteRole" => DeleteRoleKeepsAdmin(r.team, r.role)

ErasureKeepsAdmin(r, ts) == r.op = "eraseUser" => EraseKeepsAdmin(r.caller, ts)

\* ... and, counted without any lock, room for one more.
WithinCaps(r) ==
  /\ r.op = "createRole" => Cardinality(RolesOf(r.team)) < MaxRolesPerTeam
  /\ r.op = "createTeam" =>
       Cardinality({t \in Teams : r.caller \in members[t]}) < MaxTeamsPerUser

Passes(r) ==
  Permitted(r) /\ KeepsAdmin(r) /\ ErasureKeepsAdmin(r, Teams) /\ WithinCaps(r)

Check(q) ==
  /\ req[q] # Idle /\ req[q].pc = "check"
  /\ IF Passes(req[q]) THEN Goto(q, "commit") /\ UNCHANGED lock ELSE Finish(q)
  /\ UNCHANGED accessVars

-----------------------------------------------------------------------------
(* Writes and commits.                                                     *)

CommitSetRoles(q) ==
  /\ At(q, "setRoles", "commit")
  /\ WriteSetRoles(req[q].team, req[q].user, req[q].ids)
  /\ Finish(q)

CommitRemoveMember(q) ==
  /\ At(q, "removeMember", "commit")
  /\ WriteRemoveMember(req[q].team, req[q].user)
  /\ Finish(q)

\* A taken address violates the unique constraint: ErrEmailTaken, roll back.
CommitUpdateMember(q) ==
  /\ At(q, "updateMember", "commit")
  /\ IF EmailFree(req[q].user, req[q].patch)
     THEN WriteUpdateMember(req[q].user, req[q].patch)
     ELSE UNCHANGED accessVars
  /\ Finish(q)

CommitUpdateRole(q) ==
  /\ At(q, "updateRole", "commit")
  /\ WriteUpdateRole(req[q].role, req[q].perms)
  /\ Finish(q)

CommitDeleteRole(q) ==
  /\ At(q, "deleteRole", "commit")
  /\ WriteDeleteRole(req[q].team, req[q].role)
  /\ Finish(q)

CommitSetReferences(q) ==
  /\ At(q, "setReferences", "commit")
  /\ WriteReferences(req[q].team, req[q].column, req[q].ids)
  /\ Finish(q)

CommitCreateRole(q) ==
  /\ At(q, "createRole", "commit")
  /\ \E r \in Roles : WriteCreateRole(req[q].team, r, req[q].perms)
  /\ Finish(q)

CommitCreateInvite(q) ==
  /\ At(q, "createInvite", "commit")
  /\ WriteCreateInvite(req[q].team)
  /\ Finish(q)

CommitAcceptInvite(q) ==
  /\ At(q, "acceptInvite", "commit")
  /\ WriteAcceptInvite(req[q].caller, req[q].team)
  /\ Finish(q)

CommitCreateTeam(q) ==
  /\ At(q, "createTeam", "commit")
  /\ \E t \in Teams : WriteCreateTeam(req[q].caller, t)
  /\ Finish(q)

CommitEraseUser(q) ==
  /\ At(q, "eraseUser", "commit")
  /\ WriteEraseUser(req[q].caller, req[q].want)
  /\ Finish(q)

\* A timeout, a lost connection or a crash: rollback.
Abort(q) ==
  /\ req[q] # Idle
  /\ Finish(q)
  /\ UNCHANGED accessVars

-----------------------------------------------------------------------------

SubmitAny(q) ==
  /\ req[q] = Idle
  /\ \/ SubmitSetRoles(q) \/ SubmitRemoveMember(q) \/ SubmitUpdateMember(q)
     \/ SubmitUpdateRole(q) \/ SubmitDeleteRole(q) \/ SubmitSetReferences(q)
     \/ SubmitCreateRole(q) \/ SubmitCreateInvite(q) \/ SubmitAcceptInvite(q)
     \/ SubmitCreateTeam(q) \/ SubmitEraseUser(q)

CommitAny(q) ==
  \/ CommitSetRoles(q) \/ CommitRemoveMember(q) \/ CommitUpdateMember(q)
  \/ CommitUpdateRole(q) \/ CommitDeleteRole(q) \/ CommitSetReferences(q)
  \/ CommitCreateRole(q) \/ CommitCreateInvite(q) \/ CommitAcceptInvite(q)
  \/ CommitCreateTeam(q) \/ CommitEraseUser(q)

Acquire(q) == AcquireLock(q) \/ AcquireNextLock(q)
Proceed(q) ==
  LookupInvite(q) \/ SnapshotTeams(q) \/ AllLocked(q) \/ Check(q) \/ CommitAny(q)

InviteExpires == (\E t \in Teams : ExpireInvite(t)) /\ UNCHANGED requestVars

Next ==
  \/ \E q \in Requests : SubmitAny(q) \/ Acquire(q) \/ Proceed(q) \/ Abort(q)
  \/ InviteExpires

Spec == Init /\ [][Next]_vars

\* A request that is not waiting for a lock keeps running; Postgres grants an
\* advisory lock in the order it was asked for, so a waiting request is not
\* passed over for ever.
Fairness == \A q \in Requests : WF_vars(Proceed(q)) /\ SF_vars(Acquire(q))

FairSpec == Spec /\ Fairness

-----------------------------------------------------------------------------
(* What must hold (AdminKept and NoDanglingRoles too; AccessSteps is what  *)
(* this module implements).                                                *)

Committing(q, ops) ==
  req[q] # Idle /\ req[q].op \in ops /\ req[q].pc = "commit" /\ req'[q] = Idle

\* Nobody gains a permission that the caller of the change does not hold in the
\* very state the change commits in, however long ago the middleware looked:
\* but for the creator of a team and the read rights a new member starts with.
\* (members.enforceNoPermissionEscalation, roles.enforceNoRoleEscalation.)
NoEscalation ==
  [][\A t \in Teams, u \in Users, m \in Modules, l \in {Read, Write} :
       ~Holds(t, u, m, l) /\ Holds(t, u, m, l)' =>
         \/ u \notin members[t] /\ (t \notin teams \/ l = Read)
         \/ \E q \in Requests : /\ Committing(q, {"setRoles", "updateRole"})
                                /\ req[q].team = t
                                /\ Holds(t, req[q].caller, m, l)]_vars

\* A member who can manage settings is removed only by one who can, judged when
\* the removal commits. (members.ErrCannotRemoveSettingsAdmin.)
AdminsRemovedByAdmins ==
  [][\A t \in Teams : \A u \in SettingsAdmins(t) :
       u \in members[t] \ members'[t] =>
         \E q \in Requests : /\ Committing(q, {"removeMember"})
                             /\ req[q].team = t
                             /\ req[q].caller \in SettingsAdmins(t)]_vars

\* An address changes only at the hands of its owner or of somebody who, at the
\* commit, manages settings in a team the owner is a member of: no write lands
\* on a member removed in the meantime. (members.UpdateMember.)
AddressChangesAuthorised ==
  [][\A u \in Users :
       email'[u] \notin {email[u], Anonymised} =>
         \E q \in Requests : /\ Committing(q, {"updateMember"})
                             /\ req[q].user = u
                             /\ u \in members[req[q].team]
                             /\ \/ req[q].caller = u
                                \/ req[q].caller \in SettingsAdmins(req[q].team)]_vars

\* A request that waits for a team's lock gets it or ends: the waits never form
\* a circle, although EraseUser holds several locks. (auth.EraseUser's ORDER BY.)
WaitersServed ==
  \A q \in Requests :
    (req[q] # Idle /\ req[q].pc = "lock") ~> (req[q] = Idle \/ req[q].pc # "lock")

\* No team is left with living members and nobody among them to administer it.
\* (auth.EraseUser's sole-admin guard; docs/gdpr-data-subject-rights.md.)
NobodyLockedOut ==
  \A t \in teams : members[t] \subseteq erased \/ LivingAdmins(t) # {}

-----------------------------------------------------------------------------
(* Why it holds: what was checked under the lock still stands when the     *)
(* transaction commits.                                                    *)

\* The teams whose lock a request holds once it is past its lock statement.
Locks(r) ==
  IF r.op = "eraseUser" THEN r.want
  ELSE IF \/ r.op \in {"createTeam", "createRole", "createInvite"}
          \/ r.op = "setReferences" /\ r.ids = {} THEN {}
  ELSE {r.team}

Serialised ==
  \A q \in Requests : \A r \in Served(q) :
    r.pc \in {"check", "commit"} => \A t \in Locks(r) : lock[t] = q

\* A request that got past the middleware names a team that exists.
TeamsExist ==
  \A q \in Requests : \A r \in Served(q) :
    /\ r.op = "eraseUser" => r.want \subseteq teams
    /\ r.op \notin {"eraseUser", "createTeam"} /\ r.pc # "lookup" => r.team \in teams

ChecksStand ==
  \A q \in Requests : \A r \in Served(q) :
    r.pc = "commit" =>
      /\ Permitted(r)
      /\ KeepsAdmin(r) \/ r.team \in unguarded
      /\ ErasureKeepsAdmin(r, r.want \ unguarded)

Inv == TypeOK /\ AccessInv /\ Serialised /\ TeamsExist /\ ChecksStand

\* An account joins or founds a team after an erasure of it read its memberships.
LateJoin ==
  \E u \in Users, t \in Teams :
    /\ u \in members'[t] \ members[t]
    /\ \/ u \in erased
       \/ \E q \in Requests : \E r \in Served(q) :
            r.op = "eraseUser" /\ r.caller = u /\ r.pc # "snapshot"

\* Without late joins, an erasure locks every team of its account.
ErasuresCover ==
  /\ \A q \in Requests : \A r \in Served(q) :
       r.op = "eraseUser" /\ r.pc # "snapshot" =>
         \A t \in Teams : r.caller \in members[t] => t \in r.want
  /\ unguarded = {}

=============================================================================
