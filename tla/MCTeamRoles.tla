----------------------------- MODULE MCTeamRoles ------------------------------
(* Small instances of TeamRequests in one team, as scenes: what roles allow is  *)
(* changed while it is made use of, members are edited and removed, roles are   *)
(* deleted while columns come to name them, and accounts found, join and leave  *)
(* teams.                                                                       *)
EXTENDS MCTeamRequests

VARIABLES scene, left   \* the scene, and how many more requests it admits
mcVars == <<vars, scene, left>>

SceneOps == RoleOps \cup StaffOps \cup ReferenceOps \cup ErasureOps
ScenePerms == SettingsPerms \cup StaffPerms

\* Bound: an operation goes on in its scene only, and roles are given what the scene
\* is about.
Belongs(r, ops, given) ==
  /\ r.op \in ops
  /\ r.op \in {"updateRole", "createRole"} => r.perms \in given

\* u1 administers the team, u2 is an ordinary member, nobody holds c1 yet.
RolesScene(r) ==
  /\ Belongs(r, RoleOps, SettingsPerms) /\ r.caller # u3
  /\ r.op = "setRoles" => r.user # u3 /\ MemberRoleAlone(r.ids)

\* The same without the custom role.
ReferencesScene(r) ==
  /\ Belongs(r, ReferenceOps, SystemPerms) /\ r.caller # u3

\* u1 and u3 administer the team, u2 may edit and remove members.
StaffScene(r) ==
  /\ Belongs(r, StaffOps, StaffPerms)
  /\ r.op = "updateMember" => r.patch = FreeAddress

\* u1 and u2 found teams, join by invites clicked before or again, are given roles and
\* are erased.
ErasuresScene(r) ==
  /\ r.op \in ErasureOps /\ r.caller # u3
  /\ r.op = "setRoles" => r.user # u3

MCInit ==
  /\ left = 4
  /\ \/ /\ scene = "roles"
        /\ Dealt(1 :> ((u1 :> {a1}) @@ (u2 :> {m1})), {c1})
     \/ /\ scene = "references"
        /\ Dealt(1 :> ((u1 :> {a1}) @@ (u2 :> {m1})), {})
     \/ /\ scene = "staff"
        /\ Dealt(1 :> ((u1 :> {a1}) @@ (u2 :> {c1}) @@ (u3 :> {a1})), {c1})
     \/ scene = "erasures" /\ Init

Submitted == {q \in Requests : req[q] = Idle /\ req'[q] # Idle}

\* Bound: four requests in the scenes that start from a team; the erasures start from an
\* empty database and never stop.
MCNext ==
  /\ Next
  /\ left' = IF scene = "erasures" THEN left ELSE left - Cardinality(Submitted)
  /\ left' >= 0
  /\ UNCHANGED scene

MCSpec == MCInit /\ [][MCNext]_mcVars

\* The requests a scene submits.
InScene ==
  \A q \in Submitted :
    CASE scene = "roles" -> RolesScene(req'[q])
      [] scene = "references" -> ReferencesScene(req'[q])
      [] scene = "staff" -> StaffScene(req'[q])
      [] scene = "erasures" -> ErasuresScene(req'[q])

=============================================================================
