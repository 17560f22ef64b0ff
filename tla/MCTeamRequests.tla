---------------------------- MODULE MCTeamRequests ----------------------------
(* Small instances of TeamRequests for TLC.                                *)
EXTENDS TeamRequests, TLC

CONSTANTS u1, u2, u3, a1, m1, c1, a2, m2, e1, e2, e3, e4

MCModules == {"settings", "members", "events"}

\* What custom roles may grant besides everything and the read-only default:
\* settings alone, or members alone.
Only(S) == [m \in MCModules |-> IF m \in S THEN Write ELSE None]
SystemPerms == {AdminPerms, MemberPerms}
SettingsPerms == SystemPerms \cup {Only({"settings"})}
StaffPerms == SystemPerms \cup {Only({"members"})}

\* One team with a custom role; two teams, one of which may create one.
OneTeam == {1}
OneTeamRoles == {a1, m1, c1}
OneTeamRoleTeam == [r \in OneTeamRoles |-> 1]
OneTeamAdmin == [t \in OneTeam |-> a1]
OneTeamMember == [t \in OneTeam |-> m1]

TwoTeams == {1, 2}
TwoTeamsRoles == {a1, m1, c1, a2, m2}
TwoTeamsRoleTeam == [r \in TwoTeamsRoles |-> IF r \in {a2, m2} THEN 2 ELSE 1]
TwoTeamsAdmin == (1 :> a1) @@ (2 :> a2)
TwoTeamsMember == (1 :> m1) @@ (2 :> m2)

TwoAddresses == (u1 :> e1) @@ (u2 :> e2)
ThreeAddresses == TwoAddresses @@ (u3 :> e3)

\* Operations the runs submit.
RoleOps == {"setRoles", "updateRole", "deleteRole"}
StaffOps == {"removeMember", "updateMember", "updateRole"}
ReferenceOps == {"createRole", "deleteRole", "setReferences"}
ErasureOps == {"createTeam", "createInvite", "acceptInvite", "setRoles", "eraseUser"}
WaitOps == {"eraseUser", "removeMember"} \cup StaffOps \cup ReferenceOps

\* A reachable state to start from: the teams in deal created by one of the
\* members deal gives them and joined by the others, their roles dealt as in deal,
\* their custom roles in custom minted; no invite left.
Dealt(deal, custom) ==
  /\ teams = DOMAIN deal
  /\ members = [t \in Teams |-> IF t \in teams THEN DOMAIN deal[t] ELSE {}]
  /\ roles = custom \cup {AdminRole[t] : t \in teams} \cup {MemberRole[t] : t \in teams}
  /\ minted = roles
  /\ perms = [r \in Roles |-> CASE \E t \in teams : r = AdminRole[t] -> AdminPerms
                                [] r \in custom -> Only({"members"})
                                [] OTHER -> MemberPerms]
  /\ held = [t \in Teams |-> [u \in Users |->
              IF u \in members[t] THEN deal[t][u] ELSE {}]]
  /\ refs = [t \in Teams |-> [c \in Columns |-> {}]]
  /\ invites = {}
  /\ erased = {}
  /\ email = InitialEmail
  /\ personal = Users
  /\ unguarded = {}
  /\ req = [q \in Requests |-> Idle]
  /\ lock = [t \in Teams |-> Idle]

\* Bound: what waits for the lock beside erasures and removals concerns one custom role
\* of the first team and a column that names it, or a field of the caller that no guard
\* looks at.
PlainEdits ==
  \A q \in Requests :
    req[q] = Idle /\ req'[q] # Idle =>
      LET r == req'[q] IN
      /\ r.op \in StaffOps \cup ReferenceOps /\ r.op # "removeMember" => r.team = 1
      /\ r.op = "updateMember" => r.user = r.caller /\ r.patch = OtherField
      /\ r.op \in {"createRole", "updateRole"} => r.perms = MemberPerms
      /\ r.op \in {"updateRole", "deleteRole"} => r.role = c1
      /\ r.op = "setReferences" => r.column = "nominated" /\ r.ids = {c1}

\* Both accounts administer both teams.
SharedFairSpec ==
  /\ Dealt([t \in Teams |-> [u \in Users |-> {AdminRole[t]}]], {})
  /\ [][Next /\ PlainEdits]_vars
  /\ Fairness

\* Bound: the Member role is assigned alone or not at all.
MemberRoleAlone(ids) ==
  ids \cap {MemberRole[t] : t \in Teams} = {} \/ Cardinality(ids) = 1

\* Bound: members are edited to move them to the one free address, not to swap
\* addresses among themselves.
FreeAddress == e4

\* Slots are interchangeable.
Slots == Permutations(Requests)

=============================================================================
