----------------------------- MODULE EventViews -----------------------------
(* What members see of events: the roster of an event, its summary, one's own *)
(* status, the statistics. Each view is a query of its own (internal/events,  *)
(* internal/stats), and the attendance list takes three queries with no       *)
(* transaction around them.                                                   *)
EXTENDS Events, FiniteSetsExt, Sums

ASSUME TablesAssumption == IsFiniteSet(Users) /\ IsFiniteSet(Teams) /\ IsFiniteSet(Events)

VARIABLE listing     \* attendance lists being put together: slot -> what was read

viewVars == <<vars, listing>>

-----------------------------------------------------------------------------
(* Effective attendance *)

Covers(a, t, u, v) ==
  /\ absence[a] # Null /\ absence[a].team = t /\ absence[a].user = u
  /\ absence[a].from <= LastDay(v) /\ absence[a].to >= v.date

AbsenceCovers(t, u, v) == \E a \in Absences : Covers(a, t, u, v)
NotRelevantAbsenceCovers(t, u, v) == \E a \in Absences : Covers(a, t, u, v) /\ absence[a].irrelevant

\* The SQL expression that summaries and statistics share.
EffectiveStatus(t, u, e) ==
  IF answer[e][u] # Null THEN answer[e][u]
  ELSE IF AbsenceCovers(t, u, event[e]) THEN "no"
  ELSE IF event[e].optOut THEN "yes" ELSE "pending"

\* The same rule in Go, for the rows that show one person.
ComputeEffective(explicit, covered, optOut) ==
  IF explicit # Null THEN [status |-> explicit, auto |-> FALSE, absent |-> covered]
  ELSE IF covered THEN [status |-> "no", auto |-> TRUE, absent |-> TRUE]
  ELSE [status |-> IF optOut THEN "yes" ELSE "pending", auto |-> optOut, absent |-> FALSE]

-----------------------------------------------------------------------------
(* The views of an event, through the team t of the viewer *)

MembersOf(T) == UNION {members[t] : t \in T}
TeamsOf(e, u) == {t \in event[e].targets : u \in members[t]}

\* Mutant: the event's own team first.
LateralTeam_Owner(e, u, t) ==
  IF event[e].owner \in TeamsOf(e, u) THEN event[e].owner
  ELSE CHOOSE x \in TeamsOf(e, u) : \A y \in TeamsOf(e, u) : x <= y

\* One membership per person: the viewer's team first, then the lowest team id.
LateralTeam(e, u, t) ==
  IF t \in TeamsOf(e, u) THEN t ELSE CHOOSE x \in TeamsOf(e, u) : \A y \in TeamsOf(e, u) : x <= y

Summary(e, t) ==
  [s \in Statuses |-> Cardinality({u \in MembersOf(event[e].targets) :
                                     EffectiveStatus(LateralTeam(e, u, t), u, e) = s})]

\* The roster's own tie-break, "identical" to the lateral join's.
IdentityTeam(e, u, t) ==
  IF u \in members[t] /\ t \in event[e].targets THEN t
  ELSE CHOOSE x \in TeamsOf(e, u) : \A y \in TeamsOf(e, u) : x <= y

ListAttendance(e, t) ==
  [u \in MembersOf(event[e].targets) |->
     ComputeEffective(answer[e][u], AbsenceCovers(IdentityTeam(e, u, t), u, event[e]),
                      event[e].optOut)]

\* One's own status, with the absences of the team one looks through.
MyAttendance(e, u, t) ==
  ComputeEffective(answer[e][u], AbsenceCovers(t, u, event[e]), event[e].optOut)

CrossTeams(e) == event[e].targets \ {event[e].owner}

\* An event's page, and its entry in the list of events, which come from queries
\* for one event and for a page of them.
EnrichEvent(e, u, t) ==
  [summary |-> Summary(e, t), own |-> MyAttendance(e, u, t).status, shared |-> CrossTeams(e)]

Summaries(E, t) ==
  LET Rows == {r \in E \X Users : r[2] \in MembersOf(event[r[1]].targets)} IN
  [e \in E |-> [s \in Statuses |->
     Cardinality({r \in Rows : r[1] = e /\ EffectiveStatus(LateralTeam(e, r[2], t), r[2], e) = s})]]

MyAttendances(E, u, t) ==
  [e \in E |-> ComputeEffective(answer[e][u], AbsenceCovers(t, u, event[e]), event[e].optOut)]

ListEvents(u, t) ==
  LET E == {e \in Live : TargetedBy(e, t)} IN
  [e \in E |-> [summary |-> Summaries(E, t)[e], own |-> MyAttendances(E, u, t)[e].status,
                shared |-> CrossTeams(e)]]

-----------------------------------------------------------------------------
(* Statistics of a team over a range of days: each is about E, the counting    *)
(* events of the range asked for                                              *)

Counting(t, range) ==
  {e \in Live : event[e].owner = t /\ event[e].date \in range
                /\ ~event[e].cancelled /\ ~event[e].excluded}

StatStatus(t, u, e) ==
  IF answer[e][u] = Null /\ NotRelevantAbsenceCovers(t, u, event[e]) THEN "excluded"
  ELSE EffectiveStatus(t, u, e)

Tally(E, status) ==
  [yes |-> Cardinality({e \in E : status[e] = "yes"}),
   counted |-> Cardinality({e \in E : status[e] \in {"yes", "no", "maybe"}})]

MemberStats(t, E) ==
  [u \in members[t] \ uncounted[t] |->
     Tally(E, [e \in E |-> StatStatus(t, u, e)])]

\* Someone left out of the statistics has empty ones, not none.
SingleMemberStats(t, u, E) ==
  Tally(E, [e \in E |-> IF u \in uncounted[t] THEN "pending" ELSE StatStatus(t, u, e)])

\* Mutant: absences that do not count are shown as a no.
MatrixCells_Effective(t, E) ==
  [u \in members[t] \ uncounted[t] |-> [e \in E |-> EffectiveStatus(t, u, e)]]

MatrixCells(t, E) ==
  [u \in members[t] \ uncounted[t] |->
     [e \in E |->
        IF answer[e][u] = Null /\ NotRelevantAbsenceCovers(t, u, event[e]) THEN "pending"
        ELSE EffectiveStatus(t, u, e)]]

MatrixRow(t, E, u) == Tally(E, MatrixCells(t, E)[u])

\* Turnout, not a quota: those left out of the statistics are in it.
EventStats(t, e) ==
  [yes |-> Cardinality({u \in members[t] : StatStatus(t, u, e) = "yes"}),
   counted |-> Cardinality({u \in members[t] : StatStatus(t, u, e) \in {"yes", "no", "maybe"}})]

-----------------------------------------------------------------------------
(* Listing the attendance: the roster, how many teams the event targets, and, *)
(* if several, who is in which of them                                        *)

ReadRoster(q, e, t) ==
  /\ listing[q] = Null
  /\ TargetedBy(e, t)
  /\ listing' = [listing EXCEPT ![q] =
       [stage |-> "roster", event |-> e, team |-> t, rows |-> MembersOf(event[e].targets),
        own |-> members[t], shared |-> Cardinality(event[e].targets) > 1, full |-> {},
        unshared |-> FALSE]]
  /\ UNCHANGED vars

\* A deleted event has no targets left; an event of one team needs no badges.
ReadEventTeams(q) ==
  /\ listing[q] # Null /\ listing[q].stage = "roster"
  /\ LET l == listing[q]
         several == event[l.event] # Null /\ Cardinality(event[l.event].targets) > 1 IN
     listing' = [listing EXCEPT ![q] =
       IF several THEN [l EXCEPT !.stage = "teams"]
       ELSE [l EXCEPT !.stage = "shown", !.full = l.rows, !.unshared = l.shared]]
  /\ UNCHANGED vars

\* Mutant: someone found in no team is taken for one of the viewer's.
ShownInFull_Unknown(l, known) == {u \in l.rows : u \in known => u \in members[l.team]}

\* Shown in full: who is found in the viewer's own team now. Someone found in no
\* team is shown like a stranger.
ShownInFull(l, known) == {u \in l.rows : u \in known /\ u \in members[l.team]}

ReadMemberTeams(q) ==
  /\ listing[q] # Null /\ listing[q].stage = "teams"
  /\ LET l == listing[q]
         targets == IF event[l.event] = Null THEN {} ELSE event[l.event].targets IN
     listing' = [listing EXCEPT ![q] =
       [l EXCEPT !.stage = "shown", !.own = l.own \cup members[l.team],
                 !.full = IF l.team \in targets THEN ShownInFull(l, MembersOf(targets)) ELSE {}]]
  /\ UNCHANGED vars

Answered(q) ==
  /\ listing[q] # Null /\ listing[q].stage = "shown"
  /\ listing' = [listing EXCEPT ![q] = Null]
  /\ UNCHANGED vars

ListNext ==
  \E q \in Requests :
    \/ \E e \in Events, t \in Teams : ReadRoster(q, e, t)
    \/ ReadEventTeams(q) \/ ReadMemberTeams(q) \/ Answered(q)

ViewInit == Init /\ listing = [q \in Requests |-> Null]
ViewNext == ListNext \/ (Next /\ UNCHANGED listing)
ViewSpec == ViewInit /\ [][ViewNext]_viewVars

-----------------------------------------------------------------------------
(* Properties *)

\* The summary's counts are the counts of the roster's rows, a member's own status is
\* their row, and the list of events says the same as the event's page, on whichever
\* team's page: five queries in two languages that have to pick the same membership,
\* hence the same absences.
ViewsAgree ==
  /\ \A e \in Live : \A t \in event[e].targets :
       LET rows == ListAttendance(e, t) IN
       /\ \A s \in Statuses :
            Summary(e, t)[s] = Cardinality({u \in DOMAIN rows : rows[u].status = s})
       /\ \A u \in members[t] : MyAttendance(e, u, t) = rows[u]
  /\ \A t \in Teams : \A u \in members[t] : \A e \in DOMAIN ListEvents(u, t) :
       ListEvents(u, t)[e] = EnrichEvent(e, u, t)

\* The statistics reconcile: a row of the matrix adds up to the member's quote in
\* the overview and to the member's own view; if everyone counts, the members'
\* attendances are the events' turnouts; and an event of a single team has the
\* turnout its own summary counts, unless an absence is flagged as irrelevant.
StatsReconcile ==
  \A t \in Teams :
    LET E == Counting(t, Days)
        quotes == MemberStats(t, E) IN
    /\ \A u \in members[t] \ uncounted[t] :
         quotes[u] = MatrixRow(t, E, u) /\ quotes[u] = SingleMemberStats(t, u, E)
    /\ \A u \in members[t] \cap uncounted[t] : SingleMemberStats(t, u, E).counted = 0
    /\ uncounted[t] = {} =>
         Total([u \in members[t] |-> quotes[u].yes], members[t])
           = Total([e \in E |-> EventStats(t, e).yes], E)
    /\ (\A a \in Absences : absence[a] # Null => ~absence[a].irrelevant) =>
         \A e \in Live :
           event[e].targets = {t} => EventStats(t, e).yes = Summary(e, t)["yes"]

\* Someone is shown with profile and reasons only to a team they were in while the
\* list was put together, unless the event stopped being shared meanwhile.
ForeignersRedacted ==
  \A q \in Requests :
    listing[q] # Null /\ listing[q].stage = "shown" /\ ~listing[q].unshared =>
      listing[q].full \subseteq listing[q].own
=============================================================================
