------------------------------- MODULE Events -------------------------------
(* Events, recurring series, answers, nominations, comments and absences    *)
(* (internal/events, internal/absences): every write is a request that the   *)
(* route and the service admit on what they read first, and that the         *)
(* repository carries out later, in one transaction.                         *)
EXTENDS Naturals, FiniteSets

CONSTANTS
  Users, Teams,
  Events,        \* event ids
  Series,        \* event_series ids
  Absences,      \* absence ids
  Comments,      \* event_comments ids
  Days,          \* the calendar
  Leads,         \* cancellation lead times, in half days
  Creations,     \* bodies of create requests
  Patches,       \* bodies of update requests: the fields each of them names
  Requests,      \* request slots
  MaxSpan,       \* maxMultiDaySpanDays, maxAbsenceSpanDays
  MaxWeeks,      \* maxRepeatWeeks
  MaxComments,   \* maxCommentsPerEvent
  Null           \* SQL NULL, a row that is not there, an idle slot, a free lock

ASSUME CalendarAssumption == Days \subseteq Nat
ASSUME LimitsAssumption == MaxSpan \in Nat /\ MaxWeeks \in Nat /\ MaxComments \in Nat
ASSUME NullAssumption ==
  Null \notin Users \cup Teams \cup Series \cup Absences \cup Requests \cup Days

VARIABLES
  clock,         \* half days: day d is the half days 2d and 2d+1
  event,         \* events joined with event_teams: id -> row
  series,        \* event_series: ids in use
  members,       \* memberships: team -> users
  writers,       \* team -> members whose roles grant events:write
  answer,        \* attendance: event -> user -> status
  comment,       \* event_comments: id -> event and author
  absence,       \* absences: id -> row
  uncounted,     \* memberships flagged exclude_from_stats: team -> users
  lock,          \* the team's advisory lock, as far as absences take it
  req            \* the requests in progress

vars == <<clock, event, series, members, writers, answer, comment, absence, uncounted, lock, req>>

Replies == {"yes", "no", "maybe", "pending"}
Statuses == Replies \cup {"not_nominated"}
Fields == {"date", "last", "lead", "excluded", "targets"}
EventRows == [owner: Teams, targets: SUBSET Teams, series: Series \cup {Null}, date: Days,
              last: Days \cup {Null}, cancelled: BOOLEAN, optOut: BOOLEAN,
              lead: Leads \cup {Null}, excluded: BOOLEAN]
AbsenceRows == [team: Teams, user: Users, from: Days, to: Days, irrelevant: BOOLEAN]

\* What the generated code lets through of the bodies of requests, and the values of
\* the fields a patch may name.
Bodies == [date: Days, last: Days \cup {Null}, recurring: BOOLEAN, weeks: Nat,
           end: Days \cup {Null}, extra: SUBSET Teams, optOut: BOOLEAN,
           lead: Leads \cup {Null}, excluded: BOOLEAN]
Values == [date |-> Days, last |-> Days \cup {Null}, lead |-> Leads \cup {Null},
           excluded |-> BOOLEAN, targets |-> SUBSET Teams]

ASSUME RowsAssumption == Null \notin EventRows \cup AbsenceRows /\ Null \notin Statuses
ASSUME BodiesAssumption ==
  /\ Creations \subseteq Bodies
  /\ \A p \in Patches : DOMAIN p \subseteq Fields /\ \A f \in DOMAIN p : p[f] \in Values[f]

TypeOK ==
  /\ clock \in Nat
  /\ event \in [Events -> EventRows \cup {Null}]
  /\ series \subseteq Series
  /\ members \in [Teams -> SUBSET Users]
  /\ writers \in [Teams -> SUBSET Users]
  /\ answer \in [Events -> [Users -> Statuses \cup {Null}]]
  /\ comment \in [Comments -> [event: Events, user: Users] \cup {Null}]
  /\ absence \in [Absences -> AbsenceRows \cup {Null}]
  /\ uncounted \in [Teams -> SUBSET Users]
  /\ lock \in [Teams -> Requests \cup {Null}]
  /\ DOMAIN req = Requests

-----------------------------------------------------------------------------
(* Reading the tables *)

Today == clock \div 2
Live == {e \in Events : event[e] # Null}

\* The event exists and the team is among its targets.
TargetedBy(e, t) == event[e] # Null /\ t \in event[e].targets
OwnedBy(e, t) == event[e] # Null /\ event[e].owner = t
LastDay(v) == IF v.last = Null THEN v.date ELSE v.last
OccurrencesOf(s) == {e \in Live : event[e].series = s}
FromToday(E) == {e \in E : event[e].date >= Today}

\* Events start in the second half of their day; answers close a lead time earlier.
EventStart(v) == 2 * v.date + 1
Closed(v) == v.lead # Null /\ clock + v.lead > EventStart(v)
SpanAllowed(v) == v.last # Null => v.last >= v.date /\ v.last <= v.date + MaxSpan
DedupTeamIds(t, extra) == {t} \cup extra

\* The days of a series: weekly, up to the end date or for a number of weeks.
SeriesDates(d, weeks, end) ==
  IF end # Null THEN {x \in Days : x >= d /\ x <= end /\ (x - d) % 7 = 0 /\ x < d + 7 * MaxWeeks}
  ELSE {x \in Days : x >= d /\ (x - d) % 7 = 0 /\ x < d + 7 * weeks}

-----------------------------------------------------------------------------
(* Requests *)

Member(r) == r.caller \in members[r.team]
Organizer(r) == Member(r) /\ r.caller \in writers[r.team]
WriteInTeams(u, T) == \A t \in T : u \in writers[t]
Begin(q, r) == req[q] = Null /\ req' = [req EXCEPT ![q] = r]
Done(q) == req' = [req EXCEPT ![q] = Null]
Doing(q, op) == req[q] # Null /\ req[q].op = op

tables == <<event, series, answer, comment, absence>>
world == <<clock, members, writers, uncounted>>

\* The checks before the transaction: the route's, then the service's.
AdmitCreate(q, r) ==
  /\ Organizer(r)
  /\ LET b == r.body IN
     /\ b.last # Null => ~b.recurring /\ SpanAllowed(b)
     /\ IF b.recurring /\ b.end # Null
        THEN b.end >= b.date /\ (b.end - b.date) \div 7 + 1 <= MaxWeeks
        ELSE b.weeks \in 1..MaxWeeks
     /\ WriteInTeams(r.caller, b.extra)
  /\ Begin(q, r)
  /\ UNCHANGED <<world, tables, lock>>

AdmitUpdate(q, r) ==
  /\ Organizer(r)
  /\ "targets" \in DOMAIN r.patch => WriteInTeams(r.caller, r.patch.targets)
  /\ Begin(q, r)
  /\ UNCHANGED <<world, tables, lock>>

\* Status and deletion: the route's permission check.
AdmitOrganizer(q, r) ==
  /\ Organizer(r)
  /\ Begin(q, r)
  /\ UNCHANGED <<world, tables, lock>>

\* Nomination: the route checks, then the service does.
AdmitNomination(q, r) ==
  /\ Member(r)
  /\ r.caller \in writers[r.team]
  /\ Begin(q, r)
  /\ UNCHANGED <<world, tables, lock>>

AdmitAnswer(q, r) ==
  /\ Member(r)
  /\ r.status # "not_nominated"
  /\ r.caller # r.user => r.caller \in writers[r.team]
  /\ TargetedBy(r.event, r.team)
  /\ ~event[r.event].cancelled
  /\ Closed(event[r.event]) => r.caller \in writers[r.team]
  /\ Begin(q, r)
  /\ UNCHANGED <<world, tables, lock>>

CommentsOn(e) == {c \in Comments : comment[c] # Null /\ comment[c].event = e}
CountComments(e, t) == IF TargetedBy(e, t) THEN Cardinality(CommentsOn(e)) ELSE 0

AdmitComment(q, r) ==
  /\ Member(r)
  /\ CountComments(r.event, r.team) < MaxComments
  /\ Begin(q, r)
  /\ UNCHANGED <<world, tables, lock>>

\* Absences are every member's own business; only the relevance flag of someone
\* else's needs events:write.
AdmitAbsence(q, r) ==
  /\ Member(r)
  /\ Begin(q, r)
  /\ UNCHANGED <<world, tables, lock>>

AdmitRelevance(q, r) ==
  /\ Member(r)
  /\ absence[r.absence] # Null /\ absence[r.absence].team = r.team
  /\ absence[r.absence].user # r.caller => r.caller \in writers[r.team]
  /\ Begin(q, r)
  /\ UNCHANGED <<world, tables, lock>>

-----------------------------------------------------------------------------
(* Creating: one transaction inserts the series, its events, their targets *)

NewEvent(t, b, s, d) ==
  [owner |-> t, targets |-> DedupTeamIds(t, b.extra), series |-> s, date |-> d, last |-> b.last,
   cancelled |-> FALSE, optOut |-> b.optOut, lead |-> b.lead, excluded |-> b.excluded]

\* A new row has no answers and no comments.
Fresh(e) == event[e] = Null

CreateEvent(q) ==
  /\ Doing(q, "create") /\ ~req[q].body.recurring
  /\ \E e \in Events :
       /\ Fresh(e)
       /\ event' = [event EXCEPT ![e] = NewEvent(req[q].team, req[q].body, Null, req[q].body.date)]
  /\ Done(q)
  /\ UNCHANGED <<world, series, answer, comment, absence, lock>>

CreateSeries(q) ==
  /\ Doing(q, "create") /\ req[q].body.recurring
  /\ LET t == req[q].team
         b == req[q].body
         dates == SeriesDates(b.date, b.weeks, b.end) IN
     \E s \in Series \ series, E \in SUBSET {e \in Events : Fresh(e)} :
       /\ Cardinality(E) = Cardinality(dates)
       /\ \E day \in [E -> dates] :
            /\ \A e, f \in E : day[e] = day[f] => e = f
            /\ event' = [e \in Events |-> IF e \in E THEN NewEvent(t, b, s, day[e]) ELSE event[e]]
       /\ series' = series \cup {s}
  /\ Done(q)
  /\ UNCHANGED <<world, answer, comment, absence, lock>>

-----------------------------------------------------------------------------
(* Updating: the series first, then the addressed event, in one transaction *)

\* buildEventUpdateSets: the columns the patch names.
Patched(v, patch) == [f \in DOMAIN v |-> IF f \in DOMAIN patch THEN patch[f] ELSE v[f]]
Only(patch, S) == [f \in DOMAIN patch \cap S |-> patch[f]]

Retargeted(v, t, patch) ==
  IF "targets" \in DOMAIN patch
  THEN [v EXCEPT !.targets = DedupTeamIds(t, patch.targets)] ELSE v

\* Mutant: the deadline of past occurrences changes with the series.
SeriesPatched_All(v, t, patch) ==
  Retargeted(Patched(v, Only(patch, {"lead", "excluded"})), t, patch)

\* Past occurrences keep what describes them; whether they count, and who sees
\* them, changes for the whole series.
SeriesPatched(v, t, patch) ==
  LET fields == IF v.date >= Today THEN {"lead", "excluded"} ELSE {"excluded"} IN
  Retargeted(Patched(v, Only(patch, fields)), t, patch)

EventPatched(v, t, patch) == Retargeted(Patched(v, Only(patch, Fields \ {"targets"})), t, patch)

\* The other occurrences that a change to the series reaches.
SeriesScope(r) ==
  LET s == event[r.event].series IN
  IF r.scope = "series" /\ s # Null THEN OccurrencesOf(s) \ {r.event} ELSE {}

Updated(r, e) ==
  IF e = r.event THEN EventPatched(event[e], r.team, r.patch)
  ELSE IF e \in SeriesScope(r) THEN SeriesPatched(event[e], r.team, r.patch)
  ELSE event[e]
UpdatedEvents(r) == [e \in Events |-> Updated(r, e)]

\* A day span on an occurrence of a series, or an inverted or overlong span.
UpdateRejected(r) ==
  \/ event[r.event].series # Null /\ "last" \in DOMAIN r.patch /\ r.patch.last # Null
  \/ ~SpanAllowed(EventPatched(event[r.event], r.team, r.patch))

UpdateEvent(q) ==
  /\ Doing(q, "update")
  /\ event' = IF OwnedBy(req[q].event, req[q].team) /\ ~UpdateRejected(req[q])
              THEN UpdatedEvents(req[q]) ELSE event
  /\ Done(q)
  /\ UNCHANGED <<world, series, answer, comment, absence, lock>>

Switched(v, cancelled) == [v EXCEPT !.cancelled = cancelled]

\* Reachable from every target team; a series only as far as that team shares it.
SetStatus(q) ==
  /\ Doing(q, "status")
  /\ LET r == req[q]
         s == event[r.event].series
         swept == IF r.scope = "series" /\ s # Null
                  THEN {e \in FromToday(OccurrencesOf(s)) : TargetedBy(e, r.team)} ELSE {} IN
     event' = IF ~TargetedBy(r.event, r.team) THEN event
              ELSE [e \in Events |-> IF e \in swept \cup {r.event}
                                     THEN Switched(event[e], r.cancelled) ELSE event[e]]
  /\ Done(q)
  /\ UNCHANGED <<world, series, answer, comment, absence, lock>>

-----------------------------------------------------------------------------
(* Deleting: the series is looked up before the transaction begins *)

LookedUp(r, s) == [r EXCEPT !.scope = "looked up", !.series = s]

LookUpSeries(q) ==
  /\ Doing(q, "delete") /\ req[q].scope = "series"
  /\ LET r == req[q] IN
     req' = [req EXCEPT ![q] =
              LookedUp(r, IF OwnedBy(r.event, r.team) THEN event[r.event].series ELSE Null)]
  /\ UNCHANGED <<world, tables, lock>>

\* Answers and comments go with the event (ON DELETE CASCADE).
Drop(E) ==
  /\ event' = [e \in Events |-> IF e \in E THEN Null ELSE event[e]]
  /\ answer' = [e \in Events |-> IF e \in E THEN [u \in Users |-> Null] ELSE answer[e]]
  /\ comment' = [c \in Comments |-> IF comment[c] # Null /\ comment[c].event \in E THEN Null
                                    ELSE comment[c]]

DeleteSingle(q) ==
  /\ Doing(q, "delete") /\ req[q].scope # "series" /\ req[q].series = Null
  /\ Drop({e \in {req[q].event} : OwnedBy(e, req[q].team)})
  /\ Done(q)
  /\ UNCHANGED <<world, series, absence, lock>>

\* Mutant: the definition row goes whatever is left of the series.
Unreferenced_Always(s, E) == {s}

\* The definition row goes with its last event.
Unreferenced(s, E) == {x \in {s} : OccurrencesOf(x) \subseteq E}

DeleteSeriesRemainder(q) ==
  /\ Doing(q, "delete") /\ req[q].series # Null
  /\ LET r == req[q]
         E == {e \in FromToday(OccurrencesOf(r.series)) \cup ({r.event} \cap Live) :
                 OwnedBy(e, r.team)} IN
     /\ Drop(E)
     /\ series' = series \ Unreferenced(r.series, E)
  /\ Done(q)
  /\ UNCHANGED <<world, absence, lock>>

-----------------------------------------------------------------------------
(* Answers, nominations and comments: one statement each, which repeats the  *)
(* checks on the state it finds                                              *)

\* Mutant: whether the event is on was checked when the request came in.
AnswerAllowed_Admitted(r) ==
  /\ TargetedBy(r.event, r.team)
  /\ ~Closed(event[r.event]) \/ Organizer(r)
  /\ r.user \in members[r.team]
  /\ r.caller = r.user \/ Organizer(r)

AnswerAllowed(r) ==
  /\ TargetedBy(r.event, r.team)
  /\ ~event[r.event].cancelled
  /\ ~Closed(event[r.event]) \/ Organizer(r)
  /\ r.user \in members[r.team]
  /\ r.caller = r.user \/ Organizer(r)

\* The answer the request is about becomes x.
Recorded(r, x) == [answer EXCEPT ![r.event] = [@ EXCEPT ![r.user] = x]]

SetAttendance(q) ==
  /\ Doing(q, "answer")
  /\ answer' = IF AnswerAllowed(req[q])
               THEN Recorded(req[q], req[q].status) ELSE answer
  /\ Done(q)
  /\ UNCHANGED <<world, event, series, comment, absence, lock>>

Denominate(q) ==
  /\ Doing(q, "nominate") /\ ~req[q].nominated
  /\ LET r == req[q] IN
     answer' = IF TargetedBy(r.event, r.team) /\ r.user \in members[r.team] /\ Organizer(r)
               THEN Recorded(r, "not_nominated") ELSE answer
  /\ Done(q)
  /\ UNCHANGED <<world, event, series, comment, absence, lock>>

\* The row goes, so that the default applies again.
Nominate(q) ==
  /\ Doing(q, "nominate") /\ req[q].nominated
  /\ LET r == req[q] IN
     answer' = IF TargetedBy(r.event, r.team) /\ Organizer(r)
                  /\ answer[r.event][r.user] = "not_nominated"
               THEN Recorded(r, Null) ELSE answer
  /\ Done(q)
  /\ UNCHANGED <<world, event, series, comment, absence, lock>>

AddComment(q) ==
  /\ Doing(q, "comment")
  /\ IF TargetedBy(req[q].event, req[q].team) /\ Member(req[q])
     THEN \E c \in Comments :
            /\ comment[c] = Null
            /\ comment' = [comment EXCEPT ![c] = [event |-> req[q].event, user |-> req[q].caller]]
     ELSE comment' = comment
  /\ Done(q)
  /\ UNCHANGED <<world, event, series, answer, absence, lock>>

\* Only one's own, through a team that sees the event.
DeleteComment(u, t, c) ==
  /\ u \in members[t]
  /\ comment[c] # Null /\ comment[c].user = u /\ TargetedBy(comment[c].event, t)
  /\ comment' = [comment EXCEPT ![c] = Null]
  /\ UNCHANGED <<world, event, series, answer, absence, lock, req>>

-----------------------------------------------------------------------------
(* Absences: the overlap check and the write hold the team's lock *)

Staged(r, stage) == [r EXCEPT !.stage = stage]

\* Mutant: the lock is not waited for.
LockTeam_Free(q) ==
  /\ Doing(q, "absence") /\ req[q].stage = "admitted"
  /\ lock' = [lock EXCEPT ![req[q].team] = q]
  /\ req' = [req EXCEPT ![q] = Staged(@, "locked")]
  /\ UNCHANGED <<world, tables>>

LockTeam(q) ==
  /\ Doing(q, "absence") /\ req[q].stage = "admitted"
  /\ lock[req[q].team] = Null
  /\ lock' = [lock EXCEPT ![req[q].team] = q]
  /\ req' = [req EXCEPT ![q] = Staged(@, "locked")]
  /\ UNCHANGED <<world, tables>>

Unlock(q) == lock' = [t \in Teams |-> IF lock[t] = q THEN Null ELSE lock[t]]
Mine(r, a) == absence[a] # Null /\ absence[a].team = r.team /\ absence[a].user = r.caller

\* The range that results from a partial change.
ResolveFinalRange(r) ==
  IF r.absence = Null THEN [from |-> r.from, to |-> r.to]
  ELSE [from |-> IF r.from = Null THEN absence[r.absence].from ELSE r.from,
        to |-> IF r.to = Null THEN absence[r.absence].to ELSE r.to]

Overlapping(r, range) ==
  \E a \in Absences : Mine(r, a) /\ a # r.absence
                      /\ absence[a].from <= range.to /\ absence[a].to >= range.from

\* Nothing to change, or an overlap: the transaction ends here.
CheckOverlap(q) ==
  /\ Doing(q, "absence") /\ req[q].stage = "locked"
  /\ LET r == req[q] IN
     IF (r.absence # Null => Mine(r, r.absence)) /\ ~Overlapping(r, ResolveFinalRange(r))
     THEN req' = [req EXCEPT ![q] = Staged(@, "checked")] /\ lock' = lock
     ELSE Done(q) /\ Unlock(q)
  /\ UNCHANGED <<world, tables>>

RangeAllowed(range) == range.to >= range.from /\ range.to <= range.from + MaxSpan

InsertAbsence(q) ==
  /\ Doing(q, "absence") /\ req[q].stage = "checked" /\ req[q].absence = Null
  /\ LET r == req[q] IN
     IF Member(r) /\ RangeAllowed(ResolveFinalRange(r))
     THEN \E a \in Absences :
            /\ absence[a] = Null
            /\ absence' = [absence EXCEPT ![a] =
                 [team |-> r.team, user |-> r.caller, from |-> r.from, to |-> r.to,
                  irrelevant |-> FALSE]]
     ELSE absence' = absence
  /\ Done(q) /\ Unlock(q)
  /\ UNCHANGED <<world, event, series, answer, comment>>

Moved(v, range) == [v EXCEPT !.from = range.from, !.to = range.to]

\* The row may have been deleted since the check.
MoveAbsence(q) ==
  /\ Doing(q, "absence") /\ req[q].stage = "checked" /\ req[q].absence # Null
  /\ LET r == req[q] IN
     absence' = IF Member(r) /\ Mine(r, r.absence) /\ RangeAllowed(ResolveFinalRange(r))
                THEN [absence EXCEPT ![r.absence] = Moved(@, ResolveFinalRange(r))]
                ELSE absence
  /\ Done(q) /\ Unlock(q)
  /\ UNCHANGED <<world, event, series, answer, comment>>

\* One statement, without the lock.
DeleteAbsence(u, t, a) ==
  /\ u \in members[t]
  /\ absence[a] # Null /\ absence[a].team = t /\ absence[a].user = u
  /\ absence' = [absence EXCEPT ![a] = Null]
  /\ UNCHANGED <<world, event, series, answer, comment, lock, req>>

Judged(v, irrelevant) == [v EXCEPT !.irrelevant = irrelevant]

SetStatsRelevance(q) ==
  /\ Doing(q, "relevance")
  /\ LET r == req[q] IN
     absence' = IF absence[r.absence] # Null /\ absence[r.absence].team = r.team
                THEN [absence EXCEPT ![r.absence] = Judged(@, r.irrelevant)] ELSE absence
  /\ Done(q)
  /\ UNCHANGED <<world, event, series, answer, comment, lock>>

-----------------------------------------------------------------------------
(* What happens around the requests *)

Tick ==
  /\ clock' = clock + 1
  /\ UNCHANGED <<members, writers, uncounted, tables, lock, req>>

\* Joining a team (an invite accepted) and a change of roles.
Join(t, u) ==
  /\ u \notin members[t]
  /\ members' = [members EXCEPT ![t] = @ \cup {u}]
  /\ UNCHANGED <<clock, writers, uncounted, tables, lock, req>>

SetRoles(t, u) ==
  /\ u \in members[t]
  /\ lock[t] = Null
  /\ writers' = [writers EXCEPT ![t] = IF u \in @ THEN @ \ {u} ELSE @ \cup {u}]
  /\ UNCHANGED <<clock, members, uncounted, tables, lock, req>>

\* A member's profile: the flag that leaves them out of the statistics.
SetExclusion(t, u) ==
  /\ u \in members[t]
  /\ uncounted' = [uncounted EXCEPT ![t] = IF u \in @ THEN @ \ {u} ELSE @ \cup {u}]
  /\ UNCHANGED <<clock, members, writers, tables, lock, req>>

\* A member removed: answers, comments and absences stay as history.
RemoveMember(t, u) ==
  /\ u \in members[t]
  /\ lock[t] = Null
  /\ members' = [members EXCEPT ![t] = @ \ {u}]
  /\ writers' = [writers EXCEPT ![t] = @ \ {u}]
  /\ uncounted' = [uncounted EXCEPT ![t] = @ \ {u}]
  /\ UNCHANGED <<clock, tables, lock, req>>

-----------------------------------------------------------------------------
(* The specification, action by action and grouped by what is written       *)

Init ==
  /\ clock = 0
  /\ event = [e \in Events |-> Null]
  /\ series = {}
  /\ members \in [Teams -> SUBSET Users]
  /\ writers \in [Teams -> SUBSET Users] /\ \A t \in Teams : writers[t] \subseteq members[t]
  /\ answer = [e \in Events |-> [u \in Users |-> Null]]
  /\ comment = [c \in Comments |-> Null]
  /\ absence = [a \in Absences |-> Null]
  /\ uncounted = [t \in Teams |-> {}]
  /\ lock = [t \in Teams |-> Null]
  /\ req = [q \in Requests |-> Null]

\* The requests that may arrive, and what each kind of them can do.
Scopes == {"single", "series"}
CreateCalls == [op: {"create"}, caller: Users, team: Teams, body: Creations]
UpdateCalls == [op: {"update"}, caller: Users, team: Teams, event: Events, scope: Scopes,
                patch: Patches]
StatusCalls == [op: {"status"}, caller: Users, team: Teams, event: Events, scope: Scopes,
                cancelled: BOOLEAN]
DeleteCalls == [op: {"delete"}, caller: Users, team: Teams, event: Events, scope: Scopes,
                series: {Null}]
AnswerCalls == [op: {"answer"}, caller: Users, team: Teams, event: Events, user: Users,
                status: Statuses]
NominateCalls == [op: {"nominate"}, caller: Users, team: Teams, event: Events, user: Users,
                  nominated: BOOLEAN]
CommentCalls == [op: {"comment"}, caller: Users, team: Teams, event: Events]
AbsenceCalls ==
  {r \in [op: {"absence"}, stage: {"admitted"}, caller: Users, team: Teams, absence: {Null},
          from: Days, to: Days] : r.to >= r.from /\ r.to <= r.from + MaxSpan}
MoveCalls ==
  {r \in [op: {"absence"}, stage: {"admitted"}, caller: Users, team: Teams, absence: Absences,
          from: Days \cup {Null}, to: Days \cup {Null}] :
     r.from # Null /\ r.to # Null => r.to >= r.from /\ r.to <= r.from + MaxSpan}
RelevanceCalls == [op: {"relevance"}, caller: Users, team: Teams, absence: Absences,
                   irrelevant: BOOLEAN]

CreateNext(C) ==
  \E q \in Requests :
    (\E r \in C : AdmitCreate(q, r)) \/ CreateEvent(q) \/ CreateSeries(q)

UpdateNext(C) ==
  \E q \in Requests : (\E r \in C : AdmitUpdate(q, r)) \/ UpdateEvent(q)

StatusNext(C) ==
  \E q \in Requests : (\E r \in C : AdmitOrganizer(q, r)) \/ SetStatus(q)

DeleteNext(C) ==
  \E q \in Requests :
    \/ \E r \in C : AdmitOrganizer(q, r)
    \/ LookUpSeries(q) \/ DeleteSingle(q) \/ DeleteSeriesRemainder(q)

AnswerNext(C) ==
  \E q \in Requests : (\E r \in C : AdmitAnswer(q, r)) \/ SetAttendance(q)

NominateNext(C) ==
  \E q \in Requests :
    (\E r \in C : AdmitNomination(q, r)) \/ Denominate(q) \/ Nominate(q)

CommentNext(C) ==
  \/ \E q \in Requests : (\E r \in C : AdmitComment(q, r)) \/ AddComment(q)
  \/ \E u \in Users, t \in Teams, c \in Comments : DeleteComment(u, t, c)

AbsenceNext(C) ==
  \/ \E q \in Requests :
       \/ \E r \in C : AdmitAbsence(q, r)
       \/ LockTeam(q) \/ CheckOverlap(q) \/ InsertAbsence(q) \/ MoveAbsence(q)
  \/ \E u \in Users, t \in Teams, a \in Absences : DeleteAbsence(u, t, a)

RelevanceNext(C) ==
  \E q \in Requests : (\E r \in C : AdmitRelevance(q, r)) \/ SetStatsRelevance(q)

MemberNext ==
  \E t \in Teams, u \in Users : 
    Join(t, u) \/ SetRoles(t, u) \/ SetExclusion(t, u) \/ RemoveMember(t, u)

Next ==
  \/ CreateNext(CreateCalls) \/ UpdateNext(UpdateCalls) \/ StatusNext(StatusCalls)
  \/ DeleteNext(DeleteCalls) \/ AnswerNext(AnswerCalls) \/ NominateNext(NominateCalls)
  \/ CommentNext(CommentCalls) \/ AbsenceNext(AbsenceCalls \cup MoveCalls)
  \/ RelevanceNext(RelevanceCalls) \/ MemberNext \/ Tick

Spec == Init /\ [][Next]_vars

-----------------------------------------------------------------------------
(* Properties *)

\* An event that says it belongs to a series finds the series' definition, and
\* all occurrences of a series are owned by one team: deleting the rest of a
\* series never detaches the occurrences it keeps, whatever was deleted meanwhile.
\* And however the targets are changed, for one occurrence or for the series, the
\* owning team still sees it.
SeriesIntact ==
  \A e \in Live :
    /\ event[e].series # Null =>
         /\ event[e].series \in series
         /\ \A f \in OccurrencesOf(event[e].series) : event[f].owner = event[e].owner
    /\ event[e].owner \in event[e].targets

\* What a series-wide change may not rewrite.
Described(v) == [f \in {"date", "last", "cancelled", "optOut", "lead"} |-> v[f]]

\* No step changes or deletes more than one occurrence that is already past: a
\* change to "the rest of the series" reaches, of the past, at most the occurrence
\* it was asked for.
PastKept ==
  [][\A e, f \in Live :
       /\ e # f
       /\ event[e].date < Today /\ event[f].date < Today
       /\ event'[e] = Null \/ Described(event'[e]) # Described(event[e])
       => event'[f] # Null /\ Described(event'[f]) = Described(event[f])]_vars

\* An answer is recorded only if the event is still on, for someone who is still
\* in a team that sees it, and after the deadline only while an organizer of such
\* a team exists: a cancellation, a deadline, a removal or a demotion between the
\* request's checks and its write is not overlooked.
AnswersInTime ==
  [][\A e \in Live, u \in Users :
       answer'[e][u] # answer[e][u] /\ answer'[e][u] \in Replies =>
         /\ ~event[e].cancelled
         /\ \E t \in event[e].targets :
              /\ u \in members[t]
              /\ Closed(event[e]) => writers[t] # {}]_vars

\* The absences a member has recorded in a team never overlap, however the
\* requests that create and move them interleave.
AbsencesDisjoint ==
  \A a, b \in Absences :
    /\ a # b /\ absence[a] # Null /\ absence[b] # Null
    /\ absence[a].team = absence[b].team /\ absence[a].user = absence[b].user
    => absence[a].to < absence[b].from \/ absence[b].to < absence[a].from

=============================================================================
