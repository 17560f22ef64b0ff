----------------------------- MODULE EventsProofs -----------------------------
(* What requests about events, answers and absences cannot break, however      *)
(* they interleave between their checks and their writes.                      *)
EXTENDS EventViews, SumsProofs

\* Requests as they stand between two of their steps.
Deletions == [op: {"delete"}, caller: Users, team: Teams, event: Events,
              scope: Scopes \cup {"looked up"}, series: Series \cup {Null}]
AbsenceWrites ==
  {r \in [op: {"absence"}, stage: {"admitted", "locked", "checked"}, caller: Users,
          team: Teams, absence: Absences \cup {Null}, from: Days \cup {Null},
          to: Days \cup {Null}] : r.absence = Null => r.from # Null /\ r.to # Null}
Calls == CreateCalls \cup UpdateCalls \cup StatusCalls \cup Deletions \cup AnswerCalls
           \cup NominateCalls \cup CommentCalls \cup AbsenceWrites \cup RelevanceCalls

EventsTypeOK ==
  /\ clock \in Nat
  /\ event \in [Events -> EventRows \cup {Null}]
  /\ answer \in [Events -> [Users -> Statuses \cup {Null}]]
  /\ absence \in [Absences -> AbsenceRows \cup {Null}]
  /\ lock \in [Teams -> Requests \cup {Null}]
  /\ req \in [Requests -> Calls \cup {Null}]
RostersTypeOK ==
  /\ series \subseteq Series
  /\ members \in [Teams -> SUBSET Users]
  /\ writers \in [Teams -> SUBSET Users]
  /\ uncounted \in [Teams -> SUBSET Users]
  /\ comment \in [Comments -> [event: Events, user: Users] \cup {Null}]

-----------------------------------------------------------------------------
(* Types.                                                                      *)

LEMMA CallOf ==
  ASSUME NEW r \in Calls
  PROVE  /\ r.op = "create" => r \in CreateCalls
         /\ r.op = "update" => r \in UpdateCalls
         /\ r.op = "status" => r \in StatusCalls
         /\ r.op = "delete" => r \in Deletions
         /\ r.op = "answer" => r \in AnswerCalls
         /\ r.op = "nominate" => r \in NominateCalls
         /\ r.op = "comment" => r \in CommentCalls
         /\ r.op = "absence" => r \in AbsenceWrites
         /\ r.op = "relevance" => r \in RelevanceCalls
  BY DEF Calls, CreateCalls, UpdateCalls, StatusCalls, Deletions, AnswerCalls,
         NominateCalls, CommentCalls, AbsenceWrites, RelevanceCalls

LEMMA CallsComing ==
  /\ DeleteCalls \subseteq Deletions
  /\ AbsenceCalls \cup MoveCalls \subseteq AbsenceWrites
  BY NullAssumption DEF DeleteCalls, Deletions, AbsenceCalls, MoveCalls, AbsenceWrites

LEMMA DoingCall ==
  ASSUME EventsTypeOK, NEW q \in Requests, NEW op, Doing(q, op)
  PROVE  /\ req[q] \in Calls /\ req[q].op = op
         /\ op = "create" => req[q] \in CreateCalls
         /\ op = "update" => req[q] \in UpdateCalls
         /\ op = "status" => req[q] \in StatusCalls
         /\ op = "delete" => req[q] \in Deletions
         /\ op = "answer" => req[q] \in AnswerCalls
         /\ op = "nominate" => req[q] \in NominateCalls
         /\ op = "comment" => req[q] \in CommentCalls
         /\ op = "absence" => req[q] \in AbsenceWrites
         /\ op = "relevance" => req[q] \in RelevanceCalls
<1>1. req[q] \in Calls /\ req[q].op = op
  BY DEF EventsTypeOK, Doing
<1> QED
  BY <1>1, CallOf

LEMMA PatchedTyped ==
  ASSUME NEW v \in EventRows, NEW p, NEW S, DOMAIN p \subseteq Fields,
         \A f \in DOMAIN p : p[f] \in Values[f],
         S \subseteq Fields \ {"targets"}
  PROVE  /\ Patched(v, Only(p, S)) \in EventRows
         /\ Patched(v, Only(p, S)).owner = v.owner
         /\ Patched(v, Only(p, S)).series = v.series
         /\ Patched(v, Only(p, S)).targets = v.targets
         /\ \A f \in {"date", "last", "cancelled", "optOut", "lead"} \ S :
              Patched(v, Only(p, S))[f] = v[f]
<1> DEFINE o == Only(p, S)
           w == Patched(v, o)
<1>1. DOMAIN o \subseteq S /\ \A f \in DOMAIN o : f \in DOMAIN p /\ o[f] \in Values[f]
  BY DEF Only
<1>2. DOMAIN v = {"owner", "targets", "series", "date", "last", "cancelled", "optOut", "lead",
                  "excluded"}
  BY DEF EventRows
<1> HIDE DEF o
<1>3. w = [f \in DOMAIN v |-> IF f \in DOMAIN o THEN o[f] ELSE v[f]]
  BY DEF Patched
<1> HIDE DEF w
<1>4. /\ "owner" \notin DOMAIN o /\ "series" \notin DOMAIN o /\ "targets" \notin DOMAIN o
      /\ "cancelled" \notin DOMAIN o /\ "optOut" \notin DOMAIN o
  BY <1>1 DEF Fields
<1>5. /\ w.owner = v.owner /\ w.series = v.series /\ w.targets = v.targets
      /\ w.cancelled = v.cancelled /\ w.optOut = v.optOut
  BY <1>2, <1>3, <1>4
<1>6. \A f \in {"date", "last", "lead", "excluded"} :
        w[f] = IF f \in DOMAIN o THEN o[f] ELSE v[f]
  BY <1>2, <1>3
<1>7. /\ w.date \in Days /\ w.last \in Days \cup {Null} /\ w.lead \in Leads \cup {Null}
      /\ w.excluded \in BOOLEAN
  BY <1>1, <1>6 DEF EventRows, Values
<1>8. w \in EventRows
  BY <1>2, <1>3, <1>5, <1>7 DEF EventRows
<1> QED
  BY <1>1, <1>5, <1>6, <1>8 DEF w, o

\* A change leaves an event its owner and its series, and the owner among its targets.
SameOwner(v, w) == w.owner = v.owner /\ w.series = v.series
KeepsOwner(v, w) == SameOwner(v, w) /\ (v.owner \in v.targets => w.owner \in w.targets)

LEMMA RetargetedTyped ==
  ASSUME NEW v \in EventRows, NEW t \in Teams, NEW p \in Patches
  PROVE  /\ Retargeted(v, t, p) \in EventRows
         /\ SameOwner(v, Retargeted(v, t, p))
         /\ t = v.owner => KeepsOwner(v, Retargeted(v, t, p))
         /\ Described(Retargeted(v, t, p)) = Described(v)
<1>1. CASE "targets" \in DOMAIN p
  <2> DEFINE T == DedupTeamIds(t, p.targets)
             w == [v EXCEPT !.targets = T]
  <2>1. Retargeted(v, t, p) = w
    BY <1>1 DEF Retargeted
  <2>2. p.targets \subseteq Teams
    BY <1>1, BodiesAssumption DEF Values
  <2>3. T \subseteq Teams /\ t \in T
    BY <2>2 DEF DedupTeamIds
  <2> HIDE DEF T
  <2>4. /\ w \in EventRows /\ w.owner = v.owner /\ w.series = v.series /\ w.targets = T
        /\ w.date = v.date /\ w.last = v.last /\ w.cancelled = v.cancelled
        /\ w.optOut = v.optOut /\ w.lead = v.lead
    BY <2>3 DEF EventRows
  <2> HIDE DEF w
  <2>5. \A f \in {"date", "last", "cancelled", "optOut", "lead"} : w[f] = v[f]
    BY <2>4
  <2>6. Described(w) = Described(v)
    BY <2>5 DEF Described
  <2> QED
    BY <2>1, <2>3, <2>4, <2>6 DEF KeepsOwner, SameOwner
<1>2. CASE "targets" \notin DOMAIN p
  BY <1>2 DEF Retargeted, KeepsOwner, SameOwner
<1> QED
  BY <1>1, <1>2

LEMMA EventPatchedTyped ==
  ASSUME NEW v \in EventRows, NEW t \in Teams, NEW p \in Patches
  PROVE  /\ EventPatched(v, t, p) \in EventRows
         /\ SameOwner(v, EventPatched(v, t, p))
         /\ t = v.owner => KeepsOwner(v, EventPatched(v, t, p))
<1> DEFINE w == Patched(v, Only(p, Fields \ {"targets"}))
<1>1. w \in EventRows /\ w.owner = v.owner /\ w.series = v.series /\ w.targets = v.targets
  BY BodiesAssumption, PatchedTyped
<1> HIDE DEF w
<1>2. EventPatched(v, t, p) = Retargeted(w, t, p)
  BY DEF EventPatched, w
<1> QED
  BY <1>1, <1>2, RetargetedTyped DEF KeepsOwner, SameOwner

\* Of the past, a change to the series leaves what describes an occurrence.
LEMMA SeriesPatchedTyped ==
  ASSUME NEW v \in EventRows, NEW t \in Teams, NEW p \in Patches
  PROVE  /\ SeriesPatched(v, t, p) \in EventRows
         /\ SameOwner(v, SeriesPatched(v, t, p))
         /\ t = v.owner => KeepsOwner(v, SeriesPatched(v, t, p))
         /\ ~(v.date >= Today) => Described(SeriesPatched(v, t, p)) = Described(v)
<1> DEFINE fields == IF v.date >= Today THEN {"lead", "excluded"} ELSE {"excluded"}
           w == Patched(v, Only(p, fields))
<1>1. fields \subseteq Fields \ {"targets"} /\ (~(v.date >= Today) => fields = {"excluded"})
  BY DEF Fields
<1> HIDE DEF fields
<1>2. /\ w \in EventRows /\ w.owner = v.owner /\ w.series = v.series /\ w.targets = v.targets
      /\ \A f \in {"date", "last", "cancelled", "optOut", "lead"} \ fields : w[f] = v[f]
  BY <1>1, BodiesAssumption, PatchedTyped
<1>3. SeriesPatched(v, t, p) = Retargeted(w, t, p)
  BY DEF SeriesPatched, fields
<1> HIDE DEF w
<1>4. ~(v.date >= Today) => Described(w) = Described(v)
  BY <1>1, <1>2 DEF Described
<1> QED
  BY <1>2, <1>3, <1>4, RetargetedTyped DEF KeepsOwner, SameOwner

\* What an update makes of the events.
LEMMA UpdatedTyped ==
  ASSUME EventsTypeOK, NEW r \in UpdateCalls, OwnedBy(r.event, r.team)
  PROVE  /\ UpdatedEvents(r) \in [Events -> EventRows \cup {Null}]
         /\ \A e \in Events :
              /\ event[e] = Null => UpdatedEvents(r)[e] = Null
              /\ event[e] # Null => SameOwner(event[e], UpdatedEvents(r)[e])
              /\ e \notin SeriesScope(r) \cup {r.event} => UpdatedEvents(r)[e] = event[e]
              /\ e \in SeriesScope(r) \ {r.event} =>
                   UpdatedEvents(r)[e] = SeriesPatched(event[e], r.team, r.patch)
              /\ e = r.event => UpdatedEvents(r)[e] = EventPatched(event[e], r.team, r.patch)
<1>1. r.event \in Events /\ r.team \in Teams /\ r.patch \in Patches
  BY DEF UpdateCalls
<1>2. SeriesScope(r) \subseteq Live \ {r.event} /\ r.event \in Live /\ Live \subseteq Events
  BY <1>1 DEF SeriesScope, OccurrencesOf, OwnedBy, Live
<1>3. \A e \in Events :
        /\ e = r.event => Updated(r, e) = EventPatched(event[e], r.team, r.patch)
        /\ e \in SeriesScope(r) \ {r.event} =>
             Updated(r, e) = SeriesPatched(event[e], r.team, r.patch)
        /\ e \notin SeriesScope(r) \cup {r.event} => Updated(r, e) = event[e]
  BY DEF Updated
<1>4. \A e \in Live : event[e] \in EventRows
  BY DEF Live, EventsTypeOK
<1>5. \A e \in Events : Updated(r, e) \in EventRows \cup {Null}
  BY <1>1, <1>2, <1>3, <1>4, EventPatchedTyped, SeriesPatchedTyped DEF EventsTypeOK
<1>6. \A e \in Events : UpdatedEvents(r)[e] = Updated(r, e)
  BY DEF UpdatedEvents
<1>7. UpdatedEvents(r) \in [Events -> EventRows \cup {Null}]
  BY <1>5 DEF UpdatedEvents
<1>8. \A e \in Events : event[e] = Null => e \notin Live
  BY DEF Live
<1>9. \A e \in Events : event[e] # Null => SameOwner(event[e], UpdatedEvents(r)[e])
  BY <1>1, <1>3, <1>4, <1>6, EventPatchedTyped, SeriesPatchedTyped DEF Live, SameOwner
<1> QED
  BY <1>2, <1>3, <1>6, <1>7, <1>8, <1>9

LEMMA SwitchedTyped ==
  ASSUME NEW v \in EventRows, NEW c \in BOOLEAN
  PROVE  Switched(v, c) \in EventRows /\ SameOwner(v, Switched(v, c))
         /\ Switched(v, c).targets = v.targets
  BY DEF Switched, EventRows, SameOwner

LEMMA NewEventTyped ==
  ASSUME NEW t \in Teams, NEW b \in Creations, NEW s \in Series \cup {Null}, NEW d \in Days
  PROVE  /\ NewEvent(t, b, s, d) \in EventRows
         /\ NewEvent(t, b, s, d).owner = t /\ NewEvent(t, b, s, d).series = s
         /\ t \in NewEvent(t, b, s, d).targets
<1>1. b \in Bodies
  BY BodiesAssumption
<1> QED
  BY <1>1 DEF NewEvent, EventRows, Bodies, DedupTeamIds

-----------------------------------------------------------------------------
(* Events and their series.                                                    *)

\* What is changed or deleted, but neither created nor moved, stays intact.
LEMMA SeriesStays ==
  ASSUME SeriesIntact,
         \A e \in Events : event'[e] # Null =>
           /\ event[e] # Null /\ KeepsOwner(event[e], event'[e])
           /\ event[e].series # Null => event[e].series \in series \cap series'
              \/ event[e].series \notin series
  PROVE  SeriesIntact'
<1>1. \A e \in Live : /\ event[e].series # Null => event[e].series \in series
                      /\ event[e].owner \in event[e].targets
  BY DEF SeriesIntact
<1>2. \A e \in Live' : /\ e \in Live /\ event'[e].series = event[e].series
                       /\ event'[e].owner = event[e].owner
                       /\ event'[e].owner \in event'[e].targets
                       /\ event'[e].series # Null => event'[e].series \in series'
  BY <1>1 DEF Live, KeepsOwner, SameOwner
<1>3. \A e, f \in Live' : event'[e].series # Null /\ event'[f].series = event'[e].series =>
        event'[f].owner = event'[e].owner
  BY <1>2 DEF SeriesIntact, OccurrencesOf
<1> QED
  BY <1>2, <1>3 DEF SeriesIntact, OccurrencesOf

LEMMA CreateEventKeeps ==
  ASSUME EventsTypeOK, SeriesIntact, NEW q \in Requests, CreateEvent(q)
  PROVE  event' \in [Events -> EventRows \cup {Null}] /\ SeriesIntact'
<1> DEFINE r == req[q]
           v == NewEvent(r.team, r.body, Null, r.body.date)
<1>1. r \in CreateCalls
  BY DoingCall DEF CreateEvent
<1>2. r.team \in Teams /\ r.body \in Creations /\ r.body.date \in Days
  BY <1>1, BodiesAssumption DEF CreateCalls, Bodies
<1>3. v \in EventRows /\ v.owner = r.team /\ v.series = Null /\ r.team \in v.targets
  <2> DEFINE t == r.team
             b == r.body
             d == b.date
  <2>1. t \in Teams /\ b \in Creations /\ d \in Days /\ Null \in Series \cup {Null}
    BY <1>2
  <2> HIDE DEF t, b, d
  <2>2. /\ NewEvent(t, b, Null, d) \in EventRows
        /\ NewEvent(t, b, Null, d).owner = t /\ NewEvent(t, b, Null, d).series = Null
        /\ t \in NewEvent(t, b, Null, d).targets
    BY <2>1, NewEventTyped
  <2> QED
    BY <2>2 DEF t, b, d
<1>4. PICK e \in Events : Fresh(e) /\ event' = [event EXCEPT ![e] = v]
  BY DEF CreateEvent
<1> HIDE DEF v
<1>5. event' \in [Events -> EventRows \cup {Null}]
  BY <1>3, <1>4 DEF EventsTypeOK
<1>6. /\ event'[e] = v /\ event[e] = Null
      /\ \A f \in Events : f # e => event'[f] = event[f]
  BY <1>4 DEF EventsTypeOK, Fresh
<1>7. UNCHANGED series
  BY DEF CreateEvent
<1>8. \A f \in Live' : f = e \/ (f \in Live /\ event'[f] = event[f])
  BY <1>6 DEF Live
<1>9. \A f \in Live' : /\ event'[f].series # Null => event'[f].series \in series'
                       /\ event'[f].owner \in event'[f].targets
  BY <1>3, <1>6, <1>7, <1>8 DEF SeriesIntact
<1>10. \A f, g \in Live' : event'[f].series # Null /\ event'[g].series = event'[f].series =>
         event'[g].owner = event'[f].owner
  <2>1. \A f \in Live' : event'[f].series # Null => f \in Live /\ event'[f] = event[f]
    BY <1>3, <1>6, <1>8
  <2> QED
    BY <2>1 DEF SeriesIntact, OccurrencesOf
<1>11. SeriesIntact'
  BY <1>9, <1>10 DEF SeriesIntact, OccurrencesOf
<1> QED
  BY <1>5, <1>11

LEMMA CreateSeriesKeeps ==
  ASSUME EventsTypeOK, SeriesIntact, NEW q \in Requests, CreateSeries(q)
  PROVE  event' \in [Events -> EventRows \cup {Null}] /\ SeriesIntact'
<1> DEFINE r == req[q]
           dates == SeriesDates(r.body.date, r.body.weeks, r.body.end)
<1>1. r \in CreateCalls
  BY DoingCall DEF CreateSeries
<1>2. r.team \in Teams /\ r.body \in Creations
  BY <1>1 DEF CreateCalls
<1>3. dates \subseteq Days
  BY DEF SeriesDates
<1> HIDE DEF dates
<1>4. PICK s \in Series \ series, E \in SUBSET {e \in Events : Fresh(e)} :
        /\ \E day \in [E -> dates] :
             event' = [e \in Events |-> IF e \in E THEN NewEvent(r.team, r.body, s, day[e])
                                        ELSE event[e]]
        /\ series' = series \cup {s}
  BY DEF CreateSeries, dates
<1>5. PICK day \in [E -> dates] :
        event' = [e \in Events |-> IF e \in E THEN NewEvent(r.team, r.body, s, day[e])
                                   ELSE event[e]]
  BY <1>4
<1>6. \A e \in E : /\ event'[e] = NewEvent(r.team, r.body, s, day[e])
                   /\ day[e] \in Days /\ event[e] = Null
  BY <1>3, <1>5 DEF Fresh
<1>7. \A e \in E : /\ event'[e] \in EventRows /\ event'[e].owner = r.team
                   /\ event'[e].series = s /\ r.team \in event'[e].targets
  BY <1>2, <1>6, NewEventTyped
<1>8. \A e \in Events \ E : event'[e] = event[e]
  BY <1>5
<1>9. event' \in [Events -> EventRows \cup {Null}]
  <2>1. \A e \in Events : event'[e] \in EventRows \cup {Null}
    BY <1>7, <1>8 DEF EventsTypeOK
  <2> QED
    BY <1>5, <2>1
<1>10. \A f \in Live' : f \in E \/ (f \in Live /\ event'[f] = event[f])
  <2> SUFFICES ASSUME NEW f \in Live', f \notin E PROVE f \in Live /\ event'[f] = event[f]
    OBVIOUS
  <2>1. f \in Events /\ event'[f] # Null
    BY DEF Live
  <2>2. event'[f] = event[f]
    BY <1>8, <2>1
  <2> QED
    BY <2>1, <2>2 DEF Live
<1>11. \A f \in Live : event[f].series # s
  BY <1>4, NullAssumption DEF SeriesIntact
<1>12. series' = series \cup {s} /\ s # Null
  BY <1>4, NullAssumption
<1>13. \A f \in Live' : /\ event'[f].series # Null => event'[f].series \in series'
                        /\ event'[f].owner \in event'[f].targets
  BY <1>7, <1>10, <1>12 DEF SeriesIntact
<1>14. \A f, g \in Live' : event'[f].series # Null /\ event'[g].series = event'[f].series =>
         event'[g].owner = event'[f].owner
  <2> SUFFICES ASSUME NEW f \in Live', NEW g \in Live', event'[f].series # Null,
                      event'[g].series = event'[f].series
               PROVE  event'[g].owner = event'[f].owner
    OBVIOUS
  <2>1. CASE f \in E
    BY <1>7, <1>10, <1>11, <2>1
  <2>2. CASE f \notin E
    <3>1. f \in Live /\ event'[f] = event[f]
      BY <1>10, <2>2
    <3>2. g \notin E
      BY <1>7, <1>11, <3>1
    <3>3. g \in Live /\ event'[g] = event[g]
      BY <1>10, <3>2
    <3> QED
      BY <3>1, <3>3 DEF SeriesIntact, OccurrencesOf
  <2> QED
    BY <2>1, <2>2
<1>15. SeriesIntact'
  BY <1>13, <1>14 DEF SeriesIntact, OccurrencesOf
<1> QED
  BY <1>9, <1>15

LEMMA UpdateEventKeeps ==
  ASSUME EventsTypeOK, SeriesIntact, NEW q \in Requests, UpdateEvent(q)
  PROVE  event' \in [Events -> EventRows \cup {Null}] /\ SeriesIntact'
<1> DEFINE r == req[q]
<1>1. r \in UpdateCalls /\ UNCHANGED series
  BY DoingCall DEF UpdateEvent
<1>2. CASE OwnedBy(r.event, r.team) /\ event' = UpdatedEvents(r)
  <2>1. r.event \in Events /\ r.team \in Teams /\ r.patch \in Patches
    BY <1>1 DEF UpdateCalls
  <2>2. event' \in [Events -> EventRows \cup {Null}]
    BY <1>1, <1>2, UpdatedTyped
  <2>3. \A e \in Events :
          /\ event'[e] # Null => event[e] # Null
          /\ e \notin SeriesScope(r) \cup {r.event} => event'[e] = event[e]
          /\ e \in SeriesScope(r) \ {r.event} =>
               event'[e] = SeriesPatched(event[e], r.team, r.patch)
          /\ e = r.event => event'[e] = EventPatched(event[e], r.team, r.patch)
    BY <1>1, <1>2, UpdatedTyped
  <2>4. \A e \in SeriesScope(r) \cup {r.event} : e \in Live /\ event[e].owner = r.team
    BY <1>2, <2>1 DEF SeriesScope, SeriesIntact, OwnedBy, Live, OccurrencesOf
  <2>5. \A e \in Events : event'[e] # Null => KeepsOwner(event[e], event'[e])
    <3>1. \A e \in Live : event[e] \in EventRows
      BY DEF Live, EventsTypeOK
    <3>2. \A e \in SeriesScope(r) \ {r.event} : KeepsOwner(event[e], event'[e])
      BY <2>1, <2>3, <2>4, <3>1, SeriesPatchedTyped DEF Live
    <3>3. KeepsOwner(event[r.event], event'[r.event])
      BY <2>1, <2>3, <2>4, <3>1, EventPatchedTyped
    <3>4. \A e \in Events \ (SeriesScope(r) \cup {r.event}) :
            KeepsOwner(event[e], event'[e])
      BY <2>3 DEF KeepsOwner, SameOwner
    <3> QED
      BY <3>2, <3>3, <3>4
  <2>6. SeriesIntact'
    BY <1>1, <2>3, <2>5, SeriesStays
  <2> QED
    BY <2>2, <2>6
<1>3. CASE event' = event
  <2>1. SeriesIntact'
    BY <1>1, <1>3 DEF SeriesIntact, Live, OccurrencesOf
  <2> QED
    BY <1>3, <2>1 DEF EventsTypeOK
<1> QED
  BY <1>2, <1>3 DEF UpdateEvent

LEMMA SetStatusKeeps ==
  ASSUME EventsTypeOK, SeriesIntact, NEW q \in Requests, SetStatus(q)
  PROVE  event' \in [Events -> EventRows \cup {Null}] /\ SeriesIntact'
<1> DEFINE r == req[q]
           s == event[r.event].series
           swept == IF r.scope = "series" /\ s # Null
                    THEN {e \in FromToday(OccurrencesOf(s)) : TargetedBy(e, r.team)} ELSE {}
<1>1. r \in StatusCalls /\ r.event \in Events /\ r.cancelled \in BOOLEAN /\ UNCHANGED series
  BY DoingCall DEF SetStatus, StatusCalls
<1>2. swept \subseteq Live
  BY DEF FromToday, OccurrencesOf
<1>3. event' = IF ~TargetedBy(r.event, r.team) THEN event
               ELSE [e \in Events |-> IF e \in swept \cup {r.event}
                                      THEN Switched(event[e], r.cancelled) ELSE event[e]]
  BY DEF SetStatus
<1> HIDE DEF swept
<1>4. \A e \in Events :
        \/ event'[e] = event[e]
        \/ e \in Live /\ event'[e] = Switched(event[e], r.cancelled)
  BY <1>1, <1>2, <1>3 DEF TargetedBy, Live
<1>5. \A e \in Live : event[e] \in EventRows
  BY DEF Live, EventsTypeOK
<1>6. \A e \in Events : /\ event'[e] \in EventRows \cup {Null}
                        /\ event'[e] # Null => event[e] # Null /\ KeepsOwner(event[e], event'[e])
  BY <1>1, <1>4, <1>5, SwitchedTyped DEF EventsTypeOK, KeepsOwner, SameOwner, Live
<1>7. event' \in [Events -> EventRows \cup {Null}]
  BY <1>3, <1>6 DEF EventsTypeOK
<1>8. SeriesIntact'
  BY <1>1, <1>6, SeriesStays
<1> QED
  BY <1>7, <1>8

LEMMA DropTyped ==
  ASSUME EventsTypeOK, NEW E, Drop(E)
  PROVE  /\ event' \in [Events -> EventRows \cup {Null}]
         /\ answer' \in [Events -> [Users -> Statuses \cup {Null}]]
         /\ \A e \in Events : event'[e] = IF e \in E THEN Null ELSE event[e]
         /\ \A e \in Events, u \in Users :
              answer'[e][u] = IF e \in E THEN Null ELSE answer[e][u]
  BY DEF Drop, EventsTypeOK

LEMMA DeleteSingleKeeps ==
  ASSUME EventsTypeOK, SeriesIntact, NEW q \in Requests, DeleteSingle(q)
  PROVE  SeriesIntact'
<1>1. /\ UNCHANGED series
      /\ \A e \in Events : event'[e] = Null \/ event'[e] = event[e]
  BY DropTyped DEF DeleteSingle
<1> QED
  BY <1>1, SeriesStays DEF KeepsOwner, SameOwner

\* The definition goes only with the last occurrence, whatever the request looked up.
LEMMA DeleteSeriesRemainderKeeps ==
  ASSUME EventsTypeOK, SeriesIntact, NEW q \in Requests, DeleteSeriesRemainder(q)
  PROVE  SeriesIntact'
<1> DEFINE r == req[q]
           E == {e \in FromToday(OccurrencesOf(r.series)) \cup ({r.event} \cap Live) :
                   OwnedBy(e, r.team)}
<1>1. Drop(E) /\ series' = series \ Unreferenced(r.series, E)
  BY DEF DeleteSeriesRemainder
<1> HIDE DEF E
<1>2. \A e \in Events : event'[e] = IF e \in E THEN Null ELSE event[e]
  BY <1>1, DropTyped
<1>3. \A e \in Events : event'[e] # Null /\ event[e].series \in series =>
        event[e].series \in series'
  BY <1>1, <1>2 DEF Unreferenced, OccurrencesOf, Live
<1> QED
  BY <1>2, <1>3, SeriesStays DEF KeepsOwner, SameOwner

-----------------------------------------------------------------------------
(* The steps: a request is admitted, a request takes a step, or something     *)
(* happens around them.                                                       *)

Coming == CreateCalls \cup UpdateCalls \cup StatusCalls \cup DeleteCalls \cup AnswerCalls
            \cup NominateCalls \cup CommentCalls \cup AbsenceCalls \cup MoveCalls
            \cup RelevanceCalls
Admission(q) == (\E r \in Coming : Begin(q, r)) /\ UNCHANGED <<world, tables, lock>>

EventStep(q) ==
  \/ CreateEvent(q) \/ CreateSeries(q) \/ UpdateEvent(q) \/ SetStatus(q)
  \/ DeleteSingle(q) \/ DeleteSeriesRemainder(q)
AnswerStep(q) == SetAttendance(q) \/ Denominate(q) \/ Nominate(q)
AbsenceStep(q) ==
  LockTeam(q) \/ CheckOverlap(q) \/ InsertAbsence(q) \/ MoveAbsence(q) \/ SetStatsRelevance(q)

Around ==
  /\ clock' \in {clock, clock + 1}
  /\ MemberNext \/ UNCHANGED <<members, writers, uncounted>>
  /\ comment' = comment \/ \E c \in Comments : comment' = [comment EXCEPT ![c] = Null]
  /\ UNCHANGED <<event, series, answer, absence, lock, req>>

LEMMA Steps ==
  ASSUME Next
  PROVE  \/ \E q \in Requests : \/ Admission(q) \/ EventStep(q) \/ LookUpSeries(q)
                                \/ AnswerStep(q) \/ AddComment(q) \/ AbsenceStep(q)
         \/ \E u \in Users, t \in Teams, a \in Absences : DeleteAbsence(u, t, a)
         \/ Around
<1>1. CASE CreateNext(CreateCalls)
  <2>1. PICK q \in Requests :
          (\E r \in CreateCalls : AdmitCreate(q, r)) \/ CreateEvent(q) \/ CreateSeries(q)
    BY <1>1 DEF CreateNext
  <2>2. CASE \E r \in CreateCalls : AdmitCreate(q, r)
    <3>1. Admission(q)
      BY <2>2 DEF Admission, Coming, AdmitCreate
    <3> QED
      BY <3>1
  <2> QED
    BY <2>1, <2>2 DEF EventStep
<1>2. CASE UpdateNext(UpdateCalls)
  <2>1. PICK q \in Requests : (\E r \in UpdateCalls : AdmitUpdate(q, r)) \/ UpdateEvent(q)
    BY <1>2 DEF UpdateNext
  <2>2. CASE \E r \in UpdateCalls : AdmitUpdate(q, r)
    <3>1. Admission(q)
      BY <2>2 DEF Admission, Coming, AdmitUpdate
    <3> QED
      BY <3>1
  <2> QED
    BY <2>1, <2>2 DEF EventStep
<1>3. CASE StatusNext(StatusCalls)
  <2>1. PICK q \in Requests : (\E r \in StatusCalls : AdmitOrganizer(q, r)) \/ SetStatus(q)
    BY <1>3 DEF StatusNext
  <2>2. CASE \E r \in StatusCalls : AdmitOrganizer(q, r)
    <3>1. Admission(q)
      BY <2>2 DEF Admission, Coming, AdmitOrganizer
    <3> QED
      BY <3>1
  <2> QED
    BY <2>1, <2>2 DEF EventStep
<1>4. CASE DeleteNext(DeleteCalls)
  <2>1. PICK q \in Requests :
          \/ \E r \in DeleteCalls : AdmitOrganizer(q, r)
          \/ LookUpSeries(q) \/ DeleteSingle(q) \/ DeleteSeriesRemainder(q)
    BY <1>4 DEF DeleteNext
  <2>2. CASE \E r \in DeleteCalls : AdmitOrganizer(q, r)
    <3>1. Admission(q)
      BY <2>2 DEF Admission, Coming, AdmitOrganizer
    <3> QED
      BY <3>1
  <2> QED
    BY <2>1, <2>2 DEF EventStep
<1>5. CASE AnswerNext(AnswerCalls)
  <2>1. PICK q \in Requests : (\E r \in AnswerCalls : AdmitAnswer(q, r)) \/ SetAttendance(q)
    BY <1>5 DEF AnswerNext
  <2>2. CASE \E r \in AnswerCalls : AdmitAnswer(q, r)
    <3>1. Admission(q)
      BY <2>2 DEF Admission, Coming, AdmitAnswer
    <3> QED
      BY <3>1
  <2> QED
    BY <2>1, <2>2 DEF AnswerStep
<1>6. CASE NominateNext(NominateCalls)
  <2>1. PICK q \in Requests :
          (\E r \in NominateCalls : AdmitNomination(q, r)) \/ Denominate(q) \/ Nominate(q)
    BY <1>6 DEF NominateNext
  <2>2. CASE \E r \in NominateCalls : AdmitNomination(q, r)
    <3>1. Admission(q)
      BY <2>2 DEF Admission, Coming, AdmitNomination
    <3> QED
      BY <3>1
  <2> QED
    BY <2>1, <2>2 DEF AnswerStep
<1>7. CASE CommentNext(CommentCalls)
  <2>1. CASE \E q \in Requests : (\E r \in CommentCalls : AdmitComment(q, r)) \/ AddComment(q)
    <3>1. PICK q \in Requests : (\E r \in CommentCalls : AdmitComment(q, r)) \/ AddComment(q)
      BY <2>1
    <3>2. CASE \E r \in CommentCalls : AdmitComment(q, r)
      <4>1. Admission(q)
        BY <3>2 DEF Admission, Coming, AdmitComment
      <4> QED
        BY <4>1
    <3> QED
      BY <3>1, <3>2
  <2>2. CASE \E u \in Users, t \in Teams, c \in Comments : DeleteComment(u, t, c)
    BY <2>2 DEF DeleteComment, Around, world
  <2> QED
    BY <1>7, <2>1, <2>2 DEF CommentNext
<1>8. CASE AbsenceNext(AbsenceCalls \cup MoveCalls)
  <2>1. CASE \E q \in Requests :
               \/ \E r \in AbsenceCalls \cup MoveCalls : AdmitAbsence(q, r)
               \/ LockTeam(q) \/ CheckOverlap(q) \/ InsertAbsence(q) \/ MoveAbsence(q)
    <3>1. PICK q \in Requests :
            \/ \E r \in AbsenceCalls \cup MoveCalls : AdmitAbsence(q, r)
            \/ LockTeam(q) \/ CheckOverlap(q) \/ InsertAbsence(q) \/ MoveAbsence(q)
      BY <2>1
    <3>2. CASE \E r \in AbsenceCalls \cup MoveCalls : AdmitAbsence(q, r)
      <4>1. Admission(q)
        BY <3>2 DEF Admission, Coming, AdmitAbsence
      <4> QED
        BY <4>1
    <3> QED
      BY <3>1, <3>2 DEF AbsenceStep
  <2> QED
    BY <1>8, <2>1 DEF AbsenceNext
<1>9. CASE RelevanceNext(RelevanceCalls)
  <2>1. PICK q \in Requests :
          (\E r \in RelevanceCalls : AdmitRelevance(q, r)) \/ SetStatsRelevance(q)
    BY <1>9 DEF RelevanceNext
  <2>2. CASE \E r \in RelevanceCalls : AdmitRelevance(q, r)
    <3>1. Admission(q)
      BY <2>2 DEF Admission, Coming, AdmitRelevance
    <3> QED
      BY <3>1
  <2> QED
    BY <2>1, <2>2 DEF AbsenceStep
<1>10. CASE MemberNext
  <2>1. PICK t \in Teams, u \in Users :
          Join(t, u) \/ SetRoles(t, u) \/ SetExclusion(t, u) \/ RemoveMember(t, u)
    BY <1>10 DEF MemberNext
  <2>2. Around
    BY <1>10, <2>1 DEF Join, SetRoles, SetExclusion, RemoveMember, Around, tables
  <2> QED
    BY <2>2
<1>11. CASE Tick
  BY <1>11 DEF Tick, Around, tables
<1> QED
  BY <1>1, <1>2, <1>3, <1>4, <1>5, <1>6, <1>7, <1>8, <1>9, <1>10, <1>11 DEF Next

\* How the requests change: one of them, which starts, goes a step on or ends.
Advance(q) ==
  \/ req[q] = Null /\ \E r \in Coming : req' = [req EXCEPT ![q] = r]
  \/ Done(q)
  \/ LookUpSeries(q)
  \/ LockTeam(q)
  \/ CheckOverlap(q)

LEMMA RequestsAdvance ==
  ASSUME Next
  PROVE  UNCHANGED req \/ \E q \in Requests : Advance(q)
<1>1. CASE \E q \in Requests : Admission(q)
  BY <1>1 DEF Admission, Begin, Advance
<1>2. CASE \E q \in Requests : EventStep(q)
  BY <1>2 DEF EventStep, CreateEvent, CreateSeries, UpdateEvent, SetStatus, DeleteSingle,
              DeleteSeriesRemainder, Advance
<1>3. CASE \E q \in Requests : LookUpSeries(q) \/ AddComment(q)
  BY <1>3 DEF AddComment, Advance
<1>4. CASE \E q \in Requests : AnswerStep(q)
  BY <1>4 DEF AnswerStep, SetAttendance, Denominate, Nominate, Advance
<1>5. CASE \E q \in Requests : AbsenceStep(q)
  BY <1>5 DEF AbsenceStep, InsertAbsence, MoveAbsence, SetStatsRelevance, Advance
<1>6. CASE \E u \in Users, t \in Teams, a \in Absences : DeleteAbsence(u, t, a)
  BY <1>6 DEF DeleteAbsence
<1>7. CASE Around
  BY <1>7 DEF Around
<1> QED
  BY <1>1, <1>2, <1>3, <1>4, <1>5, <1>6, <1>7, Steps

LEMMA StagedTyped ==
  ASSUME NEW r \in AbsenceWrites, NEW s \in {"admitted", "locked", "checked"}
  PROVE  /\ Staged(r, s) \in AbsenceWrites
         /\ Staged(r, s).stage = s /\ Staged(r, s).team = r.team
         /\ Staged(r, s).caller = r.caller /\ Staged(r, s).absence = r.absence
         /\ Staged(r, s).from = r.from /\ Staged(r, s).to = r.to
         /\ Staged(r, s).op = "absence"
  BY DEF Staged, AbsenceWrites

LEMMA LookedUpTyped ==
  ASSUME NEW r \in Deletions, NEW s \in Series \cup {Null}
  PROVE  /\ LookedUp(r, s) \in Deletions /\ LookedUp(r, s).op = "delete"
         /\ LookedUp(r, s).event = r.event /\ LookedUp(r, s).team = r.team
  BY DEF LookedUp, Deletions

LEMMA RequestsTyped ==
  ASSUME EventsTypeOK, Next
  PROVE  req' \in [Requests -> Calls \cup {Null}]
<1>1. CASE UNCHANGED req
  BY <1>1 DEF EventsTypeOK
<1>2. ASSUME NEW q \in Requests, Advance(q) PROVE req' \in [Requests -> Calls \cup {Null}]
  <2> USE DEF EventsTypeOK
  <2>1. CASE \E r \in Coming : req' = [req EXCEPT ![q] = r]
    <3>1. Coming \subseteq Calls
      BY CallsComing DEF Coming, Calls
    <3> QED
      BY <2>1, <3>1
  <2>2. CASE Done(q)
    BY <2>2 DEF Done
  <2>3. CASE LookUpSeries(q)
    <3> DEFINE r == req[q]
               s == IF OwnedBy(r.event, r.team) THEN event[r.event].series ELSE Null
    <3>1. r \in Deletions /\ req' = [req EXCEPT ![q] = LookedUp(r, s)]
      BY <2>3, DoingCall DEF LookUpSeries
    <3>2. s \in Series \cup {Null}
      BY <3>1 DEF Deletions, OwnedBy, EventRows
    <3> HIDE DEF r, s
    <3>3. LookedUp(r, s) \in Calls
      BY <3>1, <3>2, LookedUpTyped DEF Calls
    <3> QED
      BY <3>1, <3>3
  <2>4. CASE LockTeam(q)
    <3>1. req[q] \in AbsenceWrites
      BY <2>4, DoingCall DEF LockTeam
    <3>2. Staged(req[q], "locked") \in Calls
      BY <3>1, StagedTyped DEF Calls
    <3> QED
      BY <2>4, <3>2 DEF LockTeam
  <2>5. CASE CheckOverlap(q)
    <3>1. req[q] \in AbsenceWrites
      BY <2>5, DoingCall DEF CheckOverlap
    <3>2. Staged(req[q], "checked") \in Calls
      BY <3>1, StagedTyped DEF Calls
    <3>3. req' = [req EXCEPT ![q] = Staged(@, "checked")] \/ Done(q)
      BY <2>5 DEF CheckOverlap
    <3> QED
      BY <3>2, <3>3 DEF Done
  <2> QED
    BY <1>2, <2>1, <2>2, <2>3, <2>4, <2>5 DEF Advance
<1> QED
  BY <1>1, <1>2, RequestsAdvance

LEMMA EventsTyped ==
  ASSUME EventsTypeOK, SeriesIntact, Next
  PROVE  event' \in [Events -> EventRows \cup {Null}] /\ SeriesIntact'
<1>1. CASE UNCHANGED <<event, series>>
  <2>1. SeriesIntact'
    BY <1>1 DEF SeriesIntact, Live, OccurrencesOf
  <2> QED
    BY <1>1, <2>1 DEF EventsTypeOK
<1>2. CASE \E q \in Requests : EventStep(q)
  <2>1. ASSUME NEW q \in Requests, DeleteSingle(q)
        PROVE  event' \in [Events -> EventRows \cup {Null}]
    BY <2>1, DropTyped DEF DeleteSingle
  <2>2. ASSUME NEW q \in Requests, DeleteSeriesRemainder(q)
        PROVE  event' \in [Events -> EventRows \cup {Null}]
    BY <2>2, DropTyped DEF DeleteSeriesRemainder
  <2> QED
    BY <1>2, <2>1, <2>2, CreateEventKeeps, CreateSeriesKeeps, UpdateEventKeeps,
       SetStatusKeeps, DeleteSingleKeeps, DeleteSeriesRemainderKeeps DEF EventStep
<1>3. (\E q \in Requests : EventStep(q)) \/ UNCHANGED <<event, series>>
  BY Steps DEF Admission, LookUpSeries, AnswerStep, SetAttendance, Denominate, Nominate,
               AddComment, AbsenceStep, LockTeam, CheckOverlap, InsertAbsence, MoveAbsence,
               SetStatsRelevance, DeleteAbsence, Around, tables
<1> QED
  BY <1>1, <1>2, <1>3

LEMMA RecordedTyped ==
  ASSUME EventsTypeOK, NEW r, r.event \in Events, r.user \in Users,
         NEW x \in Statuses \cup {Null}
  PROVE  /\ Recorded(r, x) \in [Events -> [Users -> Statuses \cup {Null}]]
         /\ \A e \in Events, u \in Users :
              Recorded(r, x)[e][u] = IF e = r.event /\ u = r.user THEN x ELSE answer[e][u]
<1> DEFINE row == [answer[r.event] EXCEPT ![r.user] = x]
<1>1. answer[r.event] \in [Users -> Statuses \cup {Null}]
  BY DEF EventsTypeOK
<1>2. row \in [Users -> Statuses \cup {Null}]
  BY <1>1
<1>3. \A u \in Users : row[u] = IF u = r.user THEN x ELSE answer[r.event][u]
  BY <1>1
<1>4. Recorded(r, x) = [answer EXCEPT ![r.event] = row]
  BY DEF Recorded
<1> HIDE DEF row
<1> QED
  BY <1>2, <1>3, <1>4 DEF EventsTypeOK

\* What an answer step writes: one answer, if any.
LEMMA AnswerStepTyped ==
  ASSUME EventsTypeOK, NEW q \in Requests, AnswerStep(q)
  PROVE  /\ answer' \in [Events -> [Users -> Statuses \cup {Null}]]
         /\ \A e \in Events, u \in Users :
              \/ answer'[e][u] = answer[e][u]
              \/ answer'[e][u] \in {"not_nominated", Null}
              \/ /\ Doing(q, "answer") /\ AnswerAllowed(req[q])
                 /\ e = req[q].event /\ u = req[q].user
<1> DEFINE r == req[q]
<1>1. CASE SetAttendance(q)
  <2>1. r.event \in Events /\ r.user \in Users /\ r.status \in Statuses
    BY <1>1, DoingCall DEF SetAttendance, AnswerCalls
  <2>2. Doing(q, "answer")
        /\ answer' = IF AnswerAllowed(r) THEN Recorded(r, r.status) ELSE answer
    BY <1>1 DEF SetAttendance
  <2> HIDE DEF r
  <2>3. CASE AnswerAllowed(r)
    BY <2>1, <2>2, <2>3, RecordedTyped DEF r
  <2>4. CASE ~AnswerAllowed(r)
    BY <2>2, <2>4 DEF EventsTypeOK
  <2> QED
    BY <2>3, <2>4
<1>2. CASE Denominate(q) \/ Nominate(q)
  <2>1. r.event \in Events /\ r.user \in Users
    BY <1>2, DoingCall DEF Denominate, Nominate, NominateCalls
  <2>2. PICK x \in {"not_nominated", Null} : answer' = answer \/ answer' = Recorded(r, x)
    BY <1>2 DEF Denominate, Nominate
  <2>3. x \in Statuses \cup {Null}
    BY DEF Statuses
  <2> HIDE DEF r
  <2>4. CASE answer' = Recorded(r, x)
    BY <2>1, <2>3, <2>4, RecordedTyped
  <2>5. CASE answer' = answer
    BY <2>5 DEF EventsTypeOK
  <2> QED
    BY <2>2, <2>4, <2>5
<1> QED
  BY <1>1, <1>2 DEF AnswerStep

LEMMA AnswersTyped ==
  ASSUME EventsTypeOK, Next
  PROVE  answer' \in [Events -> [Users -> Statuses \cup {Null}]]
<1>1. \/ \E q \in Requests : AnswerStep(q) \/ DeleteSingle(q) \/ DeleteSeriesRemainder(q)
      \/ UNCHANGED answer
  BY Steps DEF Admission, LookUpSeries, EventStep, CreateEvent, CreateSeries, UpdateEvent,
               SetStatus, AddComment, AbsenceStep, LockTeam, CheckOverlap, InsertAbsence,
               MoveAbsence, SetStatsRelevance, DeleteAbsence, Around, tables
<1> QED
  BY <1>1, AnswerStepTyped, DropTyped DEF DeleteSingle, DeleteSeriesRemainder, EventsTypeOK

LEMMA RangeTyped ==
  ASSUME EventsTypeOK, NEW r \in AbsenceWrites, r.absence # Null => Mine(r, r.absence)
  PROVE  /\ ResolveFinalRange(r).from \in Days /\ ResolveFinalRange(r).to \in Days
         /\ ResolveFinalRange(r) \in [from: Days, to: Days]
<1>1. r.absence # Null => absence[r.absence] \in AbsenceRows
  BY NullAssumption DEF Mine, EventsTypeOK, AbsenceWrites
<1> QED
  BY <1>1 DEF ResolveFinalRange, AbsenceWrites, AbsenceRows

LEMMA MovedTyped ==
  ASSUME NEW v \in AbsenceRows, NEW range \in [from: Days, to: Days]
  PROVE  /\ Moved(v, range) \in AbsenceRows
         /\ Moved(v, range).team = v.team /\ Moved(v, range).user = v.user
         /\ Moved(v, range).from = range.from /\ Moved(v, range).to = range.to
  BY DEF Moved, AbsenceRows

LEMMA JudgedTyped ==
  ASSUME NEW v \in AbsenceRows, NEW b \in BOOLEAN
  PROVE  /\ Judged(v, b) \in AbsenceRows
         /\ Judged(v, b).team = v.team /\ Judged(v, b).user = v.user
         /\ Judged(v, b).from = v.from /\ Judged(v, b).to = v.to
  BY DEF Judged, AbsenceRows

-----------------------------------------------------------------------------
(* Absences: what the lock protects.                                           *)

\* A request past the lock, and one past the check.
Checked(q) == Doing(q, "absence") /\ req[q].stage = "checked"
Holding(q) == Checked(q) \/ (Doing(q, "absence") /\ req[q].stage = "locked")

\* The range the request resolves to is still free: for a new absence, or for one
\* that is still there to be moved.
Clear(r) ==
  (r.absence # Null => Mine(r, r.absence)) => ~Overlapping(r, ResolveFinalRange(r))

LocksHeld == \A q \in Requests : Holding(q) => lock[req[q].team] = q
ChecksHold == \A q \in Requests : Checked(q) => Clear(req[q])
AbsenceInv == LocksHeld /\ ChecksHold /\ AbsencesDisjoint

\* Rows that go, or keep their range, take nothing away from a check.
LEMMA ClearStays ==
  ASSUME NEW r \in AbsenceWrites, Clear(r),
         \A a \in Absences : Mine(r, a)' => /\ Mine(r, a)
                                            /\ absence'[a].from = absence[a].from
                                            /\ absence'[a].to = absence[a].to
  PROVE  Clear(r)'
<1> SUFFICES ASSUME r.absence # Null => Mine(r, r.absence)'
             PROVE  ~Overlapping(r, ResolveFinalRange(r))'
  BY DEF Clear
<1>1. r.absence # Null => r.absence \in Absences
  BY DEF AbsenceWrites
<1>2. ResolveFinalRange(r)' = ResolveFinalRange(r)
  BY <1>1 DEF ResolveFinalRange
<1>3. ~Overlapping(r, ResolveFinalRange(r))
  BY <1>1 DEF Clear
<1> DEFINE range == ResolveFinalRange(r)
<1>4. ~Overlapping(r, range)
  BY <1>3
<1> HIDE DEF range
<1>5. \A a \in Absences : ~(/\ Mine(r, a)' /\ a # r.absence
                            /\ absence'[a].from <= range.to /\ absence'[a].to >= range.from)
  BY <1>4 DEF Overlapping
<1>6. ResolveFinalRange(r)' = range
  BY <1>2 DEF range
<1> QED
  BY <1>5, <1>6 DEF Overlapping

LEMMA DisjointStays ==
  ASSUME AbsencesDisjoint,
         \A a \in Absences : absence'[a] # Null =>
           /\ absence[a] # Null
           /\ absence'[a].team = absence[a].team /\ absence'[a].user = absence[a].user
           /\ absence'[a].from = absence[a].from /\ absence'[a].to = absence[a].to
  PROVE  AbsencesDisjoint'
  BY DEF AbsencesDisjoint

\* A step that leaves the lock and the ranges, and takes no request past the lock.
LEMMA AbsencesUndisturbed ==
  ASSUME EventsTypeOK, AbsenceInv, UNCHANGED lock,
         \A a \in Absences : absence'[a] # Null =>
           /\ absence[a] # Null
           /\ absence'[a].team = absence[a].team /\ absence'[a].user = absence[a].user
           /\ absence'[a].from = absence[a].from /\ absence'[a].to = absence[a].to,
         \A q \in Requests : Holding(q)' => req'[q] = req[q]
  PROVE  AbsenceInv'
<1>1. \A q \in Requests : /\ Holding(q)' => Holding(q) /\ req'[q] = req[q]
                          /\ Checked(q)' => Checked(q) /\ req'[q] = req[q]
  BY DEF Holding, Checked, Doing
<1>2. LocksHeld'
  BY <1>1 DEF LocksHeld, AbsenceInv
<1>3. ASSUME NEW q \in Requests, Checked(q)' PROVE Clear(req[q])'
  <2>1. Checked(q) /\ req'[q] = req[q]
    BY <1>1, <1>3
  <2>2. req[q] \in AbsenceWrites /\ Clear(req[q])
    BY <2>1, DoingCall DEF Checked, ChecksHold, AbsenceInv
  <2>3. PICK r \in AbsenceWrites : r = req[q]
    BY <2>2
  <2>4. \A a \in Absences : Mine(r, a)' => /\ Mine(r, a)
                                            /\ absence'[a].from = absence[a].from
                                            /\ absence'[a].to = absence[a].to
    BY DEF Mine
  <2>5. Clear(r)'
    BY <2>2, <2>3, <2>4, ClearStays
  <2> QED
    BY <2>1, <2>3, <2>5
<1> QED
  BY <1>2, <1>3, DisjointStays DEF AbsenceInv, ChecksHold

\* Who holds a lock, in a step of the absence request q that may end.
LEMMA HoldersStay ==
  ASSUME EventsTypeOK, LocksHeld, NEW q \in Requests, Doing(q, "absence"),
         Done(q) /\ Unlock(q)
  PROVE  /\ LocksHeld' /\ lock' \in [Teams -> Requests \cup {Null}]
         /\ \A p \in Requests : Holding(p)' => p # q /\ Holding(p) /\ req'[p] = req[p]
<1>1. \A p \in Requests : req'[p] = IF p = q THEN Null ELSE req[p]
  BY DEF Done, EventsTypeOK
<1>2. \A p \in Requests : Holding(p)' => p # q /\ Holding(p) /\ req'[p] = req[p]
  BY <1>1 DEF Holding, Checked, Doing
<1>3. \A t \in Teams : lock'[t] = IF lock[t] = q THEN Null ELSE lock[t]
  BY DEF Unlock
<1>4. \A p \in Requests : Holding(p) => req[p].team \in Teams
  BY DoingCall DEF Holding, Checked, AbsenceWrites
<1>5. LocksHeld'
  BY <1>2, <1>3, <1>4 DEF LocksHeld
<1>6. lock' \in [Teams -> Requests \cup {Null}]
  BY DEF Unlock, EventsTypeOK
<1> QED
  BY <1>2, <1>5, <1>6

LEMMA LockTeamKeeps ==
  ASSUME EventsTypeOK, AbsenceInv, NEW q \in Requests, LockTeam(q)
  PROVE  AbsenceInv' /\ lock' \in [Teams -> Requests \cup {Null}]
<1>1. req[q] \in AbsenceWrites /\ req[q].team \in Teams
  BY DoingCall DEF LockTeam, AbsenceWrites
<1>2. /\ lock[req[q].team] = Null /\ lock' = [lock EXCEPT ![req[q].team] = q]
      /\ req' = [req EXCEPT ![q] = Staged(@, "locked")]
      /\ UNCHANGED absence
  BY DEF LockTeam, tables
<1>3. /\ req'[q] = Staged(req[q], "locked")
      /\ \A p \in Requests : p # q => req'[p] = req[p]
  BY <1>2 DEF EventsTypeOK
<1>4. req'[q].stage = "locked" /\ req'[q].team = req[q].team
  BY <1>1, <1>3, StagedTyped
<1>5. \A p \in Requests : p # q /\ Holding(p)' => Holding(p) /\ req[p].team \in Teams
  BY <1>3, DoingCall DEF Holding, Checked, Doing, AbsenceWrites
<1>6. \A p \in Requests : p # q /\ Holding(p)' => req'[p].team # req[q].team
  BY <1>2, <1>3, <1>5, NullAssumption DEF AbsenceInv, LocksHeld
<1>7. LocksHeld'
  BY <1>1, <1>2, <1>3, <1>4, <1>5, <1>6 DEF AbsenceInv, LocksHeld, EventsTypeOK
<1>8. ASSUME NEW p \in Requests, Checked(p)' PROVE Clear(req[p])'
  <2>1. p # q /\ Checked(p) /\ req'[p] = req[p]
    BY <1>3, <1>4, <1>8 DEF Checked, Doing
  <2>2. Clear(req[p])
    BY <2>1 DEF AbsenceInv, ChecksHold
  <2> QED
    BY <1>2, <2>1, <2>2 DEF Clear, Mine, Overlapping, ResolveFinalRange
<1>9. AbsencesDisjoint'
  BY <1>2 DEF AbsenceInv, AbsencesDisjoint
<1> QED
  BY <1>1, <1>2, <1>7, <1>8, <1>9 DEF AbsenceInv, ChecksHold, EventsTypeOK

LEMMA CheckOverlapKeeps ==
  ASSUME EventsTypeOK, AbsenceInv, NEW q \in Requests, CheckOverlap(q)
  PROVE  AbsenceInv' /\ lock' \in [Teams -> Requests \cup {Null}]
<1>1. req[q] \in AbsenceWrites /\ Doing(q, "absence") /\ UNCHANGED absence
  BY DoingCall DEF CheckOverlap, tables
<1>2. AbsencesDisjoint'
  BY <1>1 DEF AbsenceInv, AbsencesDisjoint
<1>3. CASE /\ (req[q].absence # Null => Mine(req[q], req[q].absence))
           /\ ~Overlapping(req[q], ResolveFinalRange(req[q]))
  <2>1. req' = [req EXCEPT ![q] = Staged(@, "checked")] /\ lock' = lock
    BY <1>3 DEF CheckOverlap
  <2>2. /\ req'[q] = Staged(req[q], "checked")
        /\ \A p \in Requests : p # q => req'[p] = req[p]
    BY <2>1 DEF EventsTypeOK
  <2>3. LocksHeld'
    <3>1. req'[q].team = req[q].team /\ Holding(q)
      BY <1>1, <2>2, StagedTyped DEF CheckOverlap, Holding
    <3> QED
      BY <2>1, <2>2, <3>1 DEF LocksHeld, AbsenceInv, Holding, Checked, Doing
  <2>4. ASSUME NEW p \in Requests, Checked(p)' PROVE Clear(req[p])'
    <3>1. CASE p # q
      <4>1. Checked(p) /\ req'[p] = req[p]
        BY <2>2, <2>4, <3>1 DEF Checked, Doing
      <4>2. Clear(req[p])
        BY <4>1 DEF AbsenceInv, ChecksHold
      <4> QED
        BY <1>1, <4>1, <4>2 DEF Clear, Mine, Overlapping, ResolveFinalRange
    <3>2. CASE p = q
      <4>1. /\ req'[q].team = req[q].team /\ req'[q].caller = req[q].caller
            /\ req'[q].absence = req[q].absence
            /\ req'[q].from = req[q].from /\ req'[q].to = req[q].to
        BY <1>1, <2>2, StagedTyped
      <4> QED
        BY <1>1, <1>3, <3>2, <4>1 DEF Clear, Mine, Overlapping, ResolveFinalRange
    <3> QED
      BY <3>1, <3>2
  <2> QED
    BY <1>2, <2>1, <2>3, <2>4 DEF AbsenceInv, ChecksHold, EventsTypeOK
<1>4. CASE ~(/\ (req[q].absence # Null => Mine(req[q], req[q].absence))
             /\ ~Overlapping(req[q], ResolveFinalRange(req[q])))
  <2>1. Done(q) /\ Unlock(q)
    BY <1>4 DEF CheckOverlap
  <2>2. /\ LocksHeld' /\ lock' \in [Teams -> Requests \cup {Null}]
        /\ \A p \in Requests : Holding(p)' => p # q /\ Holding(p) /\ req'[p] = req[p]
    BY <1>1, <2>1, HoldersStay DEF AbsenceInv
  <2>3. ASSUME NEW p \in Requests, Checked(p)' PROVE Clear(req[p])'
    <3>1. req'[p] = req[p] /\ Checked(p)
      BY <2>2, <2>3 DEF Holding, Checked, Doing
    <3>2. Clear(req[p])
      BY <3>1 DEF AbsenceInv, ChecksHold
    <3> QED
      BY <1>1, <3>1, <3>2 DEF Clear, Mine, Overlapping, ResolveFinalRange
  <2> QED
    BY <1>2, <2>2, <2>3 DEF AbsenceInv, ChecksHold
<1> QED
  BY <1>3, <1>4

\* Requests of other teams are not concerned by a row of the locked team.
LEMMA OthersStayClear ==
  ASSUME EventsTypeOK, AbsenceInv, NEW q \in Requests, Checked(q),
         NEW a \in Absences, absence'[a] # Null => absence'[a].team = req[q].team,
         \A b \in Absences : b # a => absence'[b] = absence[b],
         \A p \in Requests : Holding(p)' => p # q /\ Holding(p) /\ req'[p] = req[p]
  PROVE  ChecksHold'
<1> SUFFICES ASSUME NEW p \in Requests, Checked(p)' PROVE Clear(req[p])'
  BY DEF ChecksHold
<1>1. p # q /\ Checked(p) /\ req'[p] = req[p]
  BY DEF Holding, Checked, Doing
<1>2. req[p].team # req[q].team
  BY <1>1 DEF Holding, AbsenceInv, LocksHeld
<1>3. req[p] \in AbsenceWrites /\ Clear(req[p])
  BY <1>1, DoingCall DEF Checked, ChecksHold, AbsenceInv
<1>4. PICK r \in AbsenceWrites : r = req[p]
  BY <1>3
<1>5. \A b \in Absences : Mine(r, b)' => /\ Mine(r, b)
                                          /\ absence'[b].from = absence[b].from
                                          /\ absence'[b].to = absence[b].to
  BY <1>2, <1>4 DEF Mine
<1>6. Clear(r)'
  BY <1>3, <1>4, <1>5, ClearStays
<1> QED
  BY <1>1, <1>4, <1>6

\* The row a is written by the checked request q, with the range it resolved to.
LEMMA WrittenDisjoint ==
  ASSUME EventsTypeOK, AbsenceInv, NEW q \in Requests, Checked(q),
         req[q].absence # Null => Mine(req[q], req[q].absence),
         NEW a \in Absences, req[q].absence \in {Null, a},
         absence'[a].from = ResolveFinalRange(req[q]).from,
         absence'[a].to = ResolveFinalRange(req[q]).to,
         absence'[a].team = req[q].team, absence'[a].user = req[q].caller,
         absence[a] = Null \/ a = req[q].absence,
         \A b \in Absences : b # a => absence'[b] = absence[b]
  PROVE  AbsencesDisjoint'
<1> DEFINE range == ResolveFinalRange(req[q])
<1>1. req[q] \in AbsenceWrites
  BY DoingCall DEF Checked
<1>2. range.from \in Nat /\ range.to \in Nat
  BY <1>1, RangeTyped, CalendarAssumption
<1>3. ~Overlapping(req[q], range)
  BY DEF AbsenceInv, ChecksHold, Clear
<1> HIDE DEF range
<1>4. \A b \in Absences : absence[b] # Null => absence[b].from \in Nat /\ absence[b].to \in Nat
  BY CalendarAssumption DEF EventsTypeOK, AbsenceRows
<1>5. ASSUME NEW b \in Absences, b # a, absence[b] # Null,
             absence[b].team = req[q].team, absence[b].user = req[q].caller
      PROVE  absence[b].to < range.from \/ range.to < absence[b].from
  <2>1. ~(absence[b].from <= range.to /\ absence[b].to >= range.from)
    BY <1>3, <1>5, NullAssumption DEF Overlapping, Mine
  <2> QED
    BY <1>2, <1>4, <1>5, <2>1
<1>6. absence'[a].from = range.from /\ absence'[a].to = range.to
  BY DEF range
<1> QED
  BY <1>5, <1>6 DEF AbsenceInv, AbsencesDisjoint

LEMMA InsertAbsenceKeeps ==
  ASSUME EventsTypeOK, AbsenceInv, NEW q \in Requests, InsertAbsence(q)
  PROVE  /\ AbsenceInv' /\ lock' \in [Teams -> Requests \cup {Null}]
         /\ absence' \in [Absences -> AbsenceRows \cup {Null}]
<1>1. /\ req[q] \in AbsenceWrites /\ Doing(q, "absence") /\ Done(q) /\ Unlock(q)
      /\ Checked(q) /\ req[q].absence = Null
  BY DoingCall DEF InsertAbsence, Checked
<1>2. /\ LocksHeld' /\ lock' \in [Teams -> Requests \cup {Null}]
      /\ \A p \in Requests : Holding(p)' => p # q /\ Holding(p) /\ req'[p] = req[p]
  BY <1>1, HoldersStay DEF AbsenceInv
<1>3. CASE absence' = absence
  <2>1. ASSUME NEW p \in Requests, Checked(p)' PROVE Clear(req[p])'
    <3>1. req'[p] = req[p] /\ Checked(p)
      BY <1>2, <2>1 DEF Holding, Checked, Doing
    <3>2. Clear(req[p])
      BY <3>1 DEF AbsenceInv, ChecksHold
    <3> QED
      BY <1>3, <3>1, <3>2 DEF Clear, Mine, Overlapping, ResolveFinalRange
  <2>2. AbsencesDisjoint'
    BY <1>3 DEF AbsenceInv, AbsencesDisjoint
  <2> QED
    BY <1>2, <1>3, <2>1, <2>2 DEF AbsenceInv, ChecksHold, EventsTypeOK
<1>4. ASSUME NEW a \in Absences, absence[a] = Null,
             absence' = [absence EXCEPT ![a] =
               [team |-> req[q].team, user |-> req[q].caller, from |-> req[q].from,
                to |-> req[q].to, irrelevant |-> FALSE]]
      PROVE  AbsenceInv' /\ absence' \in [Absences -> AbsenceRows \cup {Null}]
  <2> DEFINE v == [team |-> req[q].team, user |-> req[q].caller, from |-> req[q].from,
                   to |-> req[q].to, irrelevant |-> FALSE]
  <2>1. /\ v \in AbsenceRows
        /\ v.team = req[q].team /\ v.user = req[q].caller
        /\ v.from = ResolveFinalRange(req[q]).from /\ v.to = ResolveFinalRange(req[q]).to
    BY <1>1 DEF AbsenceWrites, AbsenceRows, ResolveFinalRange
  <2>2. absence' = [absence EXCEPT ![a] = v]
    BY <1>4
  <2> HIDE DEF v
  <2>3. /\ absence'[a] = v /\ \A b \in Absences : b # a => absence'[b] = absence[b]
        /\ absence' \in [Absences -> AbsenceRows \cup {Null}]
    BY <2>1, <2>2 DEF EventsTypeOK
  <2>4. ChecksHold'
    BY <1>1, <1>2, <2>1, <2>3, OthersStayClear
  <2>5. AbsencesDisjoint'
    BY <1>1, <1>4, <2>1, <2>3, WrittenDisjoint
  <2> QED
    BY <1>2, <2>3, <2>4, <2>5 DEF AbsenceInv
<1>5. absence' = absence \/ \E a \in Absences :
        absence[a] = Null /\
        absence' = [absence EXCEPT ![a] =
          [team |-> req[q].team, user |-> req[q].caller, from |-> req[q].from,
           to |-> req[q].to, irrelevant |-> FALSE]]
  BY DEF InsertAbsence
<1> QED
  BY <1>2, <1>3, <1>4, <1>5

LEMMA MoveAbsenceKeeps ==
  ASSUME EventsTypeOK, AbsenceInv, NEW q \in Requests, MoveAbsence(q)
  PROVE  /\ AbsenceInv' /\ lock' \in [Teams -> Requests \cup {Null}]
         /\ absence' \in [Absences -> AbsenceRows \cup {Null}]
<1>1. /\ req[q] \in AbsenceWrites /\ Doing(q, "absence") /\ Done(q) /\ Unlock(q)
      /\ Checked(q) /\ req[q].absence # Null
  BY DoingCall DEF MoveAbsence, Checked
<1>2. /\ LocksHeld' /\ lock' \in [Teams -> Requests \cup {Null}]
      /\ \A p \in Requests : Holding(p)' => p # q /\ Holding(p) /\ req'[p] = req[p]
  BY <1>1, HoldersStay DEF AbsenceInv
<1>3. CASE absence' = absence
  <2>1. ASSUME NEW p \in Requests, Checked(p)' PROVE Clear(req[p])'
    <3>1. req'[p] = req[p] /\ Checked(p)
      BY <1>2, <2>1 DEF Holding, Checked, Doing
    <3>2. Clear(req[p])
      BY <3>1 DEF AbsenceInv, ChecksHold
    <3> QED
      BY <1>3, <3>1, <3>2 DEF Clear, Mine, Overlapping, ResolveFinalRange
  <2>2. AbsencesDisjoint'
    BY <1>3 DEF AbsenceInv, AbsencesDisjoint
  <2> QED
    BY <1>2, <1>3, <2>1, <2>2 DEF AbsenceInv, ChecksHold, EventsTypeOK
<1>4. CASE Mine(req[q], req[q].absence)
           /\ absence' = [absence EXCEPT ![req[q].absence] =
                            Moved(@, ResolveFinalRange(req[q]))]
  <2> DEFINE a == req[q].absence
             v == Moved(absence[a], ResolveFinalRange(req[q]))
  <2>1. a \in Absences /\ absence[a] \in AbsenceRows
    BY <1>1, <1>4 DEF AbsenceWrites, Mine, EventsTypeOK
  <2>2. ResolveFinalRange(req[q]) \in [from: Days, to: Days]
    BY <1>1, <1>4, RangeTyped
  <2>3. /\ v \in AbsenceRows
        /\ v.team = req[q].team /\ v.user = req[q].caller
        /\ v.from = ResolveFinalRange(req[q]).from /\ v.to = ResolveFinalRange(req[q]).to
    BY <1>4, <2>1, <2>2, MovedTyped DEF Mine
  <2>4. absence' = [absence EXCEPT ![a] = v]
    BY <1>4
  <2> HIDE DEF v
  <2>5. PICK c \in Absences : c = a
    BY <2>1
  <2>6. /\ absence'[c] = v /\ \A b \in Absences : b # c => absence'[b] = absence[b]
        /\ absence' \in [Absences -> AbsenceRows \cup {Null}]
    BY <2>3, <2>4, <2>5 DEF EventsTypeOK
  <2>7. ChecksHold'
    BY <1>1, <1>2, <2>3, <2>6, OthersStayClear
  <2>8. AbsencesDisjoint'
    BY <1>1, <1>4, <2>3, <2>5, <2>6, WrittenDisjoint
  <2> QED
    BY <1>2, <2>6, <2>7, <2>8 DEF AbsenceInv
<1>5. \/ absence' = absence
      \/ /\ Mine(req[q], req[q].absence)
         /\ absence' = [absence EXCEPT ![req[q].absence] =
                          Moved(@, ResolveFinalRange(req[q]))]
  BY DEF MoveAbsence
<1> QED
  BY <1>2, <1>3, <1>4, <1>5

\* A ruling on an absence, and an absence deleted: neither takes the lock.
LEMMA SetStatsRelevanceKeeps ==
  ASSUME EventsTypeOK, AbsenceInv, NEW q \in Requests, SetStatsRelevance(q)
  PROVE  AbsenceInv' /\ absence' \in [Absences -> AbsenceRows \cup {Null}]
<1> DEFINE r == req[q]
<1>1. /\ r.absence \in Absences /\ r.irrelevant \in BOOLEAN
      /\ Done(q) /\ UNCHANGED lock
  BY DoingCall DEF SetStatsRelevance, RelevanceCalls
<1>2. \/ absence' = absence
      \/ /\ absence[r.absence] # Null
         /\ absence' = [absence EXCEPT ![r.absence] = Judged(@, r.irrelevant)]
  BY DEF SetStatsRelevance
<1> HIDE DEF r
<1>3. \A v \in AbsenceRows : /\ Judged(v, r.irrelevant) \in AbsenceRows
                             /\ Judged(v, r.irrelevant).team = v.team
                             /\ Judged(v, r.irrelevant).user = v.user
                             /\ Judged(v, r.irrelevant).from = v.from
                             /\ Judged(v, r.irrelevant).to = v.to
  BY <1>1, JudgedTyped
<1>4. absence' \in [Absences -> AbsenceRows \cup {Null}]
  BY <1>1, <1>2, <1>3 DEF EventsTypeOK
<1>5. \A a \in Absences : absence'[a] # Null =>
        /\ absence[a] # Null
        /\ absence'[a].team = absence[a].team /\ absence'[a].user = absence[a].user
        /\ absence'[a].from = absence[a].from /\ absence'[a].to = absence[a].to
  BY <1>1, <1>2, <1>3 DEF EventsTypeOK
<1>6. \A p \in Requests : Holding(p)' => req'[p] = req[p]
  BY <1>1 DEF Done, Holding, Checked, Doing, EventsTypeOK
<1> QED
  BY <1>1, <1>4, <1>5, <1>6, AbsencesUndisturbed

LEMMA DeleteAbsenceKeeps ==
  ASSUME EventsTypeOK, AbsenceInv, NEW u \in Users, NEW t \in Teams, NEW d \in Absences,
         DeleteAbsence(u, t, d)
  PROVE  AbsenceInv' /\ absence' \in [Absences -> AbsenceRows \cup {Null}]
<1>1. absence' = [absence EXCEPT ![d] = Null] /\ UNCHANGED <<lock, req>>
  BY DEF DeleteAbsence
<1>2. absence' \in [Absences -> AbsenceRows \cup {Null}]
  BY <1>1 DEF EventsTypeOK
<1>3. \A a \in Absences : absence'[a] # Null => absence'[a] = absence[a]
  BY <1>1 DEF EventsTypeOK
<1> QED
  BY <1>1, <1>2, <1>3, AbsencesUndisturbed

\* Other requests come and go without the lock.
LEMMA OtherRequestsKeep ==
  ASSUME EventsTypeOK, AbsenceInv, UNCHANGED <<absence, lock>>, NEW q \in Requests,
         Admission(q) \/ Done(q) \/ LookUpSeries(q)
  PROVE  AbsenceInv'
<1>1. \A p \in Requests : p # q => req'[p] = req[p]
  BY DEF Admission, Begin, Done, LookUpSeries, EventsTypeOK
<1>2. ~Holding(q)'
  <2>1. CASE Admission(q)
    <3>1. PICK r \in Coming : req'[q] = r
      BY <2>1 DEF Admission, Begin, EventsTypeOK
    <3>2. r.op = "absence" => r.stage = "admitted"
      BY DEF Coming, CreateCalls, UpdateCalls, StatusCalls, DeleteCalls, AnswerCalls,
             NominateCalls, CommentCalls, AbsenceCalls, MoveCalls, RelevanceCalls
    <3> QED
      BY <3>1, <3>2 DEF Holding, Checked, Doing
  <2>2. CASE Done(q)
    BY <2>2 DEF Done, Holding, Checked, Doing, EventsTypeOK
  <2>3. CASE LookUpSeries(q)
    <3> DEFINE r == req[q]
               s == IF OwnedBy(r.event, r.team) THEN event[r.event].series ELSE Null
    <3>1. r \in Deletions /\ req' = [req EXCEPT ![q] = LookedUp(r, s)]
      BY <2>3, DoingCall DEF LookUpSeries
    <3>2. s \in Series \cup {Null}
      BY <3>1 DEF Deletions, OwnedBy, EventRows, EventsTypeOK
    <3> HIDE DEF r, s
    <3>3. req'[q].op = "delete"
      BY <3>1, <3>2, LookedUpTyped DEF EventsTypeOK
    <3> QED
      BY <3>3 DEF Holding, Checked, Doing
  <2> QED
    BY <2>1, <2>2, <2>3
<1>3. \A p \in Requests : Holding(p)' => req'[p] = req[p]
  BY <1>1, <1>2
<1> QED
  BY <1>3, AbsencesUndisturbed

-----------------------------------------------------------------------------
(* Rosters and comments.                                                       *)

LEMMA MembersTyped ==
  ASSUME RostersTypeOK, MemberNext
  PROVE  /\ members' \in [Teams -> SUBSET Users] /\ writers' \in [Teams -> SUBSET Users]
         /\ uncounted' \in [Teams -> SUBSET Users]
<1> USE DEF RostersTypeOK
<1>1. PICK t \in Teams, u \in Users :
        Join(t, u) \/ SetRoles(t, u) \/ SetExclusion(t, u) \/ RemoveMember(t, u)
  BY DEF MemberNext
<1>2. CASE Join(t, u)
  BY <1>2 DEF Join
<1>3. CASE SetRoles(t, u)
  <2> DEFINE W == IF u \in writers[t] THEN writers[t] \ {u} ELSE writers[t] \cup {u}
  <2>1. W \in SUBSET Users /\ writers' = [writers EXCEPT ![t] = W]
    BY <1>3 DEF SetRoles
  <2> HIDE DEF W
  <2> QED
    BY <1>3, <2>1 DEF SetRoles
<1>4. CASE SetExclusion(t, u)
  <2> DEFINE W == IF u \in uncounted[t] THEN uncounted[t] \ {u} ELSE uncounted[t] \cup {u}
  <2>1. W \in SUBSET Users /\ uncounted' = [uncounted EXCEPT ![t] = W]
    BY <1>4 DEF SetExclusion
  <2> HIDE DEF W
  <2> QED
    BY <1>4, <2>1 DEF SetExclusion
<1>5. CASE RemoveMember(t, u)
  BY <1>5 DEF RemoveMember
<1> QED
  BY <1>1, <1>2, <1>3, <1>4, <1>5

LEMMA RostersTyped ==
  ASSUME EventsTypeOK, RostersTypeOK, Next
  PROVE  RostersTypeOK'
<1>1. /\ members' \in [Teams -> SUBSET Users] /\ writers' \in [Teams -> SUBSET Users]
      /\ uncounted' \in [Teams -> SUBSET Users]
  <2>1. MemberNext \/ UNCHANGED <<members, writers, uncounted>>
    BY Steps DEF Admission, EventStep, CreateEvent, CreateSeries, UpdateEvent, SetStatus,
       DeleteSingle, DeleteSeriesRemainder, LookUpSeries, AnswerStep, SetAttendance,
       Denominate, Nominate, AddComment, AbsenceStep, LockTeam, CheckOverlap, InsertAbsence,
       MoveAbsence, SetStatsRelevance, DeleteAbsence, Around, world
  <2> QED
    BY <2>1, MembersTyped DEF RostersTypeOK
<1>2. series' \subseteq Series
  <2>1. \/ \E q \in Requests : CreateSeries(q) \/ DeleteSeriesRemainder(q)
        \/ UNCHANGED series
    BY Steps DEF Admission, EventStep, CreateEvent, UpdateEvent, SetStatus, DeleteSingle,
       LookUpSeries, AnswerStep, SetAttendance, Denominate, Nominate, AddComment,
       AbsenceStep, LockTeam, CheckOverlap, InsertAbsence, MoveAbsence, SetStatsRelevance,
       DeleteAbsence, Around, tables
  <2>2. ASSUME NEW q \in Requests, CreateSeries(q)
        PROVE  \E s \in Series : series' = series \cup {s}
    BY <2>2 DEF CreateSeries
  <2>3. ASSUME NEW q \in Requests, DeleteSeriesRemainder(q) PROVE series' \subseteq series
    BY <2>3 DEF DeleteSeriesRemainder
  <2> QED
    BY <2>1, <2>2, <2>3 DEF RostersTypeOK
<1>3. comment' \in [Comments -> [event: Events, user: Users] \cup {Null}]
  <2> USE DEF RostersTypeOK
  <2>1. \/ \E q \in Requests : DeleteSingle(q) \/ DeleteSeriesRemainder(q)
        \/ \E q \in Requests : AddComment(q)
        \/ comment' = comment \/ \E c \in Comments : comment' = [comment EXCEPT ![c] = Null]
    BY Steps DEF Admission, EventStep, CreateEvent, CreateSeries, UpdateEvent, SetStatus,
       LookUpSeries, AnswerStep, SetAttendance, Denominate, Nominate, AbsenceStep, LockTeam,
       CheckOverlap, InsertAbsence, MoveAbsence, SetStatsRelevance, DeleteAbsence, Around,
       tables
  <2>2. CASE \E q \in Requests : DeleteSingle(q) \/ DeleteSeriesRemainder(q)
    BY <2>2 DEF DeleteSingle, DeleteSeriesRemainder, Drop
  <2>3. ASSUME NEW q \in Requests, AddComment(q)
        PROVE  comment' \in [Comments -> [event: Events, user: Users] \cup {Null}]
    <3>1. req[q].event \in Events /\ req[q].caller \in Users
      BY <2>3, DoingCall DEF AddComment, CommentCalls
    <3> QED
      BY <2>3, <3>1 DEF AddComment
  <2> QED
    BY <2>1, <2>2, <2>3
<1> QED
  BY <1>1, <1>2, <1>3 DEF RostersTypeOK

-----------------------------------------------------------------------------
(* The invariant: types, the series, and what the lock protects.               *)

EventsInv == EventsTypeOK /\ RostersTypeOK /\ SeriesIntact /\ AbsenceInv

LEMMA EventsInvInit == Init => EventsInv
<1> SUFFICES ASSUME Init PROVE EventsInv
  OBVIOUS
<1> USE DEF Init
<1>1. EventsTypeOK
  BY DEF EventsTypeOK
<1>2. SeriesIntact
  BY DEF SeriesIntact, Live
<1>3. \A q \in Requests : ~Holding(q)
  BY DEF Holding, Checked, Doing
<1>4. AbsenceInv
  BY <1>3 DEF AbsenceInv, LocksHeld, ChecksHold, AbsencesDisjoint, Holding
<1>5. RostersTypeOK
  BY DEF RostersTypeOK
<1> QED
  BY <1>1, <1>2, <1>4, <1>5 DEF EventsInv

LEMMA AbsencesStep ==
  ASSUME EventsTypeOK, AbsenceInv, Next
  PROVE  /\ AbsenceInv' /\ lock' \in [Teams -> Requests \cup {Null}]
         /\ absence' \in [Absences -> AbsenceRows \cup {Null}]
<1>1. CASE \E q \in Requests : AbsenceStep(q)
  <2>1. PICK q \in Requests : AbsenceStep(q)
    BY <1>1
  <2>2. LockTeam(q) \/ CheckOverlap(q) =>
          absence' \in [Absences -> AbsenceRows \cup {Null}]
    BY DEF LockTeam, CheckOverlap, tables, EventsTypeOK
  <2>3. SetStatsRelevance(q) => lock' \in [Teams -> Requests \cup {Null}]
    BY DEF SetStatsRelevance, EventsTypeOK
  <2> QED
    BY <2>1, <2>2, <2>3, LockTeamKeeps, CheckOverlapKeeps, InsertAbsenceKeeps,
       MoveAbsenceKeeps, SetStatsRelevanceKeeps DEF AbsenceStep
<1>2. CASE \E u \in Users, t \in Teams, a \in Absences : DeleteAbsence(u, t, a)
  <2>1. lock' \in [Teams -> Requests \cup {Null}]
    BY <1>2 DEF DeleteAbsence, EventsTypeOK
  <2> QED
    BY <1>2, <2>1, DeleteAbsenceKeeps
<1>3. CASE \E q \in Requests : \/ Admission(q) \/ EventStep(q) \/ LookUpSeries(q)
                               \/ AnswerStep(q) \/ AddComment(q)
  <2>1. PICK q \in Requests : \/ Admission(q) \/ EventStep(q) \/ LookUpSeries(q)
                              \/ AnswerStep(q) \/ AddComment(q)
    BY <1>3
  <2>2. UNCHANGED <<absence, lock>>
    BY <2>1 DEF Admission, LookUpSeries, EventStep, CreateEvent, CreateSeries, UpdateEvent,
                SetStatus, DeleteSingle, DeleteSeriesRemainder, AnswerStep, SetAttendance,
                Denominate, Nominate, AddComment, tables
  <2>3. Admission(q) \/ Done(q) \/ LookUpSeries(q)
    BY <2>1 DEF EventStep, CreateEvent, CreateSeries, UpdateEvent, SetStatus, DeleteSingle,
                DeleteSeriesRemainder, AnswerStep, SetAttendance, Denominate, Nominate,
                AddComment
  <2> QED
    BY <2>2, <2>3, OtherRequestsKeep DEF EventsTypeOK
<1>4. CASE Around
  <2>1. UNCHANGED <<absence, lock, req>>
    BY <1>4 DEF Around
  <2>2. AbsenceInv'
    BY <2>1, AbsencesUndisturbed
  <2> QED
    BY <2>1, <2>2 DEF EventsTypeOK
<1> QED
  BY <1>1, <1>2, <1>3, <1>4, Steps

LEMMA EventsInvNext == EventsInv /\ [Next]_vars => EventsInv'
<1> SUFFICES ASSUME EventsInv, [Next]_vars PROVE EventsInv'
  OBVIOUS
<1>1. CASE Next
  <2>1. EventsTypeOK /\ RostersTypeOK /\ SeriesIntact /\ AbsenceInv
    BY DEF EventsInv
  <2>2. clock' \in Nat
    <3>1. clock' \in {clock, clock + 1}
      BY <1>1, Steps DEF Admission, EventStep, CreateEvent, CreateSeries, UpdateEvent,
         SetStatus, DeleteSingle, DeleteSeriesRemainder, LookUpSeries, AnswerStep,
         SetAttendance, Denominate, Nominate, AddComment, AbsenceStep, LockTeam,
         CheckOverlap, InsertAbsence, MoveAbsence, SetStatsRelevance, DeleteAbsence, Around,
         world
    <3> QED
      BY <2>1, <3>1 DEF EventsTypeOK
  <2>3. EventsTypeOK'
    BY <1>1, <2>1, <2>2, EventsTyped, AnswersTyped, AbsencesStep, RequestsTyped
       DEF EventsTypeOK
  <2> QED
    BY <1>1, <2>1, <2>3, EventsTyped, RostersTyped, AbsencesStep DEF EventsInv
<1>2. CASE UNCHANGED vars
  BY <1>2 DEF vars, EventsInv, EventsTypeOK, RostersTypeOK, SeriesIntact, Live, OccurrencesOf, AbsenceInv,
              LocksHeld, ChecksHold, AbsencesDisjoint, Holding, Checked, Doing, Clear, Mine,
              Overlapping, ResolveFinalRange
<1> QED
  BY <1>1, <1>2

\* The tables, the lock and the requests have their types.
THEOREM EventTypesHold == Spec => []TypeOK
<1>1. EventsInv => TypeOK
  BY DEF EventsInv, EventsTypeOK, RostersTypeOK, TypeOK
<1> QED
  BY <1>1, EventsInvInit, EventsInvNext, PTL DEF Spec

\* An event of a series finds the series' definition, all occurrences of a series
\* belong to one team, and the owning team keeps seeing its events, whatever was
\* deleted between a deletion's look at the series and its transaction.
THEOREM SeriesStayIntact == Spec => []SeriesIntact
<1>1. EventsInv => SeriesIntact
  BY DEF EventsInv
<1> QED
  BY <1>1, EventsInvInit, EventsInvNext, PTL DEF Spec

\* The absences a member has recorded in a team never overlap: what a request found
\* free under the team's lock is free when it writes, although absences are deleted
\* and ruled on without the lock.
THEOREM AbsencesStayDisjoint == Spec => []AbsencesDisjoint
<1>1. EventsInv => AbsencesDisjoint
  BY DEF EventsInv, AbsenceInv
<1> QED
  BY <1>1, EventsInvInit, EventsInvNext, PTL DEF Spec

-----------------------------------------------------------------------------
(* What a step writes.                                                         *)

LEMMA AnswersWritten ==
  ASSUME EventsTypeOK, Next, NEW e \in Live, NEW u \in Users,
         answer'[e][u] # answer[e][u], answer'[e][u] \in Replies
  PROVE  \E q \in Requests : /\ req[q] \in AnswerCalls /\ AnswerAllowed(req[q])
                             /\ e = req[q].event /\ u = req[q].user
<1>1. e \in Events /\ "not_nominated" \notin Replies /\ Null \notin Replies
  BY RowsAssumption DEF Live, Replies, Statuses
<1>2. \/ \E q \in Requests : AnswerStep(q) \/ DeleteSingle(q) \/ DeleteSeriesRemainder(q)
      \/ UNCHANGED answer
  BY Steps DEF Admission, LookUpSeries, EventStep, CreateEvent, CreateSeries, UpdateEvent,
               SetStatus, AddComment, AbsenceStep, LockTeam, CheckOverlap, InsertAbsence,
               MoveAbsence, SetStatsRelevance, DeleteAbsence, Around, tables
<1>3. ASSUME NEW q \in Requests, DeleteSingle(q) \/ DeleteSeriesRemainder(q) PROVE FALSE
  <2>1. PICK E : Drop(E)
    BY <1>3 DEF DeleteSingle, DeleteSeriesRemainder
  <2> QED
    BY <1>1, <2>1, DropTyped
<1>4. PICK q \in Requests : AnswerStep(q)
  BY <1>2, <1>3
<1>5. Doing(q, "answer") /\ AnswerAllowed(req[q]) /\ e = req[q].event /\ u = req[q].user
  BY <1>1, <1>4, AnswerStepTyped
<1> QED
  BY <1>5, DoingCall

\* Every answer recorded is one the state at its recording allows: the event is on,
\* its user is in a team that sees it, and after the deadline that team has an
\* organizer.
THEOREM AnswersComeInTime == Spec => AnswersInTime
<1> DEFINE Body == \A e \in Live, u \in Users :
                     answer'[e][u] # answer[e][u] /\ answer'[e][u] \in Replies =>
                       /\ ~event[e].cancelled
                       /\ \E t \in event[e].targets :
                            /\ u \in members[t]
                            /\ Closed(event[e]) => writers[t] # {}
<1>1. EventsInv /\ [Next]_vars => [Body]_vars
  <2> SUFFICES ASSUME EventsInv, Next PROVE Body
    OBVIOUS
  <2> SUFFICES ASSUME NEW e \in Live, NEW u \in Users,
                      answer'[e][u] # answer[e][u], answer'[e][u] \in Replies
               PROVE  /\ ~event[e].cancelled
                      /\ \E t \in event[e].targets :
                           /\ u \in members[t]
                           /\ Closed(event[e]) => writers[t] # {}
    OBVIOUS
  <2>1. PICK q \in Requests : /\ req[q] \in AnswerCalls /\ AnswerAllowed(req[q])
                              /\ e = req[q].event /\ u = req[q].user
    BY AnswersWritten DEF EventsInv
  <2> DEFINE t == req[q].team
  <2>2. /\ ~event[e].cancelled /\ t \in event[e].targets /\ u \in members[t]
        /\ Closed(event[e]) => req[q].caller \in writers[t]
    BY <2>1 DEF AnswerAllowed, TargetedBy, Organizer
  <2> QED
    BY <2>2
<1> QED
  BY <1>1, EventsInvInit, EventsInvNext, PTL DEF Spec, AnswersInTime

\* Of the past, each request reaches only the event it names.
Reaches(e) == event'[e] = Null \/ Described(event'[e]) # Described(event[e])

LEMMA PastOutOfReach ==
  ASSUME EventsTypeOK, SeriesIntact, NEW q \in Requests, EventStep(q), NEW e \in Live,
         event[e].date < Today, Reaches(e)
  PROVE  e = req[q].event
<1> DEFINE r == req[q]
<1>1. e \in Events /\ event[e] \in EventRows /\ event[e] # Null
  BY DEF Live, EventsTypeOK
<1>2. ~(event[e].date >= Today)
  <2>1. event[e].date \in Nat
    BY <1>1, CalendarAssumption DEF EventRows
  <2>2. Today \in Nat
    <3>1. clock \in Nat
      BY DEF EventsTypeOK
    <3> QED
      BY <3>1 DEF Today
  <2> QED
    BY <2>1, <2>2
<1>3. event'[e] # event[e]
  BY <1>1 DEF Reaches
<1>4. CASE CreateEvent(q) \/ CreateSeries(q)
  <2>1. event'[e] = event[e]
    <3>1. CASE CreateEvent(q)
      <4>1. PICK f \in Events : Fresh(f) /\ \E v : event' = [event EXCEPT ![f] = v]
        BY <3>1 DEF CreateEvent
      <4> QED
        BY <1>1, <4>1 DEF Fresh, EventsTypeOK
    <3>2. CASE CreateSeries(q)
      <4>1. PICK E \in SUBSET {f \in Events : Fresh(f)}, s \in Series \ series :
              \E day \in [E -> SeriesDates(r.body.date, r.body.weeks, r.body.end)] :
                event' = [f \in Events |->
                            IF f \in E THEN NewEvent(r.team, r.body, s, day[f]) ELSE event[f]]
        BY <3>2 DEF CreateSeries
      <4>2. e \notin E
        BY <1>1, <4>1 DEF Fresh
      <4> QED
        BY <1>1, <4>1, <4>2
    <3> QED
      BY <1>4, <3>1, <3>2
  <2> QED
    BY <1>3, <2>1
<1>5. CASE UpdateEvent(q)
  <2>1. r \in UpdateCalls
    BY <1>5, DoingCall DEF UpdateEvent
  <2>2. OwnedBy(r.event, r.team) /\ event' = UpdatedEvents(r)
    BY <1>3, <1>5 DEF UpdateEvent
  <2>3. CASE e \in SeriesScope(r) \ {r.event}
    <3>1. event'[e] = SeriesPatched(event[e], r.team, r.patch)
      BY <1>1, <2>1, <2>2, <2>3, UpdatedTyped
    <3>2. /\ SeriesPatched(event[e], r.team, r.patch) \in EventRows
          /\ Described(SeriesPatched(event[e], r.team, r.patch)) = Described(event[e])
      BY <1>1, <1>2, <2>1, SeriesPatchedTyped DEF UpdateCalls
    <3> QED
      BY <3>1, <3>2, RowsAssumption DEF Reaches
  <2>4. CASE e \notin SeriesScope(r) \cup {r.event}
    BY <1>1, <1>3, <2>1, <2>2, <2>4, UpdatedTyped
  <2> QED
    BY <2>3, <2>4
<1>6. CASE SetStatus(q)
  <2> DEFINE s == event[r.event].series
             swept == IF r.scope = "series" /\ s # Null
                      THEN {x \in FromToday(OccurrencesOf(s)) : TargetedBy(x, r.team)} ELSE {}
  <2>1. e \notin swept
    BY <1>2 DEF FromToday
  <2>2. event' = IF ~TargetedBy(r.event, r.team) THEN event
                 ELSE [x \in Events |-> IF x \in swept \cup {r.event}
                                        THEN Switched(event[x], r.cancelled) ELSE event[x]]
    BY <1>6 DEF SetStatus
  <2> HIDE DEF swept
  <2> QED
    BY <1>1, <1>3, <2>1, <2>2
<1>7. CASE DeleteSingle(q)
  <2>1. Drop({x \in {r.event} : OwnedBy(x, r.team)})
    BY <1>7 DEF DeleteSingle
  <2>2. e \in {x \in {r.event} : OwnedBy(x, r.team)}
    BY <1>1, <1>3, <2>1 DEF Drop
  <2> QED
    BY <2>2
<1>8. CASE DeleteSeriesRemainder(q)
  <2> DEFINE E == {x \in FromToday(OccurrencesOf(r.series)) \cup ({r.event} \cap Live) :
                     OwnedBy(x, r.team)}
  <2>1. Drop(E)
    BY <1>8 DEF DeleteSeriesRemainder
  <2>2. e \in E
    BY <1>1, <1>3, <2>1 DEF Drop
  <2> QED
    BY <1>2, <2>2 DEF FromToday
<1> QED
  BY <1>4, <1>5, <1>6, <1>7, <1>8 DEF EventStep

\* No step changes or deletes more than one occurrence that is already past: a change
\* to the rest of a series, its status or its deletion reaches, of the past, the
\* occurrence it names and no other.
THEOREM PastStaysKept == Spec => PastKept
<1> DEFINE Body ==
      \A e, f \in Live :
         /\ e # f
         /\ event[e].date < Today /\ event[f].date < Today
         /\ event'[e] = Null \/ Described(event'[e]) # Described(event[e])
         => event'[f] # Null /\ Described(event'[f]) = Described(event[f])
<1>1. EventsInv /\ [Next]_vars => [Body]_vars
  <2> SUFFICES ASSUME EventsInv, Next PROVE Body
    OBVIOUS
  <2> SUFFICES ASSUME NEW e \in Live, NEW f \in Live, e # f,
                      event[e].date < Today, event[f].date < Today,
                      event'[e] = Null \/ Described(event'[e]) # Described(event[e])
               PROVE  event'[f] # Null /\ Described(event'[f]) = Described(event[f])
    OBVIOUS
  <2>1. CASE \E q \in Requests : EventStep(q)
    <3>1. PICK q \in Requests : EventStep(q)
      BY <2>1
    <3>2. e = req[q].event
      BY <3>1, PastOutOfReach DEF EventsInv, Reaches
    <3>3. Reaches(f) => f = req[q].event
      BY <3>1, PastOutOfReach DEF EventsInv
    <3> QED
      BY <3>2, <3>3 DEF Reaches
  <2>2. CASE UNCHANGED event
    BY <2>2 DEF Live
  <2>3. (\E q \in Requests : EventStep(q)) \/ UNCHANGED event
    BY Steps DEF Admission, LookUpSeries, AnswerStep, SetAttendance, Denominate, Nominate,
                 AddComment, AbsenceStep, LockTeam, CheckOverlap, InsertAbsence, MoveAbsence,
                 SetStatsRelevance, DeleteAbsence, Around, tables
  <2> QED
    BY <2>1, <2>2, <2>3
<1> QED
  BY <1>1, EventsInvInit, EventsInvNext, PTL DEF Spec, PastKept

-----------------------------------------------------------------------------
(* The views.                                                                  *)

\* The lateral join and the roster pick the same membership.
LEMMA SameTeam ==
  ASSUME NEW e, NEW u, NEW t
  PROVE  LateralTeam(e, u, t) = IdentityTeam(e, u, t)
  BY DEF LateralTeam, IdentityTeam, TeamsOf

\* The status in SQL and the status in Go.
LEMMA SameStatus ==
  ASSUME NEW e, NEW u, NEW t
  PROVE  ComputeEffective(answer[e][u], AbsenceCovers(t, u, event[e]), event[e].optOut).status
           = EffectiveStatus(t, u, e)
  BY DEF ComputeEffective, EffectiveStatus

\* The query for a page of events counts for each what the query for one counts.
LEMMA SummariesAgree ==
  ASSUME EventsTypeOK, RostersTypeOK, NEW t, NEW E \in SUBSET Live, NEW e \in E
  PROVE  Summaries(E, t)[e] = Summary(e, t)
<1> DEFINE M == MembersOf(event[e].targets)
           Has(s) == {u \in M : EffectiveStatus(LateralTeam(e, u, t), u, e) = s}
           Rows == {r \in E \X Users : r[2] \in MembersOf(event[r[1]].targets)}
           Found(s) == {r \in Rows :
                          r[1] = e /\ EffectiveStatus(LateralTeam(e, r[2], t), r[2], e) = s}
<1>1. M \subseteq Users /\ e \in Events
  <2>1. event[e] \in EventRows /\ e \in Events
    BY DEF EventsTypeOK, Live
  <2> QED
    BY <2>1 DEF MembersOf, EventRows, RostersTypeOK
<1>2. ASSUME NEW s \in Statuses PROVE Cardinality(Found(s)) = Cardinality(Has(s))
  <2> DEFINE U == Has(s)
  <2>1. U \subseteq Users
    BY <1>1
  <2>2. IsFiniteSet(U)
    BY <2>1, FS_Subset, TablesAssumption
  <2>3. Found(s) = {<<e, u>> : u \in U}
    <3>1. ASSUME NEW r \in Found(s) PROVE r \in {<<e, u>> : u \in U}
      <4>1. r = <<e, r[2]>> /\ r[2] \in U
        OBVIOUS
      <4> QED
        BY <4>1
    <3>2. ASSUME NEW u \in U PROVE <<e, u>> \in Found(s)
      <4>1. <<e, u>> \in E \X Users /\ u \in M
        BY <2>1
      <4> QED
        BY <4>1
    <3> QED
      BY <3>1, <3>2
  <2> HIDE DEF U, Found
  <2>4. Cardinality({<<e, u>> : u \in U}) = Cardinality(U)
    BY <2>2, PairsCounted DEF Paired
  <2> QED
    BY <2>3, <2>4 DEF U
<1>3. Summary(e, t) = [s \in Statuses |-> Cardinality(Has(s))]
  BY DEF Summary
<1>4. Summaries(E, t)[e] = [s \in Statuses |-> Cardinality(Found(s))]
  BY DEF Summaries
<1> HIDE DEF Has, Found
<1> QED
  BY <1>2, <1>3, <1>4

LEMMA ViewsMatch ==
  ASSUME EventsTypeOK, RostersTypeOK
  PROVE  ViewsAgree
<1>1. ASSUME NEW e \in Live, NEW t \in event[e].targets
      PROVE  LET rows == ListAttendance(e, t) IN
             /\ \A s \in Statuses :
                  Summary(e, t)[s] = Cardinality({u \in DOMAIN rows : rows[u].status = s})
             /\ \A u \in members[t] : MyAttendance(e, u, t) = rows[u]
  <2> DEFINE rows == ListAttendance(e, t)
             M == MembersOf(event[e].targets)
             Row(u) == ComputeEffective(answer[e][u],
                         AbsenceCovers(IdentityTeam(e, u, t), u, event[e]), event[e].optOut)
  <2>1. rows = [u \in M |-> Row(u)]
    BY DEF ListAttendance
  <2>2. \A u \in M : Row(u).status = EffectiveStatus(LateralTeam(e, u, t), u, e)
    BY SameStatus, SameTeam
  <2>3. \A u \in members[t] : u \in M /\ IdentityTeam(e, u, t) = t
    BY DEF MembersOf, IdentityTeam
  <2>4. \A u \in members[t] : MyAttendance(e, u, t) = Row(u)
    BY <2>3 DEF MyAttendance
  <2> HIDE DEF Row, rows
  <2>5. \A u \in members[t] : MyAttendance(e, u, t) = rows[u]
    BY <2>1, <2>3, <2>4
  <2>6. ASSUME NEW s \in Statuses
        PROVE  Summary(e, t)[s] = Cardinality({u \in DOMAIN rows : rows[u].status = s})
    <3>1. {u \in DOMAIN rows : rows[u].status = s}
            = {u \in M : EffectiveStatus(LateralTeam(e, u, t), u, e) = s}
      BY <2>1, <2>2
    <3> QED
      BY <3>1 DEF Summary
  <2> QED
    BY <2>5, <2>6 DEF rows
<1>2. ASSUME NEW t \in Teams, NEW u \in members[t], NEW e \in DOMAIN ListEvents(u, t)
      PROVE  ListEvents(u, t)[e] = EnrichEvent(e, u, t)
  <2> DEFINE E == {x \in Live : TargetedBy(x, t)}
             Entry(x) == [summary |-> Summaries(E, t)[x],
                          own |-> MyAttendances(E, u, t)[x].status, shared |-> CrossTeams(x)]
  <2>1. ListEvents(u, t) = [x \in E |-> Entry(x)]
    BY DEF ListEvents
  <2>2. e \in E /\ ListEvents(u, t)[e] = Entry(e)
    BY <2>1
  <2>3. E \in SUBSET Live
    OBVIOUS
  <2>4. MyAttendances(E, u, t)[e] = MyAttendance(e, u, t)
    BY <2>2 DEF MyAttendances, MyAttendance
  <2> HIDE DEF E
  <2>5. Summaries(E, t)[e] = Summary(e, t)
    BY <2>2, <2>3, SummariesAgree
  <2> QED
    BY <2>2, <2>4, <2>5 DEF EnrichEvent
<1> QED
  BY <1>1, <1>2 DEF ViewsAgree

-----------------------------------------------------------------------------
(* Lists of attendance, put together by several queries.                       *)

Listings == [stage: {"roster", "teams", "shown"}, event: Events, team: Teams,
             rows: SUBSET Users, own: SUBSET Users, shared: BOOLEAN, full: SUBSET Users,
             unshared: BOOLEAN]

\* A roster of an event that only the viewer's team sees lists that team's members.
ListingSound(l) ==
  /\ l.stage = "roster" /\ ~l.shared => l.rows \subseteq l.own
  /\ l.stage = "shown" /\ ~l.unshared => l.full \subseteq l.own
ListingInv ==
  /\ listing \in [Requests -> Listings \cup {Null}]
  /\ \A q \in Requests : listing[q] # Null => ListingSound(listing[q])

ViewsInv == EventsInv /\ ListingInv

LEMMA ListingKept ==
  ASSUME ListingInv, NEW q \in Requests, NEW l \in Listings, ListingSound(l),
         listing' = [listing EXCEPT ![q] = l]
  PROVE  ListingInv'
<1>1. /\ listing' \in [Requests -> Listings \cup {Null}]
      /\ \A p \in Requests : listing'[p] = IF p = q THEN l ELSE listing[p]
  BY DEF ListingInv
<1>2. \A p \in Requests : listing'[p] # Null => ListingSound(listing'[p])
  BY <1>1 DEF ListingInv
<1> QED
  BY <1>1, <1>2 DEF ListingInv

LEMMA ReadRosterKeeps ==
  ASSUME EventsTypeOK, RostersTypeOK, ListingInv, NEW q \in Requests, NEW e \in Events,
         NEW t \in Teams, ReadRoster(q, e, t)
  PROVE  ListingInv'
<1> DEFINE T == event[e].targets
           l == [stage |-> "roster", event |-> e, team |-> t, rows |-> MembersOf(T),
                 own |-> members[t], shared |-> Cardinality(T) > 1, full |-> {},
                 unshared |-> FALSE]
<1>1. T \subseteq Teams /\ t \in T
  BY DEF ReadRoster, TargetedBy, EventsTypeOK, EventRows
<1>2. MembersOf(T) \in SUBSET Users /\ members[t] \in SUBSET Users
  BY <1>1 DEF MembersOf, RostersTypeOK
<1>3. ~(Cardinality(T) > 1) => MembersOf(T) \subseteq members[t]
  <2> SUFFICES ASSUME ~(Cardinality(T) > 1) PROVE MembersOf(T) \subseteq members[t]
    OBVIOUS
  <2>1. IsFiniteSet(T)
    BY <1>1, FS_Subset, TablesAssumption
  <2>2. Cardinality({t}) = 1 /\ Cardinality({t}) <= Cardinality(T) /\ Cardinality(T) \in Nat
        /\ (Cardinality(T) = Cardinality({t}) => T = {t})
    BY <1>1, <2>1, FS_Subset, FS_Singleton, FS_CardinalityType
  <2>3. T = {t}
    BY <2>2
  <2> QED
    BY <2>3 DEF MembersOf
<1>4. listing' = [listing EXCEPT ![q] = l]
  BY DEF ReadRoster
<1>5. l \in Listings /\ ListingSound(l)
  <2> DEFINE rows == MembersOf(T)
             own == members[t]
             several == Cardinality(T) > 1
  <2>1. l = [stage |-> "roster", event |-> e, team |-> t, rows |-> rows, own |-> own,
             shared |-> several, full |-> {}, unshared |-> FALSE]
    OBVIOUS
  <2>2. rows \in SUBSET Users /\ own \in SUBSET Users /\ several \in BOOLEAN
        /\ (~several => rows \subseteq own)
    BY <1>2, <1>3
  <2> HIDE DEF l, rows, own, several
  <2> QED
    BY <2>1, <2>2 DEF Listings, ListingSound
<1> HIDE DEF l
<1> QED
  BY <1>4, <1>5, ListingKept

LEMMA ReadEventTeamsKeeps ==
  ASSUME ListingInv, NEW q \in Requests, ReadEventTeams(q)
  PROVE  ListingInv'
<1> DEFINE l == listing[q]
           asking == [l EXCEPT !.stage = "teams"]
           shown == [l EXCEPT !.stage = "shown", !.full = l.rows, !.unshared = l.shared]
<1>1. l \in Listings /\ ListingSound(l) /\ l.stage = "roster"
  BY DEF ReadEventTeams, ListingInv
<1>2. \/ listing' = [listing EXCEPT ![q] = asking]
      \/ listing' = [listing EXCEPT ![q] = shown]
  BY DEF ReadEventTeams
<1> HIDE DEF l
<1>3. asking \in Listings /\ ListingSound(asking)
  BY <1>1 DEF Listings, ListingSound
<1>4. shown \in Listings /\ ListingSound(shown)
  BY <1>1 DEF Listings, ListingSound
<1> HIDE DEF asking, shown
<1> QED
  BY <1>2, <1>3, <1>4, ListingKept

LEMMA ReadMemberTeamsKeeps ==
  ASSUME RostersTypeOK, ListingInv, NEW q \in Requests, ReadMemberTeams(q)
  PROVE  ListingInv'
<1> DEFINE l == listing[q]
           targets == IF event[l.event] = Null THEN {} ELSE event[l.event].targets
           full == IF l.team \in targets THEN ShownInFull(l, MembersOf(targets)) ELSE {}
           shown == [l EXCEPT !.stage = "shown", !.own = l.own \cup members[l.team],
                              !.full = full]
<1>1. l \in Listings /\ l.team \in Teams
  BY DEF ReadMemberTeams, ListingInv, Listings
<1>2. members[l.team] \in SUBSET Users /\ full \subseteq members[l.team]
  BY <1>1 DEF RostersTypeOK, ShownInFull
<1>3. listing' = [listing EXCEPT ![q] = shown]
  BY DEF ReadMemberTeams
<1> HIDE DEF full, l
<1>4. shown \in Listings /\ ListingSound(shown)
  BY <1>1, <1>2 DEF Listings, ListingSound
<1> HIDE DEF shown
<1> QED
  BY <1>3, <1>4, ListingKept

LEMMA ViewsInvInit == ViewInit => ViewsInv
  BY EventsInvInit DEF ViewInit, ViewsInv, ListingInv

LEMMA ViewsInvNext == ViewsInv /\ [ViewNext]_viewVars => ViewsInv'
<1> SUFFICES ASSUME ViewsInv, [ViewNext]_viewVars PROVE ViewsInv'
  OBVIOUS
<1>1. [Next]_vars
  BY DEF ViewNext, viewVars, ListNext, ReadRoster, ReadEventTeams, ReadMemberTeams, Answered
<1>2. EventsInv'
  BY <1>1, EventsInvNext DEF ViewsInv
<1>3. CASE ListNext
  <2>1. EventsTypeOK /\ RostersTypeOK /\ ListingInv
    BY DEF ViewsInv, EventsInv
  <2>2. ASSUME NEW q \in Requests, Answered(q) PROVE ListingInv'
    BY <2>1, <2>2 DEF Answered, ListingInv
  <2>3. ListingInv'
    BY <1>3, <2>1, <2>2, ReadRosterKeeps, ReadEventTeamsKeeps, ReadMemberTeamsKeeps
       DEF ListNext
  <2> QED
    BY <1>2, <2>3 DEF ViewsInv
<1>4. CASE UNCHANGED listing
  BY <1>2, <1>4 DEF ViewsInv, ListingInv
<1> QED
  BY <1>3, <1>4 DEF ViewNext, viewVars

\* A summary counts the rows of the roster, a member's own status is their row, and
\* the list of events says what the event's page says, for whichever team looks.
THEOREM ViewsAlwaysAgree == ViewSpec => []ViewsAgree
<1>1. ViewsInv => ViewsAgree
  BY ViewsMatch DEF ViewsInv, EventsInv
<1> QED
  BY <1>1, ViewsInvInit, ViewsInvNext, PTL DEF ViewSpec

\* Whoever a list shows in full was in the viewer's team at one of its two looks at
\* the rosters, whatever became of the event and its teams between the queries.
THEOREM StrangersStayRedacted == ViewSpec => []ForeignersRedacted
<1>1. ViewsInv => ForeignersRedacted
  BY DEF ViewsInv, ListingInv, ListingSound, ForeignersRedacted
<1> QED
  BY <1>1, ViewsInvInit, ViewsInvNext, PTL DEF ViewSpec

-----------------------------------------------------------------------------
(* The statistics.                                                             *)

\* Tallies that see the same yes, and the same that count, are the same.
LEMMA TalliesAgree ==
  ASSUME NEW E, NEW a, NEW b,
         \A e \in E : /\ a[e] = "yes" <=> b[e] = "yes"
                      /\ a[e] \in {"yes", "no", "maybe"} <=> b[e] \in {"yes", "no", "maybe"}
  PROVE  Tally(E, a) = Tally(E, b)
<1>1. /\ {e \in E : a[e] = "yes"} = {e \in E : b[e] = "yes"}
      /\ {e \in E : a[e] \in {"yes", "no", "maybe"}}
           = {e \in E : b[e] \in {"yes", "no", "maybe"}}
  OBVIOUS
<1> QED
  BY <1>1 DEF Tally

\* A member's quote, their row of the matrix and their own view.
LEMMA QuotesAgree ==
  ASSUME NEW t, NEW E, NEW u \in members[t] \ uncounted[t]
  PROVE  /\ MemberStats(t, E)[u] = MatrixRow(t, E, u)
         /\ MemberStats(t, E)[u] = SingleMemberStats(t, u, E)
<1> DEFINE a == [e \in E |-> StatStatus(t, u, e)]
           b == MatrixCells(t, E)[u]
           c == [e \in E |-> IF u \in uncounted[t] THEN "pending" ELSE StatStatus(t, u, e)]
<1>1. MemberStats(t, E)[u] = Tally(E, a)
  BY DEF MemberStats
<1>2. \A e \in E : b[e] = IF answer[e][u] = Null /\ NotRelevantAbsenceCovers(t, u, event[e])
                          THEN "pending" ELSE EffectiveStatus(t, u, e)
  BY DEF MatrixCells
<1>3. \A e \in E : a[e] = IF answer[e][u] = Null /\ NotRelevantAbsenceCovers(t, u, event[e])
                          THEN "excluded" ELSE EffectiveStatus(t, u, e)
  BY DEF StatStatus
<1>4. \A e \in E : c[e] = a[e]
  OBVIOUS
<1>5. MatrixRow(t, E, u) = Tally(E, b) /\ SingleMemberStats(t, u, E) = Tally(E, c)
  BY DEF MatrixRow, SingleMemberStats
<1> HIDE DEF a, b, c
<1>6. Tally(E, b) = Tally(E, a)
  <2>1. \A e \in E : /\ b[e] = "yes" <=> a[e] = "yes"
                     /\ b[e] \in {"yes", "no", "maybe"} <=> a[e] \in {"yes", "no", "maybe"}
    BY <1>2, <1>3
  <2> QED
    BY <2>1, TalliesAgree
<1>7. Tally(E, c) = Tally(E, a)
  BY <1>4, TalliesAgree
<1> QED
  BY <1>1, <1>5, <1>6, <1>7

LEMMA LeftOut ==
  ASSUME NEW t, NEW E, NEW u \in uncounted[t]
  PROVE  SingleMemberStats(t, u, E).counted = 0
<1> DEFINE c == [e \in E |-> IF u \in uncounted[t] THEN "pending" ELSE StatStatus(t, u, e)]
<1>1. {e \in E : c[e] \in {"yes", "no", "maybe"}} = {}
  OBVIOUS
<1>2. SingleMemberStats(t, u, E) = Tally(E, c)
  BY DEF SingleMemberStats
<1> HIDE DEF c
<1> QED
  BY <1>1, <1>2, FS_EmptySet DEF Tally

\* Attendances counted member by member and event by event.
LEMMA TurnoutsAddUp ==
  ASSUME RostersTypeOK, NEW t \in Teams, NEW E \in SUBSET Events, uncounted[t] = {}
  PROVE  Total([u \in members[t] |-> MemberStats(t, E)[u].yes], members[t])
           = Total([e \in E |-> EventStats(t, e).yes], E)
<1> DEFINE M == members[t]
           R == {p \in M \X E : StatStatus(t, p[1], p[2]) = "yes"}
           f == [u \in M |-> MemberStats(t, E)[u].yes]
           g == [e \in E |-> EventStats(t, e).yes]
<1>1. IsFiniteSet(M) /\ IsFiniteSet(E)
  BY TablesAssumption, FS_Subset DEF RostersTypeOK
<1>2. \A u \in M, e \in E : <<u, e>> \in R <=> StatStatus(t, u, e) = "yes"
  OBVIOUS
<1>3. R \in SUBSET (M \X E)
  OBVIOUS
<1>4. ASSUME NEW u \in M PROVE f[u] = Cardinality(InRow(R, E, u))
  <2> DEFINE a == [e \in E |-> StatStatus(t, u, e)]
  <2>0. u \in members[t] \ uncounted[t]
    OBVIOUS
  <2>1. MemberStats(t, E)[u] = Tally(E, a)
    BY <2>0 DEF MemberStats
  <2>2. {e \in E : a[e] = "yes"} = InRow(R, E, u)
    BY <1>2 DEF InRow
  <2> HIDE DEF a, R
  <2> QED
    BY <2>1, <2>2 DEF Tally
<1>5. ASSUME NEW e \in E PROVE g[e] = Cardinality(InColumn(R, M, e))
  <2>1. {u \in M : StatStatus(t, u, e) = "yes"} = InColumn(R, M, e)
    BY <1>2 DEF InColumn
  <2> HIDE DEF R
  <2> QED
    BY <2>1 DEF EventStats
<1>6. Total(f, M) = Total(g, E)
  <2>1. PICK m, r, x, y : m = M /\ r = R /\ x = f /\ y = g
    OBVIOUS
  <2> HIDE DEF f, g, R, M
  <2>2. /\ IsFiniteSet(m) /\ IsFiniteSet(E) /\ r \in SUBSET (m \X E)
        /\ \A u \in m : x[u] = Cardinality(InRow(r, E, u))
        /\ \A e \in E : y[e] = Cardinality(InColumn(r, m, e))
    BY <1>1, <1>3, <1>4, <1>5, <2>1
  <2>3. Total(x, m) = Total(y, E)
    BY <2>2, CountBothWays
  <2> QED
    BY <2>1, <2>3
<1> QED
  BY <1>6

\* The turnout of an event of one team, with no absence that does not count.
LEMMA TurnoutIsSummary ==
  ASSUME \A a \in Absences : absence[a] # Null => ~absence[a].irrelevant,
         NEW t, NEW e, event[e].targets = {t}
  PROVE  EventStats(t, e).yes = Summary(e, t)["yes"]
<1>1. MembersOf(event[e].targets) = members[t]
  BY DEF MembersOf
<1>2. \A u \in members[t] : LateralTeam(e, u, t) = t
  BY DEF LateralTeam, TeamsOf
<1>3. \A u : ~ NotRelevantAbsenceCovers(t, u, event[e])
  BY DEF NotRelevantAbsenceCovers, Covers
<1>4. \A u \in members[t] : StatStatus(t, u, e) = EffectiveStatus(LateralTeam(e, u, t), u, e)
  BY <1>2, <1>3 DEF StatStatus
<1>5. {u \in members[t] : StatStatus(t, u, e) = "yes"}
        = {u \in members[t] : EffectiveStatus(LateralTeam(e, u, t), u, e) = "yes"}
  BY <1>4
<1>6. "yes" \in Statuses
  BY DEF Statuses, Replies
<1> QED
  BY <1>1, <1>5, <1>6 DEF EventStats, Summary

LEMMA StatsMatch ==
  ASSUME EventsTypeOK, RostersTypeOK
  PROVE  StatsReconcile
<1> SUFFICES ASSUME NEW t \in Teams
             PROVE  LET E == Counting(t, Days)
                        quotes == MemberStats(t, E) IN
    /\ \A u \in members[t] \ uncounted[t] :
         quotes[u] = MatrixRow(t, E, u) /\ quotes[u] = SingleMemberStats(t, u, E)
    /\ \A u \in members[t] \cap uncounted[t] : SingleMemberStats(t, u, E).counted = 0
    /\ uncounted[t] = {} =>
         Total([u \in members[t] |-> quotes[u].yes], members[t])
           = Total([e \in E |-> EventStats(t, e).yes], E)
    /\ (\A a \in Absences : absence[a] # Null => ~absence[a].irrelevant) =>
         \A e \in Live :
           event[e].targets = {t} => EventStats(t, e).yes = Summary(e, t)["yes"]
  BY DEF StatsReconcile
<1> DEFINE E == Counting(t, Days)
           quotes == MemberStats(t, E)
<1>1. E \in SUBSET Events
  BY DEF Counting, Live
<1> HIDE DEF E
<1>2. \A u \in members[t] \ uncounted[t] :
        quotes[u] = MatrixRow(t, E, u) /\ quotes[u] = SingleMemberStats(t, u, E)
  BY QuotesAgree
<1>3. \A u \in members[t] \cap uncounted[t] : SingleMemberStats(t, u, E).counted = 0
  BY LeftOut
<1>4. uncounted[t] = {} =>
        Total([u \in members[t] |-> quotes[u].yes], members[t])
          = Total([e \in E |-> EventStats(t, e).yes], E)
  BY <1>1, TurnoutsAddUp
<1>5. (\A a \in Absences : absence[a] # Null => ~absence[a].irrelevant) =>
        \A e \in Live :
          event[e].targets = {t} => EventStats(t, e).yes = Summary(e, t)["yes"]
  BY TurnoutIsSummary
<1> QED
  BY <1>2, <1>3, <1>4, <1>5 DEF E

\* The statistics reconcile, for any members, events and absences: a member's quote is
\* their row of the matrix and their own view, the attendances of the members are the
\* turnouts of the events, and a turnout is what the event's summary counts.
\* (stats.Repository: three queries over the same rows.)
THEOREM StatsAlwaysReconcile == ViewSpec => []StatsReconcile
<1>1. ViewsInv => StatsReconcile
  BY StatsMatch DEF ViewsInv, EventsInv
<1> QED
  BY <1>1, ViewsInvInit, ViewsInvNext, PTL DEF ViewSpec

=============================================================================
