------------------------------- MODULE MCEvents -------------------------------
(* Small instances of EventViews for TLC. A run goes through several scenes:  *)
(* each starts from a state the program reaches and lets some of the          *)
(* operations interleave.                                                     *)
EXTENDS EventViews, TLC

CONSTANTS u1, u2, e1, e2, e3, s1, s2, a1, a2, c1, c2, c3, q1, q2

VARIABLES scene, left   \* the scene, and how many more requests it admits
mcVars == <<viewVars, scene, left>>

MCDays == {1, 8, 15}
Weekly(n) == [date |-> 1, last |-> Null, recurring |-> TRUE, weeks |-> n, end |-> Null,
              extra |-> {}, optOut |-> TRUE, lead |-> Null, excluded |-> FALSE]
MCCreations ==
  {Weekly(2), Weekly(3),
   [Weekly(1) EXCEPT !.end = 15, !.extra = {2}],
   [Weekly(1) EXCEPT !.recurring = FALSE, !.last = 8, !.extra = {2}]}
MCPatches ==
  {[last |-> Null], [lead |-> 1, excluded |-> TRUE], [targets |-> {}], [targets |-> {2}], [date |-> 15],
   [last |-> 8]}

Single(d, T, optOut, lead) ==
  [owner |-> 1, targets |-> T, series |-> Null, date |-> d, last |-> Null, cancelled |-> FALSE,
   optOut |-> optOut, lead |-> lead, excluded |-> FALSE]

Blank(E, M, W) ==
  /\ event = [e \in Events |-> IF e \in DOMAIN E THEN E[e] ELSE Null]
  /\ series = {E[e].series : e \in DOMAIN E} \ {Null}
  /\ members = M /\ writers = W
  /\ comment = [c \in Comments |-> Null]
  /\ lock = [t \in Teams |-> Null]
  /\ req = [q \in Requests |-> Null]
  /\ listing = [q \in Requests |-> Null]

NoAnswers == answer = [e \in Events |-> [u \in Users |-> Null]]
NoAbsences == absence = [a \in Absences |-> Null]
AllCounted == uncounted = [t \in Teams |-> {}]
Plain == NoAnswers /\ NoAbsences /\ AllCounted

\* u1 organizes team 1 and shares an event with team 2, where u2 is; answers close
\* at the start of the event's day.
AnswersInit ==
  /\ scene = "answers" /\ left = 3 /\ clock = 1 /\ Plain
  /\ Blank(e1 :> Single(1, {1, 2}, FALSE, 1), <<{u1, u2}, {u2}>>, <<{u1}, {}>>)
AnswersScene ==
  /\ scene = "answers"
  /\ \/ AnswerNext({r \in AnswerCalls : r.event = e1 /\ r.status \in {"yes", "not_nominated"}})
     \/ NominateNext({r \in NominateCalls : r.event = e1})
     \/ StatusNext({r \in StatusCalls : r.event = e1 /\ r.scope = "single"})
     \/ SetRoles(1, u1) \/ RemoveMember(1, u2) \/ (Tick /\ clock < 3)
  /\ UNCHANGED listing

\* A series of three weeks: two occurrences held, one to come tomorrow.
SeriesOf(s, d, T) == [Single(d, T, TRUE, Null) EXCEPT !.series = s]
SeriesInit ==
  /\ scene = "series" /\ left = 2 /\ clock = 29 /\ Plain
  /\ Blank((e1 :> SeriesOf(s1, 1, {1, 2})) @@ (e2 :> SeriesOf(s1, 8, {1}))
             @@ (e3 :> SeriesOf(s1, 15, {1, 2})), <<{u1}, {u2}>>, <<{u1}, {u2}>>)
SeriesScene ==
  /\ scene = "series"
  /\ \/ UpdateNext(UpdateCalls) \/ StatusNext(StatusCalls) \/ DeleteNext(DeleteCalls)
     \/ Tick /\ clock < 32
  /\ UNCHANGED listing

\* Nothing planned yet; one user organizes both teams, the other one team.
CreateInit ==
  /\ scene = "create" /\ left = 2 /\ clock = 0 /\ Plain
  /\ Blank(<<>>, <<{u1, u2}, {u2}>>, <<{u1, u2}, {u2}>>)
CreateScene ==
  /\ scene = "create"
  /\ \/ CreateNext(CreateCalls)
     \/ DeleteNext({r \in DeleteCalls : event[r.event] # Null})
  /\ UNCHANGED listing

\* One member's absences, whose relevance the organizer settles.
AbsencesInit ==
  /\ scene = "absences" /\ left = 3 /\ clock = 0 /\ Plain
  /\ Blank(<<>>, <<{u1, u2}, {}>>, <<{u2}, {}>>)
AbsencesScene ==
  /\ scene = "absences"
  /\ \/ AbsenceNext({r \in AbsenceCalls \cup MoveCalls :
                       r.caller = u1 /\ r.team = 1 /\ 15 \notin {r.from, r.to}})
     \/ RelevanceNext(RelevanceCalls)
     \/ RemoveMember(1, u1)
  /\ UNCHANGED listing

CommentsInit ==
  /\ scene = "comments" /\ left = 3 /\ clock = 0 /\ Plain
  /\ Blank(e1 :> Single(1, {1}, FALSE, Null), <<{u1, u2}, {}>>, <<{u1}, {}>>)
CommentsScene ==
  /\ scene = "comments"
  /\ \/ CommentNext({r \in CommentCalls : r.event = e1})
     \/ DeleteNext({r \in DeleteCalls : r.event = e1})
     \/ RemoveMember(1, u2)
  /\ UNCHANGED listing

\* An event of two teams, listed while its targets and its teams change: one list
\* beside one request.
ListsInit ==
  /\ scene = "lists" /\ left = 1 /\ clock = 0 /\ Plain
  /\ Blank(e1 :> Single(1, {1, 2}, FALSE, Null), <<{u1}, {u2}>>, <<{u1}, {u2}>>)
ListsScene ==
  /\ scene = "lists"
  /\ \/ ListNext /\ \A q, p \in Requests : listing'[q] # Null /\ listing'[p] # Null => q = p
     \/ /\ \/ UpdateNext({r \in UpdateCalls :
                            r.event = e1 /\ r.scope = "single" /\ "targets" \in DOMAIN r.patch})
           \/ DeleteNext({r \in DeleteCalls : r.event = e1 /\ r.scope = "single"})
           \/ \E t \in Teams, u \in Users : Join(t, u) \/ RemoveMember(t, u)
        /\ UNCHANGED listing

\* Every combination of what a view depends on.
ViewsInit ==
  /\ scene = "views" /\ left = 0 /\ clock = 4
  /\ \E T \in {{1}, {1, 2}}, d \in {1, 8}, o, x \in BOOLEAN,
        M \in {<<{u1}, {u2}>>, <<{u1, u2}, {u2}>>, <<{u1}, {u1, u2}>>, <<{u1, u2}, {u1, u2}>>} :
       Blank((e1 :> [Single(d, T, o, Null) EXCEPT !.last = 8, !.excluded = x])
               @@ (e2 :> Single(15, {1}, TRUE, Null)), M, <<{u1}, {}>>)
  /\ \E f \in [Users -> {Null, "yes", "not_nominated"}] :
       answer = [e \in Events |-> IF e = e1 THEN f ELSE [u \in Users |-> Null]]
  /\ \/ NoAbsences
     \/ \E t \in Teams, u \in Users, r \in {<<1, 1>>, <<8, 8>>, <<1, 15>>}, i \in BOOLEAN :
          absence = [a \in Absences |->
            IF a = a1
            THEN [team |-> t, user |-> u, from |-> r[1], to |-> r[2], irrelevant |-> i]
            ELSE Null]
  /\ uncounted = <<{}, {}>>
ViewsScene ==
  /\ scene = "views"
  /\ SetExclusion(1, u1)
  /\ UNCHANGED listing

\* Bound: a scene admits as many requests as it has left.
MCInit ==
  \/ AnswersInit \/ SeriesInit \/ CreateInit \/ AbsencesInit
  \/ CommentsInit \/ ListsInit \/ ViewsInit
MCNext ==
  /\ \/ AnswersScene \/ SeriesScene \/ CreateScene \/ AbsencesScene
     \/ CommentsScene \/ ListsScene \/ ViewsScene
  /\ left' = left - Cardinality({q \in Requests : req[q] = Null /\ req'[q] # Null})
  /\ left' >= 0
  /\ UNCHANGED scene
MCSpec == MCInit /\ [][MCNext]_mcVars

\* Which slot serves a request, and which row an absence gets, makes no difference.
Symmetry == Permutations({q1, q2}) \cup Permutations({a1, a2})
=============================================================================
