---------------------------- MODULE PushJobsProofs ----------------------------
(***************************************************************************)
(* What jobs that die after any statement and are run again, and overlapping *)
(* runs of the reminder, cannot break; and that a backlog of one table does  *)
(* not keep retention from the next.                                       *)
(***************************************************************************)
EXTENDS PushJobs, Retention, SumsProofs

\* Where a run is at one member's device.
Deciding == {"prefs", "push", "mark", "commit"}

PushTypeOK ==
  /\ now \in 0..Horizon
  /\ members \subseteq Pairs /\ readers \subseteq Pairs
  /\ state \in [Jobs -> {"none", "available", "running", "done", "discarded"}]
  /\ run \in [Workers -> Run \cup {Nothing}]

\* A job that is being run is run by one worker.
RunsApart ==
  /\ \A w \in Workers : run[w] # Nothing => state[run[w].job] = "running"
  /\ \A v, w \in Workers :
       run[v] # Nothing /\ run[w] # Nothing /\ run[v].job = run[w].job => v = w

\* The devices a run may still push.
Ahead(r) == r.todo \cup (IF r.pc \in Deciding THEN {r.target} ELSE {})

\* The run of a notification that stored its row is the only one to push it, and has
\* each device ahead of it once.
NoteSound(r) ==
  /\ r.pc \in {"insert", "subs", "next", "prefs", "push"}
  /\ r.pc # "insert" => r.job \in stored
  /\ r.pc = "subs" => \A p \in Pushes : p.cause # r.job
  /\ r.pc \in {"insert", "subs"} => r.todo = {}
  /\ r.candidates = {}
  /\ \A m \in Ahead(r) :
       /\ \A k \in Ahead(r) : k.device = m.device => k = m
       /\ \A p \in Pushes : p.cause = r.job => p.device # m.device
  /\ r.pc \in Deciding => r.target \notin r.todo

\* The run of a reminder is at an event, and about to send what nobody has marked.
TickSound(r) ==
  /\ r.pc \in {"events", "next", "prefs", "mark", "commit"}
  /\ Ahead(r) # {} => r.current \in Candidate
  /\ r.pc = "commit" => Reminder(r) \notin marked

RunSound(r) ==
  /\ r.job \in Notes => NoteSound(r)
  /\ r.job \in Ticks => TickSound(r)
  /\ r.pc \in Deciding => r.target \in Target /\ <<TeamOf(r), r.target.user>> \in r.could
  /\ readers \cup r.allowed \subseteq r.could

\* Two transactions never hold the same marker.
OneMarker ==
  \A v, w \in Workers :
    At(v, "commit") /\ At(w, "commit") /\ Reminder(run[v]) = Reminder(run[w]) => v = w

\* What was pushed was pushed once, is marked if it is a reminder, and stored if it is
\* a notification.
PushesSound ==
  /\ Pushes \subseteq Push
  /\ \A p \in Pushes : enqueued[p] = 1
  /\ \A p \in Pushes : p.cause \in Events => <<p.cause, p.user>> \in marked
  /\ \A p \in Pushes : p.cause \in Notes => p.cause \in stored

PushInv ==
  /\ PushTypeOK
  /\ RunsApart
  /\ \A w \in Workers : run[w] # Nothing => RunSound(run[w])
  /\ OneMarker
  /\ PushesSound
  /\ PushedOnce

-----------------------------------------------------------------------------
(* Lemmas about runs and bags.                                             *)

\* Enqueueing a push that was never enqueued leaves one copy of each.
LEMMA AddOne ==
  ASSUME NEW p, p \notin Pushes, \A e \in Pushes : enqueued[e] = 1,
         enqueued' = enqueued (+) SetToBag({p})
  PROVE  Pushes' = Pushes \cup {p} /\ \A e \in Pushes' : enqueued'[e] = 1
<1>1. DOMAIN SetToBag({p}) = {p} /\ SetToBag({p})[p] = 1
  BY DEF SetToBag
<1> QED
  BY <1>1 DEF (+), Pushes, BagToSet

\* A run stays sound when others write, but nothing it is to write itself.
LEMMA RunStaysSound ==
  ASSUME NEW w \in Workers, NEW r, RunSound(r), run'[w] = r,
         readers' \subseteq readers, stored \subseteq stored',
         r.job \in Notes => \A p \in Pushes' : p \in Pushes \/ p.cause # r.job,
         r.pc = "commit" => (Reminder(r) \notin marked => Reminder(r) \notin marked')
  PROVE  RunSound(run[w])'
<1>1. r.job \in Notes => NoteSound(run[w])'
  BY DEF RunSound, NoteSound, Ahead, Deciding
<1>2. r.job \in Ticks => TickSound(run[w])'
  BY DEF RunSound, TickSound, Ahead, Deciding, Reminder
<1>3. /\ r.pc \in Deciding => r.target \in Target /\ <<TeamOf(r), r.target.user>> \in r.could
      /\ readers' \cup r.allowed \subseteq r.could
  BY DEF RunSound
<1> QED
  BY <1>1, <1>2, <1>3 DEF RunSound, TeamOf

\* When one run takes a step and nothing else changes, only it is to be looked at.
LEMMA RunMoves ==
  ASSUME PushInv, NEW w \in Workers, run[w] # Nothing,
         NEW q \in Run, q.job = run[w].job, run' = [run EXCEPT ![w] = q],
         UNCHANGED <<now, members, readers, state, stored, marked, enqueued>>,
         RunSound(q),
         q.pc = "commit" => \A v \in Workers \ {w} :
                              At(v, "commit") => Reminder(run[v]) # Reminder(q)
  PROVE  PushInv'
<1>1. run \in [Workers -> Run \cup {Nothing}]
  BY DEF PushInv, PushTypeOK
<1>2. run'[w] = q /\ \A v \in Workers : v # w => run'[v] = run[v]
  BY <1>1
<1>3. PushTypeOK'
  BY <1>1 DEF PushInv, PushTypeOK
<1>4. RunsApart'
  BY <1>2 DEF PushInv, RunsApart
<1>5. \A v \in Workers : run'[v] # Nothing => RunSound(run[v])'
  BY <1>2, RunStaysSound DEF PushInv, Pushes
<1>6. OneMarker'
  BY <1>2 DEF PushInv, OneMarker, At, Reminder
<1>7. PushesSound' /\ PushedOnce'
  BY DEF PushInv, PushesSound, PushedOnce, Pushes
<1> QED
  BY <1>3, <1>4, <1>5, <1>6, <1>7 DEF PushInv

LEMMA RunEnds ==
  ASSUME PushInv, NEW w \in Workers, run[w] # Nothing, NEW e \in BOOLEAN, End(w, e),
         UNCHANGED <<now, members, readers, stored, marked, enqueued>>
  PROVE  PushInv'
<1> DEFINE s == IF ~e THEN "done"
                ELSE IF attempt[run[w].job] < MaxAttempts THEN "available"
                ELSE "discarded"
<1>1. run \in [Workers -> Run \cup {Nothing}] /\ run[w] \in Run
  BY DEF PushInv, PushTypeOK
<1>2. /\ run' = [run EXCEPT ![w] = Nothing]
      /\ state' = [state EXCEPT ![run[w].job] = s]
      /\ s \in {"done", "available", "discarded"}
  BY DEF End
<1> HIDE DEF s
<1>3. run'[w] = Nothing /\ \A v \in Workers : v # w => run'[v] = run[v]
  BY <1>1, <1>2
<1>4. PushTypeOK'
  BY <1>1, <1>2 DEF PushInv, PushTypeOK
<1>5. RunsApart'
  <2>1. \A v \in Workers : run'[v] # Nothing =>
          v # w /\ run[v].job # run[w].job /\ run'[v] = run[v]
    BY <1>3 DEF PushInv, RunsApart
  <2>2. \A j : j # run[w].job => state'[j] = state[j]
    BY <1>2 DEF PushInv, PushTypeOK
  <2> QED
    BY <2>1, <2>2 DEF PushInv, RunsApart
<1>6. \A v \in Workers : run'[v] # Nothing => RunSound(run[v])'
  BY <1>3, RunStaysSound DEF PushInv, Pushes
<1>7. OneMarker'
  BY <1>3 DEF PushInv, OneMarker, At, Reminder
<1>8. PushesSound' /\ PushedOnce'
  BY DEF PushInv, PushesSound, PushedOnce, Pushes
<1> QED
  BY <1>4, <1>5, <1>6, <1>7, <1>8 DEF PushInv

\* Whatever else the world does: it takes access away, or has nothing to do with it.
LEMMA RunsRest ==
  ASSUME PushInv, now' \in 0..Horizon, members' \subseteq members,
         readers' \subseteq readers, UNCHANGED <<state, run, stored, marked, enqueued>>
  PROVE  PushInv'
<1>1. \A v \in Workers : run'[v] # Nothing => RunSound(run[v])'
  BY RunStaysSound DEF PushInv, Pushes
<1>2. PushTypeOK' /\ RunsApart' /\ OneMarker'
  BY DEF PushInv, PushTypeOK, RunsApart, OneMarker, At
<1>3. PushesSound' /\ PushedOnce'
  BY DEF PushInv, PushesSound, PushedOnce, Pushes
<1> QED
  BY <1>1, <1>2, <1>3 DEF PushInv

LEMMA PushInvInit == Init => PushInv
<1> SUFFICES ASSUME Init PROVE PushInv
  OBVIOUS
<1>1. PushTypeOK
  BY PushJobsAssumption DEF Init, PushTypeOK
<1>2. Pushes = {}
  BY DEF Init, Pushes, BagToSet, EmptyBag, SetToBag
<1> QED
  BY <1>1, <1>2 DEF Init, PushInv, RunsApart, OneMarker, At, PushesSound, PushedOnce

-----------------------------------------------------------------------------
(* The steps of a run that write nothing.                                  *)

\* What is known of a run in progress.
LEMMA InProgress ==
  ASSUME PushInv, NEW w \in Workers, run[w] # Nothing
  PROVE  /\ run[w] \in Run /\ RunSound(run[w])
         /\ run[w].job \in Notes \/ run[w].job \in Ticks
         /\ ~(run[w].job \in Notes /\ run[w].job \in Ticks)
         /\ run[w].candidates \subseteq Candidate
         /\ run[w].lists \in [Teams -> (SUBSET Target) \cup {Nothing}]
         /\ run[w].todo \subseteq Target
<1>1. run[w] \in Run /\ RunSound(run[w])
  BY DEF PushInv, PushTypeOK
<1>2. /\ run[w].job \in Jobs
      /\ run[w].candidates \subseteq Candidate
      /\ run[w].lists \in [Teams -> (SUBSET Target) \cup {Nothing}]
      /\ run[w].todo \subseteq Target
  BY <1>1 DEF Run
<1> QED
  BY <1>1, <1>2, PushJobsAssumption DEF Jobs

LEMMA DevicesTyped ==
  ASSUME NEW t
  PROVE  /\ DevicesOf(t) \subseteq Target
         /\ \A m, k \in DevicesOf(t) : m.device = k.device => m = k
  BY DEF DevicesOf, Target

LEMMA ListForTeamExcludingUserKeeps ==
  ASSUME PushInv, NEW w \in Workers, ListForTeamExcludingUser(w)
  PROVE  PushInv'
<1> DEFINE r == run[w]
           devices == {m \in DevicesOf(NoteTeam[r.job]) : m.user # Actor[r.job]}
           q == [r EXCEPT !.pc = "next", !.todo = devices]
<1>1. r # Nothing /\ r.pc = "subs" /\ run' = [run EXCEPT ![w] = q]
  BY DEF ListForTeamExcludingUser, At
<1>2. r \in Run /\ RunSound(r) /\ r.job \in Notes
  BY <1>1, InProgress DEF RunSound, TickSound
<1>3. devices \subseteq Target /\ \A m, k \in devices : m.device = k.device => m = k
  BY DevicesTyped
<1> HIDE DEF devices
<1>4. q \in Run /\ q.job = r.job /\ q.pc = "next" /\ q.todo = devices
        /\ q.candidates = r.candidates /\ q.allowed = r.allowed /\ q.could = r.could
  BY <1>2, <1>3 DEF Run
<1> HIDE DEF q
<1>5. \A p \in Pushes : p.cause # r.job
  BY <1>1, <1>2 DEF RunSound, NoteSound
<1>6. RunSound(q)
  BY <1>1, <1>2, <1>3, <1>4, <1>5, PushJobsAssumption
    DEF RunSound, NoteSound, Ahead, Deciding
<1> QED
  BY <1>1, <1>4, <1>6, RunMoves DEF ListForTeamExcludingUser, worldVars, jobVars, effectVars

LEMMA ListUpcomingForRemindersKeeps ==
  ASSUME PushInv, NEW w \in Workers, ListUpcomingForReminders(w)
  PROVE  PushInv'
<1> DEFINE r == run[w]
           found == {c \in Candidate : /\ c.event \notin cancelled
                                       /\ c.team \in Targets[c.event]
                                       /\ c.start = start[c.event]
                                       /\ c.start > r.now}
           q == [r EXCEPT !.pc = "next", !.candidates = found]
<1>1. r # Nothing /\ r.pc = "events" /\ run' = [run EXCEPT ![w] = q]
  BY DEF ListUpcomingForReminders, At
<1>2. r \in Run /\ RunSound(r) /\ r.job \in Ticks /\ r.job \notin Notes
  BY <1>1, InProgress DEF RunSound, NoteSound
<1>3. found \subseteq Candidate
  OBVIOUS
<1> HIDE DEF found
<1>4. q \in Run /\ q.job = r.job /\ q.pc = "next" /\ q.todo = r.todo
        /\ q.current = r.current /\ q.allowed = r.allowed /\ q.could = r.could
  BY <1>2, <1>3 DEF Run
<1> HIDE DEF q
<1>5. RunSound(q)
  BY <1>1, <1>2, <1>4 DEF RunSound, TickSound, Ahead, Deciding
<1> QED
  BY <1>1, <1>4, <1>5, RunMoves DEF ListUpcomingForReminders, worldVars, jobVars, effectVars

LEMMA ListForTeamKeeps ==
  ASSUME PushInv, NEW w \in Workers, ListForTeam(w)
  PROVE  PushInv'
<1> DEFINE r == run[w]
<1>1. r # Nothing /\ r.pc = "next" /\ r \in Run /\ RunSound(r) /\ r.todo = {}
  BY InProgress DEF ListForTeam, At
<1>2. PICK c \in r.candidates :
        LET devices == IF r.lists[c.team] = Nothing THEN DevicesOf(c.team)
                       ELSE r.lists[c.team]
        IN run' = [run EXCEPT ![w] = AtEvent(@, c, devices)]
  BY DEF ListForTeam
<1> DEFINE devices == IF r.lists[c.team] = Nothing THEN DevicesOf(c.team)
                      ELSE r.lists[c.team]
           lists == [r.lists EXCEPT ![c.team] = devices]
           q == AtEvent(r, c, devices)
<1>3. run' = [run EXCEPT ![w] = q]
  BY <1>2
<1>4. r.candidates \subseteq Candidate /\ c \in Candidate
  BY <1>1, InProgress
<1>5. devices \subseteq Target /\ lists \in [Teams -> (SUBSET Target) \cup {Nothing}]
  <2>1. r.lists \in [Teams -> (SUBSET Target) \cup {Nothing}] /\ c.team \in Teams
    BY <1>1, <1>4, InProgress DEF Candidate
  <2>2. DevicesOf(c.team) \subseteq Target
    BY DevicesTyped
  <2>3. r.lists[c.team] # Nothing => r.lists[c.team] \subseteq Target
    BY <2>1
  <2> QED
    BY <2>1, <2>2, <2>3
<1> HIDE DEF lists, devices, q
<1>6. q \in Run /\ q.job = r.job /\ q.pc = "next" /\ q.todo = devices
        /\ q.current = c /\ q.allowed = r.allowed /\ q.could = r.could
  BY <1>1, <1>4, <1>5 DEF Run, AtEvent, lists, q
<1>7. r.job \notin Notes
  BY <1>1 DEF RunSound, NoteSound
<1>8. RunSound(q)
  BY <1>1, <1>4, <1>6, <1>7 DEF RunSound, TickSound, Ahead, Deciding
<1> QED
  BY <1>1, <1>3, <1>6, <1>8, RunMoves DEF ListForTeam, worldVars, jobVars, effectVars

\* Whoever the run goes on to was found a reader in the same run.
LEMMA GetPermissionsKeeps ==
  ASSUME PushInv, NEW w \in Workers, GetPermissions(w)
  PROVE  PushInv'
<1> DEFINE r == run[w]
<1>1. r # Nothing /\ r.pc = "next" /\ r \in Run /\ RunSound(r)
  BY InProgress DEF GetPermissions, At
<1>2. PICK m \in r.todo :
        LET pair == <<TeamOf(r), m.user>>
            allow == \/ pair \in r.allowed
                     \/ pair \notin r.denied /\ pair \in readers
        IN run' = [run EXCEPT ![w] = Judged(@, m, pair, allow)]
  BY DEF GetPermissions
<1> DEFINE pair == <<TeamOf(r), m.user>>
           allow == \/ pair \in r.allowed
                    \/ pair \notin r.denied /\ pair \in readers
           q == Judged(r, m, pair, allow)
<1>3. run' = [run EXCEPT ![w] = q]
  BY <1>2
<1>4. m \in Target /\ pair \in Pairs
  <2>1. m \in Target
    BY <1>1, InProgress
  <2>2. TeamOf(r) \in Teams
    <3>1. CASE r.job \in Notes
      BY <3>1, PushJobsAssumption DEF TeamOf
    <3>2. CASE r.job \notin Notes
      <4>1. r.job \in Ticks /\ m \in Ahead(r)
        BY <1>1, <3>2, InProgress DEF Ahead
      <4> QED
        BY <1>1, <3>2, <4>1 DEF TeamOf, RunSound, TickSound, Candidate
    <3> QED
      BY <3>1, <3>2
  <2> QED
    BY <2>1, <2>2 DEF Target, Pairs
<1> HIDE DEF pair
<1>5. allow => pair \in r.could
  BY <1>1 DEF RunSound
<1> HIDE DEF allow
<1>6. /\ q.job = r.job /\ q.todo = r.todo \ {m} /\ q.could = r.could
      /\ q.current = r.current /\ q.candidates = r.candidates
      /\ q.allowed = IF allow THEN r.allowed \cup {pair} ELSE r.allowed
      /\ q.pc = IF allow THEN "prefs" ELSE "next"
      /\ allow => q.target = m
  BY <1>1 DEF Run, Judged
<1>7. q \in Run
  BY <1>1, <1>4 DEF Run, Judged
<1> HIDE DEF q
<1>8. Ahead(q) \subseteq Ahead(r) /\ TeamOf(q) = TeamOf(r)
  BY <1>1, <1>6 DEF Ahead, Deciding, TeamOf
<1>9. q.job \in Notes => NoteSound(q)
  BY <1>1, <1>6, <1>8 DEF RunSound, NoteSound, Deciding
<1>10. q.job \in Ticks => TickSound(q)
  BY <1>1, <1>6, <1>8 DEF RunSound, TickSound, Deciding
<1>11. RunSound(q)
  BY <1>1, <1>4, <1>5, <1>6, <1>8, <1>9, <1>10 DEF RunSound, Deciding, pair
<1> QED
  BY <1>1, <1>3, <1>6, <1>7, <1>11, RunMoves DEF GetPermissions, worldVars, jobVars, effectVars

\* A run that goes on has at most what it had ahead of it.
LEMMA GoesOn ==
  ASSUME NEW r, NEW q, RunSound(r), r.pc \in Deciding \cup {"next"}, q.pc = "next",
         q.job = r.job, q.todo \subseteq r.todo, q.candidates \subseteq r.candidates,
         q.current = r.current, q.allowed = r.allowed, q.could = r.could
  PROVE  RunSound(q)
<1>1. Ahead(q) \subseteq Ahead(r)
  BY DEF Ahead, Deciding
<1>2. q.job \in Notes => NoteSound(q)
  BY <1>1 DEF RunSound, NoteSound, Deciding
<1>3. q.job \in Ticks => TickSound(q)
  BY <1>1 DEF RunSound, TickSound, Deciding
<1> QED
  BY <1>2, <1>3 DEF RunSound, Deciding

\* A run that stays with a member's device.
LEMMA StaysThere ==
  ASSUME NEW r, NEW q, RunSound(r), r.pc \in Deciding, q.pc \in Deciding,
         q.job = r.job, q.todo = r.todo, q.candidates = r.candidates,
         q.current = r.current, q.allowed = r.allowed, q.could = r.could,
         q.target = r.target,
         q.job \in Notes => q.pc \in {"prefs", "push"},
         q.job \in Ticks => q.pc \in {"prefs", "mark", "commit"},
         q.pc = "commit" => Reminder(q) \notin marked
  PROVE  RunSound(q)
<1>1. Ahead(q) = Ahead(r) /\ TeamOf(q) = TeamOf(r)
  BY DEF Ahead, TeamOf
<1>2. q.job \in Notes => NoteSound(q)
  BY <1>1 DEF RunSound, NoteSound, Deciding
<1>3. q.job \in Ticks => TickSound(q)
  BY <1>1 DEF RunSound, TickSound, Deciding
<1> QED
  BY <1>1, <1>2, <1>3 DEF RunSound

LEMMA Skipped ==
  ASSUME NEW r \in Run
  PROVE  /\ Skip(r) \in Run /\ Skip(r).pc = "next" /\ Skip(r).job = r.job
         /\ Skip(r).todo = r.todo /\ Skip(r).candidates = r.candidates
         /\ Skip(r).current = r.current /\ Skip(r).allowed = r.allowed
         /\ Skip(r).could = r.could
  BY DEF Run, Skip

LEMMA GetCategoryKeeps ==
  ASSUME PushInv, NEW w \in Workers, GetCategory(w)
  PROVE  PushInv'
<1> DEFINE r == run[w]
           u == r.target.user
           yes == Willing(r, u)
           no == Unwilling(r, u)
<1>1. /\ r # Nothing /\ r.pc = "prefs" /\ r \in Run /\ RunSound(r)
      /\ r.job \in Notes /\ r.job \notin Ticks
  BY InProgress DEF GetCategory, At
<1>2. UNCHANGED <<now, members, readers, state, stored, marked, enqueued>>
  BY DEF GetCategory, worldVars, jobVars, effectVars
<1>3. u \in Users
  BY <1>1 DEF RunSound, Deciding, Target
<1>4. run' = [run EXCEPT ![w] = yes] \/ run' = [run EXCEPT ![w] = no]
  BY DEF GetCategory
<1> HIDE DEF u
<1>5. CASE run' = [run EXCEPT ![w] = yes]
  <2>1. /\ yes \in Run /\ yes.pc = "push" /\ yes.job = r.job /\ yes.todo = r.todo
        /\ yes.candidates = r.candidates /\ yes.current = r.current
        /\ yes.allowed = r.allowed /\ yes.could = r.could /\ yes.target = r.target
    BY <1>1, <1>3 DEF Run, Willing
  <2> HIDE DEF yes
  <2>2. RunSound(yes)
    BY <1>1, <2>1, StaysThere DEF Deciding
  <2> QED
    BY <1>1, <1>2, <1>5, <2>1, <2>2, RunMoves
<1>6. CASE run' = [run EXCEPT ![w] = no]
  <2>1. /\ no \in Run /\ no.pc = "next" /\ no.job = r.job /\ no.todo = r.todo
        /\ no.candidates = r.candidates /\ no.current = r.current
        /\ no.allowed = r.allowed /\ no.could = r.could
    BY <1>1, <1>3, Skipped DEF Run, Unwilling
  <2> HIDE DEF no
  <2>2. RunSound(no)
    BY <1>1, <2>1, GoesOn DEF Deciding
  <2> QED
    BY <1>1, <1>2, <1>6, <2>1, <2>2, RunMoves
<1> QED
  BY <1>4, <1>5, <1>6

LEMMA GetReminderPreferenceKeeps ==
  ASSUME PushInv, NEW w \in Workers, GetReminderPreference(w)
  PROVE  PushInv'
<1> DEFINE r == run[w]
           due == [r EXCEPT !.pc = "mark"]
<1>1. /\ r # Nothing /\ r.pc = "prefs" /\ r \in Run /\ RunSound(r)
      /\ r.job \in Ticks /\ r.job \notin Notes
  BY InProgress DEF GetReminderPreference, At
<1>2. UNCHANGED <<now, members, readers, state, stored, marked, enqueued>>
  BY DEF GetReminderPreference, worldVars, jobVars, effectVars
<1>3. run' = [run EXCEPT ![w] = due] \/ run' = [run EXCEPT ![w] = Skip(r)]
  BY DEF GetReminderPreference
<1>4. CASE run' = [run EXCEPT ![w] = due]
  <2>1. /\ due \in Run /\ due.pc = "mark" /\ due.job = r.job /\ due.todo = r.todo
        /\ due.candidates = r.candidates /\ due.current = r.current
        /\ due.allowed = r.allowed /\ due.could = r.could /\ due.target = r.target
    BY <1>1 DEF Run
  <2> HIDE DEF due
  <2>2. RunSound(due)
    BY <1>1, <2>1, StaysThere DEF Deciding
  <2> QED
    BY <1>1, <1>2, <1>4, <2>1, <2>2, RunMoves
<1>5. CASE run' = [run EXCEPT ![w] = Skip(r)]
  <2>1. RunSound(Skip(r))
    BY <1>1, Skipped, GoesOn DEF Deciding
  <2> QED
    BY <1>1, <1>2, <1>5, <2>1, Skipped, RunMoves
<1> QED
  BY <1>3, <1>4, <1>5

\* The transaction that goes on is the only one to hold the marker.
LEMMA MarkReminderKeeps ==
  ASSUME PushInv, NEW w \in Workers, MarkReminder(w)
  PROVE  PushInv'
<1> DEFINE r == run[w]
           mine == [r EXCEPT !.pc = "commit"]
<1>1. /\ r # Nothing /\ r.pc = "mark" /\ r \in Run /\ RunSound(r)
      /\ r.job \in Ticks /\ r.job \notin Notes
  BY InProgress DEF MarkReminder, At, RunSound, NoteSound
<1>2. UNCHANGED <<now, members, readers, state, stored, marked, enqueued>>
  BY DEF MarkReminder, worldVars, jobVars, effectVars
<1>3. \/ run' = [run EXCEPT ![w] = mine] /\ Reminder(r) \notin marked
      \/ run' = [run EXCEPT ![w] = Skip(r)]
  BY DEF MarkReminder
<1>4. CASE run' = [run EXCEPT ![w] = mine] /\ Reminder(r) \notin marked
  <2>1. /\ mine \in Run /\ mine.pc = "commit" /\ mine.job = r.job /\ mine.todo = r.todo
        /\ mine.candidates = r.candidates /\ mine.current = r.current
        /\ mine.allowed = r.allowed /\ mine.could = r.could /\ mine.target = r.target
    BY <1>1 DEF Run
  <2> HIDE DEF mine
  <2>2. Reminder(mine) = Reminder(r)
    BY <2>1 DEF Reminder
  <2>3. RunSound(mine)
    BY <1>1, <1>4, <2>1, <2>2, StaysThere DEF Deciding
  <2>4. \A v \in Workers \ {w} : At(v, "commit") => Reminder(run[v]) # Reminder(mine)
    BY <2>2 DEF MarkReminder
  <2> QED
    BY <1>1, <1>2, <1>4, <2>1, <2>3, <2>4, RunMoves
<1>5. CASE run' = [run EXCEPT ![w] = Skip(r)]
  <2>1. RunSound(Skip(r))
    BY <1>1, Skipped, GoesOn DEF Deciding
  <2> QED
    BY <1>1, <1>2, <1>5, <2>1, Skipped, RunMoves
<1> QED
  BY <1>3, <1>4, <1>5

\* After an error a run ends, or goes on with what it has ahead.
LEMMA StatementFailsKeeps ==
  ASSUME PushInv, NEW w \in Workers, StatementFails(w)
  PROVE  PushInv'
<1> DEFINE r == run[w]
<1>1. r # Nothing /\ r \in Run /\ RunSound(r)
  BY InProgress DEF StatementFails, At
<1>2. UNCHANGED <<now, members, readers, stored, marked, enqueued>>
  BY DEF StatementFails, worldVars, effectVars
<1>3. ASSUME NEW q \in Run, q.pc = "next", RunSound(q), q.job = r.job,
             run' = [run EXCEPT ![w] = q], UNCHANGED state
      PROVE  PushInv'
  BY <1>1, <1>2, <1>3, RunMoves
<1>4. CASE (At(w, "events") \/ At(w, "insert")) /\ End(w, TRUE)
  BY <1>1, <1>2, <1>4, RunEnds
<1>5. CASE At(w, "subs") /\ End(w, FALSE)
  BY <1>1, <1>2, <1>5, RunEnds
<1>6. CASE /\ \E pc \in {"mark", "commit"} : At(w, pc)
           /\ run' = [run EXCEPT ![w] = Faulted(@)]
           /\ UNCHANGED state
  <2> DEFINE q == Faulted(r)
  <2>1. r.pc \in Deciding /\ run' = [run EXCEPT ![w] = q]
    BY <1>6 DEF At, Deciding
  <2>2. /\ q \in Run /\ q.pc = "next" /\ q.job = r.job /\ q.todo = r.todo
        /\ q.candidates = r.candidates /\ q.current = r.current
        /\ q.allowed = r.allowed /\ q.could = r.could
    BY <1>1, Skipped DEF Run, Faulted
  <2> HIDE DEF q
  <2>3. RunSound(q)
    BY <1>1, <2>1, <2>2, GoesOn
  <2> QED
    BY <1>3, <1>6, <2>1, <2>2, <2>3
<1>7. CASE /\ At(w, "push") \/ At(w, "prefs")
           /\ run' = [run EXCEPT ![w] = Skip(@)]
           /\ UNCHANGED state
  <2>1. r.pc \in Deciding /\ run' = [run EXCEPT ![w] = Skip(r)]
    BY <1>7 DEF At, Deciding
  <2>2. RunSound(Skip(r))
    BY <1>1, <2>1, Skipped, GoesOn
  <2> QED
    BY <1>1, <1>3, <1>7, <2>1, <2>2, Skipped
<1>8. CASE /\ At(w, "next")
           /\ \E m \in r.todo : run' = [run EXCEPT ![w] = PastMember(@, m)]
           /\ UNCHANGED state
  <2>1. PICK m \in r.todo : run' = [run EXCEPT ![w] = PastMember(@, m)]
    BY <1>8
  <2> DEFINE q == PastMember(r, m)
  <2>2. /\ q \in Run /\ q.pc = "next" /\ q.job = r.job /\ q.todo \subseteq r.todo
        /\ q.candidates = r.candidates /\ q.current = r.current
        /\ q.allowed = r.allowed /\ q.could = r.could
    BY <1>1, <1>8 DEF Run, PastMember, At
  <2>3. run' = [run EXCEPT ![w] = q]
    BY <2>1
  <2> HIDE DEF q
  <2>4. RunSound(q)
    BY <1>1, <1>8, <2>2, GoesOn DEF At
  <2> QED
    BY <1>3, <1>8, <2>2, <2>3, <2>4
<1>9. CASE /\ At(w, "next")
           /\ \E c \in r.candidates : run' = [run EXCEPT ![w] = PastEvent(@, c)]
           /\ UNCHANGED state
  <2>1. PICK c \in r.candidates : run' = [run EXCEPT ![w] = PastEvent(@, c)]
    BY <1>9
  <2> DEFINE q == PastEvent(r, c)
  <2>2. /\ q \in Run /\ q.pc = "next" /\ q.job = r.job /\ q.todo = r.todo
        /\ q.candidates \subseteq r.candidates /\ q.current = r.current
        /\ q.allowed = r.allowed /\ q.could = r.could
    BY <1>1, <1>9 DEF Run, PastEvent, At
  <2>3. run' = [run EXCEPT ![w] = q]
    BY <2>1
  <2> HIDE DEF q
  <2>4. RunSound(q)
    BY <1>1, <1>9, <2>2, GoesOn DEF At
  <2> QED
    BY <1>3, <1>9, <2>2, <2>3, <2>4
<1> QED
  BY <1>4, <1>5, <1>6, <1>7, <1>8, <1>9 DEF StatementFails

LEMMA RunOverKeeps ==
  ASSUME PushInv, NEW w \in Workers, Complete(w) \/ Crash(w)
  PROVE  PushInv'
<1>1. CASE Complete(w)
  <2>1. run[w] # Nothing /\ run[w].failed \in BOOLEAN
    BY <1>1, InProgress DEF Complete, At, Run
  <2> QED
    BY <1>1, <2>1, RunEnds DEF Complete, worldVars, effectVars
<1>2. CASE Crash(w)
  BY <1>2, RunEnds DEF Crash, worldVars, effectVars
<1> QED
  BY <1>1, <1>2

-----------------------------------------------------------------------------
(* The steps that write.                                                   *)

\* The run that stores the notification is the first to push it: whoever pushed it
\* had stored it.
LEMMA InsertNotificationKeeps ==
  ASSUME PushInv, NEW w \in Workers, InsertNotification(w)
  PROVE  PushInv'
<1> DEFINE r == run[w]
           q == [r EXCEPT !.pc = "subs"]
<1>1. r # Nothing /\ r.pc = "insert" /\ r \in Run /\ RunSound(r)
  BY InProgress DEF InsertNotification, At
<1>2. r.job \in Notes /\ r.job \notin Ticks
  BY <1>1, InProgress DEF RunSound, TickSound
<1>3. UNCHANGED <<now, members, readers, marked, enqueued>>
  BY DEF InsertNotification, worldVars
<1>4. CASE r.job \in stored
  BY <1>1, <1>3, <1>4, RunEnds DEF InsertNotification
<1>5. CASE r.job \notin stored
  <2>1. /\ stored' = stored \cup {r.job} /\ UNCHANGED state
        /\ run' = [run EXCEPT ![w] = q]
    BY <1>5 DEF InsertNotification
  <2>2. /\ q \in Run /\ q.job = r.job /\ q.pc = "subs" /\ q.todo = r.todo
        /\ q.candidates = r.candidates /\ q.allowed = r.allowed /\ q.could = r.could
    BY <1>1 DEF Run
  <2> HIDE DEF q
  <2>3. run \in [Workers -> Run \cup {Nothing}]
    BY DEF PushInv, PushTypeOK
  <2>4. run'[w] = q /\ \A v \in Workers : v # w => run'[v] = run[v]
    BY <2>1, <2>3
  <2>5. PushTypeOK' /\ RunsApart'
    <3>1. PushTypeOK'
      BY <1>3, <2>1, <2>2, <2>3 DEF PushInv, PushTypeOK
    <3>2. RunsApart'
      BY <1>1, <2>1, <2>2, <2>4 DEF PushInv, RunsApart
    <3> QED
      BY <3>1, <3>2
  <2>6. \A v \in Workers : run'[v] # Nothing => RunSound(run[v])'
    <3>1. \A p \in Pushes : p.cause # r.job
      BY <1>2, <1>5 DEF PushInv, PushesSound
    <3>2. r.todo = {} /\ r.candidates = {}
      BY <1>1, <1>2 DEF RunSound, NoteSound
    <3>3. NoteSound(run[w])'
      BY <1>2, <1>3, <2>1, <2>2, <2>4, <3>1, <3>2 DEF NoteSound, Ahead, Deciding, Pushes
    <3>4. readers' \cup q.allowed \subseteq q.could
      BY <1>1, <1>3, <2>2 DEF RunSound
    <3>5. RunSound(run[w])'
      BY <1>2, <2>2, <2>4, <3>3, <3>4 DEF RunSound, Deciding
    <3>6. \A v \in Workers : v # w /\ run'[v] # Nothing => RunSound(run[v])'
      BY <1>3, <2>1, <2>4, RunStaysSound DEF PushInv, Pushes
    <3> QED
      BY <2>4, <3>5, <3>6
  <2>7. OneMarker'
    BY <2>2, <2>4 DEF PushInv, OneMarker, At, Reminder
  <2>8. PushesSound' /\ PushedOnce'
    BY <1>3, <2>1 DEF PushInv, PushesSound, PushedOnce, Pushes
  <2> QED
    BY <2>5, <2>6, <2>7, <2>8 DEF PushInv
<1> QED
  BY <1>4, <1>5

\* The devices ahead of a run have not been pushed.
LEMMA InsertPushKeeps ==
  ASSUME PushInv, NEW w \in Workers, InsertPush(w)
  PROVE  PushInv'
<1> DEFINE r == run[w]
           p == PushFor(r, r.job)
           q == Skip(r)
<1>1. r # Nothing /\ r.pc = "push" /\ r \in Run /\ RunSound(r)
  BY InProgress DEF InsertPush, At
<1>2. r.job \in Notes /\ r.job \notin Ticks /\ NoteSound(r)
  BY <1>1, InProgress DEF RunSound, TickSound
<1>3. /\ UNCHANGED <<now, members, readers, state, stored, marked>>
      /\ enqueued' = enqueued (+) SetToBag({p})
      /\ run' = [run EXCEPT ![w] = q]
  BY DEF InsertPush, Enqueue, worldVars, jobVars
<1>4. /\ r.target \in Target /\ r.target \in Ahead(r) /\ r.target \notin r.todo
      /\ r.job \in stored
  BY <1>1, <1>2 DEF RunSound, NoteSound, Ahead, Deciding
<1>5. /\ p \in Push /\ p.cause = r.job /\ p.device = r.target.device
      /\ p.user = r.target.user
  BY <1>2, <1>4 DEF PushFor, Push, Target
<1> HIDE DEF p
<1>6. \A x \in Pushes : x.cause = r.job => x.device # p.device
  BY <1>2, <1>4, <1>5 DEF NoteSound
<1>7. Pushes' = Pushes \cup {p} /\ \A x \in Pushes' : enqueued'[x] = 1
  <2>1. p \notin Pushes /\ \A x \in Pushes : enqueued[x] = 1
    BY <1>5, <1>6 DEF PushInv, PushesSound
  <2>2. enqueued' = enqueued (+) SetToBag({p})
    BY <1>3
  <2> QED
    BY <2>1, <2>2, AddOne
<1>8. run \in [Workers -> Run \cup {Nothing}]
  BY DEF PushInv, PushTypeOK
<1>9. /\ q \in Run /\ q.job = r.job /\ q.pc = "next" /\ q.todo = r.todo
      /\ q.candidates = r.candidates /\ q.allowed = r.allowed /\ q.could = r.could
  BY <1>1, Skipped
<1> HIDE DEF q
<1>10. run'[w] = q /\ \A v \in Workers : v # w => run'[v] = run[v]
  BY <1>3, <1>8
<1>11. PushTypeOK' /\ RunsApart'
  <2>1. PushTypeOK'
    BY <1>3, <1>8, <1>9 DEF PushInv, PushTypeOK
  <2>2. RunsApart'
    BY <1>1, <1>3, <1>9, <1>10 DEF PushInv, RunsApart
  <2> QED
    BY <2>1, <2>2
<1>12. \A v \in Workers : run'[v] # Nothing => RunSound(run[v])'
  <2>1. /\ Ahead(q) = r.todo /\ r.todo \subseteq Ahead(r)
        /\ \A m \in r.todo : m.device # r.target.device
    BY <1>2, <1>4, <1>9 DEF Ahead, Deciding, NoteSound
  <2>2. \A m \in Ahead(q) : \A x \in Pushes' : x.cause = q.job => x.device # m.device
    BY <1>2, <1>5, <1>7, <1>9, <2>1 DEF NoteSound
  <2>3. \A m, k \in Ahead(q) : k.device = m.device => k = m
    BY <1>2, <2>1 DEF NoteSound
  <2>4. NoteSound(run[w])'
    BY <1>2, <1>3, <1>4, <1>9, <1>10, <2>2, <2>3 DEF NoteSound, Ahead, Deciding
  <2>5. readers' \cup q.allowed \subseteq q.could
    BY <1>1, <1>3, <1>9 DEF RunSound
  <2>6. RunSound(run[w])'
    BY <1>2, <1>9, <1>10, <2>4, <2>5 DEF RunSound, Deciding
  <2>7. \A v \in Workers : v # w /\ run'[v] # Nothing => RunSound(run[v])'
    <3> SUFFICES ASSUME NEW v \in Workers, v # w, run'[v] # Nothing
                 PROVE  RunSound(run[v])'
      OBVIOUS
    <3>1. run'[v] = run[v] /\ RunSound(run[v]) /\ run[v].job # r.job
      BY <1>1, <1>10 DEF PushInv, RunsApart
    <3>2. \A x \in Pushes' : x \in Pushes \/ x.cause # run[v].job
      BY <1>5, <1>7, <3>1
    <3> QED
      BY <1>3, <3>1, <3>2, RunStaysSound
  <2> QED
    BY <1>10, <2>6, <2>7
<1>13. OneMarker'
  BY <1>9, <1>10 DEF PushInv, OneMarker, At, Reminder
<1>14. PushesSound'
  BY <1>2, <1>3, <1>4, <1>5, <1>7, PushJobsAssumption DEF PushInv, PushesSound
<1>15. PushedOnce'
  <2>1. \A x \in Pushes : CopiesOf(x, enqueued') = 1
    BY <1>7 DEF CopiesOf, BagIn, Pushes
  <2>2. CopiesOf(p, enqueued') = 1
    BY <1>7 DEF CopiesOf, BagIn, Pushes
  <2>3. p.cause \in Notes
    BY <1>2, <1>5
  <2> QED
    BY <1>5, <1>6, <1>7, <2>1, <2>2, <2>3 DEF PushInv, PushedOnce, Pushes
<1> QED
  BY <1>11, <1>12, <1>13, <1>14, <1>15 DEF PushInv

\* Nobody has marked the reminder, so nobody has sent it.
LEMMA CommitReminderKeeps ==
  ASSUME PushInv, NEW w \in Workers, CommitReminder(w)
  PROVE  PushInv'
<1> DEFINE r == run[w]
           p == PushFor(r, r.current.event)
           q == Told(r)
<1>1. r # Nothing /\ r.pc = "commit" /\ r \in Run /\ RunSound(r)
  BY InProgress DEF CommitReminder, At
<1>2. r.job \in Ticks /\ r.job \notin Notes /\ TickSound(r)
  BY <1>1, InProgress DEF RunSound, NoteSound
<1>3. /\ UNCHANGED <<now, members, readers, state, stored>>
      /\ marked' = marked \cup {Reminder(r)}
      /\ enqueued' = enqueued (+) SetToBag({p})
      /\ run' = [run EXCEPT ![w] = q]
  BY DEF CommitReminder, Enqueue, worldVars, jobVars
<1>4. /\ r.target \in Target /\ r.current \in Candidate /\ Reminder(r) \notin marked
  BY <1>1, <1>2 DEF RunSound, TickSound, Ahead, Deciding
<1>5. /\ p \in Push /\ p.cause = r.current.event /\ p.cause \in Events
      /\ p.device = r.target.device /\ p.user = r.target.user
      /\ Reminder(r) = <<p.cause, p.user>>
  BY <1>4 DEF PushFor, Push, Target, Candidate, Reminder
<1> HIDE DEF p
<1>6. \A x \in Pushes : x.cause = p.cause => x.user # p.user
  BY <1>4, <1>5 DEF PushInv, PushesSound
<1>7. Pushes' = Pushes \cup {p} /\ \A x \in Pushes' : enqueued'[x] = 1
  <2>1. p \notin Pushes /\ \A x \in Pushes : enqueued[x] = 1
    BY <1>6 DEF PushInv, PushesSound
  <2>2. enqueued' = enqueued (+) SetToBag({p})
    BY <1>3
  <2> QED
    BY <2>1, <2>2, AddOne
<1>8. run \in [Workers -> Run \cup {Nothing}]
  BY DEF PushInv, PushTypeOK
<1>9. /\ q \in Run /\ q.job = r.job /\ q.pc = "next" /\ q.todo = r.todo
      /\ q.candidates = r.candidates /\ q.current = r.current
      /\ q.allowed = r.allowed /\ q.could = r.could
  <2>1. Reminder(r) \in Events \X Users
    BY <1>4 DEF Reminder, Candidate, Target
  <2> HIDE DEF Reminder
  <2> QED
    BY <1>1, <2>1, Skipped DEF Run, Told
<1> HIDE DEF q
<1>10. run'[w] = q /\ \A v \in Workers : v # w => run'[v] = run[v]
  BY <1>3, <1>8
<1>11. PushTypeOK' /\ RunsApart'
  <2>1. PushTypeOK'
    BY <1>3, <1>8, <1>9 DEF PushInv, PushTypeOK
  <2>2. RunsApart'
    BY <1>1, <1>3, <1>9, <1>10 DEF PushInv, RunsApart
  <2> QED
    BY <2>1, <2>2
<1>12. \A v \in Workers : run'[v] # Nothing => RunSound(run[v])'
  <2>1. TickSound(run[w])'
    BY <1>2, <1>9, <1>10 DEF TickSound, Ahead, Deciding
  <2>2. RunSound(run[w])'
    BY <1>1, <1>2, <1>3, <1>9, <1>10, <2>1 DEF RunSound, Deciding
  <2>3. \A v \in Workers : v # w /\ run'[v] # Nothing => RunSound(run[v])'
    <3> SUFFICES ASSUME NEW v \in Workers, v # w, run'[v] # Nothing
                 PROVE  RunSound(run[v])'
      OBVIOUS
    <3>1. run'[v] = run[v] /\ RunSound(run[v])
      BY <1>10 DEF PushInv
    <3>2. run[v].job \in Notes => \A x \in Pushes' : x \in Pushes \/ x.cause # run[v].job
      BY <1>5, <1>7, PushJobsAssumption
    <3>3. run[v].pc = "commit" => Reminder(run[v]) # Reminder(r)
      BY <1>1, <1>10 DEF PushInv, OneMarker, At
    <3> QED
      BY <1>3, <3>1, <3>2, <3>3, RunStaysSound
  <2> QED
    BY <1>10, <2>2, <2>3
<1>13. OneMarker'
  BY <1>9, <1>10 DEF PushInv, OneMarker, At, Reminder
<1>14. PushesSound'
  BY <1>3, <1>5, <1>7, PushJobsAssumption DEF PushInv, PushesSound
<1>15. PushedOnce'
  <2>1. \A x \in Pushes' : CopiesOf(x, enqueued') = 1
    BY <1>7 DEF CopiesOf, BagIn, Pushes
  <2>2. p.cause \notin Notes
    BY <1>5, PushJobsAssumption
  <2> QED
    BY <1>6, <1>7, <2>1, <2>2 DEF PushInv, PushedOnce
<1> QED
  BY <1>11, <1>12, <1>13, <1>14, <1>15 DEF PushInv

-----------------------------------------------------------------------------
(* Jobs come and are taken; the world changes.                             *)

LEMMA EnqueueKeeps ==
  ASSUME PushInv, NEW j \in Jobs, state[j] # "running",
         state' = [state EXCEPT ![j] = "available"],
         UNCHANGED <<now, members, readers, stored, marked, enqueued, run>>
  PROVE  PushInv'
<1>1. PushTypeOK'
  BY DEF PushInv, PushTypeOK
<1>2. RunsApart'
  <2>1. \A i : i # j => state'[i] = state[i]
    BY DEF PushInv, PushTypeOK
  <2>2. \A w \in Workers : run[w] # Nothing => run[w].job # j
    BY DEF PushInv, RunsApart
  <2> QED
    BY <2>1, <2>2 DEF PushInv, RunsApart
<1>3. \A v \in Workers : run'[v] # Nothing => RunSound(run[v])'
  BY RunStaysSound DEF PushInv, Pushes
<1>4. OneMarker' /\ PushesSound' /\ PushedOnce'
  BY DEF PushInv, OneMarker, At, Reminder, PushesSound, PushedOnce, Pushes
<1> QED
  BY <1>1, <1>2, <1>3, <1>4 DEF PushInv

\* A job that is taken is not being run, so nobody else can push what it will.
LEMMA TakeKeeps ==
  ASSUME PushInv, NEW w \in Workers, NEW j \in Jobs, Take(w, j)
  PROVE  PushInv'
<1> DEFINE q == Fresh(j)
<1>1. /\ run[w] = Nothing /\ state[j] = "available"
      /\ state' = [state EXCEPT ![j] = "running"]
      /\ run' = [run EXCEPT ![w] = q]
      /\ UNCHANGED <<now, members, readers, stored, marked, enqueued>>
  BY DEF Take, worldVars, effectVars
<1>2. run \in [Workers -> Run \cup {Nothing}] /\ now \in 0..Horizon /\ readers \subseteq Pairs
  BY DEF PushInv, PushTypeOK
<1>3. /\ q.job = j /\ q.pc = (IF j \in Notes THEN "insert" ELSE "events")
      /\ q.todo = {} /\ q.candidates = {} /\ q.allowed = {} /\ q.could = readers
  BY DEF Fresh
<1>4. q \in Run
  BY <1>2 DEF Fresh, Run
<1> HIDE DEF q
<1>5. run'[w] = q /\ \A v \in Workers : v # w => run'[v] = run[v]
  BY <1>1, <1>2
<1>6. PushTypeOK'
  BY <1>1, <1>2, <1>4 DEF PushInv, PushTypeOK
<1>7. RunsApart'
  <2>1. state'[j] = "running" /\ \A i : i # j => state'[i] = state[i]
    BY <1>1 DEF PushInv, PushTypeOK
  <2>2. \A v \in Workers : v # w /\ run[v] # Nothing => run[v].job # j
    BY <1>1 DEF PushInv, RunsApart
  <2> QED
    BY <1>3, <1>5, <2>1, <2>2 DEF PushInv, RunsApart
<1>8. \A v \in Workers : run'[v] # Nothing => RunSound(run[v])'
  <2>1. NoteSound(run[w])' \/ j \notin Notes
    BY <1>3, <1>5 DEF NoteSound, Ahead, Deciding
  <2>2. TickSound(run[w])' \/ j \notin Ticks
    BY <1>3, <1>5, PushJobsAssumption DEF TickSound, Ahead, Deciding
  <2>3. RunSound(run[w])'
    BY <1>1, <1>3, <1>5, <2>1, <2>2 DEF RunSound, Deciding
  <2>4. \A v \in Workers : v # w /\ run'[v] # Nothing => RunSound(run[v])'
    BY <1>1, <1>5, RunStaysSound DEF PushInv, Pushes
  <2> QED
    BY <2>3, <2>4
<1>9. OneMarker'
  BY <1>3, <1>5 DEF PushInv, OneMarker, At, Reminder
<1>10. PushesSound' /\ PushedOnce'
  BY <1>1 DEF PushInv, PushesSound, PushedOnce, Pushes
<1> QED
  BY <1>6, <1>7, <1>8, <1>9, <1>10 DEF PushInv

\* Whom a role change makes a reader, every run in progress counts as one.
LEMMA ChangeAccessKeeps ==
  ASSUME PushInv, ChangeAccess
  PROVE  PushInv'
<1>1. UNCHANGED <<now, members, state, stored, marked, enqueued>>
  BY DEF ChangeAccess, jobVars, effectVars
<1>2. PICK p \in members :
        IF p \in readers
        THEN readers' = readers \ {p} /\ UNCHANGED run
        ELSE /\ readers' = readers \cup {p}
             /\ run' = [w \in Workers |-> IF run[w] = Nothing THEN Nothing
                                         ELSE MayRead(run[w], p)]
  BY DEF ChangeAccess
<1>3. CASE p \in readers
  <2>1. readers' \subseteq readers /\ now' \in 0..Horizon /\ members' \subseteq members
    BY <1>1, <1>2, <1>3 DEF PushInv, PushTypeOK
  <2>2. UNCHANGED run
    BY <1>2, <1>3
  <2> QED
    BY <1>1, <2>1, <2>2, RunsRest
<1>4. CASE p \notin readers
  <2>1. readers' = readers \cup {p} /\ p \in Pairs
    BY <1>2, <1>4 DEF PushInv, PushTypeOK
  <2>2. run' = [w \in Workers |-> IF run[w] = Nothing THEN Nothing ELSE MayRead(run[w], p)]
    BY <1>2, <1>4
  <2>3. \A w \in Workers : run[w] # Nothing =>
          /\ run[w] \in Run
          /\ run'[w] = MayRead(run[w], p)
    BY <2>2 DEF PushInv, PushTypeOK
  <2>4. \A r \in Run :
          /\ MayRead(r, p) \in Run /\ MayRead(r, p).job = r.job /\ MayRead(r, p).pc = r.pc
          /\ MayRead(r, p).todo = r.todo /\ MayRead(r, p).candidates = r.candidates
          /\ MayRead(r, p).current = r.current /\ MayRead(r, p).target = r.target
          /\ MayRead(r, p).allowed = r.allowed /\ MayRead(r, p).could = r.could \cup {p}
    BY <2>1 DEF MayRead, Run
  <2>5. \A w \in Workers : (run'[w] = Nothing) <=> (run[w] = Nothing)
    <3>1. Nothing \notin Run
      BY NothingIsNoRun
    <3> QED
      BY <2>2, <2>3, <2>4, <3>1
  <2>6. PushTypeOK' /\ RunsApart'
    <3>1. PushTypeOK'
      BY <1>1, <2>1, <2>2, <2>3, <2>4 DEF PushInv, PushTypeOK
    <3>2. RunsApart'
      BY <1>1, <2>3, <2>4, <2>5 DEF PushInv, RunsApart
    <3> QED
      BY <3>1, <3>2
  <2>7. \A v \in Workers : run'[v] # Nothing => RunSound(run[v])'
    <3> SUFFICES ASSUME NEW v \in Workers, run'[v] # Nothing
                 PROVE  RunSound(run[v])'
      OBVIOUS
    <3> DEFINE r == run[v]
    <3>1. /\ run'[v].job = r.job /\ run'[v].pc = r.pc /\ run'[v].todo = r.todo
          /\ run'[v].candidates = r.candidates /\ run'[v].current = r.current
          /\ run'[v].target = r.target /\ run'[v].allowed = r.allowed
          /\ run'[v].could = r.could \cup {p}
      BY <2>3, <2>4, <2>5
    <3>2. RunSound(r)
      BY <2>5 DEF PushInv
    <3>3. r.job \in Notes => NoteSound(run[v])'
      BY <1>1, <3>1, <3>2 DEF RunSound, NoteSound, Ahead, Deciding, Pushes
    <3>4. r.job \in Ticks => TickSound(run[v])'
      BY <1>1, <3>1, <3>2 DEF RunSound, TickSound, Ahead, Deciding, Reminder
    <3> QED
      BY <2>1, <3>1, <3>2, <3>3, <3>4 DEF RunSound, TeamOf
  <2>8. OneMarker'
    BY <2>3, <2>4, <2>5 DEF PushInv, OneMarker, At, Reminder
  <2>9. PushesSound' /\ PushedOnce'
    BY <1>1 DEF PushInv, PushesSound, PushedOnce, Pushes
  <2> QED
    BY <2>6, <2>7, <2>8, <2>9 DEF PushInv
<1> QED
  BY <1>3, <1>4

LEMMA WorldKeeps ==
  ASSUME PushInv, World \/ DeliverPush \/ UNCHANGED vars
  PROVE  PushInv'
<1>1. now \in 0..Horizon
  BY DEF PushInv, PushTypeOK
<1>2. CASE Tock
  BY <1>1, <1>2, RunsRest, PushJobsAssumption DEF Tock, jobVars, effectVars
<1>3. CASE EditEvent
  BY <1>1, <1>3, RunsRest DEF EditEvent, jobVars, effectVars
<1>4. CASE ChangeAccess
  BY <1>4, ChangeAccessKeeps
<1>5. CASE RemoveMember
  <2>1. members' \subseteq members /\ readers' \subseteq readers
    BY <1>5 DEF RemoveMember
  <2> QED
    BY <1>1, <1>5, <2>1, RunsRest DEF RemoveMember, jobVars, effectVars
<1>6. CASE UpsertPreferences
  BY <1>1, <1>6, RunsRest DEF UpsertPreferences, jobVars, effectVars
<1>7. CASE RegisterDevice \/ UnregisterDevice
  BY <1>1, <1>7, RunsRest DEF RegisterDevice, UnregisterDevice, worldVars, jobVars, effectVars
<1>8. CASE DeliverPush
  <2>1. UNCHANGED <<now, members, readers, state, run, stored, marked, enqueued>>
    BY <1>8 DEF DeliverPush, SendPush, PrunePush, PruneOnly, worldVars, jobVars, effectVars
  <2> QED
    BY <1>1, <2>1, RunsRest
<1>9. CASE UNCHANGED vars
  BY <1>1, <1>9, RunsRest DEF vars
<1> QED
  BY <1>2, <1>3, <1>4, <1>5, <1>6, <1>7, <1>8, <1>9 DEF World

-----------------------------------------------------------------------------
(* The theorems.                                                           *)

LEMMA PushInvNext == PushInv /\ [Next]_vars => PushInv'
<1> SUFFICES ASSUME PushInv, [Next]_vars PROVE PushInv'
  OBVIOUS
<1>1. ASSUME NEW w \in Workers, TakeAny(w) PROVE PushInv'
  BY <1>1, TakeKeeps DEF TakeAny
<1>2. ASSUME NEW w \in Workers, Step(w) PROVE PushInv'
  BY <1>2, InsertNotificationKeeps, ListForTeamExcludingUserKeeps, GetPermissionsKeeps,
     GetCategoryKeeps, InsertPushKeeps, ListUpcomingForRemindersKeeps, ListForTeamKeeps,
     GetReminderPreferenceKeeps, MarkReminderKeeps, CommitReminderKeeps, RunOverKeeps
  DEF Step
<1>3. ASSUME NEW w \in Workers, StatementFails(w) \/ Crash(w) PROVE PushInv'
  BY <1>3, StatementFailsKeeps, RunOverKeeps
<1>4. ASSUME NEW n \in Notes, EnqueueNotification(n) PROVE PushInv'
  BY <1>4, EnqueueKeeps DEF EnqueueNotification, Jobs, worldVars, effectVars
<1>5. ASSUME NEW k \in Ticks, EnqueueTick(k) PROVE PushInv'
  BY <1>5, EnqueueKeeps DEF EnqueueTick, Jobs, worldVars, effectVars
<1> QED
  BY <1>1, <1>2, <1>3, <1>4, <1>5, WorldKeeps DEF Next

\* A device is pushed a notification at most once and a member is reminded of an event
\* at most once, for any number of jobs, workers, teams and devices and whatever fails
\* or crashes. (jobs.NotificationWorker.Work, jobs.EventReminderWorker.remindMember.)
THEOREM PushesOnce == Spec => []PushedOnce
<1>1. PushInv => PushedOnce
  BY DEF PushInv
<1> QED
  BY <1>1, PushInvInit, PushInvNext, PTL DEF Spec

\* What a step enqueues, a run in progress sends to somebody who could read.
LEMMA SentToReader ==
  ASSUME PushInv, NEW w \in Workers, run[w] # Nothing, run[w].pc \in Deciding,
         NEW p, p.device = run[w].target.device, p.user = run[w].target.user
  PROVE  /\ run[w].target = [device |-> p.device, user |-> p.user]
         /\ <<TeamOf(run[w]), p.user>> \in run[w].could
<1>1. RunSound(run[w])
  BY DEF PushInv
<1> QED
  BY <1>1 DEF RunSound, Target

\* A push goes only to somebody who could read the module, in the team it is sent for,
\* at some moment of the run that sent it. (jobs.EventReminderWorker.isAllowed.)
THEOREM PushesReachReaders == Spec => PushedToReaders
<1> DEFINE Sent == \A p \in BagToSet(enqueued') :
                     CopiesOf(p, enqueued') > CopiesOf(p, enqueued) =>
                       \E w \in Workers :
                         /\ run[w] # Nothing /\ run[w].target = [device |-> p.device, user |-> p.user]
                         /\ <<TeamOf(run[w]), p.user>> \in run[w].could
<1>1. PushInv /\ [Next]_vars => [Sent]_vars
  <2> SUFFICES ASSUME PushInv, PushInv', Next PROVE Sent
    BY PushInvNext
  <2>1. ASSUME NEW p \in BagToSet(enqueued'), BagIn(p, enqueued)
        PROVE  ~(CopiesOf(p, enqueued') > CopiesOf(p, enqueued))
    BY <2>1 DEF CopiesOf, BagIn, PushInv, PushesSound, Pushes
  <2>2. ASSUME NEW w \in Workers, NEW c, run[w] # Nothing, run[w].pc \in Deciding,
               enqueued' = enqueued (+) SetToBag({PushFor(run[w], c)})
        PROVE  Sent
    <3>1. \A p \in BagToSet(enqueued') : BagIn(p, enqueued) \/ p = PushFor(run[w], c)
      BY <2>2 DEF (+), BagToSet, BagIn, SetToBag
    <3>2. /\ PushFor(run[w], c).device = run[w].target.device
          /\ PushFor(run[w], c).user = run[w].target.user
      BY DEF PushFor
    <3> SUFFICES ASSUME NEW p \in BagToSet(enqueued'),
                        CopiesOf(p, enqueued') > CopiesOf(p, enqueued)
                 PROVE  /\ run[w].target = [device |-> p.device, user |-> p.user]
                        /\ <<TeamOf(run[w]), p.user>> \in run[w].could
      BY <2>2
    <3>3. p = PushFor(run[w], c)
      BY <2>1, <3>1
    <3>4. p.device = run[w].target.device /\ p.user = run[w].target.user
      BY <3>2, <3>3
    <3> QED
      BY <2>2, <3>4, SentToReader
  <2>3. ASSUME UNCHANGED enqueued PROVE Sent
    BY <2>1, <2>3 DEF BagIn
  <2>4. CASE \E w \in Workers : InsertPush(w) \/ CommitReminder(w)
    BY <2>2, <2>4 DEF InsertPush, CommitReminder, At, Enqueue, Deciding
  <2>5. CASE UNCHANGED enqueued
    BY <2>3, <2>5
  <2>6. UNCHANGED enqueued \/ \E w \in Workers : InsertPush(w) \/ CommitReminder(w)
    BY DEF Next, TakeAny, Take, Step, InsertNotification, ListForTeamExcludingUser,
           GetPermissions, GetCategory, ListUpcomingForReminders, ListForTeam,
           GetReminderPreference, MarkReminder, Complete, StatementFails, Crash,
           EnqueueNotification, EnqueueTick, DeliverPush, SendPush, PrunePush, PruneOnly,
           World, Tock, EditEvent, ChangeAccess, RemoveMember, UpsertPreferences,
           RegisterDevice, UnregisterDevice, effectVars
  <2> QED
    BY <2>4, <2>5, <2>6
<1> QED
  BY <1>1, PushInvInit, PushInvNext, PTL DEF Spec, PushedToReaders

-----------------------------------------------------------------------------
(* Retention.                                                              *)

\* What a phase leaves behind: its table is clean, or it had all its time, or it failed.
Left(i) == old[i] = 0 \/ spent[i] = PhaseTimeout \/ i \in failed

\* The phases run in order, and each spends time of its own only.
RetentionInv ==
  /\ old \in [Phases -> Nat]
  /\ spent \in [Phases -> 0 .. PhaseTimeout]
  /\ phase \in 0 .. Over
  /\ \A i \in Phases : IF i < phase THEN Left(i) ELSE i = phase \/ spent[i] = 0

LEMMA RetentionInvInit == RetentionInit => RetentionInv
BY RetentionAssumption DEF RetentionInit, RetentionInv, Phases, Over

\* The timeout of the job is out of reach of the phases: only its own ends a phase.
LEMMA OwnTimeoutOnly ==
  ASSUME spent \in [Phases -> 0 .. PhaseTimeout]
  PROVE  ~ (Elapsed >= Timeout)
<1> DEFINE n == Len(Tables)
<1>1. IsFiniteSet(Phases) /\ Cardinality(Phases) = n
  <2>1. n \in Nat
    BY RetentionAssumption
  <2> HIDE DEF n
  <2>2. IsFiniteSet(1 .. n) /\ Cardinality(1 .. n) = IF 1 > n THEN 0 ELSE n - 1 + 1
    BY <2>1, FS_Interval
  <2>3. (IF 1 > n THEN 0 ELSE n - 1 + 1) = n
    BY <2>1
  <2> QED
    BY <2>2, <2>3 DEF Phases, n
<1>2. Total(spent, Phases) =< n * PhaseTimeout
  BY <1>1, RetentionAssumption, TotalAtMost
<1>3. Total(spent, Phases) \in Nat
  BY <1>1, RetentionAssumption, TotalNat
<1>4. n \in Nat /\ PhaseTimeout \in Nat /\ PhaseTimeout > 0
  BY RetentionAssumption
<1> HIDE DEF n
<1>5. (n + 1) * PhaseTimeout = n * PhaseTimeout + PhaseTimeout /\ n * PhaseTimeout \in Nat
  BY <1>4
<1>6. Timeout = (n + 1) * PhaseTimeout
  BY DEF Timeout, n
<1> QED
  BY <1>2, <1>3, <1>4, <1>5, <1>6 DEF Elapsed

LEMMA DeleteBatchKeeps ==
  ASSUME RetentionInv, NEW i \in Phases, DeleteBatch(i)
  PROVE  RetentionInv'
<1>1. /\ phase = i /\ old[i] > 0 /\ spent[i] # PhaseTimeout
      /\ old' = [old EXCEPT ![i] = @ - 1] /\ spent' = [spent EXCEPT ![i] = @ + 1]
      /\ UNCHANGED <<phase, failed>>
  BY DEF DeleteBatch, Expired
<1>2. /\ old' \in [Phases -> Nat] /\ spent' \in [Phases -> 0 .. PhaseTimeout]
  <2>1. old[i] - 1 \in Nat /\ spent[i] + 1 \in 0 .. PhaseTimeout
    BY <1>1, RetentionAssumption DEF RetentionInv
  <2> QED
    BY <1>1, <2>1 DEF RetentionInv
<1>3. ASSUME NEW j \in Phases
      PROVE  (IF j < phase THEN Left(j) ELSE j = phase \/ spent[j] = 0)'
  BY <1>1 DEF RetentionInv, Left
<1> QED
  BY <1>1, <1>2, <1>3 DEF RetentionInv

LEMMA NextPhaseKeeps ==
  ASSUME RetentionInv, NEW i \in Phases, Exhausted(i) \/ TimesOut(i) \/ Fails(i)
  PROVE  RetentionInv'
<1>1. phase = i /\ phase' = i + 1 /\ UNCHANGED <<old, spent>> /\ failed \subseteq failed'
  BY DEF Exhausted, TimesOut, Fails, NextPhase
<1>2. old[i] = 0 \/ spent[i] = PhaseTimeout \/ i \in failed'
  BY OwnTimeoutOnly DEF Exhausted, TimesOut, Fails, Expired, RetentionInv
<1>3. phase' \in 0 .. Over
  BY <1>1, RetentionAssumption DEF Phases, Over
<1>4. ASSUME NEW j \in Phases
      PROVE  (IF j < phase THEN Left(j) ELSE j = phase \/ spent[j] = 0)'
  <2>1. i \in Int /\ j \in Int
    BY DEF Phases
  <2>2. CASE j = i
    BY <1>1, <1>2, <2>1, <2>2 DEF Left
  <2>3. CASE j < i
    BY <1>1, <2>1, <2>3 DEF Left, RetentionInv
  <2>4. CASE j > i
    BY <1>1, <2>1, <2>4 DEF RetentionInv
  <2> QED
    BY <2>1, <2>2, <2>3, <2>4
<1> QED
  BY <1>1, <1>3, <1>4 DEF RetentionInv

LEMMA RunsKeep ==
  ASSUME RetentionInv, StartRun \/ CutShort \/ EndRun
  PROVE  RetentionInv'
<1>1. CASE StartRun
  <2>1. phase = 0 /\ phase' = 1 /\ UNCHANGED <<old, spent, failed>> /\ phase' \in 0 .. Over
    BY <1>1, RetentionAssumption DEF StartRun, Over
  <2>2. ASSUME NEW j \in Phases
        PROVE  ~ (j < phase') /\ (j = phase' \/ spent'[j] = 0)
    BY <2>1 DEF RetentionInv, Phases
  <2> QED
    BY <2>1, <2>2 DEF RetentionInv
<1>2. CASE CutShort \/ EndRun
  <2>1. old' \in [Phases -> Nat]
    BY <1>2, RetentionAssumption DEF CutShort, EndRun, RetentionInv
  <2>2. phase' = 0 /\ spent' = [i \in Phases |-> 0]
    BY <1>2 DEF CutShort, EndRun, Done
  <2>3. spent' \in [Phases -> 0 .. PhaseTimeout] /\ phase' \in 0 .. Over
    BY <2>2, RetentionAssumption DEF Over
  <2>4. \A j \in Phases : ~ (j < phase') /\ spent'[j] = 0
    BY <2>2 DEF Phases
  <2> QED
    BY <2>1, <2>3, <2>4 DEF RetentionInv
<1> QED
  BY <1>1, <1>2

\* For any number of tables, any timeout of a phase and any backlog: when a run is over,
\* every table was cleaned, or its own phase had its whole timeout, or its own delete
\* failed.  (jobs.RetentionWorker.Timeout: a phase more than there are.)
THEOREM EveryPhaseGetsItsTurn == RetentionSpec => []EveryPhaseRuns
<1>1. RetentionInv /\ [RetentionNext]_retentionVars => RetentionInv'
  <2> SUFFICES ASSUME RetentionInv, [RetentionNext]_retentionVars
               PROVE  RetentionInv'
    OBVIOUS
  <2>1. CASE UNCHANGED retentionVars
    BY <2>1 DEF RetentionInv, Left, retentionVars
  <2> QED
    BY <2>1, DeleteBatchKeeps, NextPhaseKeeps, RunsKeep DEF RetentionNext
<1>2. RetentionInv => EveryPhaseRuns
  BY RetentionAssumption DEF RetentionInv, EveryPhaseRuns, Left, Phases, Over
<1> QED
  BY <1>1, <1>2, RetentionInvInit, PTL DEF RetentionSpec

=============================================================================
