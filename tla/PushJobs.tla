------------------------------- MODULE PushJobs -------------------------------
(***************************************************************************)
(* The River jobs that end in Web Push: the notification job, which stores *)
(* a notification and fans it out to the members' devices, the periodic    *)
(* event reminder, and the delivery of one push.                           *)
(*                                                                         *)
(* River runs a job at least once: a worker may die after any statement,   *)
(* the job is then run again, and two runs of the reminder may overlap.    *)
(* Every statement outside a transaction is a step of its own.             *)
(***************************************************************************)
EXTENDS Naturals, FiniteSets, Bags

CONSTANTS
  Users, Teams, Events,
  Targets,       \* the teams each event is for (event_teams)
  Notes,         \* notification jobs
  NoteTeam,      \* the team of each
  Actor,         \* the user each is about, who is not pushed it
  Ticks,         \* reminder jobs that can exist at a time
  Devices,       \* ids of push_subscriptions rows
  Workers,       \* goroutines that run jobs, over all replicas
  Horizon,       \* the last hour
  MaxAttempts,   \* River's limit on the runs of a job
  MaxFaults,     \* bound: failed statements and crashes in a behaviour
  MaxChanges,    \* bound: what members, admins, browsers and the clock change meanwhile
  Nothing

ASSUME PushJobsAssumption ==
  /\ Targets \in [Events -> SUBSET Teams]
  /\ NoteTeam \in [Notes -> Teams] /\ Actor \in [Notes -> Users]
  /\ Notes \cap Ticks = {} /\ Notes \cap Events = {}
  /\ Nothing \notin Users \cup Events \cup Notes \cup (Events \X Users)
  /\ Horizon \in Nat /\ MaxAttempts \in Nat \ {0} /\ MaxFaults \in Nat /\ MaxChanges \in Nat

VARIABLES
  now,        \* the hour
  start,      \* per event, the hour it starts
  cancelled,  \* events with status cancelled
  members,    \* memberships, as <<team, user>>
  readers,    \* who may read the module, as <<team, user>>
  lead,       \* per team and user, hours before an event to remind; 0 is off
  wants,      \* who wants pushes of the category, as <<team, user>>
  owner,      \* per device row, its user; Nothing when there is no row
  minted,     \* device ids ever used
  state,      \* per job, its River state
  attempt,    \* per job, the runs so far
  stored,     \* notification jobs whose row exists (unique river_job_id)
  marked,     \* committed event_reminders_sent rows, as <<event, user>>
  waiting,    \* push_delivery jobs in the queue
  enqueued,   \* history: all push_delivery jobs ever committed
  run,        \* per worker, the run in progress, or Nothing
  faults,     \* failed statements and crashes so far
  changes     \* changes of the world so far

worldVars == <<now, start, cancelled, members, readers, lead, wants>>
deviceVars == <<owner, minted>>
jobVars == <<state, attempt>>
effectVars == <<stored, marked, waiting, enqueued>>
vars == <<now, start, cancelled, members, readers, lead, wants, owner, minted,
          state, attempt, stored, marked, waiting, enqueued, run, faults, changes>>

Pairs == Teams \X Users
Jobs == Notes \cup Ticks
Target == [device : Devices, user : Users]
Candidate == [event : Events, team : Teams, start : 0..Horizon]
Push == [cause : Events \cup Notes, device : Devices, user : Users]

\* A run: its next statement, what it has read, and the members still to handle.
Run ==
  [job : Jobs,
   pc : {"insert", "subs", "events", "next", "prefs", "push", "mark", "commit"},
   now : 0..Horizon,
   candidates : SUBSET Candidate,                     \* events not yet handled
   current : Candidate \cup {Nothing},
   lists : [Teams -> (SUBSET Target) \cup {Nothing}],   \* membersCache
   allowed : SUBSET Pairs, denied : SUBSET Pairs,     \* permsCache, allowedCache
   willing : SUBSET Users, unwilling : SUBSET Users,  \* prefsCache
   todo : SUBSET Target,
   target : Target \cup {Nothing},
   failed : BOOLEAN,
   could : SUBSET Pairs,               \* history: readers at some moment of the run
   told : SUBSET (Events \X Users)]    \* history: the reminders it sent

ASSUME NothingIsNoRun == Nothing \notin Run

TypeOK ==
  /\ now \in 0..Horizon
  /\ start \in [Events -> 0..Horizon]
  /\ cancelled \subseteq Events
  /\ members \subseteq Pairs /\ readers \subseteq Pairs /\ wants \subseteq Pairs
  /\ lead \in [Pairs -> 0..Horizon]
  /\ owner \in [Devices -> Users \cup {Nothing}]
  /\ minted \subseteq Devices /\ {d \in Devices : owner[d] # Nothing} \subseteq minted
  /\ state \in [Jobs -> {"none", "available", "running", "done", "discarded"}]
  /\ attempt \in [Jobs -> 0..MaxAttempts]
  /\ stored \subseteq Notes
  /\ marked \subseteq Events \X Users
  /\ IsABag(waiting) /\ BagToSet(waiting) \subseteq Push
  /\ IsABag(enqueued) /\ BagToSet(enqueued) \subseteq Push
  /\ run \in [Workers -> Run \cup {Nothing}]
  /\ \A w \in Workers : run[w] # Nothing => state[run[w].job] = "running"
  /\ \A v, w \in Workers :
       run[v] # Nothing /\ run[w] # Nothing /\ run[v].job = run[w].job => v = w
  /\ faults \in 0..MaxFaults /\ changes \in 0..MaxChanges

-----------------------------------------------------------------------------
(* River (external): jobs are inserted, taken by one worker at a time, and *)
(* run again after an error or a crash until MaxAttempts.                  *)

\* A handler has stored news, a poll or an event and inserts the job after it; a
\* crash in between leaves the notification unsent.
EnqueueNotification(n) ==
  /\ state[n] = "none"
  /\ state' = [state EXCEPT ![n] = "available"]
  /\ UNCHANGED <<worldVars, deviceVars, attempt, effectVars, run, faults, changes>>

\* The periodic job is inserted at every interval, whatever became of the last.
EnqueueTick(k) ==
  /\ state[k] \in {"none", "done", "discarded"}
  /\ state' = [state EXCEPT ![k] = "available"]
  /\ attempt' = [attempt EXCEPT ![k] = 0]
  /\ UNCHANGED <<worldVars, deviceVars, effectVars, run, faults, changes>>

\* A run of j begins.
Fresh(j) ==
  [job |-> j, pc |-> IF j \in Notes THEN "insert" ELSE "events", now |-> now,
   candidates |-> {}, current |-> Nothing, lists |-> [t \in Teams |-> Nothing],
   allowed |-> {}, denied |-> {}, willing |-> {}, unwilling |-> {},
   todo |-> {}, target |-> Nothing, failed |-> FALSE, could |-> readers, told |-> {}]

Take(w, j) ==
  /\ run[w] = Nothing /\ state[j] = "available"
  /\ state' = [state EXCEPT ![j] = "running"]
  /\ attempt' = [attempt EXCEPT ![j] = @ + 1]
  /\ run' = [run EXCEPT ![w] = Fresh(j)]
  /\ UNCHANGED <<worldVars, deviceVars, effectVars, faults, changes>>

\* The run of w ends; after an error River schedules the job again.
End(w, error) ==
  /\ run' = [run EXCEPT ![w] = Nothing]
  /\ state' = [state EXCEPT ![run[w].job] =
                 IF ~error THEN "done"
                 ELSE IF attempt[run[w].job] < MaxAttempts THEN "available"
                 ELSE "discarded"]

At(w, pc) == run[w] # Nothing /\ run[w].pc = pc

Fault == faults < MaxFaults /\ faults' = faults + 1
Change == changes < MaxChanges /\ changes' = changes + 1

\* A crash, or the timeout of the run: a transaction in progress rolls back, what is
\* committed stays.
Crash(w) ==
  /\ run[w] # Nothing
  /\ Fault
  /\ End(w, TRUE)
  /\ UNCHANGED <<worldVars, deviceVars, attempt, effectVars, changes>>

-----------------------------------------------------------------------------
(* The notification job.                                                   *)

\* ON CONFLICT (river_job_id) DO NOTHING: only the run that stores the row goes on
\* to push it.
InsertNotification(w) ==
  /\ At(w, "insert")
  /\ IF run[w].job \in stored
     THEN End(w, FALSE) /\ UNCHANGED stored
     ELSE /\ stored' = stored \cup {run[w].job}
          /\ run' = [run EXCEPT ![w] = [@ EXCEPT !.pc = "subs"]]
          /\ UNCHANGED state
  /\ UNCHANGED <<worldVars, deviceVars, attempt, marked, waiting, enqueued, faults,
                 changes>>

\* push.ListForTeam: the devices of the current members.
DevicesOf(t) ==
  {m \in Target : owner[m.device] = m.user /\ <<t, m.user>> \in members}

ListForTeamExcludingUser(w) ==
  /\ At(w, "subs")
  /\ run' = [run EXCEPT ![w].pc = "next",
       ![w].todo = {m \in DevicesOf(NoteTeam[run[w].job]) : m.user # Actor[run[w].job]}]
  /\ UNCHANGED <<worldVars, deviceVars, jobVars, effectVars, faults, changes>>

\* The team whose members the run is at.
TeamOf(r) == IF r.job \in Notes THEN NoteTeam[r.job] ELSE r.current.team

\* The run goes on with a member who may read, and remembers the answer.
Judged(r, m, pair, allow) ==
  [r EXCEPT !.todo = @ \ {m},
            !.allowed = IF allow THEN @ \cup {pair} ELSE @,
            !.denied = IF allow THEN @ ELSE @ \cup {pair},
            !.pc = IF allow THEN "prefs" ELSE @,
            !.target = IF allow THEN m ELSE Nothing]

\* Mutant: what one team's roles allow is remembered for the others.
GetPermissions_ByUser(w) ==
  /\ At(w, "next")
  /\ \E m \in run[w].todo :
       LET pair == <<TeamOf(run[w]), m.user>>
           allow == \/ \E t \in Teams : <<t, m.user>> \in run[w].allowed
                    \/ pair \notin run[w].denied /\ pair \in readers
       IN run' = [run EXCEPT ![w] = Judged(@, m, pair, allow)]
  /\ UNCHANGED <<worldVars, deviceVars, jobVars, effectVars, faults, changes>>

\* Each member's permission is read once in a run.
GetPermissions(w) ==
  /\ At(w, "next")
  /\ \E m \in run[w].todo :
       LET pair == <<TeamOf(run[w]), m.user>>
           allow == \/ pair \in run[w].allowed
                    \/ pair \notin run[w].denied /\ pair \in readers
       IN run' = [run EXCEPT ![w] = Judged(@, m, pair, allow)]
  /\ UNCHANGED <<worldVars, deviceVars, jobVars, effectVars, faults, changes>>

\* Back to the members still to handle.
Skip(r) == [r EXCEPT !.pc = "next", !.target = Nothing]

\* The run remembers that the member wants the push, or goes on.
Willing(r, u) == [r EXCEPT !.willing = @ \cup {u}, !.pc = "push"]
Unwilling(r, u) == [Skip(r) EXCEPT !.unwilling = @ \cup {u}]

\* prefs.Allows(category), also read once per member and run.
GetCategory(w) ==
  /\ At(w, "prefs") /\ run[w].job \in Notes
  /\ LET u == run[w].target.user
         yes == \/ u \in run[w].willing
                \/ u \notin run[w].unwilling /\ <<TeamOf(run[w]), u>> \in wants
     IN run' = [run EXCEPT ![w] = IF yes THEN Willing(@, u) ELSE Unwilling(@, u)]
  /\ UNCHANGED <<worldVars, deviceVars, jobVars, effectVars, faults, changes>>

Enqueue(p) ==
  /\ waiting' = waiting (+) SetToBag({p})
  /\ enqueued' = enqueued (+) SetToBag({p})

PushFor(r, cause) == [cause |-> cause, device |-> r.target.device, user |-> r.target.user]

\* Each push is a statement of its own.
InsertPush(w) ==
  /\ At(w, "push")
  /\ Enqueue(PushFor(run[w], run[w].job))
  /\ run' = [run EXCEPT ![w] = Skip(@)]
  /\ UNCHANGED <<worldVars, deviceVars, jobVars, stored, marked, faults, changes>>

-----------------------------------------------------------------------------
(* The event reminder.                                                     *)

\* The events that are not cancelled and still to come, once per target team; the
\* hour was taken when the run began.
ListUpcomingForReminders(w) ==
  /\ At(w, "events")
  /\ run' = [run EXCEPT ![w].pc = "next",
       ![w].candidates = {c \in Candidate : /\ c.event \notin cancelled
                                            /\ c.team \in Targets[c.event]
                                            /\ c.start = start[c.event]
                                            /\ c.start > run[w].now}]
  /\ UNCHANGED <<worldVars, deviceVars, jobVars, effectVars, faults, changes>>

\* The run goes on to the devices of an event's team, and remembers them.
AtEvent(r, c, devices) ==
  [r EXCEPT !.candidates = @ \ {c}, !.current = c,
            !.lists = [@ EXCEPT ![c.team] = devices], !.todo = devices]

\* The devices of a team are listed once in a run.
ListForTeam(w) ==
  /\ At(w, "next") /\ run[w].todo = {}
  /\ \E c \in run[w].candidates :
       LET devices == IF run[w].lists[c.team] = Nothing THEN DevicesOf(c.team)
                      ELSE run[w].lists[c.team]
       IN run' = [run EXCEPT ![w] = AtEvent(@, c, devices)]
  /\ UNCHANGED <<worldVars, deviceVars, jobVars, effectVars, faults, changes>>

\* Due once the run's hour is within the member's lead time.
GetReminderPreference(w) ==
  /\ At(w, "prefs") /\ run[w].job \in Ticks
  /\ LET hours == lead[<<TeamOf(run[w]), run[w].target.user>>]
     IN run' = [run EXCEPT ![w] =
          IF hours > 0 /\ run[w].now + hours >= run[w].current.start
          THEN [@ EXCEPT !.pc = "mark"] ELSE Skip(@)]
  /\ UNCHANGED <<worldVars, deviceVars, jobVars, effectVars, faults, changes>>

\* The reminder a run is about to send.
Reminder(r) == <<r.current.event, r.target.user>>

\* Mutant: the marker is inserted on the pool, committed before the push is.
MarkReminder_Pool(w) ==
  /\ At(w, "mark")
  /\ marked' = marked \cup {Reminder(run[w])}
  /\ run' = [run EXCEPT ![w] = IF Reminder(run[w]) \in marked THEN Skip(@)
                               ELSE [@ EXCEPT !.pc = "commit"]]
  /\ UNCHANGED <<worldVars, deviceVars, jobVars, stored, waiting, enqueued, faults,
                 changes>>

\* Mutant: a marker is looked for, not inserted, before the push.
MarkReminder_Select(w) ==
  /\ At(w, "mark")
  /\ run' = [run EXCEPT ![w] = IF Reminder(run[w]) \in marked THEN Skip(@)
                               ELSE [@ EXCEPT !.pc = "commit"]]
  /\ UNCHANGED <<worldVars, deviceVars, jobVars, effectVars, faults, changes>>

\* INSERT ... ON CONFLICT DO NOTHING in a transaction: waits for another run that
\* has inserted the same key and neither committed nor rolled back.
MarkReminder(w) ==
  /\ At(w, "mark")
  /\ \A v \in Workers \ {w} : At(v, "commit") => Reminder(run[v]) # Reminder(run[w])
  /\ run' = [run EXCEPT ![w] = IF Reminder(run[w]) \in marked THEN Skip(@)
                               ELSE [@ EXCEPT !.pc = "commit"]]
  /\ UNCHANGED <<worldVars, deviceVars, jobVars, effectVars, faults, changes>>

Told(r) == [Skip(r) EXCEPT !.told = @ \cup {Reminder(r)}]

\* The push is inserted and both rows commit.
CommitReminder(w) ==
  /\ At(w, "commit")
  /\ marked' = marked \cup {Reminder(run[w])}
  /\ Enqueue(PushFor(run[w], run[w].current.event))
  /\ run' = [run EXCEPT ![w] = Told(@)]
  /\ UNCHANGED <<worldVars, deviceVars, jobVars, stored, faults, changes>>

Faulted(r) == [Skip(r) EXCEPT !.failed = TRUE]
PastMember(r, m) == [r EXCEPT !.todo = @ \ {m}]
PastEvent(r, c) == [r EXCEPT !.candidates = @ \ {c}]

\* Errors: without the list of events the run fails; a failed transaction rolls
\* back and the run goes on, to fail at its end; any other failed read is logged.
StatementFails(w) ==
  /\ Fault
  /\ \/ (At(w, "events") \/ At(w, "insert")) /\ End(w, TRUE)
     \/ At(w, "subs") /\ End(w, FALSE)
     \/ /\ \E pc \in {"mark", "commit"} : At(w, pc)
        /\ run' = [run EXCEPT ![w] = Faulted(@)]
        /\ UNCHANGED state
     \/ /\ \/ At(w, "push")
           \/ /\ At(w, "prefs")
              /\ run[w].target.user \notin run[w].willing \cup run[w].unwilling
        /\ run' = [run EXCEPT ![w] = Skip(@)]
        /\ UNCHANGED state
     \/ /\ At(w, "next")
        /\ \/ \E m \in run[w].todo :
                /\ <<TeamOf(run[w]), m.user>> \notin run[w].allowed \cup run[w].denied
                /\ run' = [run EXCEPT ![w] = PastMember(@, m)]
           \/ /\ run[w].todo = {}
              /\ \E c \in run[w].candidates :
                   /\ run[w].lists[c.team] = Nothing
                   /\ run' = [run EXCEPT ![w] = PastEvent(@, c)]
        /\ UNCHANGED state
  /\ UNCHANGED <<worldVars, deviceVars, attempt, effectVars, changes>>

Complete(w) ==
  /\ At(w, "next") /\ run[w].todo = {} /\ run[w].candidates = {}
  /\ End(w, run[w].failed)
  /\ UNCHANGED <<worldVars, deviceVars, attempt, effectVars, faults, changes>>

-----------------------------------------------------------------------------
(* Delivery of one push.                                                   *)

Dequeue(p) == waiting' = waiting (-) SetToBag({p})

\* Sent, or refused as too large for ever: the job ends.
SendPush(p) ==
  /\ Dequeue(p)
  /\ UNCHANGED <<worldVars, deviceVars, jobVars, stored, marked, enqueued, run, faults,
                 changes>>

\* The gateway reports the endpoint gone: its row goes, and then the job.
PrunePush(p) ==
  /\ Change
  /\ owner' = [owner EXCEPT ![p.device] = Nothing]
  /\ Dequeue(p)
  /\ UNCHANGED <<worldVars, minted, jobVars, stored, marked, enqueued, run, faults>>

\* A crash after the row is gone, or a failure to delete it: the job stays.
PruneOnly(p) ==
  /\ Change
  /\ Fault
  /\ owner' = [owner EXCEPT ![p.device] = Nothing]
  /\ UNCHANGED <<worldVars, minted, jobVars, effectVars, run>>

DeliverPush == \E p \in BagToSet(waiting) : SendPush(p) \/ PrunePush(p) \/ PruneOnly(p)

-----------------------------------------------------------------------------
(* What members and admins do meanwhile.                                   *)

Tock ==
  /\ Change /\ now < Horizon
  /\ now' = now + 1
  /\ UNCHANGED <<start, cancelled, members, readers, lead, wants, deviceVars, jobVars,
                 effectVars, run, faults>>

\* Nothing forgets the markers of an event that is moved or reinstated.
EditEvent ==
  /\ Change
  /\ \E e \in Events :
       \/ \E h \in 0..Horizon : start' = [start EXCEPT ![e] = h] /\ UNCHANGED cancelled
       \/ /\ cancelled' = IF e \in cancelled THEN cancelled \ {e} ELSE cancelled \cup {e}
          /\ UNCHANGED start
  /\ UNCHANGED <<now, members, readers, lead, wants, deviceVars, jobVars, effectVars,
                 run, faults>>

MayRead(r, p) == [r EXCEPT !.could = @ \cup {p}]

\* A role change gives or takes read access.
ChangeAccess ==
  /\ Change
  /\ \E p \in members :
       IF p \in readers
       THEN readers' = readers \ {p} /\ UNCHANGED run
       ELSE /\ readers' = readers \cup {p}
            /\ run' = [w \in Workers |-> IF run[w] = Nothing THEN Nothing
                                        ELSE MayRead(run[w], p)]
  /\ UNCHANGED <<now, start, cancelled, members, lead, wants, deviceVars, jobVars,
                 effectVars, faults>>

RemoveMember ==
  /\ Change
  /\ \E p \in members : members' = members \ {p} /\ readers' = readers \ {p}
  /\ UNCHANGED <<now, start, cancelled, lead, wants, deviceVars, jobVars, effectVars,
                 run, faults>>

\* The preferences of a member are saved as a whole.
UpsertPreferences ==
  /\ Change
  /\ \E p \in members, h \in 0..Horizon, w \in BOOLEAN :
       /\ lead' = [lead EXCEPT ![p] = h]
       /\ wants' = IF w THEN wants \cup {p} ELSE wants \ {p}
  /\ UNCHANGED <<now, start, cancelled, members, readers, deviceVars, jobVars, effectVars,
                 run, faults>>

\* A browser registers its endpoint under a new row, or under the row the endpoint
\* has already, whoever owned it.
RegisterDevice ==
  /\ Change
  /\ \E d \in Devices, u \in Users :
       /\ d \notin minted \/ owner[d] # Nothing
       /\ owner' = [owner EXCEPT ![d] = u] /\ minted' = minted \cup {d}
  /\ UNCHANGED <<worldVars, jobVars, effectVars, run, faults>>

UnregisterDevice ==
  /\ Change
  /\ \E d \in Devices : owner[d] # Nothing /\ owner' = [owner EXCEPT ![d] = Nothing]
  /\ UNCHANGED <<worldVars, minted, jobVars, effectVars, run, faults>>

World ==
  \/ Tock \/ EditEvent \/ ChangeAccess \/ RemoveMember \/ UpsertPreferences
  \/ RegisterDevice \/ UnregisterDevice

-----------------------------------------------------------------------------

\* Everybody is a reader of every team, wants everything, and has no device yet.
Init ==
  /\ now = 0
  /\ start \in [Events -> 0..Horizon] /\ cancelled = {}
  /\ members = Pairs /\ readers = Pairs /\ wants = Pairs
  /\ lead \in [Pairs -> 0..Horizon]
  /\ owner = [d \in Devices |-> Nothing] /\ minted = {}
  /\ state = [j \in Jobs |-> "none"] /\ attempt = [j \in Jobs |-> 0]
  /\ stored = {} /\ marked = {} /\ waiting = EmptyBag /\ enqueued = EmptyBag
  /\ run = [w \in Workers |-> Nothing] /\ faults = 0 /\ changes = 0

Step(w) ==
  \/ InsertNotification(w) \/ ListForTeamExcludingUser(w) \/ GetPermissions(w)
  \/ GetCategory(w) \/ InsertPush(w) \/ ListUpcomingForReminders(w) \/ ListForTeam(w)
  \/ GetReminderPreference(w) \/ MarkReminder(w) \/ CommitReminder(w) \/ Complete(w)

TakeAny(w) == \E j \in Jobs : Take(w, j)

Next ==
  \/ \E w \in Workers : TakeAny(w) \/ Step(w) \/ StatementFails(w) \/ Crash(w)
  \/ (\E n \in Notes : EnqueueNotification(n)) \/ (\E k \in Ticks : EnqueueTick(k))
  \/ DeliverPush \/ World

Spec == Init /\ [][Next]_vars

\* The periodic job keeps coming, workers take what is available and run it on.
Fairness ==
  /\ \A k \in Ticks : WF_vars(EnqueueTick(k))
  /\ \A w \in Workers : WF_vars(TakeAny(w)) /\ WF_vars(Step(w))

FairSpec == Spec /\ Fairness

-----------------------------------------------------------------------------
(* What must hold.                                                         *)

Pushes == BagToSet(enqueued)
CopiesOf(p, bag) == IF BagIn(p, bag) THEN bag[p] ELSE 0

\* A device is pushed a notification at most once, although the job may run again
\* after any of its statements, and a member is reminded of an event at most once: by
\* overlapping and repeated runs, and for an event of several of his teams.
\* (jobs.NotificationWorker.Work, jobs.EventReminderWorker.)
PushedOnce ==
  \A p, q \in Pushes :
    p.cause = q.cause =>
      /\ (IF p.cause \in Notes THEN p.device = q.device ELSE p.user = q.user) => p = q
      /\ CopiesOf(p, enqueued) = 1

\* A push goes only to somebody who could read the module, in the team it is sent
\* for, at some moment of the run that sent it: what a run remembers of one team is
\* not used for another. (jobs.EventReminderWorker.isAllowed.)
PushedToReaders ==
  [][\A p \in BagToSet(enqueued') :
       CopiesOf(p, enqueued') > CopiesOf(p, enqueued) =>
         \E w \in Workers :
           /\ run[w] # Nothing /\ run[w].target = [device |-> p.device, user |-> p.user]
           /\ <<TeamOf(run[w]), p.user>> \in run[w].could]_vars

\* The reminder of e is due for u, as a member of t with device d.
Due(e, t, u, d) ==
  /\ e \notin cancelled /\ t \in Targets[e] /\ <<t, u>> \in members \cap readers
  /\ owner[d] = u
  /\ lead[<<t, u>>] > 0 /\ now < start[e] /\ start[e] <= now + lead[<<t, u>>]

Reminded(e, u) == \E p \in Pushes : p.cause = e /\ p.user = u

\* A reminder that stays due is sent, whatever run it was lost in before: nothing
\* but a push that was enqueued stops the next run from trying. (jobs.remindMember.)
RemindersGoOut ==
  \A e \in Events, t \in Teams, u \in Users, d \in Devices :
    <>[]Due(e, t, u, d) => <>Reminded(e, u)

\* A reminder goes to each of the member's devices. (openspec/specs/
\* push-notifications, "Reminder becomes due".)
EveryDeviceReminded ==
  [][\A w \in Workers : At(w, "next") /\ run'[w] = Nothing /\ state'[run[w].job] = "done" =>
       \A r \in run[w].told : \A t \in Targets[r[1]] :
         run[w].lists[t] # Nothing =>
           \A m \in run[w].lists[t] : m.user = r[2] =>
             [cause |-> r[1], device |-> m.device, user |-> r[2]] \in Pushes]_vars

=============================================================================
