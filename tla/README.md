# Team Manager: formal models

TLA+ models of the Team Manager backend (`src/backend`), the TLC runs that check
them on small instances, and proofs, checked by TLAPS, of the properties that
matter most. `PROJECT.json` lists components, runs, mutants, the map from every
definition to the source lines it stands for, findings, hazards and theorems.

    tlc -workers 2 -config MCTeamRoles_roles.cfg MCTeamRoles
    tlapm TeamRequestsProofs.tla

Modules by component (a module `MC...` is the instance of the module it is named
after; four instances bundle several modules as scenes):

| Modules | Component | Run | Proofs |
|---|---|---|---|
| `TeamAccess`, `TeamRequests`, `MCTeamRequests`, `MCTeamRoles` | who may do what in a team, erasure | `roles`, `waiting`, `orphaned` | `TeamRequestsProofs` |
| `Accounts`, `MCAccounts` | accounts, tokens, passwords | `entrance` (scene), `reset`, `unlink` | `AccountsProofs` |
| `Gateway`, `SignIn`, `MCEntrance` | middleware and routing; the OpenID Connect exchange | `entrance` | `EntranceProofs` |
| `PushJobs`, `MCPushJobs` | notifications, reminders, push delivery | `pushes`, `devices`, `lifecycle` (scene) | `PushJobsProofs` |
| `Config`, `Server`, `Retention`, `MCLifecycle` | configuration, migration, start, stop, nightly retention | `lifecycle` | `EntranceProofs`, `PushJobsProofs` (retention) |
| `Events`, `EventViews`, `MCEvents` | events, series, answers, absences, comments, views, statistics | `events` | `EventsProofs` |
| `Finances`, `Ledger`, `Reads`, `MCFinances` | money; the abstract ledger it implements; what a read of several queries promises | `content` (scenes) | `FinancesProofs` |
| `Photos`, `Polls`, `Pages`, `Calendars`, `Presets`, `MCContent` | the rest of a team's content | `content`, `reupload` | `ContentProofs` |
| `Sums` | sums and counts over finite tables | | `SumsProofs` |

## The system

Team Manager is a Go HTTP API (chi router, pgx) over one PostgreSQL database,
with a River job queue in the same database, an S3 object store for images, an
SMTP relay, web-push gateways and an optional OIDC provider; a React single-page
application is its client. Several server processes may run at once (Helm
autoscaling), so nothing in memory protects a row: everything below rests on SQL
statements, transactions at READ COMMITTED, unique constraints and advisory
locks.

| Component (source under `src/backend/internal`) | State | Operations | What makes it correct |
|---|---|---|---|
| Team access: `members`, `roles`, `teams`, `middleware/authz` | teams, memberships, roles, membership_roles, invites, `teams.reason_visibility_role_ids`, `events.nominated_role_ids` | create/update team, create/accept invite, set roles, remove/update member, create/update/delete role | a team keeps a living settings admin; nobody grants what he does not hold; no column names a deleted role; caps |
| Accounts: `auth` | users, sessions, oidc_accounts, verification and reset tokens | register, verify, login, forgot/reset, OIDC login, logout, erase, photo | erasure is final; tokens are single-use; a reset ends old sessions; a parked password never becomes usable; linking keeps passwords |
| Background jobs: `jobs`, `push`, `notifications`, `mailer` | River jobs, notifications, push subscriptions, reminder markers | notification fan-out, push delivery, reminders every five minutes, mail, daily retention | no job effect twice, none lost where promised; retention phases independent |
| Server: `config`, `server`, `cmd/server`, `jobs.MigrateRiver` | environment, schema versions, session-level advisory locks, connections, shutdown budgets | load, migrate, start, serve, drain, stop | production never runs on stand-ins; migrations never collide; starts and stops end in time; a key rotation logs nobody out |
| Middleware: `middleware`, the router | rate limit counters, the generated rule table | limit, check origin, route, authenticate, authorise | every request is judged by its own rule; every client is counted by itself |
| Events and attendance: `events`, `attendance`, `absences`, `stats` | events, series, event_teams, attendance, nominations, comments, absences | create/update/delete one/series, RSVP, nominate, comment, absences, statistics | what was held is not rewritten; answers only in time and from members; absences disjoint; all views agree |
| Finances: `finances` | transactions, penalties, assignments, contributions, payments | CRUD, pay, toggle, archive | a linked payment pays one existing thing of its team; sums add up; what was paid is not lost |
| Polls: `polls` | polls, options, votes | create, vote, delete, list | single-choice polls hold one vote per member; votes name existing options |
| Photos: `auth`, `teams`, `storage` | object keys, objects | upload, fetch, delete, erase | what a row names is in the store; an erased account gets no photo |
| Calendar feeds and shares, presets: `calendarfeed`, `calendarshare`, `statsprefs` | links, grants, presets, selections | issue, rotate, revoke, serve, share, save | a feed shows only what its holder may see now; selections name one's own presets |
| Lists: `pagination`, `news` and the list queries | signed cursors | walk page by page | a walk shows what stays exactly once |
| Frontend: `src/frontend/src` | query cache, optimistic patches, URL state, pending invite | fetch, mutate, roll back, switch team | a rolled-back or late answer never overwrites newer state |

How they interact: every team-scoped request passes the session lookup
(`auth.AuthMiddleware`), `RequireMembership` and `RequirePermission` before its
handler; handlers open their own transaction afterwards. Writers of one team's
access data share the transaction-scoped advisory lock
`pg_advisory_xact_lock(hashtextextended(team_id, 0))`; erasure takes that lock for
every team of the account. Mail jobs and reminder
pushes are enqueued in the transaction that causes them; a notification is enqueued
after the write it is about has committed.

What is hard: the gap between the RBAC check and the write; guards that read
several rows under READ COMMITTED; erasure and retention running beside
everything else; multi-statement handlers without a transaction (login, verify,
reset, OIDC linking); crashes between a job's effects; counts taken before
inserts. The `hazards` list of `PROJECT.json` has each at its line.

## What is modelled

### Team access: `TeamAccess`, `TeamRequests`

`TeamAccess` is the promise: each handler is one atomic action on the tables,
with its guards (`...Permitted`, `...KeepsAdmin`) and its writes (`Write...`).
`TeamRequests` is the program: `req` holds the requests in flight, each with its
next statement in `pc`; `Submit...` is the middleware, judged on the state of that
moment; `LookupInvite`, `AcquireLock`, `SnapshotTeams`/`AcquireNextLock`/`AllLocked`
and `Check` are the reads and locks; `Commit...` the writes; `Abort` a timeout,
lost connection or crash in any state. Both read the same operators, so the
guards are written once.

State and code: `members`, `roles`, `perms`, `held` and `invites` are the tables of
those names (a membership is identified by its team and user, which are UNIQUE);
`refs` the two columns that name roles without a foreign key; `erased` is
`users.deleted_at`; `email` and `personal` what erasure anonymises; `lock` the
per-team advisory lock. `minted` keeps role ids from coming back, as UUIDs do not.
`unguarded` is history: the teams an erasure took a settings admin from without
holding their lock.

Abstractions: permission modules are reduced to `settings`, `members` and
`events` (the levels none/read/write are kept; the code treats the remaining
modules alike); a member's other personal columns are one flag; several events'
nominated roles are one column per team; an invite code is the fact that a team
has a valid one; colour-only and name-only role edits change nothing that is
modelled. A transaction's writes appear at its commit, because no other
transaction sees them before. Rows are never deleted but by the modelled actions:
`DELETE FROM users` happens only in retention and belongs to the accounts module.

Knobs of the module: `Enabled` (the operations a run submits), `MaxTeamsPerUser` and
`MaxRolesPerTeam` (500 in the code; 2 or 3 here so that the cap is reached). Nothing is
assumed about clients: an account may have every slot.

| Run | Question | Instance |
|---|---|---|
| `roles` | in scenes: the last-admin guard and escalation while a custom role is edited, deleted, dealt and revoked; removals and address edits behind a stale RBAC check; no dangling role id while events and settings come to name roles; from an empty database, a team founded, joined by invites clicked once or again after a demotion, and erasures meanwhile. In each scene the inductive invariant holds, and `TeamRequests` implements `TeamAccess` (`AccessSteps`) | 1 team, 3 accounts, 2 requests at a time, 4 in all (no limit in the last scene, which has 2 accounts) |
| `waiting` | lock waits end whatever takes the lock, and no team is orphaned while nobody joins one | 2 teams, 2 at a time |
| `orphaned` | violation, see Findings | 1 team, 2 accounts |

Two requests at a time are enough for these: every guard compares one request with one
conflicting commit, and the proofs cover any number. Two accounts give an admin and the
one other member the last-admin guards are about; the scene `staff` adds the caller who
is neither. Three scenes of `MCTeamRoles` start from states the empty database reaches
(a team with its members and roles dealt), to spend the bound on the interesting part;
`erasures` starts from the empty database itself. An address edit names only addresses
nobody has when it is sent (`FreeAddress`); that an address is taken meanwhile stays
possible. Requests are interchangeable, hence the symmetry. In `waiting` invites are
left out; a team that an account joins while it is being erased is what `orphaned` is
about.

Fairness (`waiting` only): `WF` for the next statement of a request (the server
runs its goroutines, Postgres its statements), `SF` for acquiring a lock (Postgres
queues waiters on a lock in order, so none is passed over for ever). `Abort` and
`Submit...` get none. `CHECK_DEADLOCK FALSE` in runs whose clients may stop sending.

### Accounts: `Accounts`

The account tables and the handlers of `auth/service.go`, which run their statements
one by one on the pool, without a transaction and without a lock: every statement is
an action, and anything may happen between two of them. The nightly retention is an
actor among them.

State and code: `accountVars` is `users` and `oidc_accounts` (`email` is UNIQUE over
erased rows too; `password` is the password the hash accepts), `tokenVars` both token
tables, `sessions` the rows of that table, `authors` the rows that news and polls hold
on to, `req` the requests in flight with the statement they are at and the row they
read, which is what they go on to use. A session is its account and what opened it, a
password, a provider identity or a mailed token. History: `parked`, the rows whose
password is the one a registration came with; `mailed`, the rows whose address a
mailed token has confirmed.

Abstractions: one provider, which vouches for a fixed address per subject;
session signing, the state cookie and the checks of the ID token precede everything
here; password strength and mail texts are left out; the mail job is the token it
carries (both are inserted in one transaction). Addresses do not change in this
module: address edits belong to team access, and with one between two racing first
logins of an identity two accounts do result. Two racing exchanges of `SignIn` end
here as two requests.

| Run | Question | Instance |
|---|---|---|
| `entrance`, scene `accounts` | single-use tokens, parked passwords, erasure, retention | 2 rows, 5 requests, 2 at a time, 1 address, 1 subject, 1 token |
| `reset` | violation: a login survives the reset | 1 row, 2 requests, 2 passwords, 2 tokens |
| `unlink` | violation: linking wipes a password the owner confirmed | 1 row, 2 requests, 1 subject |

Two requests at a time are every pair of racing statements; one address and one
subject make them meet. `TypeOK` carries the foreign keys: retention deletes no row
an author still hangs on. No property here is a liveness one, so no fairness is
assumed.

### The way in: `Gateway`, `SignIn`

`Gateway` is the middleware chain in its order: the global limiter, CORS, the origin
check, the router, the limiters of single routes, session, membership, permission,
handler. `Mux` and `RbacRoutes` are the registered routes and the generated rule
table, row by row; `Routed` is chi's choice, `MatchRBACRoute` the second matching of
the same path that the table does, and `JudgedByOwnRule` says that the two never
disagree: what is served was entitled by the rule of the operation that served it.
`RealForwardedIP` walks the X-Forwarded-For lines that the proxies append, so that
`LimitPerClient` can compare the key a request is counted under with where it came
from. `SignIn` is the start, the redirect to the provider and the callback, with one
state cookie per browser and links that can be opened twice or in another browser.

Abstractions: in the run a caller's grants give at most one module a level, and his
place in the team changes at most once while a request is in flight; a session
revoked after it was checked is not read again, as in the code; httprate's sliding
window is a window that ends; body limit, recovery, logging, metrics and health
endpoints are left out. Starting and finishing a login count against the same limiter
(`main.go:743-757`), so a login costs two hits. The secrets of an attempt are its
number; the provider is external, and keeps codes single-use and bound to their
verifier; discovery always finds the same, now or later; which account the claims
lead to is `Accounts`'. A callback in a stale tab clears the state cookie of a newer
attempt (`handler_oidc.go:122`), and both logins fail; the model does the same.

| Scene of `entrance` | Question | Instance |
|---|---|---|
| `rules` | the permission a request is judged by | every method to every route's path, 1 request, 1 change |
| `limits` | who is counted under which key | 3 requests of 3 clients, 2 proxies, claimed hops |
| `signin` | a callback finishes the attempt of its own browser only, and lands where it left | 2 browsers, 2 attempts, 4 requests |
| `accounts` | as above | |

One request is enough for the rules, since requests share nothing but the tables it
reads; three for a limit of two. No fairness.

### Jobs that end in a push: `PushJobs`

`NotificationWorker`, `EventReminderWorker` and `PushDeliveryWorker`, again statement
by statement. River (external) runs a job at least once: `Take` starts a run, `Crash`
ends it after any statement with the job scheduled again (or discarded at
`MaxAttempts`), `StatementFails` takes the error path of the statement the run is
at, and `End` is completion. Two reminder jobs may run at once, and a job's rerun
overlaps the next tick.

State and code: `run[w]` holds the local variables of the run of goroutine `w`
(candidates, `membersCache`, `permsCache`, `prefsCache`, the member at hand); `stored`
is the unique `river_job_id` of `notifications`, `marked` the primary key of
`event_reminders_sent`, `owner` the rows of `push_subscriptions`, `waiting` the delivery
jobs. The uncommitted marker of another run blocks the same insert
(`MarkReminder`), and marker and push commit together (`CommitReminder`). The world
moves meanwhile: the hour, the event's start and status, roles, memberships,
preferences, devices.

Abstractions: time is in hours; texts and keys of a push are left out; the
notification's category and module are one pair of sets; the backoff of a retry is
any delay; events and accounts are not deleted (deleting either removes its markers).

| Run | Question | Instance |
|---|---|---|
| `pushes` | nothing sent twice, nothing sent by what another team's roles allow | 2 teams, 1 event for both, 1 notification, 2 ticks, 2 workers, 1 device, 1 fault, 1 change |
| `lifecycle`, scene `reminders` | a reminder that stays due is sent | 1 tick at a time, 1 worker, 1 fault, `MaxAttempts` 1, 1 change of one member |
| `devices` | violation: only one device of a member is reminded | 1 tick, 2 devices |

One event for two teams with different lead times and rights is what the marker's key
and the caches are about; one crash or failure separates any two statements, and a
second run of the same job follows it. `OneKindAtATime` keeps the notification out
of the runs of a reminder: they share no table but the devices, which change
anyway.

Fairness (scene `reminders`): River keeps inserting the periodic job, takes what is
available and runs it on (`WF` on `EnqueueTick`, `TakeAny` and `Step` of each worker).
Crashes and failures are bounded, which stands for "not for ever".
`CHECK_DEADLOCK FALSE`: with the bounds spent and the queue empty nothing is left to do.

### Server and nightly retention: `Config`, `Server`, `Retention`

`Config` translates `config.Load`, setting by setting, over environments that give
every variable a list of words (a word is a class of texts: one the parser refuses, a
blank, a number that is not positive), and the `Init...` functions of `main.go` that
choose between the real mailer, pusher, store and keys and their stand-ins. `Server`
is a process from start to exit: it loads, connects, migrates the application schema
under goose's lock and the River schema under a session-level lock (a connection of
its own to lock, another to migrate), starts workers and handlers, serves, and stops
through HTTP drain, soft stop, flush and close, each with its own budget. `Die` ends
it anywhere. `Retention` is the daily job: phases one after another, each with its
timeout, all within the job's.

Abstractions: time passes only in shutdowns, in units of two seconds (drain 5, soft
stop 4 with a margin of 4, flush 6, a request at most 15, a job at most 120, grace
30); database errors, a port that is taken and goose giving up on its lock are `Die`;
`Rollout` follows the documented rotation (`config.go:108-110`,
`docs/operations.md:415-429`). Rows age between runs of retention only, in up to three
tables at a time, with at most one database error per run.

| Scene of `lifecycle` | Question | Instance |
|---|---|---|
| `boot` | what an environment makes of production | each environment up to two settings away from a complete one |
| `fleet` | two processes migrate an empty database and die at any point | 2 replicas, init or server, 4 starts |
| `stop` | a stop ends before the grace period | 1 request, 1 job in flight |
| `rotation` | sessions survive a key rotation | 2 replicas, pool of one connection |
| `retention` | every phase gets its turn | 7 tables, backlogs up to 2 |
| `reminders` | see above | |

Two processes are what a lock separates; two settings at a time are every pair of
settings the code checks together. Fairness: `WF` on the next start-up step of a
process that has its configuration (`Booting`), which the scheduler of the operating
system gives a process that is not dead, and what is said above of the reminders.
`StartsResolve` is the reason the migrator's lock must not come out of the pool.

### Events, answers, absences: `Events`, `EventViews`

Requests are admitted on what the route and the service read first, and carried out
in a later transaction by the repository; between the two the clock runs, members
leave, roles and the event change. A series is its occurrences; `SeriesScope` is what
a change to "the rest of the series" reaches. `EventViews` has every query that
computes an effective attendance: the roster, the summary, one's own status, the
list, the statistics' three tables; and the attendance list, which takes three
queries.

Abstractions: days are single, clocks half days; every member has `events:read`;
reasons and their redaction, notifications and answers to requests are left out;
cross-team statistics count the owning team's members. The route of nominations is
checked by the middleware and not by the service. Caps are lowered (one comment,
three weeks of series).

Seven scenes (`MCEvents`): answers and nominations against a cancellation, a deadline
and a demotion; changes and deletions of a series half of which is past; creations;
absences; comments; attendance lists; and every combination of answers, absences and
memberships for the views. Two users and two teams are what cross-team events and
members of several teams need; three occurrences are one past, one today, one to come.
No fairness.

### Money: `Finances`, `Ledger`

`Finances` has a statement per step over the four tables, where what was paid is
never stored but summed; `Ledger` is what that amounts to: a team has cash, a claim
knows what is due and what was paid, and money moves by being booked, for a claim or
freely. `BooksAreALedger` is the refinement, by the mapping `Books`, checked by TLC
as a property and proved step by step. The overview is seven queries in one
repeatable-read transaction; `Reads` says of it, and of the lists of polls, that its
rows and its totals are those of one snapshot. `Sums` has the sums the mapping and the
overview are made of.

Abstractions: callers were let in by the middleware; dates, names and notes are left
out; successive reads before an insert are one (`AdmitTransaction`,
`AdmitAssignment`); a batch of user ids is a set; caps are counted without a lock, as
in the code; overpaying is possible, as in the code; fines from before amounts were
copied have none (`None`). Initial states have claims nobody has paid towards yet.

### The rest of a team's content: `Photos`, `Polls`, `Pages`, `Calendars`, `Presets`

* `Photos`: an image is a row naming a key and an object under that key, written in
  two stores by any of six handlers; `AbandonPhoto` is a call that fails or a process
  that dies between any two round trips. `entangled` is history: keys that two requests
  were writing at the same time, which the code lets break (the late delete of one
  handler removes the object of the other). `undone` is history too: keys whose object
  the undo of a failed upload deleted although the row named it, until the next upload.
  `PhotosRight` speaks of neither; the run `reupload` shows that the second happens to
  one writer all alone. A removal whose query for the key fails clears the row and
  leaves the object. An image is its width and height; a presigned link is the image it
  leads to; memberships survive an erasure.
* `Polls`: votes are replaced in a transaction under an advisory lock per poll and
  voter; lists read three tables in one snapshot. Votes survive leaving the team. The
  poll in the answer to a vote is put together outside any transaction.
* `Pages`: signed keyset cursors over seven lists, each with the columns it is sorted
  by; one client walks one list while rows come, go and change, and forges a cursor.
  `Query` gives the rows after the cursor by their rank; ids, dates and names are
  numbers, for their order is all a list asks of them. The unsigned cursors of a
  development setup without a key are left out.
* `Calendars`: a link is issued, rotated, revoked; an UPDATE finds the active row of
  its snapshot and waits for its lock, rows inserted meanwhile stay untouched. A feed
  is served in five reads and a shared schedule in two; `witnessed` is history: what
  was allowed at some time since the request came in. Teams are never deleted; the caps
  on what a feed holds, what redaction does to a field, and lists of links and grants
  are left out.
* `Presets`: saved ranges and the last selection; names are left out, the cap is
  counted without a lock.

`content` runs each as scenes of `MCContent`, two requests at a time, two to four in
all, the other modules at rest: they share no table. Two overlapping requests are one
read and one write between its steps; a third follows on what they left. Walks over
three rows with page sizes 1 and 2 put every row at a page's edge. No fairness.

### Proofs

The theorems hold for every value of the constants that satisfies the assumptions of the
modules, and for the specifications of the components themselves (`Spec`, `PollsSpec`,
`GatewaySpec`, ...): any number of users, teams, requests and replicas, in any
interleaving. The runs check the same properties, and several of the invariants below,
on the scenes of the `MC` modules.

**`TeamRequestsProofs`** (for `TeamAccess` and `TeamRequests`). `AdminKept` alone is not
inductive. `AccessInv` adds `Belonging` (roles are held by members only, ids are minted,
system roles keep the permissions they were created with) and `NoDanglingRoles`. At
statement level `Inv` adds `Serialised` (past its lock statement a request holds the
lock of every team it checked), `TeamsExist`, and `ChecksStand`: whatever a request at
its commit checked is still true. `ChecksStand` survives another request's commit
because that commit either concerns a team whose lock the other request holds, hence
another team, or is an erasure, which changes guards only by removing a living admin; if
it held the team's lock it cannot have interleaved, and if it did not, the team enters
`unguarded`. Then each commit is the atomic action of `TeamAccess`
(`RequestsImplementAccess`), and the safety properties follow.
`OnlyLateJoinsOrphan` says exactly what the erasure race needs: in a behaviour where no
account joins or founds a team after its own erasure has read its memberships
(`LateJoin`, the step that `orphaned` takes), an erasure past its snapshot covers every
team its account is in (`ErasuresCover`), so `unguarded` stays empty and
`EveryTeamHasALivingAdmin` holds without the exception, however many requests an account
has in flight. `WaitsNeverCircle` is the safety half of
`WaitersServed`: a request that waits while it holds a lock is an erasure and asks for
teams after those it holds (`LocksAscend`), so in a circle of waits the request asked
for the smallest team would block one that asks for a smaller. Take the order away
(`AcquireNextLock_AnyOrder`) and `LocksAscend` fails.

**`AccountsProofs`.** `AccountsInv` strengthens the properties with what makes them
inductive: `NamesMinted` (a row id that is verified, named by a token or carried by a
request was given out, so a new row starts clean) and `ClearedBeforeMarked` (when a
provider login is about to mark a row verified, no parked password is left on it).
`OneUsePerToken` follows from the consumption being one conditional UPDATE: two requests
that both found the token valid still race on it, and one finds it spent.
`ErasedHasNoPassword` needs that every write of a password names `deleted_at IS NULL`,
whatever was read before; `ArmedOnlyByMail` needs `ClearedBeforeMarked`.

**`EntranceProofs`** has four arguments.

* The limiters: `Counted` says that a request in flight carries the key of the network
  it came from. Whatever is appended by trusted proxies lies behind what the sender
  claimed, so the last untrusted hop is the sender (`Appended`, `NearestHop`); hence
  every key counts its own network and `LimitPerClient` is a matter of one counter.
* The rule: `JudgedSoFar` follows a request through the chain. At each step its caller's
  standing of now is among those it has met, and what the steps behind it checked it has
  met. The two lookups agree because a row whose template fits the path fits the path
  behind the team too (`RuleFits`), and rows of the table that overlap ask for the same
  (`RoutesAssumption`, a closed formula about the table of the code, which TLC
  evaluates). One path is routed to one operation since `Prefers` is antisymmetric
  (`RoutedOnce`).
* `SignInInv`: the state cookie, the links, the codes and the verifiers of an attempt
  are in the hands of the browser that began it. Attempts only grow in number, so a
  request that goes on names the attempt it named before.
* `ServerInv`: what a configuration that was accepted holds (`Configured`); who is at a
  migration holds the lock of its schema and has read its version (`Migrates`); the time
  since a signal never exceeds what the phases before may take (`Timely`); any two
  processes, and what is deployed, open each other's cookies (`KeysShared`).

**`PushJobsProofs`.** `PushInv`: each run is another job's (`RunsApart`); the run of a
notification that stored its row is the only one to push it, and has each device ahead
of it once (`NoteSound`); a run of a reminder is about to send what nobody has marked
(`TickSound`), and two transactions never hold the same marker (`OneMarker`); what was
pushed was pushed once and is marked or stored (`PushesSound`). `PushedToReaders`
follows because the caches of a run are filled from the tables during the run.
Retention: a phase that was left was left without rows, after its own timeout or with an
error, because all phases together take less than the job may (`Elapsed`).

**`EventsProofs`.** `EventsInv` is the types, `SeriesIntact` and `AbsenceInv`: a writer
of absences past its check holds the lock of the team (`LocksHeld`), and what it found
free is still free (`ChecksHold`), because rows of that member only change under that
lock, and those that go or keep their range take nothing away. `ViewsInv` says of a list
being put together what its queries so far read; `ViewsAgree` and `StatsReconcile` hold
of any tables: a matrix of statuses counted by rows and by columns is the same number
(`CountBothWays` of `SumsProofs`).

**`FinancesProofs`.** `FinancesInv`: ids are never used twice, and what a request is
about to write for (a claim it booked a payment for, a payment it will correct) still
stands at the write or is gone for good. `MoneyInv` adds what the amounts are, and every
statement maps to a step of `Ledger` (booked, raised, repriced, waived) or to none: the
amount paid towards a claim, which nobody stores, moves with the cash of its team.
`OverviewInv`: the snapshot of a read is what the tables were, and each answer what its
query gives on the snapshot.

**`ContentProofs`.** `PresetInv`: what a request found to be its caller's stays his
until the write. `PollInv`: between clearing and casting a voter's ballots a request
holds the lock of poll and voter (`OneWriter`), so what it cleared stays clear
(`VoteSound`). `ListInv`: the polls, options and ballots of a list are one snapshot, in
which ballots counted by option and by voter agree. `PhotosInv`: a key that is not
entangled has one writer (`OneImageWriter`), a request about to write a row has its
object in the store, one about to drop an object after a removal has no row naming it
(`InStep`), and what a row names is in the store unless a failed upload took it back
(`RowsBacked`). `CalInv`: what a feed or a shared schedule has read so far is covered by
what was allowed since the request came in. `ReadsStayWhole` puts the two promises of
`Reads` together. `PagesInv`: the keys of a list are ordered strictly and totally
(`KeysOrdered`), so ranks count its rows without gaps (`Ranks`) and a page is the next
stretch of it (`PageOfQuery`); what was shown is not ahead of the cursor (`NoneTwice`),
what was not is (`NoneSkipped`), and writes leave a row's key alone or take it out of
the walk's sight (`WriteKeeps`).

**`SumsProofs`.** Sums and counts over finite tables: adding and removing a row, sums of
sums in either order, bounds. They are folds in the models; the proofs go by the least
counterexample (the strict subset order on finite sets is well founded), since a theorem
with an operator parameter cannot be instantiated.

What is assumed of the constants:

* that things are what they stand for and do not coincide: role ids belong to one team
  and the two system roles of a team differ (`TeamAccessAssumption`); a slot at rest is
  no request, "nothing" no row (`TeamRequestsAssumption`, `AccountsAssumption`,
  `PushJobsAssumption`, `NothingIsNoRun`, `NullAssumption`, `RowsAssumption`); trusted
  proxies are no clients (`GatewayAssumption`); a clean path is neither empty nor the
  root (`SignInAssumption`);
* that users, teams and events are finite where they are counted (`TablesAssumption`);
* numbers: caps, dates, ids and amounts are natural, amounts and ids positive
  (`CalendarAssumption`, `LimitsAssumption`, `FinancesAssumption`, `PollsAssumption`,
  `PresetsAssumption`, `CalendarsAssumption`, `PagesAssumption`,
  `RetentionAssumption`); a request body is
  one the handler accepts (`BodiesAssumption`);
* of the deployment: the budgets of a shutdown add up to no more than the grace period
  (`BudgetAssumption`: the constants of `main.go` and the 60 s of `values.yaml`); a key
  drawn at random is no configured one (`KeysAssumption`); rollouts rotate keys as
  `docs/operations.md` says (`Rotates`).

Model-checked only: the liveness properties (`WaitersServed`, `RemindersGoOut`,
`StartsResolve`), which are beyond the prover. TLC and the proofs use the same
definitions, but the `MC` modules restrict inputs (`Calls`, bodies, grants) to small
sets, of which the theorems assume nothing.

## Findings

* `orphaned`: an account that creates or joins a team (and is made admin) while its
  own erasure runs leaves a team nobody can administer.
* `reset`: a login that checked the old password before a reset inserts its session
  after the reset ended all sessions; so do two resets racing each other.
* `unlink`: a first provider login that read the account as unverified wipes its
  password after the owner has verified it by mail; the account can no longer log in
  with the password, nor ask for a reset.
* `reupload`: the key of an image is fixed per owner, so when the row write of a second
  upload fails, the delete meant for an orphan removes the object the row still names.
* `devices`: the reminder's marker is keyed by event and user but inserted once per
  device, so a member's second device is never reminded.

Read in the code while modelling, and kept in the models as the code does it, but no
run is about them: `UpdateMember` still writes to an anonymised row
(`members/repository.go:327`); the role cap is counted before the insert
(`roles/service.go:60`) and the team cap not at all on joining
(`teams/service.go:175`); `LinkOIDCAccount` does not look at `deleted_at`, although the
comment at `auth/repository.go:596` relies on no link appearing after an erasure;
retention deletes an account that was reset but never verified, in use or not
(`jobs/retention.go:111`); a news item or poll of such an account makes the delete of
the whole batch fail, every night (`00001_init.sql:160,171`); and `VerifyEmail`
consumes its token before it marks the address, so that a crash in between leaves the
account unverified with a spent link (`auth/service.go:364`). Others of this kind: the
caps on polls, presets, fines and comments are counted without a lock; the feed links
of an erased account go on working (`auth/repository.go:586`); a notification job that
dies after its row is stored pushes nobody else (`jobs/notification_worker.go:152`); an
endpoint registered anew while a push for its former owner is queued
(`push/repository.go:27`); an upload that ends after the erasure of its account leaves
its bytes in the store, under a key no row names; rotating a calendar link reads the
selection before it locks the row, and `UpdateSettings` finds no active token during a
rotation; a preset's later dates do not reach a selection that copied them
(`statsprefs/repository.go:152`).

Texts the code has outgrown: `main.go:815`, `jobs/notification_worker.go` at
`SoftStopTimeout` and `helm/team-manager/values.yaml:48` give the retention worker a
timeout of 150 s; `jobs/retention.go:149-151` computes 7 * 30 + 30 = 240 s. Either way
the soft stop cancels it. Requests in flight at a shutdown are cut off by the HTTP drain
of 10 s although a request may take 30 s (`main.go:818`); and if the handlers of
accounts or OpenID Connect cannot be built, `os.Exit` ends the process with River
started and not stopped (`main.go:503-520`).

## Plan

Done: all components of the backend; every safety property the runs check is proved.
What is left:

1. The safety halves of the other two liveness properties, as `WaitsNeverCircle` is of
   `WaitersServed`: that a replica that waits for the migration lock waits for one that
   can go on (`StartsResolve`), and that a reminder nobody has marked still has a run, or
   a later one, that would find it (`RemindersGoOut`).
2. `TeamRequests`: what an account's cap `MaxTeamsPerUser` does bound: teams created, by
   requests one at a time, never teams joined.

## Not modelled

Rendering, mail texts, iCalendar output, image resizing beyond its bounds, logging and
metrics hold no state another step depends on. Generated code is data: the routes and
the rule table are modelled as data, migrations as what constraints they state. The
frontend is a cache of the API in one browser, which the server never relies on. Reads
that return rows as they are (lists of roles, grants, sources, the notification feed)
change nothing and combine nothing. The audit log is written beside each change and
read by nobody but retention. The web push protocol, SMTP and the provider's side of
OpenID Connect are external.

Hazards with no property: an empty `UpdateTeam` that asks for a second connection
(`teams/repository.go:383`) would need the pool as state of every handler; that the
batch of retention that fails every night is ever deleted, retention of accounts in use
but never verified, and feed links of erased accounts, are what the code does and no
document says otherwise.
