------------------------------- MODULE Server -------------------------------
(* The life of the server processes: loading the configuration, migrating the  *)
(* two schemas, wiring, serving, and the shutdown a SIGTERM begins. Processes  *)
(* of several replicas share one database; a rollout gives the processes that  *)
(* start from then on another environment.                                     *)
EXTENDS Config, FiniteSets

CONSTANTS
  Replicas,            \* pods of the deployment
  Deployments,         \* the environments that may be deployed
  Latest,              \* schema -> number of the newest migration shipped
  MaxStarts,           \* bound: processes started per replica
  \* durations, in one unit
  HTTPDrain, SoftStopTimeout, StopMargin, ObsFlush, RequestTimeout, JobTimeout,
  GracePeriod,         \* terminationGracePeriodSeconds of the pod
  Nobody               \* holder of a lock nobody holds

ASSUME ServerAssumption ==
  /\ {HTTPDrain, SoftStopTimeout, StopMargin, ObsFlush, RequestTimeout, JobTimeout} \subseteq Nat
  /\ Nobody \notin Replicas

\* The budgets of main.go and of the chart: the phases of a shutdown, one after the
\* other, and a request that a phase no longer waits for fit the grace period, and
\* jobs are cancelled before they are abandoned.
ASSUME BudgetAssumption ==
  /\ GracePeriod \in Nat /\ StopMargin > 0
  /\ HTTPDrain + SoftStopTimeout + StopMargin + ObsFlush <= GracePeriod
  /\ RequestTimeout <= GracePeriod

\* A variable that holds keys is a list of words, none of them the key that another
\* process has drawn for itself.
ASSUME KeysAssumption ==
  \A e \in Deployments :
    {NonBlank(e.COOKIE_ENCRYPTION_KEYS), e.COOKIE_ENCRYPTION_KEY}
      \subseteq Seq(STRING \ {"ephemeral"})

VARIABLES
  deployed,            \* environment the next process starts with
  proc,                \* Replicas -> the process of the replica
  lock,                \* schema -> replica holding its session-level advisory lock
  schema,              \* schema -> last migration applied
  cookies              \* keys the cookies kept by browsers are sealed with
serverVars == <<deployed, proc, lock, schema, cookies>>

Schemas == {"app", "river"}

\* pc: next step; only: started with --migrate-only; cfg: what Load returned; held: pool connections in
\* use; seen: schema version read; term: a SIGTERM is queued; http, job: a
\* request, a job in flight; clock, since: time since the shutdown and since its
\* current phase began.
NoProcess(env, starts) ==
  [pc |-> "down", only |-> FALSE, env |-> env, cfg |-> Failed, held |-> 0, seen |-> 0, term |-> FALSE,
   http |-> FALSE, job |-> "none", clock |-> 0, since |-> 0, starts |-> starts]

\* A process that is about to load its configuration.
Started(env, starts, only) == [NoProcess(env, starts) EXCEPT !.pc = "load", !.only = only]

ServerInit ==
  /\ deployed \in Deployments
  /\ proc = [r \in Replicas |-> NoProcess(deployed, 0)]
  /\ lock = [s \in Schemas |-> Nobody]
  /\ schema = [s \in Schemas |-> 0]
  /\ cookies = {}

Goto(r, pc) == proc' = [proc EXCEPT ![r].pc = pc]
\* The process is gone, and its database sessions and their locks with it.
Exit(r) ==
  /\ proc' = [proc EXCEPT ![r] = NoProcess(@.env, @.starts)]
  /\ lock' = [s \in Schemas |-> IF lock[s] = r THEN Nobody ELSE lock[s]]
  /\ UNCHANGED <<deployed, schema, cookies>>
Cfg(r) == proc[r].cfg[1]

-----------------------------------------------------------------------------
(* Starting.                                                                  *)
Launch(r, only) ==
  /\ proc[r].pc = "down" /\ proc[r].starts < MaxStarts
  /\ proc' = [proc EXCEPT ![r] = Started(deployed, @.starts + 1, only)]
  /\ UNCHANGED <<deployed, lock, schema, cookies>>

\* config.Load, signal.Notify, failIfMetricsOpen
LoadConfig(r) ==
  LET cfg == Load(proc[r].env)
  IN  /\ proc[r].pc = "load"
      /\ IF cfg = Failed THEN Exit(r)
         ELSE IF ~ MetricsMayServe(proc[r].env, cfg[1]) THEN Exit(r)
         ELSE /\ proc' = [proc EXCEPT ![r].pc = "connect", ![r].cfg = cfg]
              /\ UNCHANGED <<deployed, lock, schema, cookies>>

Connect(r) ==
  /\ proc[r].pc = "connect"
  /\ Goto(r, "app lock")
  /\ UNCHANGED <<deployed, lock, schema, cookies>>

\* Mutant: no session locker.
LockFree_Always(s) == TRUE
LockFree(s) == lock[s] = Nobody
\* goose takes one connection of the pool, asks for the lock again and again,
\* and migrates over the same connection.
LockApp(r) ==
  /\ proc[r].pc = "app lock" /\ LockFree("app")
  /\ lock' = [lock EXCEPT !["app"] = r]
  /\ proc' = [proc EXCEPT ![r].pc = "app migrate", ![r].held = @ + 1,
                          ![r].seen = schema["app"]]
  /\ UNCHANGED <<deployed, schema, cookies>>

\* Mutant: the lock connection is acquired from the pool.
LockConns_Pooled == 1
\* MigrateRiver dials the connection that waits for its lock beside the pool ...
LockConns == 0
DialLock(r) ==
  /\ proc[r].pc = "river lock" /\ proc[r].held + LockConns <= Cfg(r).extra.dbPool.max
  /\ proc' = [proc EXCEPT ![r].pc = "river wait", ![r].held = @ + LockConns]
  /\ UNCHANGED <<deployed, lock, schema, cookies>>
AwaitLock(r) ==
  /\ proc[r].pc = "river wait" /\ LockFree("river")
  /\ lock' = [lock EXCEPT !["river"] = r]
  /\ Goto(r, "river begin")
  /\ UNCHANGED <<deployed, schema, cookies>>
\* ... and takes another, of the pool, for the migrator.
BeginRiver(r) ==
  /\ proc[r].pc = "river begin" /\ proc[r].held < Cfg(r).extra.dbPool.max
  /\ proc' = [proc EXCEPT ![r].pc = "river migrate", ![r].held = @ + 1,
                          ![r].seen = schema["river"]]
  /\ UNCHANGED <<deployed, lock, schema, cookies>>

Migrating(s) == IF s = "app" THEN "app migrate" ELSE "river migrate"
\* One migration in a transaction of its own. The tables are created without
\* IF NOT EXISTS: had somebody else applied it since the version was read, it
\* would fail and the process exit (Die).
Migrate(r, s) ==
  /\ proc[r].pc = Migrating(s) /\ proc[r].seen < Latest[s]
  /\ schema[s] = proc[r].seen
  /\ schema' = [schema EXCEPT ![s] = @ + 1]
  /\ proc' = [proc EXCEPT ![r].seen = @ + 1]
  /\ UNCHANGED <<deployed, lock, cookies>>

\* All migrations are applied: the lock is freed; migrate-only ends here.
Migrated(r, s) ==
  /\ proc[r].pc = Migrating(s) /\ proc[r].seen >= Latest[s]
  /\ IF s = "river" /\ proc[r].only THEN Exit(r)
     ELSE /\ lock' = [lock EXCEPT ![s] = Nobody]
          /\ proc' = [proc EXCEPT ![r].pc = IF s = "app" THEN "river lock" ELSE "workers",
                                  ![r].held = 0, ![r].seen = 0]
          /\ UNCHANGED <<deployed, schema, cookies>>

\* initVAPIDPusher, initMailer, jobs.NewClient, riverClient.Start
StartWorkers(r) ==
  /\ proc[r].pc = "workers"
  /\ IF InitVAPIDPusher(Cfg(r)) = Failed \/ InitMailer(Cfg(r)) = Failed THEN Exit(r)
     ELSE Goto(r, "handlers") /\ UNCHANGED <<deployed, lock, schema, cookies>>

\* initObjectStore, initAuthComponents, initOIDC, the router, runHTTPServer:
\* what fails here ends the process without stopping the workers.
StartHandlers(r) ==
  /\ proc[r].pc = "handlers"
  /\ IF InitObjectStore(Cfg(r)) = Failed \/ InitAuthComponents(Cfg(r)) = Failed THEN Exit(r)
     ELSE Goto(r, "serve") /\ UNCHANGED <<deployed, lock, schema, cookies>>

\* A call to the database fails, the wait for goose's lock is given up, the port
\* is taken, the process is killed.
Die(r) == proc[r].pc # "down" /\ Exit(r)

-----------------------------------------------------------------------------
(* Serving.                                                                   *)
WorkerPCs == {"handlers", "serve", "http drain"}
Accept(r) ==
  /\ proc[r].pc = "serve" /\ ~ proc[r].http
  /\ proc' = [proc EXCEPT ![r].http = TRUE]
  /\ UNCHANGED <<deployed, lock, schema, cookies>>
Answer(r) ==
  /\ proc[r].http
  /\ proc' = [proc EXCEPT ![r].http = FALSE]
  /\ UNCHANGED <<deployed, lock, schema, cookies>>
FetchJob(r) ==
  /\ proc[r].pc \in WorkerPCs /\ proc[r].job = "none"
  /\ proc' = [proc EXCEPT ![r].job = "running"]
  /\ UNCHANGED <<deployed, lock, schema, cookies>>
EndJob(r) ==
  /\ proc[r].job # "none"
  /\ proc' = [proc EXCEPT ![r].job = "none"]
  /\ UNCHANGED <<deployed, lock, schema, cookies>>

\* Mutant: the last key seals.
Encrypt_Last(keys) == keys[Len(keys)]
\* The session cookie: the first key seals, every key is tried to open.
Encrypt(keys) == keys[1]
Decrypt(keys, cookie) == \E i \in DOMAIN keys : keys[i] = cookie
SetCookie(r) ==
  /\ proc[r].pc = "serve"
  /\ cookies' = cookies \union {Encrypt(Cfg(r).cookieKeys)}
  /\ UNCHANGED <<deployed, proc, lock, schema>>
\* The session of every cookie sealed with k has ended.
Expire(k) ==
  /\ \A r \in Replicas : proc[r].pc = "serve" => Encrypt(Cfg(r).cookieKeys) # k
  /\ cookies' = cookies \ {k}
  /\ UNCHANGED <<deployed, proc, lock, schema>>

-----------------------------------------------------------------------------
(* Stopping. SIGTERM is queued from LoadConfig on and read only while serving. *)
Terminate(r) ==
  /\ proc[r].pc # "down" /\ ~ proc[r].term
  /\ IF proc[r].pc = "load" THEN Exit(r)
     ELSE /\ proc' = [proc EXCEPT ![r].term = TRUE]
          /\ UNCHANGED <<deployed, lock, schema, cookies>>

Phase(r, from, to) ==
  /\ proc[r].pc = from
  /\ proc' = [proc EXCEPT ![r].pc = to, ![r].since = 0]
  /\ UNCHANGED <<deployed, lock, schema, cookies>>
Shutdown(r) == proc[r].term /\ Phase(r, "serve", "http drain")
Drained(r) == (~ proc[r].http \/ proc[r].since = HTTPDrain) /\ Phase(r, "http drain", "river stop")
\* Mutant: river.Config without SoftStopTimeout.
SoftStopAfter_Unset == JobTimeout
\* River cancels the jobs still running once its SoftStopTimeout has passed.
SoftStopAfter == SoftStopTimeout
SoftStop(r) ==
  /\ proc[r].pc = "river stop" /\ proc[r].job = "running" /\ proc[r].since = SoftStopAfter
  /\ proc' = [proc EXCEPT ![r].job = "cancelled"]
  /\ UNCHANGED <<deployed, lock, schema, cookies>>
Stopped(r) ==
  /\ proc[r].job = "none" \/ proc[r].since = SoftStopTimeout + StopMargin
  /\ Phase(r, "river stop", "flush")
Flushed(r) == Phase(r, "flush", "close")
\* pool.Close waits for the connections that requests and jobs still use; those
\* that use none at this moment are cut off.
ClosePool(r) == proc[r].pc = "close" /\ Exit(r)

\* Time passes in a shutdown while the phase has something to wait for: a phase
\* up to its budget, a request or an uncancelled job up to its own timeout.
Patience(r) ==
  \/ proc[r].pc = "http drain" /\ proc[r].http /\ proc[r].since < HTTPDrain
  \/ /\ proc[r].pc = "river stop" /\ proc[r].job # "none"
     /\ proc[r].since < SoftStopTimeout + StopMargin
     /\ proc[r].job = "running" => proc[r].since # SoftStopAfter
  \/ proc[r].pc = "flush" /\ proc[r].since < ObsFlush
  \/ proc[r].pc = "close" /\ (proc[r].http \/ proc[r].job = "running")
Tick(r) ==
  /\ Patience(r) /\ proc[r].clock <= GracePeriod
  /\ proc[r].http => proc[r].clock < RequestTimeout
  /\ proc[r].job = "running" => proc[r].clock < JobTimeout
  /\ proc' = [proc EXCEPT ![r].clock = @ + 1, ![r].since = @ + 1]
  /\ UNCHANGED <<deployed, lock, schema, cookies>>

\* Operators roll a configuration out once the last rollout is complete and no
\* cookie needs a key the new configuration drops.
Rollout(env) ==
  /\ \A r \in Replicas : proc[r].pc = "serve" /\ proc[r].env = deployed
  /\ \A k \in cookies : Decrypt(Load(env)[1].cookieKeys, k)
  /\ deployed' = env
  /\ UNCHANGED <<proc, lock, schema, cookies>>

-----------------------------------------------------------------------------

Booting(r) ==
  \/ Connect(r) \/ LockApp(r) \/ DialLock(r) \/ AwaitLock(r)
  \/ BeginRiver(r) \/ \E s \in Schemas : Migrate(r, s) \/ Migrated(r, s)
  \/ StartWorkers(r) \/ StartHandlers(r)
Starting(r) == LoadConfig(r) \/ Booting(r)
Working(r) == Accept(r) \/ Answer(r) \/ FetchJob(r) \/ EndJob(r)
Stopping(r) ==
  Shutdown(r) \/ Drained(r) \/ SoftStop(r) \/ Stopped(r) \/ Flushed(r) \/ ClosePool(r)

\* A rotation of the key that seals cookies takes several rollouts, so that the
\* processes before and after each of them have the key the other ones seal with.
KeysOf(env) == Load(env)[1].cookieKeys
Rotates(old, new) == old[1] \in ToSet(new) /\ new[1] \in ToSet(old)

ServerNext ==
  \/ \E r \in Replicas :
       \/ \E only \in BOOLEAN : Launch(r, only)
       \/ Starting(r) \/ Working(r) \/ SetCookie(r) \/ Terminate(r) \/ Stopping(r)
       \/ Tick(r) \/ Die(r)
  \/ \E k \in cookies : Expire(k)
  \/ \E env \in Deployments :
       Load(env) # Failed /\ Rotates(KeysOf(deployed), KeysOf(env)) /\ Rollout(env)

ServerSpec == ServerInit /\ [][ServerNext]_serverVars

-----------------------------------------------------------------------------
(* Properties.                                                                *)

\* A process that serves with COOKIE_SECURE (the default) sends real mail and
\* pushes, stores images in a real store, signs and seals with keys its
\* siblings know, and shows its metrics to nobody without a token unless told
\* to: the stand-ins of main.go are reached in development only, whatever
\* settings are missing or wrong.
ProductionNeverFakes ==
  \A r \in Replicas : proc[r].pc = "serve" /\ Cfg(r).secure =>
    /\ {InitMailer(Cfg(r)), InitVAPIDPusher(Cfg(r)), InitObjectStore(Cfg(r)),
        InitAuthComponents(Cfg(r))} = {Loaded("real")}
    /\ "ephemeral" \notin ToSet(Cfg(r).cookieKeys)
    /\ MetricsMayServe(proc[r].env, Cfg(r))

\* Of processes that start together, as init containers of several pods do, no
\* one ever comes to a migration that another has applied, as neither
\* db.RunMigrations nor jobs.MigrateRiver could stand.
MigrationsNeverCollide ==
  \A r \in Replicas, s \in Schemas :
    proc[r].pc = Migrating(s) => schema[s] = proc[r].seen

\* A process that has begun to shut down is gone before the kubelet kills it,
\* whatever requests and jobs were in flight: the budgets of HTTP drain, job
\* stop and flush add up to less than terminationGracePeriodSeconds.
StopsInTime == \A r \in Replicas : proc[r].clock <= GracePeriod

\* While keys are rotated as config.go describes (a new key is first deployed
\* behind the old one, then before it), every process that serves opens the
\* session cookie any other process has set: nobody is logged out by a rollout.
CookiesAreRead ==
  \A r \in Replicas : proc[r].pc = "serve" =>
    \A k \in cookies : Decrypt(Cfg(r).cookieKeys, k)

\* A process that starts ends up serving or exits: none waits for a lock or a
\* pool connection for ever, however small the pool.
StartsResolve ==
  \A r \in Replicas : proc[r].pc = "connect" ~> proc[r].pc \in {"serve", "down"}
=============================================================================
