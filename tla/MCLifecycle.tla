----------------------------- MODULE MCLifecycle -----------------------------
(* Small instances, for TLC and as scenes, of what must come to an end whatever *)
(* fails or dies on the way: starts, stops and restarts of the server, the runs *)
(* of retention, the reminders of an event.                                     *)
EXTENDS MCPushJobs, Server, Retention

CONSTANTS p1, p2

VARIABLE scene
mcVars == <<serverVars, retentionVars, vars, scene>>

-----------------------------------------------------------------------------
(* Environments: a complete production one, and others.                       *)
Text == <<"text">>
Production ==
  [DATABASE_URL |-> <<[scheme |-> "postgres", host |-> "db"]>>, COOKIE_SECURE |-> Unset,
   ALLOWED_ORIGINS |-> <<"https://club">>, PUBLIC_BASE_URL |-> Unset,
   COOKIE_ENCRYPTION_KEYS |-> Unset, COOKIE_ENCRYPTION_KEY |-> <<"k1">>,
   JWT_PRIVATE_KEY |-> <<"pem">>, JWT_PUBLIC_KEY |-> <<"pem">>,
   SESSION_TTL_HOURS |-> Unset, TRUSTED_PROXY_CIDRS |-> Unset,
   PAGINATION_HMAC_KEY |-> Unset, RATE_LIMIT_RPS |-> Unset,
   LOGIN_RATE_LIMIT_PER_MIN |-> Unset, RETENTION_NOTIFICATIONS_DAYS |-> Unset,
   RETENTION_SESSIONS_DAYS |-> Unset, RETENTION_AUDIT_LOG_DAYS |-> Unset,
   S3_ENDPOINT |-> Text, S3_BUCKET |-> Text, S3_ACCESS_KEY_ID |-> Text,
   S3_SECRET_ACCESS_KEY |-> Text, S3_PUBLIC_BASE_URL |-> Unset,
   S3_USE_PATH_STYLE |-> Unset, SMTP_HOST |-> Text, SMTP_PORT |-> Unset,
   SMTP_FROM_ADDRESS |-> Text, SELF_REGISTRATION_ENABLED |-> Unset,
   EMAIL_VERIFICATION_TTL_HOURS |-> Unset, REGISTER_RATE_LIMIT_PER_MIN |-> Unset,
   RESEND_VERIFICATION_RATE_LIMIT_PER_MIN |-> Unset,
   RETENTION_UNVERIFIED_ACCOUNTS_DAYS |-> Unset, PASSWORD_RESET_TTL_HOURS |-> Unset,
   FORGOT_PASSWORD_RATE_LIMIT_PER_MIN |-> Unset, VAPID_PUBLIC_KEY |-> Text,
   VAPID_PRIVATE_KEY |-> Text, VAPID_SUBJECT |-> Text,
   IMAGE_DELIVERY_PROXY_ENABLED |-> Unset, DB_POOL_MAX_CONNS |-> Unset,
   DB_POOL_MIN_CONNS |-> Unset, DB_POOL_MAX_CONN_LIFETIME_MINUTES |-> Unset,
   DB_POOL_MAX_CONN_IDLE_TIME_MINUTES |-> Unset, OIDC_ENABLED |-> Unset,
   OIDC_ISSUER |-> Text, OIDC_CLIENT_ID |-> Text, OIDC_CLIENT_SECRET |-> Text,
   OIDC_REDIRECT_URL |-> Unset, OIDC_SCOPES |-> Unset, OIDC_EXTRA_SCOPES |-> Unset,
   OIDC_PROVIDER_ICON |-> Unset, METRICS_TOKEN |-> Text, METRICS_ALLOW_OPEN |-> Unset]

\* What an operator may have left out or mistyped.
Others(s) ==
  CASE s = "DATABASE_URL" -> {Unset, <<[scheme |-> "mysql", host |-> "db"]>>}
    [] s = "COOKIE_SECURE" -> {<<"false">>, <<"bad">>}
    [] s = "ALLOWED_ORIGINS" -> {Unset, <<"", "">>}
    [] s = "COOKIE_ENCRYPTION_KEYS" -> {<<"", "">>, <<"k2", "bad">>, <<"k2", "k1">>}
    [] s = "COOKIE_ENCRYPTION_KEY" -> {Unset, <<"bad">>}
    [] s \in {"JWT_PRIVATE_KEY", "JWT_PUBLIC_KEY"} -> {Unset, <<"bad">>}
    [] s = "TRUSTED_PROXY_CIDRS" -> {<<"10.0.0.0/8", "bad">>}
    [] s = "PAGINATION_HMAC_KEY" -> {<<"bad">>, <<"k3">>}
    [] s \in {"S3_ENDPOINT", "S3_PUBLIC_BASE_URL"} -> {Unset, <<"bad">>}
    [] s \in {"S3_BUCKET", "S3_ACCESS_KEY_ID", "S3_SECRET_ACCESS_KEY", "SMTP_HOST",
              "SMTP_FROM_ADDRESS", "VAPID_PUBLIC_KEY", "VAPID_PRIVATE_KEY",
              "VAPID_SUBJECT", "METRICS_TOKEN", "OIDC_ISSUER"} -> {Unset}
    [] s \in {"SESSION_TTL_HOURS", "RETENTION_AUDIT_LOG_DAYS", "RATE_LIMIT_RPS"} -> {<<0>>}
    [] s \in {"DB_POOL_MAX_CONNS", "DB_POOL_MIN_CONNS"} -> {<<1>>, <<0>>}
    [] s \in {"OIDC_ENABLED", "IMAGE_DELIVERY_PROXY_ENABLED"} -> {<<"true">>, <<"bad">>}
    [] s = "METRICS_ALLOW_OPEN" -> {<<"true">>}
    [] s = "OIDC_PROVIDER_ICON" -> {<<[odd |-> TRUE, prefix |-> "/"]>>,
                                    <<[odd |-> FALSE, prefix |-> "//"]>>}
    [] OTHER -> {}
Changed(e) == UNION {{[e EXCEPT ![s] = v] : v \in Others(s)} : s \in DOMAIN Production}
Mistaken == UNION {Changed(e) : e \in Changed(Production)}

\* The documented rotation of the key that seals cookies, over a pool of one.
Keys(keys) == [Production EXCEPT !.COOKIE_ENCRYPTION_KEYS = keys,
                                 !.DB_POOL_MAX_CONNS = <<1>>, !.DB_POOL_MIN_CONNS = <<1>>]
Rotation == <<Keys(<<"k1">>), Keys(<<"k1", "k2">>), Keys(<<"k2", "k1">>), Keys(<<"k2">>)>>

MCDeployments == Mistaken \union ToSet(Rotation)
MCTables == <<"notifications", "sessions", "invites", "audit_log", "users",
              "email_verification_tokens", "password_reset_tokens">>
MCLatest == [s \in Schemas |-> IF s = "app" THEN 2 ELSE 1]

-----------------------------------------------------------------------------
(* Scenes.                                                                    *)
\* One process, with up to two settings that differ from the complete ones.
BootScene ==
  /\ scene = "boot"
  /\ \/ Launch(p1, FALSE) /\ proc[p1].starts = 0
     \/ Starting(p1)

\* Two replicas migrate an empty database, and die at any point.
FleetScene ==
  /\ scene = "fleet"
  /\ \E r \in Replicas :
       \/ \E only \in BOOLEAN : Launch(r, only)
       \/ Starting(r) \/ Die(r) \/ Terminate(r)

\* One replica that works is told to stop.
StopScene ==
  /\ scene = "stop"
  /\ \/ Launch(p1, FALSE) /\ proc[p1].starts = 0
     \/ Starting(p1) \/ Working(p1) \/ Terminate(p1) \/ Stopping(p1) \/ Tick(p1)

\* Both replicas are restarted for each step of a rotation.
RotationScene ==
  /\ scene = "rotation"
  /\ \/ \E r \in Replicas :
          \/ Launch(r, FALSE) \/ Starting(r) \/ Stopping(r) \/ SetCookie(r)
          \/ proc[r].pc = "serve" /\ proc[r].env # deployed /\ Terminate(r)
     \/ \E k \in cookies : Expire(k)
     \/ \E i \in 1 .. Len(Rotation) - 1 : deployed = Rotation[i] /\ Rollout(Rotation[i + 1])

\* Bound: backlogs in three tables and one database error at a time.
Backlogs == {b \in [Phases -> 0 .. MaxBacklog] : Cardinality({i \in Phases : b[i] > 0}) <= 3}
RetentionScene ==
  /\ scene = "retention"
  /\ RetentionNext
  /\ old' \in Backlogs /\ Cardinality(failed') <= 1

\* The job that reminds, by one worker; nobody has a device in the other scenes.
Reminding(A) == scene = "reminders" /\ A /\ UNCHANGED <<serverVars, retentionVars, scene>>
\* Bound: the memberships, grants and preferences that change are u1's.
OthersStay ==
  \A p \in Pairs : p[2] # u1 =>
    <<lead'[p], p \in wants', p \in members', p \in readers'>>
      = <<lead[p], p \in wants, p \in members, p \in readers>>
Undisturbed == Init /\ start = [e \in Events |-> Horizon] /\ lead = [p \in Pairs |-> 0]

MCInit ==
  /\ scene \in {"boot", "fleet", "stop", "rotation", "retention", "reminders"}
  /\ deployed \in IF scene = "boot" THEN Mistaken ELSE {Rotation[1]}
  /\ old \in IF scene = "retention" THEN Backlogs ELSE {[i \in Phases |-> 0]}
  /\ ServerInit /\ RetentionInit
  /\ IF scene = "reminders" THEN Settled ELSE Undisturbed

MCNext ==
  \/ /\ BootScene \/ FleetScene \/ StopScene \/ RotationScene
     /\ UNCHANGED <<retentionVars, vars, scene>>
  \/ RetentionScene /\ UNCHANGED <<serverVars, vars, scene>>
  \/ Reminding(Next) /\ OthersStay

\* A process that has its configuration takes its next step at last; the periodic job
\* keeps coming, and a worker takes what is available and runs it on.
MCSpec ==
  /\ MCInit /\ [][MCNext]_mcVars
  /\ \A r \in Replicas : WF_mcVars(Booting(r) /\ UNCHANGED <<retentionVars, vars, scene>>)
  /\ \A k \in Ticks : WF_mcVars(Reminding(EnqueueTick(k)))
  /\ \A w \in Workers : WF_mcVars(Reminding(TakeAny(w))) /\ WF_mcVars(Reminding(Step(w)))
=============================================================================
