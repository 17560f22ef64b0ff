------------------------------- MODULE Config -------------------------------
(* What config.Load makes of the environment, and what main builds from it.    *)
(*                                                                             *)
(* An environment gives every variable the list of the words it holds, << >>   *)
(* when it is unset or empty. A word stands for a class of texts: "bad" is one *)
(* the variable's parser refuses, "" a blank element of a comma-separated      *)
(* list, a number that is not positive any text that is no positive integer.   *)
EXTENDS Integers, Sequences, SequencesExt

Unset == << >>

\* A loader returns << >> when it fails and <<value>> when it succeeds.
Failed == << >>
Loaded(v) == <<v>>
Check(ok, v) == IF ok THEN Loaded(v) ELSE Failed
\* One settings group out of several loaders: it fails when one of them does.
Group(loaded) ==
  IF \E f \in DOMAIN loaded : loaded[f] = Failed THEN Failed
  ELSE Loaded([f \in DOMAIN loaded |-> loaded[f][1]])

EnvOr(words, fallback) == IF words = Unset THEN fallback ELSE words
ParseInt(words, default) ==
  IF words = Unset THEN Loaded(default) ELSE Check(words[1] > 0, words[1])
ParseBool(words, default) ==
  IF words = Unset THEN Loaded(default)
  ELSE Check(words[1] \in {"true", "false"}, words[1] = "true")
NonBlank(words) == SelectSeq(words, LAMBDA w : w # "")

-----------------------------------------------------------------------------
(* The loaders.                                                               *)
ValidateDatabaseURL(u) == u.scheme \in {"postgres", "postgresql"} /\ u.host # ""
LoadDatabaseURL(e) ==
  Check(e.DATABASE_URL # Unset /\ ValidateDatabaseURL(e.DATABASE_URL[1]), e.DATABASE_URL)

LoadAllowedOrigins(e) == NonBlank(EnvOr(e.ALLOWED_ORIGINS, <<"http://localhost:5173">>))
LoadOriginsAndPublicBaseURL(e) ==
  LET origins == LoadAllowedOrigins(e)
  IN  IF origins = << >> THEN Failed
      ELSE Loaded([allowed |-> origins,
                   publicBaseURL |-> EnvOr(e.PUBLIC_BASE_URL, <<origins[1]>>)])

LoadCookieSecure(e) == ParseBool(e.COOKIE_SECURE, TRUE)

DecodeKey32(word) == Check(word # "bad", word)
\* The plural variable, the singular one, and outside production a key that no
\* other process knows.
LoadCookieEncryptionKeys(e, secure) ==
  LET plural == NonBlank(e.COOKIE_ENCRYPTION_KEYS)
      given == IF plural # << >> THEN plural ELSE e.COOKIE_ENCRYPTION_KEY
  IN  IF given # Unset
      THEN Check(\A i \in DOMAIN given : DecodeKey32(given[i]) # Failed, given)
      ELSE Check(~ secure, <<"ephemeral">>)

LoadJWTKeys(e, secure) ==
  Check(secure => e.JWT_PRIVATE_KEY # Unset /\ e.JWT_PUBLIC_KEY # Unset,
        [private |-> e.JWT_PRIVATE_KEY, public |-> e.JWT_PUBLIC_KEY])
LoadSessionTTLHours(e) == ParseInt(e.SESSION_TTL_HOURS, 720)
LoadTrustedProxyCIDRs(e) ==
  LET cidrs == NonBlank(e.TRUSTED_PROXY_CIDRS)
  IN  Check(\A i \in DOMAIN cidrs : cidrs[i] # "bad", cidrs)
LoadOptionalBytesKey(words) == Check(words = Unset \/ DecodeKey32(words[1]) # Failed, words)
LoadRateLimits(e) ==
  Group([rps |-> ParseInt(e.RATE_LIMIT_RPS, 100),
         login |-> ParseInt(e.LOGIN_RATE_LIMIT_PER_MIN, 5)])
LoadRetentionDays(e) ==
  Group([notifications |-> ParseInt(e.RETENTION_NOTIFICATIONS_DAYS, 90),
         sessions |-> ParseInt(e.RETENTION_SESSIONS_DAYS, 30),
         auditLog |-> ParseInt(e.RETENTION_AUDIT_LOG_DAYS, 365)])

LoadS3Config(e, secure) ==
  LET needed == {e.S3_ENDPOINT, e.S3_BUCKET, e.S3_ACCESS_KEY_ID, e.S3_SECRET_ACCESS_KEY}
  IN  IF ParseBool(e.S3_USE_PATH_STYLE, FALSE) = Failed THEN Failed
      ELSE Check(secure => Unset \notin needed,
                 [endpoint |-> e.S3_ENDPOINT, publicBaseURL |-> e.S3_PUBLIC_BASE_URL])

LoadSMTPConfig(e, secure) ==
  Check(secure => e.SMTP_HOST # Unset /\ e.SMTP_FROM_ADDRESS # Unset,
        [host |-> e.SMTP_HOST, from |-> e.SMTP_FROM_ADDRESS,
         port |-> EnvOr(e.SMTP_PORT, <<"587">>)])
LoadSelfRegistrationEnabled(e) == ParseBool(e.SELF_REGISTRATION_ENABLED, TRUE)
LoadRegistrationRateLimits(e) ==
  Group([register |-> ParseInt(e.REGISTER_RATE_LIMIT_PER_MIN, 5),
         resend |-> ParseInt(e.RESEND_VERIFICATION_RATE_LIMIT_PER_MIN, 3)])
LoadRegistrationConfig(e, secure) ==
  Group([smtp |-> LoadSMTPConfig(e, secure),
         enabled |-> LoadSelfRegistrationEnabled(e),
         verificationTTL |-> ParseInt(e.EMAIL_VERIFICATION_TTL_HOURS, 48),
         limits |-> LoadRegistrationRateLimits(e),
         unverifiedDays |-> ParseInt(e.RETENTION_UNVERIFIED_ACCOUNTS_DAYS, 7),
         resetTTL |-> ParseInt(e.PASSWORD_RESET_TTL_HOURS, 1),
         forgot |-> ParseInt(e.FORGOT_PASSWORD_RATE_LIMIT_PER_MIN, 3)])

\* Mutant: COOKIE_SECURE asks for the subject only.
LoadVAPIDConfig_SubjectOnly(e, secure) ==
  Check(secure => e.VAPID_SUBJECT # Unset,
        [public |-> e.VAPID_PUBLIC_KEY, private |-> e.VAPID_PRIVATE_KEY])
LoadVAPIDConfig(e, secure) ==
  LET needed == {e.VAPID_PUBLIC_KEY, e.VAPID_PRIVATE_KEY, e.VAPID_SUBJECT}
  IN  Check(secure => Unset \notin needed,
            [public |-> e.VAPID_PUBLIC_KEY, private |-> e.VAPID_PRIVATE_KEY])
LoadImageDeliveryProxyEnabled(e) == ParseBool(e.IMAGE_DELIVERY_PROXY_ENABLED, FALSE)
LoadDBPoolConfig(e) ==
  LET pool == Group([max |-> ParseInt(e.DB_POOL_MAX_CONNS, 25),
                     min |-> ParseInt(e.DB_POOL_MIN_CONNS, 2),
                     life |-> ParseInt(e.DB_POOL_MAX_CONN_LIFETIME_MINUTES, 60),
                     idle |-> ParseInt(e.DB_POOL_MAX_CONN_IDLE_TIME_MINUTES, 30)])
  IN  IF pool = Failed THEN Failed ELSE Check(pool[1].min <= pool[1].max, pool[1])

MergeOIDCScopes(base, extra) ==
  FoldLeft(LAMBDA out, s : IF s \in ToSet(out) THEN out ELSE Append(out, s),
           <<"openid">>, base \o extra)
\* odd: it holds a backslash, a blank or a control character.
ValidateOIDCIcon(icon) ==
  icon = Unset \/ (~ icon[1].odd /\ icon[1].prefix \in {"/", "https://"})
LoadOIDCConfig(e) ==
  LET enabled == ParseBool(e.OIDC_ENABLED, FALSE)
  IN  IF enabled = Failed THEN Failed
      ELSE IF ~ enabled[1] THEN Loaded([enabled |-> FALSE])
      ELSE Check(/\ Unset \notin {e.OIDC_ISSUER, e.OIDC_CLIENT_ID, e.OIDC_CLIENT_SECRET}
                 /\ ValidateOIDCIcon(e.OIDC_PROVIDER_ICON),
                 [enabled |-> TRUE, redirect |-> e.OIDC_REDIRECT_URL,
                  scopes |-> MergeOIDCScopes(EnvOr(e.OIDC_SCOPES,
                               <<"openid", "profile", "email">>), e.OIDC_EXTRA_SCOPES)])
WithDefaults(oidc, publicBaseURL) ==
  IF oidc.enabled /\ oidc.redirect = Unset
  THEN [oidc EXCEPT !.redirect = publicBaseURL \o <<"/api/v1/auth/oidc/callback">>]
  ELSE oidc

LoadAdditionalConfig(e, secure) ==
  Group([vapid |-> LoadVAPIDConfig(e, secure),
         imageProxy |-> LoadImageDeliveryProxyEnabled(e),
         dbPool |-> LoadDBPoolConfig(e), oidc |-> LoadOIDCConfig(e)])

Completed(cfg) ==
  [cfg EXCEPT !.extra.oidc = WithDefaults(cfg.extra.oidc, cfg.origins.publicBaseURL)]
Load(e) ==
  LET flag == LoadCookieSecure(e)
  IN  IF flag = Failed THEN Failed
      ELSE LET secure == flag[1]
               cfg == Group([databaseURL |-> LoadDatabaseURL(e), secure |-> flag,
                 ttl |-> LoadSessionTTLHours(e), origins |-> LoadOriginsAndPublicBaseURL(e),
                 cookieKeys |-> LoadCookieEncryptionKeys(e, secure),
                 jwt |-> LoadJWTKeys(e, secure), cidrs |-> LoadTrustedProxyCIDRs(e),
                 limits |-> LoadRateLimits(e),
                 pagination |-> LoadOptionalBytesKey(e.PAGINATION_HMAC_KEY),
                 retention |-> LoadRetentionDays(e), s3 |-> LoadS3Config(e, secure),
                 reg |-> LoadRegistrationConfig(e, secure),
                 extra |-> LoadAdditionalConfig(e, secure)])
           IN  IF cfg = Failed THEN Failed
               ELSE Loaded(Completed(cfg[1]))

-----------------------------------------------------------------------------
(* What main makes of a configuration: the real thing, a stand-in kept in the  *)
(* memory of the process, or nothing, and the process exits.                   *)
MetricsMayServe(e, cfg) ==
  e.METRICS_TOKEN = Unset /\ cfg.secure => e.METRICS_ALLOW_OPEN = <<"true">>

InitMailer(cfg) ==
  IF cfg.reg.smtp.host = Unset THEN Loaded("stand-in")
  ELSE Check(cfg.reg.smtp.from # Unset, "real")
InitVAPIDPusher(cfg) ==
  IF cfg.extra.vapid.public = Unset THEN Loaded("stand-in")
  ELSE Check(cfg.extra.vapid.private # Unset, "real")
InitObjectStore(cfg) ==
  IF cfg.s3.endpoint = Unset THEN Loaded("stand-in")
  ELSE Check(cfg.s3.endpoint # <<"bad">> /\ cfg.s3.publicBaseURL # <<"bad">>, "real")
InitAuthComponents(cfg) ==
  IF cfg.jwt.private = Unset /\ cfg.jwt.public = Unset THEN Loaded("stand-in")
  ELSE Check(cfg.jwt.private = <<"pem">> /\ cfg.jwt.public = <<"pem">>, "real")
=============================================================================
