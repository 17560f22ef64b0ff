------------------------------- MODULE Gateway -------------------------------
(* The way of a request to the handler of its operation (cmd/server/main.go,   *)
(* middleware/): the limit on requests per client, CORS and the origin check,   *)
(* the router's choice of an operation, then for what is not public the        *)
(* session, and for what belongs to a team the membership and the permission    *)
(* its row of the generated table asks for. The two reads behind the last two   *)
(* are statements of their own, so the caller's place in the team may change    *)
(* between them.                                                                *)
EXTENDS Integers, FiniteSets, SequencesExt

CONSTANTS
  Slots,      \* requests in flight
  Clients,    \* addresses of callers, none of them trusted
  Proxies,    \* addresses within TRUSTED_PROXY_CIDRS
  Pair,       \* two callers of one IPv6 /64
  Ids,        \* words that stand where a template has a parameter
  Limit       \* requests one key may make in a window, of each limiter

ASSUME GatewayAssumption ==
  /\ Clients \intersect Proxies = {} /\ Pair \subseteq Clients
  /\ Limit \in Nat \ {0}

VARIABLES
  reqs,       \* [Slots -> request]
  signedIn,   \* does the caller's session live
  member,     \* is the caller a member of the team
  grants,     \* [Modules -> Levels], the caller's roles in the team, folded
  hits,       \* <<limiter, key>> -> requests counted in this window
  sent,       \* history: <<limiter, network>> -> requests that came to the limiter
  passed      \* history: <<limiter, network>> -> requests it let on
gateVars == <<reqs, signedIn, member, grants, hits, sent, passed>>

Modules == {"events", "members", "finances", "news", "polls", "settings", "stats"}
Levels == {"none", "read", "write"}

-----------------------------------------------------------------------------
(* The operations of a team, by the handler they are delegated to. A row is a   *)
(* method, the segments after the team ("*" for a parameter), the module asked  *)
(* for, and whether members serve themselves.                                   *)
Rows(module, paths) == {[method |-> p[1], path |-> Tail(p), module |-> module,
                         self |-> FALSE] : p \in paths}
SelfRows(module, paths) == {[r EXCEPT !.self = TRUE] : r \in Rows(module, paths)}

TeamsOps ==
  Rows("public", {<<"GET">>, <<"GET", "logo">>, <<"GET", "photo">>})
  \union Rows("settings", {<<"PATCH">>, <<"POST", "invite">>, <<"PUT", "logo">>,
      <<"DELETE", "logo">>, <<"PUT", "photo">>, <<"DELETE", "photo">>})
MembersOps ==
  Rows("members", {<<"GET", "members">>, <<"GET", "members", "*", "photo">>,
      <<"DELETE", "members", "*">>, <<"PATCH", "members", "*">>})
  \union Rows("settings", {<<"PUT", "members", "*", "roles">>})
  \union SelfRows("members", {<<"PUT", "members", "*", "title">>})
RolesOps ==
  Rows("settings", {<<"GET", "roles">>, <<"POST", "roles">>, <<"DELETE", "roles", "*">>,
      <<"PATCH", "roles", "*">>})
EventsOps ==
  Rows("events", {<<"GET", "events">>, <<"POST", "events">>, <<"GET", "events", "*">>,
      <<"PATCH", "events", "*">>, <<"DELETE", "events", "*">>,
      <<"POST", "events", "*", "status">>, <<"GET", "events", "*", "comments">>,
      <<"GET", "events", "*", "attendance">>,
      <<"PUT", "events", "*", "attendance", "nominations">>})
  \union SelfRows("events", {<<"POST", "events", "*", "comments">>,
      <<"DELETE", "events", "*", "comments", "*">>,
      <<"POST", "events", "*", "attendance">>})
AbsencesOps ==
  Rows("public", {<<"GET", "absences">>, <<"POST", "absences">>,
      <<"GET", "absences", "mine">>, <<"DELETE", "absences", "*">>,
      <<"PATCH", "absences", "*">>, <<"PATCH", "absences", "*", "stats-relevance">>})
NewsOps ==
  Rows("news", {<<"GET", "news">>, <<"POST", "news">>, <<"PATCH", "news", "*">>,
      <<"DELETE", "news", "*">>})
PollsOps ==
  Rows("polls", {<<"GET", "polls">>, <<"POST", "polls">>, <<"DELETE", "polls", "*">>})
  \union SelfRows("polls", {<<"POST", "polls", "*", "vote">>})
NotificationsOps ==
  Rows("public", {<<"GET", "notifications">>, <<"POST", "notifications", "seen">>})
FinancesOps ==
  Rows("finances", {<<"GET", "finances">>, <<"GET", "finances", "transactions">>}
    \union {<<"POST", "finances", k>> : k \in {"transactions", "penalties",
                                               "penalty-assignments", "contributions"}}
    \union {<<"PATCH", "finances", k, "*">> : k \in {"transactions", "penalties",
                                                     "contributions"}}
    \union {<<"DELETE", "finances", k, "*">> : k \in {"transactions", "penalties",
                                               "penalty-assignments", "contributions"}})
StatsOps ==
  Rows("stats", {<<"GET", "stats">>, <<"GET", "stats", "members", "*">>,
      <<"GET", "stats", "attendance-matrix">>})
StatsPrefsOps ==
  Rows("stats", {<<"GET", "stats-preferences">>, <<"GET", "stats-presets">>,
      <<"POST", "stats-presets">>, <<"PATCH", "stats-presets", "*">>,
      <<"DELETE", "stats-presets", "*">>})
  \union SelfRows("stats", {<<"PUT", "stats-preferences">>})
PushOps ==
  Rows("public", {<<"GET", "push-preferences">>, <<"PUT", "push-preferences">>})
CalendarFeedOps ==
  SelfRows("events", {<<"POST", "calendar-feed", "token">>,
      <<"DELETE", "calendar-feed", "token">>, <<"GET", "calendar-feed", "settings">>,
      <<"PUT", "calendar-feed", "settings">>})
CalendarShareOps ==
  Rows("settings", {<<"GET", "calendar-shares">>, <<"POST", "calendar-shares">>,
      <<"DELETE", "calendar-shares", "*">>})
  \union Rows("public", {<<"GET", "shared-calendars">>,
      <<"GET", "shared-calendars", "*", "events">>})

RbacRoutes ==
  UNION {TeamsOps, MembersOps, RolesOps, EventsOps, AbsencesOps, NewsOps, PollsOps,
         NotificationsOps, FinancesOps, StatsOps, StatsPrefsOps, PushOps,
         CalendarFeedOps, CalendarShareOps}

-----------------------------------------------------------------------------
(* The router. Operations outside a team need a session unless the overrides    *)
(* registered after the generated mux replace them; limited ones share the      *)
(* limiter they name. A static segment wins over a parameter.                   *)
Op(method, path, limiter, public) ==
  [method |-> method, path |-> path, limiter |-> limiter, public |-> public]

AuthOps ==
  {Op("POST", <<"auth", "logout">>, "", FALSE), Op("GET", <<"auth", "me">>, "", FALSE),
   Op("DELETE", <<"auth", "me">>, "", FALSE), Op("GET", <<"auth", "me", "photo">>, "", FALSE),
   Op("PUT", <<"auth", "me", "photo">>, "", FALSE),
   Op("GET", <<"auth", "me", "data-export">>, "", FALSE)}
AccountOps ==
  {Op("GET", <<"teams">>, "", FALSE), Op("POST", <<"teams">>, "", FALSE),
   Op("POST", <<"invites", "*", "accept">>, "", FALSE),
   Op("POST", <<"users", "me", "push-subscriptions">>, "", FALSE),
   Op("DELETE", <<"users", "me", "push-subscriptions">>, "", FALSE)}
PublicOps ==
  {Op("POST", <<"auth", "login">>, "login", TRUE),
   Op("GET", <<"auth", "providers">>, "", TRUE),
   Op("GET", <<"auth", "oidc", "start">>, "oidc", TRUE),
   Op("GET", <<"auth", "oidc", "callback">>, "oidc", TRUE),
   Op("POST", <<"auth", "register">>, "register", TRUE),
   Op("POST", <<"auth", "verify-email">>, "", TRUE),
   Op("POST", <<"auth", "resend-verification">>, "resend", TRUE),
   Op("POST", <<"auth", "forgot-password">>, "forgot", TRUE),
   Op("POST", <<"auth", "reset-password">>, "", TRUE),
   Op("GET", <<"calendar-feed", "*.ics">>, "", TRUE)}
TeamPath(row) == <<"teams", "*">> \o row.path
Mux == AuthOps \union AccountOps \union PublicOps
       \union {Op(row.method, TeamPath(row), "", FALSE) : row \in RbacRoutes}
Limiters == {"global", "login", "oidc", "register", "resend", "forgot"}

Param(seg) == seg \in {"*", "*.ics"}
Fits(template, path) ==
  /\ Len(template) = Len(path)
  /\ \A i \in DOMAIN path : Param(template[i]) \/ template[i] = path[i]
Prefers(a, b) ==   \* the first segment they differ in is static in a
  \E i \in DOMAIN a : /\ a[i] # b[i] /\ ~Param(a[i])
                      /\ \A j \in 1 .. i - 1 : a[j] = b[j]
Routed(method, path) ==
  LET fit == {o \in Mux : o.method = method /\ Fits(o.path, path)}
  IN  {o \in fit : \A p \in fit \ {o} : Prefers(o.path, p.path)}
TeamScoped(op) == Len(op.path) >= 2 /\ op.path[1] = "teams"

-----------------------------------------------------------------------------
(* The permission middleware's own lookup, on the path behind the team. *)
SubPathAfterTeam(path) == SubSeq(path, 3, Len(path))

\* Mutant: a row matches every path it is the beginning of.
SegmentsMatch_Prefix(template, actual) ==
  /\ Len(template) <= Len(actual)
  /\ \A i \in DOMAIN template : Param(template[i]) \/ template[i] = actual[i]
SegmentsMatch(template, actual) ==
  /\ Len(template) = Len(actual)
  /\ \A i \in DOMAIN template : Param(template[i]) \/ template[i] = actual[i]
MatchRBACRoute(method, subPath) ==
  {row \in RbacRoutes : row.method = method /\ SegmentsMatch(row.path, subPath)}

\* A fact of the table, which TLC evaluates: rows that fit one path ask for the same.
Overlap(a, b) ==
  /\ Len(a) = Len(b)
  /\ \A i \in DOMAIN a : Param(a[i]) \/ Param(b[i]) \/ a[i] = b[i]
ASSUME RoutesAssumption ==
  /\ RbacRoutes \subseteq [method : STRING, path : Seq(STRING),
                           module : Modules \union {"public"}, self : BOOLEAN]
  /\ \A a, b \in RbacRoutes :
       a.method = b.method /\ Overlap(a.path, b.path)
         => a.module = b.module /\ a.self = b.self

HasWritePermission(perms, module) == perms[module] = "write"
HasAnyPermission(perms, module) == perms[module] \in {"read", "write"}
HasRequiredPermission(perms, row, method) ==
  IF row.self \/ method = "GET" THEN HasAnyPermission(perms, row.module)
  ELSE HasWritePermission(perms, row.module)

\* What the caller's roles give it now: nothing without a membership.
GetPermissions == IF member THEN grants ELSE [m \in Modules |-> "none"]

-----------------------------------------------------------------------------
(* The key a limiter counts a request under. A header is a sequence of lines,   *)
(* a line a sequence of hops; each trusted proxy of the chain appends the peer  *)
(* it saw, joined to the last line or on a line of its own.                     *)
IsTrustedPeer(addr) == addr \in Proxies
CanonicalizeIP(addr) == IF addr \in Pair THEN Pair ELSE {addr}

Hops(header) == UNION {{l} \X DOMAIN header[l] : l \in DOMAIN header}
\* The last of the hops H that is an address, and not trusted.
Rightmost(header, H, peer) ==
  LET addr(h) == header[h[1]][h[2]]
      real == {h \in H : addr(h) \in Clients}
      right(h) == \A j \in real : j[1] < h[1] \/ (j[1] = h[1] /\ j[2] <= h[2])
  IN  IF real = {} THEN CanonicalizeIP(peer)
      ELSE CanonicalizeIP(addr(CHOOSE h \in real : right(h)))
\* Mutant: only the first line of the header is read.
RealForwardedIP_FirstLine(header, peer) ==
  Rightmost(header, {h \in Hops(header) : h[1] = 1}, peer)
RealForwardedIP(header, peer) == Rightmost(header, Hops(header), peer)
TrustedProxyKeyFunc(header, peer) ==
  IF IsTrustedPeer(peer) THEN RealForwardedIP(header, peer) ELSE CanonicalizeIP(peer)

\* What arrives of a header sent by `from` along a chain of proxies.
Forwarded(header, from, chain, joined) ==
  LET hops == [i \in DOMAIN chain |-> IF i = 1 THEN from ELSE chain[i - 1]]
  IN  IF ~joined THEN header \o [i \in DOMAIN hops |-> <<hops[i]>>]
      ELSE IF header = <<>> THEN <<hops>>
      ELSE [header EXCEPT ![Len(header)] = @ \o hops]
Peer(from, chain) == IF chain = <<>> THEN from ELSE Last(chain)

Keys == {CanonicalizeIP(a) : a \in Clients \union Proxies}

-----------------------------------------------------------------------------
NoRequest == [pc |-> "free", from |-> {}, key |-> {}, method |-> "", path |-> <<>>,
              origin |-> "", seen |-> {}]

GatewayInit ==
  /\ reqs = [s \in Slots |-> NoRequest]
  /\ signedIn \in BOOLEAN /\ member \in BOOLEAN
  /\ grants \in [Modules -> Levels]
  /\ hits = [k \in Limiters \X Keys |-> 0]
  /\ sent = hits /\ passed = hits

\* Does a place in the team - a membership, its roles' levels - give this operation.
Entitled(op, in, levels) ==
  /\ in
  /\ \A row \in RbacRoutes :
       (row.method = op.method /\ TeamPath(row) = op.path) =>
         \/ row.module = "public"
         \/ levels[row.module] = "write"
         \/ levels[row.module] = "read" /\ (row.self \/ op.method = "GET")
\* What a caller meets of all that the operation of a path asks for.
Standing(method, path, session, in, levels) ==
  LET ops == Routed(method, path)
  IN  (IF session \/ \E op \in ops : op.public THEN {"session"} ELSE {})
      \union (IF \A op \in ops : TeamScoped(op) => Entitled(op, in, levels)
              THEN {"team"} ELSE {})

To(s, pc) == reqs' = [reqs EXCEPT ![s].pc = pc]
InFlight(s) == reqs[s].pc \notin {"free", "served", "denied", "refused"}

\* Counts a request of network `from` under key `k`, and says whether it goes on.
Count(l, k, from) ==
  /\ sent' = [sent EXCEPT ![<<l, from>>] = @ + 1]
  /\ IF hits[<<l, k>>] < Limit
     THEN /\ hits' = [hits EXCEPT ![<<l, k>>] = @ + 1]
          /\ passed' = [passed EXCEPT ![<<l, from>>] = @ + 1]
     ELSE UNCHANGED <<hits, passed>>
Admits(l, k) == hits[<<l, k>>] < Limit

RateLimit(s, c) ==   \* a request c arrives; the limiter comes before CORS
  LET key == TrustedProxyKeyFunc(Forwarded(c.header, c.from, c.chain, c.joined),
                                 Peer(c.from, c.chain))
  IN  /\ reqs[s].pc = "free"
      /\ reqs' = [reqs EXCEPT ![s] =
           [pc |-> IF Admits("global", key) THEN "screen" ELSE "refused",
            from |-> CanonicalizeIP(c.from), key |-> key, method |-> c.method,
            path |-> c.path, origin |-> c.origin,
            seen |-> {Standing(c.method, c.path, signedIn, member, grants)}]]
      /\ Count("global", key, CanonicalizeIP(c.from))
      /\ UNCHANGED <<signedIn, member, grants>>

CORS(s) ==   \* a preflight of an allowed origin is answered
  /\ reqs[s].pc = "screen" /\ reqs[s].method = "OPTIONS" /\ reqs[s].origin = "own"
  /\ To(s, "refused")
  /\ UNCHANGED <<signedIn, member, grants, hits, sent, passed>>

CSRFOriginCheck(s) ==   \* changes are not taken from other sites
  /\ reqs[s].pc = "screen" /\ reqs[s].method \notin {"GET", "HEAD", "OPTIONS"}
  /\ reqs[s].origin = "other"
  /\ To(s, "refused")
  /\ UNCHANGED <<signedIn, member, grants, hits, sent, passed>>

Dispatch(s) ==
  LET r == reqs[s]
      ops == Routed(r.method, r.path)
  IN  /\ r.pc = "screen" /\ ~(r.method = "OPTIONS" /\ r.origin = "own")
      /\ r.method \in {"GET", "HEAD", "OPTIONS"} \/ r.origin # "other"
      /\ To(s, IF ops = {} THEN "refused"
               ELSE IF \E op \in ops : op.limiter # "" THEN "limiter"
               ELSE IF \E op \in ops : op.public THEN "served" ELSE "session")
      /\ UNCHANGED <<signedIn, member, grants, hits, sent, passed>>

PerIPRateLimit(s) ==
  LET r == reqs[s]
      op == CHOOSE o \in Routed(r.method, r.path) : TRUE
  IN  /\ r.pc = "limiter"
      /\ To(s, IF Admits(op.limiter, r.key) THEN "served" ELSE "refused")
      /\ Count(op.limiter, r.key, r.from)
      /\ UNCHANGED <<signedIn, member, grants>>

AuthMiddleware(s) ==
  LET r == reqs[s]
      op == CHOOSE o \in Routed(r.method, r.path) : TRUE
  IN  /\ r.pc = "session"
      /\ To(s, IF ~signedIn THEN "denied"
               ELSE IF TeamScoped(op) THEN "membership" ELSE "served")
      /\ UNCHANGED <<signedIn, member, grants, hits, sent, passed>>

RequireMembership(s) ==
  /\ reqs[s].pc = "membership"
  /\ To(s, IF reqs[s].path[2] # "id" THEN "refused"
           ELSE IF member THEN "permission" ELSE "denied")
  /\ UNCHANGED <<signedIn, member, grants, hits, sent, passed>>

\* What the generated wrapper does before the handler: a parameter that is no id.
Bind(r) ==
  LET op == CHOOSE o \in Routed(r.method, r.path) : TRUE
  IN  IF \A i \in DOMAIN r.path : op.path[i] = "*" => r.path[i] = "id"
      THEN "served" ELSE "refused"

RequirePermission(s) ==
  LET r == reqs[s]
      rows == MatchRBACRoute(r.method, SubPathAfterTeam(r.path))
  IN  /\ r.pc = "permission"
      /\ \/ rows = {} /\ To(s, "denied")
         \/ \E row \in rows :
              To(s, IF row.module = "public"
                       \/ HasRequiredPermission(GetPermissions, row, r.method)
                    THEN Bind(r) ELSE "denied")
      /\ UNCHANGED <<signedIn, member, grants, hits, sent, passed>>

Handle(s) ==
  /\ reqs[s].pc \in {"served", "denied", "refused"}
  /\ reqs' = [reqs EXCEPT ![s] = NoRequest]
  /\ UNCHANGED <<signedIn, member, grants, hits, sent, passed>>

-----------------------------------------------------------------------------
(* Meanwhile another request signs the caller out, or changes its place in the  *)
(* team; requests in flight remember what they met.                             *)
Noted ==
  reqs' = [s \in Slots |->
    IF InFlight(s)
    THEN [reqs[s] EXCEPT !.seen = @ \union
            {Standing(reqs[s].method, reqs[s].path, signedIn', member', grants')}]
    ELSE reqs[s]]
SignOut == signedIn /\ signedIn' = FALSE /\ UNCHANGED <<member, grants>>
Leave == member /\ member' = FALSE /\ UNCHANGED <<signedIn, grants>>
Join == ~member /\ member' = TRUE /\ UNCHANGED <<signedIn, grants>>
SetRoles(g) == member /\ g # grants /\ grants' = g /\ UNCHANGED <<signedIn, member>>
Elsewhere(changes) ==
  /\ SignOut \/ Leave \/ Join \/ (\E g \in changes : SetRoles(g))
  /\ Noted
  /\ UNCHANGED <<hits, sent, passed>>

NextWindow(l) ==
  LET reset(f) == [k \in DOMAIN f |-> IF k[1] = l THEN 0 ELSE f[k]]
  IN  /\ hits' = reset(hits) /\ sent' = reset(sent) /\ passed' = reset(passed)
      /\ hits' # hits
      /\ UNCHANGED <<reqs, signedIn, member, grants>>

Steps(s) ==
  \/ CORS(s) \/ CSRFOriginCheck(s) \/ Dispatch(s) \/ PerIPRateLimit(s)
  \/ AuthMiddleware(s) \/ RequireMembership(s) \/ RequirePermission(s) \/ Handle(s)

GatewayNext(calls, changes) ==
  \/ \E s \in Slots : Steps(s) \/ \E c \in calls : RateLimit(s, c)
  \/ Elsewhere(changes)
  \/ \E l \in Limiters : NextWindow(l)

\* Any request of a caller, or of a proxy on its own account; the header holds what
\* its sender claims, addresses or not.
Calls ==
  {c \in [from : Clients \union Proxies, method : STRING, path : Seq(STRING),
          origin : STRING, header : Seq(Seq(Clients \union Proxies \union STRING)),
          chain : Seq(Proxies), joined : BOOLEAN] :
     c.from \in Proxies => (c.chain = <<>> /\ c.header = <<>>)}
GatewaySpec == GatewayInit /\ [][GatewayNext(Calls, [Modules -> Levels])]_gateVars

-----------------------------------------------------------------------------
\* The paths of the router's templates, with words in place of parameters.
Instances ==
  UNION {{[i \in DOMAIN op.path |-> IF Param(op.path[i]) THEN id ELSE op.path[i]]
           : id \in Ids} : op \in Mux}

-----------------------------------------------------------------------------
(* A request reaches its handler only if since it arrived its caller had a live *)
(* session and, at one instant, both the membership and the level its own       *)
(* operation asks for, although the two are read one after the other and the    *)
(* row is looked up anew; and none is turned away that had all of it throughout *)
(* (middleware/authz.go, main.go:705-788).                                      *)
JudgedByOwnRule ==
  \A s \in Slots :
    /\ reqs[s].pc = "served" => {"session", "team"} \subseteq UNION reqs[s].seen
    /\ reqs[s].pc = "denied" => {{"session", "team"}} # reqs[s].seen

(* Each limiter lets every network through up to the limit and no further,      *)
(* whatever hops its requests claim, however the proxies append theirs, and     *)
(* whatever the others send (middleware.go:161-237).                            *)
LimitPerClient ==
  \A k \in Limiters \X Keys :
    passed[k] = IF sent[k] < Limit THEN sent[k] ELSE Limit
=============================================================================
