------------------------------- MODULE SignIn --------------------------------
(* Signing in through the OpenID Connect provider (auth/handler_oidc.go,        *)
(* auth/oidc.go, auth/cookie.go): a browser's start mints the secrets of an     *)
(* attempt into its one state cookie, the provider sends it back with a code,   *)
(* and the callback checks the cookie, trades the code and sets the session.    *)
(* The state, nonce and verifier of an attempt are its number; the provider is  *)
(* external and keeps the protocol: a code is good once, and only with the      *)
(* verifier of the attempt it was given for. Which account the claims belong to *)
(* is the module Accounts'.                                                     *)
EXTENDS Integers, Sequences, FiniteSets

CONSTANTS
  Browsers,      \* each used by a person of its own
  LoginSlots,    \* requests in flight
  CleanPaths,    \* return paths of the application's own
  OtherPaths,    \* ones sanitizeReturnPath reduces to ""
  StateTTL,      \* OIDCStateTTL
  MaxAttempts,   \* Bound: attempts at all
  MaxNow         \* Bound: the clock

ASSUME SignInAssumption ==
  /\ {"", "/"} \intersect CleanPaths = {} /\ CleanPaths \intersect OtherPaths = {}
  /\ StateTTL \in Nat

VARIABLES
  cookie,      \* [Browsers -> attempt in the state cookie, 0 for none]
  session,     \* [Browsers -> whose session the browser holds, or None]
  location,    \* [Browsers -> attempt and page the last answer sent it to]
  attempts,    \* sequence of [by, back, at]: whose, from where, when
  away,        \* <<browser, attempt>> pairs at the provider's login page
  codes,       \* sequence of [attempt, subject, used]
  callbacks,   \* links back to the app the provider has sent a browser to
  logins,      \* [LoginSlots -> request]
  discovered,  \* whether the client has published what discovery found
  now,         \* the hour
  traded       \* history: <<browser, attempt of its cookie, attempt of the code, age>>
signVars == <<cookie, session, location, attempts, away, codes, callbacks, logins,
              discovered, now, traded>>

None == "none"
LoginError == "login error"

NoLogin == [pc |-> "free", kind |-> "", browser |-> None, held |-> 0, at |-> 0,
            link |-> [state |-> 0, code |-> 0], claims |-> None]

SanitizeReturnPath(raw) == IF raw \in CleanPaths THEN raw ELSE ""

\* Discovery before the process serves requests: it may fail, and is not retried.
Warm == discovered \in BOOLEAN

SignInInit ==
  /\ cookie = [b \in Browsers |-> 0]
  /\ session = [b \in Browsers |-> None]
  /\ location = [b \in Browsers |-> <<0, None>>]
  /\ attempts = <<>> /\ codes = <<>> /\ away = {} /\ callbacks = {}
  /\ logins = [s \in LoginSlots |-> NoLogin]
  /\ Warm /\ now = 0 /\ traded = {}

Put(s, l) == logins' = [logins EXCEPT ![s] = l]

-----------------------------------------------------------------------------
(* Discovery: a caller that finds no published result asks the provider without *)
(* holding the lock, and publishes what it found unless another was first.      *)
After(l) == IF l.kind = "start" THEN "sealed" ELSE "exchange"

Cached(s) ==
  /\ logins[s].pc = "resolve" /\ discovered
  /\ Put(s, [logins[s] EXCEPT !.pc = After(logins[s])])
  /\ UNCHANGED <<cookie, session, location, attempts, away, codes, callbacks, discovered,
                 now, traded>>

Discover(s) ==   \* the provider may not answer
  /\ logins[s].pc = "resolve" /\ ~discovered
  /\ \E pc \in {"publish", "failed"} : Put(s, [logins[s] EXCEPT !.pc = pc])
  /\ UNCHANGED <<cookie, session, location, attempts, away, codes, callbacks, discovered,
                 now, traded>>

Resolve(s) ==
  /\ logins[s].pc = "publish"
  /\ discovered' = TRUE
  /\ Put(s, [logins[s] EXCEPT !.pc = After(logins[s])])
  /\ UNCHANGED <<cookie, session, location, attempts, away, codes, callbacks, now, traded>>

-----------------------------------------------------------------------------
(* Start: mint the attempt, find the provider, seal the cookie, redirect.       *)
StartOidcLogin(s, b, returnTo) ==
  /\ logins[s].pc = "free" /\ Len(attempts) < MaxAttempts
  /\ attempts' = Append(attempts, [by |-> b, back |-> SanitizeReturnPath(returnTo),
                                   at |-> now])
  /\ Put(s, [NoLogin EXCEPT !.pc = "resolve", !.kind = "start", !.browser = b,
               !.held = Len(attempts) + 1])
  /\ UNCHANGED <<cookie, session, location, away, codes, callbacks, discovered, now,
                 traded>>

StartRedirect(s) ==
  LET l == logins[s]
  IN  /\ l.kind = "start" /\ l.pc \in {"sealed", "failed"}
      /\ IF l.pc = "sealed"
         THEN /\ cookie' = [cookie EXCEPT ![l.browser] = l.held]
              /\ away' = away \union {<<l.browser, l.held>>}
              /\ UNCHANGED location
         ELSE /\ location' = [location EXCEPT ![l.browser] = <<0, LoginError>>]
              /\ UNCHANGED <<cookie, away>>
      /\ Put(s, NoLogin)
      /\ UNCHANGED <<session, attempts, codes, callbacks, discovered, now,
                     traded>>

-----------------------------------------------------------------------------
(* The provider: the person signs in, or declines, and the browser is sent on.  *)
Grant(b, a) ==
  /\ <<b, a>> \in away
  /\ away' = away \ {<<b, a>>}
  /\ codes' = Append(codes, [attempt |-> a, subject |-> b, used |-> FALSE])
  /\ callbacks' = callbacks \union {[state |-> a, code |-> Len(codes) + 1]}
  /\ UNCHANGED <<cookie, session, location, attempts, logins, discovered, now, traded>>

Decline(b, a) ==   \* code 0: an error instead of a code
  /\ <<b, a>> \in away
  /\ away' = away \ {<<b, a>>}
  /\ callbacks' = callbacks \union {[state |-> a, code |-> 0]}
  /\ UNCHANGED <<cookie, session, location, attempts, codes, logins, discovered,
                 now, traded>>

-----------------------------------------------------------------------------
(* Callback: a browser opens a link, perhaps again, perhaps one another browser *)
(* was sent to; it brings the state cookie it holds at that moment.             *)
\* Mutant: any live state cookie will do.
DecodedState_Any(held, link) == held # 0 /\ now - attempts[held].at <= StateTTL
DecodedState(held, link) ==
  held # 0 /\ now - attempts[held].at <= StateTTL /\ held = link.state

ValidateCallback(held, link) == link.code # 0 /\ DecodedState(held, link)

OidcCallback(s, b, link) ==
  /\ logins[s].pc = "free" /\ link \in callbacks
  /\ Put(s, [NoLogin EXCEPT !.kind = "callback", !.browser = b, !.held = cookie[b],
               !.at = now, !.link = link,
               !.pc = IF ValidateCallback(cookie[b], link) THEN "resolve" ELSE "failed"])
  /\ UNCHANGED <<cookie, session, location, attempts, away, codes, callbacks, discovered,
                 now, traded>>

Spent(code) == [code EXCEPT !.used = TRUE]

Exchange(s) ==   \* the provider may also not answer
  LET l == logins[s]
      code == codes[l.link.code]
      good == ~code.used /\ code.attempt = l.held
      token == [nonce |-> code.attempt, subject |-> code.subject]
  IN  /\ l.pc = "exchange"
      /\ traded' = traded \union
           {<<l.browser, l.held, code.attempt, l.at - attempts[l.held].at>>}
      /\ \/ /\ good /\ token.nonce = l.held
            /\ codes' = [codes EXCEPT ![l.link.code] = Spent(@)]
            /\ Put(s, [l EXCEPT !.pc = "login", !.claims = token.subject])
         \/ Put(s, [l EXCEPT !.pc = "failed"]) /\ UNCHANGED codes
      /\ UNCHANGED <<cookie, session, location, attempts, away, callbacks, discovered,
                     now>>

\* Mutant: the way back is that of the last start.
ReturnURL_Latest(attempt) == attempts[Len(attempts)].back
ReturnURL(attempt) == attempts[attempt].back
PostLoginURL(path) == IF SanitizeReturnPath(path) = "" THEN "/" ELSE path

(* However the attempt ends, the answer clears the browser's state cookie.      *)
CallbackRedirect(s, ok) ==   \* ok: LoginWithOIDC accepts the claims
  LET l == logins[s]
  IN  /\ l.kind = "callback" /\ l.pc \in {"login", "failed"}
      /\ ok => l.pc = "login"
      /\ cookie' = [cookie EXCEPT ![l.browser] = 0]
      /\ IF ok
         THEN /\ session' = [session EXCEPT ![l.browser] = l.claims]
              /\ location' = [location EXCEPT ![l.browser] =
                                <<l.held, PostLoginURL(ReturnURL(l.held))>>]
         ELSE /\ location' = [location EXCEPT ![l.browser] = <<0, LoginError>>]
              /\ UNCHANGED session
      /\ Put(s, NoLogin)
      /\ UNCHANGED <<attempts, away, codes, callbacks, discovered, now, traded>>

TimePasses ==
  /\ now < MaxNow /\ now' = now + 1
  /\ UNCHANGED <<cookie, session, location, attempts, away, codes, callbacks, logins,
                 discovered, traded>>

SignInNext ==
  \/ \E s \in LoginSlots :
       \/ Cached(s) \/ Discover(s) \/ Resolve(s)
       \/ \E b \in Browsers, p \in CleanPaths \union OtherPaths : StartOidcLogin(s, b, p)
       \/ StartRedirect(s)
       \/ \E b \in Browsers, link \in callbacks : OidcCallback(s, b, link)
       \/ Exchange(s)
       \/ \E ok \in BOOLEAN : CallbackRedirect(s, ok)
  \/ \E x \in away : Grant(x[1], x[2]) \/ Decline(x[1], x[2])
  \/ TimePasses

SignInSpec == SignInInit /\ [][SignInNext]_signVars

-----------------------------------------------------------------------------
(* A code is traded only for the attempt it was given to, in the browser that   *)
(* started it, while the attempt is fresh: an unsolicited callback never makes  *)
(* the server call out to the provider (handler_oidc.go:201-235).               *)
ExchangesOnlyItsOwn ==
  \A x \in traded : /\ attempts[x[2]].by = x[1] /\ x[2] = x[3]
                    /\ x[4] <= StateTTL

(* Whoever is signed in is the person at the browser, and was sent to the page  *)
(* its own attempt set out from - an invitation, say - or to the root where     *)
(* that page is not the application's (handler_oidc.go:173-199, 276-289).       *)
LandsWhereItLeft ==
  \A b \in Browsers :
    /\ session[b] \in {None, b}
    /\ location[b][1] # 0 =>
         LET back == attempts[location[b][1]].back
         IN  location[b][2] = IF back \in CleanPaths THEN back ELSE "/"
=============================================================================
