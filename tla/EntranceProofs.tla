---------------------------- MODULE EntranceProofs ----------------------------
(* What no interleaving of sign-ins through the provider can break, whatever     *)
(* the browsers replay, exchange among themselves or abandon; what no            *)
(* interleaving of replicas that start, stop and die can, whatever is deployed;  *)
(* and what no stream of requests can on its way to the handlers.                *)
EXTENDS SignIn, Server, Gateway, TLAPS

Kept == CleanPaths \union {""}
Attempts == [by: Browsers, back: Kept, at: Nat]
Codes == [attempt: Nat, subject: Browsers, used: BOOLEAN]
Links == [state: Nat, code: Nat]
Logins == [pc: {"free", "resolve", "publish", "failed", "sealed", "exchange", "login"},
           kind: {"", "start", "callback"}, browser: Browsers \union {None}, held: Nat,
           at: Nat, link: Links, claims: Browsers \union {None}]

SignInTypeOK ==
  /\ cookie \in [Browsers -> Nat]
  /\ session \in [Browsers -> Browsers \union {None}]
  /\ attempts \in Seq(Attempts)
  /\ away \subseteq Browsers \X Nat
  /\ codes \in Seq(Codes)
  /\ callbacks \subseteq Links
  /\ logins \in [LoginSlots -> Logins]
  /\ now \in Nat

\* The attempt a of the attempts A is the browser b's; the code c of the codes C was
\* given for the attempt a.
Owns(A, b, a) == a \in 1..Len(A) /\ A[a].by = b
GivenFor(C, c, a) == c \in 1..Len(C) /\ C[c].attempt = a

CookiesOwned == \A b \in Browsers : cookie[b] # 0 => Owns(attempts, b, cookie[b])
AwayOwned == \A x \in away : Owns(attempts, x[1], x[2])
CodesOwned == \A c \in 1..Len(codes) : Owns(attempts, codes[c].subject, codes[c].attempt)
LinksGiven == \A k \in callbacks : k.code # 0 => GivenFor(codes, k.code, k.state)

\* A start seals its own attempt; a callback past its checks holds the attempt its
\* link and its code are about, which its browser started, and not too long ago.
Checked(l, A, C) ==
  /\ Owns(A, l.browser, l.held) /\ l.held = l.link.state
  /\ l.at - A[l.held].at <= StateTTL
  /\ GivenFor(C, l.link.code, l.link.state)
LoginSound(l, A, C) ==
  /\ l.pc # "free" => l.browser \in Browsers /\ l.kind \in {"start", "callback"}
  /\ l.kind = "start" => /\ Owns(A, l.browser, l.held)
                         /\ l.pc \in {"resolve", "publish", "failed", "sealed"}
  /\ l.kind = "callback" => l.pc \in {"resolve", "publish", "failed", "exchange", "login"}
  /\ l.kind = "callback" /\ l.pc # "failed" => Checked(l, A, C)
  /\ l.pc = "login" => l.claims = l.browser
LoginsSound == \A s \in LoginSlots : LoginSound(logins[s], attempts, codes)

TradedOwn ==
  \A x \in traded : Owns(attempts, x[1], x[2]) /\ x[2] = x[3] /\ x[4] <= StateTTL

\* Where an attempt lands; page 0 is no attempt's.
Landing(A, a) == IF A[a].back \in CleanPaths THEN A[a].back ELSE "/"
Landed(p, A) == p[1] # 0 => p[1] \in 1..Len(A) /\ p[2] = Landing(A, p[1])
AllLanded ==
  \A b \in Browsers : session[b] \in {None, b} /\ Landed(location[b], attempts)

SignInInv ==
  /\ SignInTypeOK /\ DOMAIN location = Browsers
  /\ CookiesOwned /\ AwayOwned /\ CodesOwned /\ LinksGiven
  /\ LoginsSound /\ TradedOwn /\ AllLanded

-----------------------------------------------------------------------------
(* Attempts are added, codes are added and spent.                              *)

Grown(A, B) == Len(A) <= Len(B) /\ \A a \in 1..Len(A) : B[a] = A[a]
Spends(C, D) ==
  Len(C) <= Len(D) /\ \A c \in 1..Len(C) : D[c].attempt = C[c].attempt
                                          /\ D[c].subject = C[c].subject

LEMMA StaysOwned ==
  ASSUME NEW A \in Seq(Attempts), NEW B \in Seq(Attempts), Grown(A, B)
  PROVE  /\ \A b, a : Owns(A, b, a) => Owns(B, b, a) /\ B[a] = A[a]
         /\ \A p : Landed(p, A) => Landed(p, B)
<1>1. Len(A) \in Nat /\ Len(B) \in Nat /\ 1..Len(A) \subseteq 1..Len(B)
  BY DEF Grown
<1> QED
  BY <1>1 DEF Owns, Landed, Landing, Grown

LEMMA StaysGiven ==
  ASSUME NEW C \in Seq(Codes), NEW D \in Seq(Codes), Spends(C, D)
  PROVE  \A c, a : GivenFor(C, c, a) => GivenFor(D, c, a)
<1>1. Len(C) \in Nat /\ Len(D) \in Nat /\ 1..Len(C) \subseteq 1..Len(D)
  BY DEF Spends
<1> QED
  BY <1>1 DEF GivenFor, Spends

LEMMA StaysSound ==
  ASSUME NEW A \in Seq(Attempts), NEW B \in Seq(Attempts), Grown(A, B),
         NEW C \in Seq(Codes), NEW D \in Seq(Codes), Spends(C, D),
         NEW l \in Logins, LoginSound(l, A, C)
  PROVE  LoginSound(l, B, D)
<1>1. Checked(l, A, C) => Checked(l, B, D)
  BY StaysOwned, StaysGiven DEF Checked
<1> QED
  BY <1>1, StaysOwned DEF LoginSound

\* What a step that changes one login leaves as it was.
LEMMA LoginsKept ==
  ASSUME SignInInv, attempts' \in Seq(Attempts), Grown(attempts, attempts'),
         codes' \in Seq(Codes), Spends(codes, codes'),
         NEW s \in LoginSlots, NEW l \in Logins, LoginSound(l, attempts', codes'),
         logins' = [logins EXCEPT ![s] = l]
  PROVE  logins' \in [LoginSlots -> Logins] /\ LoginsSound'
<1>1. logins' \in [LoginSlots -> Logins]
  BY DEF SignInInv, SignInTypeOK
<1>2. \A t \in LoginSlots : logins'[t] = IF t = s THEN l ELSE logins[t]
  BY DEF SignInInv, SignInTypeOK
<1>3. ASSUME NEW t \in LoginSlots, t # s PROVE LoginSound(logins[t], attempts', codes')
  <2>1. LoginSound(logins[t], attempts, codes) /\ logins[t] \in Logins
        /\ attempts \in Seq(Attempts) /\ codes \in Seq(Codes)
    BY DEF SignInInv, SignInTypeOK, LoginsSound
  <2> QED
    BY <2>1, StaysSound
<1>4. LoginsSound'
  BY <1>2, <1>3 DEF LoginsSound
<1> QED
  BY <1>1, <1>4

\* Steps of one login that add no attempt and no code.
LEMMA LoginStepKeeps ==
  ASSUME SignInInv, UNCHANGED <<session, attempts, away, codes, callbacks, location, cookie,
                                now, traded>>,
         NEW s \in LoginSlots, NEW l \in Logins, LoginSound(l, attempts, codes),
         logins' = [logins EXCEPT ![s] = l]
  PROVE  SignInInv'
<1>1. Grown(attempts, attempts') /\ Spends(codes, codes')
  BY DEF Grown, Spends, SignInInv, SignInTypeOK
<1>2. logins' \in [LoginSlots -> Logins] /\ LoginsSound'
  BY <1>1, LoginsKept DEF SignInInv, SignInTypeOK
<1> QED
  BY <1>2 DEF SignInInv, SignInTypeOK, CookiesOwned, AwayOwned, CodesOwned, LinksGiven,
              TradedOwn, AllLanded

\* A login at l.pc goes on at another place.
LEMMA GoesOn ==
  ASSUME SignInInv, NEW s \in LoginSlots,
         NEW pc \in {"resolve", "publish", "failed", "sealed", "exchange"},
         logins[s].pc \in {"resolve", "publish"},
         pc \in {"sealed", "exchange"} => pc = After(logins[s])
  PROVE  /\ [logins[s] EXCEPT !.pc = pc] \in Logins
         /\ LoginSound([logins[s] EXCEPT !.pc = pc], attempts, codes)
<1> DEFINE l == logins[s]
           m == [l EXCEPT !.pc = pc]
<1>1. l \in Logins /\ LoginSound(l, attempts, codes)
  BY DEF SignInInv, SignInTypeOK, LoginsSound
<1>2. l.browser \in Browsers /\ l.kind \in {"start", "callback"}
  BY <1>1 DEF LoginSound
<1>3. pc = "sealed" => l.kind = "start"
  BY <1>2 DEF After
<1>4. pc = "exchange" => l.kind = "callback"
  BY <1>2 DEF After
<1>5. l.pc \in {"resolve", "publish"}
  OBVIOUS
<1> HIDE DEF l
<1>6. /\ m \in Logins /\ m.pc = pc /\ m.kind = l.kind /\ m.browser = l.browser
      /\ m.held = l.held /\ m.at = l.at /\ m.link = l.link /\ m.claims = l.claims
  BY <1>1 DEF Logins
<1> HIDE DEF m
<1>7. l.kind = "callback" => Checked(l, attempts, codes)
  BY <1>1, <1>5 DEF LoginSound
<1>8. Checked(l, attempts, codes) => Checked(m, attempts, codes)
  BY <1>6 DEF Checked
<1>9. LoginSound(m, attempts, codes)
  BY <1>1, <1>2, <1>3, <1>4, <1>6, <1>7, <1>8 DEF LoginSound
<1> QED
  BY <1>6, <1>9 DEF m, l

LEMMA DiscoveryKeeps ==
  ASSUME SignInInv, NEW s \in LoginSlots, Cached(s) \/ Discover(s) \/ Resolve(s)
  PROVE  SignInInv'
<1>1. UNCHANGED <<session, attempts, away, codes, callbacks, location, cookie, now, traded>>
  BY DEF Cached, Discover, Resolve
<1>2. logins[s].pc \in {"resolve", "publish"}
  BY DEF Cached, Discover, Resolve
<1>3. PICK pc \in {"resolve", "publish", "failed", "sealed", "exchange"} :
        /\ logins' = [logins EXCEPT ![s] = [logins[s] EXCEPT !.pc = pc]]
        /\ pc \in {"sealed", "exchange"} => pc = After(logins[s])
  <2>1. CASE Discover(s)
    BY <2>1 DEF Discover, Put
  <2>2. CASE Cached(s) \/ Resolve(s)
    <3>1. After(logins[s]) \in {"sealed", "exchange"}
      BY DEF After
    <3> QED
      BY <2>2, <3>1 DEF Cached, Resolve, Put
  <2> QED
    BY <2>1, <2>2
<1> DEFINE l == [logins[s] EXCEPT !.pc = pc]
<1>4. l \in Logins /\ LoginSound(l, attempts, codes)
  BY <1>2, <1>3, GoesOn
<1> HIDE DEF l
<1> QED
  BY <1>1, <1>3, <1>4, LoginStepKeeps DEF l

\* A new attempt has the number after the last.
LEMMA StartOidcLoginKeeps ==
  ASSUME SignInInv, NEW s \in LoginSlots, NEW b \in Browsers, NEW p,
         StartOidcLogin(s, b, p)
  PROVE  SignInInv'
<1> DEFINE x == [by |-> b, back |-> SanitizeReturnPath(p), at |-> now]
           n == Len(attempts) + 1
           l == [NoLogin EXCEPT !.pc = "resolve", !.kind = "start", !.browser = b, !.held = n]
<1>1. SignInTypeOK
  BY DEF SignInInv
<1>2. x \in Attempts
  BY <1>1 DEF SignInTypeOK, Attempts, Kept, SanitizeReturnPath
<1>3. attempts' = Append(attempts, x) /\ logins' = [logins EXCEPT ![s] = l]
  BY DEF StartOidcLogin, Put
<1>4. UNCHANGED <<cookie, session, location, away, codes, callbacks, now, traded>>
  BY DEF StartOidcLogin
<1>5. /\ attempts' \in Seq(Attempts) /\ Len(attempts') = n /\ n \in Nat
      /\ n >= 1 /\ attempts'[n] = x /\ Grown(attempts, attempts')
  BY <1>1, <1>2, <1>3 DEF SignInTypeOK, Grown
<1>6. codes' \in Seq(Codes) /\ Spends(codes, codes')
  BY <1>1, <1>4 DEF SignInTypeOK, Spends
<1>7. l \in Logins /\ l.pc = "resolve" /\ l.kind = "start" /\ l.browser = b /\ l.held = n
  BY <1>5 DEF Logins, NoLogin, Links
<1>8. x.by = b
  OBVIOUS
<1> HIDE DEF x, n, l
<1>9. Owns(attempts', b, n)
  BY <1>5, <1>8 DEF Owns
<1>10. LoginSound(l, attempts', codes')
  BY <1>7, <1>9 DEF LoginSound
<1>11. logins' \in [LoginSlots -> Logins] /\ LoginsSound'
  BY <1>3, <1>5, <1>6, <1>7, <1>10, LoginsKept
<1>12. SignInTypeOK'
  BY <1>1, <1>4, <1>5, <1>11 DEF SignInTypeOK
<1>13. attempts \in Seq(Attempts)
  BY <1>1 DEF SignInTypeOK
<1>14. /\ \A c, a : Owns(attempts, c, a) => Owns(attempts', c, a)
       /\ \A q : Landed(q, attempts) => Landed(q, attempts')
  BY <1>5, <1>13, StaysOwned
<1>15. CookiesOwned' /\ AwayOwned' /\ CodesOwned' /\ LinksGiven' /\ TradedOwn' /\ AllLanded'
  BY <1>4, <1>14 DEF SignInInv, CookiesOwned, AwayOwned, CodesOwned, LinksGiven, TradedOwn,
                     AllLanded
<1> QED
  BY <1>4, <1>11, <1>12, <1>15 DEF SignInInv

\* A slot that is free again.
LEMMA FreeSound == NoLogin \in Logins /\ \A A, C : LoginSound(NoLogin, A, C)
  BY DEF NoLogin, Logins, Links, LoginSound

LEMMA SlotFreed ==
  ASSUME SignInInv, UNCHANGED <<attempts, codes>>, NEW s \in LoginSlots,
         logins' = [logins EXCEPT ![s] = NoLogin]
  PROVE  logins' \in [LoginSlots -> Logins] /\ LoginsSound'
<1>1. attempts \in Seq(Attempts) /\ codes \in Seq(Codes)
  BY DEF SignInInv, SignInTypeOK
<1>2. Grown(attempts, attempts') /\ Spends(codes, codes')
  BY <1>1 DEF Grown, Spends
<1>3. attempts' \in Seq(Attempts) /\ codes' \in Seq(Codes)
  BY <1>1
<1>4. NoLogin \in Logins /\ LoginSound(NoLogin, attempts', codes')
  BY FreeSound
<1> QED
  BY <1>2, <1>3, <1>4, LoginsKept

LEMMA StartRedirectKeeps ==
  ASSUME SignInInv, NEW s \in LoginSlots, StartRedirect(s)
  PROVE  SignInInv'
<1> DEFINE l == logins[s]
<1>1. SignInTypeOK /\ l \in Logins /\ LoginSound(l, attempts, codes)
  BY DEF SignInInv, SignInTypeOK, LoginsSound
<1>2. /\ l.kind = "start" /\ l.pc \in {"sealed", "failed"}
      /\ logins' = [logins EXCEPT ![s] = NoLogin]
      /\ UNCHANGED <<session, attempts, codes, callbacks, now, traded>>
  BY DEF StartRedirect, Put
<1>3. l.browser \in Browsers /\ l.held \in Nat /\ Owns(attempts, l.browser, l.held)
  BY <1>1, <1>2 DEF LoginSound, Logins
<1>4. \/ /\ cookie' = [cookie EXCEPT ![l.browser] = l.held]
         /\ away' = away \union {<<l.browser, l.held>>} /\ UNCHANGED location
      \/ /\ location' = [location EXCEPT ![l.browser] = <<0, LoginError>>]
         /\ UNCHANGED <<cookie, away>>
  BY DEF StartRedirect
<1>5. logins' \in [LoginSlots -> Logins] /\ LoginsSound'
  BY <1>1, <1>2, SlotFreed
<1> HIDE DEF l
<1>6. cookie' \in [Browsers -> Nat] /\ CookiesOwned'
  <2>1. \/ UNCHANGED cookie
        \/ cookie' = [cookie EXCEPT ![l.browser] = l.held]
    BY <1>4
  <2> QED
    BY <1>1, <1>2, <1>3, <2>1 DEF SignInInv, SignInTypeOK, CookiesOwned
<1>7. away' \subseteq Browsers \X Nat /\ AwayOwned'
  <2>1. away' \subseteq away \union {<<l.browser, l.held>>}
    BY <1>4
  <2>2. \A x \in away' : x \in Browsers \X Nat /\ Owns(attempts, x[1], x[2])
    BY <1>1, <1>3, <2>1 DEF SignInInv, SignInTypeOK, AwayOwned
  <2> QED
    BY <1>2, <2>2 DEF AwayOwned
<1>8. SignInTypeOK'
  BY <1>1, <1>2, <1>5, <1>6, <1>7 DEF SignInTypeOK
<1>9. AllLanded' /\ DOMAIN location' = Browsers
  BY <1>2, <1>3, <1>4 DEF SignInInv, AllLanded, Landed
<1>10. CodesOwned' /\ LinksGiven' /\ TradedOwn'
  BY <1>2 DEF SignInInv, CodesOwned, LinksGiven, TradedOwn
<1> QED
  BY <1>5, <1>6, <1>7, <1>9, <1>10, <1>8 DEF SignInInv

LEMMA GrantKeeps ==
  ASSUME SignInInv, NEW b, NEW a, Grant(b, a)
  PROVE  SignInInv'
<1> DEFINE x == [attempt |-> a, subject |-> b, used |-> FALSE]
           n == Len(codes) + 1
<1>1. SignInTypeOK /\ <<b, a>> \in away
  BY DEF SignInInv, Grant
<1>2. b \in Browsers /\ a \in Nat /\ Owns(attempts, b, a)
  BY <1>1 DEF SignInInv, SignInTypeOK, AwayOwned
<1>3. /\ away' \subseteq away /\ codes' = Append(codes, x)
      /\ callbacks' = callbacks \union {[state |-> a, code |-> n]}
      /\ UNCHANGED <<cookie, session, location, attempts, logins, now, traded>>
  BY DEF Grant
<1>4. x \in Codes /\ x.attempt = a /\ x.subject = b
  BY <1>2 DEF Codes
<1> HIDE DEF x
<1>5. /\ codes' \in Seq(Codes) /\ Len(codes') = n /\ n \in Nat /\ n # 0
      /\ codes'[n] = x /\ \A c \in 1..Len(codes) : codes'[c] = codes[c]
      /\ Len(codes) \in Nat
  BY <1>1, <1>3, <1>4 DEF SignInTypeOK
<1>6. Spends(codes, codes') /\ Grown(attempts, attempts')
  BY <1>1, <1>3, <1>5 DEF Spends, Grown, SignInTypeOK
<1>7. 1..Len(codes') = 1..Len(codes) \union {n}
  BY <1>5
<1> HIDE DEF n
<1>8. GivenFor(codes', n, a)
  BY <1>4, <1>5, <1>7 DEF GivenFor
<1>9. \A c, d : GivenFor(codes, c, d) => GivenFor(codes', c, d)
  BY <1>1, <1>5, <1>6, StaysGiven DEF SignInTypeOK
<1>10. LinksGiven'
  BY <1>3, <1>8, <1>9 DEF SignInInv, LinksGiven
<1>11. CodesOwned'
  BY <1>2, <1>3, <1>4, <1>5, <1>7 DEF SignInInv, CodesOwned
<1>12. SignInTypeOK'
  BY <1>1, <1>2, <1>3, <1>5 DEF SignInTypeOK, Links
<1>13. LoginsSound'
  <2>1. ASSUME NEW s \in LoginSlots PROVE LoginSound(logins[s], attempts', codes')
    <3>1. logins[s] \in Logins /\ LoginSound(logins[s], attempts, codes)
          /\ attempts \in Seq(Attempts) /\ attempts' \in Seq(Attempts)
          /\ codes \in Seq(Codes)
      BY <1>1, <1>3 DEF SignInInv, SignInTypeOK, LoginsSound
    <3> QED
      BY <1>5, <1>6, <3>1, StaysSound
  <2> QED
    BY <1>3, <2>1 DEF LoginsSound
<1>14. CookiesOwned' /\ AwayOwned' /\ TradedOwn' /\ AllLanded' /\ DOMAIN location' = Browsers
  BY <1>3 DEF SignInInv, CookiesOwned, AwayOwned, TradedOwn, AllLanded
<1> QED
  BY <1>10, <1>11, <1>12, <1>13, <1>14 DEF SignInInv

LEMMA DeclineKeeps ==
  ASSUME SignInInv, NEW b, NEW a, Decline(b, a)
  PROVE  SignInInv'
<1>1. <<b, a>> \in away /\ a \in Nat
  BY DEF Decline, SignInInv, SignInTypeOK
<1>2. /\ away' \subseteq away /\ callbacks' = callbacks \union {[state |-> a, code |-> 0]}
      /\ UNCHANGED <<cookie, session, location, attempts, codes, logins, now, traded>>
  BY DEF Decline
<1>3. SignInTypeOK'
  BY <1>1, <1>2 DEF SignInInv, SignInTypeOK, Links
<1>4. LinksGiven'
  BY <1>2 DEF SignInInv, LinksGiven
<1> QED
  BY <1>2, <1>3, <1>4 DEF SignInInv, CookiesOwned, AwayOwned, CodesOwned, LoginsSound,
                          TradedOwn, AllLanded

\* The checks of a callback, with the cookie its browser holds: what they let through
\* is an attempt the browser started.
LEMMA OidcCallbackKeeps ==
  ASSUME SignInInv, NEW s \in LoginSlots, NEW b \in Browsers, NEW k \in callbacks,
         OidcCallback(s, b, k)
  PROVE  SignInInv'
<1> DEFINE c == cookie[b]
           pc == IF ValidateCallback(c, k) THEN "resolve" ELSE "failed"
           l == [NoLogin EXCEPT !.kind = "callback", !.browser = b, !.held = c, !.at = now,
                                !.link = k, !.pc = pc]
<1>1. c \in Nat /\ k \in Links /\ now \in Nat
  BY DEF SignInInv, SignInTypeOK
<1>2. /\ logins' = [logins EXCEPT ![s] = l]
      /\ UNCHANGED <<session, attempts, away, codes, callbacks, location, cookie, now, traded>>
  BY DEF OidcCallback, Put
<1>3. pc # "failed" => /\ k.code # 0 /\ c # 0 /\ c = k.state
                       /\ now - attempts[c].at <= StateTTL
  BY DEF ValidateCallback, DecodedState
<1>4. pc \in {"resolve", "failed"}
  OBVIOUS
<1>5. c # 0 => Owns(attempts, b, c)
  BY DEF SignInInv, CookiesOwned
<1>6. k.code # 0 => GivenFor(codes, k.code, k.state)
  BY DEF SignInInv, LinksGiven
<1> HIDE DEF c, pc
<1>7. /\ l \in Logins /\ l.pc = pc /\ l.kind = "callback" /\ l.browser = b /\ l.held = c
      /\ l.at = now /\ l.link = k
  BY <1>1, <1>4 DEF Logins, NoLogin, Links
<1> HIDE DEF l
<1>8. l.pc # "failed" => Checked(l, attempts, codes)
  BY <1>3, <1>5, <1>6, <1>7 DEF Checked
<1>9. LoginSound(l, attempts, codes)
  BY <1>4, <1>7, <1>8 DEF LoginSound
<1> QED
  BY <1>2, <1>7, <1>9, LoginStepKeeps

LEMMA SpentTyped ==
  ASSUME NEW c \in Codes
  PROVE  Spent(c) \in Codes /\ Spent(c).attempt = c.attempt /\ Spent(c).subject = c.subject
  BY DEF Spent, Codes

LEMMA ExchangeKeeps ==
  ASSUME SignInInv, NEW s \in LoginSlots, Exchange(s)
  PROVE  SignInInv'
<1> DEFINE l == logins[s]
           i == l.link.code
           lost == [l EXCEPT !.pc = "failed"]
           won == [l EXCEPT !.pc = "login", !.claims = codes[i].subject]
<1>1. SignInTypeOK /\ l \in Logins /\ LoginSound(l, attempts, codes) /\ l.pc = "exchange"
  BY DEF Exchange, SignInInv, SignInTypeOK, LoginsSound
<1>2. l.kind = "callback" /\ l.browser \in Browsers /\ Checked(l, attempts, codes)
  BY <1>1 DEF LoginSound
<1>3. /\ i \in 1..Len(codes) /\ codes[i] \in Codes /\ codes[i].attempt = l.held
      /\ Owns(attempts, l.browser, l.held) /\ l.at - attempts[l.held].at <= StateTTL
  BY <1>1, <1>2 DEF Checked, GivenFor, SignInTypeOK
<1>4. codes[i].subject = l.browser
  BY <1>3 DEF SignInInv, CodesOwned, Owns
<1>5. /\ traded' = traded \union {<<l.browser, l.held, codes[i].attempt,
                                    l.at - attempts[l.held].at>>}
      /\ UNCHANGED <<cookie, session, location, attempts, away, callbacks, now>>
      /\ \/ /\ codes' = [codes EXCEPT ![i] = Spent(@)]
            /\ logins' = [logins EXCEPT ![s] = won]
         \/ codes' = codes /\ logins' = [logins EXCEPT ![s] = lost]
  BY DEF Exchange, Put
<1>6. TradedOwn'
  BY <1>3, <1>5 DEF SignInInv, TradedOwn
<1>7. won \in Logins /\ LoginSound(won, attempts, codes)
  BY <1>1, <1>2, <1>3, <1>4 DEF Logins, LoginSound, Checked
<1>8. lost \in Logins /\ LoginSound(lost, attempts, codes)
  BY <1>1, <1>2 DEF Logins, LoginSound
<1>9. /\ codes' \in Seq(Codes) /\ Len(codes') = Len(codes) /\ Spends(codes, codes')
      /\ Spends(codes', codes') /\ Grown(attempts, attempts')
  <2>1. Spent(codes[i]) \in Codes /\ Spent(codes[i]).attempt = codes[i].attempt
        /\ Spent(codes[i]).subject = codes[i].subject
    BY <1>3, SpentTyped
  <2>2. codes \in Seq(Codes) /\ attempts \in Seq(Attempts) /\ Len(codes) \in Nat
        /\ Len(attempts) \in Nat
    BY <1>1 DEF SignInTypeOK
  <2> HIDE DEF i, l
  <2>3. codes' = codes \/ codes' = [codes EXCEPT ![i] = Spent(codes[i])]
    BY <1>5
  <2>4. codes' \in Seq(Codes) /\ Len(codes') = Len(codes)
    BY <1>3, <2>1, <2>2, <2>3
  <2>5. \A c \in 1..Len(codes) : codes'[c].attempt = codes[c].attempt
                                 /\ codes'[c].subject = codes[c].subject
    BY <1>3, <2>1, <2>2, <2>3
  <2> QED
    BY <1>5, <2>2, <2>4, <2>5 DEF Spends, Grown
<1> HIDE DEF won, lost
<1>10. logins' \in [LoginSlots -> Logins] /\ LoginsSound'
  <2>1. attempts' \in Seq(Attempts) /\ codes \in Seq(Codes) /\ attempts \in Seq(Attempts)
    BY <1>1, <1>5 DEF SignInTypeOK
  <2>2. LoginSound(won, attempts', codes') /\ LoginSound(lost, attempts', codes')
    BY <1>7, <1>8, <1>9, <2>1, StaysSound
  <2> QED
    BY <1>5, <1>7, <1>8, <1>9, <2>1, <2>2, LoginsKept
<1>11. CodesOwned'
  BY <1>5, <1>9 DEF SignInInv, CodesOwned, Spends
<1>12. LinksGiven'
  BY <1>1, <1>5, <1>9, StaysGiven DEF SignInInv, SignInTypeOK, LinksGiven
<1>13. SignInTypeOK'
  BY <1>1, <1>5, <1>9, <1>10 DEF SignInTypeOK
<1>14. CookiesOwned' /\ AwayOwned' /\ AllLanded' /\ DOMAIN location' = Browsers
  BY <1>5 DEF SignInInv, CookiesOwned, AwayOwned, AllLanded
<1> QED
  BY <1>6, <1>10, <1>11, <1>12, <1>13, <1>14 DEF SignInInv

LEMMA CallbackRedirectKeeps ==
  ASSUME SignInInv, NEW s \in LoginSlots, NEW ok \in BOOLEAN, CallbackRedirect(s, ok)
  PROVE  SignInInv'
<1> DEFINE l == logins[s]
           page == PostLoginURL(ReturnURL(l.held))
<1>1. SignInTypeOK /\ l \in Logins /\ LoginSound(l, attempts, codes)
  BY DEF SignInInv, SignInTypeOK, LoginsSound
<1>2. /\ l.kind = "callback" /\ l.pc \in {"login", "failed"} /\ (ok => l.pc = "login")
      /\ cookie' = [cookie EXCEPT ![l.browser] = 0]
      /\ logins' = [logins EXCEPT ![s] = NoLogin]
      /\ UNCHANGED <<attempts, away, codes, callbacks, now, traded>>
  BY DEF CallbackRedirect, Put
<1>3. l.browser \in Browsers
  BY <1>1, <1>2 DEF LoginSound
<1>4. ok => /\ l.claims = l.browser /\ l.held \in 1..Len(attempts)
            /\ page = Landing(attempts, l.held)
  <2> SUFFICES ASSUME ok PROVE /\ l.claims = l.browser /\ l.held \in 1..Len(attempts)
                               /\ page = Landing(attempts, l.held)
    OBVIOUS
  <2>1. l.claims = l.browser /\ l.held \in 1..Len(attempts)
    <3>1. l.pc = "login" /\ l.kind = "callback"
      BY <1>2
    <3> HIDE DEF l
    <3> QED
      BY <1>1, <3>1 DEF LoginSound, Checked, Owns
  <2>2. attempts[l.held].back \in Kept
    <3>1. attempts \in Seq(Attempts)
      BY <1>1 DEF SignInTypeOK
    <3>2. attempts[l.held] \in Attempts
      BY <2>1, <3>1
    <3> QED
      BY <3>2 DEF Attempts
  <2>3. page = Landing(attempts, l.held)
    BY <2>2, SignInAssumption
       DEF PostLoginURL, ReturnURL, SanitizeReturnPath, Landing, Kept
  <2> QED
    BY <2>1, <2>3
<1>5. \/ /\ ok /\ session' = [session EXCEPT ![l.browser] = l.claims]
         /\ location' = [location EXCEPT ![l.browser] = <<l.held, page>>]
      \/ /\ location' = [location EXCEPT ![l.browser] = <<0, LoginError>>]
         /\ session' = session
  BY DEF CallbackRedirect
<1> HIDE DEF page
<1>6. logins' \in [LoginSlots -> Logins] /\ LoginsSound'
  BY <1>1, <1>2, SlotFreed
<1> HIDE DEF l
<1>7. AllLanded' /\ DOMAIN location' = Browsers
  <2>1. \A b \in Browsers : /\ session'[b] = session[b] \/ session'[b] = b
                            /\ location'[b] = location[b] \/ Landed(location'[b], attempts)
    BY <1>1, <1>3, <1>4, <1>5 DEF SignInInv, SignInTypeOK, Landed
  <2>2. DOMAIN location' = Browsers
    BY <1>5 DEF SignInInv
  <2> QED
    BY <1>2, <2>1, <2>2 DEF SignInInv, AllLanded
<1>8. SignInTypeOK'
  BY <1>1, <1>2, <1>3, <1>4, <1>5, <1>6 DEF SignInTypeOK
<1>9. CookiesOwned' /\ AwayOwned' /\ CodesOwned' /\ LinksGiven' /\ TradedOwn'
  BY <1>1, <1>2 DEF SignInInv, SignInTypeOK, CookiesOwned, AwayOwned, CodesOwned,
                    LinksGiven, TradedOwn
<1> QED
  BY <1>6, <1>7, <1>8, <1>9 DEF SignInInv

LEMMA SignInInvInit == SignInInit => SignInInv
<1> SUFFICES ASSUME SignInInit PROVE SignInInv
  OBVIOUS
<1> USE DEF SignInInit
<1>1. SignInTypeOK
  BY FreeSound DEF SignInTypeOK
<1>2. LoginsSound
  BY FreeSound DEF LoginsSound
<1>3. CookiesOwned /\ AwayOwned /\ CodesOwned /\ LinksGiven /\ TradedOwn
  BY DEF CookiesOwned, AwayOwned, CodesOwned, LinksGiven, TradedOwn
<1>4. AllLanded
  BY DEF AllLanded, Landed
<1> QED
  BY <1>1, <1>2, <1>3, <1>4 DEF SignInInv

LEMMA SignInInvNext == SignInInv /\ [SignInNext]_signVars => SignInInv'
<1> SUFFICES ASSUME SignInInv, [SignInNext]_signVars PROVE SignInInv'
  OBVIOUS
<1>1. CASE SignInNext
  <2>1. CASE TimePasses
    <3>1. now' \in Nat
      BY <2>1 DEF TimePasses, SignInInv, SignInTypeOK
    <3> QED
      BY <2>1, <3>1 DEF TimePasses, SignInInv, SignInTypeOK, CookiesOwned, AwayOwned,
                        CodesOwned, LinksGiven, LoginsSound, TradedOwn, AllLanded
  <2>2. CASE \E x \in away : Grant(x[1], x[2]) \/ Decline(x[1], x[2])
    BY <2>2, GrantKeeps, DeclineKeeps
  <2> QED
    BY <1>1, <2>1, <2>2, DiscoveryKeeps, StartOidcLoginKeeps, StartRedirectKeeps,
       OidcCallbackKeeps, ExchangeKeeps, CallbackRedirectKeeps DEF SignInNext
<1>2. CASE UNCHANGED signVars
  BY <1>2 DEF signVars, SignInInv, SignInTypeOK, CookiesOwned, AwayOwned, CodesOwned,
              LinksGiven, LoginsSound, TradedOwn, AllLanded
<1> QED
  BY <1>1, <1>2

\* A code is traded only for the attempt it was given to, in the browser that started
\* it, while the attempt is fresh: the server never calls the provider on behalf of a
\* callback nobody asked for, whichever links the browsers open, and how often.
THEOREM ExchangesStayOwn == SignInSpec => []ExchangesOnlyItsOwn
<1>1. SignInInv => ExchangesOnlyItsOwn
  BY DEF SignInInv, TradedOwn, Owns, ExchangesOnlyItsOwn
<1> QED
  BY <1>1, SignInInvInit, SignInInvNext, PTL DEF SignInSpec

\* Whoever is signed in is the person at the browser, and was sent to the page its
\* own attempt set out from, or to the root where that is no page of the application.
THEOREM SignInsLand == SignInSpec => []LandsWhereItLeft
<1>1. SignInInv => LandsWhereItLeft
  BY DEF SignInInv, AllLanded, Landed, Landing, LandsWhereItLeft
<1> QED
  BY <1>1, SignInInvInit, SignInInvNext, PTL DEF SignInSpec

-----------------------------------------------------------------------------
(* The server. What a configuration that was accepted holds.                 *)

LEMMA AcceptedParts ==
  ASSUME NEW e, Load(e) # Failed
  PROVE  LET c == Load(e)[1]
             secure == LoadCookieSecure(e)[1]
         IN /\ LoadCookieSecure(e) # Failed /\ c.secure = secure
            /\ LoadCookieEncryptionKeys(e, secure) # Failed
            /\ c.cookieKeys = LoadCookieEncryptionKeys(e, secure)[1]
            /\ LoadJWTKeys(e, secure) # Failed /\ c.jwt = LoadJWTKeys(e, secure)[1]
            /\ LoadS3Config(e, secure) # Failed /\ c.s3 = LoadS3Config(e, secure)[1]
            /\ LoadRegistrationConfig(e, secure) # Failed
            /\ c.reg = LoadRegistrationConfig(e, secure)[1]
            /\ LoadVAPIDConfig(e, secure) # Failed
            /\ c.extra.vapid = LoadVAPIDConfig(e, secure)[1]
<1> DEFINE flag == LoadCookieSecure(e)
           secure == flag[1]
           parts == [databaseURL |-> LoadDatabaseURL(e), secure |-> flag,
                 ttl |-> LoadSessionTTLHours(e), origins |-> LoadOriginsAndPublicBaseURL(e),
                 cookieKeys |-> LoadCookieEncryptionKeys(e, secure),
                 jwt |-> LoadJWTKeys(e, secure), cidrs |-> LoadTrustedProxyCIDRs(e),
                 limits |-> LoadRateLimits(e),
                 pagination |-> LoadOptionalBytesKey(e.PAGINATION_HMAC_KEY),
                 retention |-> LoadRetentionDays(e), s3 |-> LoadS3Config(e, secure),
                 reg |-> LoadRegistrationConfig(e, secure),
                 extra |-> LoadAdditionalConfig(e, secure)]
<1>1. flag # Failed /\ Group(parts) # Failed /\ Load(e) = Loaded(Completed(Group(parts)[1]))
  BY DEF Load
<1>2. /\ {"secure", "cookieKeys", "jwt", "s3", "reg", "extra", "origins"} \subseteq DOMAIN parts
      /\ parts["secure"] = flag /\ parts["cookieKeys"] = LoadCookieEncryptionKeys(e, secure)
      /\ parts["jwt"] = LoadJWTKeys(e, secure) /\ parts["s3"] = LoadS3Config(e, secure)
      /\ parts["reg"] = LoadRegistrationConfig(e, secure)
      /\ parts["extra"] = LoadAdditionalConfig(e, secure)
  OBVIOUS
<1> HIDE DEF parts, flag
<1>3. /\ \A f \in DOMAIN parts : parts[f] # Failed
      /\ Group(parts) = <<[f \in DOMAIN parts |-> parts[f][1]]>>
  BY <1>1 DEF Group, Loaded
<1> DEFINE cfg == [f \in DOMAIN parts |-> parts[f][1]]
<1>4. Load(e)[1] = Completed(cfg)
  BY <1>1, <1>3 DEF Loaded
<1>5. DOMAIN cfg = DOMAIN parts /\ \A f \in DOMAIN parts : cfg[f] = parts[f][1]
  OBVIOUS
<1> HIDE DEF cfg
<1>6. /\ \A f \in DOMAIN parts : f # "extra" => Completed(cfg)[f] = cfg[f]
      /\ \A g \in DOMAIN cfg.extra : g # "oidc" => Completed(cfg).extra[g] = cfg.extra[g]
  BY <1>2, <1>5 DEF Completed
<1>7. /\ LoadVAPIDConfig(e, secure) # Failed /\ "vapid" \in DOMAIN cfg.extra
      /\ cfg.extra["vapid"] = LoadVAPIDConfig(e, secure)[1]
  <2> DEFINE more == [vapid |-> LoadVAPIDConfig(e, secure),
                      imageProxy |-> LoadImageDeliveryProxyEnabled(e),
                      dbPool |-> LoadDBPoolConfig(e), oidc |-> LoadOIDCConfig(e)]
  <2>1. parts["extra"] = Group(more) /\ Group(more) # Failed
    BY <1>2, <1>3 DEF LoadAdditionalConfig
  <2>2. "vapid" \in DOMAIN more /\ more["vapid"] = LoadVAPIDConfig(e, secure)
    OBVIOUS
  <2> HIDE DEF more
  <2>3. /\ \A f \in DOMAIN more : more[f] # Failed
        /\ Group(more) = <<[f \in DOMAIN more |-> more[f][1]]>>
    BY <2>1 DEF Group, Loaded
  <2>4. cfg.extra = [f \in DOMAIN more |-> more[f][1]]
    BY <1>2, <1>5, <2>1, <2>3
  <2> QED
    BY <2>2, <2>3, <2>4
<1> QED
  BY <1>1, <1>2, <1>3, <1>4, <1>5, <1>6, <1>7 DEF flag

\* With COOKIE_SECURE nothing that main builds is a stand-in.
LEMMA SecureIsReal ==
  ASSUME NEW e \in Deployments, Load(e) # Failed, Load(e)[1].secure
  PROVE  LET c == Load(e)[1]
         IN /\ InitMailer(c) \in {Failed, Loaded("real")}
            /\ InitVAPIDPusher(c) \in {Failed, Loaded("real")}
            /\ InitObjectStore(c) \in {Failed, Loaded("real")}
            /\ InitAuthComponents(c) \in {Failed, Loaded("real")}
<1> DEFINE c == Load(e)[1]
           secure == LoadCookieSecure(e)[1]
<1>1. secure
  BY AcceptedParts
<1>2. c.jwt.private # Unset
  <2>1. LoadJWTKeys(e, secure) # Failed /\ c.jwt = LoadJWTKeys(e, secure)[1]
    BY AcceptedParts
  <2> QED
    BY <1>1, <2>1 DEF LoadJWTKeys, Check, Loaded
<1>3. c.s3.endpoint # Unset
  <2> DEFINE needed == {e.S3_ENDPOINT, e.S3_BUCKET, e.S3_ACCESS_KEY_ID, e.S3_SECRET_ACCESS_KEY}
             s3 == [endpoint |-> e.S3_ENDPOINT, publicBaseURL |-> e.S3_PUBLIC_BASE_URL]
  <2>1. LoadS3Config(e, secure) # Failed /\ c.s3 = LoadS3Config(e, secure)[1]
    BY AcceptedParts
  <2>2. LoadS3Config(e, secure) = Check(secure => Unset \notin needed, s3)
    BY <2>1 DEF LoadS3Config
  <2>3. e.S3_ENDPOINT # Unset /\ LoadS3Config(e, secure) = <<s3>>
    BY <1>1, <2>1, <2>2 DEF Check, Loaded
  <2> QED
    BY <2>1, <2>3
<1>4. c.extra.vapid.public # Unset
  <2>1. LoadVAPIDConfig(e, secure) # Failed /\ c.extra.vapid = LoadVAPIDConfig(e, secure)[1]
    BY AcceptedParts
  <2> QED
    BY <1>1, <2>1 DEF LoadVAPIDConfig, Check, Loaded
<1>5. c.reg.smtp.host # Unset
  <2>1. /\ LoadRegistrationConfig(e, secure) # Failed
        /\ c.reg = LoadRegistrationConfig(e, secure)[1]
    BY AcceptedParts
  <2> DEFINE parts ==
        [smtp |-> LoadSMTPConfig(e, secure),
         enabled |-> LoadSelfRegistrationEnabled(e),
         verificationTTL |-> ParseInt(e.EMAIL_VERIFICATION_TTL_HOURS, 48),
         limits |-> LoadRegistrationRateLimits(e),
         unverifiedDays |-> ParseInt(e.RETENTION_UNVERIFIED_ACCOUNTS_DAYS, 7),
         resetTTL |-> ParseInt(e.PASSWORD_RESET_TTL_HOURS, 1),
         forgot |-> ParseInt(e.FORGOT_PASSWORD_RATE_LIMIT_PER_MIN, 3)]
  <2>2. LoadRegistrationConfig(e, secure) = Group(parts)
    BY DEF LoadRegistrationConfig
  <2>3. "smtp" \in DOMAIN parts /\ parts["smtp"] = LoadSMTPConfig(e, secure)
    OBVIOUS
  <2> HIDE DEF parts
  <2>4. parts["smtp"] # Failed /\ Group(parts)[1]["smtp"] = parts["smtp"][1]
    BY <2>1, <2>2, <2>3 DEF Group, Loaded
  <2>5. LoadSMTPConfig(e, secure) # Failed /\ c.reg.smtp = LoadSMTPConfig(e, secure)[1]
    BY <2>1, <2>2, <2>3, <2>4
  <2> QED
    BY <1>1, <2>5 DEF LoadSMTPConfig, Check, Loaded
<1> HIDE DEF c
<1> QED
  BY <1>2, <1>3, <1>4, <1>5
    DEF InitMailer, InitVAPIDPusher, InitObjectStore, InitAuthComponents, Check, Loaded,
        Failed, c

\* An accepted configuration has a key to seal with, and in production not one of the
\* process's own making.
LEMMA AcceptedKeys ==
  ASSUME NEW e \in Deployments, Load(e) # Failed
  PROVE  /\ 1 \in DOMAIN KeysOf(e)
         /\ Load(e)[1].secure => "ephemeral" \notin ToSet(KeysOf(e))
<1> DEFINE secure == LoadCookieSecure(e)[1]
           given == IF NonBlank(e.COOKIE_ENCRYPTION_KEYS) # << >>
                    THEN NonBlank(e.COOKIE_ENCRYPTION_KEYS) ELSE e.COOKIE_ENCRYPTION_KEY
<1>1. /\ LoadCookieEncryptionKeys(e, secure) # Failed
      /\ KeysOf(e) = LoadCookieEncryptionKeys(e, secure)[1]
      /\ Load(e)[1].secure = secure
  BY AcceptedParts DEF KeysOf
<1>2. given \in Seq(STRING \ {"ephemeral"})
  BY KeysAssumption
<1>3. \/ given # Unset /\ KeysOf(e) = given
      \/ ~ secure /\ KeysOf(e) = <<"ephemeral">>
  BY <1>1 DEF LoadCookieEncryptionKeys, Check, Loaded
<1> HIDE DEF given, secure
<1>4. CASE given # Unset /\ KeysOf(e) = given
  <2>1. Len(given) >= 1 /\ DOMAIN given = 1 .. Len(given)
    BY <1>2, <1>4 DEF Unset
  <2>2. \A i \in DOMAIN given : given[i] # "ephemeral"
    BY <1>2
  <2> QED
    BY <1>4, <2>1, <2>2 DEF ToSet
<1>5. CASE ~ secure /\ KeysOf(e) = <<"ephemeral">>
  <2>1. 1 \in DOMAIN KeysOf(e)
    BY <1>5
  <2> QED
    BY <1>1, <1>5, <2>1
<1> QED
  BY <1>3, <1>4, <1>5

-----------------------------------------------------------------------------
(* The invariant.                                                            *)

PCs == {"down", "load", "connect", "app lock", "app migrate", "river lock", "river wait",
        "river begin", "river migrate", "workers", "handlers", "serve", "http drain",
        "river stop", "flush", "close"}
Processes ==
  [pc : PCs, only : BOOLEAN, env : Deployments,
   cfg : {Failed} \cup {Load(e) : e \in Deployments},
   held : Nat, seen : Nat, term : BOOLEAN, http : BOOLEAN,
   job : {"none", "running", "cancelled"}, clock : Nat, since : Nat, starts : Nat]

ServerTypeOK ==
  /\ deployed \in Deployments
  /\ proc \in [Replicas -> Processes]
  /\ lock \in [Schemas -> Replicas \cup {Nobody}]
  /\ schema \in [Schemas -> Nat]

\* A process past loading keeps what its environment gave, and has got past what could
\* not be built.
Configured(p) ==
  /\ p.pc \notin {"down", "load"} =>
       p.cfg = Load(p.env) /\ p.cfg # Failed /\ MetricsMayServe(p.env, p.cfg[1])
  /\ p.pc \in {"handlers", "serve"} =>
       InitVAPIDPusher(p.cfg[1]) # Failed /\ InitMailer(p.cfg[1]) # Failed
  /\ p.pc = "serve" =>
       InitObjectStore(p.cfg[1]) # Failed /\ InitAuthComponents(p.cfg[1]) # Failed

\* Who migrates a schema holds its lock, and nothing has moved it since it looked.
Migrates(p, r, L, S) ==
  /\ p.pc = "app migrate" => L["app"] = r /\ S["app"] = p.seen
  /\ p.pc = "river begin" => L["river"] = r
  /\ p.pc = "river migrate" => L["river"] = r /\ S["river"] = p.seen

\* How long a shutdown may have taken when it is in a phase; no job outlasts the
\* moment they are cancelled.
Timely(p) ==
  /\ p.pc \notin {"http drain", "river stop", "flush", "close"} => p.clock = 0
  /\ p.pc = "http drain" => p.clock = p.since /\ p.since <= HTTPDrain
  /\ p.pc = "river stop" => /\ p.clock <= HTTPDrain + p.since
                            /\ p.since <= SoftStopTimeout + StopMargin
                            /\ p.job = "running" => p.since <= SoftStopTimeout
  /\ p.pc = "flush" => /\ p.clock <= HTTPDrain + SoftStopTimeout + StopMargin + p.since
                       /\ p.since <= ObsFlush
  /\ p.pc \in {"flush", "close"} => p.job # "running"
  /\ p.clock <= GracePeriod

\* Two environments whose processes open each other's cookies, if they start at all.
Understand(e, f) ==
  Load(e) # Failed /\ Load(f) # Failed =>
    /\ Decrypt(KeysOf(f), Encrypt(KeysOf(e)))
    /\ Decrypt(KeysOf(e), Encrypt(KeysOf(f)))
Opens(e, K) == Load(e) # Failed => \A k \in K : Decrypt(KeysOf(e), k)
Current(p, D, K) == p.pc # "down" => Understand(p.env, D) /\ Opens(p.env, K)

KeysShared ==
  /\ Opens(deployed, cookies)
  /\ \A r \in Replicas : Current(proc[r], deployed, cookies)
  /\ \A r, q \in Replicas :
       proc[r].pc # "down" /\ proc[q].pc # "down" => Understand(proc[r].env, proc[q].env)

Sound(p, r, L, S) == Configured(p) /\ Migrates(p, r, L, S) /\ Timely(p)
ServerInv ==
  /\ ServerTypeOK
  /\ \A r \in Replicas : Sound(proc[r], r, lock, schema)
  /\ KeysShared

-----------------------------------------------------------------------------
LEMMA UnderstandsItself ==
  ASSUME NEW e \in Deployments
  PROVE  Understand(e, e)
BY AcceptedKeys DEF Understand, Decrypt, Encrypt

\* A step of one process that runs on with the environment it had, or starts with the
\* one deployed.
LEMMA KeysStayShared ==
  ASSUME ServerInv, NEW r \in Replicas, NEW q \in Processes,
         proc' = [proc EXCEPT ![r] = q], UNCHANGED <<deployed, cookies>>,
         q.pc # "down" => q.env = deployed \/ (proc[r].pc # "down" /\ q.env = proc[r].env)
  PROVE  KeysShared'
<1>1. /\ DOMAIN proc = Replicas /\ deployed \in Deployments
      /\ \A s \in Replicas : proc'[s] = IF s = r THEN q ELSE proc[s]
  BY DEF ServerInv, ServerTypeOK
<1>2. Understand(deployed, deployed)
  BY <1>1, UnderstandsItself
<1>3. ASSUME NEW s \in Replicas
      PROVE  Current(proc'[s], deployed, cookies)
  BY <1>1, <1>2, <1>3 DEF ServerInv, KeysShared, Current
<1>4. ASSUME NEW s \in Replicas, NEW t \in Replicas, proc'[s].pc # "down", proc'[t].pc # "down"
      PROVE  Understand(proc'[s].env, proc'[t].env)
  <2>1. CASE s # r /\ t # r
    BY <1>1, <1>4, <2>1 DEF ServerInv, KeysShared
  <2>2. CASE s = r /\ t = r
    <3>1. q.env \in Deployments
      BY DEF Processes
    <3> QED
      BY <1>1, <2>2, <3>1, UnderstandsItself
  <2>3. CASE s = r /\ t # r
    BY <1>1, <1>4, <2>3 DEF ServerInv, KeysShared, Current, Understand
  <2>4. CASE s # r /\ t = r
    BY <1>1, <1>4, <2>4 DEF ServerInv, KeysShared, Current, Understand
  <2> QED
    BY <2>1, <2>2, <2>3, <2>4
<1> QED
  BY <1>3, <1>4 DEF ServerInv, KeysShared, Current, Understand, Opens

\* A step of one process, which may move the locks and the schemas it has hold of.
LEMMA StepKeeps ==
  ASSUME ServerInv, NEW r \in Replicas, NEW q \in Processes,
         proc' = [proc EXCEPT ![r] = q], UNCHANGED <<deployed, cookies>>,
         lock' \in [Schemas -> Replicas \cup {Nobody}], schema' \in [Schemas -> Nat],
         Sound(q, r, lock', schema'),
         \A s \in Replicas : s # r => Migrates(proc[s], s, lock', schema'),
         q.pc # "down" => q.env = deployed \/ (proc[r].pc # "down" /\ q.env = proc[r].env)
  PROVE  ServerInv'
<1>1. ServerTypeOK'
  BY DEF ServerInv, ServerTypeOK
<1>2. ASSUME NEW s \in Replicas
      PROVE  Sound(proc'[s], s, lock', schema')
  <2>1. CASE s = r
    <3>1. proc'[s] = q
      BY <2>1 DEF ServerInv, ServerTypeOK
    <3> QED
      BY <2>1, <3>1
  <2>2. CASE s # r
    <3>1. proc'[s] = proc[s]
      BY <2>2 DEF ServerInv, ServerTypeOK
    <3>2. Configured(proc[s]) /\ Timely(proc[s])
      BY DEF ServerInv, Sound
    <3>3. Migrates(proc[s], s, lock', schema')
      BY <2>2
    <3> QED
      BY <3>1, <3>2, <3>3 DEF Sound
  <2> QED
    BY <2>1, <2>2
<1>3. KeysShared'
  BY KeysStayShared
<1> QED
  BY <1>1, <1>2, <1>3 DEF ServerInv

\* The same, when it touches neither locks nor schemas.
LEMMA MoveKeeps ==
  ASSUME ServerInv, NEW r \in Replicas, NEW q \in Processes,
         proc' = [proc EXCEPT ![r] = q], UNCHANGED <<deployed, lock, schema, cookies>>,
         Sound(q, r, lock, schema), q.env = proc[r].env,
         proc[r].pc = "down" => q.pc = "down"
  PROVE  ServerInv'
<1>1. /\ lock' \in [Schemas -> Replicas \cup {Nobody}] /\ schema' \in [Schemas -> Nat]
      /\ Sound(q, r, lock', schema')
      /\ \A s \in Replicas : s # r => Migrates(proc[s], s, lock', schema')
  BY DEF ServerInv, ServerTypeOK, Sound, Migrates
<1> QED
  BY <1>1, StepKeeps

\* A process that is gone held what nobody holds now.
LEMMA ExitKeeps ==
  ASSUME ServerInv, NEW r \in Replicas, Exit(r)
  PROVE  ServerInv'
<1> DEFINE q == NoProcess(proc[r].env, proc[r].starts)
<1>1. proc' = [proc EXCEPT ![r] = q] /\ UNCHANGED <<deployed, schema, cookies>>
      /\ lock' = [s \in Schemas |-> IF lock[s] = r THEN Nobody ELSE lock[s]]
  BY DEF Exit
<1>2. q \in Processes /\ q.pc = "down" /\ q.clock = 0
  BY DEF ServerInv, ServerTypeOK, NoProcess, Processes, PCs
<1> HIDE DEF q
<1>3. lock' \in [Schemas -> Replicas \cup {Nobody}] /\ schema' \in [Schemas -> Nat]
  BY <1>1 DEF ServerInv, ServerTypeOK
<1>4. Sound(q, r, lock', schema')
  BY <1>2, BudgetAssumption DEF Sound, Configured, Migrates, Timely
<1>5. ASSUME NEW s \in Replicas, s # r
      PROVE  Migrates(proc[s], s, lock', schema')
  <2>1. Migrates(proc[s], s, lock, schema)
    BY DEF ServerInv, Sound
  <2>2. \A m \in Schemas : lock[m] = s => lock'[m] = s
    BY <1>1, <1>5
  <2> QED
    BY <1>1, <2>1, <2>2 DEF Migrates, Schemas
<1> QED
  BY <1>1, <1>2, <1>3, <1>4, <1>5, StepKeeps

-----------------------------------------------------------------------------
(* Starting.                                                                 *)

LEMMA LaunchKeeps ==
  ASSUME ServerInv, NEW r \in Replicas, NEW only \in BOOLEAN, Launch(r, only)
  PROVE  ServerInv'
<1> DEFINE n == NoProcess(deployed, proc[r].starts + 1)
           q == Started(deployed, proc[r].starts + 1, only)
<1>1. proc' = [proc EXCEPT ![r] = q] /\ UNCHANGED <<deployed, lock, schema, cookies>>
  BY DEF Launch
<1>2. n \in Processes /\ n.env = deployed /\ n.clock = 0
  <2>1. proc[r].starts + 1 \in Nat /\ deployed \in Deployments
    BY DEF ServerInv, ServerTypeOK, Processes
  <2> QED
    BY <2>1 DEF NoProcess, Processes, PCs
<1>3. q = [n EXCEPT !.pc = "load", !.only = only]
  BY DEF Started
<1> HIDE DEF n, q
<1>4. q \in Processes /\ q.env = deployed /\ q.clock = 0 /\ q.pc = "load"
  BY <1>2, <1>3 DEF Processes, PCs
<1>5. Sound(q, r, lock', schema')
  BY <1>4, BudgetAssumption DEF Sound, Configured, Migrates, Timely
<1>6. /\ lock' \in [Schemas -> Replicas \cup {Nobody}] /\ schema' \in [Schemas -> Nat]
      /\ \A s \in Replicas : s # r => Migrates(proc[s], s, lock', schema')
  BY <1>1 DEF ServerInv, ServerTypeOK, Sound, Migrates
<1> QED
  BY <1>1, <1>4, <1>5, <1>6, StepKeeps

LEMMA LoadConfigKeeps ==
  ASSUME ServerInv, NEW r \in Replicas, LoadConfig(r)
  PROVE  ServerInv'
<1> DEFINE p == proc[r]
           q == [p EXCEPT !.pc = "connect", !.cfg = Load(p.env)]
<1>1. CASE Exit(r)
  BY <1>1, ExitKeeps
<1>2. CASE ~ Exit(r)
  <2>1. /\ proc' = [proc EXCEPT ![r] = q] /\ UNCHANGED <<deployed, lock, schema, cookies>>
        /\ p.pc = "load" /\ Load(p.env) # Failed /\ MetricsMayServe(p.env, Load(p.env)[1])
    BY <1>2 DEF LoadConfig
  <2>2. p \in Processes /\ Timely(p)
    BY DEF ServerInv, ServerTypeOK, Sound
  <2>3. /\ q \in Processes /\ q.pc = "connect" /\ q.cfg = Load(p.env) /\ q.env = p.env
        /\ q.clock = p.clock
    BY <2>2 DEF Processes, PCs
  <2> HIDE DEF p, q
  <2>4. Sound(q, r, lock, schema)
    BY <2>1, <2>2, <2>3 DEF Sound, Configured, Migrates, Timely
  <2> QED
    BY <2>1, <2>3, <2>4, MoveKeeps DEF p
<1> QED
  BY <1>1, <1>2

\* The steps of a start that only move on.
LEMMA GotoKeeps ==
  ASSUME ServerInv, NEW r \in Replicas, NEW pc \in PCs,
         Goto(r, pc), UNCHANGED <<deployed, lock, schema, cookies>>,
         <<proc[r].pc, pc>> \in {<<"connect", "app lock">>, <<"workers", "handlers">>,
                                 <<"handlers", "serve">>},
         pc \in {"handlers", "serve"} =>
           InitVAPIDPusher(Cfg(r)) # Failed /\ InitMailer(Cfg(r)) # Failed,
         pc = "serve" =>
           InitObjectStore(Cfg(r)) # Failed /\ InitAuthComponents(Cfg(r)) # Failed
  PROVE  ServerInv'
<1> DEFINE p == proc[r]
           q == [p EXCEPT !.pc = pc]
<1>1. proc' = [proc EXCEPT ![r] = q]
  BY DEF Goto
<1>2. p \in Processes /\ Sound(p, r, lock, schema)
  BY DEF ServerInv, ServerTypeOK
<1>3. /\ q \in Processes /\ q.pc = pc /\ q.cfg = p.cfg /\ q.env = p.env
      /\ q.clock = p.clock
  BY <1>2 DEF Processes
<1>4. /\ pc \in {"handlers", "serve"} =>
           InitVAPIDPusher(p.cfg[1]) # Failed /\ InitMailer(p.cfg[1]) # Failed
      /\ pc = "serve" =>
           InitObjectStore(p.cfg[1]) # Failed /\ InitAuthComponents(p.cfg[1]) # Failed
  BY DEF Cfg
<1>5. p.pc \in {"connect", "workers", "handlers"} /\ pc \in {"app lock", "handlers", "serve"}
  OBVIOUS
<1> HIDE DEF p, q
<1>6. Sound(q, r, lock, schema)
  BY <1>2, <1>3, <1>4, <1>5 DEF Sound, Configured, Migrates, Timely
<1> QED
  BY <1>1, <1>3, <1>5, <1>6, MoveKeeps DEF p

\* A lock nobody held is taken.
LEMMA LockAppKeeps ==
  ASSUME ServerInv, NEW r \in Replicas, LockApp(r)
  PROVE  ServerInv'
<1> DEFINE p == proc[r]
           q == [p EXCEPT !.pc = "app migrate", !.held = @ + 1, !.seen = schema["app"]]
<1>1. /\ proc' = [proc EXCEPT ![r] = q] /\ UNCHANGED <<deployed, schema, cookies>>
      /\ p.pc = "app lock" /\ lock["app"] = Nobody /\ lock' = [lock EXCEPT !["app"] = r]
  BY DEF LockApp, LockFree
<1>2. p \in Processes /\ Configured(p) /\ Timely(p) /\ schema["app"] \in Nat
  BY DEF ServerInv, ServerTypeOK, Sound, Schemas
<1>3. /\ q \in Processes /\ q.pc = "app migrate" /\ q.seen = schema["app"]
      /\ q.cfg = p.cfg /\ q.env = p.env /\ q.clock = p.clock
  <2>1. p.held + 1 \in Nat
    BY <1>2 DEF Processes
  <2> QED
    BY <1>2, <2>1 DEF Processes, PCs
<1>4. lock' \in [Schemas -> Replicas \cup {Nobody}] /\ schema' \in [Schemas -> Nat]
        /\ lock'["app"] = r
  BY <1>1 DEF ServerInv, ServerTypeOK, Schemas
<1>5. ASSUME NEW s \in Replicas, s # r
      PROVE  Migrates(proc[s], s, lock', schema')
  <2>1. Migrates(proc[s], s, lock, schema)
    BY DEF ServerInv, Sound
  <2>2. \A m \in Schemas : lock[m] = s => lock'[m] = s
    BY <1>1, <1>5, ServerAssumption DEF ServerInv, ServerTypeOK
  <2> QED
    BY <1>1, <2>1, <2>2 DEF Migrates, Schemas
<1> HIDE DEF p, q
<1>6. Sound(q, r, lock', schema')
  BY <1>1, <1>2, <1>3, <1>4 DEF Sound, Configured, Migrates, Timely
<1> QED
  BY <1>1, <1>3, <1>4, <1>5, <1>6, StepKeeps DEF p

LEMMA DialLockKeeps ==
  ASSUME ServerInv, NEW r \in Replicas, DialLock(r)
  PROVE  ServerInv'
<1> DEFINE p == proc[r]
           q == [p EXCEPT !.pc = "river wait", !.held = @ + LockConns]
<1>1. /\ proc' = [proc EXCEPT ![r] = q] /\ UNCHANGED <<deployed, lock, schema, cookies>>
      /\ p.pc = "river lock"
  BY DEF DialLock
<1>2. p \in Processes /\ Configured(p) /\ Timely(p)
  BY DEF ServerInv, ServerTypeOK, Sound
<1>3. /\ q \in Processes /\ q.pc = "river wait"
      /\ q.cfg = p.cfg /\ q.env = p.env /\ q.clock = p.clock
  <2>1. p.held + LockConns \in Nat
    BY <1>2 DEF Processes, LockConns
  <2> QED
    BY <1>2, <2>1 DEF Processes, PCs
<1> HIDE DEF p, q
<1>4. Sound(q, r, lock, schema)
  BY <1>1, <1>2, <1>3 DEF Sound, Configured, Migrates, Timely
<1> QED
  BY <1>1, <1>3, <1>4, MoveKeeps DEF p

LEMMA AwaitLockKeeps ==
  ASSUME ServerInv, NEW r \in Replicas, AwaitLock(r)
  PROVE  ServerInv'
<1> DEFINE p == proc[r]
           q == [p EXCEPT !.pc = "river begin"]
<1>1. /\ proc' = [proc EXCEPT ![r] = q] /\ UNCHANGED <<deployed, schema, cookies>>
      /\ p.pc = "river wait" /\ lock["river"] = Nobody /\ lock' = [lock EXCEPT !["river"] = r]
  BY DEF AwaitLock, LockFree, Goto
<1>2. p \in Processes /\ Configured(p) /\ Timely(p)
  BY DEF ServerInv, ServerTypeOK, Sound
<1>3. /\ q \in Processes /\ q.pc = "river begin"
      /\ q.cfg = p.cfg /\ q.env = p.env /\ q.clock = p.clock
  BY <1>2 DEF Processes, PCs
<1>4. lock' \in [Schemas -> Replicas \cup {Nobody}] /\ schema' \in [Schemas -> Nat]
        /\ lock'["river"] = r
  BY <1>1 DEF ServerInv, ServerTypeOK, Schemas
<1>5. ASSUME NEW s \in Replicas, s # r
      PROVE  Migrates(proc[s], s, lock', schema')
  <2>1. Migrates(proc[s], s, lock, schema)
    BY DEF ServerInv, Sound
  <2>2. \A m \in Schemas : lock[m] = s => lock'[m] = s
    BY <1>1, <1>5, ServerAssumption DEF ServerInv, ServerTypeOK
  <2> QED
    BY <1>1, <2>1, <2>2 DEF Migrates, Schemas
<1> HIDE DEF p, q
<1>6. Sound(q, r, lock', schema')
  BY <1>1, <1>2, <1>3, <1>4 DEF Sound, Configured, Migrates, Timely
<1> QED
  BY <1>1, <1>3, <1>4, <1>5, <1>6, StepKeeps DEF p

LEMMA BeginRiverKeeps ==
  ASSUME ServerInv, NEW r \in Replicas, BeginRiver(r)
  PROVE  ServerInv'
<1> DEFINE p == proc[r]
           q == [p EXCEPT !.pc = "river migrate", !.held = @ + 1, !.seen = schema["river"]]
<1>1. /\ proc' = [proc EXCEPT ![r] = q] /\ UNCHANGED <<deployed, lock, schema, cookies>>
      /\ p.pc = "river begin"
  BY DEF BeginRiver
<1>2. p \in Processes /\ Sound(p, r, lock, schema) /\ schema["river"] \in Nat
  BY DEF ServerInv, ServerTypeOK, Schemas
<1>3. /\ q \in Processes /\ q.pc = "river migrate" /\ q.seen = schema["river"]
      /\ q.cfg = p.cfg /\ q.env = p.env /\ q.clock = p.clock
  <2>1. p.held + 1 \in Nat
    BY <1>2 DEF Processes
  <2> QED
    BY <1>2, <2>1 DEF Processes, PCs
<1> HIDE DEF p, q
<1>4. Sound(q, r, lock, schema)
  BY <1>1, <1>2, <1>3 DEF Sound, Configured, Migrates, Timely
<1> QED
  BY <1>1, <1>3, <1>4, MoveKeeps DEF p

\* Only its lock's holder moves a schema: nobody else is between a look and a write.
LEMMA MigrateKeeps ==
  ASSUME ServerInv, NEW r \in Replicas, NEW m \in Schemas, Migrate(r, m)
  PROVE  ServerInv'
<1> DEFINE p == proc[r]
           q == [p EXCEPT !.seen = @ + 1]
<1>1. /\ proc' = [proc EXCEPT ![r] = q] /\ UNCHANGED <<deployed, lock, cookies>>
      /\ p.pc = Migrating(m) /\ schema[m] = p.seen /\ schema' = [schema EXCEPT ![m] = @ + 1]
  BY DEF Migrate
<1>2. p \in Processes /\ Sound(p, r, lock, schema) /\ schema \in [Schemas -> Nat]
  BY DEF ServerInv, ServerTypeOK
<1>3. /\ q \in Processes /\ q.pc = p.pc /\ q.seen = p.seen + 1
      /\ q.cfg = p.cfg /\ q.env = p.env /\ q.clock = p.clock
  BY <1>2 DEF Processes
<1>4. lock' \in [Schemas -> Replicas \cup {Nobody}] /\ schema' \in [Schemas -> Nat]
  BY <1>1, <1>2 DEF ServerInv, ServerTypeOK
<1> HIDE DEF p, q
<1>5. /\ lock[m] = r /\ schema'[m] = p.seen + 1
      /\ \A n \in Schemas : n # m => schema'[n] = schema[n]
  BY <1>1, <1>2 DEF Sound, Migrates, Migrating, Schemas
<1>6. ASSUME NEW s \in Replicas, s # r
      PROVE  Migrates(proc[s], s, lock', schema')
  <2>1. Migrates(proc[s], s, lock, schema)
    BY DEF ServerInv, Sound
  <2>2. \A n \in Schemas : lock[n] = s => schema'[n] = schema[n]
    BY <1>5, <1>6
  <2> QED
    BY <1>1, <2>1, <2>2 DEF Migrates, Schemas
<1>7. Sound(q, r, lock', schema')
  <2>1. Migrates(q, r, lock', schema')
    BY <1>1, <1>2, <1>3, <1>5 DEF Sound, Migrates, Migrating, Schemas
  <2>2. Configured(q)
    BY <1>2, <1>3 DEF Sound, Configured
  <2>3. Timely(q)
    BY <1>1, <1>2, <1>3 DEF Sound, Timely, Migrating
  <2> QED
    BY <2>1, <2>2, <2>3 DEF Sound
<1>8. p.pc # "down"
  BY <1>1 DEF Migrating
<1> QED
  BY <1>1, <1>3, <1>4, <1>6, <1>7, <1>8, StepKeeps DEF p

LEMMA MigratedKeeps ==
  ASSUME ServerInv, NEW r \in Replicas, NEW m \in Schemas, Migrated(r, m)
  PROVE  ServerInv'
<1> DEFINE p == proc[r]
           next == IF m = "app" THEN "river lock" ELSE "workers"
           q == [p EXCEPT !.pc = next, !.held = 0, !.seen = 0]
<1>1. CASE Exit(r)
  BY <1>1, ExitKeeps
<1>2. CASE ~ Exit(r)
  <2>1. /\ proc' = [proc EXCEPT ![r] = q] /\ UNCHANGED <<deployed, schema, cookies>>
        /\ p.pc = Migrating(m) /\ lock' = [lock EXCEPT ![m] = Nobody]
    BY <1>2 DEF Migrated
  <2>2. p \in Processes /\ Sound(p, r, lock, schema) /\ next \in {"river lock", "workers"}
    BY DEF ServerInv, ServerTypeOK
  <2> HIDE DEF next
  <2>3. q \in Processes /\ q.pc = next /\ q.cfg = p.cfg /\ q.env = p.env /\ q.clock = p.clock
    BY <2>2 DEF Processes, PCs
  <2>4. lock' \in [Schemas -> Replicas \cup {Nobody}] /\ schema' \in [Schemas -> Nat]
    BY <2>1 DEF ServerInv, ServerTypeOK
  <2> HIDE DEF p, q
  <2>5. p.pc \in {"app migrate", "river migrate"} /\ lock[m] = r
    BY <2>1, <2>2 DEF Sound, Migrates, Migrating, Schemas
  <2>6. ASSUME NEW s \in Replicas, s # r
        PROVE  Migrates(proc[s], s, lock', schema')
    <3>1. Migrates(proc[s], s, lock, schema)
      BY DEF ServerInv, Sound
    <3>2. \A n \in Schemas : lock[n] = s => lock'[n] = s
      BY <2>1, <2>5, <2>6 DEF ServerInv, ServerTypeOK
    <3> QED
      BY <2>1, <3>1, <3>2 DEF Migrates, Schemas
  <2>7. Sound(q, r, lock', schema')
    BY <2>2, <2>3, <2>5 DEF Sound, Configured, Migrates, Timely
  <2> QED
    BY <2>1, <2>3, <2>4, <2>5, <2>6, <2>7, StepKeeps DEF p
<1> QED
  BY <1>1, <1>2

LEMMA StartWorkersKeeps ==
  ASSUME ServerInv, NEW r \in Replicas, StartWorkers(r)
  PROVE  ServerInv'
<1>1. CASE Exit(r)
  BY <1>1, ExitKeeps
<1>2. CASE ~ Exit(r)
  <2>1. /\ proc[r].pc = "workers" /\ Goto(r, "handlers")
        /\ UNCHANGED <<deployed, lock, schema, cookies>>
        /\ InitVAPIDPusher(Cfg(r)) # Failed /\ InitMailer(Cfg(r)) # Failed
    BY <1>2 DEF StartWorkers
  <2>2. "handlers" \in PCs
    BY DEF PCs
  <2> QED
    BY <2>1, <2>2, GotoKeeps
<1> QED
  BY <1>1, <1>2

LEMMA StartHandlersKeeps ==
  ASSUME ServerInv, NEW r \in Replicas, StartHandlers(r)
  PROVE  ServerInv'
<1>1. CASE Exit(r)
  BY <1>1, ExitKeeps
<1>2. CASE ~ Exit(r)
  <2>1. /\ proc[r].pc = "handlers" /\ Goto(r, "serve")
        /\ UNCHANGED <<deployed, lock, schema, cookies>>
        /\ InitObjectStore(Cfg(r)) # Failed /\ InitAuthComponents(Cfg(r)) # Failed
    BY <1>2 DEF StartHandlers
  <2>2. InitVAPIDPusher(Cfg(r)) # Failed /\ InitMailer(Cfg(r)) # Failed
    BY <2>1 DEF ServerInv, Sound, Configured, Cfg
  <2>3. "serve" \in PCs
    BY DEF PCs
  <2> QED
    BY <2>1, <2>2, <2>3, GotoKeeps
<1> QED
  BY <1>1, <1>2

-----------------------------------------------------------------------------
(* Serving and stopping.                                                     *)

\* What changes neither the place of a process nor its clocks, but where a job runs.
LEMMA WorkingKeeps ==
  ASSUME ServerInv, NEW r \in Replicas, Working(r) \/ SoftStop(r)
  PROVE  ServerInv'
<1> DEFINE p == proc[r]
<1>1. p \in Processes /\ Sound(p, r, lock, schema)
  BY DEF ServerInv, ServerTypeOK
<1>2. ASSUME NEW q \in Processes, proc' = [proc EXCEPT ![r] = q],
             UNCHANGED <<deployed, lock, schema, cookies>>,
             q.pc = p.pc, q.cfg = p.cfg, q.env = p.env, q.seen = p.seen,
             q.clock = p.clock, q.since = p.since,
             q.job = "running" => p.job = "running" \/ p.pc \in WorkerPCs
      PROVE  ServerInv'
  <2> HIDE DEF p
  <2>1. Sound(q, r, lock, schema)
    BY <1>1, <1>2 DEF Sound, Configured, Migrates, Timely, WorkerPCs
  <2> QED
    BY <1>2, <2>1, MoveKeeps DEF p
<1>3. CASE Accept(r)
  <2> DEFINE q == [p EXCEPT !.http = TRUE]
  <2>1. proc' = [proc EXCEPT ![r] = q] /\ UNCHANGED <<deployed, lock, schema, cookies>>
    BY <1>3 DEF Accept
  <2>2. /\ q \in Processes /\ q.pc = p.pc /\ q.cfg = p.cfg /\ q.env = p.env
        /\ q.seen = p.seen /\ q.clock = p.clock /\ q.since = p.since
        /\ q.job = p.job
    BY <1>1 DEF Processes
  <2> HIDE DEF p, q
  <2> QED
    BY <1>2, <2>1, <2>2
<1>4. CASE Answer(r)
  <2> DEFINE q == [p EXCEPT !.http = FALSE]
  <2>1. proc' = [proc EXCEPT ![r] = q] /\ UNCHANGED <<deployed, lock, schema, cookies>>
    BY <1>4 DEF Answer
  <2>2. /\ q \in Processes /\ q.pc = p.pc /\ q.cfg = p.cfg /\ q.env = p.env
        /\ q.seen = p.seen /\ q.clock = p.clock /\ q.since = p.since
        /\ q.job = p.job
    BY <1>1 DEF Processes
  <2> HIDE DEF p, q
  <2> QED
    BY <1>2, <2>1, <2>2
<1>5. CASE FetchJob(r)
  <2> DEFINE q == [p EXCEPT !.job = "running"]
  <2>1. /\ proc' = [proc EXCEPT ![r] = q] /\ p.pc \in WorkerPCs
        /\ UNCHANGED <<deployed, lock, schema, cookies>>
    BY <1>5 DEF FetchJob
  <2>2. /\ q \in Processes /\ q.pc = p.pc /\ q.cfg = p.cfg /\ q.env = p.env
        /\ q.seen = p.seen /\ q.clock = p.clock /\ q.since = p.since
        /\ q.job = "running"
    BY <1>1 DEF Processes
  <2> HIDE DEF p, q
  <2> QED
    BY <1>2, <2>1, <2>2
<1>6. CASE EndJob(r)
  <2> DEFINE q == [p EXCEPT !.job = "none"]
  <2>1. proc' = [proc EXCEPT ![r] = q] /\ UNCHANGED <<deployed, lock, schema, cookies>>
    BY <1>6 DEF EndJob
  <2>2. /\ q \in Processes /\ q.pc = p.pc /\ q.cfg = p.cfg /\ q.env = p.env
        /\ q.seen = p.seen /\ q.clock = p.clock /\ q.since = p.since
        /\ q.job = "none"
    BY <1>1 DEF Processes
  <2> HIDE DEF p, q
  <2> QED
    BY <1>2, <2>1, <2>2
<1>7. CASE SoftStop(r)
  <2> DEFINE q == [p EXCEPT !.job = "cancelled"]
  <2>1. proc' = [proc EXCEPT ![r] = q] /\ UNCHANGED <<deployed, lock, schema, cookies>>
    BY <1>7 DEF SoftStop
  <2>2. /\ q \in Processes /\ q.pc = p.pc /\ q.cfg = p.cfg /\ q.env = p.env
        /\ q.seen = p.seen /\ q.clock = p.clock /\ q.since = p.since
        /\ q.job = "cancelled"
    BY <1>1 DEF Processes
  <2> HIDE DEF p, q
  <2> QED
    BY <1>2, <2>1, <2>2
<1> QED
  BY <1>3, <1>4, <1>5, <1>6, <1>7 DEF Working

LEMMA TerminateKeeps ==
  ASSUME ServerInv, NEW r \in Replicas, Terminate(r)
  PROVE  ServerInv'
<1> DEFINE p == proc[r]
           q == [p EXCEPT !.term = TRUE]
<1>1. CASE Exit(r)
  BY <1>1, ExitKeeps
<1>2. CASE ~ Exit(r)
  <2>1. proc' = [proc EXCEPT ![r] = q] /\ UNCHANGED <<deployed, lock, schema, cookies>>
    BY <1>2 DEF Terminate
  <2>2. p \in Processes /\ Sound(p, r, lock, schema)
    BY DEF ServerInv, ServerTypeOK
  <2>3. /\ q \in Processes /\ q.pc = p.pc /\ q.cfg = p.cfg /\ q.env = p.env /\ q.job = p.job
        /\ q.seen = p.seen /\ q.clock = p.clock /\ q.since = p.since
    BY <2>2 DEF Processes
  <2> HIDE DEF p, q
  <2>4. Sound(q, r, lock, schema)
    BY <2>2, <2>3 DEF Sound, Configured, Migrates, Timely
  <2> QED
    BY <2>1, <2>3, <2>4, MoveKeeps DEF p
<1> QED
  BY <1>1, <1>2

LEMMA Budgets ==
  /\ HTTPDrain \in Nat /\ SoftStopTimeout \in Nat /\ StopMargin \in Nat /\ ObsFlush \in Nat
  /\ RequestTimeout \in Nat /\ GracePeriod \in Nat
  /\ StopMargin > 0 /\ RequestTimeout <= GracePeriod
  /\ HTTPDrain + SoftStopTimeout + StopMargin + ObsFlush <= GracePeriod
BY ServerAssumption, BudgetAssumption

\* The phases of a shutdown, one after the other, and what may end the one that waits
\* for jobs.
Ends(p, from, to) ==
  /\ <<from, to>> \in {<<"serve", "http drain">>, <<"http drain", "river stop">>,
                       <<"river stop", "flush">>, <<"flush", "close">>}
  /\ from = "river stop" => p.job = "none" \/ p.since = SoftStopTimeout + StopMargin

\* A phase of the shutdown ends: what it may have taken is within the budget of what
\* comes next.
LEMMA PhaseKeeps ==
  ASSUME ServerInv, NEW r \in Replicas, NEW from, NEW to,
         Phase(r, from, to), Ends(proc[r], from, to)
  PROVE  ServerInv'
<1> DEFINE p == proc[r]
           q == [p EXCEPT !.pc = to, !.since = 0]
<1>1. proc' = [proc EXCEPT ![r] = q] /\ UNCHANGED <<deployed, lock, schema, cookies>>
        /\ p.pc = from
  BY DEF Phase
<1>2. p \in Processes /\ Configured(p) /\ Timely(p)
  BY DEF ServerInv, ServerTypeOK, Sound
<1>3. /\ q \in Processes /\ q.pc = to /\ q.cfg = p.cfg /\ q.env = p.env /\ q.job = p.job
      /\ q.clock = p.clock /\ q.since = 0
  <2>1. to \in PCs
    BY DEF Ends, PCs
  <2> QED
    BY <1>2, <2>1 DEF Processes
<1>4. p.clock \in Nat /\ p.since \in Nat
  BY <1>2 DEF Processes
<1> HIDE DEF p, q
<1>5. Timely(q)
  <2>1. CASE from = "serve" /\ to = "http drain"
    <3>1. p.clock = 0
      BY <1>1, <1>2, <2>1 DEF Timely
    <3>2. 0 <= HTTPDrain /\ 0 <= GracePeriod
      BY Budgets
    <3> QED
      BY <1>3, <2>1, <3>1, <3>2 DEF Timely
  <2>2. CASE from = "http drain" /\ to = "river stop"
    <3>1. p.clock = p.since /\ p.since <= HTTPDrain
      BY <1>1, <1>2, <2>2 DEF Timely
    <3>2. /\ p.clock <= HTTPDrain + 0 /\ p.clock <= GracePeriod
          /\ 0 <= SoftStopTimeout + StopMargin /\ 0 <= SoftStopTimeout
      BY <1>4, <3>1, Budgets
    <3> QED
      BY <1>3, <2>2, <3>2 DEF Timely
  <2>3. CASE from = "river stop" /\ to = "flush"
    <3>1. p.clock <= HTTPDrain + p.since /\ p.since <= SoftStopTimeout + StopMargin
            /\ (p.job = "running" => p.since <= SoftStopTimeout)
            /\ (p.job = "none" \/ p.since = SoftStopTimeout + StopMargin)
      BY <1>1, <1>2, <2>3 DEF Timely, Ends, p
    <3>2. p.clock <= HTTPDrain + SoftStopTimeout + StopMargin + 0 /\ p.clock <= GracePeriod
      BY <1>4, <3>1, Budgets
    <3>3. p.job # "running"
      <4>1. p.since = SoftStopTimeout + StopMargin => ~ (p.since <= SoftStopTimeout)
        BY <1>4, Budgets
      <4> QED
        BY <3>1, <4>1
    <3>4. q.pc = "flush" /\ q.job = p.job /\ q.since = 0 /\ q.clock = p.clock
      BY <1>3, <2>3
    <3>5. 0 <= ObsFlush
      BY Budgets
    <3>6. /\ q.clock <= HTTPDrain + SoftStopTimeout + StopMargin + q.since
          /\ q.since <= ObsFlush
      BY <3>2, <3>4, <3>5
    <3> QED
      BY <3>2, <3>3, <3>4, <3>6 DEF Timely
  <2>4. CASE from = "flush" /\ to = "close"
    <3>1. p.job # "running" /\ p.clock <= GracePeriod
      BY <1>1, <1>2, <2>4 DEF Timely
    <3>2. q.pc = "close" /\ q.job # "running" /\ q.clock <= GracePeriod
      BY <1>3, <2>4, <3>1
    <3> QED
      BY <3>2 DEF Timely
  <2> QED
    BY <2>1, <2>2, <2>3, <2>4 DEF Ends
<1>6. Sound(q, r, lock, schema)
  BY <1>1, <1>2, <1>3, <1>5 DEF Sound, Configured, Migrates, Ends
<1>7. p.pc # "down"
  BY <1>1 DEF Ends
<1> QED
  BY <1>1, <1>3, <1>6, <1>7, MoveKeeps DEF p

LEMMA StoppingKeeps ==
  ASSUME ServerInv, NEW r \in Replicas, Stopping(r)
  PROVE  ServerInv'
<1>1. CASE Shutdown(r)
  BY <1>1, PhaseKeeps DEF Shutdown, Ends
<1>2. CASE Drained(r)
  BY <1>2, PhaseKeeps DEF Drained, Ends
<1>3. CASE SoftStop(r)
  BY <1>3, WorkingKeeps
<1>4. CASE Stopped(r)
  BY <1>4, PhaseKeeps DEF Stopped, Ends
<1>5. CASE Flushed(r)
  BY <1>5, PhaseKeeps DEF Flushed, Ends
<1>6. CASE ClosePool(r)
  BY <1>6, ExitKeeps DEF ClosePool
<1> QED
  BY <1>1, <1>2, <1>3, <1>4, <1>5, <1>6 DEF Stopping

\* Time passes no further than a phase's budget, nor a request's own time.
LEMMA TickKeeps ==
  ASSUME ServerInv, NEW r \in Replicas, Tick(r)
  PROVE  ServerInv'
<1> DEFINE p == proc[r]
           q == [p EXCEPT !.clock = @ + 1, !.since = @ + 1]
<1>1. /\ proc' = [proc EXCEPT ![r] = q] /\ UNCHANGED <<deployed, lock, schema, cookies>>
      /\ p.http => p.clock < RequestTimeout
  BY DEF Tick
<1>2. p \in Processes /\ Configured(p) /\ Timely(p)
  BY DEF ServerInv, ServerTypeOK, Sound
<1>3. p.clock \in Nat /\ p.since \in Nat /\ p.clock + 1 \in Nat /\ p.since + 1 \in Nat
  <2>1. p.clock \in Nat /\ p.since \in Nat
    BY <1>2 DEF Processes
  <2> QED
    BY <2>1
<1>4. /\ q \in Processes /\ q.pc = p.pc /\ q.cfg = p.cfg /\ q.env = p.env /\ q.job = p.job
      /\ q.clock = p.clock + 1 /\ q.since = p.since + 1
  BY <1>2, <1>3 DEF Processes
<1>5. \/ p.pc = "http drain" /\ p.since < HTTPDrain
      \/ /\ p.pc = "river stop" /\ p.since < SoftStopTimeout + StopMargin
         /\ p.job = "running" => p.since # SoftStopTimeout
      \/ p.pc = "flush" /\ p.since < ObsFlush
      \/ p.pc = "close" /\ (p.http \/ p.job = "running")
  BY DEF Tick, Patience, SoftStopAfter
<1> HIDE DEF p, q
<1>6. Timely(q)
  <2>1. CASE p.pc = "http drain" /\ p.since < HTTPDrain
    <3>1. p.clock = p.since /\ p.since < HTTPDrain
      BY <1>2, <2>1 DEF Timely
    <3>2. p.clock + 1 = p.since + 1 /\ p.since + 1 <= HTTPDrain /\ p.clock + 1 <= GracePeriod
      BY <1>3, <3>1, Budgets
    <3> QED
      BY <1>4, <2>1, <3>2 DEF Timely
  <2>2. CASE /\ p.pc = "river stop" /\ p.since < SoftStopTimeout + StopMargin
             /\ p.job = "running" => p.since # SoftStopTimeout
    <3>1. p.clock <= HTTPDrain + p.since /\ p.since < SoftStopTimeout + StopMargin
            /\ (p.job = "running" => p.since <= SoftStopTimeout /\ p.since # SoftStopTimeout)
      BY <1>2, <2>2 DEF Timely
    <3>2. /\ p.clock + 1 <= HTTPDrain + (p.since + 1) /\ p.clock + 1 <= GracePeriod
          /\ p.since + 1 <= SoftStopTimeout + StopMargin
          /\ p.since <= SoftStopTimeout /\ p.since # SoftStopTimeout =>
               p.since + 1 <= SoftStopTimeout
      BY <1>3, <3>1, Budgets
    <3> QED
      BY <1>4, <2>2, <3>1, <3>2 DEF Timely
  <2>3. CASE p.pc = "flush" /\ p.since < ObsFlush
    <3>1. p.clock <= HTTPDrain + SoftStopTimeout + StopMargin + p.since /\ p.job # "running"
      BY <1>2, <2>3 DEF Timely
    <3>2. /\ p.clock + 1 <= HTTPDrain + SoftStopTimeout + StopMargin + (p.since + 1)
          /\ p.clock + 1 <= GracePeriod /\ p.since + 1 <= ObsFlush
      BY <1>3, <2>3, <3>1, Budgets
    <3> QED
      BY <1>4, <2>3, <3>1, <3>2 DEF Timely
  <2>4. CASE p.pc = "close" /\ (p.http \/ p.job = "running")
    BY <1>1, <1>2, <1>3, <1>4, <2>4, Budgets DEF Timely
  <2> QED
    BY <1>5, <2>1, <2>2, <2>3, <2>4
<1>7. Sound(q, r, lock, schema)
  BY <1>2, <1>4, <1>5, <1>6 DEF Sound, Configured, Migrates
<1> QED
  BY <1>1, <1>4, <1>5, <1>7, MoveKeeps DEF p

-----------------------------------------------------------------------------
(* Cookies and rollouts.                                                     *)

\* Only the cookies or the environment deployed change.
LEMMA KeysChangeKeeps ==
  ASSUME ServerInv, UNCHANGED <<proc, lock, schema>>, deployed' \in Deployments, KeysShared'
  PROVE  ServerInv'
<1>1. ServerTypeOK'
  BY DEF ServerInv, ServerTypeOK
<1>2. \A r \in Replicas : Sound(proc'[r], r, lock', schema')
  BY DEF ServerInv
<1> QED
  BY <1>1, <1>2 DEF ServerInv

\* A cookie that is set can be opened by every process that runs, and by those that
\* are going to.
LEMMA SetCookieKeeps ==
  ASSUME ServerInv, NEW r \in Replicas, SetCookie(r)
  PROVE  ServerInv'
<1> DEFINE e == proc[r].env
<1>1. PICK k : k = Encrypt(KeysOf(e))
  OBVIOUS
<1>2. proc[r].pc = "serve" /\ Load(e) # Failed /\ proc[r].cfg = Load(e)
  BY DEF SetCookie, ServerInv, Sound, Configured
<1>3. cookies' = cookies \cup {k} /\ UNCHANGED <<deployed, proc, lock, schema>>
  BY <1>1, <1>2 DEF SetCookie, Cfg, KeysOf
<1>4. ASSUME NEW f, Understand(e, f), Opens(f, cookies)
      PROVE  Opens(f, cookies \cup {k})
  BY <1>1, <1>2, <1>4 DEF Understand, Opens
<1>5. Opens(deployed, cookies \cup {k})
  BY <1>2, <1>4 DEF ServerInv, KeysShared, Current
<1>6. ASSUME NEW q \in Replicas
      PROVE  Current(proc[q], deployed, cookies \cup {k})
  BY <1>2, <1>4 DEF ServerInv, KeysShared, Current
<1>7. KeysShared'
  BY <1>3, <1>5, <1>6 DEF ServerInv, KeysShared
<1> QED
  BY <1>3, <1>7, KeysChangeKeeps DEF ServerInv, ServerTypeOK

LEMMA ExpireKeeps ==
  ASSUME ServerInv, NEW k \in cookies, Expire(k)
  PROVE  ServerInv'
<1>1. cookies' = cookies \ {k} /\ UNCHANGED <<deployed, proc, lock, schema>>
  BY DEF Expire
<1>2. Opens(deployed, cookies \ {k})
  BY DEF ServerInv, KeysShared, Opens
<1>3. ASSUME NEW q \in Replicas
      PROVE  Current(proc[q], deployed, cookies \ {k})
  BY DEF ServerInv, KeysShared, Current, Opens
<1>4. KeysShared'
  BY <1>1, <1>2, <1>3 DEF ServerInv, KeysShared
<1> QED
  BY <1>1, <1>4, KeysChangeKeeps DEF ServerInv, ServerTypeOK

\* When a rollout begins, every process has the environment of the last one, and with
\* the new one it is a step of a rotation.
LEMMA RolloutKeeps ==
  ASSUME ServerInv, NEW env \in Deployments, Load(env) # Failed,
         Rotates(KeysOf(deployed), KeysOf(env)), Rollout(env)
  PROVE  ServerInv'
<1>1. /\ \A r \in Replicas : proc[r].pc = "serve" /\ proc[r].env = deployed
      /\ deployed' = env /\ UNCHANGED <<proc, lock, schema, cookies>>
  BY DEF Rollout
<1>2. Opens(env, cookies)
  BY DEF Rollout, Opens, KeysOf
<1>3. Understand(deployed, env)
  BY DEF Understand, Rotates, Decrypt, Encrypt, ToSet
<1>4. ASSUME NEW r \in Replicas
      PROVE  Current(proc[r], env, cookies)
  BY <1>1, <1>3 DEF ServerInv, KeysShared, Current
<1>5. KeysShared'
  BY <1>1, <1>2, <1>4 DEF ServerInv, KeysShared
<1> QED
  BY <1>1, <1>5, KeysChangeKeeps

-----------------------------------------------------------------------------
LEMMA ServerInvInit == ServerInit => ServerInv
<1> SUFFICES ASSUME ServerInit
             PROVE  ServerInv
  OBVIOUS
<1> DEFINE n == NoProcess(deployed, 0)
<1>1. /\ deployed \in Deployments /\ proc = [r \in Replicas |-> n] /\ cookies = {}
      /\ lock = [s \in Schemas |-> Nobody] /\ schema = [s \in Schemas |-> 0]
  BY DEF ServerInit
<1>2. n \in Processes /\ n.pc = "down" /\ n.clock = 0
  BY <1>1 DEF NoProcess, Processes, PCs
<1> HIDE DEF n
<1>3. ServerTypeOK
  BY <1>1, <1>2 DEF ServerTypeOK
<1>4. ASSUME NEW r \in Replicas
      PROVE  Sound(proc[r], r, lock, schema)
  <2>1. 0 <= GracePeriod
    BY Budgets
  <2>2. Sound(n, r, lock, schema)
    BY <1>2, <2>1 DEF Sound, Configured, Migrates, Timely
  <2> QED
    BY <1>1, <2>2
<1>5. KeysShared
  BY <1>1, <1>2 DEF KeysShared, Current, Opens
<1> QED
  BY <1>3, <1>4, <1>5 DEF ServerInv

LEMMA ServerInvNext == ServerInv /\ [ServerNext]_serverVars => ServerInv'
<1> SUFFICES ASSUME ServerInv, [ServerNext]_serverVars
             PROVE  ServerInv'
  OBVIOUS
<1>1. CASE UNCHANGED serverVars
  BY <1>1 DEF serverVars, ServerInv, ServerTypeOK, KeysShared
<1>2. ASSUME NEW r \in Replicas, NEW only \in BOOLEAN, Launch(r, only)
      PROVE  ServerInv'
  BY <1>2, LaunchKeeps
<1>3. ASSUME NEW r \in Replicas, Starting(r)
      PROVE  ServerInv'
  <2>1. CASE LoadConfig(r)
    BY <2>1, LoadConfigKeeps
  <2>2. CASE Connect(r)
    <3>1. "app lock" \in PCs
      BY DEF PCs
    <3> QED
      BY <2>2, <3>1, GotoKeeps DEF Connect
  <2>3. CASE LockApp(r)
    BY <2>3, LockAppKeeps
  <2>4. CASE DialLock(r)
    BY <2>4, DialLockKeeps
  <2>5. CASE AwaitLock(r)
    BY <2>5, AwaitLockKeeps
  <2>6. CASE BeginRiver(r)
    BY <2>6, BeginRiverKeeps
  <2>7. ASSUME NEW s \in Schemas, Migrate(r, s) \/ Migrated(r, s)
        PROVE  ServerInv'
    BY <2>7, MigrateKeeps, MigratedKeeps
  <2>8. CASE StartWorkers(r)
    BY <2>8, StartWorkersKeeps
  <2>9. CASE StartHandlers(r)
    BY <2>9, StartHandlersKeeps
  <2> QED
    BY <1>3, <2>1, <2>2, <2>3, <2>4, <2>5, <2>6, <2>7, <2>8, <2>9 DEF Starting, Booting
<1>4. ASSUME NEW r \in Replicas,
             \/ Working(r) \/ SetCookie(r) \/ Terminate(r) \/ Stopping(r) \/ Tick(r) \/ Die(r)
      PROVE  ServerInv'
  <2>1. CASE Die(r)
    BY <2>1, ExitKeeps DEF Die
  <2> QED
    BY <1>4, <2>1, WorkingKeeps, SetCookieKeeps, TerminateKeeps, StoppingKeeps, TickKeeps
<1>5. ASSUME NEW k \in cookies, Expire(k)
      PROVE  ServerInv'
  BY <1>5, ExpireKeeps
<1>6. ASSUME NEW env \in Deployments, Load(env) # Failed,
             Rotates(KeysOf(deployed), KeysOf(env)), Rollout(env)
      PROVE  ServerInv'
  BY <1>6, RolloutKeeps
<1> QED
  BY <1>1, <1>2, <1>3, <1>4, <1>5, <1>6 DEF ServerNext

\* A server that serves with COOKIE_SECURE stands on nothing that main.go puts in
\* place of a mailer, a push sender, an object store or keys that were not configured.
THEOREM ProductionStaysReal == ServerSpec => []ProductionNeverFakes
<1>1. ServerInv => ProductionNeverFakes
  <2> SUFFICES ASSUME ServerInv, NEW r \in Replicas, proc[r].pc = "serve", Cfg(r).secure
               PROVE  /\ {InitMailer(Cfg(r)), InitVAPIDPusher(Cfg(r)),
                          InitObjectStore(Cfg(r)), InitAuthComponents(Cfg(r))}
                           = {Loaded("real")}
                      /\ "ephemeral" \notin ToSet(Cfg(r).cookieKeys)
                      /\ MetricsMayServe(proc[r].env, Cfg(r))
    BY DEF ProductionNeverFakes
  <2> DEFINE e == proc[r].env
             c == Load(e)[1]
  <2>1. e \in Deployments /\ Load(e) # Failed /\ Cfg(r) = c
    BY DEF ServerInv, ServerTypeOK, Processes, Sound, Configured, Cfg
  <2>2. /\ MetricsMayServe(e, c) /\ InitMailer(c) # Failed /\ InitVAPIDPusher(c) # Failed
        /\ InitObjectStore(c) # Failed /\ InitAuthComponents(c) # Failed
    BY <2>1 DEF ServerInv, Sound, Configured, Cfg
  <2>3. /\ InitMailer(c) \in {Failed, Loaded("real")}
        /\ InitVAPIDPusher(c) \in {Failed, Loaded("real")}
        /\ InitObjectStore(c) \in {Failed, Loaded("real")}
        /\ InitAuthComponents(c) \in {Failed, Loaded("real")}
    BY <2>1, SecureIsReal
  <2>4. "ephemeral" \notin ToSet(c.cookieKeys)
    BY <2>1, AcceptedKeys DEF KeysOf
  <2> HIDE DEF c, e
  <2> QED
    BY <2>1, <2>2, <2>3, <2>4 DEF e
<1> QED
  BY <1>1, ServerInvInit, ServerInvNext, PTL DEF ServerSpec

\* However many processes start and die at any moment, one that has looked at a
\* schema under its lock finds it as it was: no migration is applied twice.
THEOREM MigrationsStayApart == ServerSpec => []MigrationsNeverCollide
<1>1. ServerInv => MigrationsNeverCollide
  BY DEF ServerInv, Sound, Migrates, MigrationsNeverCollide, Migrating, Schemas
<1> QED
  BY <1>1, ServerInvInit, ServerInvNext, PTL DEF ServerSpec

\* For any budgets that add up to no more than the grace period, and whatever requests
\* and jobs are in flight, a process is gone in time.
THEOREM ShutdownsEndInTime == ServerSpec => []StopsInTime
<1>1. ServerInv => StopsInTime
  BY DEF ServerInv, Sound, Timely, StopsInTime
<1> QED
  BY <1>1, ServerInvInit, ServerInvNext, PTL DEF ServerSpec

\* Rollouts that rotate keys step by step leave no process that serves without the key
\* of a cookie that is still valid.
THEOREM CookiesStayReadable == ServerSpec => []CookiesAreRead
<1>1. ServerInv => CookiesAreRead
  BY DEF ServerInv, KeysShared, Current, Opens, Sound, Configured, CookiesAreRead, Cfg, KeysOf
<1> QED
  BY <1>1, ServerInvInit, ServerInvNext, PTL DEF ServerSpec

-----------------------------------------------------------------------------
(* The gateway: who is counted under which key.                                *)

LEMMA Appended ==
  ASSUME NEW S, NEW a \in Seq(S), NEW b \in Seq(S), b # <<>>, NEW P,
         \A i \in 2 .. Len(b) : b[i] \in P, NEW x, x = a \o b
  PROVE  /\ DOMAIN x \subseteq Int
         /\ Len(a) + 1 \in DOMAIN x /\ x[Len(a) + 1] = b[1]
         /\ \A j \in DOMAIN x : j > Len(a) + 1 => x[j] \in P
         /\ \A j \in DOMAIN x : j < Len(a) + 1 => j \in DOMAIN a /\ x[j] = a[j]
<1>1. PICK m, n : m = Len(a) /\ n = Len(b)
  OBVIOUS
<1>2. m \in Nat /\ n \in Nat /\ n >= 1 /\ DOMAIN a = 1 .. m
  BY <1>1
<1>3. /\ DOMAIN x = 1 .. m + n
      /\ \A j \in 1 .. m : x[j] = a[j]
      /\ \A j \in 1 .. m + n : j > m => x[j] = b[j - m]
  BY <1>1
<1>4. m + 1 \in 1 .. m + n /\ m + 1 > m /\ (m + 1) - m = 1
  BY <1>2
<1>5. ASSUME NEW j \in 1 .. m + n, j > m + 1
      PROVE  x[j] \in P
  <2>1. j > m /\ j - m \in 2 .. n
    BY <1>2, <1>5
  <2> QED
    BY <1>1, <1>3, <2>1
<1>6. \A j \in 1 .. m + n : j < m + 1 => j \in 1 .. m
  BY <1>2
<1> QED
  BY <1>1, <1>2, <1>3, <1>4, <1>5, <1>6

\* Hop k of line l is from; what is to the right of it is a trusted proxy's.
EndsAt(lines, l, k, from) ==
  /\ l \in DOMAIN lines /\ k \in DOMAIN lines[l] /\ lines[l][k] = from
  /\ \A i \in DOMAIN lines :
       /\ i \in Int /\ DOMAIN lines[i] \subseteq Int
       /\ \A j \in DOMAIN lines[i] :
            (i > l \/ (i = l /\ j > k)) => lines[i][j] \in Proxies

LEMMA NearestHop ==
  ASSUME NEW lines, NEW l, NEW k, NEW from \in Clients, EndsAt(lines, l, k, from), NEW peer
  PROVE  RealForwardedIP(lines, peer) = CanonicalizeIP(from)
<1> DEFINE addr(h) == lines[h[1]][h[2]]
           real == {h \in Hops(lines) : addr(h) \in Clients}
           right(h) == \A j \in real : j[1] < h[1] \/ (j[1] = h[1] /\ j[2] <= h[2])
<1>1. \A h \in Hops(lines) : /\ h = <<h[1], h[2]>> /\ h[1] \in DOMAIN lines
                             /\ h[2] \in DOMAIN lines[h[1]]
  BY DEF Hops
<1>2. \A h \in real : h[1] \in Int /\ h[2] \in Int
  BY <1>1 DEF EndsAt
<1>3. <<l, k>> \in real /\ l \in Int /\ k \in Int /\ addr(<<l, k>>) = from
  BY DEF Hops, EndsAt
<1>4. ASSUME NEW h \in real
      PROVE  h[1] < l \/ (h[1] = l /\ h[2] <= k)
  <2>1. ~(h[1] > l \/ (h[1] = l /\ h[2] > k))
    BY <1>1, GatewayAssumption DEF EndsAt
  <2> QED
    BY <1>2, <1>3, <2>1
<1>5. right(<<l, k>>)
  BY <1>4
<1>6. ASSUME NEW h \in real, right(h)
      PROVE  h = <<l, k>>
  <2>1. l < h[1] \/ (l = h[1] /\ k <= h[2])
    BY <1>3, <1>6
  <2>2. h[1] = l /\ h[2] = k
    BY <1>2, <1>3, <1>4, <2>1
  <2> QED
    BY <1>1, <2>2
<1>7. (CHOOSE h \in real : right(h)) = <<l, k>>
  BY <1>3, <1>5, <1>6
<1>8. Rightmost(lines, Hops(lines), peer) = CanonicalizeIP(addr(<<l, k>>))
  BY <1>3, <1>7 DEF Rightmost
<1> HIDE DEF addr
<1> QED
  BY <1>3, <1>8 DEF RealForwardedIP

\* The header ends with the address its sender was seen under, followed by proxies only.
LEMMA CountedWhereItCameFrom ==
  ASSUME NEW from \in Clients, NEW Texts, Clients \subseteq Texts, Proxies \subseteq Texts,
         NEW header \in Seq(Seq(Texts)), NEW chain \in Seq(Proxies), NEW joined \in BOOLEAN
  PROVE  TrustedProxyKeyFunc(Forwarded(header, from, chain, joined), Peer(from, chain))
           = CanonicalizeIP(from)
<1>1. CASE chain = <<>>
  BY <1>1, GatewayAssumption DEF TrustedProxyKeyFunc, IsTrustedPeer, Peer
<1>2. CASE chain # <<>>
  <2>1. PICK n, m : n = Len(header) /\ m = Len(chain)
    OBVIOUS
  <2>2. n \in Nat /\ m \in Nat /\ m >= 1 /\ DOMAIN header = 1 .. n /\ DOMAIN chain = 1 .. m
    BY <1>2, <2>1
  <2>3. IsTrustedPeer(Peer(from, chain))
    BY <1>2, <2>1, <2>2 DEF Peer, IsTrustedPeer, Last
  <2> DEFINE hops == [i \in DOMAIN chain |-> IF i = 1 THEN from ELSE chain[i - 1]]
             lines == Forwarded(header, from, chain, joined)
  <2>4. /\ hops \in Seq(Texts) /\ Len(hops) = m /\ hops[1] = from /\ hops # <<>>
        /\ DOMAIN hops = 1 .. m /\ \A i \in 2 .. m : hops[i] \in Proxies
    <3>1. \A i \in 1 .. m : chain[i] \in Proxies
      BY <2>2
    <3>2. \A i \in 1 .. m : hops[i] = IF i = 1 THEN from ELSE chain[i - 1]
      BY <2>2
    <3>3. \A i \in 2 .. m : hops[i] \in Proxies
      <4>1. TAKE i \in 2 .. m
      <4>2. i \in 1 .. m /\ i # 1 /\ i - 1 \in 1 .. m
        BY <2>2
      <4> HIDE DEF hops
      <4> QED
        BY <3>1, <3>2, <4>2
    <3>4. hops \in [1 .. m -> Texts]
      BY <2>2, <3>1
    <3>5. hops \in Seq(Texts) /\ Len(hops) = m
      BY <2>2, <3>4
    <3> HIDE DEF hops
    <3> QED
      BY <2>2, <3>2, <3>3, <3>4, <3>5
  <2>5. \E l, k : EndsAt(lines, l, k, from)
    <3>1. CASE joined /\ header # <<>>
      <4>1. PICK old, last : old = header[n] /\ last = old \o hops
        OBVIOUS
      <4>2. lines = [header EXCEPT ![n] = last]
        BY <2>1, <3>1, <4>1 DEF Forwarded
      <4> HIDE DEF hops, lines
      <4>3. n \in 1 .. n /\ old \in Seq(Texts) /\ \A i \in 1 .. n : header[i] \in Seq(Texts)
        BY <2>1, <2>2, <3>1, <4>1
      <4>4. /\ DOMAIN lines = 1 .. n /\ lines[n] = last
            /\ \A i \in 1 .. n : i # n => lines[i] = header[i]
        BY <2>2, <4>2, <4>3
      <4>5. /\ DOMAIN last \subseteq Int
            /\ Len(old) + 1 \in DOMAIN last /\ last[Len(old) + 1] = from
            /\ \A j \in DOMAIN last : j > Len(old) + 1 => last[j] \in Proxies
        BY <2>4, <4>1, <4>3, Appended
      <4>6. ASSUME NEW i \in 1 .. n
            PROVE  i \in Int /\ ~(i > n) /\ DOMAIN lines[i] \subseteq Int
        <5>1. i \in Int /\ ~(i > n)
          BY <2>2
        <5>2. \A s \in Seq(Texts) : DOMAIN s \subseteq Int
          OBVIOUS
        <5> QED
          BY <4>3, <4>4, <4>5, <5>1, <5>2
      <4>7. EndsAt(lines, n, Len(old) + 1, from)
        BY <4>3, <4>4, <4>5, <4>6 DEF EndsAt
      <4> QED
        BY <4>7
    <3>2. CASE joined /\ header = <<>>
      <4>1. lines = <<hops>>
        BY <3>2 DEF Forwarded
      <4> HIDE DEF hops, lines
      <4>2. DOMAIN lines = {1} /\ lines[1] = hops
        BY <4>1
      <4>3. 1 \in 1 .. m /\ 1 .. m \subseteq Int
        BY <2>2
      <4>4. \A j \in 1 .. m : j > 1 => hops[j] \in Proxies
        <5>1. \A j \in 1 .. m : j > 1 => j \in 2 .. m
          BY <2>2
        <5> QED
          BY <2>4, <5>1
      <4>5. EndsAt(lines, 1, 1, from)
        BY <2>4, <4>2, <4>3, <4>4 DEF EndsAt
      <4> QED
        BY <4>5
    <3>3. CASE ~joined
      <4> DEFINE own == [i \in DOMAIN hops |-> <<hops[i]>>]
                 Trusted == {<<p>> : p \in Proxies}
      <4>1. lines = header \o own
        BY <3>3 DEF Forwarded
      <4> HIDE DEF hops, lines
      <4>2. /\ own \in Seq(Seq(Texts)) /\ Len(own) = m /\ own # <<>> /\ own[1] = <<from>>
            /\ \A i \in 2 .. m : own[i] \in Trusted
        <5>1. \A i \in 1 .. m : own[i] = <<hops[i]>>
          BY <2>4
        <5>2. \A i \in 1 .. m : <<hops[i]>> \in Seq(Texts)
          BY <2>4
        <5>3. own \in [1 .. m -> Seq(Texts)]
          BY <2>4, <5>1, <5>2
        <5>4. own \in Seq(Seq(Texts)) /\ Len(own) = m
          BY <2>2, <5>3
        <5> HIDE DEF own
        <5>5. own # <<>> /\ 1 \in 1 .. m /\ \A i \in 2 .. m : i \in 1 .. m
          BY <2>2, <5>4
        <5> QED
          BY <2>4, <5>1, <5>4, <5>5
      <4> HIDE DEF own, Trusted
      <4>3. /\ DOMAIN lines \subseteq Int
            /\ n + 1 \in DOMAIN lines /\ lines[n + 1] = <<from>>
            /\ \A j \in DOMAIN lines : j > n + 1 => lines[j] \in Trusted
            /\ \A j \in DOMAIN lines : j < n + 1 => j \in DOMAIN header /\ lines[j] = header[j]
        <5>1. PICK x : x = lines
          OBVIOUS
        <5>2. x = header \o own
          BY <4>1, <5>1
        <5> QED
          BY <2>1, <4>2, <5>1, <5>2, Appended
      <4>4. DOMAIN <<from>> = {1} /\ <<from>>[1] = from
        OBVIOUS
      <4>5. \A s \in Trusted : DOMAIN s = {1} /\ s[1] \in Proxies
        BY DEF Trusted
      <4>6. ASSUME NEW i \in DOMAIN lines
            PROVE  i \in Int /\ (i < n + 1 \/ i = n + 1 \/ i > n + 1)
        BY <2>2, <4>3
      <4>7. ASSUME NEW i \in DOMAIN lines
            PROVE  DOMAIN lines[i] \subseteq Int
        <5>1. i < n + 1 => DOMAIN lines[i] = 1 .. Len(header[i])
          BY <4>3
        <5> QED
          BY <4>3, <4>4, <4>5, <4>6, <5>1
      <4>8. ASSUME NEW i \in DOMAIN lines, NEW j \in DOMAIN lines[i],
                   i > n + 1 \/ (i = n + 1 /\ j > 1)
            PROVE  lines[i][j] \in Proxies
        BY <2>2, <4>3, <4>4, <4>5, <4>8
      <4>9. EndsAt(lines, n + 1, 1, from)
        BY <4>3, <4>4, <4>6, <4>7, <4>8 DEF EndsAt
      <4> QED
        BY <4>9
    <3> QED
      BY <3>1, <3>2, <3>3
  <2> HIDE DEF lines
  <2>6. RealForwardedIP(lines, Peer(from, chain)) = CanonicalizeIP(from)
    BY <2>5, NearestHop
  <2> QED
    BY <2>3, <2>6 DEF TrustedProxyKeyFunc, lines
<1> QED
  BY <1>1, <1>2

LEMMA ProxyCountedAsItself ==
  ASSUME NEW from \in Proxies, NEW joined \in BOOLEAN
  PROVE  TrustedProxyKeyFunc(Forwarded(<<>>, from, <<>>, joined), Peer(from, <<>>))
           = CanonicalizeIP(from)
<1> DEFINE lines == Forwarded(<<>>, from, <<>>, joined)
<1>1. \A l \in DOMAIN lines : DOMAIN lines[l] = {}
  <2>1. joined => lines = <<<<>>>>
    BY DEF Forwarded
  <2>2. ~joined => DOMAIN lines = {}
    BY DEF Forwarded
  <2> HIDE DEF lines
  <2> QED
    BY <2>1, <2>2
<1> HIDE DEF lines
<1>2. Hops(lines) = {}
  BY <1>1 DEF Hops
<1>3. RealForwardedIP(lines, from) = CanonicalizeIP(from)
  BY <1>2 DEF RealForwardedIP, Rightmost
<1> QED
  BY <1>3 DEF TrustedProxyKeyFunc, IsTrustedPeer, Peer, lines

RequestFields == {"pc", "from", "key", "method", "path", "origin", "seen"}

GateTypeOK ==
  /\ DOMAIN reqs = Slots /\ \A s \in Slots : DOMAIN reqs[s] = RequestFields
  /\ member \in BOOLEAN /\ grants \in [Modules -> Levels]

\* A request is counted under the network it came from, and under no other.
Counted ==
  /\ hits \in [Limiters \X Keys -> Nat] /\ sent \in [Limiters \X Keys -> Nat]
  /\ passed = hits
  /\ \A s \in Slots : reqs[s].pc # "free" => reqs[s].from \in Keys /\ reqs[s].key = reqs[s].from
  /\ LimitPerClient

\* One limiter counting one request.
LEMMA CountKeeps ==
  ASSUME Counted, NEW l, NEW k \in Keys, Count(l, k, k)
  PROVE  /\ hits' \in [Limiters \X Keys -> Nat] /\ sent' \in [Limiters \X Keys -> Nat]
         /\ passed' = hits' /\ LimitPerClient'
<1> DEFINE x == <<l, k>>
<1>1. sent' = [sent EXCEPT ![x] = @ + 1]
  BY DEF Count
<1>2. \/ hits[x] < Limit /\ hits' = [hits EXCEPT ![x] = @ + 1] /\ passed' = hits'
      \/ ~(hits[x] < Limit) /\ hits' = hits /\ passed' = hits'
  BY DEF Count, Counted
<1> HIDE DEF x
<1>3. Limit \in Nat
  BY GatewayAssumption
<1>4. hits' \in [Limiters \X Keys -> Nat] /\ sent' \in [Limiters \X Keys -> Nat]
  <2>1. ASSUME NEW f \in [Limiters \X Keys -> Nat], NEW g, g = [f EXCEPT ![x] = @ + 1]
        PROVE  g \in [Limiters \X Keys -> Nat]
    <3>1. \A y \in Limiters \X Keys : g[y] \in Nat
      BY <2>1
    <3> QED
      BY <2>1, <3>1
  <2>2. sent' \in [Limiters \X Keys -> Nat]
    BY <1>1, <2>1 DEF Counted
  <2>3. CASE hits' = [hits EXCEPT ![x] = @ + 1]
    BY <2>1, <2>2, <2>3 DEF Counted
  <2> QED
    BY <1>2, <2>2, <2>3 DEF Counted
<1>5. ASSUME NEW y \in Limiters \X Keys
      PROVE  passed'[y] = IF sent'[y] < Limit THEN sent'[y] ELSE Limit
  <2>1. /\ hits[y] = IF sent[y] < Limit THEN sent[y] ELSE Limit
        /\ hits[y] \in Nat /\ sent[y] \in Nat
    BY DEF Counted, LimitPerClient
  <2>2. CASE y = x
    <3>1. sent'[y] = sent[y] + 1
      BY <1>1, <2>2 DEF Counted
    <3>2. passed'[y] = IF hits[y] < Limit THEN hits[y] + 1 ELSE hits[y]
      BY <1>2, <2>2 DEF Counted
    <3> QED
      BY <1>3, <2>1, <3>1, <3>2
  <2>3. CASE y # x
    <3>1. sent'[y] = sent[y] /\ passed'[y] = hits[y]
      BY <1>1, <1>2, <2>3 DEF Counted
    <3> QED
      BY <2>1, <3>1
  <2> QED
    BY <2>2, <2>3
<1> QED
  BY <1>2, <1>4, <1>5 DEF LimitPerClient

LEMMA WindowKeeps ==
  ASSUME Counted, NEW l \in Limiters, NextWindow(l)
  PROVE  Counted'
<1> DEFINE reset(f) == [k \in DOMAIN f |-> IF k[1] = l THEN 0 ELSE f[k]]
<1>1. hits' = reset(hits) /\ sent' = reset(sent) /\ passed' = reset(passed) /\ reqs' = reqs
  BY DEF NextWindow
<1>2. Limit \in Nat \ {0}
  BY GatewayAssumption
<1>3. hits' \in [Limiters \X Keys -> Nat] /\ sent' \in [Limiters \X Keys -> Nat]
        /\ passed' = hits'
  BY <1>1 DEF Counted
<1>4. ASSUME NEW y \in Limiters \X Keys
      PROVE  passed'[y] = IF sent'[y] < Limit THEN sent'[y] ELSE Limit
  <2>1. passed[y] = IF sent[y] < Limit THEN sent[y] ELSE Limit
    BY DEF Counted, LimitPerClient
  <2>2. /\ sent'[y] = IF y[1] = l THEN 0 ELSE sent[y]
        /\ passed'[y] = IF y[1] = l THEN 0 ELSE passed[y]
    BY <1>1 DEF Counted
  <2> QED
    BY <1>2, <2>1, <2>2
<1> QED
  BY <1>1, <1>3, <1>4 DEF Counted, LimitPerClient

LEMMA ArrivalCounts ==
  ASSUME GateTypeOK, Counted, NEW s \in Slots, NEW c \in Calls, RateLimit(s, c)
  PROVE  GateTypeOK' /\ Counted'
<1> DEFINE key == TrustedProxyKeyFunc(Forwarded(c.header, c.from, c.chain, c.joined),
                                      Peer(c.from, c.chain))
           q == [pc |-> IF Admits("global", key) THEN "screen" ELSE "refused",
                 from |-> CanonicalizeIP(c.from), key |-> key, method |-> c.method,
                 path |-> c.path, origin |-> c.origin,
                 seen |-> {Standing(c.method, c.path, signedIn, member, grants)}]
<1>1. /\ reqs' = [reqs EXCEPT ![s] = q] /\ Count("global", key, CanonicalizeIP(c.from))
      /\ UNCHANGED <<signedIn, member, grants>>
  BY DEF RateLimit
<1>2. DOMAIN q = RequestFields /\ q.from = CanonicalizeIP(c.from) /\ q.key = key
  BY DEF RequestFields
<1>3. key = CanonicalizeIP(c.from)
  <2>1. /\ c.from \in Clients \union Proxies /\ c.chain \in Seq(Proxies) /\ c.joined \in BOOLEAN
        /\ c.header \in Seq(Seq(Clients \union Proxies \union STRING))
        /\ c.from \in Proxies => c.chain = <<>> /\ c.header = <<>>
    BY DEF Calls
  <2>2. c.from \in Clients => key = CanonicalizeIP(c.from)
    <3>1. PICK Texts : Texts = Clients \union Proxies \union STRING
      OBVIOUS
    <3> QED
      BY <2>1, <3>1, CountedWhereItCameFrom
  <2>3. c.from \in Proxies => key = CanonicalizeIP(c.from)
    BY <2>1, ProxyCountedAsItself
  <2> QED
    BY <2>1, <2>2, <2>3
<1>4. CanonicalizeIP(c.from) \in Keys
  BY DEF Keys, Calls
<1> HIDE DEF key, q
<1>5. GateTypeOK'
  BY <1>1, <1>2 DEF GateTypeOK
<1>6. /\ hits' \in [Limiters \X Keys -> Nat] /\ sent' \in [Limiters \X Keys -> Nat]
      /\ passed' = hits' /\ LimitPerClient'
  BY <1>1, <1>3, <1>4, CountKeeps
<1>7. \A o \in Slots : reqs'[o].pc # "free" => reqs'[o].from \in Keys
                                              /\ reqs'[o].key = reqs'[o].from
  BY <1>1, <1>2, <1>3, <1>4 DEF GateTypeOK, Counted
<1> QED
  BY <1>5, <1>6, <1>7 DEF Counted

\* A step of a request that is already in.
LEMMA StepCounts ==
  ASSUME GateTypeOK, Counted, NEW s \in Slots, Steps(s)
  PROVE  GateTypeOK' /\ Counted'
<1> DEFINE r == reqs[s]
<1>1. UNCHANGED <<signedIn, member, grants>>
  BY DEF Steps, CORS, CSRFOriginCheck, Dispatch, PerIPRateLimit, AuthMiddleware,
    RequireMembership, RequirePermission, Handle
<1>2. DOMAIN r = RequestFields
  BY DEF GateTypeOK
<1>3. ASSUME r.pc # "free", NEW pc, To(s, pc)
      PROVE  /\ GateTypeOK'
             /\ \A o \in Slots : reqs'[o].pc # "free" => reqs'[o].from \in Keys
                                                        /\ reqs'[o].key = reqs'[o].from
  <2> DEFINE q == [r EXCEPT !.pc = pc]
  <2>1. reqs' = [reqs EXCEPT ![s] = q]
    BY <1>3 DEF To
  <2>2. DOMAIN q = RequestFields /\ q.from = r.from /\ q.key = r.key
    BY <1>2 DEF RequestFields
  <2> HIDE DEF q
  <2>3. GateTypeOK'
    BY <1>1, <2>1, <2>2 DEF GateTypeOK
  <2>4. \A o \in Slots : reqs'[o] = IF o = s THEN q ELSE reqs[o]
    BY <2>1 DEF GateTypeOK
  <2> QED
    BY <1>3, <2>2, <2>3, <2>4 DEF Counted
<1>4. CASE Handle(s)
  <2>1. reqs' = [reqs EXCEPT ![s] = NoRequest] /\ UNCHANGED <<hits, sent, passed>>
    BY <1>4 DEF Handle
  <2>2. DOMAIN NoRequest = RequestFields /\ NoRequest.pc = "free"
    BY DEF NoRequest, RequestFields
  <2>3. \A o \in Slots : reqs'[o] = IF o = s THEN NoRequest ELSE reqs[o]
    BY <2>1 DEF GateTypeOK
  <2>4. GateTypeOK'
    BY <1>1, <2>1, <2>2 DEF GateTypeOK
  <2> QED
    BY <2>1, <2>2, <2>3, <2>4 DEF Counted, LimitPerClient
<1>5. CASE PerIPRateLimit(s)
  <2>1. PICK l, pc : r.pc = "limiter" /\ To(s, pc) /\ Count(l, r.key, r.from)
    BY <1>5 DEF PerIPRateLimit
  <2>2. r.from \in Keys /\ r.key = r.from
    BY <2>1 DEF Counted
  <2>3. /\ hits' \in [Limiters \X Keys -> Nat] /\ sent' \in [Limiters \X Keys -> Nat]
        /\ passed' = hits' /\ LimitPerClient'
    BY <2>1, <2>2, CountKeeps
  <2> QED
    BY <1>3, <2>1, <2>3 DEF Counted
<1>6. CASE ~Handle(s) /\ ~PerIPRateLimit(s)
  <2>1. PICK pc : To(s, pc)
    BY <1>6 DEF Steps, CORS, CSRFOriginCheck, Dispatch, AuthMiddleware, RequireMembership,
      RequirePermission
  <2>2. r.pc # "free" /\ UNCHANGED <<hits, sent, passed>>
    BY <1>6 DEF Steps, CORS, CSRFOriginCheck, Dispatch, AuthMiddleware, RequireMembership,
      RequirePermission
  <2> QED
    BY <1>3, <2>1, <2>2 DEF Counted, LimitPerClient
<1> QED
  BY <1>4, <1>5, <1>6

LEMMA ElsewhereCounts ==
  ASSUME GateTypeOK, Counted, Elsewhere([Modules -> Levels])
  PROVE  GateTypeOK' /\ Counted'
<1>1. Noted /\ UNCHANGED <<hits, sent, passed>>
  BY DEF Elsewhere
<1>2. member' \in BOOLEAN /\ grants' \in [Modules -> Levels]
  BY DEF Elsewhere, SignOut, Leave, Join, SetRoles, GateTypeOK
<1>3. /\ DOMAIN reqs' = Slots
      /\ \A s \in Slots : /\ DOMAIN reqs'[s] = RequestFields /\ reqs'[s].pc = reqs[s].pc
                          /\ reqs'[s].from = reqs[s].from /\ reqs'[s].key = reqs[s].key
  <2>1. ASSUME NEW s \in Slots
        PROVE  /\ DOMAIN reqs'[s] = RequestFields /\ reqs'[s].pc = reqs[s].pc
               /\ reqs'[s].from = reqs[s].from /\ reqs'[s].key = reqs[s].key
    <3>1. DOMAIN reqs[s] = RequestFields
      BY DEF GateTypeOK
    <3>2. \E x : reqs'[s] = reqs[s] \/ reqs'[s] = [reqs[s] EXCEPT !.seen = x]
      BY <1>1 DEF Noted
    <3> QED
      BY <3>1, <3>2 DEF RequestFields
  <2> QED
    BY <1>1, <2>1 DEF Noted
<1> QED
  BY <1>1, <1>2, <1>3 DEF GateTypeOK, Counted, LimitPerClient

LEMMA GatewayInitCounts == GatewayInit => GateTypeOK /\ Counted
<1> SUFFICES ASSUME GatewayInit PROVE GateTypeOK /\ Counted
  OBVIOUS
<1>1. DOMAIN NoRequest = RequestFields /\ NoRequest.pc = "free"
  BY DEF NoRequest, RequestFields
<1>2. GateTypeOK
  BY <1>1 DEF GatewayInit, GateTypeOK
<1>3. /\ hits = [k \in Limiters \X Keys |-> 0] /\ sent = hits /\ passed = hits
      /\ \A s \in Slots : reqs[s].pc = "free"
  BY <1>1 DEF GatewayInit
<1>4. LimitPerClient
  BY <1>3, GatewayAssumption DEF LimitPerClient
<1> QED
  BY <1>2, <1>3, <1>4 DEF Counted

LEMMA GatewayNextCounts ==
  ASSUME GateTypeOK, Counted, [GatewayNext(Calls, [Modules -> Levels])]_gateVars
  PROVE  GateTypeOK' /\ Counted'
<1>1. CASE UNCHANGED gateVars
  BY <1>1 DEF gateVars, GateTypeOK, Counted, LimitPerClient
<1>2. ASSUME NEW l \in Limiters, NextWindow(l)
      PROVE  GateTypeOK' /\ Counted'
  BY <1>2, WindowKeeps DEF NextWindow, GateTypeOK
<1> QED
  BY <1>1, <1>2, StepCounts, ArrivalCounts, ElsewhereCounts DEF GatewayNext

\* For any number of clients, proxies and requests in flight, any limit, any hops that a
\* request claims to have come by and either way in which proxies append theirs: each
\* limiter lets every network through up to the limit and no further.
\* (middleware.PerIPRateLimit, trustedProxyKeyFunc, realForwardedIP.)
THEOREM ClientsLimitedApart == GatewaySpec => []LimitPerClient
<1>1. GateTypeOK /\ Counted /\ [GatewayNext(Calls, [Modules -> Levels])]_gateVars
        => (GateTypeOK /\ Counted)'
  BY GatewayNextCounts
<1>2. Counted => LimitPerClient
  BY DEF Counted
<1> QED
  BY <1>1, <1>2, GatewayInitCounts, PTL DEF GatewaySpec

-----------------------------------------------------------------------------
(* The gateway: the rule a request is judged by.                               *)

\* A template or a path, as far as its segments are counted.
IsPath(p) == Len(p) \in Nat /\ DOMAIN p = 1 .. Len(p)

\* The operations that are not a team's.
LEMMA OutsideTeams ==
  ASSUME NEW op \in AuthOps \union AccountOps \union PublicOps
  PROVE  /\ IsPath(op.path) /\ ~TeamScoped(op)
         /\ op.public \/ (~op.public /\ op.limiter = "")
<1>1. CASE op \in AuthOps
  <2>1. PICK m : op \in {Op(m, <<"auth", "logout">>, "", FALSE),
                         Op(m, <<"auth", "me">>, "", FALSE),
                         Op(m, <<"auth", "me", "photo">>, "", FALSE),
                         Op(m, <<"auth", "me", "data-export">>, "", FALSE)}
    BY <1>1 DEF AuthOps
  <2>2. ~op.public /\ op.limiter = ""
    <3>1. PICK p : op = Op(m, p, "", FALSE)
      BY <2>1
    <3> QED
      BY <3>1 DEF Op
  <2>3. CASE op = Op(m, <<"auth", "logout">>, "", FALSE)
    <3>1. op.path = <<"auth", "logout">>
      BY <2>3 DEF Op
    <3>2. IsPath(op.path) /\ ~TeamScoped(op)
      BY <3>1 DEF IsPath, TeamScoped
    <3> QED
      BY <2>2, <3>2
  <2>4. CASE op = Op(m, <<"auth", "me">>, "", FALSE)
    <3>1. op.path = <<"auth", "me">>
      BY <2>4 DEF Op
    <3>2. IsPath(op.path) /\ ~TeamScoped(op)
      BY <3>1 DEF IsPath, TeamScoped
    <3> QED
      BY <2>2, <3>2
  <2>5. CASE op = Op(m, <<"auth", "me", "photo">>, "", FALSE)
    <3>1. op.path = <<"auth", "me", "photo">>
      BY <2>5 DEF Op
    <3>2. IsPath(op.path) /\ ~TeamScoped(op)
      BY <3>1 DEF IsPath, TeamScoped
    <3> QED
      BY <2>2, <3>2
  <2>6. CASE op = Op(m, <<"auth", "me", "data-export">>, "", FALSE)
    <3>1. op.path = <<"auth", "me", "data-export">>
      BY <2>6 DEF Op
    <3>2. IsPath(op.path) /\ ~TeamScoped(op)
      BY <3>1 DEF IsPath, TeamScoped
    <3> QED
      BY <2>2, <3>2
  <2> QED
    BY <2>1, <2>3, <2>4, <2>5, <2>6
<1>2. CASE op \in AccountOps
  <2>1. PICK m : op \in {Op(m, <<"teams">>, "", FALSE),
                         Op(m, <<"invites", "*", "accept">>, "", FALSE),
                         Op(m, <<"users", "me", "push-subscriptions">>, "", FALSE)}
    BY <1>2 DEF AccountOps
  <2>2. ~op.public /\ op.limiter = ""
    <3>1. PICK p : op = Op(m, p, "", FALSE)
      BY <2>1
    <3> QED
      BY <3>1 DEF Op
  <2>3. CASE op = Op(m, <<"teams">>, "", FALSE)
    <3>1. op.path = <<"teams">>
      BY <2>3 DEF Op
    <3>2. IsPath(op.path) /\ ~TeamScoped(op)
      BY <3>1 DEF IsPath, TeamScoped
    <3> QED
      BY <2>2, <3>2
  <2>4. CASE op = Op(m, <<"invites", "*", "accept">>, "", FALSE)
    <3>1. op.path = <<"invites", "*", "accept">>
      BY <2>4 DEF Op
    <3>2. IsPath(op.path) /\ ~TeamScoped(op)
      BY <3>1 DEF IsPath, TeamScoped
    <3> QED
      BY <2>2, <3>2
  <2>5. CASE op = Op(m, <<"users", "me", "push-subscriptions">>, "", FALSE)
    <3>1. op.path = <<"users", "me", "push-subscriptions">>
      BY <2>5 DEF Op
    <3>2. IsPath(op.path) /\ ~TeamScoped(op)
      BY <3>1 DEF IsPath, TeamScoped
    <3> QED
      BY <2>2, <3>2
  <2> QED
    BY <2>1, <2>3, <2>4, <2>5
<1>3. CASE op \in PublicOps
  <2>1. PICK m, l : op \in {Op(m, <<"auth", "login">>, l, TRUE),
      Op(m, <<"auth", "providers">>, l, TRUE), Op(m, <<"auth", "oidc", "start">>, l, TRUE),
      Op(m, <<"auth", "oidc", "callback">>, l, TRUE), Op(m, <<"auth", "register">>, l, TRUE),
      Op(m, <<"auth", "verify-email">>, l, TRUE),
      Op(m, <<"auth", "resend-verification">>, l, TRUE),
      Op(m, <<"auth", "forgot-password">>, l, TRUE),
      Op(m, <<"auth", "reset-password">>, l, TRUE),
      Op(m, <<"calendar-feed", "*.ics">>, l, TRUE)}
    BY <1>3 DEF PublicOps
  <2>2. CASE \E x \in {"login", "providers", "register", "verify-email",
               "resend-verification", "forgot-password", "reset-password"} :
               op = Op(m, <<"auth", x>>, l, TRUE)
    BY <2>2 DEF Op, IsPath, TeamScoped
  <2>3. CASE \E x \in {"start", "callback"} : op = Op(m, <<"auth", "oidc", x>>, l, TRUE)
    BY <2>3 DEF Op, IsPath, TeamScoped
  <2>4. CASE op = Op(m, <<"calendar-feed", "*.ics">>, l, TRUE)
    BY <2>4 DEF Op, IsPath, TeamScoped
  <2> QED
    BY <2>1, <2>2, <2>3, <2>4
<1> QED
  BY <1>1, <1>2, <1>3

\* A path of the table behind the two segments of its team.
LEMMA BehindTeam ==
  ASSUME NEW S, NEW t \in Seq(S), NEW p, p = <<"teams", "*">>, NEW x, x = p \o t
  PROVE  /\ IsPath(x) /\ Len(x) = Len(t) + 2
         /\ \A i \in 1 .. Len(t) : x[i + 2] = t[i]
<1>1. PICK A : A = S \union {"teams", "*"}
  OBVIOUS
<1>2. p \in Seq(A) /\ t \in Seq(A) /\ Len(p) = 2
  BY <1>1
<1>3. Len(x) = Len(t) + 2 /\ Len(t) \in Nat /\ DOMAIN x = 1 .. Len(x)
  BY <1>2
<1>4. ASSUME NEW i \in 1 .. Len(t) PROVE x[i + 2] = t[i]
  <2>1. i + 2 \in 1 .. (Len(p) + Len(t)) /\ i + 2 > Len(p) /\ (i + 2) - Len(p) = i
    BY <1>2, <1>3
  <2> QED
    BY <1>2, <2>1
<1> QED
  BY <1>3, <1>4 DEF IsPath

LEMMA TablePaths ==
  ASSUME NEW row \in RbacRoutes
  PROVE  /\ row.path \in Seq(STRING) /\ IsPath(TeamPath(row))
         /\ Len(TeamPath(row)) = Len(row.path) + 2
         /\ \A i \in 1 .. Len(row.path) : TeamPath(row)[i + 2] = row.path[i]
<1>1. PICK t : t = row.path
  OBVIOUS
<1>2. t \in Seq(STRING)
  <2>1. row \in [method : STRING, path : Seq(STRING),
                module : Modules \union {"public"}, self : BOOLEAN]
    BY RoutesAssumption
  <2> QED
    BY <1>1, <2>1
<1>3. PICK p, x : p = <<"teams", "*">> /\ x = p \o t
  OBVIOUS
<1>4. x = TeamPath(row)
  BY <1>1, <1>3 DEF TeamPath
<1>5. IsPath(x) /\ Len(x) = Len(t) + 2 /\ \A i \in 1 .. Len(t) : x[i + 2] = t[i]
  BY <1>2, <1>3, BehindTeam
<1> QED
  BY <1>1, <1>2, <1>4, <1>5

\* What has a limiter of its own is public and no team's; the operations of a team are
\* those of the table, and not public.
LEMMA MuxOps ==
  ASSUME NEW op \in Mux
  PROVE  /\ IsPath(op.path)
         /\ (op.public \/ op.limiter # "") => (op.public /\ ~TeamScoped(op))
         /\ TeamScoped(op) => \E row \in RbacRoutes :
                                op.method = row.method /\ op.path = TeamPath(row)
<1>1. CASE op \in AuthOps \union AccountOps \union PublicOps
  BY <1>1, OutsideTeams
<1>2. ASSUME NEW row \in RbacRoutes, op = Op(row.method, TeamPath(row), "", FALSE)
      PROVE  /\ op.method = row.method /\ op.path = TeamPath(row) /\ IsPath(op.path)
             /\ ~op.public /\ op.limiter = ""
  BY <1>2, TablePaths DEF Op
<1> QED
  BY <1>1, <1>2 DEF Mux

LEMMA RoutedOnce ==
  ASSUME NEW method, NEW path \in Seq(STRING), NEW o \in Routed(method, path),
         NEW p \in Routed(method, path)
  PROVE  o = p
<1> SUFFICES ASSUME o # p PROVE FALSE
  OBVIOUS
<1>1. /\ o \in Mux /\ p \in Mux /\ Fits(o.path, path) /\ Fits(p.path, path)
      /\ Prefers(o.path, p.path) /\ Prefers(p.path, o.path)
  BY DEF Routed
<1>2. PICK a, b : a = o.path /\ b = p.path
  OBVIOUS
<1>3. IsPath(a) /\ IsPath(b) /\ Len(a) = Len(path) /\ Len(b) = Len(path)
  BY <1>1, <1>2, MuxOps DEF Fits
<1>4. PICK i \in DOMAIN a : a[i] # b[i] /\ ~Param(a[i]) /\ \A j \in 1 .. i - 1 : a[j] = b[j]
  BY <1>1, <1>2 DEF Prefers
<1>5. PICK k \in DOMAIN b : b[k] # a[k] /\ ~Param(b[k]) /\ \A j \in 1 .. k - 1 : b[j] = a[j]
  BY <1>1, <1>2 DEF Prefers
<1>6. i \in 1 .. Len(path) /\ k \in 1 .. Len(path) /\ DOMAIN path = 1 .. Len(path)
  BY <1>3, <1>4, <1>5 DEF IsPath
<1>7. i = k
  <2>1. Len(path) \in Nat
    OBVIOUS
  <2>2. ~(i \in 1 .. k - 1) /\ ~(k \in 1 .. i - 1)
    BY <1>4, <1>5
  <2> QED
    BY <1>6, <2>1, <2>2
<1>8. a[i] = path[i] /\ b[i] = path[i]
  BY <1>1, <1>2, <1>4, <1>5, <1>6, <1>7 DEF Fits
<1> QED
  BY <1>4, <1>8

LEMMA StandingIs ==
  ASSUME NEW method, NEW path \in Seq(STRING), NEW op \in Routed(method, path),
         NEW live, NEW in, NEW levels
  PROVE  /\ "session" \in Standing(method, path, live, in, levels)
              <=> (live \/ op.public)
         /\ "team" \in Standing(method, path, live, in, levels)
              <=> (TeamScoped(op) => Entitled(op, in, levels))
<1>1. \A o \in Routed(method, path) : o = op
  BY RoutedOnce
<1>2. (\E o \in Routed(method, path) : o.public) <=> op.public
  BY <1>1
<1>3. (\A o \in Routed(method, path) : TeamScoped(o) => Entitled(o, in, levels))
        <=> (TeamScoped(op) => Entitled(op, in, levels))
  BY <1>1
<1> QED
  BY <1>2, <1>3 DEF Standing

LEMMA RuleFits ==
  ASSUME NEW row \in RbacRoutes, NEW path \in Seq(STRING), Fits(TeamPath(row), path)
  PROVE  SegmentsMatch(row.path, SubPathAfterTeam(path))
<1>1. PICK t, n : t = row.path /\ n = Len(t)
  OBVIOUS
<1>2. t \in Seq(STRING) /\ n \in Nat /\ DOMAIN t = 1 .. n
  BY <1>1, TablePaths
<1>3. PICK x : x = TeamPath(row)
  OBVIOUS
<1>4. Len(x) = n + 2 /\ \A i \in 1 .. n : x[i + 2] = t[i]
  BY <1>1, <1>3, TablePaths
<1>5. Len(path) = n + 2 /\ \A i \in 1 .. n + 2 : Param(x[i]) \/ x[i] = path[i]
  <2>1. Fits(x, path)
    BY <1>3
  <2>2. Len(path) = n + 2 /\ DOMAIN path = 1 .. Len(path)
    BY <1>4, <2>1 DEF Fits
  <2> QED
    BY <2>1, <2>2 DEF Fits
<1>6. PICK y : y = SubPathAfterTeam(path)
  OBVIOUS
<1>7. Len(y) = n /\ \A i \in 1 .. n : y[i] = path[i + 2]
  <2>1. y = SubSeq(path, 3, n + 2)
    BY <1>5, <1>6 DEF SubPathAfterTeam
  <2> QED
    BY <1>2, <1>5, <2>1
<1>8. \A i \in 1 .. n : Param(t[i]) \/ t[i] = y[i]
  <2>1. TAKE i \in 1 .. n
  <2>2. i + 2 \in 1 .. n + 2
    BY <1>2
  <2> QED
    BY <1>4, <1>5, <1>7, <2>2
<1> QED
  BY <1>1, <1>2, <1>6, <1>7, <1>8 DEF SegmentsMatch

\* What a row of the table asks for.
Asks(rule, method, levels) ==
  \/ rule.module = "public"
  \/ levels[rule.module] = "write"
  \/ levels[rule.module] = "read" /\ (rule.self \/ method = "GET")

\* Every row the lookup may find says what the row of the routed operation says.
LEMMA OwnRule ==
  ASSUME NEW method, NEW path \in Seq(STRING), NEW op \in Routed(method, path),
         TeamScoped(op), NEW in, NEW levels
  PROVE  /\ MatchRBACRoute(method, SubPathAfterTeam(path)) # {}
         /\ \A row \in MatchRBACRoute(method, SubPathAfterTeam(path)) :
              /\ row.module \in Modules \union {"public"}
              /\ Entitled(op, in, levels) <=> (in /\ Asks(row, method, levels))
<1> DEFINE sub == SubPathAfterTeam(path)
           M == MatchRBACRoute(method, sub)
<1>1. op \in Mux /\ op.method = method /\ Fits(op.path, path)
  BY DEF Routed
<1>2. PICK rule \in RbacRoutes : op.method = rule.method /\ op.path = TeamPath(rule)
  BY <1>1, MuxOps
<1>3. \A row \in RbacRoutes : row.method = method /\ TeamPath(row) = op.path => row \in M
  BY <1>1, RuleFits DEF MatchRBACRoute
<1>4. ASSUME NEW a \in M, NEW b \in M
      PROVE  a.module = b.module /\ a.self = b.self /\ a.module \in Modules \union {"public"}
  <2>1. /\ a \in RbacRoutes /\ b \in RbacRoutes /\ a.method = b.method
        /\ SegmentsMatch(a.path, sub) /\ SegmentsMatch(b.path, sub)
    BY DEF MatchRBACRoute
  <2>2. a.path \in Seq(STRING) /\ b.path \in Seq(STRING)
    BY <2>1, RoutesAssumption
  <2>3. Overlap(a.path, b.path)
    <3>1. Len(a.path) = Len(b.path) /\ DOMAIN a.path = DOMAIN b.path
      BY <2>1, <2>2 DEF SegmentsMatch
    <3> HIDE DEF sub
    <3> QED
      BY <2>1, <3>1 DEF SegmentsMatch, Overlap
  <2> QED
    BY <2>1, <2>3, RoutesAssumption
<1> HIDE DEF M, sub
<1>5. rule \in M
  BY <1>1, <1>2, <1>3
<1>6. ASSUME NEW row \in M
      PROVE  Entitled(op, in, levels) <=> (in /\ Asks(row, method, levels))
  <2>1. \A x \in RbacRoutes : x.method = op.method /\ TeamPath(x) = op.path =>
          x.module = row.module /\ x.self = row.self
    BY <1>1, <1>3, <1>4
  <2>2. row.module = rule.module /\ row.self = rule.self
    BY <1>4, <1>5
  <2> QED
    BY <1>1, <1>2, <2>1, <2>2 DEF Entitled, Asks
<1> QED
  BY <1>4, <1>5, <1>6 DEF M, sub

\* What a request has met so far, of all its operation asks for.
Met(r) == UNION r.seen
All == {"session", "team"}

\* A request at its step: its caller's standing of now is among those it has met, what
\* the steps behind it have checked it has met, and what denies it it lacked at least once.
JudgedSoFar(r, standing) ==
  /\ r.pc \in {"screen", "limiter", "session", "membership", "permission"}
       => standing \in r.seen /\ r.path \in Seq(STRING)
  /\ r.pc \in {"limiter", "served"} => All \subseteq Met(r)
  /\ r.pc \in {"session", "membership", "permission"} =>
       \E op \in Routed(r.method, r.path) :
         ~op.public /\ (r.pc # "session" => TeamScoped(op) /\ "session" \in Met(r))
  /\ r.pc = "permission" =>
       \A rule \in MatchRBACRoute(r.method, SubPathAfterTeam(r.path)) :
         rule.module = "public" => "team" \in Met(r)
  /\ r.pc = "denied" => {All} # r.seen

NowOf(r) == Standing(r.method, r.path, signedIn, member, grants)

JudgedInv == GateTypeOK /\ \A s \in Slots : JudgedSoFar(reqs[s], NowOf(reqs[s]))

LEMMA JudgedMoves ==
  ASSUME JudgedInv, NEW s \in Slots, NEW q, reqs' = [reqs EXCEPT ![s] = q],
         UNCHANGED <<signedIn, member, grants>>, DOMAIN q = RequestFields,
         JudgedSoFar(q, NowOf(q))
  PROVE  JudgedInv'
<1>1. GateTypeOK'
  BY DEF JudgedInv, GateTypeOK
<1>2. \A o \in Slots : reqs'[o] = IF o = s THEN q ELSE reqs[o]
  BY DEF JudgedInv, GateTypeOK
<1>3. ASSUME NEW o \in Slots
      PROVE  JudgedSoFar(reqs'[o], NowOf(reqs[o])')
  <2>1. PICK x : x = reqs'[o]
    OBVIOUS
  <2>2. JudgedSoFar(x, NowOf(x))
    BY <1>2, <2>1 DEF JudgedInv
  <2>3. NowOf(reqs[o])' = NowOf(x)
    BY <2>1 DEF NowOf
  <2> QED
    BY <2>1, <2>2, <2>3
<1> QED
  BY <1>1, <1>3 DEF JudgedInv

\* The next step of a request is another place of the same request.
LEMMA JudgedTo ==
  ASSUME JudgedInv, NEW s \in Slots, NEW r, r = reqs[s], NEW pc, To(s, pc),
         UNCHANGED <<signedIn, member, grants>>,
         pc \in {"screen", "limiter", "session", "membership", "permission"}
           => NowOf(r) \in r.seen /\ r.path \in Seq(STRING),
         pc \in {"limiter", "served"} => All \subseteq Met(r),
         pc \in {"session", "membership", "permission"} =>
           \E op \in Routed(r.method, r.path) :
             ~op.public /\ (pc # "session" => TeamScoped(op) /\ "session" \in Met(r)),
         pc = "permission" =>
           \A rule \in MatchRBACRoute(r.method, SubPathAfterTeam(r.path)) :
             rule.module = "public" => "team" \in Met(r),
         pc = "denied" => {All} # r.seen
  PROVE  JudgedInv'
<1> DEFINE q == [r EXCEPT !.pc = pc]
<1>1. DOMAIN r = RequestFields
  BY DEF JudgedInv, GateTypeOK
<1>2. reqs' = [reqs EXCEPT ![s] = q]
  BY DEF To
<1>3. /\ DOMAIN q = RequestFields /\ q.pc = pc /\ q.method = r.method /\ q.path = r.path
      /\ q.seen = r.seen
  BY <1>1 DEF RequestFields
<1> HIDE DEF q
<1>4. NowOf(q) = NowOf(r) /\ Met(q) = Met(r)
  BY <1>3 DEF NowOf, Met
<1>5. JudgedSoFar(q, NowOf(q))
  BY <1>3, <1>4 DEF JudgedSoFar
<1> QED
  BY <1>2, <1>3, <1>5, JudgedMoves

\* What a request lacks or has at this instant, where it still stands before a check.
LEMMA AtItsStep ==
  ASSUME JudgedInv, NEW s \in Slots, NEW r, r = reqs[s],
         r.pc \in {"screen", "limiter", "session", "membership", "permission"}
  PROVE  /\ NowOf(r) \in r.seen /\ r.path \in Seq(STRING)
         /\ All \subseteq NowOf(r) => All \subseteq Met(r)
         /\ "session" \in NowOf(r) => "session" \in Met(r)
         /\ "team" \in NowOf(r) => "team" \in Met(r)
         /\ ~(All \subseteq NowOf(r)) => {All} # r.seen
<1>1. NowOf(r) \in r.seen /\ r.path \in Seq(STRING)
  BY DEF JudgedInv, JudgedSoFar
<1> QED
  BY <1>1 DEF Met

LEMMA NowIs ==
  ASSUME NEW r, r.path \in Seq(STRING), NEW op \in Routed(r.method, r.path)
  PROVE  /\ op \in Mux
         /\ "session" \in NowOf(r) <=> (signedIn \/ op.public)
         /\ "team" \in NowOf(r) <=> (TeamScoped(op) => Entitled(op, member, grants))
<1>1. op \in Mux
  BY DEF Routed
<1>2. PICK m, p : m = r.method /\ p = r.path
  OBVIOUS
<1>3. p \in Seq(STRING) /\ op \in Routed(m, p)
  BY <1>2
<1>4. NowOf(r) = Standing(m, p, signedIn, member, grants)
  BY <1>2 DEF NowOf
<1> QED
  BY <1>1, <1>3, <1>4, StandingIs

LEMMA DispatchJudged ==
  ASSUME JudgedInv, NEW s \in Slots, Dispatch(s)
  PROVE  JudgedInv'
<1>1. PICK r, ops : r = reqs[s] /\ ops = Routed(r.method, r.path)
  OBVIOUS
<1>2. r.pc = "screen" /\ UNCHANGED <<signedIn, member, grants>>
  BY <1>1 DEF Dispatch
<1>3. PICK pc : /\ To(s, pc)
                /\ pc = IF ops = {} THEN "refused"
                        ELSE IF \E op \in ops : op.limiter # "" THEN "limiter"
                        ELSE IF \E op \in ops : op.public THEN "served" ELSE "session"
  BY <1>1 DEF Dispatch
<1>4. NowOf(r) \in r.seen /\ r.path \in Seq(STRING)
  BY <1>1, <1>2, AtItsStep
<1>5. ASSUME NEW op \in ops, op.public \/ op.limiter # ""
      PROVE  All \subseteq Met(r)
  <2>1. /\ op \in Mux
        /\ "session" \in NowOf(r) <=> (signedIn \/ op.public)
        /\ "team" \in NowOf(r) <=> (TeamScoped(op) => Entitled(op, member, grants))
    BY <1>1, <1>4, NowIs
  <2>2. op.public /\ ~TeamScoped(op)
    BY <1>5, <2>1, MuxOps
  <2> QED
    BY <1>1, <1>2, <2>1, <2>2, AtItsStep DEF All
<1>6. CASE pc = "refused"
  BY <1>1, <1>2, <1>3, <1>6, JudgedTo
<1>7. CASE pc \in {"limiter", "served"}
  <2>1. All \subseteq Met(r)
    BY <1>3, <1>5, <1>7
  <2> QED
    BY <1>1, <1>2, <1>3, <1>4, <1>7, <2>1, JudgedTo
<1>8. CASE pc = "session"
  <2>1. \E op \in Routed(r.method, r.path) : ~op.public
    BY <1>1, <1>3, <1>8
  <2> QED
    BY <1>1, <1>2, <1>3, <1>4, <1>8, <2>1, JudgedTo
<1> QED
  BY <1>3, <1>6, <1>7, <1>8

LEMMA LimiterJudged ==
  ASSUME JudgedInv, NEW s \in Slots, PerIPRateLimit(s)
  PROVE  JudgedInv'
<1>1. PICK r : r = reqs[s]
  OBVIOUS
<1>2. r.pc = "limiter" /\ UNCHANGED <<signedIn, member, grants>>
  BY <1>1 DEF PerIPRateLimit
<1>3. PICK pc : To(s, pc) /\ pc \in {"served", "refused"}
  BY DEF PerIPRateLimit
<1>4. All \subseteq Met(r)
  BY <1>1, <1>2 DEF JudgedInv, JudgedSoFar
<1> QED
  BY <1>1, <1>2, <1>3, <1>4, JudgedTo

LEMMA AuthJudged ==
  ASSUME JudgedInv, NEW s \in Slots, AuthMiddleware(s)
  PROVE  JudgedInv'
<1>1. PICK r, op : r = reqs[s] /\ op = CHOOSE o \in Routed(r.method, r.path) : TRUE
  OBVIOUS
<1>2. r.pc = "session" /\ UNCHANGED <<signedIn, member, grants>>
  BY <1>1 DEF AuthMiddleware
<1>3. PICK pc : /\ To(s, pc)
                /\ pc = IF ~signedIn THEN "denied"
                        ELSE IF TeamScoped(op) THEN "membership" ELSE "served"
  BY <1>1 DEF AuthMiddleware
<1>4. NowOf(r) \in r.seen /\ r.path \in Seq(STRING)
  BY <1>1, <1>2, AtItsStep
<1>5. op \in Routed(r.method, r.path) /\ ~op.public
  <2>1. PICK o \in Routed(r.method, r.path) : ~o.public
    BY <1>1, <1>2 DEF JudgedInv, JudgedSoFar
  <2>2. op \in Routed(r.method, r.path)
    BY <1>1, <2>1
  <2>3. PICK m, p : m = r.method /\ p = r.path
    OBVIOUS
  <2>4. o = op
    BY <1>4, <2>1, <2>2, <2>3, RoutedOnce
  <2> QED
    BY <2>1, <2>2, <2>4
<1>6. /\ "session" \in NowOf(r) <=> (signedIn \/ op.public)
      /\ "team" \in NowOf(r) <=> (TeamScoped(op) => Entitled(op, member, grants))
  BY <1>4, <1>5, NowIs
<1>7. CASE pc = "denied"
  <2>1. {All} # r.seen
    <3>1. ~signedIn
      BY <1>3, <1>7
    <3> QED
      BY <1>1, <1>2, <1>5, <1>6, <3>1, AtItsStep DEF All
  <2> QED
    BY <1>1, <1>2, <1>3, <1>7, <2>1, JudgedTo
<1>8. CASE pc = "membership"
  <2>1. TeamScoped(op) /\ "session" \in Met(r)
    BY <1>1, <1>2, <1>3, <1>6, <1>8, AtItsStep
  <2> QED
    BY <1>1, <1>2, <1>3, <1>4, <1>5, <1>8, <2>1, JudgedTo
<1>9. CASE pc = "served"
  <2>1. All \subseteq Met(r)
    BY <1>1, <1>2, <1>3, <1>6, <1>9, AtItsStep DEF All
  <2> QED
    BY <1>1, <1>2, <1>3, <1>9, <2>1, JudgedTo
<1> QED
  BY <1>3, <1>7, <1>8, <1>9

\* The operation of a request that a membership or a permission is asked for.
LEMMA TeamsOwn ==
  ASSUME JudgedInv, NEW s \in Slots, NEW r, r = reqs[s], r.pc \in {"membership", "permission"}
  PROVE  \E op \in Routed(r.method, r.path) :
           /\ ~op.public /\ TeamScoped(op) /\ "session" \in Met(r)
           /\ "team" \in NowOf(r) <=> Entitled(op, member, grants)
<1>1. PICK op \in Routed(r.method, r.path) :
        ~op.public /\ TeamScoped(op) /\ "session" \in Met(r)
  BY DEF JudgedInv, JudgedSoFar
<1>2. r.path \in Seq(STRING)
  BY AtItsStep
<1> QED
  BY <1>1, <1>2, NowIs

LEMMA MembershipJudged ==
  ASSUME JudgedInv, NEW s \in Slots, RequireMembership(s)
  PROVE  JudgedInv'
<1>1. PICK r : r = reqs[s]
  OBVIOUS
<1>2. r.pc = "membership" /\ UNCHANGED <<signedIn, member, grants>>
  BY <1>1 DEF RequireMembership
<1>3. PICK pc : /\ To(s, pc) /\ pc \in {"refused", "permission", "denied"}
                /\ pc = "permission" => member
                /\ pc = "denied" => ~member
  BY DEF RequireMembership
<1>4. NowOf(r) \in r.seen /\ r.path \in Seq(STRING)
  BY <1>1, <1>2, AtItsStep
<1>5. PICK op \in Routed(r.method, r.path) :
        /\ ~op.public /\ TeamScoped(op) /\ "session" \in Met(r)
        /\ "team" \in NowOf(r) <=> Entitled(op, member, grants)
  BY <1>1, <1>2, TeamsOwn
<1>6. CASE pc = "refused"
  BY <1>1, <1>2, <1>3, <1>6, JudgedTo
<1>7. CASE pc = "denied"
  <2>1. ~Entitled(op, member, grants)
    BY <1>3, <1>7 DEF Entitled
  <2>2. {All} # r.seen
    BY <1>1, <1>2, <1>5, <2>1, AtItsStep DEF All
  <2> QED
    BY <1>1, <1>2, <1>3, <1>7, <2>2, JudgedTo
<1>8. CASE pc = "permission"
  <2>1. ASSUME NEW rule \in MatchRBACRoute(r.method, SubPathAfterTeam(r.path)),
               rule.module = "public"
        PROVE  "team" \in Met(r)
    <3>1. PICK m, p : m = r.method /\ p = r.path
      OBVIOUS
    <3>2. Entitled(op, member, grants) <=> (member /\ Asks(rule, m, grants))
      BY <1>4, <1>5, <2>1, <3>1, OwnRule
    <3>3. Entitled(op, member, grants)
      BY <1>3, <1>8, <2>1, <3>2 DEF Asks
    <3> QED
      BY <1>1, <1>2, <1>5, <3>3, AtItsStep
  <2> QED
    BY <1>1, <1>2, <1>3, <1>4, <1>5, <1>8, <2>1, JudgedTo
<1> QED
  BY <1>3, <1>6, <1>7, <1>8

LEMMA LevelAsked ==
  ASSUME NEW rule, NEW method, NEW levels, rule.module # "public"
  PROVE  HasRequiredPermission(levels, rule, method) <=> Asks(rule, method, levels)
<1>1. CASE rule.self \/ method = "GET"
  BY <1>1 DEF HasRequiredPermission, HasAnyPermission, HasWritePermission, Asks
<1>2. CASE ~(rule.self \/ method = "GET")
  BY <1>2 DEF HasRequiredPermission, HasAnyPermission, HasWritePermission, Asks
<1> QED
  BY <1>1, <1>2

LEMMA PermissionJudged ==
  ASSUME JudgedInv, NEW s \in Slots, RequirePermission(s)
  PROVE  JudgedInv'
<1>1. PICK r, rows : r = reqs[s] /\ rows = MatchRBACRoute(r.method, SubPathAfterTeam(r.path))
  OBVIOUS
<1>2. r.pc = "permission" /\ UNCHANGED <<signedIn, member, grants>>
  BY <1>1 DEF RequirePermission
<1>3. NowOf(r) \in r.seen /\ r.path \in Seq(STRING)
  BY <1>1, <1>2, AtItsStep
<1>4. PICK op \in Routed(r.method, r.path) :
        /\ ~op.public /\ TeamScoped(op) /\ "session" \in Met(r)
        /\ "team" \in NowOf(r) <=> Entitled(op, member, grants)
  BY <1>1, <1>2, TeamsOwn
<1>5. /\ rows # {}
      /\ \A x \in rows : /\ x.module \in Modules \union {"public"}
                         /\ Entitled(op, member, grants)
                              <=> (member /\ Asks(x, r.method, grants))
  <2>1. PICK m, p : m = r.method /\ p = r.path
    OBVIOUS
  <2>2. rows = MatchRBACRoute(m, SubPathAfterTeam(p)) /\ p \in Seq(STRING)
        /\ op \in Routed(m, p)
    BY <1>1, <1>3, <2>1
  <2>3. /\ rows # {}
        /\ \A x \in rows : /\ x.module \in Modules \union {"public"}
                           /\ Entitled(op, member, grants)
                                <=> (member /\ Asks(x, m, grants))
    BY <1>4, <2>2, OwnRule
  <2> QED
    BY <2>1, <2>3
<1>6. PICK row, pc :
        /\ row \in rows /\ To(s, pc) /\ pc \in {"served", "refused", "denied"}
        /\ pc = "denied" <=> ~(\/ row.module = "public"
                              \/ HasRequiredPermission(GetPermissions, row, r.method))
  BY <1>1, <1>5 DEF RequirePermission, Bind
<1>6a. Entitled(op, member, grants) <=> (member /\ Asks(row, r.method, grants))
  <2>1. row \in rows
    BY <1>6
  <2> QED
    BY <1>5, <2>1
<1>7. ASSUME row.module # "public"
      PROVE  HasRequiredPermission(GetPermissions, row, r.method)
               <=> (member /\ Asks(row, r.method, grants))
  <2>1. CASE member
    <3>1. GetPermissions = grants
      BY <2>1 DEF GetPermissions
    <3>2. HasRequiredPermission(grants, row, r.method) <=> Asks(row, r.method, grants)
      BY <1>7, LevelAsked
    <3> QED
      BY <2>1, <3>1, <3>2
  <2>2. CASE ~member
    <3>1. GetPermissions[row.module] = "none"
      BY <1>5, <1>6, <1>7, <2>2 DEF GetPermissions
    <3> QED
      BY <2>2, <3>1 DEF HasRequiredPermission, HasAnyPermission, HasWritePermission
  <2> QED
    BY <2>1, <2>2
<1>8. CASE pc = "refused"
  BY <1>1, <1>2, <1>6, <1>8, JudgedTo
<1>9. CASE pc = "denied"
  <2>1. ~Entitled(op, member, grants)
    <3>1. row.module # "public" /\ ~HasRequiredPermission(GetPermissions, row, r.method)
      BY <1>6, <1>9
    <3>2. ~(member /\ Asks(row, r.method, grants))
      BY <1>7, <3>1
    <3> QED
      BY <1>6a, <3>2
  <2>2. {All} # r.seen
    BY <1>1, <1>2, <1>4, <2>1, AtItsStep DEF All
  <2> QED
    BY <1>1, <1>2, <1>6, <1>9, <2>2, JudgedTo
<1>10. CASE pc = "served"
  <2>1. "team" \in Met(r)
    <3>1. CASE row.module = "public"
      BY <1>1, <1>2, <1>6, <3>1 DEF JudgedInv, JudgedSoFar
    <3>2. CASE row.module # "public"
      <4>1. HasRequiredPermission(GetPermissions, row, r.method)
        BY <1>6, <1>10, <3>2
      <4>2. member /\ Asks(row, r.method, grants)
        BY <1>7, <3>2, <4>1
      <4>3. Entitled(op, member, grants)
        BY <1>6a, <4>2
      <4> QED
        BY <1>1, <1>2, <1>4, <4>3, AtItsStep
    <3> QED
      BY <3>1, <3>2
  <2>2. All \subseteq Met(r)
    BY <1>4, <2>1 DEF All
  <2> QED
    BY <1>1, <1>2, <1>6, <1>10, <2>2, JudgedTo
<1> QED
  BY <1>6, <1>8, <1>9, <1>10

LEMMA StepJudged ==
  ASSUME JudgedInv, NEW s \in Slots, Steps(s)
  PROVE  JudgedInv'
<1>1. CASE CORS(s) \/ CSRFOriginCheck(s)
  <2>1. To(s, "refused") /\ UNCHANGED <<signedIn, member, grants>>
    BY <1>1 DEF CORS, CSRFOriginCheck
  <2> QED
    BY <2>1, JudgedTo
<1>2. CASE Handle(s)
  <2>1. DOMAIN NoRequest = RequestFields /\ NoRequest.pc = "free"
    BY DEF NoRequest, RequestFields
  <2>2. JudgedSoFar(NoRequest, NowOf(NoRequest))
    BY <2>1 DEF JudgedSoFar
  <2> QED
    BY <1>2, <2>1, <2>2, JudgedMoves DEF Handle
<1> QED
  BY <1>1, <1>2, DispatchJudged, LimiterJudged, AuthJudged, MembershipJudged,
    PermissionJudged DEF Steps

LEMMA ArrivalJudged ==
  ASSUME JudgedInv, NEW s \in Slots, NEW c \in Calls, RateLimit(s, c)
  PROVE  JudgedInv'
<1> DEFINE key == TrustedProxyKeyFunc(Forwarded(c.header, c.from, c.chain, c.joined),
                                      Peer(c.from, c.chain))
           q == [pc |-> IF Admits("global", key) THEN "screen" ELSE "refused",
                 from |-> CanonicalizeIP(c.from), key |-> key, method |-> c.method,
                 path |-> c.path, origin |-> c.origin,
                 seen |-> {Standing(c.method, c.path, signedIn, member, grants)}]
<1>1. /\ reqs' = [reqs EXCEPT ![s] = q] /\ DOMAIN q = RequestFields
      /\ q.pc \in {"screen", "refused"} /\ q.method = c.method /\ q.path = c.path
      /\ q.seen = {Standing(c.method, c.path, signedIn, member, grants)}
  <2>1. reqs' = [reqs EXCEPT ![s] = q]
    BY DEF RateLimit
  <2>2. /\ q.pc \in {"screen", "refused"} /\ q.method = c.method /\ q.path = c.path
        /\ q.seen = {Standing(c.method, c.path, signedIn, member, grants)}
    OBVIOUS
  <2>3. DOMAIN q = RequestFields
    BY DEF RequestFields
  <2> QED
    BY <2>1, <2>2, <2>3
<1> HIDE DEF key, q
<1>2. UNCHANGED <<signedIn, member, grants>> /\ c.path \in Seq(STRING)
  BY DEF RateLimit, Calls
<1>3. JudgedSoFar(q, NowOf(q))
  BY <1>1, <1>2 DEF JudgedSoFar, NowOf
<1> QED
  BY <1>1, <1>2, <1>3, JudgedMoves

LEMMA ElsewhereJudged ==
  ASSUME JudgedInv, Elsewhere([Modules -> Levels])
  PROVE  JudgedInv'
<1>1. Noted
  BY DEF Elsewhere
<1>2. member' \in BOOLEAN /\ grants' \in [Modules -> Levels]
  BY DEF Elsewhere, SignOut, Leave, Join, SetRoles, GateTypeOK, JudgedInv
<1>3. ASSUME NEW s \in Slots
      PROVE  DOMAIN reqs'[s] = RequestFields /\ JudgedSoFar(reqs'[s], NowOf(reqs[s])')
  <2>1. PICK r, q, standing : r = reqs[s] /\ q = reqs'[s] /\ standing = NowOf(reqs[s])'
    OBVIOUS
  <2>2. DOMAIN r = RequestFields /\ JudgedSoFar(r, NowOf(r))
    BY <2>1 DEF JudgedInv, GateTypeOK
  <2>3. CASE ~InFlight(s)
    <3>1. q = r
      BY <1>1, <2>1, <2>3 DEF Noted
    <3>2. r.pc \in {"free", "served", "denied", "refused"}
      BY <2>1, <2>3 DEF InFlight
    <3> QED
      BY <2>1, <2>2, <3>1, <3>2 DEF JudgedSoFar
  <2>4. CASE InFlight(s)
    <3>1. PICK x : /\ x = Standing(r.method, r.path, signedIn', member', grants')
                   /\ q = [r EXCEPT !.seen = @ \union {x}]
      BY <1>1, <2>1, <2>4 DEF Noted
    <3>2. /\ DOMAIN q = RequestFields /\ q.pc = r.pc /\ q.method = r.method
          /\ q.path = r.path /\ q.seen = r.seen \union {x}
      BY <2>2, <3>1 DEF RequestFields
    <3>3. standing = x
      BY <2>1, <3>1, <3>2 DEF NowOf
    <3>4. r.pc # "denied" /\ r.pc # "served"
      BY <2>1, <2>4 DEF InFlight
    <3>5. \A y \in Met(r) : y \in Met(q)
      BY <3>2 DEF Met
    <3>6. JudgedSoFar(q, standing)
      BY <2>2, <3>2, <3>3, <3>4, <3>5 DEF JudgedSoFar
    <3> QED
      BY <2>1, <3>2, <3>6
  <2> QED
    BY <2>3, <2>4
<1>4. GateTypeOK'
  BY <1>1, <1>2, <1>3 DEF GateTypeOK, Noted
<1> QED
  BY <1>3, <1>4 DEF JudgedInv

LEMMA GatewayInitJudged == GatewayInit => JudgedInv
<1> SUFFICES ASSUME GatewayInit PROVE JudgedInv
  OBVIOUS
<1>1. DOMAIN NoRequest = RequestFields /\ NoRequest.pc = "free"
  BY DEF NoRequest, RequestFields
<1>2. \A s \in Slots : reqs[s] = NoRequest
  BY DEF GatewayInit
<1>3. \A standing : JudgedSoFar(NoRequest, standing)
  BY <1>1 DEF JudgedSoFar
<1> QED
  BY <1>2, <1>3, GatewayInitCounts DEF JudgedInv

LEMMA GatewayNextJudged ==
  ASSUME JudgedInv, [GatewayNext(Calls, [Modules -> Levels])]_gateVars
  PROVE  JudgedInv'
<1>1. CASE UNCHANGED <<reqs, signedIn, member, grants>>
  BY <1>1 DEF JudgedInv, GateTypeOK, NowOf
<1>2. CASE UNCHANGED gateVars \/ \E l \in Limiters : NextWindow(l)
  BY <1>1, <1>2 DEF gateVars, NextWindow
<1> QED
  BY <1>2, StepJudged, ArrivalJudged, ElsewhereJudged DEF GatewayNext

\* For any set of requests in flight, any words in their paths, and whatever changes in
\* between the two reads: a request that reaches its handler has met, since it arrived, a
\* live session and, at one instant, the membership and the level the row of its own
\* operation asks for; one that is denied lacked one of them at some instant.
\* (main.go's muxer and middleware.RequireMembership, RequirePermission, MatchRBACRoute.)
THEOREM RequestsJudged == GatewaySpec => []JudgedByOwnRule
<1>1. JudgedInv /\ [GatewayNext(Calls, [Modules -> Levels])]_gateVars => JudgedInv'
  BY GatewayNextJudged
<1>2. JudgedInv => JudgedByOwnRule
  BY DEF JudgedInv, JudgedSoFar, JudgedByOwnRule, Met, All
<1> QED
  BY <1>1, <1>2, GatewayInitJudged, PTL DEF GatewaySpec
=============================================================================
