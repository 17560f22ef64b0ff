----------------------------- MODULE MCEntrance ------------------------------
(* Small instances of the entrance for TLC, as scenes: one request to every     *)
(* path while the caller's place in the team changes; a few requests of several *)
(* callers through chains of proxies; two browsers signing in at the provider;  *)
(* a few requests, two at a time, on everything that leads into an account.      *)
EXTENDS MCAccounts, Gateway, SignIn

CONSTANTS c1, c2, c3, h1, h2, r1, r2

VARIABLES scene, left   \* the scene, and how many more requests it admits
mcVars == <<gateVars, signVars, vars, scene, left>>

-----------------------------------------------------------------------------
(* Rules: the caller's roles give one module a level at most, another none.     *)
NoGrants == [m \in Modules |-> "none"]
MCGrants == {[m \in Modules |-> IF m = k THEN l ELSE "none"] : k \in Modules, l \in Levels}

MCEnter == left' = left - Cardinality({s \in Slots : reqs[s].pc = "free"
                                                      /\ reqs'[s].pc # "free"})
\* Bound: one change of the caller's place while its request is in flight, of its
\* roles one that gives or takes what they give.
MCChange ==
  \/ UNCHANGED <<signedIn, member, grants>>
  \/ /\ \E s \in Slots : InFlight(s) /\ Cardinality(reqs[s].seen) = 1
     /\ grants' # grants => NoGrants \in {grants, grants'}

MCMethods == {"GET", "POST", "PUT", "PATCH", "DELETE"}
\* Bound: the other word for a parameter only where a segment is that word.
MCPaths == {p \in Instances : (\E i \in DOMAIN p : p[i] = "mine") =>
                               Len(p) >= 3 /\ p[3] \in {"absences", "polls"}}
MCRuleCalls ==
  [from : {c1}, method : MCMethods, path : MCPaths, origin : {"none"},
   header : {<<>>}, chain : {<<>>}, joined : {FALSE}]
RulesScene ==
  /\ scene = "rules"
  /\ GatewayNext(IF left = 0 THEN {} ELSE MCRuleCalls, MCGrants)
  /\ MCEnter /\ MCChange
  /\ UNCHANGED <<signVars, vars>>

-----------------------------------------------------------------------------
(* Limits: requests that need a session, log in, or only ask for options, one   *)
(* after another: what they count is counted under a lock.                      *)
MCLimited == {<<"POST", <<"auth", "login">>>>, <<"GET", <<"auth", "oidc", "start">>>>,
              <<"GET", <<"auth", "oidc", "callback">>>>, <<"GET", <<"teams">>>>,
              <<"OPTIONS", <<"teams">>>>}
\* Bound: the hops a caller claims, and the chains its request comes along; only
\* requests with a session come in every combination of them.
MCHeaders == {<<>>, <<<<c1>>>>, <<<<h1>>>>, <<<<"junk">>>>, <<<<c1>>, <<c2>>>>}
MCChains == {<<>>, <<h1>>, <<h1, h2>>}
MCLimitCalls ==
  {c \in [from : Clients \union Proxies, method : {"GET", "POST", "OPTIONS"},
          path : {x[2] : x \in MCLimited}, origin : {"own", "other"},
          header : MCHeaders, chain : MCChains, joined : BOOLEAN] :
     /\ <<c.method, c.path>> \in MCLimited
     /\ c.from \in Proxies => (c.chain = <<>> /\ c.header = <<>>)
     /\ c.method = "GET" => c.origin = "own"
     /\ \/ c.path = <<"teams">> /\ c.method = "GET"
        \/ c.header \in {<<>>, <<<<c1>>>>} /\ Len(c.chain) <= 1 /\ c.joined}
LimitsScene ==
  /\ scene = "limits"
  /\ GatewayNext(IF left = 0 \/ \E s \in Slots : reqs[s].pc # "free" THEN {}
                 ELSE MCLimitCalls, {})
  /\ MCEnter
  /\ UNCHANGED <<signedIn, member, signVars, vars>>

-----------------------------------------------------------------------------
SignInScene ==
  /\ scene = "signin"
  /\ SignInNext
  /\ left' = left - Cardinality({s \in LoginSlots : logins[s].pc = "free"
                                                      /\ logins'[s].pc # "free"})
  /\ UNCHANGED <<gateVars, vars>>

-----------------------------------------------------------------------------
AccountsScene ==
  /\ scene = "accounts"
  /\ Next
  /\ left' = left - Cardinality({q \in Requests : req[q] = Nothing /\ req'[q] # Nothing})
  /\ UNCHANGED <<gateVars, signVars>>

Scene(name, requests) == scene = name /\ left = requests

MCInit ==
  /\ Scene("rules", 1) \/ Scene("limits", 3) \/ Scene("signin", 4) \/ Scene("accounts", 5)
  /\ grants \in IF scene = "rules" THEN MCGrants ELSE {NoGrants}
  /\ signedIn \in IF scene = "rules" THEN BOOLEAN ELSE {TRUE}
  /\ member \in IF scene = "rules" THEN BOOLEAN ELSE {FALSE}
  /\ discovered \in IF scene = "signin" THEN BOOLEAN ELSE {FALSE}
  /\ GatewayInit /\ SignInInit /\ Init

MCNext ==
  /\ RulesScene \/ LimitsScene \/ SignInScene \/ AccountsScene
  /\ left' >= 0
  /\ UNCHANGED scene

MCSpec == MCInit /\ [][MCNext]_mcVars

Symmetry == Permutations(Slots) \union Permutations(Users)
=============================================================================
