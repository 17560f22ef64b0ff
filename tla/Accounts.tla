------------------------------- MODULE Accounts -------------------------------
(***************************************************************************)
(* Accounts and how one gets into them: registration, e-mail verification, *)
(* password login, password reset, login through an OIDC provider, erasure *)
(* and the nightly removal of accounts that never verified an address.     *)
(*                                                                         *)
(* None of these handlers runs in a transaction (erasure and the issue of  *)
(* a token apart): each statement commits on its own and any other request *)
(* may run in between.  So a request here is one statement per step, and   *)
(* dies after any of them.                                                 *)
(***************************************************************************)
EXTENDS Naturals, FiniteSets

CONSTANTS
  Users,        \* ids of users rows; an id is used once
  Mailboxes,    \* e-mail addresses
  Passwords,
  Subjects,     \* identities at the OIDC provider
  Vouches,      \* the address the provider asserts for each subject
  Tokens,       \* ids of verification and reset tokens
  Requests,     \* request slots
  Enabled,      \* the operations clients submit
  BatchSize,    \* jobs.retentionBatchSize
  Nothing       \* NULL

ASSUME AccountsAssumption ==
  /\ Vouches \in [Subjects -> Mailboxes]
  /\ Nothing \notin Users \cup Mailboxes \cup Passwords \cup Subjects \cup Tokens
  /\ Passwords \cap Subjects = {}
  /\ "mail" \notin Passwords \cup Subjects
  /\ BatchSize \in Nat \ {0}

VARIABLES
  rows,       \* users rows that exist
  minted,     \* ids ever used
  erased,     \* rows with deleted_at set
  email,      \* users.email; Nothing is the anonymised placeholder
  password,   \* users.password_hash, as the password it accepts
  verified,   \* rows with email_verified_at set
  old,        \* unverified rows older than the retention of unverified accounts
  links,      \* oidc_accounts: the row each subject is linked to
  tokens,     \* email_verification_tokens and password_reset_tokens
  spent,      \* tokens consumed, purged after their expiry, or gone with their row
  expired,    \* tokens past expires_at
  sessions,   \* sessions, as the row they belong to and what opened them
  authors,    \* rows that news or polls name without ON DELETE
  parked,     \* history: rows whose password is the one a registration came with
  mailed,     \* history: rows verified by a token mailed to their address
  req         \* per slot, the request it serves, or Nothing

accountVars == <<rows, minted, erased, email, password, verified, old, links>>
tokenVars == <<tokens, spent, expired>>
historyVars == <<parked, mailed>>
vars == <<rows, minted, erased, email, password, verified, old, links, tokens,
          spent, expired, sessions, authors, parked, mailed, req>>

Live == rows \ erased
Token == [kind : {"verify", "reset"}, user : Users]
Session == [user : Users, by : Passwords \cup Subjects \cup {"mail"}]

\* A request in flight: its next statement, what the client sent, and what the
\* statements so far have read.
Request ==
  [op : {"login", "register", "resend", "forgot", "verify", "reset", "oidc", "erase"},
   pc : {"find", "create", "again", "issue", "token", "consume", "store", "drop",
         "subject", "clear", "mark", "link", "load", "session", "erase"},
   user : Users \cup {Nothing}, mailbox : Mailboxes \cup {Nothing},
   password : Passwords \cup {Nothing}, token : Tokens \cup {Nothing},
   subject : Subjects \cup {Nothing}]

\* The types of the tables. Foreign keys hold: nothing names a row that is gone.
TypeOK ==
  /\ rows \subseteq minted /\ minted \subseteq Users
  /\ erased \subseteq rows /\ verified \subseteq Users /\ old \subseteq rows
  /\ email \in [Users -> Mailboxes \cup {Nothing}]
  /\ password \in [Users -> Passwords \cup {Nothing}]
  /\ links \in [Subjects -> Users \cup {Nothing}]
  /\ tokens \in [Tokens -> Token \cup {Nothing}]
  /\ spent \subseteq Tokens /\ expired \subseteq Tokens
  /\ sessions \subseteq Session
  /\ authors \subseteq rows
  /\ parked \subseteq Users /\ mailed \subseteq Users
  /\ req \in [Requests -> Request \cup {Nothing}]

Init ==
  /\ rows = {} /\ minted = {} /\ erased = {} /\ verified = {} /\ old = {}
  /\ email = [u \in Users |-> Nothing]
  /\ password = [u \in Users |-> Nothing]
  /\ links = [s \in Subjects |-> Nothing]
  /\ tokens = [k \in Tokens |-> Nothing]
  /\ spent = {} /\ expired = {}
  /\ sessions = {} /\ authors = {}
  /\ parked = {} /\ mailed = {}
  /\ req = [q \in Requests |-> Nothing]

-----------------------------------------------------------------------------
(* Requests.                                                               *)

Arrive(q, op, pc, user, mailbox, pw, token, subject) ==
  /\ req[q] = Nothing /\ op \in Enabled
  /\ req' = [req EXCEPT ![q] = [op |-> op, pc |-> pc, user |-> user, mailbox |-> mailbox,
                                password |-> pw, token |-> token, subject |-> subject]]
  /\ UNCHANGED <<accountVars, tokenVars, historyVars, sessions, authors>>

\* An account is erased by its own session.
Submit(q) ==
  \/ \E e \in Mailboxes, p \in Passwords :
       \/ Arrive(q, "login", "find", Nothing, e, p, Nothing, Nothing)
       \/ Arrive(q, "register", "create", Nothing, e, p, Nothing, Nothing)
  \/ \E e \in Mailboxes, op \in {"resend", "forgot"} :
       Arrive(q, op, "find", Nothing, e, Nothing, Nothing, Nothing)
  \/ \E k \in Tokens : Arrive(q, "verify", "token", Nothing, Nothing, Nothing, k, Nothing)
  \/ \E k \in Tokens, p \in Passwords :
       Arrive(q, "reset", "token", Nothing, Nothing, p, k, Nothing)
  \/ \E s \in Subjects :
       Arrive(q, "oidc", "subject", Nothing, Vouches[s], Nothing, Nothing, s)
  \/ \E s \in sessions :
       /\ s.user \in Live
       /\ Arrive(q, "erase", "erase", s.user, Nothing, Nothing, Nothing, Nothing)

At(q, ops, pc) == req[q] # Nothing /\ req[q].op \in ops /\ req[q].pc = pc
Goto(q, pc) == req' = [req EXCEPT ![q].pc = pc]
GotoWith(q, pc, u) == req' = [req EXCEPT ![q].pc = pc, ![q].user = u]
Finish(q) == req' = [req EXCEPT ![q] = Nothing]

\* The live row with an address: deleted rows keep the UNIQUE column busy but no
\* lookup returns them.
Named(e) == {u \in Live : email[u] = e}
Taken(e) == \E u \in rows : email[u] = e

-----------------------------------------------------------------------------
(* Lookups.                                                                *)

\* Login reads the row once: password and verification are judged on that read.
FindForLogin(q) ==
  /\ At(q, {"login"}, "find")
  /\ \/ \E u \in Named(req[q].mailbox) :
          password[u] = req[q].password /\ u \in verified /\ GotoWith(q, "session", u)
     \/ /\ \A u \in Named(req[q].mailbox) :
             password[u] # req[q].password \/ u \notin verified
        /\ Finish(q)
  /\ UNCHANGED <<accountVars, tokenVars, historyVars, sessions, authors>>

\* Whether a token is issued to the row: for verification while it is unverified,
\* for a reset when it has a password.
Wants(op, u) ==
  IF op = "forgot" THEN password[u] # Nothing ELSE u \notin verified

FindForToken(q) ==
  /\ At(q, {"register", "resend", "forgot"}, "find")
  /\ \/ \E u \in Named(req[q].mailbox) : Wants(req[q].op, u) /\ GotoWith(q, "issue", u)
     \/ (\A u \in Named(req[q].mailbox) : ~Wants(req[q].op, u)) /\ Finish(q)
  /\ UNCHANGED <<accountVars, tokenVars, historyVars, sessions, authors>>

FindBySubject(q) ==
  /\ At(q, {"oidc"}, "subject")
  /\ IF links[req[q].subject] \in Live
     THEN GotoWith(q, "session", links[req[q].subject]) ELSE Goto(q, "find")
  /\ UNCHANGED <<accountVars, tokenVars, historyVars, sessions, authors>>

\* Whether the password is cleared and the address marked verified is decided on
\* this read. "again" is the second look after a lost insert.
FindForLink(q) ==
  /\ \E pc \in {"find", "again"} : At(q, {"oidc"}, pc)
  /\ \/ \E u \in Named(req[q].mailbox) :
          GotoWith(q, IF u \in verified THEN "link" ELSE "clear", u)
     \/ /\ Named(req[q].mailbox) = {}
        /\ IF req[q].pc = "find" THEN Goto(q, "create") ELSE Finish(q)
  /\ UNCHANGED <<accountVars, tokenVars, historyVars, sessions, authors>>

\* FindUserByID before the session is created.
LoadUser(q) ==
  /\ At(q, {"verify", "reset", "oidc"}, "load")
  /\ IF req[q].user \in Live THEN Goto(q, "session") ELSE Finish(q)
  /\ UNCHANGED <<accountVars, tokenVars, historyVars, sessions, authors>>

-----------------------------------------------------------------------------
(* Accounts.                                                               *)

\* INSERT ... ON CONFLICT (email) DO NOTHING: an existing row, deleted or not, is
\* left alone and looked up next.
CreateUnverifiedUser(q) ==
  /\ At(q, {"register", "oidc"}, "create")
  /\ \/ /\ Taken(req[q].mailbox)
        /\ Goto(q, IF req[q].op = "register" THEN "find" ELSE "again")
        /\ UNCHANGED <<rows, minted, email, password, parked>>
     \/ /\ ~Taken(req[q].mailbox)
        /\ \E u \in Users \ minted :
             /\ rows' = rows \cup {u} /\ minted' = minted \cup {u}
             /\ email' = [email EXCEPT ![u] = req[q].mailbox]
             /\ password' = [password EXCEPT ![u] = req[q].password]
             /\ parked' = IF req[q].op = "register" THEN parked \cup {u} ELSE parked
             /\ GotoWith(q, IF req[q].op = "register" THEN "issue" ELSE "clear", u)
  /\ UNCHANGED <<erased, verified, old, links, tokenVars, mailed, sessions, authors>>

\* Mutant: the parked password is left in place.
ClearPassword_Skipped(q) ==
  /\ At(q, {"oidc"}, "clear")
  /\ Goto(q, "mark")
  /\ UNCHANGED <<accountVars, tokenVars, historyVars, sessions, authors>>

ClearPassword(q) ==
  /\ At(q, {"oidc"}, "clear")
  /\ password' = IF req[q].user \in Live
                 THEN [password EXCEPT ![req[q].user] = Nothing] ELSE password
  /\ parked' = parked \ {req[q].user}
  /\ Goto(q, "mark")
  /\ UNCHANGED <<rows, minted, erased, email, verified, old, links, tokenVars,
                 mailed, sessions, authors>>

MarkEmailVerified(q) ==
  /\ At(q, {"verify", "oidc"}, "mark")
  /\ verified' = verified \cup ({req[q].user} \cap rows)
  /\ old' = old \ {req[q].user}
  /\ mailed' = IF req[q].op = "verify" THEN mailed \cup ({req[q].user} \cap rows)
               ELSE mailed
  /\ Goto(q, IF req[q].op = "verify" THEN "load" ELSE "link")
  /\ UNCHANGED <<rows, minted, erased, email, password, links, tokenVars, parked,
                 sessions, authors>>

\* ON CONFLICT (provider, subject) DO NOTHING; the foreign key refuses a row that
\* was deleted meanwhile, and nothing looks at deleted_at.
LinkOIDCAccount(q) ==
  /\ At(q, {"oidc"}, "link")
  /\ IF req[q].user \in rows THEN Goto(q, "load") ELSE Finish(q)
  /\ links' = IF req[q].user \in rows /\ links[req[q].subject] = Nothing
              THEN [links EXCEPT ![req[q].subject] = req[q].user] ELSE links
  /\ UNCHANGED <<rows, minted, erased, email, password, verified, old, tokenVars,
                 historyVars, sessions, authors>>

-----------------------------------------------------------------------------
(* Tokens.                                                                 *)

\* The token row and its mail job are one transaction.
IssueToken(q) ==
  /\ At(q, {"register", "resend", "forgot"}, "issue")
  /\ \/ /\ req[q].user \in rows
        /\ \E k \in Tokens :
             /\ tokens[k] = Nothing
             /\ tokens' = [tokens EXCEPT ![k] =
                  [kind |-> IF req[q].op = "forgot" THEN "reset" ELSE "verify",
                   user |-> req[q].user]]
     \/ req[q].user \notin rows /\ UNCHANGED tokens
  /\ Finish(q)
  /\ UNCHANGED <<accountVars, spent, expired, historyVars, sessions, authors>>

FindToken(q) ==
  /\ At(q, {"verify", "reset"}, "token")
  /\ LET k == req[q].token IN
       IF /\ tokens[k] # Nothing /\ tokens[k].kind = req[q].op
          /\ k \notin spent \cup expired
       THEN GotoWith(q, "consume", tokens[k].user) ELSE Finish(q)
  /\ UNCHANGED <<accountVars, tokenVars, historyVars, sessions, authors>>

\* Mutant: the UPDATE is not guarded by consumed_at IS NULL.
ConsumeToken_Again(q) ==
  /\ At(q, {"verify", "reset"}, "consume")
  /\ spent' = spent \cup {req[q].token}
  /\ Goto(q, IF req[q].op = "verify" THEN "mark" ELSE "store")
  /\ UNCHANGED <<accountVars, tokens, expired, historyVars, sessions, authors>>

ConsumeToken(q) ==
  /\ At(q, {"verify", "reset"}, "consume")
  /\ IF req[q].token \notin spent
     THEN /\ spent' = spent \cup {req[q].token}
          /\ Goto(q, IF req[q].op = "verify" THEN "mark" ELSE "store")
     ELSE Finish(q) /\ UNCHANGED spent
  /\ UNCHANGED <<accountVars, tokens, expired, historyVars, sessions, authors>>

UpdateUserPassword(q) ==
  /\ At(q, {"reset"}, "store")
  /\ IF req[q].user \in Live
     THEN /\ password' = [password EXCEPT ![req[q].user] = req[q].password]
          /\ parked' = parked \ {req[q].user}
          /\ Goto(q, "drop")
     ELSE Finish(q) /\ UNCHANGED <<password, parked>>
  /\ UNCHANGED <<rows, minted, erased, email, verified, old, links, tokenVars,
                 mailed, sessions, authors>>

-----------------------------------------------------------------------------
(* Sessions.                                                               *)

DeleteSessionsForUser(q) ==
  /\ At(q, {"reset"}, "drop")
  /\ sessions' = {s \in sessions : s.user # req[q].user}
  /\ Goto(q, "load")
  /\ UNCHANGED <<accountVars, tokenVars, historyVars, authors>>

\* What opened the session: the password given, the mailed token, the subject.
Opener(r) ==
  IF r.op = "oidc" THEN r.subject ELSE IF r.op = "verify" THEN "mail" ELSE r.password

\* The INSERT fails only when the row itself is gone.
CreateSession(q) ==
  /\ At(q, {"login", "verify", "reset", "oidc"}, "session")
  /\ sessions' = IF req[q].user \in rows
                 THEN sessions \cup {[user |-> req[q].user, by |-> Opener(req[q])]}
                 ELSE sessions
  /\ Finish(q)
  /\ UNCHANGED <<accountVars, tokenVars, historyVars, authors>>

\* Logout, or expiry.
EndSession ==
  /\ \E s \in sessions : sessions' = sessions \ {s}
  /\ UNCHANGED <<accountVars, tokenVars, historyVars, authors, req>>

\* One transaction; the row stays, anonymised.
EraseUser(q) ==
  /\ At(q, {"erase"}, "erase")
  /\ LET u == req[q].user IN
       /\ erased' = erased \cup ({u} \cap rows)
       /\ email' = IF u \in Live THEN [email EXCEPT ![u] = Nothing] ELSE email
       /\ password' = IF u \in Live THEN [password EXCEPT ![u] = Nothing] ELSE password
       /\ sessions' = {s \in sessions : s.user # u}
       /\ links' = [s \in Subjects |-> IF links[s] = u THEN Nothing ELSE links[s]]
       /\ parked' = parked \ {u} /\ mailed' = mailed \ {u}
  /\ Finish(q)
  /\ UNCHANGED <<rows, minted, verified, old, tokenVars, authors>>

\* A timeout, a lost connection or a crash: the statements so far stay committed.
Abort(q) ==
  /\ req[q] # Nothing
  /\ Finish(q)
  /\ UNCHANGED <<accountVars, tokenVars, historyVars, sessions, authors>>

-----------------------------------------------------------------------------
(* Time, retention, and what other components do to accounts.              *)

TokenExpires ==
  /\ \E k \in Tokens \ expired : tokens[k] # Nothing /\ expired' = expired \cup {k}
  /\ UNCHANGED <<accountVars, tokens, spent, historyVars, sessions, authors, req>>

PurgeExpiredTokens ==
  /\ expired \ spent # {}
  /\ spent' = spent \cup expired
  /\ UNCHANGED <<accountVars, tokens, expired, historyVars, sessions, authors, req>>

RowAges ==
  /\ \E u \in rows \ (verified \cup old) : old' = old \cup {u}
  /\ UNCHANGED <<rows, minted, erased, email, password, verified, links, tokenVars,
                 historyVars, sessions, authors, req>>

\* Nothing is left of a deleted row, its tokens included.
Forget(gone) ==
  /\ email' = [u \in Users |-> IF u \in gone THEN Nothing ELSE email[u]]
  /\ password' = [u \in Users |-> IF u \in gone THEN Nothing ELSE password[u]]
  /\ old' = old \ gone
  /\ spent' = spent \cup {k \in Tokens : tokens[k] # Nothing /\ tokens[k].user \in gone}
  /\ parked' = parked \ gone
  /\ mailed' = mailed \ gone

\* Mutant: nothing holds on to the author of news and polls.
DeleteUnverifiedUsers_Authors ==
  /\ \E batch \in SUBSET old :
       /\ batch # {}
       /\ batch = old \/ Cardinality(batch) = BatchSize
       /\ Cardinality(batch) <= BatchSize
       /\ rows' = rows \ batch
       /\ erased' = erased \ batch
       /\ sessions' = {s \in sessions : s.user \notin batch}
       /\ links' = [s \in Subjects |-> IF links[s] \in batch THEN Nothing ELSE links[s]]
       /\ Forget(batch)
  /\ UNCHANGED <<minted, verified, tokens, expired, authors, req>>

\* One DELETE of a batch: sessions, tokens and links go with the rows, but news
\* and polls refuse to lose their author, and then the statement deletes nothing.
DeleteUnverifiedUsers ==
  /\ \E batch \in SUBSET old :
       /\ batch # {}
       /\ batch = old \/ Cardinality(batch) = BatchSize
       /\ Cardinality(batch) <= BatchSize
       /\ batch \cap authors = {}
       /\ rows' = rows \ batch
       /\ erased' = erased \ batch
       /\ sessions' = {s \in sessions : s.user \notin batch}
       /\ links' = [s \in Subjects |-> IF links[s] \in batch THEN Nothing ELSE links[s]]
       /\ Forget(batch)
  /\ UNCHANGED <<minted, verified, tokens, expired, authors, req>>

\* A member posts news or opens a poll.
Post ==
  /\ "post" \in Enabled
  /\ \E s \in sessions : s.user \in Live /\ authors' = authors \cup {s.user}
  /\ UNCHANGED <<accountVars, tokenVars, historyVars, sessions, req>>

-----------------------------------------------------------------------------

Proceed(q) ==
  \/ FindForLogin(q) \/ FindForToken(q) \/ FindBySubject(q) \/ FindForLink(q)
  \/ LoadUser(q) \/ CreateUnverifiedUser(q) \/ ClearPassword(q)
  \/ MarkEmailVerified(q) \/ LinkOIDCAccount(q) \/ IssueToken(q) \/ FindToken(q)
  \/ ConsumeToken(q) \/ UpdateUserPassword(q) \/ DeleteSessionsForUser(q)
  \/ CreateSession(q) \/ EraseUser(q)

Environment ==
  \/ EndSession \/ TokenExpires \/ PurgeExpiredTokens \/ RowAges
  \/ DeleteUnverifiedUsers \/ Post

Next == (\E q \in Requests : Submit(q) \/ Proceed(q) \/ Abort(q)) \/ Environment

Spec == Init /\ [][Next]_vars

-----------------------------------------------------------------------------
(* What must hold.                                                         *)

\* A token works once: of all requests that carry it, one gets past the guarded
\* UPDATE, however many found it valid. (auth.ConsumePasswordResetToken,
\* auth.ConsumeEmailVerificationToken.)
PastConsume(q) ==
  At(q, {"verify"}, "mark") \/ \E pc \in {"store", "drop"} : At(q, {"reset"}, pc)

OneUsePerToken ==
  /\ \A q \in Requests : PastConsume(q) => req[q].token \in spent
  /\ \A p, q \in Requests :
       PastConsume(p) /\ PastConsume(q) /\ req[p].token = req[q].token => p = q

\* Erasure is final for the credentials: a reset in flight does not bring a
\* password back. (auth.UpdateUserPassword.)
ErasedHasNoPassword == \A u \in erased : password[u] = Nothing

\* A password that came with a registration opens a verified account only if the
\* address was verified by the token mailed to it: a login through the provider
\* never arms it, not even for a moment. (auth.verifyAndLink.)
ArmedOnlyByMail ==
  verified \cap parked \subseteq mailed

\* When a reset succeeds, only the session it opens remains: none stands on the
\* password it replaced. (openspec/specs/password-reset.)
ResetEndsOtherSessions ==
  [][\A q \in Requests :
       At(q, {"reset"}, "session") /\ req'[q] = Nothing /\ sessions' # sessions =>
         \A s \in sessions' :
           s.user = req[q].user /\ s.by \in Passwords => s.by = req[q].password]_vars

\* Linking a verified account leaves its password alone. (openspec/specs/oidc-login.)
LinkKeepsPassword ==
  [][\A u \in verified : password[u] # Nothing /\ password'[u] = Nothing
       => u \in erased']_vars

=============================================================================
