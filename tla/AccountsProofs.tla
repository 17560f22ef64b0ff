---------------------------- MODULE AccountsProofs ----------------------------
(***************************************************************************)
(* What no interleaving of account requests, of any number and with aborts *)
(* anywhere, can break.                                                    *)
(***************************************************************************)
EXTENDS Accounts, TLAPS

\* Where a request has settled on a row.
Settled == {"issue", "consume", "store", "drop", "clear", "mark", "link", "load",
            "session", "erase"}

\* What a request carries, by operation; the row it settled on was given out.
Fits(r) ==
  /\ r.op \in {"login", "register", "reset"} => r.password \in Passwords
  /\ r.op \in {"login", "register", "resend", "forgot", "oidc"} => r.mailbox \in Mailboxes
  /\ r.op \in {"verify", "reset"} => r.token \in Tokens
  /\ r.op = "oidc" => r.subject \in Subjects /\ r.mailbox = Vouches[r.subject]
  /\ r.pc \in Settled => r.user \in minted

\* Ids that rows are verified, linked, or sent tokens under were given out, so an
\* id made later starts clean.
NamesMinted ==
  /\ verified \subseteq minted
  /\ \A k \in Tokens : tokens[k] # Nothing => tokens[k].user \in minted
  /\ \A q \in Requests : req[q] # Nothing => Fits(req[q])

\* A login through the provider marks the address verified only when no parked
\* password is left on the row.
ClearedBeforeMarked ==
  \A q \in Requests : At(q, {"oidc"}, "mark") => req[q].user \notin parked

AccountsInv ==
  /\ TypeOK
  /\ NamesMinted
  /\ OneUsePerToken
  /\ ErasedHasNoPassword
  /\ ClearedBeforeMarked
  /\ ArmedOnlyByMail

-----------------------------------------------------------------------------
(* Requests.                                                               *)

PCs == {"find", "create", "again", "issue", "token", "consume", "store", "drop",
        "subject", "clear", "mark", "link", "load", "session", "erase"}

\* A slot that is not free serves a request.
LEMMA InFlight ==
  ASSUME TypeOK, NEW q \in Requests, req[q] # Nothing
  PROVE  /\ req[q] \in Request
         /\ req[q].user \in Users \cup {Nothing}
         /\ req[q].password \in Passwords \cup {Nothing}
         /\ req[q].mailbox \in Mailboxes \cup {Nothing}
         /\ req[q].token \in Tokens \cup {Nothing}
         /\ req[q].subject \in Subjects \cup {Nothing}
         /\ req[q].pc \in PCs
<1>1. req[q] \in Request
  BY DEF TypeOK
<1> QED
  BY <1>1 DEF Request, PCs

\* The steps of a request, all of which leave the other slots alone.
Steps(q) ==
  \/ Finish(q)
  \/ \E pc \in PCs : Goto(q, pc)
  \/ \E pc \in PCs, u \in Users : GotoWith(q, pc, u)

LEMMA StepTyped ==
  ASSUME TypeOK, NEW q \in Requests, req[q] # Nothing, Steps(q)
  PROVE  req' \in [Requests -> Request \cup {Nothing}]
<1>1. \A pc \in PCs : [req[q] EXCEPT !.pc = pc] \in Request
  BY InFlight DEF Request, PCs
<1>2. \A pc \in PCs, u \in Users : [req[q] EXCEPT !.pc = pc, !.user = u] \in Request
  BY InFlight DEF Request, PCs
<1>3. req \in [Requests -> Request \cup {Nothing}]
  BY DEF TypeOK
<1>4. CASE Finish(q)
  BY <1>3, <1>4 DEF Finish
<1>5. ASSUME NEW pc \in PCs, Goto(q, pc)
      PROVE  req' \in [Requests -> Request \cup {Nothing}]
  <2>1. req' = [req EXCEPT ![q] = [req[q] EXCEPT !.pc = pc]]
    BY <1>5 DEF Goto
  <2> QED
    BY <1>1, <1>3, <2>1
<1>6. ASSUME NEW pc \in PCs, NEW u \in Users, GotoWith(q, pc, u)
      PROVE  req' \in [Requests -> Request \cup {Nothing}]
  <2>1. req' = [req EXCEPT ![q] = [req[q] EXCEPT !.pc = pc, !.user = u]]
    BY <1>6 DEF GotoWith
  <2> QED
    BY <1>2, <1>3, <2>1
<1> QED
  BY <1>4, <1>5, <1>6 DEF Steps

\* What the client sent stays.
SameSubmission(q) ==
  /\ req'[q].op = req[q].op
  /\ req'[q].password = req[q].password
  /\ req'[q].mailbox = req[q].mailbox
  /\ req'[q].token = req[q].token
  /\ req'[q].subject = req[q].subject

\* What a step leaves of a request.
LEMMA StepFields ==
  ASSUME TypeOK, NEW q \in Requests, req[q] # Nothing, Steps(q)
  PROVE  /\ \A p \in Requests : p # q => req'[p] = req[p]
         /\ req'[q] # Nothing => SameSubmission(q)
         /\ \A pc \in PCs : Goto(q, pc) => req'[q].pc = pc /\ req'[q].user = req[q].user
         /\ \A pc \in PCs, u \in Users :
              GotoWith(q, pc, u) => req'[q].pc = pc /\ req'[q].user = u
         /\ Finish(q) => req'[q] = Nothing
<1>1. req \in [Requests -> Request \cup {Nothing}]
  BY DEF TypeOK
<1>2. req[q] \in Request
  BY InFlight
<1>3. /\ \A pc : Goto(q, pc) => req'[q] = [req[q] EXCEPT !.pc = pc]
      /\ \A pc, u : GotoWith(q, pc, u) => req'[q] = [req[q] EXCEPT !.pc = pc, !.user = u]
      /\ Finish(q) => req'[q] = Nothing
      /\ \A p \in Requests : p # q => req'[p] = req[p]
  BY <1>1 DEF Steps, Goto, GotoWith, Finish
<1>4. \A pc : /\ [req[q] EXCEPT !.pc = pc].pc = pc
              /\ [req[q] EXCEPT !.pc = pc].user = req[q].user
              /\ [req[q] EXCEPT !.pc = pc].op = req[q].op
              /\ [req[q] EXCEPT !.pc = pc].password = req[q].password
              /\ [req[q] EXCEPT !.pc = pc].mailbox = req[q].mailbox
              /\ [req[q] EXCEPT !.pc = pc].token = req[q].token
              /\ [req[q] EXCEPT !.pc = pc].subject = req[q].subject
  BY <1>2 DEF Request
<1>5. \A pc, u : /\ [req[q] EXCEPT !.pc = pc, !.user = u].pc = pc
                 /\ [req[q] EXCEPT !.pc = pc, !.user = u].user = u
                 /\ [req[q] EXCEPT !.pc = pc, !.user = u].op = req[q].op
                 /\ [req[q] EXCEPT !.pc = pc, !.user = u].password = req[q].password
                 /\ [req[q] EXCEPT !.pc = pc, !.user = u].mailbox = req[q].mailbox
                 /\ [req[q] EXCEPT !.pc = pc, !.user = u].token = req[q].token
                 /\ [req[q] EXCEPT !.pc = pc, !.user = u].subject = req[q].subject
  BY <1>2 DEF Request
<1>6. ASSUME NEW pc, Goto(q, pc)
      PROVE  req'[q].pc = pc /\ req'[q].user = req[q].user /\ SameSubmission(q)
  <2>1. req'[q] = [req[q] EXCEPT !.pc = pc]
    BY <1>3, <1>6
  <2> QED
    BY <1>4, <2>1 DEF SameSubmission
<1>7. ASSUME NEW pc, NEW u, GotoWith(q, pc, u)
      PROVE  req'[q].pc = pc /\ req'[q].user = u /\ SameSubmission(q)
  <2>1. req'[q] = [req[q] EXCEPT !.pc = pc, !.user = u]
    BY <1>3, <1>7
  <2> QED
    BY <1>5, <2>1 DEF SameSubmission
<1>8. req'[q] # Nothing => SameSubmission(q)
  BY <1>3, <1>6, <1>7 DEF Steps
<1> QED
  BY <1>3, <1>6, <1>7, <1>8

-----------------------------------------------------------------------------
(* Steps that change requests only.                                        *)

\* Another request's step leaves what this one carries alone, as long as ids stay
\* minted.
LEMMA FitsKept ==
  ASSUME TypeOK, NamesMinted, NEW q \in Requests, req[q] # Nothing, Steps(q),
         minted \subseteq minted',
         req'[q] # Nothing /\ req'[q].pc \in Settled => req'[q].user \in minted'
  PROVE  \A p \in Requests : req'[p] # Nothing => Fits(req[p])'
<1>1. ASSUME NEW p \in Requests, req'[p] # Nothing, p # q
      PROVE  Fits(req[p])'
  BY <1>1, StepFields DEF NamesMinted, Fits, SameSubmission
<1>2. ASSUME req'[q] # Nothing
      PROVE  Fits(req[q])'
  BY <1>2, StepFields DEF NamesMinted, Fits, SameSubmission
<1> QED
  BY <1>1, <1>2

\* A request moves on, no table changes, and no token or provider login advances.
LEMMA ReadKeepsInv ==
  ASSUME AccountsInv, NEW q \in Requests, req[q] # Nothing, Steps(q),
         UNCHANGED <<accountVars, tokenVars, historyVars, sessions, authors>>,
         req'[q] # Nothing => /\ req'[q].pc \notin {"mark", "store", "drop"}
                              /\ req'[q].pc \in Settled => req'[q].user \in minted
  PROVE  AccountsInv'
<1> USE DEF accountVars, tokenVars, historyVars
<1>1. TypeOK'
  BY StepTyped DEF AccountsInv, TypeOK
<1>2. NamesMinted'
  BY FitsKept DEF AccountsInv, NamesMinted
<1>3. OneUsePerToken'
  BY StepFields DEF AccountsInv, OneUsePerToken, PastConsume, At, SameSubmission
<1>4. ErasedHasNoPassword'
  BY DEF AccountsInv, ErasedHasNoPassword
<1>5. ClearedBeforeMarked'
  BY StepFields DEF AccountsInv, ClearedBeforeMarked, At, SameSubmission
<1>6. ArmedOnlyByMail'
  BY DEF AccountsInv, ArmedOnlyByMail, Live
<1> QED
  BY <1>1, <1>2, <1>3, <1>4, <1>5, <1>6 DEF AccountsInv

LEMMA LookupsKeepInv ==
  ASSUME AccountsInv, NEW q \in Requests,
         \/ FindForLogin(q) \/ FindForToken(q) \/ FindBySubject(q) \/ FindForLink(q)
         \/ LoadUser(q) \/ FindToken(q) \/ Abort(q)
  PROVE  AccountsInv'
<1>1. TypeOK /\ NamesMinted
  BY DEF AccountsInv
<1>2. Live \subseteq minted /\ minted \subseteq Users
  BY <1>1 DEF TypeOK, Live
<1>3. ASSUME req[q] # Nothing, Steps(q),
             UNCHANGED <<accountVars, tokenVars, historyVars, sessions, authors>>,
             \/ Finish(q)
             \/ \E pc \in PCs, u \in minted :
                  pc \notin {"mark", "store", "drop"} /\ GotoWith(q, pc, u)
             \/ \E pc \in PCs : /\ pc \notin {"mark", "store", "drop"}
                                /\ Goto(q, pc)
                                /\ pc \in Settled => req[q].pc \in Settled
      PROVE  AccountsInv'
  <2>1. req'[q] # Nothing => /\ req'[q].pc \notin {"mark", "store", "drop"}
                             /\ req'[q].pc \in Settled => req'[q].user \in minted
    BY <1>1, <1>2, <1>3, StepFields DEF NamesMinted, Fits, SameSubmission
  <2> QED
    BY <1>3, <2>1, ReadKeepsInv
<1>4. CASE FindForLogin(q)
  BY <1>2, <1>3, <1>4 DEF FindForLogin, At, Steps, Named, PCs, Settled
<1>5. CASE FindForToken(q)
  BY <1>2, <1>3, <1>5 DEF FindForToken, At, Steps, Named, PCs, Settled
<1>6. CASE FindBySubject(q)
  BY <1>2, <1>3, <1>6 DEF FindBySubject, At, Steps, PCs, Settled
<1>7. CASE FindForLink(q)
  BY <1>2, <1>3, <1>7 DEF FindForLink, At, Steps, Named, PCs, Settled
<1>8. CASE LoadUser(q)
  BY <1>2, <1>3, <1>8 DEF LoadUser, At, Steps, PCs, Settled
<1>9. CASE FindToken(q)
  <2>1. req[q].token \in Tokens /\ req[q] # Nothing
    BY <1>1, <1>9 DEF FindToken, At, NamesMinted, Fits
  <2> QED
    BY <1>1, <1>2, <1>3, <1>9, <2>1 DEF FindToken, At, Steps, PCs, Settled, NamesMinted
<1>10. CASE Abort(q)
  BY <1>3, <1>10 DEF Abort, Steps
<1> QED
  BY <1>4, <1>5, <1>6, <1>7, <1>8, <1>9, <1>10

Ops == {"login", "register", "resend", "forgot", "verify", "reset", "oidc", "erase"}

LEMMA ArriveKeepsInv ==
  ASSUME AccountsInv, NEW q \in Requests, NEW op \in Ops,
         NEW pc \in {"find", "create", "token", "subject", "erase"},
         NEW user \in Users \cup {Nothing}, NEW mailbox \in Mailboxes \cup {Nothing},
         NEW pw \in Passwords \cup {Nothing}, NEW token \in Tokens \cup {Nothing},
         NEW subject \in Subjects \cup {Nothing},
         Arrive(q, op, pc, user, mailbox, pw, token, subject),
         Fits([op |-> op, pc |-> pc, user |-> user, mailbox |-> mailbox,
               password |-> pw, token |-> token, subject |-> subject])
  PROVE  AccountsInv'
<1> DEFINE r == [op |-> op, pc |-> pc, user |-> user, mailbox |-> mailbox,
                 password |-> pw, token |-> token, subject |-> subject]
<1>1. /\ r \in Request /\ r.pc = pc /\ Fits(r)
      /\ req' = [req EXCEPT ![q] = r]
      /\ UNCHANGED <<accountVars, tokenVars, historyVars, sessions, authors>>
  BY DEF Request, Arrive, Ops
<1> HIDE DEF r
<1> USE DEF accountVars, tokenVars, historyVars
<1>2. req'[q] = r /\ \A p \in Requests : p # q => req'[p] = req[p]
  BY <1>1 DEF AccountsInv, TypeOK
<1>3. TypeOK'
  BY <1>1 DEF AccountsInv, TypeOK
<1>4. NamesMinted'
  BY <1>1, <1>2 DEF AccountsInv, NamesMinted, Fits
<1>5. OneUsePerToken'
  BY <1>1, <1>2 DEF AccountsInv, OneUsePerToken, PastConsume, At
<1>6. ClearedBeforeMarked'
  BY <1>1, <1>2 DEF AccountsInv, ClearedBeforeMarked, At
<1>7. ErasedHasNoPassword' /\ ArmedOnlyByMail'
  BY <1>1 DEF AccountsInv, ErasedHasNoPassword, ArmedOnlyByMail
<1> QED
  BY <1>3, <1>4, <1>5, <1>6, <1>7 DEF AccountsInv

LEMMA SubmitKeepsInv ==
  ASSUME AccountsInv, NEW q \in Requests, Submit(q)
  PROVE  AccountsInv'
<1>1. \A s \in sessions : s.user \in Live => s.user \in minted /\ s.user \in Users
  BY DEF AccountsInv, TypeOK, Live
<1>2. \A s \in Subjects : Vouches[s] \in Mailboxes
  BY AccountsAssumption DEF AccountsAssumption
<1>3. CASE \E e \in Mailboxes, p \in Passwords :
             Arrive(q, "login", "find", Nothing, e, p, Nothing, Nothing)
  BY <1>3, ArriveKeepsInv DEF Fits, Ops, Settled
<1>4. CASE \E e \in Mailboxes, p \in Passwords :
             Arrive(q, "register", "create", Nothing, e, p, Nothing, Nothing)
  BY <1>4, ArriveKeepsInv DEF Fits, Ops, Settled
<1>5. CASE \E e \in Mailboxes, op \in {"resend", "forgot"} :
             Arrive(q, op, "find", Nothing, e, Nothing, Nothing, Nothing)
  BY <1>5, ArriveKeepsInv DEF Fits, Ops, Settled
<1>6. CASE \E k \in Tokens :
             Arrive(q, "verify", "token", Nothing, Nothing, Nothing, k, Nothing)
  BY <1>6, ArriveKeepsInv DEF Fits, Ops, Settled
<1>7. CASE \E k \in Tokens, p \in Passwords :
             Arrive(q, "reset", "token", Nothing, Nothing, p, k, Nothing)
  BY <1>7, ArriveKeepsInv DEF Fits, Ops, Settled
<1>8. CASE \E s \in Subjects :
             Arrive(q, "oidc", "subject", Nothing, Vouches[s], Nothing, Nothing, s)
  BY <1>2, <1>8, ArriveKeepsInv DEF Fits, Ops, Settled
<1>9. CASE \E s \in sessions :
             /\ s.user \in Live
             /\ Arrive(q, "erase", "erase", s.user, Nothing, Nothing, Nothing, Nothing)
  BY <1>1, <1>9, ArriveKeepsInv DEF Fits, Ops, Settled
<1> QED
  BY <1>3, <1>4, <1>5, <1>6, <1>7, <1>8, <1>9 DEF Submit

-----------------------------------------------------------------------------
(* Statements that write.                                                  *)

LEMMA CreateUnverifiedUserKeepsInv ==
  ASSUME AccountsInv, NEW q \in Requests, CreateUnverifiedUser(q)
  PROVE  AccountsInv'
<1> USE DEF accountVars, tokenVars, historyVars
<1>1. /\ TypeOK /\ NamesMinted /\ req[q] # Nothing /\ Fits(req[q])
      /\ req[q].op \in {"register", "oidc"}
      /\ req[q].password \in Passwords \cup {Nothing}
      /\ req[q].mailbox \in Mailboxes
  BY InFlight DEF AccountsInv, NamesMinted, CreateUnverifiedUser, At, Fits
<1>2. CASE /\ Goto(q, IF req[q].op = "register" THEN "find" ELSE "again")
           /\ UNCHANGED <<rows, minted, email, password, parked>>
  <2>1. \E pc \in {"find", "again"} : Goto(q, pc)
    BY <1>2
  <2>2. Steps(q) /\ (req'[q] # Nothing => req'[q].pc \in {"find", "again"})
    BY <1>1, <2>1, StepFields DEF Steps, PCs
  <2>3. UNCHANGED <<accountVars, tokenVars, historyVars, sessions, authors>>
    BY <1>2 DEF CreateUnverifiedUser
  <2> QED
    BY <1>1, <2>2, <2>3, ReadKeepsInv DEF Settled
<1>3. ASSUME NEW u \in Users \ minted,
             rows' = rows \cup {u}, minted' = minted \cup {u},
             email' = [email EXCEPT ![u] = req[q].mailbox],
             password' = [password EXCEPT ![u] = req[q].password],
             parked' = IF req[q].op = "register" THEN parked \cup {u} ELSE parked,
             GotoWith(q, IF req[q].op = "register" THEN "issue" ELSE "clear", u)
      PROVE  AccountsInv'
  <2>1. UNCHANGED <<erased, verified, old, links, tokenVars, mailed, sessions, authors>>
    BY DEF CreateUnverifiedUser
  <2>2. \E pc \in {"issue", "clear"} : GotoWith(q, pc, u)
    BY <1>3
  <2>3. Steps(q) /\ (req'[q] # Nothing => /\ req'[q].pc \in {"issue", "clear"}
                                          /\ req'[q].user = u)
    BY <1>1, <1>3, <2>2, StepFields DEF Steps, PCs
  <2>4. TypeOK'
    BY <1>1, <1>3, <2>1, <2>3, StepTyped DEF TypeOK
  <2>5. NamesMinted'
    BY <1>1, <1>3, <2>1, <2>3, FitsKept DEF NamesMinted
  <2>6. OneUsePerToken'
    BY <1>1, <2>1, <2>3, StepFields DEF AccountsInv, OneUsePerToken, PastConsume, At
  <2>7. ErasedHasNoPassword'
    BY <1>1, <1>3, <2>1 DEF AccountsInv, ErasedHasNoPassword, TypeOK
  <2>8. ClearedBeforeMarked'
    BY <1>1, <1>3, <2>3, StepFields
    DEF AccountsInv, ClearedBeforeMarked, NamesMinted, Fits, Settled, At
  <2>9. ArmedOnlyByMail'
    BY <1>1, <1>3, <2>1 DEF AccountsInv, ArmedOnlyByMail, NamesMinted
  <2> QED
    BY <2>4, <2>5, <2>6, <2>7, <2>8, <2>9 DEF AccountsInv
<1> QED
  BY <1>2, <1>3 DEF CreateUnverifiedUser

LEMMA ClearPasswordKeepsInv ==
  ASSUME AccountsInv, NEW q \in Requests, ClearPassword(q)
  PROVE  AccountsInv'
<1> USE DEF accountVars, tokenVars, historyVars
<1>1. /\ TypeOK /\ NamesMinted /\ req[q] # Nothing /\ Fits(req[q]) /\ Steps(q)
      /\ Goto(q, "mark") /\ req[q].op = "oidc" /\ req[q].user \in minted
      /\ parked' = parked \ {req[q].user}
      /\ UNCHANGED <<rows, minted, erased, email, verified, old, links, tokenVars,
                     mailed, sessions, authors>>
  BY DEF AccountsInv, NamesMinted, ClearPassword, At, Fits, Settled, Steps, PCs
<1>2. \A u \in Users : password'[u] = password[u] \/ password'[u] = Nothing
  BY <1>1 DEF TypeOK, ClearPassword
<1>3. (req'[q].user = req[q].user /\ SameSubmission(q)) \/ req'[q] = Nothing
  BY <1>1, StepFields DEF PCs
<1>4. TypeOK'
  BY <1>1, StepTyped DEF TypeOK, ClearPassword
<1>5. NamesMinted'
  BY <1>1, <1>3, FitsKept DEF NamesMinted
<1>6. OneUsePerToken'
  BY <1>1, <1>3, StepFields
  DEF AccountsInv, OneUsePerToken, PastConsume, At, SameSubmission
<1>7. ErasedHasNoPassword'
  BY <1>1, <1>2 DEF AccountsInv, ErasedHasNoPassword, TypeOK
<1>8. ClearedBeforeMarked'
  BY <1>1, <1>3, StepFields DEF AccountsInv, ClearedBeforeMarked, At
<1>9. ArmedOnlyByMail'
  BY <1>1 DEF AccountsInv, ArmedOnlyByMail
<1> QED
  BY <1>4, <1>5, <1>6, <1>7, <1>8, <1>9 DEF AccountsInv

LEMMA MarkEmailVerifiedKeepsInv ==
  ASSUME AccountsInv, NEW q \in Requests, MarkEmailVerified(q)
  PROVE  AccountsInv'
<1> USE DEF accountVars, tokenVars, historyVars
<1>1. /\ TypeOK /\ NamesMinted /\ req[q] # Nothing /\ Fits(req[q]) /\ Steps(q)
      /\ \E pc \in {"load", "link"} : Goto(q, pc)
      /\ req[q].op \in {"verify", "oidc"} /\ req[q].user \in minted
      /\ verified' = verified \cup ({req[q].user} \cap rows)
      /\ mailed \subseteq mailed' /\ mailed' \subseteq Users
      /\ req[q].op = "verify" => {req[q].user} \cap rows \subseteq mailed'
      /\ UNCHANGED <<rows, minted, erased, email, password, links, tokenVars, parked,
                     sessions, authors>>
  BY DEF AccountsInv, TypeOK, NamesMinted, MarkEmailVerified, At, Fits, Settled, Steps, PCs
<1>2. \/ req'[q] = Nothing
      \/ req'[q].pc \in {"load", "link"} /\ req'[q].user = req[q].user
  BY <1>1, StepFields DEF PCs
<1>3. TypeOK'
  BY <1>1, StepTyped DEF TypeOK, MarkEmailVerified
<1>4. NamesMinted'
  BY <1>1, <1>2, FitsKept DEF NamesMinted, TypeOK
<1>5. OneUsePerToken'
  BY <1>1, <1>2, StepFields DEF AccountsInv, OneUsePerToken, PastConsume, At
<1>6. ErasedHasNoPassword'
  BY <1>1 DEF AccountsInv, ErasedHasNoPassword
<1>7. ClearedBeforeMarked'
  BY <1>1, <1>2, StepFields DEF AccountsInv, ClearedBeforeMarked, At
<1>8. req[q].op = "oidc" => req[q].user \notin parked
  BY <1>1 DEF AccountsInv, ClearedBeforeMarked, MarkEmailVerified, At
<1>9. ArmedOnlyByMail'
  BY <1>1, <1>8 DEF AccountsInv, ArmedOnlyByMail
<1> QED
  BY <1>3, <1>4, <1>5, <1>6, <1>7, <1>9 DEF AccountsInv

LEMMA LinkOIDCAccountKeepsInv ==
  ASSUME AccountsInv, NEW q \in Requests, LinkOIDCAccount(q)
  PROVE  AccountsInv'
<1> USE DEF accountVars, tokenVars, historyVars
<1>1. /\ TypeOK /\ NamesMinted /\ req[q] # Nothing /\ Fits(req[q]) /\ Steps(q)
      /\ (Goto(q, "load") \/ Finish(q))
      /\ req[q].subject \in Subjects /\ req[q].user \in minted
      /\ UNCHANGED <<rows, minted, erased, email, password, verified, old, tokenVars,
                     historyVars, sessions, authors>>
  BY DEF AccountsInv, NamesMinted, LinkOIDCAccount, At, Fits, Settled, Steps, PCs
<1>2. \/ req'[q] = Nothing
      \/ req'[q].pc = "load" /\ req'[q].user = req[q].user
  BY <1>1, StepFields DEF PCs
<1>3. links' \in [Subjects -> Users \cup {Nothing}]
  BY <1>1 DEF TypeOK, LinkOIDCAccount
<1>4. TypeOK'
  BY <1>1, <1>3, StepTyped DEF TypeOK
<1>5. NamesMinted'
  BY <1>1, <1>2, FitsKept DEF NamesMinted
<1>6. OneUsePerToken'
  BY <1>1, <1>2, StepFields DEF AccountsInv, OneUsePerToken, PastConsume, At
<1>7. ClearedBeforeMarked'
  BY <1>1, <1>2, StepFields DEF AccountsInv, ClearedBeforeMarked, At
<1>8. ErasedHasNoPassword' /\ ArmedOnlyByMail'
  BY <1>1 DEF AccountsInv, ErasedHasNoPassword, ArmedOnlyByMail
<1> QED
  BY <1>4, <1>5, <1>6, <1>7, <1>8 DEF AccountsInv

LEMMA IssueTokenKeepsInv ==
  ASSUME AccountsInv, NEW q \in Requests, IssueToken(q)
  PROVE  AccountsInv'
<1> USE DEF accountVars, tokenVars, historyVars
<1>1. /\ TypeOK /\ NamesMinted /\ req[q] # Nothing /\ Finish(q) /\ Steps(q)
      /\ req[q].user \in minted /\ minted \subseteq Users
      /\ UNCHANGED <<accountVars, spent, expired, historyVars, sessions, authors>>
  BY DEF AccountsInv, TypeOK, NamesMinted, IssueToken, At, Fits, Settled, Steps
<1>2. req'[q] = Nothing
  BY <1>1, StepFields
<1>3. \/ tokens' = tokens
      \/ \E k \in Tokens, kind \in {"verify", "reset"} :
           tokens' = [tokens EXCEPT ![k] = [kind |-> kind, user |-> req[q].user]]
  BY DEF IssueToken
<1>4. \A k \in Tokens : \/ tokens'[k] = tokens[k]
                         \/ /\ tokens'[k] \in Token
                            /\ tokens'[k].user = req[q].user
  BY <1>1, <1>3 DEF TypeOK, Token
<1>10. tokens' \in [Tokens -> Token \cup {Nothing}]
  <2>1. \A kind \in {"verify", "reset"} : [kind |-> kind, user |-> req[q].user] \in Token
    BY <1>1 DEF Token
  <2> QED
    BY <1>1, <1>3, <2>1 DEF TypeOK
<1>11. \A k \in Tokens : tokens'[k] # Nothing => tokens'[k].user \in minted
  BY <1>1, <1>4 DEF NamesMinted
<1>5. TypeOK'
  BY <1>1, <1>10, StepTyped DEF TypeOK
<1>6. NamesMinted'
  BY <1>1, <1>2, <1>11, FitsKept DEF NamesMinted
<1>7. OneUsePerToken'
  BY <1>1, <1>2, StepFields DEF AccountsInv, OneUsePerToken, PastConsume, At
<1>8. ClearedBeforeMarked'
  BY <1>1, <1>2, StepFields DEF AccountsInv, ClearedBeforeMarked, At
<1>9. ErasedHasNoPassword' /\ ArmedOnlyByMail'
  BY <1>1 DEF AccountsInv, ErasedHasNoPassword, ArmedOnlyByMail
<1> QED
  BY <1>5, <1>6, <1>7, <1>8, <1>9 DEF AccountsInv

\* The guarded UPDATE lets a request pass only when no other one has.
LEMMA ConsumeTokenKeepsInv ==
  ASSUME AccountsInv, NEW q \in Requests, ConsumeToken(q)
  PROVE  AccountsInv'
<1> USE DEF accountVars, tokenVars, historyVars
<1>1. /\ TypeOK /\ NamesMinted /\ req[q] # Nothing /\ Fits(req[q]) /\ Steps(q)
      /\ req[q].op \in {"verify", "reset"} /\ req[q].token \in Tokens
      /\ req[q].user \in minted
      /\ UNCHANGED <<accountVars, tokens, expired, historyVars, sessions, authors>>
  BY DEF AccountsInv, NamesMinted, ConsumeToken, At, Fits, Settled, Steps, PCs
<1>2. \/ /\ req'[q] = Nothing
         /\ spent' = spent
      \/ /\ req'[q].pc \in {"mark", "store"} /\ req'[q].user = req[q].user
         /\ spent' = spent \cup {req[q].token} /\ req[q].token \notin spent
  <2>1. CASE req[q].token \notin spent
    <3>1. \E pc \in {"mark", "store"} : Goto(q, pc)
      BY <2>1 DEF ConsumeToken
    <3>2. req'[q].pc \in {"mark", "store"} /\ req'[q].user = req[q].user
      BY <1>1, <3>1, StepFields DEF PCs
    <3> QED
      BY <2>1, <3>2 DEF ConsumeToken
  <2>2. CASE req[q].token \in spent
    BY <1>1, <2>2, StepFields DEF ConsumeToken
  <2> QED
    BY <2>1, <2>2
<1>3. /\ req'[q] # Nothing => SameSubmission(q)
      /\ \A p \in Requests : p # q => req'[p] = req[p]
  BY <1>1, StepFields
<1>4. TypeOK'
  BY <1>1, <1>2, StepTyped DEF TypeOK
<1>5. NamesMinted'
  BY <1>1, <1>2, FitsKept DEF NamesMinted
<1>6. \A p \in Requests : PastConsume(p) => req[p].token \in spent
  BY DEF AccountsInv, OneUsePerToken
<1>7. \A p \in Requests : p # q => (PastConsume(p)' <=> PastConsume(p))
  BY <1>3 DEF PastConsume, At
<1>8. PastConsume(q)' => /\ spent' = spent \cup {req[q].token}
                         /\ req[q].token \notin spent
                         /\ req'[q].token = req[q].token
  BY <1>2, <1>3 DEF PastConsume, At, SameSubmission
<1>9. OneUsePerToken'
  <2>1. ASSUME NEW p \in Requests, PastConsume(p)'
        PROVE  req'[p].token \in spent'
    BY <1>2, <1>3, <1>6, <1>7, <1>8, <2>1
  <2>2. ASSUME NEW p \in Requests, PastConsume(p)', PastConsume(q)',
               req'[p].token = req'[q].token
        PROVE  p = q
    BY <1>3, <1>6, <1>7, <1>8, <2>2
  <2>3. ASSUME NEW p \in Requests, NEW x \in Requests, p # q, x # q,
               PastConsume(p)', PastConsume(x)', req'[p].token = req'[x].token
        PROVE  p = x
    BY <1>3, <1>7, <2>3 DEF AccountsInv, OneUsePerToken
  <2> QED
    BY <2>1, <2>2, <2>3 DEF OneUsePerToken
<1>10. ClearedBeforeMarked'
  BY <1>1, <1>2, <1>3 DEF AccountsInv, ClearedBeforeMarked, At, SameSubmission
<1>11. ErasedHasNoPassword' /\ ArmedOnlyByMail'
  BY <1>1 DEF AccountsInv, ErasedHasNoPassword, ArmedOnlyByMail
<1> QED
  BY <1>4, <1>5, <1>9, <1>10, <1>11 DEF AccountsInv

LEMMA UpdateUserPasswordKeepsInv ==
  ASSUME AccountsInv, NEW q \in Requests, UpdateUserPassword(q)
  PROVE  AccountsInv'
<1> USE DEF accountVars, tokenVars, historyVars
<1>1. /\ TypeOK /\ NamesMinted /\ req[q] # Nothing /\ Fits(req[q]) /\ Steps(q)
      /\ (Goto(q, "drop") \/ Finish(q))
      /\ req[q].op = "reset" /\ req[q].pc = "store"
      /\ req[q].user \in minted /\ req[q].password \in Passwords
      /\ parked' \subseteq parked
      /\ UNCHANGED <<rows, minted, erased, email, verified, old, links, tokenVars,
                     mailed, sessions, authors>>
  BY DEF AccountsInv, NamesMinted, UpdateUserPassword, At, Fits, Settled, Steps, PCs
<1>2. \/ req'[q] = Nothing
      \/ req'[q].pc = "drop" /\ req'[q].user = req[q].user /\ SameSubmission(q)
  BY <1>1, StepFields DEF PCs
<1>3. /\ password' \in [Users -> Passwords \cup {Nothing}]
      /\ \A u \in erased : password'[u] = password[u]
  BY <1>1 DEF TypeOK, UpdateUserPassword, Live
<1>4. TypeOK'
  BY <1>1, <1>3, StepTyped DEF TypeOK
<1>5. NamesMinted'
  BY <1>1, <1>2, FitsKept DEF NamesMinted
<1>6. PastConsume(q)
  BY <1>1 DEF PastConsume, At
<1>7. OneUsePerToken'
  BY <1>1, <1>2, <1>6, StepFields
  DEF AccountsInv, OneUsePerToken, PastConsume, At, SameSubmission
<1>8. ErasedHasNoPassword'
  BY <1>1, <1>3 DEF AccountsInv, ErasedHasNoPassword
<1>9. ClearedBeforeMarked'
  BY <1>1, <1>2, StepFields DEF AccountsInv, ClearedBeforeMarked, At
<1>10. ArmedOnlyByMail'
  BY <1>1 DEF AccountsInv, ArmedOnlyByMail
<1> QED
  BY <1>4, <1>5, <1>7, <1>8, <1>9, <1>10 DEF AccountsInv

LEMMA DeleteSessionsForUserKeepsInv ==
  ASSUME AccountsInv, NEW q \in Requests, DeleteSessionsForUser(q)
  PROVE  AccountsInv'
<1> USE DEF accountVars, tokenVars, historyVars
<1>1. /\ TypeOK /\ NamesMinted /\ req[q] # Nothing /\ Fits(req[q]) /\ Steps(q)
      /\ Goto(q, "load") /\ req[q].user \in minted
      /\ sessions' \subseteq sessions
      /\ UNCHANGED <<accountVars, tokenVars, historyVars, authors>>
  BY DEF AccountsInv, NamesMinted, DeleteSessionsForUser, At, Fits, Settled, Steps, PCs
<1>2. req'[q].pc = "load" /\ req'[q].user = req[q].user
  BY <1>1, StepFields DEF PCs
<1>3. TypeOK'
  BY <1>1, StepTyped DEF TypeOK
<1>4. NamesMinted'
  BY <1>1, <1>2, FitsKept DEF NamesMinted
<1>5. OneUsePerToken'
  BY <1>1, <1>2, StepFields DEF AccountsInv, OneUsePerToken, PastConsume, At
<1>6. ClearedBeforeMarked'
  BY <1>1, <1>2, StepFields DEF AccountsInv, ClearedBeforeMarked, At
<1>7. ErasedHasNoPassword' /\ ArmedOnlyByMail'
  BY <1>1 DEF AccountsInv, ErasedHasNoPassword, ArmedOnlyByMail
<1> QED
  BY <1>3, <1>4, <1>5, <1>6, <1>7 DEF AccountsInv

LEMMA CreateSessionKeepsInv ==
  ASSUME AccountsInv, NEW q \in Requests, CreateSession(q)
  PROVE  AccountsInv'
<1> USE DEF accountVars, tokenVars, historyVars
<1>1. /\ TypeOK /\ NamesMinted /\ req[q] # Nothing /\ Finish(q) /\ Steps(q)
      /\ UNCHANGED <<accountVars, tokenVars, historyVars, authors>>
      /\ Fits(req[q]) /\ req[q].user \in Users
      /\ req[q].op \in {"login", "verify", "reset", "oidc"}
  BY DEF AccountsInv, TypeOK, NamesMinted, CreateSession, At, Fits, Settled, Steps
<1>2. req'[q] = Nothing
  BY <1>1, StepFields
<1>3. Opener(req[q]) \in Passwords \cup Subjects \cup {"mail"}
  BY <1>1 DEF Opener, Fits
<1>4. [user |-> req[q].user, by |-> Opener(req[q])] \in Session
  BY <1>1, <1>3 DEF Session
<1>5. sessions' \subseteq Session
  BY <1>1, <1>4 DEF TypeOK, CreateSession
<1>6. TypeOK'
  BY <1>1, <1>5, StepTyped DEF TypeOK
<1>7. NamesMinted'
  BY <1>1, <1>2, FitsKept DEF NamesMinted
<1>8. OneUsePerToken'
  BY <1>1, <1>2, StepFields DEF AccountsInv, OneUsePerToken, PastConsume, At
<1>9. ClearedBeforeMarked'
  BY <1>1, <1>2, StepFields DEF AccountsInv, ClearedBeforeMarked, At
<1>10. ErasedHasNoPassword' /\ ArmedOnlyByMail'
  BY <1>1 DEF AccountsInv, ErasedHasNoPassword, ArmedOnlyByMail
<1> QED
  BY <1>6, <1>7, <1>8, <1>9, <1>10 DEF AccountsInv

LEMMA EraseUserKeepsInv ==
  ASSUME AccountsInv, NEW q \in Requests, EraseUser(q)
  PROVE  AccountsInv'
<1> USE DEF accountVars, tokenVars, historyVars
<1>1. /\ TypeOK /\ NamesMinted /\ req[q] # Nothing /\ Finish(q) /\ Steps(q)
      /\ UNCHANGED <<rows, minted, verified, old, tokenVars, authors>>
      /\ req[q].user \in Users
  BY DEF AccountsInv, TypeOK, NamesMinted, EraseUser, At, Fits, Settled, Steps
<1>2. /\ erased' = erased \cup ({req[q].user} \cap rows)
      /\ email' = IF req[q].user \in Live THEN [email EXCEPT ![req[q].user] = Nothing]
                  ELSE email
      /\ password' = IF req[q].user \in Live
                     THEN [password EXCEPT ![req[q].user] = Nothing] ELSE password
      /\ sessions' \subseteq sessions
      /\ links' = [s \in Subjects |-> IF links[s] = req[q].user THEN Nothing ELSE links[s]]
      /\ parked' = parked \ {req[q].user} /\ mailed' = mailed \ {req[q].user}
  BY DEF EraseUser
<1>3. req'[q] = Nothing
  BY <1>1, StepFields
<1>4. TypeOK'
  <2>1. links' \in [Subjects -> Users \cup {Nothing}]
    BY <1>1, <1>2 DEF TypeOK
  <2>2. /\ email' \in [Users -> Mailboxes \cup {Nothing}]
        /\ password' \in [Users -> Passwords \cup {Nothing}]
    BY <1>1, <1>2 DEF TypeOK
  <2> QED
    BY <1>1, <1>2, <2>1, <2>2, StepTyped DEF TypeOK
<1>5. NamesMinted'
  BY <1>1, <1>3, FitsKept DEF NamesMinted
<1>6. OneUsePerToken'
  BY <1>1, <1>3, StepFields DEF AccountsInv, OneUsePerToken, PastConsume, At
<1>7. ClearedBeforeMarked'
  BY <1>1, <1>2, <1>3, StepFields DEF AccountsInv, ClearedBeforeMarked, At
<1>8. ErasedHasNoPassword'
  BY <1>1, <1>2 DEF AccountsInv, ErasedHasNoPassword, Live, TypeOK
<1>9. ArmedOnlyByMail'
  BY <1>1, <1>2 DEF AccountsInv, ArmedOnlyByMail
<1> QED
  BY <1>4, <1>5, <1>6, <1>7, <1>8, <1>9 DEF AccountsInv

-----------------------------------------------------------------------------
(* What no request does.                                                   *)

LEMMA DeleteUnverifiedUsersKeepsInv ==
  ASSUME AccountsInv, DeleteUnverifiedUsers
  PROVE  AccountsInv'
<1> USE DEF accountVars, tokenVars, historyVars
<1>1. PICK batch \in SUBSET old :
        /\ batch \cap authors = {}
        /\ rows' = rows \ batch /\ erased' = erased \ batch
        /\ sessions' = {s \in sessions : s.user \notin batch}
        /\ links' = [s \in Subjects |-> IF links[s] \in batch THEN Nothing ELSE links[s]]
        /\ Forget(batch)
  BY DEF DeleteUnverifiedUsers
<1>2. TypeOK /\ UNCHANGED <<minted, verified, tokens, expired, authors, req>>
  BY DEF AccountsInv, DeleteUnverifiedUsers
<1>3. TypeOK'
  <2>1. /\ email' \in [Users -> Mailboxes \cup {Nothing}]
        /\ password' \in [Users -> Passwords \cup {Nothing}]
        /\ links' \in [Subjects -> Users \cup {Nothing}]
    BY <1>1, <1>2 DEF TypeOK, Forget
  <2>2. /\ rows' \subseteq minted' /\ minted' \subseteq Users
        /\ erased' \subseteq rows' /\ verified' \subseteq Users
        /\ old' \subseteq rows' /\ authors' \subseteq rows'
        /\ spent' \subseteq Tokens /\ expired' \subseteq Tokens
        /\ sessions' \subseteq Session
        /\ parked' \subseteq Users /\ mailed' \subseteq Users
    BY <1>1, <1>2 DEF TypeOK, Forget
  <2> QED
    BY <1>2, <2>1, <2>2 DEF TypeOK
<1>4. NamesMinted'
  BY <1>2 DEF AccountsInv, NamesMinted, Fits
<1>5. OneUsePerToken'
  BY <1>1, <1>2 DEF AccountsInv, OneUsePerToken, PastConsume, At, Forget
<1>6. ClearedBeforeMarked'
  BY <1>1, <1>2 DEF AccountsInv, ClearedBeforeMarked, At, Forget
<1>7. ErasedHasNoPassword'
  BY <1>1, <1>2 DEF AccountsInv, ErasedHasNoPassword, Forget, TypeOK
<1>8. ArmedOnlyByMail'
  BY <1>1, <1>2 DEF AccountsInv, ArmedOnlyByMail, Forget
<1> QED
  BY <1>3, <1>4, <1>5, <1>6, <1>7, <1>8 DEF AccountsInv

LEMMA EnvironmentKeepsInv ==
  ASSUME AccountsInv, Environment
  PROVE  AccountsInv'
<1> USE DEF accountVars, tokenVars, historyVars
<1>1. ASSUME UNCHANGED <<rows, minted, erased, email, password, verified, links, tokens,
                         historyVars, req>>,
             /\ old' \subseteq rows /\ spent \subseteq spent' /\ spent' \subseteq Tokens
             /\ expired' \subseteq Tokens /\ sessions' \subseteq sessions
             /\ authors' \subseteq rows
      PROVE  AccountsInv'
  <2>1. TypeOK'
    BY <1>1 DEF AccountsInv, TypeOK
  <2>2. NamesMinted' /\ ClearedBeforeMarked'
    BY <1>1 DEF AccountsInv, NamesMinted, Fits, ClearedBeforeMarked, At
  <2>3. OneUsePerToken'
    BY <1>1 DEF AccountsInv, OneUsePerToken, PastConsume, At
  <2>4. ErasedHasNoPassword' /\ ArmedOnlyByMail'
    BY <1>1 DEF AccountsInv, ErasedHasNoPassword, ArmedOnlyByMail
  <2> QED
    BY <2>1, <2>2, <2>3, <2>4 DEF AccountsInv
<1>2. TypeOK
  BY DEF AccountsInv
<1>3. CASE EndSession
  BY <1>1, <1>2, <1>3 DEF EndSession, TypeOK
<1>4. CASE TokenExpires
  BY <1>1, <1>2, <1>4 DEF TokenExpires, TypeOK
<1>5. CASE PurgeExpiredTokens
  BY <1>1, <1>2, <1>5 DEF PurgeExpiredTokens, TypeOK
<1>6. CASE RowAges
  BY <1>1, <1>2, <1>6 DEF RowAges, TypeOK
<1>7. CASE Post
  BY <1>1, <1>2, <1>7 DEF Post, TypeOK, Live
<1> QED
  BY <1>3, <1>4, <1>5, <1>6, <1>7, DeleteUnverifiedUsersKeepsInv DEF Environment

-----------------------------------------------------------------------------

LEMMA InitEstablishesInv == Init => AccountsInv
<1> SUFFICES ASSUME Init PROVE AccountsInv
  OBVIOUS
<1>1. TypeOK
  BY DEF Init, TypeOK
<1>2. NamesMinted /\ ClearedBeforeMarked
  BY DEF Init, NamesMinted, ClearedBeforeMarked, At
<1>3. OneUsePerToken /\ ErasedHasNoPassword /\ ArmedOnlyByMail
  BY DEF Init, OneUsePerToken, PastConsume, At, ErasedHasNoPassword, ArmedOnlyByMail
<1> QED
  BY <1>1, <1>2, <1>3 DEF AccountsInv

LEMMA StepKeepsInv == AccountsInv /\ [Next]_vars => AccountsInv'
<1> SUFFICES ASSUME AccountsInv, [Next]_vars PROVE AccountsInv'
  OBVIOUS
<1>1. ASSUME NEW q \in Requests, Submit(q) PROVE AccountsInv'
  BY <1>1, SubmitKeepsInv
<1>2. ASSUME NEW q \in Requests, Proceed(q) PROVE AccountsInv'
  BY <1>2, LookupsKeepInv, CreateUnverifiedUserKeepsInv, ClearPasswordKeepsInv,
     MarkEmailVerifiedKeepsInv, LinkOIDCAccountKeepsInv, IssueTokenKeepsInv,
     ConsumeTokenKeepsInv, UpdateUserPasswordKeepsInv,
     DeleteSessionsForUserKeepsInv, CreateSessionKeepsInv, EraseUserKeepsInv
  DEF Proceed
<1>3. ASSUME NEW q \in Requests, Abort(q) PROVE AccountsInv'
  BY <1>3, LookupsKeepInv
<1>4. CASE Environment
  BY <1>4, EnvironmentKeepsInv
<1>5. CASE UNCHANGED vars
  <2>1. TypeOK' /\ NamesMinted' /\ ClearedBeforeMarked'
    BY <1>5 DEF vars, AccountsInv, TypeOK, NamesMinted, Fits, ClearedBeforeMarked, At
  <2>2. OneUsePerToken' /\ ErasedHasNoPassword' /\ ArmedOnlyByMail'
    BY <1>5 DEF vars, AccountsInv, OneUsePerToken, PastConsume, At, ErasedHasNoPassword,
                ArmedOnlyByMail
  <2> QED
    BY <2>1, <2>2 DEF AccountsInv
<1> QED
  BY <1>1, <1>2, <1>3, <1>4, <1>5 DEF Next

\* The inductive invariant holds in every reachable state: whatever requests arrive,
\* in whatever order their statements commit and wherever they die.
THEOREM AccountsInvHolds == Spec => []AccountsInv
  BY InitEstablishesInv, StepKeepsInv, PTL DEF Spec

\* Types and foreign keys. (store/migrations/00001_init.sql.)
THEOREM AccountsTyped == Spec => []TypeOK
<1>1. AccountsInv => TypeOK
  BY DEF AccountsInv
<1> QED
  BY <1>1, AccountsInvHolds, PTL

\* A mailed token lets one request through, for any number of requests racing on
\* it. (auth.ConsumePasswordResetToken, auth.ConsumeEmailVerificationToken.)
THEOREM TokensWorkOnce == Spec => []OneUsePerToken
<1>1. AccountsInv => OneUsePerToken
  BY DEF AccountsInv
<1> QED
  BY <1>1, AccountsInvHolds, PTL

\* No reset in flight brings back the password of an erased account.
\* (auth.UpdateUserPassword.)
THEOREM ErasureIsFinal == Spec => []ErasedHasNoPassword
<1>1. AccountsInv => ErasedHasNoPassword
  BY DEF AccountsInv
<1> QED
  BY <1>1, AccountsInvHolds, PTL

\* A password parked on somebody's address by a registration is armed by the mailed
\* token alone, never by a login through the provider. (auth.verifyAndLink.)
THEOREM ProviderNeverArmsPassword == Spec => []ArmedOnlyByMail
<1>1. AccountsInv => ArmedOnlyByMail
  BY DEF AccountsInv
<1> QED
  BY <1>1, AccountsInvHolds, PTL

=============================================================================
