------------------------------ MODULE Finances ------------------------------
(***************************************************************************)
(* A team's money: booked transactions, the penalty catalogue, fines (its  *)
(* penalty assignments) and membership fees (its contributions).  What was *)
(* paid towards a fine or a fee is never stored: it is the sum of the      *)
(* income transactions linked to it.                                       *)
(*                                                                         *)
(* One statement is one step.  Requests that read before they write are in *)
(* flight between their statements (req); those of a single statement are  *)
(* one action.  Every route needs finances:write, which the middleware     *)
(* reads before the request starts: the model has the requests let in.     *)
(***************************************************************************)
EXTENDS Integers, Sequences, FiniteSets, Functions, FiniteSetsExt, Sums

CONSTANTS
  Teams, Users,
  Amounts,                  \* amounts in cents, after validate.PositiveAmount
  Ids,                      \* bound: ids a table hands out, in this order
  Slots, Idle,              \* requests in flight
  MaxTransactionsPerTeam, MaxAssignmentsPerTeam, MaxContributionsPerTeam,
  MaxPenaltiesPerTeam, MaxOverviewRows

ASSUME FinancesAssumption ==
  /\ Amounts \subseteq Nat \ {0}
  /\ Ids \subseteq Nat \ {0}
  /\ MaxOverviewRows \in Nat

None == 0                   \* NULL

VARIABLES
  members,        \* memberships: pairs of team and user
  transactions, penalties, assignments, contributions,   \* id |-> row
  used,           \* per table, the ids handed out so far
  req,            \* per slot, Idle or the request it serves
  overview        \* the finance overview being read, or Idle

tables == <<transactions, penalties, assignments, contributions>>
vars == <<members, transactions, penalties, assignments, contributions, used, req, overview>>

Types == {"income", "expense"}

TransactionRow == [team : Teams, type : Types, amount : Amounts,
                   contribution : Ids \cup {None}, assignment : Ids \cup {None}]
PenaltyRow == [team : Teams, amount : Amounts]
\* amount is the penalty's when the fine was given; None before migration 25.
AssignmentRow == [team : Teams, user : Users, penalty : Ids \cup {None},
                  amount : Amounts \cup {None}]
ContributionRow == [team : Teams, user : Users, amount : Amounts, archived : BOOLEAN]

Put(f, x, v) == [y \in DOMAIN f \cup {x} |-> IF y = x THEN v ELSE f[y]]
Drop(f, x) == Restrict(f, DOMAIN f \ {x})
Fresh(table) == Ids \ used[table]
NextId(table) == Min(Fresh(table))
Using(table, S) == [used EXCEPT ![table] = @ \cup S]

Free(s) == req[s] = Idle
At(s, op, pc) == ~Free(s) /\ req[s].op = op /\ req[s].pc = pc
Start(s, r) == Free(s) /\ req' = [req EXCEPT ![s] = r]
Finish(s) == req' = [req EXCEPT ![s] = Idle]

InTeam(f, t) == {i \in DOMAIN f : f[i].team = t}

-----------------------------------------------------------------------------
(* Amounts derived from the linked transactions.                           *)

Amount(rows) == [i \in DOMAIN rows |-> rows[i].amount]

PaidToFee(txs, c) ==
  Total(Amount(txs),
        {i \in DOMAIN txs : txs[i].contribution = c /\ txs[i].type = "income"})

PaidToFine(txs, a) ==
  Total(Amount(txs),
        {i \in DOMAIN txs : txs[i].assignment = a /\ txs[i].type = "income"})

SumTransactions(txs, t, type) ==
  Total(Amount(txs), {i \in InTeam(txs, t) : txs[i].type = type})

Cash(txs, t) == SumTransactions(txs, t, "income") - SumTransactions(txs, t, "expense")

ContributionStatus(paid, amount) ==
  IF paid <= 0 THEN "open" ELSE IF paid >= amount THEN "paid" ELSE "partial"

AssignmentPaid(paid, amount) == amount # None /\ paid >= amount

-----------------------------------------------------------------------------
(* Transactions.                                                           *)

CreateTransactionCalls ==
  [op : {"createTransaction"}, pc : {"insert"}, team : Teams, type : Types, amount : Amounts,
   contribution : Ids \cup {None}, assignment : Ids \cup {None}]

\* The cap is counted, without a lock, and the links are checked ...
AdmitTransaction(s, r) ==
  /\ Cardinality(InTeam(transactions, r.team)) < MaxTransactionsPerTeam
  /\ r.contribution = None \/ r.assignment = None
  /\ r.contribution # None =>
       r.type = "income" /\ r.contribution \in InTeam(contributions, r.team)
  /\ r.assignment # None =>
       r.type = "income" /\ r.assignment \in InTeam(assignments, r.team)
  /\ Start(s, r)
  /\ UNCHANGED <<members, tables, used, overview>>

\* ... before the insert, which fails on the foreign key of a target deleted since.
CreateTransaction(s) ==
  /\ At(s, "createTransaction", "insert")
  /\ Fresh("transactions") # {}
  /\ LET r == req[s] IN
       IF /\ r.contribution \in DOMAIN contributions \cup {None}
          /\ r.assignment \in DOMAIN assignments \cup {None}
       THEN /\ transactions' = Put(transactions, NextId("transactions"),
                 [team |-> r.team, type |-> r.type, amount |-> r.amount,
                  contribution |-> r.contribution, assignment |-> r.assignment])
            /\ used' = Using("transactions", {NextId("transactions")})
       ELSE UNCHANGED <<transactions, used>>
  /\ Finish(s)
  /\ UNCHANGED <<members, penalties, assignments, contributions, overview>>

\* A patch may set the type, the amount or both.
UpdateTransactionCalls ==
  [op : {"updateTransaction"}, pc : {"update"}, team : Teams, id : Ids,
   type : Types \cup {"same"}, amount : Amounts \cup {None}]

\* Mutant: a linked payment may become an expense.
AdmitTransactionUpdate_Unlinked(s, r) ==
  /\ Start(s, r)
  /\ UNCHANGED <<members, tables, used, overview>>

\* Only a change to an expense is looked at twice: a linked transaction stays income.
AdmitTransactionUpdate(s, r) ==
  /\ r.type = "expense" =>
       /\ r.id \in InTeam(transactions, r.team)
       /\ transactions[r.id].contribution = None
       /\ transactions[r.id].assignment = None
  /\ Start(s, r)
  /\ UNCHANGED <<members, tables, used, overview>>

Patched(row, r) ==
  [row EXCEPT !.type = IF r.type = "same" THEN @ ELSE r.type,
              !.amount = IF r.amount = None THEN @ ELSE r.amount]

UpdateTransaction(s) ==
  /\ At(s, "updateTransaction", "update")
  /\ transactions' =
       IF req[s].id \in InTeam(transactions, req[s].team)
       THEN [transactions EXCEPT ![req[s].id] = Patched(@, req[s])]
       ELSE transactions
  /\ Finish(s)
  /\ UNCHANGED <<members, penalties, assignments, contributions, used, overview>>

DeleteTransaction(t, id) ==
  /\ id \in InTeam(transactions, t)
  /\ transactions' = Drop(transactions, id)
  /\ UNCHANGED <<members, penalties, assignments, contributions, used, req, overview>>

-----------------------------------------------------------------------------
(* The penalty catalogue.                                                  *)

CreatePenaltyCalls == [op : {"createPenalty"}, pc : {"insert"}, team : Teams, amount : Amounts]

AdmitPenalty(s, r) ==
  /\ Cardinality(InTeam(penalties, r.team)) < MaxPenaltiesPerTeam
  /\ Start(s, r)
  /\ UNCHANGED <<members, tables, used, overview>>

CreatePenalty(s) ==
  /\ At(s, "createPenalty", "insert")
  /\ Fresh("penalties") # {}
  /\ penalties' = Put(penalties, NextId("penalties"),
                      [team |-> req[s].team, amount |-> req[s].amount])
  /\ used' = Using("penalties", {NextId("penalties")})
  /\ Finish(s)
  /\ UNCHANGED <<members, transactions, assignments, contributions, overview>>

UpdatePenalty(t, id, amount) ==
  /\ id \in InTeam(penalties, t)
  /\ penalties' = [penalties EXCEPT ![id].amount = amount]
  /\ UNCHANGED <<members, transactions, assignments, contributions, used, req, overview>>

\* ON DELETE SET NULL, per column that names a row of another table.
WithoutPenalty(row, id) == IF row.penalty = id THEN [row EXCEPT !.penalty = None] ELSE row
WithoutFine(row, id) == IF row.assignment = id THEN [row EXCEPT !.assignment = None] ELSE row
WithoutFee(row, id) ==
  IF row.contribution = id THEN [row EXCEPT !.contribution = None] ELSE row

\* Its fines stay, with the amount they were given.
DeletePenalty(t, id) ==
  /\ id \in InTeam(penalties, t)
  /\ penalties' = Drop(penalties, id)
  /\ assignments' = [a \in DOMAIN assignments |-> WithoutPenalty(assignments[a], id)]
  /\ UNCHANGED <<members, transactions, contributions, used, req, overview>>

-----------------------------------------------------------------------------
(* Fines.                                                                  *)

CreateAssignmentCalls ==
  [op : {"createAssignment"}, pc : {"load"}, team : Teams, user : Users, penalty : Ids,
   amount : {None}]

AdmitAssignment(s, r) ==
  /\ r.penalty \in InTeam(penalties, r.team)
  /\ <<r.team, r.user>> \in members
  /\ Cardinality(InTeam(assignments, r.team)) < MaxAssignmentsPerTeam
  /\ Start(s, r)
  /\ UNCHANGED <<members, tables, used, overview>>

\* The transaction reads the penalty's amount ...
LoadPenalty(s) ==
  /\ At(s, "createAssignment", "load")
  /\ IF req[s].penalty \in InTeam(penalties, req[s].team)
     THEN req' = [req EXCEPT ![s].pc = "insert", ![s].amount = penalties[req[s].penalty].amount]
     ELSE Finish(s)
  /\ UNCHANGED <<members, tables, used, overview>>

\* ... then inserts: WHERE EXISTS (the membership), and the penalty's foreign key.
StillCharged(r) == <<r.team, r.user>> \in members /\ r.penalty \in DOMAIN penalties

CreateAssignment(s) ==
  /\ At(s, "createAssignment", "insert")
  /\ Fresh("assignments") # {}
  /\ LET r == req[s] IN
       IF StillCharged(r)
       THEN /\ assignments' = Put(assignments, NextId("assignments"),
                 [team |-> r.team, user |-> r.user, penalty |-> r.penalty, amount |-> r.amount])
            /\ used' = Using("assignments", {NextId("assignments")})
       ELSE UNCHANGED <<assignments, used>>
  /\ Finish(s)
  /\ UNCHANGED <<members, transactions, penalties, contributions, overview>>

\* Its payments stay booked, without their link.
DeleteAssignment(t, id) ==
  /\ id \in InTeam(assignments, t)
  /\ assignments' = Drop(assignments, id)
  /\ transactions' = [i \in DOMAIN transactions |-> WithoutFine(transactions[i], id)]
  /\ UNCHANGED <<members, penalties, contributions, used, req, overview>>

-----------------------------------------------------------------------------
(* Membership fees.                                                        *)

CreateContributionsCalls ==
  [op : {"createContributions"}, pc : {"insert"}, team : Teams, amount : Amounts,
   users : (SUBSET Users) \ {{}}, done : {{}}]

AdmitContributions(s, r) ==
  /\ Cardinality(InTeam(contributions, r.team)) + Cardinality(r.users)
       <= MaxContributionsPerTeam
  /\ Start(s, r)
  /\ UNCHANGED <<members, tables, used, overview>>

\* One insert per user inside the transaction; one who is no member rolls it back.
InsertContribution(s) ==
  /\ At(s, "createContributions", "insert")
  /\ \E u \in req[s].users \ req[s].done :
       IF <<req[s].team, u>> \in members
       THEN req' = [req EXCEPT ![s].done = @ \cup {u}]
       ELSE Finish(s)
  /\ UNCHANGED <<members, tables, used, overview>>

CreateContributions(s) ==
  /\ At(s, "createContributions", "insert")
  /\ req[s].done = req[s].users
  /\ \E ids \in kSubset(Cardinality(req[s].users), Fresh("contributions")) :
       /\ \A i \in ids, j \in Fresh("contributions") \ ids : i < j
       /\ \E to \in Bijection(ids, req[s].users) :
            contributions' = [i \in DOMAIN contributions \cup ids |->
              IF i \in ids THEN [team |-> req[s].team, user |-> to[i],
                                 amount |-> req[s].amount, archived |-> FALSE]
              ELSE contributions[i]]
       /\ used' = Using("contributions", ids)
  /\ Finish(s)
  /\ UNCHANGED <<members, transactions, penalties, assignments, overview>>

\* A patch sets the amount, archives or takes out of the archive.
UpdateContribution(t, id, amount, archived) ==
  /\ id \in InTeam(contributions, t)
  /\ contributions' = [contributions EXCEPT ![id].amount = amount, ![id].archived = archived]
  /\ UNCHANGED <<members, transactions, penalties, assignments, used, req, overview>>

\* Mutant: the payments of a deleted fee are deleted with it.
DeleteContribution_Cascade(t, id) ==
  /\ id \in InTeam(contributions, t)
  /\ contributions' = Drop(contributions, id)
  /\ transactions' = Restrict(transactions,
       {i \in DOMAIN transactions : transactions[i].contribution # id})
  /\ UNCHANGED <<members, penalties, assignments, used, req, overview>>

DeleteContribution(t, id) ==
  /\ id \in InTeam(contributions, t)
  /\ contributions' = Drop(contributions, id)
  /\ transactions' = [i \in DOMAIN transactions |-> WithoutFee(transactions[i], id)]
  /\ UNCHANGED <<members, penalties, assignments, used, req, overview>>

-----------------------------------------------------------------------------
(* The overview: seven queries in one read-only REPEATABLE READ            *)
(* transaction, so all of them see the tables as the first one did.        *)

Tables == [transactions |-> transactions, penalties |-> penalties,
           assignments |-> assignments, contributions |-> contributions]

BeginOverview(t) ==
  /\ overview = Idle
  /\ overview' = [team |-> t, snapshot |-> Tables, got |-> <<>>]
  /\ UNCHANGED <<members, tables, used, req>>

\* Mutant: READ COMMITTED, every query sees what is committed by then.
WithReadTx_Committed == Tables

WithReadTx == overview.snapshot

\* Which rows the cap leaves out depends on dates and names the model has not.
Capped(ids) ==
  IF Cardinality(ids) <= MaxOverviewRows THEN ids
  ELSE CHOOSE S \in kSubset(MaxOverviewRows, ids) : TRUE

LoadTransactions(db, t) == Restrict(db.transactions, Capped(InTeam(db.transactions, t)))
ListPenalties(db, t) == Restrict(db.penalties, Capped(InTeam(db.penalties, t)))

ListAssignments(db, t) ==
  [a \in Capped(InTeam(db.assignments, t)) |->
    [user |-> db.assignments[a].user, amount |-> db.assignments[a].amount,
     paid |-> PaidToFine(db.transactions, a)]]

ListContributions(db, t) ==
  [c \in Capped(InTeam(db.contributions, t)) |->
    [amount |-> db.contributions[c].amount, archived |-> db.contributions[c].archived,
     paid |-> PaidToFee(db.transactions, c)]]

CountOpenContributions(db, t) ==
  Cardinality({c \in InTeam(db.contributions, t) :
    /\ ~db.contributions[c].archived
    /\ PaidToFee(db.transactions, c) < db.contributions[c].amount})

\* A fine without an amount is always open and adds nothing.
OpenFines(db, t) ==
  {a \in InTeam(db.assignments, t) :
    \/ db.assignments[a].amount = None
    \/ PaidToFine(db.transactions, a) < db.assignments[a].amount}

Remaining(amount, paid) == IF amount > paid THEN amount - paid ELSE 0

ListOpenPenaltiesByUser(db, t) ==
  LET open == OpenFines(db, t)
      left == [a \in open |->
                 Remaining(db.assignments[a].amount, PaidToFine(db.transactions, a))] IN
  [u \in {db.assignments[a].user : a \in open} |->
    Total(left, {a \in open : db.assignments[a].user = u})]

Queries(db, t) == <<
  LoadTransactions(db, t),
  [income |-> SumTransactions(db.transactions, t, "income"),
   expense |-> SumTransactions(db.transactions, t, "expense")],
  ListPenalties(db, t),
  ListAssignments(db, t),
  ListContributions(db, t),
  CountOpenContributions(db, t),
  ListOpenPenaltiesByUser(db, t)>>

Answered == overview # Idle /\ Len(overview.got) = 7

GetOverview ==
  /\ overview # Idle /\ ~Answered
  /\ overview' = [overview EXCEPT
       !.got = Append(@, Queries(WithReadTx, overview.team)[Len(@) + 1])]
  /\ UNCHANGED <<members, tables, used, req>>

AnswerOverview ==
  /\ Answered
  /\ overview' = Idle
  /\ UNCHANGED <<members, tables, used, req>>

-----------------------------------------------------------------------------

Join(t, u) ==
  /\ members' = members \cup {<<t, u>>}
  /\ UNCHANGED <<tables, used, req, overview>>

\* Removed from the team, or their account erased: the bookings stay.
Leave(t, u) ==
  /\ members' = members \ {<<t, u>>}
  /\ UNCHANGED <<tables, used, req, overview>>

\* A timeout, a lost connection or a crash before the commit.
Abort(s) ==
  /\ ~Free(s)
  /\ Finish(s)
  /\ UNCHANGED <<members, tables, used, overview>>

Init ==
  /\ members \in SUBSET (Teams \X Users)
  /\ transactions = <<>> /\ penalties = <<>> /\ assignments = <<>> /\ contributions = <<>>
  /\ used = [table \in {"transactions", "penalties", "assignments", "contributions"} |-> {}]
  /\ req = [s \in Slots |-> Idle]
  /\ overview = Idle

BookNext(C) ==
  \E s \in Slots : (\E r \in C : AdmitTransaction(s, r)) \/ CreateTransaction(s)

CorrectNext(C) ==
  \E s \in Slots : (\E r \in C : AdmitTransactionUpdate(s, r)) \/ UpdateTransaction(s)

PenaltyNext(C) ==
  \/ \E s \in Slots : (\E r \in C : AdmitPenalty(s, r)) \/ CreatePenalty(s)
  \/ \E t \in Teams, id \in Ids, amount \in Amounts : UpdatePenalty(t, id, amount)
  \/ \E t \in Teams, id \in Ids : DeletePenalty(t, id)

FineNext(C) ==
  \E s \in Slots :
    (\E r \in C : AdmitAssignment(s, r)) \/ LoadPenalty(s) \/ CreateAssignment(s)

FeeNext(C) ==
  \/ \E s \in Slots : \/ \E r \in C : AdmitContributions(s, r)
                      \/ InsertContribution(s) \/ CreateContributions(s)
  \/ \E t \in Teams, id \in Ids, amount \in Amounts, archived \in BOOLEAN :
       UpdateContribution(t, id, amount, archived)

DeleteNext ==
  \E t \in Teams, id \in Ids :
    DeleteTransaction(t, id) \/ DeleteAssignment(t, id) \/ DeleteContribution(t, id)

MemberNext == \E t \in Teams, u \in Users : Join(t, u) \/ Leave(t, u)

OverviewNext == (\E t \in Teams : BeginOverview(t)) \/ GetOverview \/ AnswerOverview

Next ==
  \/ BookNext(CreateTransactionCalls) \/ CorrectNext(UpdateTransactionCalls)
  \/ PenaltyNext(CreatePenaltyCalls) \/ FineNext(CreateAssignmentCalls)
  \/ FeeNext(CreateContributionsCalls)
  \/ DeleteNext \/ MemberNext \/ OverviewNext
  \/ \E s \in Slots : Abort(s)

Spec == Init /\ [][Next]_vars

-----------------------------------------------------------------------------
(* What must hold.                                                         *)

\* A linked payment is an income of the team that is owed it, pays one thing only,
\* and what it pays exists, whatever is deleted or corrected between the checks of
\* a request and its write.  (finances/service.go: Linking is income-only.)
LinksSound ==
  \A i \in DOMAIN transactions : LET row == transactions[i] IN
    /\ row.contribution = None \/ row.assignment = None
    /\ row.contribution # None =>
         row.type = "income" /\ row.contribution \in InTeam(contributions, row.team)
    /\ row.assignment # None =>
         row.type = "income" /\ row.assignment \in InTeam(assignments, row.team)

\* An overview is consistent in itself, whatever is booked while its queries run:
\* where a list is complete, the totals computed by other queries are those of the
\* rows it shows.  (finances/repository.go: WithReadTx.)
Complete(list) == Cardinality(DOMAIN list) < MaxOverviewRows

OverviewAdds ==
  Answered =>
    LET booked == overview.got[1]
        totals == overview.got[2]
        fines == overview.got[4]
        fees == overview.got[5]
        unpaid == {a \in DOMAIN fines : ~AssignmentPaid(fines[a].paid, fines[a].amount)}
        left == [a \in unpaid |-> Remaining(fines[a].amount, fines[a].paid)]
    IN
    /\ Complete(booked) =>
         /\ totals.income - totals.expense = Cash(booked, overview.team)
         /\ \A c \in DOMAIN fees : fees[c].paid = PaidToFee(booked, c)
         /\ \A a \in DOMAIN fines : fines[a].paid = PaidToFine(booked, a)
    /\ Complete(fees) =>
         overview.got[6] = Cardinality({c \in DOMAIN fees :
           ~fees[c].archived /\ ContributionStatus(fees[c].paid, fees[c].amount) # "paid"})
    /\ Complete(fines) =>
         overview.got[7] = [u \in {fines[a].user : a \in unpaid} |->
           Total(left, {a \in unpaid : fines[a].user = u})]

\* What the treasurer's books amount to: the cash of each team, and per fine and
\* fee what is due and what was paid.
Books ==
  [x \in ({"fee"} \X DOMAIN contributions) \cup ({"fine"} \X DOMAIN assignments) |->
    IF x[1] = "fee"
    THEN [team |-> contributions[x[2]].team, due |-> contributions[x[2]].amount,
          paid |-> PaidToFee(transactions, x[2])]
    ELSE [team |-> assignments[x[2]].team, due |-> assignments[x[2]].amount,
          paid |-> PaidToFine(transactions, x[2])]]

Ledger == INSTANCE Ledger WITH
  cash <- [t \in Teams |-> Cash(transactions, t)],
  claims <- Books

\* The books are a ledger: money moves only by being booked, what is paid towards a
\* fine or a fee moves with the cash of its team, to the cent, and a fine keeps the
\* amount it was given.  (finances/model.go: paid amounts never drift.)
BooksAreALedger == Ledger!LedgerSpec

=============================================================================
