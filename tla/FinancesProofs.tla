--------------------------- MODULE FinancesProofs ---------------------------
(***************************************************************************)
(* What no interleaving of requests about a team's money can break: every  *)
(* payment is linked to what its team is owed, and the tables are a ledger *)
(* (Ledger), whose paid amounts are sums that nobody stores.               *)
(***************************************************************************)
EXTENDS Finances, SumsProofs, WellFoundedInduction, TLAPS

BookedTables == {"transactions", "penalties", "assignments", "contributions"}
TransactionFields == {"team", "type", "amount", "contribution", "assignment"}
FineFields == {"team", "user", "penalty", "amount"}
FeeFields == {"team", "user", "amount", "archived"}

FinancesTypeOK ==
  /\ used \in [BookedTables -> SUBSET Ids]
  /\ DOMAIN transactions \subseteq used["transactions"]
  /\ \A i \in DOMAIN transactions : DOMAIN transactions[i] = TransactionFields
  /\ DOMAIN assignments \subseteq used["assignments"]
  /\ \A i \in DOMAIN assignments : DOMAIN assignments[i] = FineFields
  /\ DOMAIN contributions \subseteq used["contributions"]
  /\ \A i \in DOMAIN contributions : DOMAIN contributions[i] = FeeFields
  /\ DOMAIN req = Slots

\* A link leads to one row of the team, and an income only has one.
Linked(row, fees, fines) ==
  /\ row.contribution = None \/ row.assignment = None
  /\ row.contribution # None =>
       row.type = "income" /\ row.contribution \in InTeam(fees, row.team)
  /\ row.assignment # None =>
       row.type = "income" /\ row.assignment \in InTeam(fines, row.team)

\* What was checked for a booking on its way: the row it will be linked to is its
\* team's for as long as it is there, since its id is not used again.
Booking(r, fees, fines, given) ==
  /\ r.contribution = None \/ r.assignment = None
  /\ r.contribution # None =>
       /\ r.type = "income" /\ r.contribution \in given["contributions"]
       /\ r.contribution \in DOMAIN fees => fees[r.contribution].team = r.team
  /\ r.assignment # None =>
       /\ r.type = "income" /\ r.assignment \in given["assignments"]
       /\ r.assignment \in DOMAIN fines => fines[r.assignment].team = r.team

\* What was checked for a correction: what becomes an expense pays for nothing.
Correcting(r, txs, given) ==
  /\ r.type \in Types \cup {"same"}
  /\ r.type = "expense" =>
       /\ r.id \in given["transactions"]
       /\ r.id \in DOMAIN txs => /\ txs[r.id].contribution = None
                                 /\ txs[r.id].assignment = None

StandsAs(r, txs, fees, fines, given) ==
  /\ "op" \in DOMAIN r
  /\ r.op = "createTransaction" => Booking(r, fees, fines, given)
  /\ r.op = "updateTransaction" => Correcting(r, txs, given)

FinancesInv ==
  /\ FinancesTypeOK
  /\ \A s \in Slots :
       ~Free(s) => StandsAs(req[s], transactions, contributions, assignments, used)
  /\ \A i \in DOMAIN transactions : Linked(transactions[i], contributions, assignments)

LEMMA FinancesInvInit == Init => FinancesInv
<1> SUFFICES ASSUME Init PROVE FinancesInv
  OBVIOUS
<1>1. /\ DOMAIN transactions = {} /\ DOMAIN assignments = {} /\ DOMAIN contributions = {}
      /\ used \in [BookedTables -> SUBSET Ids]
      /\ DOMAIN req = Slots /\ \A s \in Slots : Free(s)
  BY DEF Init, BookedTables, Free
<1> QED
  BY <1>1 DEF FinancesInv, FinancesTypeOK

\* A set of ids has a least one.
LEMMA FreshId ==
  ASSUME NEW S, S \subseteq Nat, S # {}
  PROVE  Min(S) \in S
<1>1. IsWellFoundedOn(OpToRel(<, Nat), Nat)
  BY NatLessThanWellFounded
<1>2. PICK x \in S : \A y \in S : <<y, x>> \notin OpToRel(<, Nat)
  BY <1>1, WFMin
<1>3. \A y \in S : x <= y
  <2>1. \A y \in S : x \in Nat /\ y \in Nat /\ <<y, x>> \in Nat \X Nat
    OBVIOUS
  <2>2. \A y \in S : ~(y < x)
    BY <1>2, <2>1 DEF OpToRel
  <2> QED
    BY <2>1, <2>2
<1>4. \E z \in S : \A y \in S : z =< y
  BY <1>3
<1> QED
  BY <1>4 DEF Min

\* Tables change so that no id comes back: what is checked of a row keeps true of it
\* while it is there.
Succeed(txs, fees, fines, given, txs2, fees2, fines2, given2) ==
  /\ \A table \in BookedTables : given[table] \subseteq given2[table]
  /\ \A k \in given["contributions"] : k \in DOMAIN fees2 =>
       k \in DOMAIN fees /\ fees2[k].team = fees[k].team
  /\ \A k \in given["assignments"] : k \in DOMAIN fines2 =>
       k \in DOMAIN fines /\ fines2[k].team = fines[k].team
  /\ \A k \in given["transactions"] : k \in DOMAIN txs2 =>
       /\ k \in DOMAIN txs
       /\ txs[k].contribution = None => txs2[k].contribution = None
       /\ txs[k].assignment = None => txs2[k].assignment = None

Succession ==
  Succeed(transactions, contributions, assignments, used,
          transactions', contributions', assignments', used')

LEMMA StandsStill ==
  ASSUME NEW txs, NEW fees, NEW fines, NEW given,
         NEW txs2, NEW fees2, NEW fines2, NEW given2,
         Succeed(txs, fees, fines, given, txs2, fees2, fines2, given2),
         NEW r, StandsAs(r, txs, fees, fines, given)
  PROVE  StandsAs(r, txs2, fees2, fines2, given2)
<1>1. ASSUME Booking(r, fees, fines, given)
      PROVE  Booking(r, fees2, fines2, given2)
  BY <1>1 DEF Booking, Succeed, BookedTables
<1>2. ASSUME Correcting(r, txs, given)
      PROVE  Correcting(r, txs2, given2)
  BY <1>2 DEF Correcting, Succeed, BookedTables
<1> QED
  BY <1>1, <1>2 DEF StandsAs

LEMMA SuccessionRests ==
  ASSUME UNCHANGED <<transactions, contributions, assignments, used>>
  PROVE  Succession
BY DEF Succession, Succeed

\* A step of one request, or of none: only what moved is to be looked at.
LEMMA FinancesMove ==
  ASSUME FinancesInv, NEW s \in Slots, NEW q, req' = [req EXCEPT ![s] = q],
         q # Idle => StandsAs(q, transactions', contributions', assignments', used'),
         Succession, FinancesTypeOK',
         \A i \in DOMAIN transactions' :
           Linked(transactions'[i], contributions', assignments')
  PROVE  FinancesInv'
<1>1. req'[s] = q /\ \A o \in Slots : o # s => req'[o] = req[o]
  BY DEF FinancesInv, FinancesTypeOK
<1>2. ASSUME NEW o \in Slots, req'[o] # Idle
      PROVE  StandsAs(req'[o], transactions', contributions', assignments', used')
  <2>1. CASE o = s
    BY <1>1, <1>2, <2>1
  <2>2. CASE o # s
    <3>1. req'[o] = req[o]
      BY <1>1, <2>2
    <3>2. StandsAs(req[o], transactions, contributions, assignments, used)
      BY <1>2, <3>1 DEF FinancesInv, Free
    <3> QED
      BY <3>1, <3>2, StandsStill DEF Succession
  <2> QED
    BY <2>1, <2>2
<1> QED
  BY <1>2 DEF FinancesInv, Free

LEMMA FinancesChange ==
  ASSUME FinancesInv, UNCHANGED req, Succession, FinancesTypeOK',
         \A i \in DOMAIN transactions' :
           Linked(transactions'[i], contributions', assignments')
  PROVE  FinancesInv'
<1>1. ASSUME NEW o \in Slots, req[o] # Idle
      PROVE  StandsAs(req[o], transactions', contributions', assignments', used')
  <2>1. StandsAs(req[o], transactions, contributions, assignments, used)
    BY <1>1 DEF FinancesInv, Free
  <2> QED
    BY <2>1, StandsStill DEF Succession
<1> QED
  BY <1>1 DEF FinancesInv, Free

\* A request that comes, waits or ends without writing.
LEMMA RequestKeeps ==
  ASSUME FinancesInv, NEW s \in Slots, NEW q, req' = [req EXCEPT ![s] = q],
         q # Idle => StandsAs(q, transactions, contributions, assignments, used),
         UNCHANGED <<transactions, contributions, assignments, used>>
  PROVE  FinancesInv'
<1>1. FinancesTypeOK'
  BY DEF FinancesInv, FinancesTypeOK
<1>2. \A i \in DOMAIN transactions' :
        Linked(transactions'[i], contributions', assignments')
  BY DEF FinancesInv
<1>3. q # Idle => StandsAs(q, transactions', contributions', assignments', used')
  OBVIOUS
<1> QED
  BY <1>1, <1>2, <1>3, SuccessionRests, FinancesMove

LEMMA RequestEnds ==
  ASSUME FinancesInv, NEW s \in Slots, Finish(s),
         UNCHANGED <<transactions, contributions, assignments, used>>
  PROVE  FinancesInv'
BY RequestKeeps DEF Finish

-----------------------------------------------------------------------------

LEMMA AdmitTransactionKeeps ==
  ASSUME FinancesInv, NEW s \in Slots, NEW r \in CreateTransactionCalls,
         AdmitTransaction(s, r)
  PROVE  FinancesInv'
<1>1. "op" \in DOMAIN r /\ r.op = "createTransaction"
  BY DEF CreateTransactionCalls
<1>2. Booking(r, contributions, assignments, used)
  BY DEF Booking, AdmitTransaction, InTeam, FinancesInv, FinancesTypeOK
<1>3. StandsAs(r, transactions, contributions, assignments, used)
  BY <1>1, <1>2 DEF StandsAs
<1> QED
  BY <1>3, RequestKeeps DEF AdmitTransaction, Start, tables

LEMMA AdmitTransactionUpdateKeeps ==
  ASSUME FinancesInv, NEW s \in Slots, NEW r \in UpdateTransactionCalls,
         AdmitTransactionUpdate(s, r)
  PROVE  FinancesInv'
<1>1. "op" \in DOMAIN r /\ r.op = "updateTransaction" /\ r.type \in Types \cup {"same"}
  BY DEF UpdateTransactionCalls
<1>2. Correcting(r, transactions, used)
  BY <1>1 DEF Correcting, AdmitTransactionUpdate, InTeam, FinancesInv, FinancesTypeOK
<1>3. StandsAs(r, transactions, contributions, assignments, used)
  BY <1>1, <1>2 DEF StandsAs
<1> QED
  BY <1>3, RequestKeeps DEF AdmitTransactionUpdate, Start, tables

\* Requests that book nothing.
LEMMA OthersAdmitted ==
  ASSUME FinancesInv, NEW s \in Slots, NEW r,
         \/ r \in CreatePenaltyCalls /\ AdmitPenalty(s, r)
         \/ r \in CreateAssignmentCalls /\ AdmitAssignment(s, r)
         \/ r \in CreateContributionsCalls /\ AdmitContributions(s, r)
  PROVE  FinancesInv'
<1>1. "op" \in DOMAIN r /\ r.op \notin {"createTransaction", "updateTransaction"}
  BY DEF CreatePenaltyCalls, CreateAssignmentCalls, CreateContributionsCalls
<1>2. StandsAs(r, transactions, contributions, assignments, used)
  BY <1>1 DEF StandsAs
<1>3. req' = [req EXCEPT ![s] = r] /\ UNCHANGED tables /\ UNCHANGED used
  BY DEF AdmitPenalty, AdmitAssignment, AdmitContributions, Start
<1> QED
  BY <1>2, <1>3, RequestKeeps DEF tables

LEMMA OthersGoOn ==
  ASSUME FinancesInv, NEW s \in Slots, LoadPenalty(s) \/ InsertContribution(s)
  PROVE  FinancesInv'
<1> DEFINE r == req[s]
<1>1. /\ "op" \in DOMAIN r /\ r.op \in {"createAssignment", "createContributions"}
      /\ UNCHANGED tables /\ UNCHANGED used
  BY DEF LoadPenalty, InsertContribution, At, FinancesInv, StandsAs
<1>2. CASE Finish(s)
  BY <1>1, <1>2, RequestEnds DEF tables
<1>3. CASE \E amount : req' = [req EXCEPT ![s].pc = "insert", ![s].amount = amount]
  <2>1. PICK amount : req' = [req EXCEPT ![s].pc = "insert", ![s].amount = amount]
    BY <1>3
  <2> DEFINE q == [r EXCEPT !.pc = "insert", !.amount = amount]
  <2>2. req' = [req EXCEPT ![s] = q] /\ "op" \in DOMAIN q /\ q.op = r.op
    BY <1>1, <2>1
  <2> HIDE DEF q
  <2>3. StandsAs(q, transactions, contributions, assignments, used)
    BY <1>1, <2>2 DEF StandsAs
  <2> QED
    BY <1>1, <2>2, <2>3, RequestKeeps DEF tables
<1>4. CASE \E done : req' = [req EXCEPT ![s].done = done]
  <2>1. PICK done : req' = [req EXCEPT ![s].done = done]
    BY <1>4
  <2> DEFINE q == [r EXCEPT !.done = done]
  <2>2. req' = [req EXCEPT ![s] = q] /\ "op" \in DOMAIN q /\ q.op = r.op
    BY <1>1, <2>1
  <2> HIDE DEF q
  <2>3. StandsAs(q, transactions, contributions, assignments, used)
    BY <1>1, <2>2 DEF StandsAs
  <2> QED
    BY <1>1, <2>2, <2>3, RequestKeeps DEF tables
<1> QED
  BY <1>2, <1>3, <1>4 DEF LoadPenalty, InsertContribution

\* The insert finds what it is linked to, and that is what was checked.
LEMMA CreateTransactionKeeps ==
  ASSUME FinancesInv, NEW s \in Slots, CreateTransaction(s)
  PROVE  FinancesInv'
<1> DEFINE r == req[s]
           id == NextId("transactions")
           row == [team |-> r.team, type |-> r.type, amount |-> r.amount,
                   contribution |-> r.contribution, assignment |-> r.assignment]
<1>1. Booking(r, contributions, assignments, used) /\ Finish(s)
  BY DEF CreateTransaction, At, FinancesInv, StandsAs
<1>2. UNCHANGED <<assignments, contributions>>
  BY DEF CreateTransaction
<1>3. CASE UNCHANGED <<transactions, used>>
  BY <1>1, <1>2, <1>3, RequestEnds
<1>4. CASE /\ r.contribution \in DOMAIN contributions \cup {None}
           /\ r.assignment \in DOMAIN assignments \cup {None}
           /\ transactions' = Put(transactions, id, row)
           /\ used' = Using("transactions", {id})
  <2>1. id \in Ids /\ id \notin used["transactions"]
    BY FreshId, FinancesAssumption DEF NextId, Fresh, CreateTransaction
  <2>2. /\ used' \in [BookedTables -> SUBSET Ids]
        /\ used'["transactions"] = used["transactions"] \cup {id}
        /\ \A table \in BookedTables \ {"transactions"} : used'[table] = used[table]
    BY <1>4, <2>1 DEF Using, FinancesInv, FinancesTypeOK, BookedTables
  <2> HIDE DEF id
  <2>3. /\ DOMAIN row = TransactionFields
        /\ row.team = r.team /\ row.type = r.type /\ row.contribution = r.contribution
        /\ row.assignment = r.assignment
    BY DEF TransactionFields
  <2> HIDE DEF row
  <2>4. /\ DOMAIN transactions' = DOMAIN transactions \cup {id}
        /\ transactions'[id] = row
        /\ \A i \in DOMAIN transactions : i # id => transactions'[i] = transactions[i]
    BY <1>4 DEF Put
  <2>5. FinancesTypeOK'
    BY <1>1, <1>2, <2>2, <2>3, <2>4
      DEF FinancesInv, FinancesTypeOK, BookedTables, Finish
  <2>6. Succession
    BY <1>2, <2>1, <2>2, <2>4
      DEF Succession, Succeed, FinancesInv, FinancesTypeOK, BookedTables
  <2>7. Linked(row, contributions, assignments)
    BY <1>1, <1>4, <2>3 DEF Linked, Booking, InTeam
  <2>8. \A i \in DOMAIN transactions' :
          Linked(transactions'[i], contributions', assignments')
    BY <1>2, <2>4, <2>7 DEF FinancesInv
  <2> QED
    BY <1>1, <2>5, <2>6, <2>8, FinancesMove DEF Finish
<1> QED
  BY <1>3, <1>4 DEF CreateTransaction

\* A correction keeps the links, and makes an expense only of what has none.
LEMMA UpdateTransactionKeeps ==
  ASSUME FinancesInv, NEW s \in Slots, UpdateTransaction(s)
  PROVE  FinancesInv'
<1> DEFINE r == req[s]
<1>1. Correcting(r, transactions, used) /\ Finish(s)
  BY DEF UpdateTransaction, At, FinancesInv, StandsAs
<1>2. UNCHANGED <<assignments, contributions, used>>
  BY DEF UpdateTransaction
<1>3. CASE UNCHANGED transactions
  BY <1>1, <1>2, <1>3, RequestEnds
<1>4. CASE /\ r.id \in InTeam(transactions, r.team)
           /\ transactions' = [transactions EXCEPT ![r.id] = Patched(@, r)]
  <2> DEFINE row == transactions[r.id]
             new == Patched(row, r)
  <2>1. r.id \in DOMAIN transactions
    BY <1>4 DEF InTeam
  <2>2. /\ DOMAIN new = TransactionFields
        /\ new.team = row.team /\ new.contribution = row.contribution
        /\ new.assignment = row.assignment
        /\ new.type = IF r.type = "same" THEN row.type ELSE r.type
    BY <2>1 DEF Patched, FinancesInv, FinancesTypeOK, TransactionFields
  <2>3. /\ DOMAIN transactions' = DOMAIN transactions
        /\ transactions'[r.id] = new
        /\ \A i \in DOMAIN transactions : i # r.id => transactions'[i] = transactions[i]
    BY <1>4, <2>1
  <2> HIDE DEF new
  <2>4. FinancesTypeOK'
    BY <1>1, <1>2, <2>2, <2>3 DEF FinancesInv, FinancesTypeOK, Finish
  <2>5. Succession
    BY <1>2, <2>2, <2>3 DEF Succession, Succeed
  <2>6. Linked(row, contributions, assignments)
    BY <2>1 DEF FinancesInv
  <2>7. Linked(new, contributions, assignments)
    BY <1>1, <2>1, <2>2, <2>6 DEF Linked, Correcting, Types
  <2>8. \A i \in DOMAIN transactions' :
          Linked(transactions'[i], contributions', assignments')
    BY <1>2, <2>3, <2>7 DEF FinancesInv
  <2> QED
    BY <1>1, <2>4, <2>5, <2>8, FinancesMove DEF Finish
<1> QED
  BY <1>3, <1>4 DEF UpdateTransaction

LEMMA DeleteTransactionKeeps ==
  ASSUME FinancesInv, NEW t, NEW id, DeleteTransaction(t, id)
  PROVE  FinancesInv'
<1>1. UNCHANGED <<assignments, contributions, used, req>>
  BY DEF DeleteTransaction
<1>2. /\ DOMAIN transactions' \subseteq DOMAIN transactions
      /\ \A i \in DOMAIN transactions' : transactions'[i] = transactions[i]
  BY DEF DeleteTransaction, Drop, Restrict
<1>3. FinancesTypeOK'
  BY <1>1, <1>2 DEF FinancesInv, FinancesTypeOK
<1>4. Succession
  BY <1>1, <1>2 DEF Succession, Succeed
<1>5. \A i \in DOMAIN transactions' :
        Linked(transactions'[i], contributions', assignments')
  BY <1>1, <1>2 DEF FinancesInv
<1> QED
  BY <1>1, <1>3, <1>4, <1>5, FinancesChange

\* A new fine has an id that nothing was linked to.
LEMMA CreateAssignmentKeeps ==
  ASSUME FinancesInv, NEW s \in Slots, CreateAssignment(s)
  PROVE  FinancesInv'
<1> DEFINE r == req[s]
           id == NextId("assignments")
           row == [team |-> r.team, user |-> r.user, penalty |-> r.penalty,
                   amount |-> r.amount]
<1>1. Finish(s) /\ UNCHANGED <<transactions, contributions>>
  BY DEF CreateAssignment
<1>2. CASE UNCHANGED <<assignments, used>>
  BY <1>1, <1>2, RequestEnds
<1>3. CASE /\ assignments' = Put(assignments, id, row)
           /\ used' = Using("assignments", {id})
  <2>1. id \in Ids /\ id \notin used["assignments"]
    BY FreshId, FinancesAssumption DEF NextId, Fresh, CreateAssignment
  <2>2. /\ used' \in [BookedTables -> SUBSET Ids]
        /\ used'["assignments"] = used["assignments"] \cup {id}
        /\ \A table \in BookedTables \ {"assignments"} : used'[table] = used[table]
    BY <1>3, <2>1 DEF Using, FinancesInv, FinancesTypeOK, BookedTables
  <2> HIDE DEF id
  <2>3. DOMAIN row = FineFields
    BY DEF FineFields
  <2> HIDE DEF row
  <2>4. /\ DOMAIN assignments' = DOMAIN assignments \cup {id}
        /\ assignments'[id] = row
        /\ \A i \in DOMAIN assignments : i # id => assignments'[i] = assignments[i]
    BY <1>3 DEF Put
  <2>5. FinancesTypeOK'
    BY <1>1, <2>2, <2>3, <2>4 DEF FinancesInv, FinancesTypeOK, BookedTables, Finish
  <2>6. Succession
    BY <1>1, <2>1, <2>2, <2>4
      DEF Succession, Succeed, FinancesInv, FinancesTypeOK, BookedTables
  <2>7. ASSUME NEW i \in DOMAIN transactions
        PROVE  Linked(transactions[i], contributions, assignments')
    BY <2>1, <2>4 DEF FinancesInv, FinancesTypeOK, Linked, InTeam
  <2>8. \A i \in DOMAIN transactions' :
          Linked(transactions'[i], contributions', assignments')
    BY <1>1, <2>7
  <2> QED
    BY <1>1, <2>5, <2>6, <2>8, FinancesMove DEF Finish
<1> QED
  BY <1>2, <1>3 DEF CreateAssignment

\* Fees are inserted with ids of their own.
LEMMA CreateContributionsKeeps ==
  ASSUME FinancesInv, NEW s \in Slots, CreateContributions(s)
  PROVE  FinancesInv'
<1>1. Finish(s) /\ UNCHANGED <<transactions, assignments>>
  BY DEF CreateContributions
<1>2. PICK ids, to :
        /\ ids \subseteq Ids \ used["contributions"]
        /\ contributions' = [i \in DOMAIN contributions \cup ids |->
              IF i \in ids THEN [team |-> req[s].team, user |-> to[i],
                                 amount |-> req[s].amount, archived |-> FALSE]
              ELSE contributions[i]]
        /\ used' = Using("contributions", ids)
  BY DEF CreateContributions, kSubset, Fresh
<1>3. /\ used' \in [BookedTables -> SUBSET Ids]
      /\ used'["contributions"] = used["contributions"] \cup ids
      /\ \A table \in BookedTables \ {"contributions"} : used'[table] = used[table]
  BY <1>2 DEF Using, FinancesInv, FinancesTypeOK, BookedTables
<1>4. /\ DOMAIN contributions' = DOMAIN contributions \cup ids
      /\ \A i \in ids : DOMAIN contributions'[i] = FeeFields
      /\ \A i \in DOMAIN contributions : contributions'[i] = contributions[i]
  <2>1. \A i \in DOMAIN contributions : i \notin ids
    BY <1>2 DEF FinancesInv, FinancesTypeOK
  <2> QED
    BY <1>2, <2>1 DEF FeeFields
<1>5. FinancesTypeOK'
  BY <1>1, <1>3, <1>4 DEF FinancesInv, FinancesTypeOK, BookedTables, Finish
<1>6. Succession
  BY <1>1, <1>2, <1>3, <1>4
    DEF Succession, Succeed, FinancesInv, FinancesTypeOK, BookedTables
<1>7. ASSUME NEW i \in DOMAIN transactions
      PROVE  Linked(transactions[i], contributions', assignments)
  BY <1>4 DEF FinancesInv, Linked, InTeam
<1>8. \A i \in DOMAIN transactions' :
        Linked(transactions'[i], contributions', assignments')
  BY <1>1, <1>7
<1> QED
  BY <1>1, <1>5, <1>6, <1>8, FinancesMove DEF Finish

LEMMA UpdateContributionKeeps ==
  ASSUME FinancesInv, NEW t, NEW id, NEW amount, NEW archived,
         UpdateContribution(t, id, amount, archived)
  PROVE  FinancesInv'
<1>1. UNCHANGED <<transactions, assignments, used, req>>
  BY DEF UpdateContribution
<1> DEFINE new == [contributions[id] EXCEPT !.amount = amount, !.archived = archived]
<1>2. id \in DOMAIN contributions
  BY DEF UpdateContribution, InTeam
<1>3. DOMAIN new = FeeFields /\ new.team = contributions[id].team
  BY <1>2 DEF FinancesInv, FinancesTypeOK, FeeFields
<1>4. contributions' = [contributions EXCEPT ![id] = new]
  BY DEF UpdateContribution
<1> HIDE DEF new
<1>5. /\ DOMAIN contributions' = DOMAIN contributions
      /\ contributions'[id] = new
      /\ \A i \in DOMAIN contributions : i # id => contributions'[i] = contributions[i]
  BY <1>2, <1>4
<1>6. FinancesTypeOK'
  BY <1>1, <1>3, <1>5 DEF FinancesInv, FinancesTypeOK
<1>7. Succession
  BY <1>1, <1>3, <1>5 DEF Succession, Succeed
<1>8. \A i \in DOMAIN transactions' :
        Linked(transactions'[i], contributions', assignments')
  BY <1>1, <1>3, <1>5 DEF FinancesInv, Linked, InTeam
<1> QED
  BY <1>1, <1>6, <1>7, <1>8, FinancesChange

\* The payments of a deleted fine lose their link with it.
LEMMA DeleteAssignmentKeeps ==
  ASSUME FinancesInv, NEW t, NEW id, DeleteAssignment(t, id)
  PROVE  FinancesInv'
<1>1. UNCHANGED <<contributions, used, req>> /\ id # None
  BY FinancesAssumption DEF DeleteAssignment, InTeam, FinancesInv, FinancesTypeOK, None,
    BookedTables
<1>2. /\ DOMAIN assignments' = DOMAIN assignments \ {id}
      /\ \A a \in DOMAIN assignments' : assignments'[a] = assignments[a]
  BY DEF DeleteAssignment, Drop, Restrict
<1>3. ASSUME NEW row, DOMAIN row = TransactionFields
      PROVE  LET new == WithoutFine(row, id)
             IN /\ DOMAIN new = TransactionFields
                /\ new.team = row.team /\ new.type = row.type
                /\ new.contribution = row.contribution
                /\ new.assignment = IF row.assignment = id THEN None ELSE row.assignment
  BY <1>3 DEF WithoutFine, TransactionFields
<1>4. /\ DOMAIN transactions' = DOMAIN transactions
      /\ \A i \in DOMAIN transactions : transactions'[i] = WithoutFine(transactions[i], id)
  BY DEF DeleteAssignment
<1>5. \A i \in DOMAIN transactions :
        /\ DOMAIN transactions'[i] = TransactionFields
        /\ transactions'[i].team = transactions[i].team
        /\ transactions'[i].type = transactions[i].type
        /\ transactions'[i].contribution = transactions[i].contribution
        /\ transactions'[i].assignment =
             IF transactions[i].assignment = id THEN None ELSE transactions[i].assignment
  BY <1>3, <1>4 DEF FinancesInv, FinancesTypeOK
<1>6. FinancesTypeOK'
  BY <1>1, <1>2, <1>4, <1>5 DEF FinancesInv, FinancesTypeOK
<1>7. Succession
  BY <1>1, <1>2, <1>4, <1>5 DEF Succession, Succeed
<1>8. \A i \in DOMAIN transactions' :
        Linked(transactions'[i], contributions', assignments')
  BY <1>1, <1>2, <1>4, <1>5 DEF FinancesInv, Linked, InTeam
<1> QED
  BY <1>1, <1>6, <1>7, <1>8, FinancesChange

LEMMA DeleteContributionKeeps ==
  ASSUME FinancesInv, NEW t, NEW id, DeleteContribution(t, id)
  PROVE  FinancesInv'
<1>1. UNCHANGED <<assignments, used, req>> /\ id # None
  BY FinancesAssumption DEF DeleteContribution, InTeam, FinancesInv, FinancesTypeOK, None,
    BookedTables
<1>2. /\ DOMAIN contributions' = DOMAIN contributions \ {id}
      /\ \A c \in DOMAIN contributions' : contributions'[c] = contributions[c]
  BY DEF DeleteContribution, Drop, Restrict
<1>3. ASSUME NEW row, DOMAIN row = TransactionFields
      PROVE  LET new == WithoutFee(row, id)
             IN /\ DOMAIN new = TransactionFields
                /\ new.team = row.team /\ new.type = row.type
                /\ new.assignment = row.assignment
                /\ new.contribution =
                     IF row.contribution = id THEN None ELSE row.contribution
  BY <1>3 DEF WithoutFee, TransactionFields
<1>4. /\ DOMAIN transactions' = DOMAIN transactions
      /\ \A i \in DOMAIN transactions : transactions'[i] = WithoutFee(transactions[i], id)
  BY DEF DeleteContribution
<1>5. \A i \in DOMAIN transactions :
        /\ DOMAIN transactions'[i] = TransactionFields
        /\ transactions'[i].team = transactions[i].team
        /\ transactions'[i].type = transactions[i].type
        /\ transactions'[i].assignment = transactions[i].assignment
        /\ transactions'[i].contribution =
             IF transactions[i].contribution = id THEN None ELSE transactions[i].contribution
  BY <1>3, <1>4 DEF FinancesInv, FinancesTypeOK
<1>6. FinancesTypeOK'
  BY <1>1, <1>2, <1>4, <1>5 DEF FinancesInv, FinancesTypeOK
<1>7. Succession
  BY <1>1, <1>2, <1>4, <1>5 DEF Succession, Succeed
<1>8. \A i \in DOMAIN transactions' :
        Linked(transactions'[i], contributions', assignments')
  BY <1>1, <1>2, <1>4, <1>5 DEF FinancesInv, Linked, InTeam
<1> QED
  BY <1>1, <1>6, <1>7, <1>8, FinancesChange

\* The catalogue: fines keep their team when their penalty goes.
LEMMA CatalogueKeeps ==
  ASSUME FinancesInv, NEW t, NEW id, NEW amount,
         UpdatePenalty(t, id, amount) \/ DeletePenalty(t, id)
  PROVE  FinancesInv'
<1>1. UNCHANGED <<transactions, contributions, used, req>>
  BY DEF UpdatePenalty, DeletePenalty
<1>2. ASSUME NEW row, DOMAIN row = FineFields
      PROVE  /\ DOMAIN WithoutPenalty(row, id) = FineFields
             /\ WithoutPenalty(row, id).team = row.team
  BY <1>2 DEF WithoutPenalty, FineFields
<1>3. /\ DOMAIN assignments' = DOMAIN assignments
      /\ \A a \in DOMAIN assignments :
           \/ assignments'[a] = assignments[a]
           \/ assignments'[a] = WithoutPenalty(assignments[a], id)
  BY DEF UpdatePenalty, DeletePenalty
<1>4. \A a \in DOMAIN assignments : /\ DOMAIN assignments'[a] = FineFields
                                    /\ assignments'[a].team = assignments[a].team
  BY <1>2, <1>3 DEF FinancesInv, FinancesTypeOK
<1>5. FinancesTypeOK'
  BY <1>1, <1>3, <1>4 DEF FinancesInv, FinancesTypeOK
<1>6. Succession
  BY <1>1, <1>3, <1>4 DEF Succession, Succeed
<1>7. \A i \in DOMAIN transactions' :
        Linked(transactions'[i], contributions', assignments')
  BY <1>1, <1>3, <1>4 DEF FinancesInv, Linked, InTeam
<1> QED
  BY <1>1, <1>5, <1>6, <1>7, FinancesChange

LEMMA CreatePenaltyKeeps ==
  ASSUME FinancesInv, NEW s \in Slots, CreatePenalty(s)
  PROVE  FinancesInv'
<1> DEFINE id == NextId("penalties")
<1>1. Finish(s) /\ UNCHANGED <<transactions, assignments, contributions>>
  BY DEF CreatePenalty
<1>2. id \in Ids
  BY FreshId, FinancesAssumption DEF NextId, Fresh, CreatePenalty
<1>3. used' = Using("penalties", {id})
  BY DEF CreatePenalty
<1> HIDE DEF id
<1>4. /\ used' \in [BookedTables -> SUBSET Ids]
      /\ \A table \in BookedTables : used[table] \subseteq used'[table]
      /\ \A table \in BookedTables \ {"penalties"} : used'[table] = used[table]
  BY <1>2, <1>3 DEF Using, FinancesInv, FinancesTypeOK, BookedTables
<1>5. FinancesTypeOK'
  BY <1>1, <1>4 DEF FinancesInv, FinancesTypeOK, BookedTables, Finish
<1>6. Succession
  BY <1>1, <1>4 DEF Succession, Succeed, BookedTables
<1>7. \A i \in DOMAIN transactions' :
        Linked(transactions'[i], contributions', assignments')
  BY <1>1 DEF FinancesInv
<1> QED
  BY <1>1, <1>5, <1>6, <1>7, FinancesMove DEF Finish

LEMMA FinancesRest ==
  ASSUME FinancesInv, UNCHANGED <<transactions, assignments, contributions, used, req>>
  PROVE  FinancesInv'
BY DEF FinancesInv, FinancesTypeOK, Free

LEMMA FinancesInvNext ==
  ASSUME FinancesInv, [Next]_vars
  PROVE  FinancesInv'
<1>1. CASE UNCHANGED vars
  BY <1>1, FinancesRest DEF vars
<1>2. CASE BookNext(CreateTransactionCalls)
  BY <1>2, AdmitTransactionKeeps, CreateTransactionKeeps DEF BookNext
<1>3. CASE CorrectNext(UpdateTransactionCalls)
  BY <1>3, AdmitTransactionUpdateKeeps, UpdateTransactionKeeps DEF CorrectNext
<1>4. CASE PenaltyNext(CreatePenaltyCalls)
  BY <1>4, OthersAdmitted, CreatePenaltyKeeps, CatalogueKeeps DEF PenaltyNext
<1>5. CASE FineNext(CreateAssignmentCalls)
  BY <1>5, OthersAdmitted, OthersGoOn, CreateAssignmentKeeps DEF FineNext
<1>6. CASE FeeNext(CreateContributionsCalls)
  BY <1>6, OthersAdmitted, OthersGoOn, CreateContributionsKeeps,
    UpdateContributionKeeps DEF FeeNext
<1>7. CASE DeleteNext
  BY <1>7, DeleteTransactionKeeps, DeleteAssignmentKeeps, DeleteContributionKeeps
    DEF DeleteNext
<1>8. CASE MemberNext \/ OverviewNext
  <2>1. UNCHANGED <<transactions, assignments, contributions, used, req>>
    BY <1>8 DEF MemberNext, OverviewNext, Join, Leave, BeginOverview, GetOverview,
      AnswerOverview, tables
  <2> QED
    BY <2>1, FinancesRest
<1>9. CASE \E s \in Slots : Abort(s)
  BY <1>9, RequestEnds DEF Abort, tables
<1> QED
  BY <1>1, <1>2, <1>3, <1>4, <1>5, <1>6, <1>7, <1>8, <1>9 DEF Next

\* For any number of teams, members, ids and requests in flight: a linked payment is an
\* income, pays one thing, and what it pays exists and is its team's.
\* (finances.Service.CreateTransaction, UpdateTransaction and the deletions.)
THEOREM LinksStaySound == Spec => []LinksSound
<1>1. FinancesInv /\ [Next]_vars => FinancesInv'
  BY FinancesInvNext
<1>2. FinancesInv => LinksSound
  BY DEF FinancesInv, LinksSound, Linked
<1> QED
  BY <1>1, <1>2, FinancesInvInit, PTL DEF Spec

-----------------------------------------------------------------------------
(* Sums over the bookings.                                                   *)

\* What the sums are about: finitely many bookings, of an amount and a kind.
PricedRow(row) == row.team \in Teams /\ row.type \in Types /\ row.amount \in Nat
Priced(txs) == IsFiniteSet(DOMAIN txs) /\ \A i \in DOMAIN txs : PricedRow(txs[i])

\* Two versions of the bookings that differ in the row of one id.
OneRow(txs, txs2, n) ==
  /\ DOMAIN txs2 \ {n} = DOMAIN txs \ {n}
  /\ \A i \in DOMAIN txs \ {n} : txs2[i] = txs[i]

\* What a set of bookings adds up to, of which one has come, gone or changed.
LEMMA OneMoves ==
  ASSUME NEW f, NEW g, NEW A, NEW B, NEW n, IsFiniteSet(A), IsFiniteSet(B),
         \A x \in A : f[x] \in Nat, \A x \in B : g[x] \in Nat,
         B \ {n} = A \ {n}, \A x \in A \ {n} : g[x] = f[x]
  PROVE  /\ Total(f, A) \in Nat /\ Total(g, B) \in Nat
         /\ Total(g, B) = Total(f, A) + (IF n \in B THEN g[n] ELSE 0)
                                      - (IF n \in A THEN f[n] ELSE 0)
<1> DEFINE R == A \ {n}
<1>0. (\A x \in A : f[x] \in Int) /\ (\A x \in B : g[x] \in Int)
  OBVIOUS
<1>1. IsFiniteSet(R)
  BY FS_Subset
<1>2. Total(f, R) \in Nat /\ Total(g, R) = Total(f, R)
  BY <1>1, TotalNat, TotalSame
<1>3. Total(f, A) = Total(f, R) + (IF n \in A THEN f[n] ELSE 0)
  <2>1. CASE n \in A
    <3>1. Total(f, A) = f[n] + Total(f, R)
      BY <1>0, <2>1, TotalWithout
    <3>2. f[n] \in Int
      BY <1>0, <2>1
    <3> HIDE DEF R
    <3> QED
      BY <1>2, <2>1, <3>1, <3>2
  <2>2. CASE n \notin A
    <3>1. R = A
      BY <2>2
    <3> HIDE DEF R
    <3> QED
      BY <1>2, <2>2, <3>1
  <2> QED
    BY <2>1, <2>2
<1>4. Total(g, B) = Total(g, R) + (IF n \in B THEN g[n] ELSE 0)
  <2>1. CASE n \in B
    <3>1. Total(g, B) = g[n] + Total(g, B \ {n})
      BY <1>0, <2>1, TotalWithout
    <3>2. B \ {n} = R /\ g[n] \in Int
      BY <1>0, <2>1
    <3> HIDE DEF R
    <3>3. Total(g, B) = g[n] + Total(g, R)
      BY <3>1, <3>2
    <3> QED
      BY <1>2, <2>1, <3>2, <3>3
  <2>2. CASE n \notin B
    <3>1. R = B
      BY <2>2
    <3> HIDE DEF R
    <3> QED
      BY <1>2, <2>2, <3>1
  <2> QED
    BY <2>1, <2>2
<1>5. Total(f, A) \in Nat /\ Total(g, B) \in Nat
  BY TotalNat
<1>6. (n \in A => f[n] \in Nat) /\ (n \in B => g[n] \in Nat)
  OBVIOUS
<1> HIDE DEF R
<1> QED
  BY <1>2, <1>3, <1>4, <1>5, <1>6

-----------------------------------------------------------------------------
\* What one booking adds to a team's cash, and to what was paid for a fee or a fine.
Kind(txs, n, t, type) ==
  IF n \in DOMAIN txs /\ txs[n].team = t /\ txs[n].type = type THEN txs[n].amount ELSE 0
Worth(txs, n, t) == Kind(txs, n, t, "income") - Kind(txs, n, t, "expense")
FeePaid(txs, n, c) ==
  IF n \in DOMAIN txs /\ txs[n].contribution = c /\ txs[n].type = "income"
  THEN txs[n].amount ELSE 0
FinePaid(txs, n, a) ==
  IF n \in DOMAIN txs /\ txs[n].assignment = a /\ txs[n].type = "income"
  THEN txs[n].amount ELSE 0

LEMMA AmountIs ==
  ASSUME NEW txs, NEW i \in DOMAIN txs
  PROVE  Amount(txs)[i] = txs[i].amount
  BY DEF Amount

LEMMA KindMoves ==
  ASSUME NEW txs, NEW txs2, NEW n, Priced(txs), Priced(txs2), OneRow(txs, txs2, n),
         NEW t, NEW type
  PROVE  /\ SumTransactions(txs, t, type) \in Nat /\ SumTransactions(txs2, t, type) \in Nat
         /\ SumTransactions(txs2, t, type) =
              SumTransactions(txs, t, type) + Kind(txs2, n, t, type) - Kind(txs, n, t, type)
<1> DEFINE A == {i \in InTeam(txs, t) : txs[i].type = type}
           B == {i \in InTeam(txs2, t) : txs2[i].type = type}
           f == Amount(txs)
           g == Amount(txs2)
<1>1. A \subseteq DOMAIN txs /\ B \subseteq DOMAIN txs2
  BY DEF InTeam
<1>2. IsFiniteSet(A) /\ IsFiniteSet(B)
  BY <1>1, FS_Subset DEF Priced
<1>3. (\A x \in A : f[x] \in Nat) /\ (\A x \in B : g[x] \in Nat)
  BY <1>1, AmountIs DEF Priced, PricedRow
<1>4. B \ {n} = A \ {n}
  BY DEF OneRow, InTeam
<1>5. \A x \in A \ {n} : g[x] = f[x]
  <2> TAKE x \in A \ {n}
  <2>1. x \in DOMAIN txs /\ x \in DOMAIN txs2 /\ txs2[x] = txs[x]
    BY <1>1 DEF OneRow
  <2> QED
    BY <2>1, AmountIs
<1>6. /\ (IF n \in A THEN f[n] ELSE 0) = Kind(txs, n, t, type)
      /\ (IF n \in B THEN g[n] ELSE 0) = Kind(txs2, n, t, type)
  BY AmountIs DEF Kind, InTeam
<1>7. SumTransactions(txs, t, type) = Total(f, A) /\ SumTransactions(txs2, t, type) = Total(g, B)
  BY DEF SumTransactions
<1> HIDE DEF A, B, f, g
<1> QED
  BY <1>2, <1>3, <1>4, <1>5, <1>6, <1>7, OneMoves

LEMMA CashMoves ==
  ASSUME NEW txs, NEW txs2, NEW n, Priced(txs), Priced(txs2), OneRow(txs, txs2, n), NEW t
  PROVE  /\ Cash(txs, t) \in Int
         /\ Cash(txs2, t) = Cash(txs, t) + Worth(txs2, n, t) - Worth(txs, n, t)
<1>1. ASSUME NEW type
      PROVE  /\ SumTransactions(txs, t, type) \in Nat
             /\ SumTransactions(txs2, t, type) =
                  SumTransactions(txs, t, type) + Kind(txs2, n, t, type)
                                                - Kind(txs, n, t, type)
             /\ Kind(txs, n, t, type) \in Nat /\ Kind(txs2, n, t, type) \in Nat
  BY KindMoves DEF Kind, Priced, PricedRow
<1> QED
  BY <1>1 DEF Cash, Worth

LEMMA FeeMoves ==
  ASSUME NEW txs, NEW txs2, NEW n, Priced(txs), Priced(txs2), OneRow(txs, txs2, n), NEW c
  PROVE  /\ PaidToFee(txs, c) \in Nat /\ PaidToFee(txs2, c) \in Nat
         /\ PaidToFee(txs2, c) = PaidToFee(txs, c) + FeePaid(txs2, n, c) - FeePaid(txs, n, c)
<1> DEFINE A == {i \in DOMAIN txs : txs[i].contribution = c /\ txs[i].type = "income"}
           B == {i \in DOMAIN txs2 : txs2[i].contribution = c /\ txs2[i].type = "income"}
           f == Amount(txs)
           g == Amount(txs2)
<1>2. IsFiniteSet(A) /\ IsFiniteSet(B)
  BY FS_Subset DEF Priced
<1>3. (\A x \in A : f[x] \in Nat) /\ (\A x \in B : g[x] \in Nat)
  BY AmountIs DEF Priced, PricedRow
<1>4. B \ {n} = A \ {n}
  BY DEF OneRow
<1>5. \A x \in A \ {n} : g[x] = f[x]
  <2> TAKE x \in A \ {n}
  <2>1. x \in DOMAIN txs /\ x \in DOMAIN txs2 /\ txs2[x] = txs[x]
    BY DEF OneRow
  <2> QED
    BY <2>1, AmountIs
<1>6. /\ (IF n \in A THEN f[n] ELSE 0) = FeePaid(txs, n, c)
      /\ (IF n \in B THEN g[n] ELSE 0) = FeePaid(txs2, n, c)
  BY AmountIs DEF FeePaid
<1>7. PaidToFee(txs, c) = Total(f, A) /\ PaidToFee(txs2, c) = Total(g, B)
  BY DEF PaidToFee
<1> HIDE DEF A, B, f, g
<1> QED
  BY <1>2, <1>3, <1>4, <1>5, <1>6, <1>7, OneMoves

LEMMA FineMoves ==
  ASSUME NEW txs, NEW txs2, NEW n, Priced(txs), Priced(txs2), OneRow(txs, txs2, n), NEW a
  PROVE  /\ PaidToFine(txs, a) \in Nat /\ PaidToFine(txs2, a) \in Nat
         /\ PaidToFine(txs2, a) = PaidToFine(txs, a) + FinePaid(txs2, n, a)
                                                     - FinePaid(txs, n, a)
<1> DEFINE A == {i \in DOMAIN txs : txs[i].assignment = a /\ txs[i].type = "income"}
           B == {i \in DOMAIN txs2 : txs2[i].assignment = a /\ txs2[i].type = "income"}
           f == Amount(txs)
           g == Amount(txs2)
<1>2. IsFiniteSet(A) /\ IsFiniteSet(B)
  BY FS_Subset DEF Priced
<1>3. (\A x \in A : f[x] \in Nat) /\ (\A x \in B : g[x] \in Nat)
  BY AmountIs DEF Priced, PricedRow
<1>4. B \ {n} = A \ {n}
  BY DEF OneRow
<1>5. \A x \in A \ {n} : g[x] = f[x]
  <2> TAKE x \in A \ {n}
  <2>1. x \in DOMAIN txs /\ x \in DOMAIN txs2 /\ txs2[x] = txs[x]
    BY DEF OneRow
  <2> QED
    BY <2>1, AmountIs
<1>6. /\ (IF n \in A THEN f[n] ELSE 0) = FinePaid(txs, n, a)
      /\ (IF n \in B THEN g[n] ELSE 0) = FinePaid(txs2, n, a)
  BY AmountIs DEF FinePaid
<1>7. PaidToFine(txs, a) = Total(f, A) /\ PaidToFine(txs2, a) = Total(g, B)
  BY DEF PaidToFine
<1> HIDE DEF A, B, f, g
<1> QED
  BY <1>2, <1>3, <1>4, <1>5, <1>6, <1>7, OneMoves

\* Sums that look at the same amounts of the same bookings.
LEMMA SameSums ==
  ASSUME NEW txs, NEW txs2, NEW A, Priced(txs), A \subseteq DOMAIN txs,
         DOMAIN txs2 = DOMAIN txs, \A i \in DOMAIN txs : txs2[i].amount = txs[i].amount
  PROVE  Total(Amount(txs2), A) = Total(Amount(txs), A)
<1>1. IsFiniteSet(A)
  BY FS_Subset DEF Priced
<1>2. \A x \in A : Amount(txs2)[x] = Amount(txs)[x]
  BY AmountIs
<1> QED
  BY <1>1, <1>2, TotalSame

-----------------------------------------------------------------------------
\* The claims of the books, as a function of the tables.
Claims(fees, fines) == ({"fee"} \X DOMAIN fees) \cup ({"fine"} \X DOMAIN fines)
FeeClaim(txs, fees, c) ==
  [team |-> fees[c].team, due |-> fees[c].amount, paid |-> PaidToFee(txs, c)]
FineClaim(txs, fines, a) ==
  [team |-> fines[a].team, due |-> fines[a].amount, paid |-> PaidToFine(txs, a)]

BooksOf(txs, fees, fines) ==
  [x \in Claims(fees, fines) |-> IF x[1] = "fee" THEN FeeClaim(txs, fees, x[2])
                                 ELSE FineClaim(txs, fines, x[2])]

LEMMA BooksAre ==
  /\ Books = BooksOf(transactions, contributions, assignments)
  /\ Books' = BooksOf(transactions', contributions', assignments')
BY DEF Books, BooksOf, Claims, FeeClaim, FineClaim

LEMMA BookOf ==
  ASSUME NEW txs, NEW fees, NEW fines
  PROVE  LET books == BooksOf(txs, fees, fines)
         IN  /\ books = [x \in Claims(fees, fines) |-> books[x]]
             /\ DOMAIN books = Claims(fees, fines)
             /\ \A c \in DOMAIN fees :
                  <<"fee", c>> \in Claims(fees, fines)
                    /\ books[<<"fee", c>>] = FeeClaim(txs, fees, c)
             /\ \A a \in DOMAIN fines :
                  <<"fine", a>> \in Claims(fees, fines)
                    /\ books[<<"fine", a>>] = FineClaim(txs, fines, a)
BY DEF BooksOf, Claims

LEMMA ClaimKinds ==
  ASSUME NEW fees, NEW fines, NEW x \in Claims(fees, fines)
  PROVE  \/ \E c \in DOMAIN fees : x = <<"fee", c>>
         \/ \E a \in DOMAIN fines : x = <<"fine", a>>
BY DEF Claims

\* Two books agree where they agree claim by claim.
LEMMA BooksEqual ==
  ASSUME NEW txs, NEW fees, NEW fines, NEW txs2, NEW fees2, NEW fines2,
         DOMAIN fees2 = DOMAIN fees, DOMAIN fines2 = DOMAIN fines,
         \A c \in DOMAIN fees : FeeClaim(txs2, fees2, c) = FeeClaim(txs, fees, c),
         \A a \in DOMAIN fines : FineClaim(txs2, fines2, a) = FineClaim(txs, fines, a)
  PROVE  BooksOf(txs2, fees2, fines2) = BooksOf(txs, fees, fines)
<1> DEFINE f == BooksOf(txs, fees, fines)
           g == BooksOf(txs2, fees2, fines2)
           D == Claims(fees, fines)
<1>1. Claims(fees2, fines2) = D
  BY DEF Claims
<1>2. f = [x \in D |-> f[x]] /\ g = [x \in D |-> g[x]]
  BY <1>1, BookOf
<1>3. ASSUME NEW x \in D PROVE g[x] = f[x]
  <2>1. CASE \E c \in DOMAIN fees : x = <<"fee", c>>
    BY <2>1, BookOf
  <2>2. CASE \E a \in DOMAIN fines : x = <<"fine", a>>
    BY <2>2, BookOf
  <2> QED
    BY <2>1, <2>2, ClaimKinds
<1>4. g = f
  <2> HIDE DEF f, g, D
  <2> QED
    BY <1>2, <1>3
<1> QED
  BY <1>4

\* Of two books that differ in one claim, and there in what was paid.
LEMMA OnePaid ==
  ASSUME NEW f, NEW g, NEW D, NEW x \in D, NEW by,
         f = [y \in D |-> f[y]], g = [y \in D |-> g[y]],
         \A y \in D \ {x} : g[y] = f[y],
         NEW team, NEW due, NEW paid, f[x] = [team |-> team, due |-> due, paid |-> paid],
         g[x] = [team |-> team, due |-> due, paid |-> paid + by]
  PROVE  g = [f EXCEPT ![x].paid = @ + by]
<1>1. DOMAIN f = D
  OBVIOUS
<1>2. [f[x] EXCEPT !.paid = @ + by] = g[x]
  OBVIOUS
<1>3. [f EXCEPT ![x].paid = @ + by] = [f EXCEPT ![x] = [f[x] EXCEPT !.paid = @ + by]]
  OBVIOUS
<1>4. [f EXCEPT ![x] = g[x]] = g
  <2>1. [f EXCEPT ![x] = g[x]] = [y \in D |-> IF y = x THEN g[x] ELSE f[y]]
    BY <1>1
  <2>2. \A y \in D : (IF y = x THEN g[x] ELSE f[y]) = g[y]
    OBVIOUS
  <2> QED
    BY <2>1, <2>2
<1> QED
  BY <1>2, <1>3, <1>4

-----------------------------------------------------------------------------
(* The steps of the ledger.                                                  *)

CashOf(txs) == [t \in Teams |-> Cash(txs, t)]

\* Nothing happens to the books.
LEMMA BooksRest ==
  ASSUME CashOf(transactions') = CashOf(transactions), Books' = Books
  PROVE  UNCHANGED Ledger!ledgerVars
BY DEF CashOf, Ledger!ledgerVars

\* One booking of a team comes, goes or is corrected: what it pays for, if anything, is
\* paid by as much more or less as the cash of the team.
LEMMA Booked ==
  ASSUME NEW txs, NEW txs2, txs = transactions, txs2 = transactions',
         UNCHANGED <<contributions, assignments>>,
         Priced(txs), Priced(txs2), NEW n, OneRow(txs, txs2, n),
         NEW t \in Teams, NEW c, NEW a,
         \A rows \in {txs, txs2} : n \in DOMAIN rows =>
           /\ rows[n].team = t /\ rows[n].contribution = c /\ rows[n].assignment = a
           /\ Linked(rows[n], contributions, assignments),
         n \in DOMAIN txs \/ n \in DOMAIN txs2,
         None \notin DOMAIN contributions, None \notin DOMAIN assignments
  PROVE  Ledger!LedgerNext
<1> DEFINE cash == CashOf(txs)
           cash2 == CashOf(txs2)
           by == cash2[t] - cash[t]
           fees == contributions
           fines == assignments
           f == BooksOf(txs, fees, fines)
           g == BooksOf(txs2, fees, fines)
           D == Claims(fees, fines)
<1>1. cash2 = [cash EXCEPT ![t] = @ + by]
  <2>1. \A u \in Teams : /\ cash[u] \in Int /\ cash2[u] \in Int
                         /\ u # t => cash2[u] = cash[u]
    <3> TAKE u \in Teams
    <3>1. /\ Cash(txs, u) \in Int
          /\ Cash(txs2, u) = Cash(txs, u) + Worth(txs2, n, u) - Worth(txs, n, u)
      BY CashMoves
    <3>2. Worth(txs, n, u) \in Int /\ Worth(txs2, n, u) \in Int
      BY DEF Worth, Kind, Priced, PricedRow
    <3>3. u # t => Worth(txs, n, u) = 0 /\ Worth(txs2, n, u) = 0
      BY DEF Worth, Kind
    <3> QED
      BY <3>1, <3>2, <3>3 DEF CashOf
  <2>2. cash2[t] = cash[t] + by
    <3> HIDE DEF cash, cash2
    <3> QED
      BY <2>1
  <2>3. cash = [u \in Teams |-> cash[u]] /\ cash2 = [u \in Teams |-> cash2[u]]
    BY DEF CashOf
  <2> HIDE DEF cash, cash2, by
  <2>4. [cash EXCEPT ![t] = @ + by] = [u \in Teams |-> IF u = t THEN cash[t] + by ELSE cash[u]]
    BY <2>3
  <2>5. \A u \in Teams : cash2[u] = IF u = t THEN cash[t] + by ELSE cash[u]
    BY <2>1, <2>2
  <2> QED
    BY <2>3, <2>4, <2>5
<1>2. by = Worth(txs2, n, t) - Worth(txs, n, t)
  <2>1. Worth(txs, n, t) \in Int /\ Worth(txs2, n, t) \in Int
    BY DEF Worth, Kind, Priced, PricedRow
  <2>2. /\ Cash(txs, t) \in Int
        /\ Cash(txs2, t) = Cash(txs, t) + Worth(txs2, n, t) - Worth(txs, n, t)
    BY CashMoves
  <2> QED
    BY <2>1, <2>2 DEF CashOf
<1>3. /\ Ledger!Shift(t) = by
      /\ f = Books /\ g = Books'
      /\ D = DOMAIN Books
      /\ f = [y \in D |-> f[y]] /\ g = [y \in D |-> g[y]]
  BY BooksAre, BookOf DEF Ledger!Shift, CashOf
<1>4. ASSUME NEW k \in DOMAIN fees, k # c
      PROVE  <<"fee", k>> \in D /\ g[<<"fee", k>>] = f[<<"fee", k>>]
  <2>1. FeePaid(txs, n, k) = 0 /\ FeePaid(txs2, n, k) = 0
    BY <1>4 DEF FeePaid
  <2>2. PaidToFee(txs2, k) = PaidToFee(txs, k)
    BY <2>1, FeeMoves
  <2>3. FeeClaim(txs2, fees, k) = FeeClaim(txs, fees, k)
    BY <2>2 DEF FeeClaim
  <2>4. /\ <<"fee", k>> \in D /\ f[<<"fee", k>>] = FeeClaim(txs, fees, k)
        /\ g[<<"fee", k>>] = FeeClaim(txs2, fees, k)
    BY BookOf
  <2> QED
    BY <2>3, <2>4
<1>5. ASSUME NEW k \in DOMAIN fines, k # a
      PROVE  <<"fine", k>> \in D /\ g[<<"fine", k>>] = f[<<"fine", k>>]
  <2>1. FinePaid(txs, n, k) = 0 /\ FinePaid(txs2, n, k) = 0
    BY <1>5 DEF FinePaid
  <2>2. PaidToFine(txs2, k) = PaidToFine(txs, k)
    BY <2>1, FineMoves
  <2>3. FineClaim(txs2, fines, k) = FineClaim(txs, fines, k)
    BY <2>2 DEF FineClaim
  <2>4. /\ <<"fine", k>> \in D /\ f[<<"fine", k>>] = FineClaim(txs, fines, k)
        /\ g[<<"fine", k>>] = FineClaim(txs2, fines, k)
    BY BookOf
  <2> QED
    BY <2>3, <2>4
<1>6. c = None \/ a = None
  BY DEF Linked
<1>7. CASE c # None
  <2> DEFINE x == <<"fee", c>>
  <2>1. c \in DOMAIN fees /\ fees[c].team = t
    BY <1>7 DEF Linked, InTeam
  <2>2. /\ FeePaid(txs, n, c) = Worth(txs, n, t) /\ FeePaid(txs2, n, c) = Worth(txs2, n, t)
        /\ FeePaid(txs, n, c) \in Nat /\ FeePaid(txs2, n, c) \in Nat
    BY <1>7 DEF FeePaid, Worth, Kind, Linked, Priced, PricedRow
  <2>3. /\ PaidToFee(txs2, c) = PaidToFee(txs, c) + by
        /\ PaidToFee(txs, c) \in Nat /\ PaidToFee(txs2, c) \in Nat
    <3> HIDE DEF by
    <3> QED
      BY <1>2, <2>2, FeeMoves
  <2>4. /\ x \in D /\ f[x] = FeeClaim(txs, fees, c) /\ g[x] = FeeClaim(txs2, fees, c)
    BY <2>1, BookOf
  <2>5. \A y \in D \ {x} : g[y] = f[y]
    <3> TAKE y \in D \ {x}
    <3>1. CASE \E k \in DOMAIN fees : y = <<"fee", k>>
      BY <3>1, <1>4
    <3>2. CASE \E k \in DOMAIN fines : y = <<"fine", k>>
      BY <3>2, <1>5, <1>6, <1>7
    <3> QED
      BY <3>1, <3>2, ClaimKinds
  <2>6. g = [f EXCEPT ![x].paid = @ + by]
    <3>1. /\ f[x] = [team |-> fees[c].team, due |-> fees[c].amount,
                     paid |-> PaidToFee(txs, c)]
          /\ g[x] = [team |-> fees[c].team, due |-> fees[c].amount,
                     paid |-> PaidToFee(txs, c) + by]
      BY <2>3, <2>4 DEF FeeClaim
    <3> HIDE DEF f, g, D, x, by
    <3> QED
      BY <1>3, <2>4, <2>5, <3>1, OnePaid
  <2>7. f[x].team = t /\ g[x].paid >= 0
    BY <2>1, <2>3, <2>4 DEF FeeClaim
  <2> HIDE DEF f, g, D, x, by, cash, cash2
  <2>8. Ledger!BookFor(t, x)
    BY <1>1, <1>3, <2>6, <2>7 DEF Ledger!BookFor, cash, cash2, CashOf
  <2> QED
    BY <1>3, <2>4, <2>8 DEF Ledger!LedgerNext
<1>8. CASE a # None
  <2> DEFINE x == <<"fine", a>>
  <2>1. a \in DOMAIN fines /\ fines[a].team = t
    BY <1>8 DEF Linked, InTeam
  <2>2. /\ FinePaid(txs, n, a) = Worth(txs, n, t) /\ FinePaid(txs2, n, a) = Worth(txs2, n, t)
        /\ FinePaid(txs, n, a) \in Nat /\ FinePaid(txs2, n, a) \in Nat
    BY <1>8 DEF FinePaid, Worth, Kind, Linked, Priced, PricedRow
  <2>3. /\ PaidToFine(txs2, a) = PaidToFine(txs, a) + by
        /\ PaidToFine(txs, a) \in Nat /\ PaidToFine(txs2, a) \in Nat
    <3> HIDE DEF by
    <3> QED
      BY <1>2, <2>2, FineMoves
  <2>4. /\ x \in D /\ f[x] = FineClaim(txs, fines, a) /\ g[x] = FineClaim(txs2, fines, a)
    BY <2>1, BookOf
  <2>5. \A y \in D \ {x} : g[y] = f[y]
    <3> TAKE y \in D \ {x}
    <3>1. CASE \E k \in DOMAIN fees : y = <<"fee", k>>
      BY <3>1, <1>4, <1>6, <1>8
    <3>2. CASE \E k \in DOMAIN fines : y = <<"fine", k>>
      BY <3>2, <1>5
    <3> QED
      BY <3>1, <3>2, ClaimKinds
  <2>6. g = [f EXCEPT ![x].paid = @ + by]
    <3>1. /\ f[x] = [team |-> fines[a].team, due |-> fines[a].amount,
                     paid |-> PaidToFine(txs, a)]
          /\ g[x] = [team |-> fines[a].team, due |-> fines[a].amount,
                     paid |-> PaidToFine(txs, a) + by]
      BY <2>3, <2>4 DEF FineClaim
    <3> HIDE DEF f, g, D, x, by
    <3> QED
      BY <1>3, <2>4, <2>5, <3>1, OnePaid
  <2>7. f[x].team = t /\ g[x].paid >= 0
    BY <2>1, <2>3, <2>4 DEF FineClaim
  <2> HIDE DEF f, g, D, x, by, cash, cash2
  <2>8. Ledger!BookFor(t, x)
    BY <1>1, <1>3, <2>6, <2>7 DEF Ledger!BookFor, cash, cash2, CashOf
  <2> QED
    BY <1>3, <2>4, <2>8 DEF Ledger!LedgerNext
<1>9. CASE c = None /\ a = None
  <2>1. \A y \in D : g[y] = f[y]
    <3> TAKE y \in D
    <3>1. CASE \E k \in DOMAIN fees : y = <<"fee", k>>
      BY <3>1, <1>4, <1>9
    <3>2. CASE \E k \in DOMAIN fines : y = <<"fine", k>>
      BY <3>2, <1>5, <1>9
    <3> QED
      BY <3>1, <3>2, ClaimKinds
  <2> HIDE DEF f, g, D, by, cash, cash2
  <2>2. g = f
    BY <1>3, <2>1
  <2>3. Ledger!BookFreely(t)
    BY <1>1, <1>3, <2>2 DEF Ledger!BookFreely, cash, cash2, CashOf
  <2> QED
    BY <2>3 DEF Ledger!LedgerNext
<1> QED
  BY <1>6, <1>7, <1>8, <1>9

\* What a request on its way brings.
Pricing(r) ==
  /\ r.op = "createTransaction" => PricedRow(r)
  /\ r.op = "updateTransaction" => r.amount \in Nat

MoneyInv ==
  /\ FinancesInv
  /\ Priced(transactions)
  /\ \A s \in Slots : ~Free(s) => Pricing(req[s])

LEMMA NoneIsNoId ==
  ASSUME FinancesInv
  PROVE  /\ None \notin DOMAIN transactions /\ None \notin DOMAIN assignments
         /\ None \notin DOMAIN contributions
BY FinancesAssumption DEF FinancesInv, FinancesTypeOK, BookedTables, None

\* A claim nobody was linked to is one nothing was paid for.
LEMMA NothingPaid ==
  ASSUME FinancesInv, NEW k, k # None
  PROVE  /\ k \notin DOMAIN contributions => PaidToFee(transactions, k) = 0
         /\ k \notin DOMAIN assignments => PaidToFine(transactions, k) = 0
<1>1. ASSUME k \notin DOMAIN contributions PROVE PaidToFee(transactions, k) = 0
  <2>1. {i \in DOMAIN transactions :
           transactions[i].contribution = k /\ transactions[i].type = "income"} = {}
    BY <1>1 DEF FinancesInv, Linked, InTeam
  <2> QED
    BY <2>1, TotalOfNone DEF PaidToFee
<1>2. ASSUME k \notin DOMAIN assignments PROVE PaidToFine(transactions, k) = 0
  <2>1. {i \in DOMAIN transactions :
           transactions[i].assignment = k /\ transactions[i].type = "income"} = {}
    BY <1>2 DEF FinancesInv, Linked, InTeam
  <2> QED
    BY <2>1, TotalOfNone DEF PaidToFine
<1> QED
  BY <1>1, <1>2

\* New fees and fines, with nothing paid yet.
LEMMA Raised ==
  ASSUME FinancesInv, FinancesInv', UNCHANGED transactions,
         \A c \in DOMAIN contributions :
           c \in DOMAIN contributions' /\ contributions'[c] = contributions[c],
         \A a \in DOMAIN assignments :
           a \in DOMAIN assignments' /\ assignments'[a] = assignments[a],
         \A k : k \in DOMAIN contributions' \/ k \in DOMAIN assignments' => k # None
  PROVE  Ledger!LedgerNext
<1> DEFINE fees == contributions
           fines == assignments
           fees2 == contributions'
           fines2 == assignments'
           f == BooksOf(transactions, fees, fines)
           g == BooksOf(transactions, fees2, fines2)
<1>1. f = Books /\ g = Books'
  BY BooksAre
<1>2. DOMAIN f = Claims(fees, fines) /\ DOMAIN g = Claims(fees2, fines2)
  BY BookOf
<1>3. Claims(fees, fines) \subseteq Claims(fees2, fines2)
  BY DEF Claims
<1>4. ASSUME NEW x \in Claims(fees, fines)
      PROVE  g[x] = f[x]
  <2>1. CASE \E c \in DOMAIN fees : x = <<"fee", c>>
    <3>1. PICK c \in DOMAIN fees : x = <<"fee", c>>
      BY <2>1
    <3>2. f[x] = FeeClaim(transactions, fees, c) /\ g[x] = FeeClaim(transactions, fees2, c)
      BY <3>1, BookOf
    <3> QED
      BY <3>1, <3>2 DEF FeeClaim
  <2>2. CASE \E a \in DOMAIN fines : x = <<"fine", a>>
    <3>1. PICK a \in DOMAIN fines : x = <<"fine", a>>
      BY <2>2
    <3>2. f[x] = FineClaim(transactions, fines, a) /\ g[x] = FineClaim(transactions, fines2, a)
      BY <3>1, BookOf
    <3> QED
      BY <3>1, <3>2 DEF FineClaim
  <2> QED
    BY <2>1, <2>2, ClaimKinds
<1>5. ASSUME NEW x \in Claims(fees2, fines2), x \notin Claims(fees, fines)
      PROVE  g[x].paid = 0
  <2>1. CASE \E c \in DOMAIN fees2 : x = <<"fee", c>>
    <3>1. PICK c \in DOMAIN fees2 : x = <<"fee", c>>
      BY <2>1
    <3>2. g[x] = FeeClaim(transactions, fees2, c) /\ c # None
      BY <3>1, BookOf
    <3>3. c \notin DOMAIN fees
      BY <1>5, <3>1 DEF Claims
    <3> QED
      BY <3>2, <3>3, NothingPaid DEF FeeClaim
  <2>2. CASE \E a \in DOMAIN fines2 : x = <<"fine", a>>
    <3>1. PICK a \in DOMAIN fines2 : x = <<"fine", a>>
      BY <2>2
    <3>2. g[x] = FineClaim(transactions, fines2, a) /\ a # None
      BY <3>1, BookOf
    <3>3. a \notin DOMAIN fines
      BY <1>5, <3>1 DEF Claims
    <3> QED
      BY <3>2, <3>3, NothingPaid DEF FineClaim
  <2> QED
    BY <2>1, <2>2, ClaimKinds
<1> HIDE DEF f, g
<1>6. Ledger!Raise
  BY <1>1, <1>2, <1>3, <1>4, <1>5 DEF Ledger!Raise
<1> QED
  BY <1>6 DEF Ledger!LedgerNext

\* A correction of a claim is none of what was paid.
LEMMA Repriced ==
  ASSUME UNCHANGED <<transactions, assignments>>,
         NEW id \in DOMAIN contributions, DOMAIN contributions' = DOMAIN contributions,
         contributions'[id].team = contributions[id].team,
         \A c \in DOMAIN contributions : c # id => contributions'[c] = contributions[c]
  PROVE  Ledger!LedgerNext
<1>a. PICK txs, fees, fees2, fines :
        /\ txs = transactions /\ fees = contributions /\ fees2 = contributions'
        /\ fines = assignments
  OBVIOUS
<1> DEFINE f == BooksOf(txs, fees, fines)
           g == BooksOf(txs, fees2, fines)
           D == Claims(fees, fines)
           x == <<"fee", id>>
<1>b. /\ id \in DOMAIN fees /\ DOMAIN fees2 = DOMAIN fees /\ fees2[id].team = fees[id].team
      /\ \A c \in DOMAIN fees : c # id => fees2[c] = fees[c]
  BY <1>a
<1>c. f = Books /\ g = Books' /\ x[1] = "fee"
  BY <1>a, BooksAre
<1>1. Claims(fees2, fines) = D
  BY <1>b DEF Claims
<1>2. /\ DOMAIN f = D /\ DOMAIN g = D
      /\ f = [y \in D |-> f[y]] /\ g = [y \in D |-> g[y]]
  BY <1>1, BookOf
<1>3. ASSUME NEW y \in D, y # x
      PROVE  g[y] = f[y]
  <2>1. CASE \E c \in DOMAIN fees : y = <<"fee", c>>
    <3>1. PICK c \in DOMAIN fees : y = <<"fee", c>>
      BY <2>1
    <3>2. c # id
      BY <1>3, <3>1
    <3>3. FeeClaim(txs, fees2, c) = FeeClaim(txs, fees, c)
      BY <1>b, <3>2 DEF FeeClaim
    <3>4. f[y] = FeeClaim(txs, fees, c)
      BY <1>b, <3>1, BookOf
    <3>5. g[y] = FeeClaim(txs, fees2, c)
      BY <1>b, <3>1, BookOf
    <3> QED
      BY <3>3, <3>4, <3>5
  <2>2. CASE \E a \in DOMAIN fines : y = <<"fine", a>>
    BY <2>2, BookOf
  <2> QED
    BY <2>1, <2>2, ClaimKinds
<1>4. /\ x \in D
      /\ f[x] = FeeClaim(txs, fees, id)
      /\ g[x] = FeeClaim(txs, fees2, id)
  BY <1>b, BookOf
<1>5. /\ f[x] = [team |-> fees[id].team, due |-> fees[id].amount, paid |-> PaidToFee(txs, id)]
      /\ g[x] = [team |-> fees[id].team, due |-> fees2[id].amount,
                 paid |-> PaidToFee(txs, id)]
  BY <1>b, <1>4 DEF FeeClaim
<1> HIDE DEF f, g, D, x
<1>6. g[x] = [f[x] EXCEPT !.due = g[x].due]
  BY <1>5
<1>7. [f EXCEPT ![x].due = g[x].due] = [f EXCEPT ![x] = [f[x] EXCEPT !.due = g[x].due]]
  OBVIOUS
<1>8. g = [f EXCEPT ![x] = g[x]]
  <2>1. [f EXCEPT ![x] = g[x]] = [y \in D |-> IF y = x THEN g[x] ELSE f[y]]
    BY <1>2
  <2>2. \A y \in D : (IF y = x THEN g[x] ELSE f[y]) = g[y]
    BY <1>3
  <2> QED
    BY <1>2, <2>1, <2>2
<1>9. x \in DOMAIN f /\ x \in DOMAIN g
  BY <1>2, <1>4
<1>10. Ledger!Reprice(x)
  BY <1>a, <1>c, <1>6, <1>7, <1>8 DEF Ledger!Reprice
<1> QED
  BY <1>c, <1>9, <1>10 DEF Ledger!LedgerNext

\* A claim that is deleted takes nothing with it: its payments stay booked.
LEMMA Waived ==
  ASSUME NEW txs, NEW txs2, txs = transactions, txs2 = transactions',
         CashOf(txs2) = CashOf(txs),
         NEW x \in Claims(contributions, assignments),
         Claims(contributions', assignments') = Claims(contributions, assignments) \ {x},
         \A c \in DOMAIN contributions' :
           FeeClaim(txs2, contributions', c) = FeeClaim(txs, contributions, c),
         \A a \in DOMAIN assignments' :
           FineClaim(txs2, assignments', a) = FineClaim(txs, assignments, a)
  PROVE  Ledger!LedgerNext
<1>a. PICK fees, fees2, fines, fines2 :
        /\ fees = contributions /\ fees2 = contributions'
        /\ fines = assignments /\ fines2 = assignments'
  OBVIOUS
<1> DEFINE f == BooksOf(txs, fees, fines)
           g == BooksOf(txs2, fees2, fines2)
           D == Claims(fees2, fines2)
<1>b. /\ D = Claims(fees, fines) \ {x} /\ x \in Claims(fees, fines)
      /\ \A c \in DOMAIN fees2 : FeeClaim(txs2, fees2, c) = FeeClaim(txs, fees, c)
      /\ \A a \in DOMAIN fines2 : FineClaim(txs2, fines2, a) = FineClaim(txs, fines, a)
  BY <1>a
<1>1. g = [y \in D |-> g[y]]
  BY BookOf
<1>2. ASSUME NEW y \in D PROVE g[y] = f[y]
  <2>1. CASE \E c \in DOMAIN fees2 : y = <<"fee", c>>
    <3>1. PICK c \in DOMAIN fees2 : y = <<"fee", c>>
      BY <2>1
    <3>2. c \in DOMAIN fees
      BY <1>b, <1>2, <3>1 DEF Claims
    <3>3. g[y] = FeeClaim(txs2, fees2, c) /\ f[y] = FeeClaim(txs, fees, c)
      BY <3>1, <3>2, BookOf
    <3> QED
      BY <1>b, <3>1, <3>3
  <2>2. CASE \E a \in DOMAIN fines2 : y = <<"fine", a>>
    <3>1. PICK a \in DOMAIN fines2 : y = <<"fine", a>>
      BY <2>2
    <3>2. a \in DOMAIN fines
      BY <1>b, <1>2, <3>1 DEF Claims
    <3>3. g[y] = FineClaim(txs2, fines2, a) /\ f[y] = FineClaim(txs, fines, a)
      BY <3>1, <3>2, BookOf
    <3> QED
      BY <1>b, <3>1, <3>3
  <2> QED
    BY <2>1, <2>2, ClaimKinds
<1>3. g = [y \in D |-> f[y]]
  <2> HIDE DEF f, g, D
  <2> QED
    BY <1>1, <1>2
<1>4. f = Books /\ g = Books' /\ DOMAIN f = Claims(fees, fines)
  BY <1>a, BooksAre, BookOf
<1> HIDE DEF f, g
<1>5. x \in DOMAIN Books /\ Books' = [y \in DOMAIN Books \ {x} |-> Books[y]]
  BY <1>b, <1>3, <1>4
<1>6. UNCHANGED CashOf(transactions)
  OBVIOUS
<1>7. x \notin DOMAIN Books' /\ Ledger!Waive(x)
  BY <1>5, <1>6 DEF Ledger!Waive, CashOf
<1> QED
  BY <1>5, <1>7 DEF Ledger!LedgerNext

-----------------------------------------------------------------------------
(* Bookings that lose a link and keep the rest.                              *)

Alike(txs, txs2) ==
  /\ DOMAIN txs2 = DOMAIN txs
  /\ \A i \in DOMAIN txs :
       /\ txs2[i].amount = txs[i].amount
       /\ txs2[i].team = txs[i].team
       /\ txs2[i].type = txs[i].type

LEMMA AlikePriced ==
  ASSUME NEW txs, NEW txs2, Priced(txs), Alike(txs, txs2)
  PROVE  Priced(txs2)
BY DEF Priced, PricedRow, Alike

LEMMA AlikeCash ==
  ASSUME NEW txs, NEW txs2, Priced(txs), Alike(txs, txs2)
  PROVE  CashOf(txs2) = CashOf(txs)
<1>1. ASSUME NEW t, NEW type
      PROVE  SumTransactions(txs2, t, type) = SumTransactions(txs, t, type)
  <2> DEFINE A == {i \in InTeam(txs, t) : txs[i].type = type}
  <2>1. A = {i \in InTeam(txs2, t) : txs2[i].type = type} /\ A \subseteq DOMAIN txs
    BY DEF InTeam, Alike
  <2>2. Total(Amount(txs2), A) = Total(Amount(txs), A)
    BY <2>1, SameSums DEF Alike
  <2> QED
    BY <2>1, <2>2 DEF SumTransactions
<1> QED
  BY <1>1 DEF CashOf, Cash

LEMMA AlikeFee ==
  ASSUME NEW txs, NEW txs2, Priced(txs), Alike(txs, txs2), NEW c,
         \A i \in DOMAIN txs : txs2[i].contribution = c <=> txs[i].contribution = c
  PROVE  PaidToFee(txs2, c) = PaidToFee(txs, c)
<1> DEFINE A == {i \in DOMAIN txs : txs[i].contribution = c /\ txs[i].type = "income"}
<1>1. A = {i \in DOMAIN txs2 : txs2[i].contribution = c /\ txs2[i].type = "income"}
  BY DEF Alike
<1>2. Total(Amount(txs2), A) = Total(Amount(txs), A)
  BY SameSums DEF Alike
<1> QED
  BY <1>1, <1>2 DEF PaidToFee

LEMMA AlikeFine ==
  ASSUME NEW txs, NEW txs2, Priced(txs), Alike(txs, txs2), NEW a,
         \A i \in DOMAIN txs : txs2[i].assignment = a <=> txs[i].assignment = a
  PROVE  PaidToFine(txs2, a) = PaidToFine(txs, a)
<1> DEFINE A == {i \in DOMAIN txs : txs[i].assignment = a /\ txs[i].type = "income"}
<1>1. A = {i \in DOMAIN txs2 : txs2[i].assignment = a /\ txs2[i].type = "income"}
  BY DEF Alike
<1>2. Total(Amount(txs2), A) = Total(Amount(txs), A)
  BY SameSums DEF Alike
<1> QED
  BY <1>1, <1>2 DEF PaidToFine

-----------------------------------------------------------------------------
(* Every action is a step of the ledger, or none of the ledger's business.   *)

OnLedger ==
  /\ Priced(transactions')
  /\ Ledger!LedgerNext \/ UNCHANGED Ledger!ledgerVars

LEMMA NotOnLedger ==
  ASSUME MoneyInv, UNCHANGED <<transactions, contributions, assignments>>
  PROVE  OnLedger
<1>1. CashOf(transactions') = CashOf(transactions) /\ Books' = Books
  BY BooksAre
<1> QED
  BY <1>1, BooksRest DEF OnLedger, MoneyInv

LEMMA CreateTransactionOnLedger ==
  ASSUME MoneyInv, FinancesInv', NEW s \in Slots, CreateTransaction(s)
  PROVE  OnLedger
<1> DEFINE r == req[s]
           n == NextId("transactions")
           row == [team |-> r.team, type |-> r.type, amount |-> r.amount,
                   contribution |-> r.contribution, assignment |-> r.assignment]
<1>1. UNCHANGED <<contributions, assignments>>
  BY DEF CreateTransaction
<1>2. CASE UNCHANGED transactions
  BY <1>1, <1>2, NotOnLedger
<1>3. CASE transactions' = Put(transactions, n, row)
  <2>0. n \notin used["transactions"]
    BY FreshId, FinancesAssumption DEF NextId, Fresh, CreateTransaction
  <2> HIDE DEF n
  <2>1. n \notin DOMAIN transactions
    BY <2>0 DEF MoneyInv, FinancesInv, FinancesTypeOK
  <2>2. PricedRow(row)
    BY DEF CreateTransaction, At, Free, MoneyInv, Pricing, PricedRow
  <2>3. PICK txs, txs2 : txs = transactions /\ txs2 = transactions'
    OBVIOUS
  <2> HIDE DEF row
  <2>4. /\ DOMAIN txs2 = DOMAIN txs \cup {n} /\ txs2[n] = row
        /\ \A i \in DOMAIN txs : i # n => txs2[i] = txs[i]
    BY <1>3, <2>3 DEF Put
  <2>5. Priced(txs) /\ Priced(txs2)
    <3>1. Priced(txs)
      BY <2>3 DEF MoneyInv
    <3>2. IsFiniteSet(DOMAIN txs2)
      BY <2>4, <3>1, FS_AddElement DEF Priced
    <3> QED
      BY <2>2, <2>4, <3>1, <3>2 DEF Priced
  <2>6. OneRow(txs, txs2, n)
    BY <2>4 DEF OneRow
  <2>7. Linked(row, contributions, assignments)
    BY <1>1, <2>3, <2>4 DEF FinancesInv
  <2>8. \A rows \in {txs, txs2} : n \in DOMAIN rows =>
          /\ rows[n].team = row.team /\ rows[n].contribution = row.contribution
          /\ rows[n].assignment = row.assignment
          /\ Linked(rows[n], contributions, assignments)
    BY <2>1, <2>3, <2>4, <2>7
  <2>9. Ledger!LedgerNext
    BY <1>1, <2>2, <2>3, <2>4, <2>5, <2>6, <2>8, NoneIsNoId, Booked DEF MoneyInv, PricedRow
  <2> QED
    BY <2>3, <2>5, <2>9 DEF OnLedger
<1> QED
  BY <1>2, <1>3 DEF CreateTransaction

LEMMA UpdateTransactionOnLedger ==
  ASSUME MoneyInv, FinancesInv', NEW s \in Slots, UpdateTransaction(s)
  PROVE  OnLedger
<1> DEFINE r == req[s]
           n == r.id
<1>1. UNCHANGED <<contributions, assignments>>
  BY DEF UpdateTransaction
<1>2. CASE UNCHANGED transactions
  BY <1>1, <1>2, NotOnLedger
<1>3. CASE /\ n \in InTeam(transactions, r.team)
           /\ transactions' = [transactions EXCEPT ![n] = Patched(@, r)]
  <2>1. PICK txs, txs2 : txs = transactions /\ txs2 = transactions'
    OBVIOUS
  <2>2. Priced(txs) /\ n \in DOMAIN txs
    BY <1>3, <2>1 DEF MoneyInv, InTeam
  <2>3. r.amount \in Nat /\ r.type \in Types \cup {"same"}
    BY DEF UpdateTransaction, At, Free, MoneyInv, Pricing, FinancesInv, StandsAs, Correcting
  <2> DEFINE new == Patched(txs[n], r)
  <2>4. /\ new.team = txs[n].team /\ new.contribution = txs[n].contribution
        /\ new.assignment = txs[n].assignment
        /\ new.type = IF r.type = "same" THEN txs[n].type ELSE r.type
        /\ new.amount = IF r.amount = None THEN txs[n].amount ELSE r.amount
    <3>1. DOMAIN txs[n] = TransactionFields
      BY <2>1, <2>2 DEF MoneyInv, FinancesInv, FinancesTypeOK
    <3> QED
      BY <3>1 DEF Patched, TransactionFields
  <2> HIDE DEF new, n
  <2>5. /\ DOMAIN txs2 = DOMAIN txs /\ txs2[n] = new
        /\ \A i \in DOMAIN txs : i # n => txs2[i] = txs[i]
    BY <1>3, <2>1, <2>2 DEF new
  <2>6. PricedRow(new)
    BY <2>2, <2>3, <2>4 DEF Priced, PricedRow
  <2>7. Priced(txs2) /\ OneRow(txs, txs2, n)
    BY <2>2, <2>5, <2>6 DEF Priced, OneRow
  <2>8. /\ Linked(txs[n], contributions, assignments)
        /\ Linked(txs2[n], contributions, assignments)
    BY <1>1, <2>1, <2>2, <2>5 DEF MoneyInv, FinancesInv
  <2>9. \A rows \in {txs, txs2} : n \in DOMAIN rows =>
          /\ rows[n].team = new.team /\ rows[n].contribution = new.contribution
          /\ rows[n].assignment = new.assignment
          /\ Linked(rows[n], contributions, assignments)
    BY <2>4, <2>5, <2>8
  <2>10. Ledger!LedgerNext
    BY <1>1, <2>1, <2>2, <2>6, <2>7, <2>9, NoneIsNoId, Booked DEF MoneyInv, PricedRow
  <2> QED
    BY <2>1, <2>7, <2>10 DEF OnLedger
<1> QED
  BY <1>2, <1>3 DEF UpdateTransaction

LEMMA DeleteTransactionOnLedger ==
  ASSUME MoneyInv, NEW t, NEW n, DeleteTransaction(t, n)
  PROVE  OnLedger
<1>1. UNCHANGED <<contributions, assignments>> /\ n \in DOMAIN transactions
  BY DEF DeleteTransaction, InTeam
<1>2. PICK txs, txs2 : txs = transactions /\ txs2 = transactions'
  OBVIOUS
<1>3. /\ DOMAIN txs2 = DOMAIN txs \ {n} /\ n \in DOMAIN txs
      /\ \A i \in DOMAIN txs2 : txs2[i] = txs[i]
  BY <1>1, <1>2 DEF DeleteTransaction, Drop, Restrict
<1>4. Priced(txs) /\ Priced(txs2)
  <2>1. Priced(txs)
    BY <1>2 DEF MoneyInv
  <2>2. IsFiniteSet(DOMAIN txs2)
    BY <1>3, <2>1, FS_Subset DEF Priced
  <2> QED
    BY <1>3, <2>1, <2>2 DEF Priced
<1>5. OneRow(txs, txs2, n)
  BY <1>3 DEF OneRow
<1>6. Linked(txs[n], contributions, assignments)
  BY <1>2, <1>3 DEF MoneyInv, FinancesInv
<1>7. \A rows \in {txs, txs2} : n \in DOMAIN rows =>
        /\ rows[n].team = txs[n].team /\ rows[n].contribution = txs[n].contribution
        /\ rows[n].assignment = txs[n].assignment
        /\ Linked(rows[n], contributions, assignments)
  BY <1>3, <1>6
<1>8. txs[n].team \in Teams
  BY <1>3, <1>4 DEF Priced, PricedRow
<1>9. Ledger!LedgerNext
  BY <1>1, <1>2, <1>3, <1>4, <1>5, <1>7, <1>8, NoneIsNoId, Booked DEF MoneyInv
<1> QED
  BY <1>2, <1>4, <1>9 DEF OnLedger

LEMMA CreateAssignmentOnLedger ==
  ASSUME MoneyInv, FinancesInv', NEW s \in Slots, CreateAssignment(s)
  PROVE  OnLedger
<1> DEFINE n == NextId("assignments")
<1>1. UNCHANGED <<transactions, contributions>>
  BY DEF CreateAssignment
<1>2. CASE UNCHANGED assignments
  BY <1>1, <1>2, NotOnLedger
<1>3. CASE \E row : assignments' = Put(assignments, n, row)
  <2>0. n \notin used["assignments"]
    BY FreshId, FinancesAssumption DEF NextId, Fresh, CreateAssignment
  <2> HIDE DEF n
  <2>1. n \notin DOMAIN assignments
    BY <2>0 DEF MoneyInv, FinancesInv, FinancesTypeOK
  <2>2. \A a \in DOMAIN assignments :
          a \in DOMAIN assignments' /\ assignments'[a] = assignments[a]
    BY <1>3, <2>1 DEF Put
  <2>3. \A k : k \in DOMAIN contributions' \/ k \in DOMAIN assignments' => k # None
    BY FinancesAssumption DEF FinancesInv, FinancesTypeOK, BookedTables, None
  <2>4. Ledger!LedgerNext
    BY <1>1, <2>2, <2>3, Raised DEF MoneyInv
  <2> QED
    BY <1>1, <2>4 DEF OnLedger, MoneyInv
<1> QED
  BY <1>2, <1>3 DEF CreateAssignment

LEMMA CreateContributionsOnLedger ==
  ASSUME MoneyInv, FinancesInv', NEW s \in Slots, CreateContributions(s)
  PROVE  OnLedger
<1>1. UNCHANGED <<transactions, assignments>>
  BY DEF CreateContributions
<1>2. PICK ids, to :
        /\ ids \subseteq Ids \ used["contributions"]
        /\ contributions' = [i \in DOMAIN contributions \cup ids |->
              IF i \in ids THEN [team |-> req[s].team, user |-> to[i],
                                 amount |-> req[s].amount, archived |-> FALSE]
              ELSE contributions[i]]
  BY DEF CreateContributions, kSubset, Fresh
<1>3. \A c \in DOMAIN contributions : c \notin ids
  BY <1>2 DEF MoneyInv, FinancesInv, FinancesTypeOK
<1>4. \A c \in DOMAIN contributions :
        c \in DOMAIN contributions' /\ contributions'[c] = contributions[c]
  BY <1>2, <1>3
<1>5. \A k : k \in DOMAIN contributions' \/ k \in DOMAIN assignments' => k # None
  BY FinancesAssumption DEF FinancesInv, FinancesTypeOK, BookedTables, None
<1>6. Ledger!LedgerNext
  BY <1>1, <1>4, <1>5, Raised DEF MoneyInv
<1> QED
  BY <1>1, <1>6 DEF OnLedger, MoneyInv

LEMMA UpdateContributionOnLedger ==
  ASSUME MoneyInv, NEW t, NEW id, NEW amount, NEW archived,
         UpdateContribution(t, id, amount, archived)
  PROVE  OnLedger
<1> DEFINE new == [contributions[id] EXCEPT !.amount = amount, !.archived = archived]
<1>1. UNCHANGED <<transactions, assignments>> /\ id \in DOMAIN contributions
  BY DEF UpdateContribution, InTeam
<1>2. new.team = contributions[id].team
  BY <1>1 DEF MoneyInv, FinancesInv, FinancesTypeOK, FeeFields
<1>3. contributions' = [contributions EXCEPT ![id] = new]
  BY DEF UpdateContribution
<1> HIDE DEF new
<1>4. /\ DOMAIN contributions' = DOMAIN contributions
      /\ contributions'[id].team = contributions[id].team
      /\ \A c \in DOMAIN contributions : c # id => contributions'[c] = contributions[c]
  BY <1>1, <1>2, <1>3
<1>5. Ledger!LedgerNext
  BY <1>1, <1>4, Repriced
<1> QED
  BY <1>1, <1>5 DEF OnLedger, MoneyInv

LEMMA DeleteAssignmentOnLedger ==
  ASSUME MoneyInv, NEW t, NEW id, DeleteAssignment(t, id)
  PROVE  OnLedger
<1>1. UNCHANGED contributions /\ id \in DOMAIN assignments /\ id # None
  BY NoneIsNoId DEF DeleteAssignment, InTeam, MoneyInv
<1>2. PICK txs, txs2, fines2 :
        txs = transactions /\ txs2 = transactions' /\ fines2 = assignments'
  OBVIOUS
<1>3. /\ DOMAIN fines2 = DOMAIN assignments \ {id}
      /\ \A a \in DOMAIN fines2 : fines2[a] = assignments[a]
  BY <1>2 DEF DeleteAssignment, Drop, Restrict
<1>4. \A i \in DOMAIN txs :
        /\ txs2[i].amount = txs[i].amount /\ txs2[i].team = txs[i].team
        /\ txs2[i].type = txs[i].type /\ txs2[i].contribution = txs[i].contribution
        /\ txs2[i].assignment = IF txs[i].assignment = id THEN None ELSE txs[i].assignment
  <2>1. ASSUME NEW row, DOMAIN row = TransactionFields
        PROVE  LET new == WithoutFine(row, id)
               IN /\ new.amount = row.amount /\ new.team = row.team /\ new.type = row.type
                  /\ new.contribution = row.contribution
                  /\ new.assignment = IF row.assignment = id THEN None ELSE row.assignment
    BY <2>1 DEF WithoutFine, TransactionFields
  <2>2. \A i \in DOMAIN txs :
          DOMAIN txs[i] = TransactionFields /\ txs2[i] = WithoutFine(txs[i], id)
    BY <1>2 DEF DeleteAssignment, MoneyInv, FinancesInv, FinancesTypeOK
  <2> QED
    BY <2>1, <2>2
<1>5. Priced(txs) /\ Alike(txs, txs2)
  BY <1>2, <1>4 DEF MoneyInv, Alike, DeleteAssignment
<1>6. Priced(txs2) /\ CashOf(txs2) = CashOf(txs)
  BY <1>5, AlikePriced, AlikeCash
<1>7. \A c \in DOMAIN contributions :
        FeeClaim(txs2, contributions, c) = FeeClaim(txs, contributions, c)
  BY <1>4, <1>5, AlikeFee DEF FeeClaim
<1>8. \A a \in DOMAIN fines2 : FineClaim(txs2, fines2, a) = FineClaim(txs, assignments, a)
  <2> TAKE a \in DOMAIN fines2
  <2>1. a # id /\ a # None
    BY <1>3, NoneIsNoId DEF MoneyInv
  <2>2. \A i \in DOMAIN txs : txs2[i].assignment = a <=> txs[i].assignment = a
    BY <1>4, <2>1
  <2> QED
    BY <1>3, <1>5, <2>2, AlikeFine DEF FineClaim
<1>9. /\ <<"fine", id>> \in Claims(contributions, assignments)
      /\ Claims(contributions, fines2) = Claims(contributions, assignments) \ {<<"fine", id>>}
  BY <1>1, <1>3 DEF Claims
<1>10. Ledger!LedgerNext
  BY <1>1, <1>2, <1>6, <1>7, <1>8, <1>9, Waived
<1> QED
  BY <1>2, <1>6, <1>10 DEF OnLedger

LEMMA DeleteContributionOnLedger ==
  ASSUME MoneyInv, NEW t, NEW id, DeleteContribution(t, id)
  PROVE  OnLedger
<1>1. UNCHANGED assignments /\ id \in DOMAIN contributions /\ id # None
  BY NoneIsNoId DEF DeleteContribution, InTeam, MoneyInv
<1>2. PICK txs, txs2, fees2 :
        txs = transactions /\ txs2 = transactions' /\ fees2 = contributions'
  OBVIOUS
<1>3. /\ DOMAIN fees2 = DOMAIN contributions \ {id}
      /\ \A c \in DOMAIN fees2 : fees2[c] = contributions[c]
  BY <1>2 DEF DeleteContribution, Drop, Restrict
<1>4. \A i \in DOMAIN txs :
        /\ txs2[i].amount = txs[i].amount /\ txs2[i].team = txs[i].team
        /\ txs2[i].type = txs[i].type /\ txs2[i].assignment = txs[i].assignment
        /\ txs2[i].contribution =
             IF txs[i].contribution = id THEN None ELSE txs[i].contribution
  <2>1. ASSUME NEW row, DOMAIN row = TransactionFields
        PROVE  LET new == WithoutFee(row, id)
               IN /\ new.amount = row.amount /\ new.team = row.team /\ new.type = row.type
                  /\ new.assignment = row.assignment
                  /\ new.contribution =
                       IF row.contribution = id THEN None ELSE row.contribution
    BY <2>1 DEF WithoutFee, TransactionFields
  <2>2. \A i \in DOMAIN txs :
          DOMAIN txs[i] = TransactionFields /\ txs2[i] = WithoutFee(txs[i], id)
    BY <1>2 DEF DeleteContribution, MoneyInv, FinancesInv, FinancesTypeOK
  <2> QED
    BY <2>1, <2>2
<1>5. Priced(txs) /\ Alike(txs, txs2)
  BY <1>2, <1>4 DEF MoneyInv, Alike, DeleteContribution
<1>6. Priced(txs2) /\ CashOf(txs2) = CashOf(txs)
  BY <1>5, AlikePriced, AlikeCash
<1>7. \A a \in DOMAIN assignments :
        FineClaim(txs2, assignments, a) = FineClaim(txs, assignments, a)
  BY <1>4, <1>5, AlikeFine DEF FineClaim
<1>8. \A c \in DOMAIN fees2 : FeeClaim(txs2, fees2, c) = FeeClaim(txs, contributions, c)
  <2> TAKE c \in DOMAIN fees2
  <2>1. c # id /\ c # None
    BY <1>3, NoneIsNoId DEF MoneyInv
  <2>2. \A i \in DOMAIN txs : txs2[i].contribution = c <=> txs[i].contribution = c
    BY <1>4, <2>1
  <2> QED
    BY <1>3, <1>5, <2>2, AlikeFee DEF FeeClaim
<1>9. /\ <<"fee", id>> \in Claims(contributions, assignments)
      /\ Claims(fees2, assignments) = Claims(contributions, assignments) \ {<<"fee", id>>}
  BY <1>1, <1>3 DEF Claims
<1>10. Ledger!LedgerNext
  BY <1>1, <1>2, <1>6, <1>7, <1>8, <1>9, Waived
<1> QED
  BY <1>2, <1>6, <1>10 DEF OnLedger

\* The catalogue says what a fine will cost, not what one cost.
LEMMA CatalogueNotOnLedger ==
  ASSUME MoneyInv, NEW t, NEW id, NEW amount,
         UpdatePenalty(t, id, amount) \/ DeletePenalty(t, id)
  PROVE  OnLedger
<1>1. UNCHANGED <<transactions, contributions>>
  BY DEF UpdatePenalty, DeletePenalty
<1>2. ASSUME NEW row, DOMAIN row = FineFields
      PROVE  /\ WithoutPenalty(row, id).amount = row.amount
             /\ WithoutPenalty(row, id).team = row.team
  BY <1>2 DEF WithoutPenalty, FineFields
<1>3. /\ DOMAIN assignments' = DOMAIN assignments
      /\ \A a \in DOMAIN assignments :
           \/ assignments'[a] = assignments[a]
           \/ assignments'[a] = WithoutPenalty(assignments[a], id)
  BY DEF UpdatePenalty, DeletePenalty
<1>4. \A a \in DOMAIN assignments : /\ assignments'[a].amount = assignments[a].amount
                                    /\ assignments'[a].team = assignments[a].team
  BY <1>2, <1>3 DEF MoneyInv, FinancesInv, FinancesTypeOK
<1>5. PICK txs, fees, fines, fines2 :
        /\ txs = transactions /\ fees = contributions
        /\ fines = assignments /\ fines2 = assignments'
  OBVIOUS
<1>6. \A a \in DOMAIN fines : FineClaim(txs, fines2, a) = FineClaim(txs, fines, a)
  BY <1>4, <1>5 DEF FineClaim
<1>7. BooksOf(txs, fees, fines2) = BooksOf(txs, fees, fines)
  BY <1>3, <1>5, <1>6, BooksEqual
<1>8. CashOf(transactions') = CashOf(transactions) /\ Books' = Books
  BY <1>1, <1>5, <1>7, BooksAre
<1> QED
  BY <1>1, <1>8, BooksRest DEF OnLedger, MoneyInv

LEMMA NextOnLedger ==
  ASSUME MoneyInv, FinancesInv', [Next]_vars
  PROVE  OnLedger
<1>1. CASE UNCHANGED vars
  BY <1>1, NotOnLedger DEF vars
<1>2. CASE BookNext(CreateTransactionCalls)
  BY <1>2, CreateTransactionOnLedger, NotOnLedger DEF BookNext, AdmitTransaction, tables
<1>3. CASE CorrectNext(UpdateTransactionCalls)
  BY <1>3, UpdateTransactionOnLedger, NotOnLedger
    DEF CorrectNext, AdmitTransactionUpdate, tables
<1>4. CASE PenaltyNext(CreatePenaltyCalls)
  BY <1>4, CatalogueNotOnLedger, NotOnLedger
    DEF PenaltyNext, AdmitPenalty, CreatePenalty, tables
<1>5. CASE FineNext(CreateAssignmentCalls)
  BY <1>5, CreateAssignmentOnLedger, NotOnLedger
    DEF FineNext, AdmitAssignment, LoadPenalty, tables
<1>6. CASE FeeNext(CreateContributionsCalls)
  BY <1>6, CreateContributionsOnLedger, UpdateContributionOnLedger, NotOnLedger
    DEF FeeNext, AdmitContributions, InsertContribution, tables
<1>7. CASE DeleteNext
  BY <1>7, DeleteTransactionOnLedger, DeleteAssignmentOnLedger, DeleteContributionOnLedger
    DEF DeleteNext
<1>8. CASE MemberNext \/ OverviewNext
  BY <1>8, NotOnLedger DEF MemberNext, OverviewNext, Join, Leave, BeginOverview,
    GetOverview, AnswerOverview, tables
<1>9. CASE \E s \in Slots : Abort(s)
  BY <1>9, NotOnLedger DEF Abort, tables
<1> QED
  BY <1>1, <1>2, <1>3, <1>4, <1>5, <1>6, <1>7, <1>8, <1>9 DEF Next

-----------------------------------------------------------------------------
(* The requests on their way bring amounts that are amounts.                 *)

LEMMA RequestsPriced ==
  ASSUME MoneyInv, FinancesInv', Priced(transactions'), NEW s \in Slots, NEW q,
         req' = [req EXCEPT ![s] = q], q # Idle => Pricing(q)
  PROVE  MoneyInv'
<1>1. req'[s] = q /\ \A o \in Slots : o # s => req'[o] = req[o]
  BY DEF MoneyInv, FinancesInv, FinancesTypeOK
<1>2. \A o \in Slots : req'[o] # Idle => Pricing(req'[o])
  BY <1>1 DEF MoneyInv, Free
<1> QED
  BY <1>2 DEF MoneyInv, Free

LEMMA FinishedPriced ==
  ASSUME MoneyInv, FinancesInv', Priced(transactions'), NEW s \in Slots, Finish(s)
  PROVE  MoneyInv'
BY RequestsPriced DEF Finish

LEMMA AdmittedPriced ==
  ASSUME MoneyInv, FinancesInv', Priced(transactions'), NEW s \in Slots, NEW r, Start(s, r),
         \/ r \in CreateTransactionCalls \/ r \in UpdateTransactionCalls
         \/ r \in CreatePenaltyCalls \/ r \in CreateAssignmentCalls
         \/ r \in CreateContributionsCalls
  PROVE  MoneyInv'
<1>1. CASE r \in CreateTransactionCalls
  <2>1. r.team \in Teams /\ r.type \in Types /\ r.amount \in Amounts
        /\ r.op = "createTransaction"
    BY <1>1 DEF CreateTransactionCalls
  <2>2. Pricing(r)
    BY <2>1, FinancesAssumption DEF Pricing, PricedRow
  <2> QED
    BY <2>2, RequestsPriced DEF Start
<1>2. CASE r \in UpdateTransactionCalls
  <2>1. r.amount \in Amounts \cup {None} /\ r.op # "createTransaction"
    BY <1>2 DEF UpdateTransactionCalls
  <2>2. \A x \in Amounts \cup {None} : x \in Nat
    BY FinancesAssumption DEF None
  <2>3. r.amount \in Nat
    BY <2>1, <2>2
  <2>4. Pricing(r)
    BY <2>1, <2>3 DEF Pricing
  <2> QED
    BY <2>4, RequestsPriced DEF Start
<1>3. CASE r \in CreatePenaltyCalls \/ r \in CreateAssignmentCalls
             \/ r \in CreateContributionsCalls
  <2>1. r.op \notin {"createTransaction", "updateTransaction"}
    BY <1>3 DEF CreatePenaltyCalls, CreateAssignmentCalls, CreateContributionsCalls
  <2>2. Pricing(r)
    BY <2>1 DEF Pricing
  <2> QED
    BY <2>2, RequestsPriced DEF Start
<1> QED
  BY <1>1, <1>2, <1>3

LEMMA OthersPriced ==
  ASSUME MoneyInv, FinancesInv', Priced(transactions'), NEW s \in Slots,
         LoadPenalty(s) \/ InsertContribution(s)
  PROVE  MoneyInv'
<1> DEFINE r == req[s]
<1>1. "op" \in DOMAIN r /\ r.op \in {"createAssignment", "createContributions"}
  BY DEF LoadPenalty, InsertContribution, At, MoneyInv, FinancesInv, StandsAs
<1>2. CASE Finish(s)
  BY <1>2, FinishedPriced
<1>3. CASE \E amount : req' = [req EXCEPT ![s].pc = "insert", ![s].amount = amount]
  <2>1. PICK amount : req' = [req EXCEPT ![s].pc = "insert", ![s].amount = amount]
    BY <1>3
  <2> DEFINE q == [r EXCEPT !.pc = "insert", !.amount = amount]
  <2>2. req' = [req EXCEPT ![s] = q] /\ q.op = r.op
    BY <1>1, <2>1
  <2> HIDE DEF q
  <2>3. Pricing(q)
    BY <1>1, <2>2 DEF Pricing
  <2> QED
    BY <2>2, <2>3, RequestsPriced
<1>4. CASE \E done : req' = [req EXCEPT ![s].done = done]
  <2>1. PICK done : req' = [req EXCEPT ![s].done = done]
    BY <1>4
  <2> DEFINE q == [r EXCEPT !.done = done]
  <2>2. req' = [req EXCEPT ![s] = q] /\ q.op = r.op
    BY <1>1, <2>1
  <2> HIDE DEF q
  <2>3. Pricing(q)
    BY <1>1, <2>2 DEF Pricing
  <2> QED
    BY <2>2, <2>3, RequestsPriced
<1> QED
  BY <1>2, <1>3, <1>4 DEF LoadPenalty, InsertContribution

LEMMA MoneyRests ==
  ASSUME MoneyInv, FinancesInv', Priced(transactions'), UNCHANGED req
  PROVE  MoneyInv'
BY DEF MoneyInv, Free

LEMMA MoneyInvNext ==
  ASSUME MoneyInv, [Next]_vars
  PROVE  MoneyInv' /\ OnLedger
<1>1. FinancesInv'
  BY FinancesInvNext DEF MoneyInv
<1>2. OnLedger /\ Priced(transactions')
  BY <1>1, NextOnLedger DEF OnLedger
<1>3. MoneyInv'
  <2>1. CASE UNCHANGED req
    BY <1>1, <1>2, <2>1, MoneyRests
  <2>2. CASE \E s \in Slots : Finish(s)
    BY <1>1, <1>2, <2>2, FinishedPriced
  <2>3. CASE BookNext(CreateTransactionCalls)
    BY <1>1, <1>2, <2>2, <2>3, AdmittedPriced
      DEF BookNext, AdmitTransaction, CreateTransaction
  <2>4. CASE CorrectNext(UpdateTransactionCalls)
    BY <1>1, <1>2, <2>2, <2>4, AdmittedPriced
      DEF CorrectNext, AdmitTransactionUpdate, UpdateTransaction
  <2>5. CASE PenaltyNext(CreatePenaltyCalls)
    BY <1>1, <1>2, <2>1, <2>2, <2>5, AdmittedPriced
      DEF PenaltyNext, AdmitPenalty, CreatePenalty, UpdatePenalty, DeletePenalty
  <2>6. CASE FineNext(CreateAssignmentCalls)
    BY <1>1, <1>2, <2>2, <2>6, AdmittedPriced, OthersPriced
      DEF FineNext, AdmitAssignment, CreateAssignment
  <2>7. CASE FeeNext(CreateContributionsCalls)
    BY <1>1, <1>2, <2>1, <2>2, <2>7, AdmittedPriced, OthersPriced
      DEF FeeNext, AdmitContributions, CreateContributions, UpdateContribution
  <2>8. CASE DeleteNext \/ MemberNext \/ OverviewNext
    <3>1. UNCHANGED req
      BY <2>8 DEF DeleteNext, MemberNext, OverviewNext, DeleteTransaction, DeleteAssignment,
        DeleteContribution, Join, Leave, BeginOverview, GetOverview, AnswerOverview
    <3> QED
      BY <2>1, <3>1
  <2>9. CASE \E s \in Slots : Abort(s)
    BY <2>2, <2>9 DEF Abort
  <2> QED
    BY <2>1, <2>3, <2>4, <2>5, <2>6, <2>7, <2>8, <2>9 DEF Next, vars
<1> QED
  BY <1>2, <1>3

LEMMA MoneyInvInit == Init => MoneyInv
<1> SUFFICES ASSUME Init PROVE MoneyInv
  OBVIOUS
<1>1. DOMAIN transactions = {} /\ \A s \in Slots : Free(s)
  BY DEF Init, Free
<1>2. Priced(transactions)
  BY <1>1, FS_EmptySet DEF Priced
<1> QED
  BY <1>1, <1>2, FinancesInvInit DEF MoneyInv

LEMMA LedgerOpens == Init => Ledger!LedgerInit
<1> SUFFICES ASSUME Init PROVE Ledger!LedgerInit
  OBVIOUS
<1>1. DOMAIN transactions = {} /\ DOMAIN contributions = {} /\ DOMAIN assignments = {}
  BY DEF Init
<1>2. \A t, type : SumTransactions(transactions, t, type) = 0
  <2> TAKE t, type
  <2>1. {i \in InTeam(transactions, t) : transactions[i].type = type} = {}
    BY <1>1 DEF InTeam
  <2> QED
    BY <2>1, TotalOfNone DEF SumTransactions
<1>3. \A t : Cash(transactions, t) = 0
  BY <1>2 DEF Cash
<1>4. DOMAIN Books = {}
  BY <1>1 DEF Books
<1> QED
  BY <1>3, <1>4 DEF Ledger!LedgerInit

\* For any number of teams, members, ids, amounts and requests in flight: the tables are a
\* ledger; every write of the component raises claims, waives or reprices one, or books
\* money for at most one claim of one team, whose paid amount moves with the team's cash.
\* (finances.Repository: paid amounts are sums over the linked transactions.)
THEOREM BooksStayALedger == Spec => BooksAreALedger
<1>1. MoneyInv /\ [Next]_vars => MoneyInv'
  BY MoneyInvNext
<1>2. MoneyInv /\ [Next]_vars => [Ledger!LedgerNext]_(Ledger!ledgerVars)
  BY MoneyInvNext DEF OnLedger
<1> QED
  BY <1>1, <1>2, MoneyInvInit, LedgerOpens, PTL DEF Spec, BooksAreALedger, Ledger!LedgerSpec

-----------------------------------------------------------------------------
(* The overview.                                                             *)

\* Fees and fines of a snapshot, with what they cost.
FeesPriced(fees) ==
  /\ IsFiniteSet(DOMAIN fees) /\ None \notin DOMAIN fees
  /\ \A c \in DOMAIN fees : fees[c].amount \in Nat \ {0}
FinesPriced(fines) ==
  /\ IsFiniteSet(DOMAIN fines) /\ None \notin DOMAIN fines
  /\ \A a \in DOMAIN fines : fines[a].amount \in Nat

SnapshotSound(db) ==
  /\ Priced(db.transactions) /\ FeesPriced(db.contributions) /\ FinesPriced(db.assignments)
  /\ \A i \in DOMAIN db.transactions :
       Linked(db.transactions[i], db.contributions, db.assignments)

\* A finite set has subsets of every size up to its own.
LEMMA SomeRows ==
  ASSUME NEW S, IsFiniteSet(S), NEW n \in Nat, n =< Cardinality(S)
  PROVE  \E T \in SUBSET S : Cardinality(T) = n
<1> DEFINE B == {T \in SUBSET S : n =< Cardinality(T)}
<1>1. B \subseteq SUBSET S /\ S \in B
  OBVIOUS
<1> HIDE DEF B
<1>2. PICK T \in B : IsFiniteSet(T) /\ \A U \in SUBSET T : U # T => U \notin B
  BY <1>1, LeastSet
<1>3. T \in SUBSET S /\ n =< Cardinality(T) /\ Cardinality(T) \in Nat
  BY <1>2, FS_CardinalityType DEF B
<1>4. ASSUME n < Cardinality(T) PROVE FALSE
  <2>1. T # {}
    BY <1>4, <1>3, FS_EmptySet
  <2>2. PICK x \in T : TRUE
    BY <2>1
  <2>3. Cardinality(T \ {x}) = Cardinality(T) - 1
    BY <1>2, FS_RemoveElement
  <2>4. T \ {x} \in B
    BY <1>3, <1>4, <2>3 DEF B
  <2> QED
    BY <1>2, <2>2, <2>4
<1> QED
  BY <1>3, <1>4

\* A list that is shorter than the cap has all the rows.
LEMMA CappedRows ==
  ASSUME NEW S, IsFiniteSet(S)
  PROVE  /\ Capped(S) \subseteq S
         /\ Cardinality(Capped(S)) < MaxOverviewRows => Capped(S) = S
<1>1. CASE Cardinality(S) <= MaxOverviewRows
  BY <1>1 DEF Capped
<1>2. CASE ~(Cardinality(S) <= MaxOverviewRows)
  <2> DEFINE K == kSubset(MaxOverviewRows, S)
  <2>1. MaxOverviewRows \in Nat /\ MaxOverviewRows =< Cardinality(S)
    BY <1>2, FinancesAssumption, FS_CardinalityType
  <2>2. K # {}
    BY <2>1, SomeRows DEF kSubset
  <2>3. Capped(S) = CHOOSE T \in K : TRUE
    BY <1>2 DEF Capped
  <2> HIDE DEF K
  <2>4. Capped(S) \in K
    BY <2>2, <2>3
  <2> QED
    BY <2>1, <2>4 DEF K, kSubset
<1> QED
  BY <1>1, <1>2

LEMMA RowsOf ==
  ASSUME NEW f, IsFiniteSet(DOMAIN f), NEW t
  PROVE  IsFiniteSet(InTeam(f, t))
<1>1. InTeam(f, t) \subseteq DOMAIN f
  BY DEF InTeam
<1> QED
  BY <1>1, FS_Subset

\* The sum of the bookings of a set does not depend on what else was booked.
LEMMA SameBookings ==
  ASSUME NEW txs, NEW booked, NEW S, IsFiniteSet(S), S \subseteq DOMAIN txs,
         S \subseteq DOMAIN booked, \A i \in S : booked[i] = txs[i]
  PROVE  Total(Amount(booked), S) = Total(Amount(txs), S)
<1> DEFINE f == Amount(booked)
           g == Amount(txs)
<1>1. \A i \in S : f[i] = g[i]
  BY DEF Amount
<1> HIDE DEF f, g
<1> QED
  BY <1>1, TotalSame DEF f, g

\* Where all bookings of the team are shown, they add up to its totals, and to what was
\* paid for its fees and fines.
LEMMA BookingsShown ==
  ASSUME NEW db, SnapshotSound(db), NEW t, Complete(LoadTransactions(db, t))
  PROVE  /\ \A type : SumTransactions(LoadTransactions(db, t), t, type)
                        = SumTransactions(db.transactions, t, type)
         /\ \A c \in InTeam(db.contributions, t) :
              PaidToFee(LoadTransactions(db, t), c) = PaidToFee(db.transactions, c)
         /\ \A a \in InTeam(db.assignments, t) :
              PaidToFine(LoadTransactions(db, t), a) = PaidToFine(db.transactions, a)
<1> DEFINE txs == db.transactions
           booked == LoadTransactions(db, t)
           I == InTeam(txs, t)
<1>1. IsFiniteSet(DOMAIN txs) /\ IsFiniteSet(I)
  BY RowsOf DEF SnapshotSound, Priced
<1>2. DOMAIN booked = Capped(I) /\ \A i \in DOMAIN booked : booked[i] = txs[i]
  BY DEF LoadTransactions, Restrict
<1>3. DOMAIN booked = I
  BY <1>1, <1>2, CappedRows DEF Complete
<1>4. I \subseteq DOMAIN txs /\ InTeam(booked, t) = I
  BY <1>2, <1>3 DEF InTeam
<1> HIDE DEF booked, txs
<1>5. ASSUME NEW S, S \subseteq I
      PROVE  Total(Amount(booked), S) = Total(Amount(txs), S)
  <2>1. IsFiniteSet(S)
    BY <1>1, <1>5, FS_Subset
  <2> QED
    BY <1>2, <1>3, <1>4, <1>5, <2>1, SameBookings
<1>6. ASSUME NEW type
      PROVE  SumTransactions(booked, t, type) = SumTransactions(txs, t, type)
  <2>1. {i \in InTeam(booked, t) : booked[i].type = type}
          = {i \in I : txs[i].type = type}
    BY <1>2, <1>3, <1>4
  <2> QED
    BY <1>5, <2>1 DEF SumTransactions
<1>7. \A i \in DOMAIN txs : Linked(txs[i], db.contributions, db.assignments)
  BY DEF SnapshotSound, txs
<1>8. ASSUME NEW c \in InTeam(db.contributions, t)
      PROVE  PaidToFee(booked, c) = PaidToFee(txs, c)
  <2>1. c # None /\ db.contributions[c].team = t
    BY <1>8 DEF SnapshotSound, FeesPriced, InTeam
  <2>2. \A i \in DOMAIN txs : txs[i].contribution = c => i \in I
    BY <1>7, <2>1 DEF Linked, InTeam
  <2>3. {i \in DOMAIN booked : booked[i].contribution = c /\ booked[i].type = "income"}
          = {i \in DOMAIN txs : txs[i].contribution = c /\ txs[i].type = "income"}
    BY <1>2, <1>3, <1>4, <2>2
  <2>4. {i \in DOMAIN txs : txs[i].contribution = c /\ txs[i].type = "income"} \subseteq I
    BY <2>2
  <2> QED
    BY <1>5, <2>3, <2>4 DEF PaidToFee
<1>9. ASSUME NEW a \in InTeam(db.assignments, t)
      PROVE  PaidToFine(booked, a) = PaidToFine(txs, a)
  <2>1. a # None /\ db.assignments[a].team = t
    BY <1>9 DEF SnapshotSound, FinesPriced, InTeam
  <2>2. \A i \in DOMAIN txs : txs[i].assignment = a => i \in I
    BY <1>7, <2>1 DEF Linked, InTeam
  <2>3. {i \in DOMAIN booked : booked[i].assignment = a /\ booked[i].type = "income"}
          = {i \in DOMAIN txs : txs[i].assignment = a /\ txs[i].type = "income"}
    BY <1>2, <1>3, <1>4, <2>2
  <2>4. {i \in DOMAIN txs : txs[i].assignment = a /\ txs[i].type = "income"} \subseteq I
    BY <2>2
  <2> QED
    BY <1>5, <2>3, <2>4 DEF PaidToFine
<1> QED
  BY <1>6, <1>8, <1>9 DEF booked, txs

LEMMA PaidIsNat ==
  ASSUME NEW txs, Priced(txs)
  PROVE  \A k : PaidToFee(txs, k) \in Nat /\ PaidToFine(txs, k) \in Nat
<1>1. ASSUME NEW S, S \subseteq DOMAIN txs
      PROVE  Total(Amount(txs), S) \in Nat
  <2> DEFINE f == Amount(txs)
  <2>1. IsFiniteSet(S) /\ \A i \in S : f[i] \in Nat
    BY <1>1, FS_Subset DEF Priced, PricedRow, Amount
  <2> HIDE DEF f
  <2> QED
    BY <2>1, TotalNat DEF f
<1>2. \A k : /\ {i \in DOMAIN txs : txs[i].contribution = k /\ txs[i].type = "income"}
                  \subseteq DOMAIN txs
             /\ {i \in DOMAIN txs : txs[i].assignment = k /\ txs[i].type = "income"}
                  \subseteq DOMAIN txs
  OBVIOUS
<1> QED
  BY <1>1, <1>2 DEF PaidToFee, PaidToFine

\* Where all fees are shown, as many of them are open as are counted.
LEMMA FeesShown ==
  ASSUME NEW db, SnapshotSound(db), NEW t, Complete(ListContributions(db, t))
  PROVE  LET fees == ListContributions(db, t) IN
         CountOpenContributions(db, t) = Cardinality({c \in DOMAIN fees :
           ~fees[c].archived /\ ContributionStatus(fees[c].paid, fees[c].amount) # "paid"})
<1> DEFINE rows == db.contributions
           I == InTeam(rows, t)
           fees == ListContributions(db, t)
<1>1. IsFiniteSet(I)
  BY RowsOf DEF SnapshotSound, FeesPriced
<1>2. DOMAIN fees = Capped(I)
  BY DEF ListContributions
<1>3. DOMAIN fees = I
  BY <1>1, <1>2, CappedRows DEF Complete
<1>4. ASSUME NEW c \in I
      PROVE  /\ fees[c].amount = rows[c].amount /\ fees[c].archived = rows[c].archived
             /\ fees[c].paid = PaidToFee(db.transactions, c)
  BY <1>2, <1>3 DEF ListContributions
<1>5. ASSUME NEW c \in I
      PROVE  ContributionStatus(fees[c].paid, fees[c].amount) # "paid"
               <=> PaidToFee(db.transactions, c) < rows[c].amount
  <2>1. rows[c].amount \in Nat \ {0} /\ PaidToFee(db.transactions, c) \in Nat
    BY <1>5, PaidIsNat DEF SnapshotSound, FeesPriced, InTeam
  <2> HIDE DEF fees, rows, I
  <2> DEFINE p == PaidToFee(db.transactions, c)
             m == rows[c].amount
  <2>2. ContributionStatus(fees[c].paid, fees[c].amount) = ContributionStatus(p, m)
    BY <1>4
  <2> HIDE DEF p, m
  <2>3. p < m => ~(p >= m)
    BY <2>1 DEF p, m
  <2>4. ~(p < m) => p >= m /\ ~(p <= 0)
    BY <2>1 DEF p, m
  <2>5. ContributionStatus(p, m) # "paid" <=> p < m
    BY <2>3, <2>4 DEF ContributionStatus
  <2> QED
    BY <2>2, <2>5 DEF p, m
<1>6. {c \in I : ~rows[c].archived /\ PaidToFee(db.transactions, c) < rows[c].amount}
        = {c \in DOMAIN fees :
            ~fees[c].archived /\ ContributionStatus(fees[c].paid, fees[c].amount) # "paid"}
  <2> HIDE DEF fees, rows, I
  <2> QED
    BY <1>3, <1>4, <1>5
<1> QED
  BY <1>6 DEF CountOpenContributions

\* What each member owes, by a list of fines.
Owed(fines) ==
  LET unpaid == {a \in DOMAIN fines : ~AssignmentPaid(fines[a].paid, fines[a].amount)}
      left == [a \in unpaid |-> Remaining(fines[a].amount, fines[a].paid)] IN
  [u \in {fines[a].user : a \in unpaid} |->
    Total(left, {a \in unpaid : fines[a].user = u})]

\* Where all fines are shown, what each member still owes is what theirs add up to.
LEMMA FinesShown ==
  ASSUME NEW db, SnapshotSound(db), NEW t, Complete(ListAssignments(db, t))
  PROVE  ListOpenPenaltiesByUser(db, t) = Owed(ListAssignments(db, t))
<1> DEFINE rows == db.assignments
           I == InTeam(rows, t)
           fines == ListAssignments(db, t)
           unpaid == {a \in DOMAIN fines : ~AssignmentPaid(fines[a].paid, fines[a].amount)}
           left == [a \in unpaid |-> Remaining(fines[a].amount, fines[a].paid)]
           open == OpenFines(db, t)
           due == [a \in open |->
                     Remaining(rows[a].amount, PaidToFine(db.transactions, a))]
<1>1. IsFiniteSet(I)
  BY RowsOf DEF SnapshotSound, FinesPriced
<1>2. DOMAIN fines = Capped(I)
  BY DEF ListAssignments
<1>3. DOMAIN fines = I
  BY <1>1, <1>2, CappedRows DEF Complete
<1>4. ASSUME NEW a \in I
      PROVE  /\ fines[a].amount = rows[a].amount /\ fines[a].user = rows[a].user
             /\ fines[a].paid = PaidToFine(db.transactions, a)
  BY <1>2, <1>3 DEF ListAssignments
<1>5. ASSUME NEW a \in I
      PROVE  ~AssignmentPaid(fines[a].paid, fines[a].amount)
               <=> \/ rows[a].amount = None
                   \/ PaidToFine(db.transactions, a) < rows[a].amount
  <2>1. rows[a].amount \in Nat /\ PaidToFine(db.transactions, a) \in Nat
    BY <1>5, PaidIsNat DEF SnapshotSound, FinesPriced, InTeam
  <2> DEFINE p == PaidToFine(db.transactions, a)
             m == rows[a].amount
  <2>2. AssignmentPaid(fines[a].paid, fines[a].amount) <=> m # None /\ p >= m
    BY <1>4 DEF AssignmentPaid
  <2>3. ~(p >= m) <=> p < m
    <3> HIDE DEF p, m
    <3> QED
      BY <2>1 DEF p, m
  <2> QED
    BY <2>2, <2>3
<1>6. open \subseteq I /\ unpaid \subseteq I /\ unpaid = open
  <2>1. open = {a \in I : rows[a].amount = None
                            \/ PaidToFine(db.transactions, a) < rows[a].amount}
    BY DEF OpenFines
  <2> HIDE DEF fines, rows, I, open
  <2> QED
    BY <1>3, <1>5, <2>1
<1>7. ASSUME NEW a \in open
      PROVE  due[a] = left[a] /\ fines[a].user = rows[a].user
  <2> HIDE DEF fines, rows, I, open, unpaid
  <2> QED
    BY <1>4, <1>6, <1>7
<1>8. ASSUME NEW u
      PROVE  Total(due, {a \in open : rows[a].user = u})
               = Total(left, {a \in unpaid : fines[a].user = u})
  <2> DEFINE S == {a \in open : rows[a].user = u}
  <2>1. S = {a \in unpaid : fines[a].user = u}
    <3> HIDE DEF open, unpaid, fines, rows
    <3> QED
      BY <1>6, <1>7
  <2>2. IsFiniteSet(S)
    BY <1>1, <1>6, FS_Subset
  <2>3. \A a \in S : due[a] = left[a]
    BY <1>7
  <2> HIDE DEF due, left, S
  <2>4. Total(due, S) = Total(left, S)
    BY <2>2, <2>3, TotalSame
  <2> QED
    BY <2>1, <2>4 DEF S
<1>9. {rows[a].user : a \in open} = {fines[a].user : a \in unpaid}
  <2> HIDE DEF open, unpaid, fines, rows
  <2> QED
    BY <1>6, <1>7
<1>10. ListOpenPenaltiesByUser(db, t)
         = [u \in {rows[a].user : a \in open} |->
             Total(due, {a \in open : rows[a].user = u})]
  BY DEF ListOpenPenaltiesByUser
<1> HIDE DEF open, unpaid, fines, rows, due, left
<1>11. ListOpenPenaltiesByUser(db, t)
         = [u \in {fines[a].user : a \in unpaid} |->
             Total(left, {a \in unpaid : fines[a].user = u})]
  BY <1>8, <1>9, <1>10
<1> QED
  BY <1>11 DEF unpaid, fines, left, Owed

LEMMA QueriesAre ==
  ASSUME NEW db, NEW t
  PROVE  /\ Queries(db, t)[1] = LoadTransactions(db, t)
         /\ Queries(db, t)[2].income = SumTransactions(db.transactions, t, "income")
         /\ Queries(db, t)[2].expense = SumTransactions(db.transactions, t, "expense")
         /\ Queries(db, t)[4] = ListAssignments(db, t)
         /\ Queries(db, t)[5] = ListContributions(db, t)
         /\ Queries(db, t)[6] = CountOpenContributions(db, t)
         /\ Queries(db, t)[7] = ListOpenPenaltiesByUser(db, t)
BY DEF Queries

\* The overview being read: what it has got is what its snapshot holds.
OverviewSound ==
  overview # Idle =>
    /\ DOMAIN overview = {"team", "snapshot", "got"}
    /\ SnapshotSound(overview.snapshot)
    /\ \E S : overview.got \in Seq(S)
    /\ Len(overview.got) =< 7
    /\ \A k \in 1 .. Len(overview.got) :
         overview.got[k] = Queries(overview.snapshot, overview.team)[k]

LEMMA OverviewAddsUp ==
  ASSUME OverviewSound
  PROVE  OverviewAdds
<1> SUFFICES ASSUME Answered PROVE OverviewAdds
  BY DEF OverviewAdds
<1> DEFINE db == overview.snapshot
           t == overview.team
           got == overview.got
           fines == ListAssignments(db, t)
           fees == ListContributions(db, t)
<1>1. SnapshotSound(db) /\ \A k \in 1 .. 7 : got[k] = Queries(db, t)[k]
  BY DEF Answered, OverviewSound
<1>2. /\ got[1] = LoadTransactions(db, t)
      /\ got[2].income = SumTransactions(db.transactions, t, "income")
      /\ got[2].expense = SumTransactions(db.transactions, t, "expense")
      /\ got[4] = fines /\ got[5] = fees
      /\ got[6] = CountOpenContributions(db, t) /\ got[7] = ListOpenPenaltiesByUser(db, t)
  <2> HIDE DEF got, db, t
  <2> QED
    BY <1>1, QueriesAre
<1>3. /\ DOMAIN fees \subseteq InTeam(db.contributions, t)
      /\ \A c \in DOMAIN fees : fees[c].paid = PaidToFee(db.transactions, c)
  <2>1. IsFiniteSet(InTeam(db.contributions, t))
    BY <1>1, RowsOf DEF SnapshotSound, FeesPriced
  <2> QED
    BY <2>1, CappedRows DEF ListContributions
<1>4. /\ DOMAIN fines \subseteq InTeam(db.assignments, t)
      /\ \A a \in DOMAIN fines : fines[a].paid = PaidToFine(db.transactions, a)
  <2>1. IsFiniteSet(InTeam(db.assignments, t))
    BY <1>1, RowsOf DEF SnapshotSound, FinesPriced
  <2> QED
    BY <2>1, CappedRows DEF ListAssignments
<1>5. ASSUME Complete(got[1])
      PROVE  /\ got[2].income - got[2].expense = Cash(got[1], t)
             /\ \A c \in DOMAIN fees : fees[c].paid = PaidToFee(got[1], c)
             /\ \A a \in DOMAIN fines : fines[a].paid = PaidToFine(got[1], a)
  <2>1. Complete(LoadTransactions(db, t))
    BY <1>2, <1>5
  <2>2. /\ \A type : SumTransactions(got[1], t, type)
                        = SumTransactions(db.transactions, t, type)
        /\ \A c \in InTeam(db.contributions, t) :
              PaidToFee(got[1], c) = PaidToFee(db.transactions, c)
        /\ \A a \in InTeam(db.assignments, t) :
              PaidToFine(got[1], a) = PaidToFine(db.transactions, a)
    <3> HIDE DEF db, t
    <3> QED
      BY <1>1, <1>2, <2>1, BookingsShown
  <2> HIDE DEF db, t, got, fees, fines
  <2> QED
    BY <1>2, <1>3, <1>4, <2>2 DEF Cash
<1>6. ASSUME Complete(fees)
      PROVE  got[6] = Cardinality({c \in DOMAIN fees :
               ~fees[c].archived /\ ContributionStatus(fees[c].paid, fees[c].amount) # "paid"})
  <2> HIDE DEF db, t, got
  <2> QED
    BY <1>1, <1>2, <1>6, FeesShown
<1>7. ASSUME Complete(fines)
      PROVE  got[7] = Owed(got[4])
  <2> HIDE DEF db, t, got
  <2> QED
    BY <1>1, <1>2, <1>7, FinesShown
<1> HIDE DEF db, t, fees, fines
<1> QED
  BY <1>2, <1>5, <1>6, <1>7 DEF OverviewAdds, t, Owed

\* What a request on its way will charge, and for how many.
Charging(r) ==
  /\ {"op", "amount"} \subseteq DOMAIN r \/ r.op \notin
       {"createPenalty", "createAssignment", "createContributions"}
  /\ r.op \in {"createPenalty", "createAssignment"} => r.amount \in Nat
  /\ r.op = "createContributions" =>
       r.amount \in Nat \ {0} /\ "done" \in DOMAIN r /\ IsFiniteSet(r.done)

ClaimsPriced ==
  /\ \A p \in DOMAIN penalties : penalties[p].amount \in Nat
  /\ FeesPriced(contributions) /\ FinesPriced(assignments)

OverviewInv ==
  /\ MoneyInv /\ ClaimsPriced /\ OverviewSound
  /\ \A s \in Slots : ~Free(s) => Charging(req[s])

LEMMA ChargedRequest ==
  ASSUME OverviewInv, MoneyInv', ClaimsPriced', OverviewSound', NEW s \in Slots, NEW q,
         req' = [req EXCEPT ![s] = q], q # Idle => Charging(q)
  PROVE  OverviewInv'
<1>1. req'[s] = q /\ \A o \in Slots : o # s => req'[o] = req[o]
  BY DEF OverviewInv, MoneyInv, FinancesInv, FinancesTypeOK
<1>2. \A o \in Slots : req'[o] # Idle => Charging(req'[o])
  BY <1>1 DEF OverviewInv, Free
<1> QED
  BY <1>2 DEF OverviewInv, Free

LEMMA ChargedFinish ==
  ASSUME OverviewInv, MoneyInv', ClaimsPriced', OverviewSound', NEW s \in Slots, Finish(s)
  PROVE  OverviewInv'
BY ChargedRequest DEF Finish

LEMMA ChargedRest ==
  ASSUME OverviewInv, MoneyInv', ClaimsPriced', OverviewSound', UNCHANGED req
  PROVE  OverviewInv'
BY DEF OverviewInv, Free

LEMMA ChargedStart ==
  ASSUME OverviewInv, MoneyInv', ClaimsPriced', OverviewSound', NEW s \in Slots, NEW r,
         Start(s, r),
         \/ r \in CreateTransactionCalls \/ r \in UpdateTransactionCalls
         \/ r \in CreatePenaltyCalls \/ r \in CreateAssignmentCalls
         \/ r \in CreateContributionsCalls
  PROVE  OverviewInv'
<1>1. \A x \in Amounts : x \in Nat \ {0}
  BY FinancesAssumption
<1>2. CASE r \in CreateTransactionCalls \/ r \in UpdateTransactionCalls
  <2>1. r.op \in {"createTransaction", "updateTransaction"}
    BY <1>2 DEF CreateTransactionCalls, UpdateTransactionCalls
  <2>2. Charging(r)
    BY <2>1 DEF Charging
  <2> QED
    BY <2>2, ChargedRequest DEF Start
<1>3. CASE r \in CreatePenaltyCalls
  <2>1. {"op", "amount"} \subseteq DOMAIN r /\ r.op = "createPenalty" /\ r.amount \in Amounts
    BY <1>3 DEF CreatePenaltyCalls
  <2>2. Charging(r)
    BY <1>1, <2>1 DEF Charging
  <2> QED
    BY <2>2, ChargedRequest DEF Start
<1>4. CASE r \in CreateAssignmentCalls
  <2>1. {"op", "amount"} \subseteq DOMAIN r /\ r.op = "createAssignment" /\ r.amount = None
    BY <1>4 DEF CreateAssignmentCalls
  <2>2. Charging(r)
    BY <2>1 DEF Charging, None
  <2> QED
    BY <2>2, ChargedRequest DEF Start
<1>5. CASE r \in CreateContributionsCalls
  <2>1. /\ {"op", "amount", "done"} \subseteq DOMAIN r /\ r.op = "createContributions"
        /\ r.amount \in Amounts /\ r.done = {}
    BY <1>5 DEF CreateContributionsCalls
  <2>2. Charging(r)
    BY <1>1, <2>1, FS_EmptySet DEF Charging
  <2> QED
    BY <2>2, ChargedRequest DEF Start
<1> QED
  BY <1>2, <1>3, <1>4, <1>5

\* The fine takes its amount from the penalty; one more user has been inserted.
LEMMA ChargedOn ==
  ASSUME OverviewInv, MoneyInv', ClaimsPriced', OverviewSound', NEW s \in Slots,
         LoadPenalty(s) \/ InsertContribution(s)
  PROVE  OverviewInv'
<1> DEFINE r == req[s]
<1>1. Charging(r)
  BY DEF LoadPenalty, InsertContribution, At, OverviewInv
<1>2. CASE Finish(s)
  BY <1>2, ChargedFinish
<1>3. CASE LoadPenalty(s) /\ ~Finish(s)
  <2> DEFINE amount == penalties[r.penalty].amount
             q == [r EXCEPT !.pc = "insert", !.amount = amount]
  <2>1. /\ r.penalty \in DOMAIN penalties /\ r.op = "createAssignment"
        /\ req' = [req EXCEPT ![s].pc = "insert", ![s].amount = amount]
    BY <1>3 DEF LoadPenalty, At, InTeam
  <2>2. amount \in Nat
    BY <2>1 DEF OverviewInv, ClaimsPriced
  <2> HIDE DEF amount
  <2>3. /\ req' = [req EXCEPT ![s] = q] /\ DOMAIN q = DOMAIN r
        /\ q.op = r.op /\ q.amount = amount
    BY <1>1, <2>1 DEF Charging
  <2> HIDE DEF q
  <2>4. Charging(q)
    BY <1>1, <2>1, <2>2, <2>3 DEF Charging
  <2> QED
    BY <2>3, <2>4, ChargedRequest
<1>4. CASE InsertContribution(s) /\ ~Finish(s)
  <2>1. PICK u : req' = [req EXCEPT ![s].done = @ \cup {u}]
    BY <1>4 DEF InsertContribution
  <2> DEFINE q == [r EXCEPT !.done = @ \cup {u}]
  <2>2. r.op = "createContributions"
    BY <1>4 DEF InsertContribution, At
  <2>3. /\ req' = [req EXCEPT ![s] = q] /\ DOMAIN q = DOMAIN r
        /\ q.op = r.op /\ q.amount = r.amount /\ q.done = r.done \cup {u}
    BY <1>1, <2>1, <2>2 DEF Charging
  <2> HIDE DEF q
  <2>4. Charging(q)
    BY <1>1, <2>2, <2>3, FS_AddElement DEF Charging
  <2> QED
    BY <2>3, <2>4, ChargedRequest
<1> QED
  BY <1>2, <1>3, <1>4

-----------------------------------------------------------------------------
(* What the steps leave of the prices.                                       *)

LEMMA PricesRest ==
  ASSUME ClaimsPriced, UNCHANGED <<penalties, assignments, contributions>>
  PROVE  ClaimsPriced'
BY DEF ClaimsPriced

\* A row that comes with a price.
LEMMA CreatePenaltyPriced ==
  ASSUME OverviewInv, NEW s \in Slots, CreatePenalty(s)
  PROVE  ClaimsPriced'
<1> DEFINE id == NextId("penalties")
           row == [team |-> req[s].team, amount |-> req[s].amount]
<1>1. penalties' = Put(penalties, id, row) /\ UNCHANGED <<assignments, contributions>>
  BY DEF CreatePenalty
<1>2. row.amount \in Nat
  BY DEF CreatePenalty, At, OverviewInv, Charging
<1> HIDE DEF id, row
<1>3. /\ DOMAIN penalties' = DOMAIN penalties \cup {id} /\ penalties'[id] = row
      /\ \A p \in DOMAIN penalties : p # id => penalties'[p] = penalties[p]
  BY <1>1 DEF Put
<1> QED
  BY <1>1, <1>2, <1>3 DEF OverviewInv, ClaimsPriced

LEMMA UpdatePenaltyPriced ==
  ASSUME OverviewInv, NEW t, NEW id, NEW amount \in Amounts, UpdatePenalty(t, id, amount)
  PROVE  ClaimsPriced'
<1>1. /\ id \in DOMAIN penalties /\ UNCHANGED <<assignments, contributions>>
      /\ penalties' = [penalties EXCEPT ![id].amount = amount]
  BY DEF UpdatePenalty, InTeam
<1>2. /\ DOMAIN penalties' = DOMAIN penalties
      /\ penalties'[id] = [penalties[id] EXCEPT !.amount = amount]
      /\ \A p \in DOMAIN penalties : p # id => penalties'[p] = penalties[p]
  BY <1>1
<1> QED
  BY <1>1, <1>2, FinancesAssumption DEF OverviewInv, ClaimsPriced

LEMMA DeletePenaltyPriced ==
  ASSUME OverviewInv, NEW t, NEW id, DeletePenalty(t, id)
  PROVE  ClaimsPriced'
<1>1. /\ \A p \in DOMAIN penalties' : p \in DOMAIN penalties /\ penalties'[p] = penalties[p]
      /\ UNCHANGED contributions /\ DOMAIN assignments' = DOMAIN assignments
      /\ \A a \in DOMAIN assignments : assignments'[a] = WithoutPenalty(assignments[a], id)
  BY DEF DeletePenalty, Drop, Restrict
<1>2. \A a \in DOMAIN assignments : assignments'[a].amount = assignments[a].amount
  BY <1>1 DEF WithoutPenalty, OverviewInv, MoneyInv, FinancesInv, FinancesTypeOK, FineFields
<1> QED
  BY <1>1, <1>2 DEF OverviewInv, ClaimsPriced, FinesPriced

LEMMA CreateAssignmentPriced ==
  ASSUME OverviewInv, NEW s \in Slots, CreateAssignment(s)
  PROVE  ClaimsPriced'
<1> DEFINE r == req[s]
           id == NextId("assignments")
           row == [team |-> r.team, user |-> r.user, penalty |-> r.penalty,
                   amount |-> r.amount]
<1>1. UNCHANGED <<penalties, contributions>>
  BY DEF CreateAssignment
<1>2. CASE UNCHANGED assignments
  BY <1>1, <1>2, PricesRest DEF OverviewInv
<1>3. CASE assignments' = Put(assignments, id, row)
  <2>1. id \in Ids
    BY FreshId, FinancesAssumption DEF NextId, Fresh, CreateAssignment
  <2>2. id # None
    BY <2>1, FinancesAssumption DEF None
  <2>3. row.amount \in Nat
    BY DEF CreateAssignment, At, OverviewInv, Charging
  <2> HIDE DEF id, row
  <2>4. /\ DOMAIN assignments' = DOMAIN assignments \cup {id} /\ assignments'[id] = row
        /\ \A a \in DOMAIN assignments : a # id => assignments'[a] = assignments[a]
    BY <1>3 DEF Put
  <2> QED
    BY <1>1, <2>2, <2>3, <2>4, FS_AddElement DEF OverviewInv, ClaimsPriced, FinesPriced
<1> QED
  BY <1>2, <1>3 DEF CreateAssignment

LEMMA DeleteAssignmentPriced ==
  ASSUME OverviewInv, NEW t, NEW id, DeleteAssignment(t, id)
  PROVE  ClaimsPriced'
<1>1. /\ UNCHANGED <<penalties, contributions>>
      /\ DOMAIN assignments' \subseteq DOMAIN assignments
      /\ \A a \in DOMAIN assignments' : assignments'[a] = assignments[a]
  BY DEF DeleteAssignment, Drop, Restrict
<1> QED
  BY <1>1, FS_Subset DEF OverviewInv, ClaimsPriced, FinesPriced

LEMMA CreateContributionsPriced ==
  ASSUME OverviewInv, NEW s \in Slots, CreateContributions(s)
  PROVE  ClaimsPriced'
<1> DEFINE r == req[s]
<1>1. UNCHANGED <<penalties, assignments>> /\ r.done = r.users
  BY DEF CreateContributions
<1>2. PICK ids, to :
        /\ ids \subseteq Ids /\ to \in Bijection(ids, r.users)
        /\ contributions' = [i \in DOMAIN contributions \cup ids |->
              IF i \in ids THEN [team |-> r.team, user |-> to[i],
                                 amount |-> r.amount, archived |-> FALSE]
              ELSE contributions[i]]
  BY DEF CreateContributions, kSubset, Fresh
<1>3. r.amount \in Nat \ {0} /\ IsFiniteSet(r.users)
  BY <1>1 DEF CreateContributions, At, OverviewInv, Charging
<1>4. IsFiniteSet(ids)
  <2>1. to \in Injection(ids, r.users)
    BY <1>2 DEF Bijection
  <2> QED
    BY <1>3, <2>1, FS_Injection
<1>5. None \notin ids
  BY <1>2, FinancesAssumption DEF None
<1>6. IsFiniteSet(DOMAIN contributions \cup ids)
  BY <1>4, FS_Union DEF OverviewInv, ClaimsPriced, FeesPriced
<1>7. /\ DOMAIN contributions' = DOMAIN contributions \cup ids
      /\ \A c \in ids : contributions'[c].amount = r.amount
      /\ \A c \in DOMAIN contributions : c \notin ids =>
           contributions'[c] = contributions[c]
  BY <1>2
<1> QED
  BY <1>1, <1>3, <1>5, <1>6, <1>7 DEF OverviewInv, ClaimsPriced, FeesPriced

LEMMA UpdateContributionPriced ==
  ASSUME OverviewInv, NEW t, NEW id, NEW amount \in Amounts, NEW archived,
         UpdateContribution(t, id, amount, archived)
  PROVE  ClaimsPriced'
<1>1. /\ id \in DOMAIN contributions /\ UNCHANGED <<penalties, assignments>>
      /\ contributions' =
           [contributions EXCEPT ![id].amount = amount, ![id].archived = archived]
  BY DEF UpdateContribution, InTeam
<1>2. /\ DOMAIN contributions' = DOMAIN contributions
      /\ contributions'[id] = [contributions[id] EXCEPT !.amount = amount,
                                                        !.archived = archived]
      /\ \A c \in DOMAIN contributions : c # id => contributions'[c] = contributions[c]
  BY <1>1
<1>3. contributions'[id].amount \in Nat \ {0}
  BY <1>1, <1>2, FinancesAssumption
    DEF OverviewInv, MoneyInv, FinancesInv, FinancesTypeOK, FeeFields
<1> QED
  BY <1>1, <1>2, <1>3 DEF OverviewInv, ClaimsPriced, FeesPriced

LEMMA DeleteContributionPriced ==
  ASSUME OverviewInv, NEW t, NEW id, DeleteContribution(t, id)
  PROVE  ClaimsPriced'
<1>1. /\ UNCHANGED <<penalties, assignments>>
      /\ DOMAIN contributions' \subseteq DOMAIN contributions
      /\ \A c \in DOMAIN contributions' : contributions'[c] = contributions[c]
  BY DEF DeleteContribution, Drop, Restrict
<1> QED
  BY <1>1, FS_Subset DEF OverviewInv, ClaimsPriced, FeesPriced

-----------------------------------------------------------------------------
(* The overview takes a sound snapshot and keeps to it.                      *)

LEMMA BeginOverviewSound ==
  ASSUME OverviewInv, NEW t, BeginOverview(t)
  PROVE  OverviewSound'
<1> DEFINE new == [team |-> t, snapshot |-> Tables, got |-> <<>>]
<1>1. overview' = new
  BY DEF BeginOverview
<1>2. /\ DOMAIN new = {"team", "snapshot", "got"} /\ new.snapshot = Tables
      /\ new.got = <<>>
  OBVIOUS
<1>3. /\ Tables.transactions = transactions /\ Tables.contributions = contributions
      /\ Tables.assignments = assignments
  BY DEF Tables
<1>4. SnapshotSound(Tables)
  BY <1>3 DEF SnapshotSound, OverviewInv, MoneyInv, FinancesInv, ClaimsPriced
<1>5. new.got \in Seq({}) /\ Len(new.got) = 0
  OBVIOUS
<1> HIDE DEF new
<1> QED
  BY <1>1, <1>2, <1>4, <1>5 DEF OverviewSound

LEMMA GetOverviewSound ==
  ASSUME OverviewInv, GetOverview
  PROVE  OverviewSound'
<1> DEFINE got == overview.got
           n == Len(got)
           next == Queries(overview.snapshot, overview.team)[n + 1]
           more == Append(got, next)
<1>1. /\ overview # Idle /\ DOMAIN overview = {"team", "snapshot", "got"}
      /\ SnapshotSound(overview.snapshot) /\ n =< 7
      /\ \A k \in 1 .. n : got[k] = Queries(overview.snapshot, overview.team)[k]
  BY DEF GetOverview, OverviewInv, OverviewSound
<1>2. PICK S : got \in Seq(S)
  BY <1>1 DEF OverviewInv, OverviewSound
<1>3. n \in Nat /\ n < 7
  <2>1. n \in Nat
    BY <1>2
  <2>2. n # 7
    BY DEF GetOverview, Answered
  <2> HIDE DEF n
  <2> QED
    BY <1>1, <2>1, <2>2
<1>4. overview' = [overview EXCEPT !.got = more]
  BY DEF GetOverview, WithReadTx
<1> HIDE DEF next
<1>5. /\ more \in Seq(S \cup {next}) /\ Len(more) = n + 1
      /\ \A k \in 1 .. n : more[k] = got[k]
      /\ more[n + 1] = next
  BY <1>2
<1> HIDE DEF more
<1>6. /\ overview'.got = more /\ overview'.snapshot = overview.snapshot
      /\ overview'.team = overview.team
      /\ DOMAIN overview' = {"team", "snapshot", "got"}
  BY <1>1, <1>4
<1>7. \A k \in 1 .. (n + 1) : more[k] = Queries(overview.snapshot, overview.team)[k]
  <2> TAKE k \in 1 .. (n + 1)
  <2>1. CASE k \in 1 .. n
    BY <1>1, <1>5, <2>1
  <2>2. CASE k = n + 1
    BY <1>5, <2>2 DEF next
  <2> QED
    BY <1>3, <2>1, <2>2
<1>8. Len(more) = n + 1 /\ n + 1 =< 7
  BY <1>3, <1>5
<1> HIDE DEF n, got
<1> QED
  BY <1>1, <1>5, <1>6, <1>7, <1>8 DEF OverviewSound

LEMMA OverviewRests ==
  ASSUME OverviewInv, UNCHANGED overview
  PROVE  OverviewSound'
BY DEF OverviewInv, OverviewSound

LEMMA OverviewInvNext ==
  ASSUME OverviewInv, [Next]_vars
  PROVE  OverviewInv'
<1>1. MoneyInv'
  BY MoneyInvNext DEF OverviewInv
<1>2. CASE UNCHANGED vars
  <2>1. ClaimsPriced' /\ OverviewSound'
    BY <1>2, PricesRest, OverviewRests DEF OverviewInv, vars
  <2> QED
    BY <1>1, <1>2, <2>1, ChargedRest DEF vars
<1>3. ASSUME NEW s \in Slots, NEW r \in CreateTransactionCalls, AdmitTransaction(s, r)
      PROVE  OverviewInv'
  <2>1. ClaimsPriced' /\ OverviewSound'
    BY <1>3, PricesRest, OverviewRests DEF OverviewInv, AdmitTransaction, tables
  <2> QED
    BY <1>1, <1>3, <2>1, ChargedStart DEF AdmitTransaction
<1>4. ASSUME NEW s \in Slots, NEW r \in UpdateTransactionCalls, AdmitTransactionUpdate(s, r)
      PROVE  OverviewInv'
  <2>1. ClaimsPriced' /\ OverviewSound'
    BY <1>4, PricesRest, OverviewRests DEF OverviewInv, AdmitTransactionUpdate, tables
  <2> QED
    BY <1>1, <1>4, <2>1, ChargedStart DEF AdmitTransactionUpdate
<1>5. ASSUME NEW s \in Slots, NEW r,
             \/ r \in CreatePenaltyCalls /\ AdmitPenalty(s, r)
             \/ r \in CreateAssignmentCalls /\ AdmitAssignment(s, r)
             \/ r \in CreateContributionsCalls /\ AdmitContributions(s, r)
      PROVE  OverviewInv'
  <2>1. Start(s, r) /\ UNCHANGED tables /\ UNCHANGED overview
    BY <1>5 DEF AdmitPenalty, AdmitAssignment, AdmitContributions
  <2>2. ClaimsPriced' /\ OverviewSound'
    BY <2>1, PricesRest, OverviewRests DEF OverviewInv, tables
  <2> QED
    BY <1>1, <1>5, <2>1, <2>2, ChargedStart
<1>6. ASSUME NEW s \in Slots, LoadPenalty(s) \/ InsertContribution(s)
      PROVE  OverviewInv'
  <2>1. UNCHANGED tables /\ UNCHANGED overview
    BY <1>6 DEF LoadPenalty, InsertContribution
  <2>2. ClaimsPriced' /\ OverviewSound'
    BY <2>1, PricesRest, OverviewRests DEF OverviewInv, tables
  <2> QED
    BY <1>1, <1>6, <2>2, ChargedOn
<1>7. ASSUME NEW s \in Slots,
             \/ CreateTransaction(s) \/ UpdateTransaction(s) \/ CreatePenalty(s)
             \/ CreateAssignment(s) \/ CreateContributions(s) \/ Abort(s)
      PROVE  OverviewInv'
  <2>1. Finish(s) /\ UNCHANGED overview
    BY <1>7 DEF CreateTransaction, UpdateTransaction, CreatePenalty, CreateAssignment,
      CreateContributions, Abort
  <2>2. OverviewSound'
    BY <2>1, OverviewRests
  <2>3. ClaimsPriced'
    <3>1. CASE UNCHANGED <<penalties, assignments, contributions>>
      BY <3>1, PricesRest DEF OverviewInv
    <3>2. CASE CreateTransaction(s) \/ UpdateTransaction(s) \/ Abort(s)
      BY <3>1, <3>2 DEF CreateTransaction, UpdateTransaction, Abort, tables
    <3> QED
      BY <1>7, <3>2, CreatePenaltyPriced, CreateAssignmentPriced, CreateContributionsPriced
  <2> QED
    BY <1>1, <2>1, <2>2, <2>3, ChargedFinish
<1>8. ASSUME NEW t, NEW id, NEW amount \in Amounts, NEW archived,
             UpdatePenalty(t, id, amount) \/ UpdateContribution(t, id, amount, archived)
      PROVE  OverviewInv'
  <2>1. UNCHANGED req /\ UNCHANGED overview
    BY <1>8 DEF UpdatePenalty, UpdateContribution
  <2>2. ClaimsPriced' /\ OverviewSound'
    BY <1>8, <2>1, UpdatePenaltyPriced, UpdateContributionPriced, OverviewRests
  <2> QED
    BY <1>1, <2>1, <2>2, ChargedRest
<1>9. ASSUME NEW t, NEW id,
             \/ DeletePenalty(t, id) \/ DeleteTransaction(t, id)
             \/ DeleteAssignment(t, id) \/ DeleteContribution(t, id)
      PROVE  OverviewInv'
  <2>1. UNCHANGED req /\ UNCHANGED overview
    BY <1>9 DEF DeletePenalty, DeleteTransaction, DeleteAssignment, DeleteContribution
  <2>2. OverviewSound'
    BY <2>1, OverviewRests
  <2>3. CASE DeleteTransaction(t, id)
    <3>1. UNCHANGED <<penalties, assignments, contributions>>
      BY <2>3 DEF DeleteTransaction
    <3> QED
      BY <1>1, <2>1, <2>2, <3>1, PricesRest, ChargedRest DEF OverviewInv
  <2>4. CASE ~DeleteTransaction(t, id)
    <3>1. ClaimsPriced'
      BY <1>9, <2>4, DeletePenaltyPriced, DeleteAssignmentPriced, DeleteContributionPriced
    <3> QED
      BY <1>1, <2>1, <2>2, <3>1, ChargedRest
  <2> QED
    BY <2>3, <2>4
<1>10. CASE MemberNext
  <2>1. UNCHANGED <<tables, req, overview>>
    BY <1>10 DEF MemberNext, Join, Leave
  <2>2. ClaimsPriced' /\ OverviewSound'
    BY <2>1, PricesRest, OverviewRests DEF OverviewInv, tables
  <2> QED
    BY <1>1, <2>1, <2>2, ChargedRest
<1>11. CASE OverviewNext
  <2>1. UNCHANGED tables /\ UNCHANGED req
    BY <1>11 DEF OverviewNext, BeginOverview, GetOverview, AnswerOverview
  <2>2. ClaimsPriced'
    BY <2>1, PricesRest DEF OverviewInv, tables
  <2>3. OverviewSound'
    <3>1. CASE AnswerOverview
      BY <3>1 DEF AnswerOverview, OverviewSound
    <3> QED
      BY <1>11, <3>1, BeginOverviewSound, GetOverviewSound DEF OverviewNext
  <2> QED
    BY <1>1, <2>1, <2>2, <2>3, ChargedRest
<1> QED
  <2>1. CASE BookNext(CreateTransactionCalls)
    BY <1>3, <1>7, <2>1 DEF BookNext
  <2>2. CASE CorrectNext(UpdateTransactionCalls)
    BY <1>4, <1>7, <2>2 DEF CorrectNext
  <2>3. CASE PenaltyNext(CreatePenaltyCalls)
    BY <1>5, <1>7, <1>8, <1>9, <2>3 DEF PenaltyNext
  <2>4. CASE FineNext(CreateAssignmentCalls)
    BY <1>5, <1>6, <1>7, <2>4 DEF FineNext
  <2>5. CASE FeeNext(CreateContributionsCalls)
    BY <1>5, <1>6, <1>7, <1>8, <2>5 DEF FeeNext
  <2>6. CASE DeleteNext
    BY <1>9, <2>6 DEF DeleteNext
  <2>7. CASE \E s \in Slots : Abort(s)
    BY <1>7, <2>7
  <2> QED
    BY <1>2, <1>10, <1>11, <2>1, <2>2, <2>3, <2>4, <2>5, <2>6, <2>7 DEF Next

LEMMA OverviewInvInit == Init => OverviewInv
<1> SUFFICES ASSUME Init PROVE OverviewInv
  OBVIOUS
<1>1. /\ DOMAIN penalties = {} /\ DOMAIN contributions = {} /\ DOMAIN assignments = {}
      /\ overview = Idle /\ \A s \in Slots : Free(s)
  BY DEF Init, Free
<1>2. ClaimsPriced
  BY <1>1, FS_EmptySet DEF ClaimsPriced, FeesPriced, FinesPriced
<1> QED
  BY <1>1, <1>2, MoneyInvInit DEF OverviewInv, OverviewSound

\* For any number of teams, members, rows and requests in flight: whatever is booked while
\* the queries of an overview run, what it says adds up.
\* (finances.Repository: WithReadTx.)
THEOREM OverviewsAddUp == Spec => []OverviewAdds
<1>1. OverviewInv /\ [Next]_vars => OverviewInv'
  BY OverviewInvNext
<1>2. OverviewInv => OverviewAdds
  BY OverviewAddsUp DEF OverviewInv
<1> QED
  BY <1>1, <1>2, OverviewInvInit, PTL DEF Spec

=============================================================================
