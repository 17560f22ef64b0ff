----------------------------- MODULE MCFinances -----------------------------
(* Small instances of Finances for TLC, as scenes of MCContent: each starts   *)
(* from a state the program reaches and lets some operations interleave.      *)
EXTENDS Finances, TLC

CONSTANTS t1, t2, u1, u2

VARIABLES scene, left   \* the scene, and how many more requests it admits

Unpaid == transactions = <<>> /\ req = [s \in Slots |-> Idle] /\ overview = Idle
Fine(u, amount) == [team |-> t1, user |-> u, penalty |-> 1, amount |-> amount]
Fee(t, u, amount) == [team |-> t, user |-> u, amount |-> amount, archived |-> FALSE]
Settled(p, a, c) ==
  /\ Unpaid /\ penalties = p /\ assignments = a /\ contributions = c
  /\ used = [transactions |-> {}, penalties |-> DOMAIN p, assignments |-> DOMAIN a,
             contributions |-> DOMAIN c]

OnePenalty == <<[team |-> t1, amount |-> 1]>>

\* A fine and a fee of two teams, paid, corrected and given up.
PaymentsInit ==
  /\ scene = "payments" /\ left = 3 /\ members = {<<t1, u1>>, <<t2, u2>>}
  /\ Settled(OnePenalty, <<Fine(u1, 1)>>, <<Fee(t1, u1, 2), Fee(t2, u2, 1)>>)
PaymentsScene ==
  /\ scene = "payments"
  /\ \/ BookNext({r \in CreateTransactionCalls : r.contribution # 3 /\ r.assignment \in {0, 1}
                    /\ (r.amount = 2 => r.team = t1)})
     \/ CorrectNext({r \in UpdateTransactionCalls : r.id = 1 /\ r.team = t1})
     \/ DeleteNext
  /\ UNCHANGED <<penalties, members, overview>>

\* Fines given while the catalogue changes and members leave.
FinesInit ==
  /\ scene = "fines" /\ left = 3 /\ members = {<<t1, u1>>, <<t1, u2>>}
  /\ Settled(OnePenalty, <<Fine(u2, None)>>, <<>>)
FinesScene ==
  /\ scene = "fines"
  /\ \/ PenaltyNext({r \in CreatePenaltyCalls : r.team = t1})
     \/ FineNext({r \in CreateAssignmentCalls : r.team = t1 /\ r.user = u1})
     \/ DeleteNext \/ MemberNext \/ \E s \in Slots : Abort(s)
  /\ members' \in {{<<t1, u2>>}, {<<t1, u1>>, <<t1, u2>>}}
  /\ UNCHANGED <<transactions, contributions, overview>>

\* Fees set for several members at once.
FeesInit ==
  /\ scene = "fees" /\ left = 2 /\ members = {<<t1, u1>>, <<t1, u2>>}
  /\ Settled(<<>>, <<>>, <<Fee(t1, u1, 1)>>)
FeesScene ==
  /\ scene = "fees"
  /\ \/ FeeNext({r \in CreateContributionsCalls : r.team = t1 /\ r.amount = 1})
     \/ BookNext({r \in CreateTransactionCalls : r.team = t1 /\ r.contribution = 1
                    /\ r.amount = 1 /\ r.assignment = None})
     \/ DeleteNext \/ MemberNext
  /\ members' \subseteq {t1} \X Users
  /\ UNCHANGED <<penalties, assignments, overview>>

\* The overview, read while payments are booked and fees archived.
OverviewInit ==
  /\ scene = "overview" /\ left = 2 /\ members = {<<t1, u1>>, <<t1, u2>>}
  /\ Settled(OnePenalty, <<Fine(u1, 2), Fine(u2, None)>>,
             <<Fee(t1, u1, 2), Fee(t1, u2, 1), Fee(t1, u2, 2)>>)
OverviewScene ==
  /\ scene = "overview"
  /\ \/ BookNext({r \in CreateTransactionCalls : r.team = t1
                    /\ {r.contribution, r.assignment} = {0, 1} /\ r.type = "income"})
     \/ UpdateContribution(t1, 1, 1, FALSE) \/ UpdateContribution(t1, 1, 2, TRUE)
     \/ DeleteContribution(t1, 1) \/ DeleteAssignment(t1, 1) \/ OverviewNext
  /\ overview' # Idle => overview'.team = t1
  /\ UNCHANGED <<members, penalties>>

Submitted == {s \in Slots : req[s] = Idle /\ req'[s] # Idle}

FinancesScenesInit == PaymentsInit \/ FinesInit \/ FeesInit \/ OverviewInit
FinancesScenes ==
  /\ PaymentsScene \/ FinesScene \/ FeesScene \/ OverviewScene
  /\ left' = left - Cardinality(Submitted)

=============================================================================
