------------------------------- MODULE Ledger -------------------------------
(***************************************************************************)
(* What the finance component promises, without its tables: each team has  *)
(* cash and claims against its members, and a claim knows what is due and  *)
(* what was paid.                                                          *)
(***************************************************************************)
EXTENDS Integers

CONSTANT Teams

VARIABLES
  cash,    \* per team
  claims   \* claim |-> [team, due, paid]

ledgerVars == <<cash, claims>>

LedgerInit ==
  /\ cash = [t \in Teams |-> 0]
  /\ \A x \in DOMAIN claims : claims[x].paid = 0

\* Claims are raised, with nothing paid yet; no money moves.
Raise ==
  /\ DOMAIN claims \subseteq DOMAIN claims'
  /\ \A x \in DOMAIN claims : claims'[x] = claims[x]
  /\ \A x \in DOMAIN claims' \ DOMAIN claims : claims'[x].paid = 0
  /\ UNCHANGED cash

\* A claim is given up: what was paid towards it stays in the cash box.
Waive(x) ==
  /\ claims' = [y \in DOMAIN claims \ {x} |-> claims[y]]
  /\ UNCHANGED cash

\* A fee is set anew; a fine never is.
Reprice(x) ==
  /\ x[1] = "fee"
  /\ claims' = [claims EXCEPT ![x].due = claims'[x].due]
  /\ UNCHANGED cash

\* Money is booked, corrected or struck out: for no claim, or for one of the team,
\* which is then paid by as much more or less.
Shift(t) == cash'[t] - cash[t]

BookFreely(t) ==
  /\ cash' = [cash EXCEPT ![t] = @ + Shift(t)]
  /\ UNCHANGED claims

BookFor(t, x) ==
  /\ claims[x].team = t
  /\ cash' = [cash EXCEPT ![t] = @ + Shift(t)]
  /\ claims' = [claims EXCEPT ![x].paid = @ + Shift(t)]
  /\ claims'[x].paid >= 0

LedgerNext ==
  \/ Raise
  \/ \E x \in DOMAIN claims : x \notin DOMAIN claims' /\ Waive(x)
  \/ \E x \in DOMAIN claims \cap DOMAIN claims' : Reprice(x)
  \/ \E t \in Teams : BookFreely(t) \/ \E x \in DOMAIN claims : BookFor(t, x)

LedgerSpec == LedgerInit /\ [][LedgerNext]_ledgerVars

=============================================================================
