-------------------------------- MODULE Reads --------------------------------
(* What several queries in one read-only transaction put together: finances and *)
(* polls.                                                                       *)
EXTENDS Finances, Polls

\* What takes several queries in one read transaction is whole: the overview of the
\* finances adds up, and so does every poll of a list, whatever is booked, deleted
\* or voted while the queries run (finances and polls: WithReadTx).
ReadsWhole == OverviewAdds /\ ListsWhole

=============================================================================
