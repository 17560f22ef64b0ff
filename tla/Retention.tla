------------------------------ MODULE Retention ------------------------------
(* The daily retention job: one phase per table, each deleting in batches       *)
(* within a timeout of its own, all within the timeout of the job.              *)
EXTENDS Integers, Sequences, FiniteSets, Sums

CONSTANTS
  Tables,         \* the tables, in the order of the phases
  PhaseTimeout,   \* batches a phase has the time for
  MaxBacklog      \* bound: batches of old rows per table

ASSUME RetentionAssumption ==
  Len(Tables) \in Nat /\ PhaseTimeout \in Nat \ {0} /\ MaxBacklog \in Nat

VARIABLES
  old,      \* phase -> full batches of rows older than the cutoff of this run
  phase,    \* 0: no run; i: phase i runs; Len(Tables) + 1: the run is over
  spent,    \* phase -> time its deletes took in this run
  failed    \* phases of this run a database error ended
retentionVars == <<old, phase, spent, failed>>

Phases == 1 .. Len(Tables)
Over == Len(Tables) + 1
Elapsed == Total(spent, Phases)

RetentionInit ==
  /\ old \in [Phases -> 0 .. MaxBacklog] /\ phase = 0
  /\ spent = [i \in Phases |-> 0] /\ failed = {}

\* Mutant: River's default, two phases' worth of time, bounds the job.
Timeout_Default == 2 * PhaseTimeout
\* The timeout of the whole job, margin included.
Timeout == (Len(Tables) + 1) * PhaseTimeout

StartRun ==
  /\ phase = 0 /\ phase' = 1
  /\ UNCHANGED <<old, spent, failed>>

\* Either deadline ends the phase.
Expired(i) == spent[i] = PhaseTimeout \/ Elapsed >= Timeout

DeleteBatch(i) ==
  /\ phase = i /\ old[i] > 0 /\ ~ Expired(i)
  /\ old' = [old EXCEPT ![i] = @ - 1]
  /\ spent' = [spent EXCEPT ![i] = @ + 1]
  /\ UNCHANGED <<phase, failed>>

\* A phase that has failed does not keep the next one from running.
NextPhase(i) ==
  /\ phase = i /\ phase' = i + 1
  /\ UNCHANGED <<old, spent>>
Exhausted(i) == old[i] = 0 /\ NextPhase(i) /\ UNCHANGED failed
TimesOut(i) == old[i] > 0 /\ Expired(i) /\ NextPhase(i) /\ UNCHANGED failed
Fails(i) == NextPhase(i) /\ failed' = failed \union {i}

\* The process stops or dies; River runs the job again.
Done == phase' = 0 /\ spent' = [i \in Phases |-> 0] /\ failed' = {}
CutShort == phase \in Phases /\ Done /\ UNCHANGED old
\* Until the next run rows grow old in any table.
EndRun ==
  /\ phase = Over /\ Done
  /\ old' \in {[old EXCEPT ![i] = MaxBacklog] : i \in Phases}

RetentionNext ==
  \/ StartRun \/ CutShort \/ EndRun
  \/ \E i \in Phases : DeleteBatch(i) \/ Exhausted(i) \/ TimesOut(i) \/ Fails(i)

RetentionSpec == RetentionInit /\ [][RetentionNext]_retentionVars

-----------------------------------------------------------------------------
(* Property.                                                                  *)

\* When a run is over, every table was cleaned, or its own phase had its whole
\* timeout, or its own delete failed: no backlog of one table, and no error in
\* its phase, keeps another table (audit_log) from being cleaned.
EveryPhaseRuns ==
  phase = Over =>
    \A i \in Phases : old[i] = 0 \/ spent[i] = PhaseTimeout \/ i \in failed
=============================================================================
