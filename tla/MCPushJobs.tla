------------------------------ MODULE MCPushJobs ------------------------------
(* Small instances of PushJobs for TLC.                                    *)
EXTENDS PushJobs, TLC

CONSTANTS u1, t1

MCTargets == [e \in Events |-> Teams]
MCNoteTeam == [n \in Notes |-> t1]
MCActor == [n \in Notes |-> CHOOSE u \in Users : u # u1]

\* Bound: the notification is not worked on while a reminder is.
Busy(j) == state'[j] \in {"available", "running"}
OneKindAtATime == ~((\E n \in Notes : Busy(n)) /\ (\E k \in Ticks : Busy(k)))

Same == Permutations(Workers) \cup Permutations(Ticks) \cup Permutations(Devices)

\* u1 has registered every device and joined both teams, u2 has none; the event starts
\* at the horizon and u1 wants to be reminded from now on in t1, from the next hour
\* on in t2.
Settled ==
  /\ now = 0
  /\ start = [e \in Events |-> Horizon] /\ cancelled = {}
  /\ members = Pairs /\ readers = {<<t1, u1>>} /\ wants = Pairs
  /\ lead = [p \in Pairs |-> IF p[1] = t1 THEN Horizon ELSE Horizon - 1]
  /\ owner = [d \in Devices |-> u1] /\ minted = Devices
  /\ state = [j \in Jobs |-> "none"] /\ attempt = [j \in Jobs |-> 0]
  /\ stored = {} /\ marked = {} /\ waiting = EmptyBag /\ enqueued = EmptyBag
  /\ run = [w \in Workers |-> Nothing] /\ faults = 0 /\ changes = 0

SettledSpec == Settled /\ [][Next]_vars

=============================================================================
