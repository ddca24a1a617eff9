------------------------------- MODULE MCTriageSpine ----------------------------
(* One alert, message ids for its send and two replays, two overlapping runs *)
(* of replay-dlq.                                                            *)
EXTENDS TriageSpine, TLC

CONSTANTS r1, f

MCRequests == {r1}
MCPayload == [r \in MCRequests |-> <<f>>]
MCAlerts == {<<r1, 1>>}
Symmetry == Permutations(Messages) \cup Permutations(Operators)
===============================================================================
