------------------------------- MODULE MCIngest -------------------------------
(* Two requests of two alerts: the second repeats the first one's first      *)
(* alert twice, as a sender's retry or a webhook with two firing alerts of   *)
(* one rule does.  Four messages: one for each send and one sent again.      *)
EXTENDS Ingest, TLC

CONSTANTS r1, r2, f, g

MCRequests == {r1, r2}
MCPayload == [r \in MCRequests |-> IF r = r1 THEN <<f, g>> ELSE <<f, f>>]
Symmetry == Permutations(Messages)
MCAlerts == MCRequests \X {1, 2}
===============================================================================
