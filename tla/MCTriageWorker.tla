---------------------------- MODULE MCTriageWorker ----------------------------
(* Symmetry of the model values of a TriageWorker instance.                  *)
EXTENDS TriageWorker, TLC

Symmetry == Permutations(Alerts) \cup Permutations(Messages)
               \cup Permutations(Workers) \cup Permutations(ModelVerdicts)
===============================================================================
