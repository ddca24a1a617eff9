----------------------------- MODULE MCSpineReads -----------------------------
EXTENDS SpineReads

MCListLimits == {[moments |-> 2, lists |-> 1, reports |-> 0, coming |-> 0 .. 2]}
===============================================================================
