------------------------------- MODULE MCRouteA -------------------------------
(* One webhook of two alerts; a repeat by the producer takes a place of the log. *)
EXTENDS RouteA
CONSTANTS w1
MCSize == [w \in Webhooks |-> 2]
===============================================================================
