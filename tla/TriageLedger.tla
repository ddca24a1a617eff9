----------------------------- MODULE TriageLedger -----------------------------
(***************************************************************************)
(* What triage promises, without queues, invocations or retries: an alert  *)
(* is stored once, judged at most once and shown as triaged only after it  *)
(* is judged; a live verdict is paid for with a slot of some day's budget  *)
(* and a declined one means some day's budget is spent.                    *)
(***************************************************************************)
EXTENDS Integers

CONSTANTS Alerts, ModelVerdicts, CapVerdict, None, DailyCap, LastDay

VARIABLES status, verdict, slots

Days == 0 .. LastDay

Init ==
    /\ status = [a \in Alerts |-> "absent"]
    /\ verdict = [a \in Alerts |-> None]
    /\ slots = [d \in Days |-> 0]

\* The alert enters the table.
Store(a) ==
    /\ status[a] = "absent"
    /\ status' = [status EXCEPT ![a] = "queued"]
    /\ UNCHANGED <<verdict, slots>>

\* A slot of day d is spent; a cap of 0 still has one.
Spend(d) ==
    /\ slots[d] = 0 \/ slots[d] < DailyCap
    /\ slots' = [slots EXCEPT ![d] = @ + 1]
    /\ UNCHANGED <<status, verdict>>

\* The alert gets its one verdict.
Judge(a, v) ==
    /\ status[a] # "absent" /\ verdict[a] = None
    /\ v \in ModelVerdicts => \E d \in Days : slots[d] > 0
    /\ v = CapVerdict => \E d \in Days : slots[d] >= DailyCap
    /\ verdict' = [verdict EXCEPT ![a] = v]
    /\ UNCHANGED <<status, slots>>

\* The table shows the alert as triaged.
Publish(a) ==
    /\ verdict[a] # None
    /\ status' = [status EXCEPT ![a] = "triaged"]
    /\ UNCHANGED <<verdict, slots>>

Next ==
    \/ \E a \in Alerts :
          \/ Store(a) \/ Publish(a)
          \/ \E v \in ModelVerdicts \cup {CapVerdict} : Judge(a, v)
    \/ \E d \in Days : Spend(d)

Spec == Init /\ [][Next]_<<status, verdict, slots>>
===============================================================================
