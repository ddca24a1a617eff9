------------------------------ MODULE SpineState ------------------------------
(***************************************************************************)
(* The state the parts of the triage spine share: the status column of the *)
(* alerts table (DynamoDB) and the alerts queue with its dead-letter queue *)
(* (SQS).  The ingest Lambda writes the first and sends to the second, the *)
(* triage worker reads both, the operator's replay-dlq moves messages from *)
(* the dead-letter queue back.  SQS itself is external: what it does is    *)
(* taken from how infra/aws/messaging.tf configures it and from how the    *)
(* handlers use it.                                                        *)
(***************************************************************************)
EXTENDS Integers, FiniteSets

CONSTANTS
    Alerts,      \* alert ids (ULIDs, canonical.py new_alert_id)
    Messages,    \* SQS message ids; every send uses a fresh one
    MaxReceive,  \* maxReceiveCount of the redrive policy
    None         \* no value

ASSUME MaxReceiveAssumption == MaxReceive \in Nat \ {0}
ASSUME NoneAssumption == None \notin Alerts /\ None \notin Messages

VARIABLES
    status,      \* alert -> its status column, or "absent" before put_new
    sqs,         \* message -> where it is
    body,        \* message -> the alert id in it
    receives     \* message -> ApproximateReceiveCount

queueVars == <<sqs, body, receives>>

Statuses == {"absent", "queued", "triaged"}

\* "visible" and "inflight" are on the alerts queue, "dlq" on the dead-letter
\* queue; "deleted" was removed by its consumer, "moved" by replay-dlq.
Places == {"unsent", "visible", "inflight", "dlq", "deleted", "moved"}

SharedTypeOK ==
    /\ status \in [Alerts -> Statuses]
    /\ sqs \in [Messages -> Places]
    /\ body \in [Messages -> Alerts \cup {None}]
    /\ receives \in [Messages -> 0 .. MaxReceive]

SharedInit ==
    /\ status = [a \in Alerts |-> "absent"]
    /\ sqs = [m \in Messages |-> "unsent"]
    /\ body = [m \in Messages |-> None]
    /\ receives = [m \in Messages |-> 0]

\* A message that some consumer can still get hold of.
Alive(m) == sqs[m] \in {"visible", "inflight", "dlq"}

\* sqs.send_message(MessageBody = {"alert_id": a}) under the fresh id m.
Send(m, a) ==
    /\ sqs[m] = "unsent"
    /\ sqs' = [sqs EXCEPT ![m] = "visible"]
    /\ body' = [body EXCEPT ![m] = a]
    /\ UNCHANGED receives

\* The queue hands the messages of S to a consumer.  A message that has used
\* up its receives is not handed out again: it goes to the dead-letter queue.
Deliver(S) ==
    /\ \A m \in S : sqs[m] = "visible" /\ receives[m] < MaxReceive
    /\ sqs' = [m \in Messages |-> IF m \in S THEN "inflight" ELSE sqs[m]]
    /\ receives' = [m \in Messages |->
                        IF m \in S THEN receives[m] + 1 ELSE receives[m]]
    /\ UNCHANGED body

\* Mutant of DeadLetter: the redrive comes one receive too late.
DeadLetterTooLate(m) ==
    /\ sqs[m] = "visible" /\ receives[m] > MaxReceive
    /\ sqs' = [sqs EXCEPT ![m] = "dlq"]
    /\ UNCHANGED <<status, body, receives>>


DeadLetter(m) ==
    /\ sqs[m] = "visible" /\ receives[m] = MaxReceive
    /\ sqs' = [sqs EXCEPT ![m] = "dlq"]
    /\ UNCHANGED <<status, body, receives>>

\* The consumer's receipt handles for S are deleted.  It deletes from the
\* alerts queue only: a message that reached the dead-letter queue stays.
Delete(S) ==
    /\ sqs' = [m \in Messages |->
                  IF m \in S /\ sqs[m] \in {"visible", "inflight"}
                  THEN "deleted" ELSE sqs[m]]
    /\ UNCHANGED <<body, receives>>

\* An in-flight message becomes visible again: its visibility timeout passed,
\* or a standard queue delivered it twice.
Reappear(m) ==
    /\ sqs[m] = "inflight"
    /\ sqs' = [sqs EXCEPT ![m] = "visible"]
    /\ UNCHANGED <<status, body, receives>>
===============================================================================
