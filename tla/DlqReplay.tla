------------------------------ MODULE DlqReplay ------------------------------
(***************************************************************************)
(* bankops replay-dlq --yes (cli/bankops/commands.py cmd_replay_dlq): an   *)
(* operator receives a batch from the dead-letter queue and, message by    *)
(* message, sends a copy to the alerts queue, then deletes the original.   *)
(* The command may die between the two calls.  A received message is only  *)
(* hidden for 30 s, so another run of the command may receive it as well;  *)
(* when that happens is left open.  Without --yes nothing is moved.        *)
(***************************************************************************)
EXTENDS SpineState

CONSTANT Operators  \* runs of the command that may overlap

VARIABLES
    taken,   \* run -> messages received and not yet copied
    copied   \* run -> the message whose copy is sent and which is not deleted

replayVars == <<taken, copied>>

ReplayTypeOK ==
    /\ taken \in [Operators -> SUBSET Messages]
    /\ copied \in [Operators -> Messages \cup {None}]

ReplayInit ==
    /\ taken = [o \in Operators |-> {}]
    /\ copied = [o \in Operators |-> None]

\* Mutant of ReceiveDead: the messages are deleted as they are received.
ReceiveDeadDeletes(o, batch) ==
    /\ taken[o] = {} /\ copied[o] = None
    /\ batch # {} /\ \A m \in batch : sqs[m] = "dlq"
    /\ taken' = [taken EXCEPT ![o] = batch]
    /\ sqs' = [m \in Messages |-> IF m \in batch THEN "moved" ELSE sqs[m]]
    /\ UNCHANGED <<status, body, receives, copied>>

\* sqs.receive_message on the dead-letter queue.
ReceiveDead(o, batch) ==
    /\ taken[o] = {} /\ copied[o] = None
    /\ batch # {} /\ \A m \in batch : sqs[m] = "dlq"
    /\ taken' = [taken EXCEPT ![o] = batch]
    /\ UNCHANGED <<status, queueVars, copied>>

\* send_message of the body received, under the fresh id n.
SendCopy(o, m, n) ==
    /\ m \in taken[o] /\ copied[o] = None
    /\ Send(n, body[m])
    /\ taken' = [taken EXCEPT ![o] = @ \ {m}]
    /\ copied' = [copied EXCEPT ![o] = m]
    /\ UNCHANGED status

\* delete_message on the dead-letter queue.
DeleteOriginal(o) ==
    /\ copied[o] # None
    /\ sqs' = [sqs EXCEPT ![copied[o]] = "moved"]
    /\ copied' = [copied EXCEPT ![o] = None]
    /\ UNCHANGED <<status, body, receives, taken>>

\* The command raises or is interrupted; what it received reappears.
ReplayDies(o) ==
    /\ taken[o] # {} \/ copied[o] # None
    /\ taken' = [taken EXCEPT ![o] = {}]
    /\ copied' = [copied EXCEPT ![o] = None]
    /\ UNCHANGED <<status, queueVars>>

ReplayNext ==
    \E o \in Operators :
        \/ \E batch \in SUBSET Messages : ReceiveDead(o, batch)
        \/ \E m, n \in Messages : SendCopy(o, m, n)
        \/ DeleteOriginal(o) \/ ReplayDies(o)
===============================================================================
