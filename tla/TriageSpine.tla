----------------------------- MODULE TriageSpine -----------------------------
(***************************************************************************)
(* The triage spine put together: ingest stores and enqueues alerts, the   *)
(* queue delivers them to the worker's invocations, an operator replays    *)
(* what ended on the dead-letter queue.  Every step is a step of one of    *)
(* the three, taken on the shared tables and queue.                        *)
(***************************************************************************)
EXTENDS Ingest, TriageWorker, DlqReplay

vars == <<status, queueVars, ingestVars, workerVars, replayVars>>

Init == SharedInit /\ IngestInit /\ WorkerInit /\ ReplayInit

Next ==
    \/ IngestNext /\ UNCHANGED <<workerVars, replayVars>>
    \/ WorkerNext /\ UNCHANGED <<ingestVars, replayVars>>
    \/ ReplayNext /\ UNCHANGED <<ingestVars, workerVars>>

Spec == Init /\ [][Next]_vars

\* Every variable has its type.
TypeOK == SharedTypeOK /\ IngestTypeOK /\ WorkerTypeOK /\ ReplayTypeOK

\* An alert that was enqueued and has no verdict can still be got hold of: one
\* of its messages is on the alerts queue or the dead-letter queue, through
\* failed records, crashes, duplicate deliveries and replays that die between
\* their two calls (handler.py 149-159, commands.py 232-234).
UnjudgedIsAlive ==
    \A a \in Alerts :
        (verdict[a] = None /\ \E m \in Messages : body[m] = a)
            => \E m \in Messages : body[m] = a /\ Alive(m)

\* The spine implements the ledger: queues, invocations, retries and replays
\* are left out, the tables are what they are.
Ledger == INSTANCE TriageLedger
            WITH status <- status, verdict <- verdict, slots <- slots
LedgerSpec == Ledger!Spec

\* slo.md: an alert that never gets a verdict is on the dead-letter queue or
\* awaits redelivery.  An ingest that dies between put_new and send_message
\* leaves one that is on no queue at all.
UnjudgedIsOnAQueue ==
    \A a \in Alerts :
        (status[a] = "queued" /\ verdict[a] = None /\ ~Active(a[1]))
            => \E m \in Messages : body[m] = a /\ Alive(m)

-------------------------------------------------------------------------------
(* What makes UnjudgedIsAlive and the refinement inductive, with the         *)
(* invariants of the worker and of ingest.                                   *)

\* What a run of replay-dlq holds is on the dead-letter queue, or another run
\* moved it first.
ReplayHoldsDead ==
    \A o \in Operators :
        /\ \A m \in taken[o] : sqs[m] \in {"dlq", "moved"}
        /\ copied[o] # None => sqs[copied[o]] \in {"dlq", "moved"}

\* The message that keeps an unjudged alert alive is one that no run is about to
\* delete: between the two calls of a replay the original does not count.
UncopiedIsAlive ==
    \A a \in Alerts :
        (verdict[a] = None /\ \E m \in Messages : body[m] = a)
            => \E m \in Messages :
                  body[m] = a /\ Alive(m) /\ \A o \in Operators : copied[o] # m

\* Whoever calls the model, or has its answer, took a slot of some day.
LiveDraftIsPaid ==
    \A w \in Workers :
        pc[w] = "run" \/ draft[w] \in ModelVerdicts => \E d \in Days : slots[d] > 0

SpineInv ==
    /\ WorkerInv /\ IngestInv /\ ReplayTypeOK
    /\ ReplayHoldsDead /\ UncopiedIsAlive /\ LiveDraftIsPaid
===============================================================================
