----------------------------- MODULE TriageWorker -----------------------------
(***************************************************************************)
(* The triage worker Lambda (services/triage_worker/handler.py, cap.py):   *)
(* several invocations run at once, each over a batch of SQS messages,     *)
(* record by record; every step between two calls that other processes can *)
(* see is an action.  The invocation may fail a record at any call, or be  *)
(* killed (120 s timeout) between any two.                                 *)
(***************************************************************************)
EXTENDS SpineState

CONSTANTS
    Workers,        \* invocations that may run at the same time
    ModelVerdicts,  \* what a model call may end in (_verdict_item)
    CapVerdict,     \* the placeholder verdict (_cap_verdict_item)
    BatchSize,      \* batch_size of the event source mapping
    DailyCap,       \* DAILY_ALERT_CAP
    LastDay         \* bound: the last day the model's calendar reaches

ASSUME WorkersFinite == IsFiniteSet(Workers)
ASSUME WorkerAssumption ==
    /\ CapVerdict \notin ModelVerdicts
    /\ None \notin ModelVerdicts \cup {CapVerdict}
    /\ BatchSize \in Nat \ {0}
    /\ DailyCap \in Nat
    /\ LastDay \in Nat

VARIABLES
    verdict,  \* alert -> its item in the verdicts table
    slots,    \* day -> the counter in the item "cap#<day>" of the same table
    calls,    \* day -> model calls made on a slot of that day (history)
    day,      \* the current UTC date
    pc,       \* invocation -> its next step
    todo,     \* invocation -> records of its batch not begun
    cur,      \* invocation -> the record in hand
    failed,   \* invocation -> batchItemFailures so far
    done,     \* invocation -> records that returned without an exception
    slotDay,  \* invocation -> the day of the slot it holds for cur
    draft     \* invocation -> the verdict item it is about to put

tableVars == <<verdict, slots, calls, day>>
invocationVars == <<pc, todo, cur, failed, done, slotDay, draft>>
workerVars == <<tableVars, invocationVars>>

Days == 0 .. LastDay
Verdicts == ModelVerdicts \cup {CapVerdict}

\* The steps at which a record of the batch is in hand.
RecordSteps == {"check", "acquire", "run", "decline", "put", "mark"}

TableTypeOK ==
    /\ verdict \in [Alerts -> Verdicts \cup {None}]
    /\ slots \in [Days -> Nat]
    /\ calls \in [Days -> Nat]
    /\ day \in Days

InvocationTypeOK ==
    /\ pc \in [Workers -> RecordSteps \cup {"idle", "next"}]
    /\ todo \in [Workers -> SUBSET Messages]
    /\ cur \in [Workers -> Messages \cup {None}]
    /\ failed \in [Workers -> SUBSET Messages]
    /\ done \in [Workers -> SUBSET Messages]
    /\ slotDay \in [Workers -> Days]
    /\ draft \in [Workers -> Verdicts \cup {None}]

WorkerTypeOK == TableTypeOK /\ InvocationTypeOK

WorkerInit ==
    /\ verdict = [a \in Alerts |-> None]
    /\ slots = [d \in Days |-> 0]
    /\ calls = [d \in Days |-> 0]
    /\ day = 0
    /\ pc = [w \in Workers |-> "idle"]
    /\ todo = [w \in Workers |-> {}]
    /\ cur = [w \in Workers |-> None]
    /\ failed = [w \in Workers |-> {}]
    /\ done = [w \in Workers |-> {}]
    /\ slotDay = [w \in Workers |-> 0]
    /\ draft = [w \in Workers |-> None]

-------------------------------------------------------------------------------
(* What the steps share.                                                    *)

\* The alert of the record in hand.
AlertOf(w) == body[cur[w]]

Held(w) == todo[w] \cup failed[w] \cup done[w]
              \cup (IF cur[w] = None THEN {} ELSE {cur[w]})

Goto(w, step) == pc' = [pc EXCEPT ![w] = step]

\* The record in hand leaves: its message joins done or failed, and the loop
\* of lambda_handler goes on to the next record.
Leave(w) ==
    /\ Goto(w, "next")
    /\ cur' = [cur EXCEPT ![w] = None]
    /\ draft' = [draft EXCEPT ![w] = None]
    /\ slotDay' = [slotDay EXCEPT ![w] = 0]
    /\ UNCHANGED todo

Returns(w) ==
    /\ Leave(w)
    /\ done' = [done EXCEPT ![w] = @ \cup {cur[w]}]
    /\ UNCHANGED failed

Raises(w) ==
    /\ Leave(w)
    /\ failed' = [failed EXCEPT ![w] = @ \cup {cur[w]}]
    /\ UNCHANGED done

\* The invocation is over; a warm container keeps nothing of it.
Ends(w) ==
    /\ pc' = [pc EXCEPT ![w] = "idle"]
    /\ todo' = [todo EXCEPT ![w] = {}]
    /\ cur' = [cur EXCEPT ![w] = None]
    /\ failed' = [failed EXCEPT ![w] = {}]
    /\ done' = [done EXCEPT ![w] = {}]
    /\ draft' = [draft EXCEPT ![w] = None]
    /\ slotDay' = [slotDay EXCEPT ![w] = 0]

-------------------------------------------------------------------------------
(* The invocation.                                                          *)

\* The event source mapping invokes the Lambda with a batch.
Invoke(w, batch) ==
    /\ pc[w] = "idle"
    /\ batch # {} /\ Cardinality(batch) <= BatchSize
    /\ Deliver(batch)
    /\ Goto(w, "next")
    /\ todo' = [todo EXCEPT ![w] = batch]
    /\ UNCHANGED <<status, tableVars, cur, failed, done, slotDay, draft>>

\* for record in event["Records"]; the queue orders a batch as it likes.
TakeRecord(w, m) ==
    /\ pc[w] = "next" /\ m \in todo[w]
    /\ Goto(w, "check")
    /\ cur' = [cur EXCEPT ![w] = m]
    /\ todo' = [todo EXCEPT ![w] = @ \ {m}]
    /\ UNCHANGED <<status, queueVars, tableVars, failed, done, slotDay, draft>>

\* The alert is there, and so is a verdict: return before the status update.
AlreadyTriaged(w) ==
    /\ pc[w] = "check"
    /\ status[AlertOf(w)] # "absent" /\ verdict[AlertOf(w)] # None
    /\ Returns(w)
    /\ UNCHANGED <<status, queueVars, tableVars>>

\* get_item finds no verdict.  It reads an eventually consistent replica, so
\* that says nothing about verdict at this moment.
NoVerdictSeen(w) ==
    /\ pc[w] = "check"
    /\ status[AlertOf(w)] # "absent"
    /\ Goto(w, "acquire")
    /\ UNCHANGED <<status, queueVars, tableVars, todo, cur, failed, done,
                   slotDay, draft>>

\* Mutant of SlotFree: the comparison lets one call too many through.
SlotFreeInclusive(d) == slots[d] <= DailyCap

\* The condition of try_acquire's update: attribute_not_exists(#count) OR
\* #count < :cap.  The counter exists once a slot was taken.
SlotFree(d) == slots[d] = 0 \/ slots[d] < DailyCap

AcquireSlot(w) ==
    /\ pc[w] = "acquire" /\ SlotFree(day)
    /\ slots' = [slots EXCEPT ![day] = @ + 1]
    /\ slotDay' = [slotDay EXCEPT ![w] = day]
    /\ Goto(w, "run")
    /\ UNCHANGED <<status, queueVars, verdict, calls, day, todo, cur, failed,
                   done, draft>>

\* The update took effect, its answer was lost, and the SDK sends it again: one
\* more slot is gone, and the handler is still in its call.
SlotAnswerLost(w) ==
    /\ pc[w] = "acquire" /\ SlotFree(day)
    /\ slots' = [slots EXCEPT ![day] = @ + 1]
    /\ UNCHANGED <<status, queueVars, verdict, calls, day, invocationVars>>

\* Mutant of CapReached: the last slot of the day is never used.
CapReachedEarly(w) ==
    /\ pc[w] = "acquire" /\ slots[day] + 1 >= DailyCap
    /\ Goto(w, "decline")
    /\ UNCHANGED <<status, queueVars, tableVars, todo, cur, failed, done,
                   slotDay, draft>>


CapReached(w) ==
    /\ pc[w] = "acquire" /\ ~SlotFree(day)
    /\ Goto(w, "decline")
    /\ UNCHANGED <<status, queueVars, tableVars, todo, cur, failed, done,
                   slotDay, draft>>

\* _runner.run(alert) made its call and returned a verdict.
RunModel(w, v) ==
    /\ pc[w] = "run"
    /\ calls' = [calls EXCEPT ![slotDay[w]] = @ + 1]
    /\ draft' = [draft EXCEPT ![w] = v]
    /\ Goto(w, "put")
    /\ UNCHANGED <<status, queueVars, verdict, slots, day, todo, cur, failed,
                   done, slotDay>>

\* _runner.run(alert) made its call and raised.
ModelRaises(w) ==
    /\ pc[w] = "run"
    /\ calls' = [calls EXCEPT ![slotDay[w]] = @ + 1]
    /\ Raises(w)
    /\ UNCHANGED <<status, queueVars, verdict, slots, day>>

\* Mutant of Decline: the alert is marked before its verdict is put.
DeclineMarksFirst(w) ==
    /\ pc[w] = "decline"
    /\ draft' = [draft EXCEPT ![w] = CapVerdict]
    /\ status' = [status EXCEPT ![AlertOf(w)] = "triaged"]
    /\ Goto(w, "put")
    /\ UNCHANGED <<queueVars, tableVars, todo, cur, failed, done, slotDay>>

\* The placeholder verdict, and metrics.emit_cap_reached() went through.
Decline(w) ==
    /\ pc[w] = "decline"
    /\ draft' = [draft EXCEPT ![w] = CapVerdict]
    /\ Goto(w, "put")
    /\ UNCHANGED <<status, queueVars, tableVars, todo, cur, failed, done,
                   slotDay>>

\* Mutant of PutVerdict: the put has no condition.
PutUnconditionally(w) ==
    /\ pc[w] = "put"
    /\ verdict' = [verdict EXCEPT ![AlertOf(w)] = draft[w]]
    /\ Goto(w, "mark")
    /\ UNCHANGED <<status, queueVars, slots, calls, day, todo, cur, failed,
                   done, slotDay, draft>>

\* put_item with attribute_not_exists(alert_id).
PutVerdict(w) ==
    /\ pc[w] = "put" /\ verdict[AlertOf(w)] = None
    /\ verdict' = [verdict EXCEPT ![AlertOf(w)] = draft[w]]
    /\ Goto(w, "mark")
    /\ UNCHANGED <<status, queueVars, slots, calls, day, todo, cur, failed,
                   done, slotDay, draft>>

\* The put took effect, its answer was lost, and the SDK sends it again: what
\* follows is VerdictTaken, by this invocation's own verdict.
PutAnswerLost(w) ==
    /\ pc[w] = "put" /\ verdict[AlertOf(w)] = None
    /\ verdict' = [verdict EXCEPT ![AlertOf(w)] = draft[w]]
    /\ UNCHANGED <<status, queueVars, slots, calls, day, invocationVars>>

\* ConditionalCheckFailedException: the handler takes it that another invocation
\* was first.
VerdictTaken(w) ==
    /\ pc[w] = "put" /\ verdict[AlertOf(w)] # None
    /\ Returns(w)
    /\ UNCHANGED <<status, queueVars, tableVars>>

MarkTriaged(w) ==
    /\ pc[w] = "mark"
    /\ status' = [status EXCEPT ![AlertOf(w)] = "triaged"]
    /\ Returns(w)
    /\ UNCHANGED <<queueVars, tableVars>>

\* The update of MarkTriaged reached the table and the call raised all the same.
MarkRaises(w) ==
    /\ pc[w] = "mark"
    /\ status' = [status EXCEPT ![AlertOf(w)] = "triaged"]
    /\ Raises(w)
    /\ UNCHANGED <<queueVars, tableVars>>

\* Mutant of RecordFails: a failed record gives a slot back it may not hold.
RecordFailsRefundsSlot(w) ==
    /\ pc[w] \in RecordSteps
    /\ slots' = [slots EXCEPT ![day] = @ - 1]
    /\ Raises(w)
    /\ UNCHANGED <<status, queueVars, verdict, calls, day>>

\* A call raised before it took effect (or, for the calls above that take
\* effect, after it did and at the next step): the alert is not found, a
\* throttled table, emit_cap_reached.  The handler logs and goes on.
RecordFails(w) ==
    /\ pc[w] \in RecordSteps
    /\ Raises(w)
    /\ UNCHANGED <<status, queueVars, tableVars>>

\* Mutant of ReturnBatch: the failures are not reported, so all is deleted.
ReturnBatchForgetsFailures(w) ==
    /\ pc[w] = "next" /\ todo[w] = {}
    /\ Delete(done[w] \cup failed[w])
    /\ Ends(w)
    /\ UNCHANGED <<status, tableVars>>

\* The handler returns batchItemFailures; the event source mapping deletes
\* the rest of the batch.
ReturnBatch(w) ==
    /\ pc[w] = "next" /\ todo[w] = {}
    /\ Delete(done[w])
    /\ Ends(w)
    /\ UNCHANGED <<status, tableVars>>

\* The invocation times out or its container dies: nothing is deleted.
Crash(w) ==
    /\ pc[w] # "idle"
    /\ Ends(w)
    /\ UNCHANGED <<status, queueVars, tableVars>>

-------------------------------------------------------------------------------
(* The queue and the clock around the invocations.                          *)

\* 720 s is six times the Lambda's timeout: no invocation that holds m lives.
VisibilityTimeout(m) ==
    /\ \A w \in Workers : m \notin Held(w)
    /\ Reappear(m)
    /\ UNCHANGED workerVars

\* A standard queue may deliver a message again while it is in flight.
DuplicateDelivery(m) ==
    /\ \E w \in Workers : m \in Held(w)
    /\ Reappear(m)
    /\ UNCHANGED workerVars

Redrive(m) == DeadLetter(m) /\ UNCHANGED workerVars

NextDay ==
    /\ day < LastDay
    /\ day' = day + 1
    /\ UNCHANGED <<status, queueVars, verdict, slots, calls, invocationVars>>

RecordStep(w) ==
    \/ \E m \in Messages : TakeRecord(w, m)
    \/ AlreadyTriaged(w) \/ NoVerdictSeen(w)
    \/ AcquireSlot(w) \/ SlotAnswerLost(w) \/ CapReached(w)
    \/ \E v \in ModelVerdicts : RunModel(w, v)
    \/ ModelRaises(w) \/ Decline(w)
    \/ PutVerdict(w) \/ PutAnswerLost(w) \/ VerdictTaken(w)
    \/ MarkTriaged(w) \/ MarkRaises(w) \/ RecordFails(w)

WorkerNext ==
    \/ \E w \in Workers :
          \/ \E batch \in SUBSET Messages : Invoke(w, batch)
          \/ RecordStep(w) \/ ReturnBatch(w) \/ Crash(w)
    \/ \E m \in Messages :
          VisibilityTimeout(m) \/ DuplicateDelivery(m) \/ Redrive(m)
    \/ NextDay

-------------------------------------------------------------------------------
(* The worker on its own: ingest is one step that stores and enqueues.      *)

Arrive(a, m) ==
    /\ status[a] = "absent"
    /\ status' = [status EXCEPT ![a] = "queued"]
    /\ Send(m, a)
    /\ UNCHANGED workerVars

wvars == <<status, queueVars, workerVars>>

WorkerAloneInit == SharedInit /\ WorkerInit

WorkerAlone == WorkerNext \/ \E a \in Alerts, m \in Messages : Arrive(a, m)

\* What the Lambda service and SQS keep doing: an invocation runs on, a visible
\* message is received in the end (invocations come and go, hence strong
\* fairness), a visibility timeout ends, a message out of receives is redriven.
\* Nothing makes an alert arrive, a call fail or an invocation crash.
Progress(w) ==
    \/ \E m \in Messages : TakeRecord(w, m)
    \/ NoVerdictSeen(w) \/ AcquireSlot(w) \/ CapReached(w)
    \/ \E v \in ModelVerdicts : RunModel(w, v)
    \/ Decline(w) \/ PutVerdict(w) \/ VerdictTaken(w) \/ MarkTriaged(w)
    \/ ReturnBatch(w)

WorkerFairness ==
    /\ \A w \in Workers : WF_wvars(Progress(w))
    /\ \A m \in Messages :
          /\ SF_wvars(\E w \in Workers : \E batch \in SUBSET Messages :
                         m \in batch /\ Invoke(w, batch))
          /\ WF_wvars(VisibilityTimeout(m))
          /\ WF_wvars(Redrive(m))

WorkerSpec == WorkerAloneInit /\ [][WorkerAlone]_wvars
FairWorkerSpec == WorkerSpec /\ WorkerFairness

-------------------------------------------------------------------------------
(* Properties.                                                              *)

\* Every variable has its type.
WorkerAloneTypeOK == SharedTypeOK /\ WorkerTypeOK

\* A verdict is final: whatever redeliveries and concurrent invocations do, no
\* step changes or removes the verdict of an alert (handler.py 110-118).
VerdictFinal ==
    [][\A a \in Alerts : verdict[a] # None => verdict'[a] = verdict[a]]_wvars

\* The console shows "triaged" only for an alert that has a verdict: the status
\* is written after the verdict (handler.py 110-125).
TriagedHasVerdict ==
    \A a \in Alerts : status[a] = "triaged" => verdict[a] # None

\* No alert falls through the queue: the consumer's deletion of a message means
\* its alert has a verdict, also when other records of the batch failed, the
\* message was delivered twice or the invocation skipped it (handler.py 149-159).
DeletedHasVerdict ==
    \A m \in Messages : sqs[m] = "deleted" => verdict[body[m]] # None

\* The invocations about to call the model on a slot of day d.
Callers(d) == {w \in Workers : pc[w] = "run" /\ slotDay[w] = d}

\* Live model calls stay within the daily cap, counted on the day of the slot:
\* each call and each invocation about to call owns a slot of its own
\* (cap.py 23-37).  A cap of 0 still lets one call through.
CallsWithinCap ==
    \A d \in Days :
        /\ calls[d] + Cardinality(Callers(d)) <= slots[d]
        /\ slots[d] <= IF DailyCap = 0 THEN 1 ELSE DailyCap

\* A day's slots are all taken, today's or an earlier one's.
Exhausted == \E d \in 0 .. day : slots[d] >= DailyCap

\* The placeholder verdict means that a day's slots were all taken: no alert is
\* declined while the cap has room (handler.py 102-107).
DeclinedMeansExhausted ==
    (\E a \in Alerts : verdict[a] = CapVerdict) => Exhausted

\* The worker's README: an alert declined for the cap is still marked triaged
\* rather than left queued.  A worker that dies between the put and the update
\* leaves it queued; the redelivery finds the verdict, returns before the update,
\* and its message is deleted (handler.py 97-125).  A put that the SDK repeats
\* does the same without a crash, and both happen to live verdicts as well.
CappedIsTriaged ==
    \A m \in Messages :
        sqs[m] = "deleted" /\ verdict[body[m]] = CapVerdict
            => status[body[m]] = "triaged"

\* Every delivered message is disposed of: it ends deleted or on the dead-letter
\* queue, whatever fails, since its receives run out.
Disposed ==
    \A m \in Messages :
        sqs[m] \in {"visible", "inflight"} ~> sqs[m] \in {"deleted", "dlq"}

\* So every alert the queue was given gets a verdict or waits on the
\* dead-letter queue for an operator.
EventuallyJudged ==
    \A a \in Alerts :
        status[a] = "queued" ~>
            \/ verdict[a] # None
            \/ \E m \in Messages : body[m] = a /\ sqs[m] = "dlq"

-------------------------------------------------------------------------------
(* What makes the safety properties inductive: the facts an invocation has   *)
(* established by the time it is at a step, and which other invocations keep. *)

SentHasBody == \A m \in Messages : sqs[m] # "unsent" => body[m] \in Alerts

HeldIsSent == \A w \in Workers : \A m \in Held(w) : sqs[m] # "unsent"

RecordInHand == \A w \in Workers : pc[w] \in RecordSteps => cur[w] # None

DoneHasVerdict == \A w \in Workers : \A m \in done[w] : verdict[body[m]] # None

DraftAtPut == \A w \in Workers : pc[w] = "put" => draft[w] # None

VerdictAtMark == \A w \in Workers : pc[w] = "mark" => verdict[AlertOf(w)] # None

DecliningMeansExhausted ==
    \A w \in Workers : pc[w] = "decline" \/ draft[w] = CapVerdict => Exhausted

RecordInv == SentHasBody /\ HeldIsSent /\ RecordInHand

VerdictInv ==
    /\ DoneHasVerdict /\ DraftAtPut /\ VerdictAtMark
    /\ TriagedHasVerdict /\ DeletedHasVerdict

CapInv == DecliningMeansExhausted /\ DeclinedMeansExhausted

WorkerInv ==
    WorkerAloneTypeOK /\ RecordInv /\ VerdictInv /\ CapInv /\ CallsWithinCap
===============================================================================
