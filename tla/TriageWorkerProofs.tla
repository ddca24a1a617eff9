-------------------------- MODULE TriageWorkerProofs --------------------------
(***************************************************************************)
(* Proofs about the triage worker (TriageWorker).  WorkerInv is inductive: *)
(* it adds to the properties what an invocation has established by the     *)
(* time it is at a step (a record in hand was sent and carries an alert, a *)
(* record that returned has a verdict, a draft is there before the put).   *)
(* What one step keeps is proved part by part (TypeStep, RecordInvStep,    *)
(* VerdictInvStep, CapInvStep, CallsWithinCapStep); Persistence says what  *)
(* no step of the worker undoes, so that what one invocation established   *)
(* stays true while the others run.  The step lemmas speak of WorkerNext   *)
(* alone: ArriveStep adds the ingest step of the standalone specification. *)
(***************************************************************************)
EXTENDS TriageWorker, FiniteSetTheorems, TLAPS

-------------------------------------------------------------------------------
(* Facts the step lemmas use.                                               *)

\* The initial states: no slot is taken and nobody is about to call.
LEMMA InitCalls == WorkerAloneInit => CallsWithinCap
  <1> SUFFICES ASSUME WorkerAloneInit, NEW d \in Days
               PROVE  /\ calls[d] + Cardinality(Callers(d)) <= slots[d]
                      /\ slots[d] <= IF DailyCap = 0 THEN 1 ELSE DailyCap
    BY DEF CallsWithinCap
  <1>1. Callers(d) = {} BY DEF Callers, WorkerAloneInit, WorkerInit
  <1>2. Cardinality(Callers(d)) = 0 BY <1>1, FS_EmptySet
  <1>3. slots[d] = 0 /\ calls[d] = 0 BY DEF WorkerAloneInit, WorkerInit
  <1> QED BY <1>2, <1>3, WorkerAssumption

\* The initial states satisfy the invariant.
LEMMA InitInv == WorkerAloneInit => WorkerInv
  <1> SUFFICES ASSUME WorkerAloneInit PROVE WorkerInv OBVIOUS
  <1> USE DEF WorkerAloneInit, SharedInit, WorkerInit
  <1>1. WorkerAloneTypeOK
    BY WorkerAssumption, MaxReceiveAssumption, NoneAssumption
    DEF WorkerAloneTypeOK, SharedTypeOK, WorkerTypeOK, TableTypeOK, InvocationTypeOK,
        Statuses, Places, Days, Verdicts
  <1>2. RecordInv
    BY DEF RecordInv, SentHasBody, HeldIsSent, RecordInHand, Held, RecordSteps
  <1>3. VerdictInv
    BY DEF VerdictInv, DoneHasVerdict, DraftAtPut, VerdictAtMark, TriagedHasVerdict,
           DeletedHasVerdict
  <1>4. CapInv
    BY WorkerAssumption DEF CapInv, DecliningMeansExhausted, DeclinedMeansExhausted
  <1> QED BY <1>1, <1>2, <1>3, <1>4, InitCalls DEF WorkerInv

\* A record in hand is a sent message whose body names an alert.
LEMMA RecordAtHand ==
    ASSUME WorkerInv, NEW w \in Workers, pc[w] \in RecordSteps
    PROVE  /\ cur[w] \in Messages
           /\ sqs[cur[w]] # "unsent"
           /\ AlertOf(w) \in Alerts
  BY NoneAssumption
  DEF WorkerInv, RecordInv, RecordInHand, HeldIsSent, SentHasBody, Held,
      WorkerAloneTypeOK, WorkerTypeOK, InvocationTypeOK, AlertOf

\* How a record leaves keeps the types of an invocation's state.
LEMMA ReturnsType ==
    ASSUME InvocationTypeOK, NEW w \in Workers, cur[w] \in Messages, Returns(w)
    PROVE  InvocationTypeOK'
  <1> USE DEF InvocationTypeOK, Returns, Leave, Goto
  <1>1. done[w] \cup {cur[w]} \in SUBSET Messages OBVIOUS
  <1>2. done' \in [Workers -> SUBSET Messages] BY <1>1
  <1>3. 0 \in Days BY WorkerAssumption DEF Days
  <1> QED BY <1>2, <1>3

\* The same for a record that fails.
LEMMA RaisesType ==
    ASSUME InvocationTypeOK, NEW w \in Workers, cur[w] \in Messages, Raises(w)
    PROVE  InvocationTypeOK'
  <1> USE DEF InvocationTypeOK, Raises, Leave, Goto
  <1>1. failed[w] \cup {cur[w]} \in SUBSET Messages OBVIOUS
  <1>2. failed' \in [Workers -> SUBSET Messages] BY <1>1
  <1>3. 0 \in Days BY WorkerAssumption DEF Days
  <1> QED BY <1>2, <1>3

\* So does the end of an invocation.
LEMMA EndsType ==
    ASSUME InvocationTypeOK, NEW w \in Workers, Ends(w)
    PROVE  InvocationTypeOK'
  BY WorkerAssumption DEF InvocationTypeOK, Ends, Days

\* A delivery stays within the redrive policy's receive count.
LEMMA DeliverType ==
    ASSUME SharedTypeOK, NEW batch \in SUBSET Messages, Deliver(batch),
           status' = status
    PROVE  SharedTypeOK'
  <1> USE DEF SharedTypeOK, Deliver
  <1>1. sqs' \in [Messages -> Places] BY DEF Places
  <1>2. ASSUME NEW m \in Messages
        PROVE  (IF m \in batch THEN receives[m] + 1 ELSE receives[m]) \in 0 .. MaxReceive
    <2>1. receives[m] \in 0 .. MaxReceive OBVIOUS
    <2>2. m \in batch => receives[m] < MaxReceive OBVIOUS
    <2> QED BY <2>1, <2>2, MaxReceiveAssumption
  <1>3. receives' \in [Messages -> 0 .. MaxReceive] BY <1>2
  <1> QED BY <1>1, <1>3

\* Every step of the worker, the queue and the clock keeps the types.
LEMMA TypeStep == ASSUME WorkerInv, WorkerNext PROVE WorkerAloneTypeOK'
  <1> USE DEF WorkerAloneTypeOK, WorkerTypeOK
  <1>0. SharedTypeOK /\ TableTypeOK /\ InvocationTypeOK
    BY DEF WorkerInv
  <1>1. ASSUME NEW w \in Workers, NEW batch \in SUBSET Messages, Invoke(w, batch)
        PROVE  WorkerAloneTypeOK'
    <2>1. SharedTypeOK' BY <1>0, <1>1, DeliverType DEF Invoke
    <2>2. TableTypeOK' /\ InvocationTypeOK'
      BY <1>0, <1>1 DEF Invoke, Goto, tableVars, TableTypeOK, InvocationTypeOK
    <2> QED BY <2>1, <2>2
  <1>2. ASSUME NEW w \in Workers, RecordStep(w)
        PROVE  WorkerAloneTypeOK'
    <2> USE DEF SharedTypeOK, TableTypeOK, queueVars, tableVars, invocationVars
    <2>1. CASE \E m \in Messages : TakeRecord(w, m)
      BY <1>0, <2>1 DEF TakeRecord, Goto, InvocationTypeOK, RecordSteps
    <2>2. CASE AlreadyTriaged(w) \/ VerdictTaken(w)
      <3>1. cur[w] \in Messages
        BY <2>2, RecordAtHand DEF AlreadyTriaged, VerdictTaken, RecordSteps
      <3> QED BY <1>0, <2>2, <3>1, ReturnsType DEF AlreadyTriaged, VerdictTaken
    <2>3. CASE NoVerdictSeen(w) \/ CapReached(w)
      BY <1>0, <2>3 DEF NoVerdictSeen, CapReached, Goto, InvocationTypeOK, RecordSteps
    <2>4. CASE AcquireSlot(w) \/ SlotAnswerLost(w)
      <3>1. slots' \in [Days -> Nat]
        BY <1>0, <2>4 DEF AcquireSlot, SlotAnswerLost
      <3>2. InvocationTypeOK'
        BY <1>0, <2>4
        DEF AcquireSlot, SlotAnswerLost, Goto, InvocationTypeOK, RecordSteps
      <3> QED BY <1>0, <2>4, <3>1, <3>2 DEF AcquireSlot, SlotAnswerLost
    <2>5. CASE \E v \in ModelVerdicts : RunModel(w, v)
      <3>1. calls' \in [Days -> Nat]
        BY <1>0, <2>5 DEF RunModel, InvocationTypeOK
      <3>2. InvocationTypeOK'
        BY <1>0, <2>5 DEF RunModel, Goto, InvocationTypeOK, RecordSteps, Verdicts
      <3> QED BY <1>0, <2>5, <3>1, <3>2 DEF RunModel
    <2>6. CASE ModelRaises(w)
      <3>1. cur[w] \in Messages BY <2>6, RecordAtHand DEF ModelRaises, RecordSteps
      <3>2. calls' \in [Days -> Nat]
        BY <1>0, <2>6 DEF ModelRaises, InvocationTypeOK
      <3> QED BY <1>0, <2>6, <3>1, <3>2, RaisesType DEF ModelRaises
    <2>7. CASE Decline(w)
      BY <1>0, <2>7 DEF Decline, Goto, InvocationTypeOK, RecordSteps, Verdicts
    <2>8. CASE PutVerdict(w) \/ PutAnswerLost(w)
      <3>1. AlertOf(w) \in Alerts
        BY <2>8, RecordAtHand DEF PutVerdict, PutAnswerLost, RecordSteps
      <3>2. verdict' \in [Alerts -> Verdicts \cup {None}]
        BY <1>0, <2>8, <3>1 DEF PutVerdict, PutAnswerLost, InvocationTypeOK
      <3>3. InvocationTypeOK'
        BY <1>0, <2>8
        DEF PutVerdict, PutAnswerLost, Goto, InvocationTypeOK, RecordSteps
      <3> QED BY <1>0, <2>8, <3>2, <3>3 DEF PutVerdict, PutAnswerLost
    <2>9. CASE MarkTriaged(w) \/ MarkRaises(w)
      <3>1. cur[w] \in Messages /\ AlertOf(w) \in Alerts
        BY <2>9, RecordAtHand DEF MarkTriaged, MarkRaises, RecordSteps
      <3>2. status' \in [Alerts -> Statuses]
        BY <1>0, <2>9, <3>1 DEF MarkTriaged, MarkRaises, Statuses
      <3>3. InvocationTypeOK'
        BY <1>0, <2>9, <3>1, ReturnsType, RaisesType DEF MarkTriaged, MarkRaises
      <3> QED BY <1>0, <2>9, <3>2, <3>3 DEF MarkTriaged, MarkRaises
    <2>10. CASE RecordFails(w)
      <3>1. cur[w] \in Messages BY <2>10, RecordAtHand DEF RecordFails
      <3> QED BY <1>0, <2>10, <3>1, RaisesType DEF RecordFails
    <2> QED
      BY <1>2, <2>1, <2>2, <2>3, <2>4, <2>5, <2>6, <2>7, <2>8, <2>9, <2>10
      DEF RecordStep
  <1>3. ASSUME NEW w \in Workers, ReturnBatch(w)
        PROVE  WorkerAloneTypeOK'
    <2>1. sqs' \in [Messages -> Places]
      BY <1>0, <1>3 DEF ReturnBatch, Delete, SharedTypeOK, Places
    <2>2. InvocationTypeOK' BY <1>0, <1>3, EndsType DEF ReturnBatch
    <2> QED
      BY <1>0, <1>3, <2>1, <2>2
      DEF ReturnBatch, Delete, SharedTypeOK, TableTypeOK, tableVars
  <1>4. ASSUME NEW w \in Workers, Crash(w)
        PROVE  WorkerAloneTypeOK'
    <2>1. InvocationTypeOK' BY <1>0, <1>4, EndsType DEF Crash
    <2> QED
      BY <1>0, <1>4, <2>1
      DEF Crash, SharedTypeOK, TableTypeOK, queueVars, tableVars
  <1>5. ASSUME NEW m \in Messages,
               VisibilityTimeout(m) \/ DuplicateDelivery(m) \/ Redrive(m)
        PROVE  WorkerAloneTypeOK'
    BY <1>0, <1>5
    DEF VisibilityTimeout, DuplicateDelivery, Redrive, Reappear, DeadLetter, Places,
        SharedTypeOK, TableTypeOK, InvocationTypeOK, workerVars, tableVars,
        invocationVars
  <1>6. CASE NextDay
    BY <1>0, <1>6, WorkerAssumption
    DEF NextDay, SharedTypeOK, TableTypeOK, InvocationTypeOK, Days, queueVars,
        invocationVars
  <1> QED BY <1>1, <1>2, <1>3, <1>4, <1>5, <1>6 DEF WorkerNext

\* No step of the worker changes a sent message's body, unsends a message or
\* touches a verdict that is there.
LEMMA Persistence ==
    ASSUME WorkerInv, WorkerNext
    PROVE  /\ body' = body
           /\ \A m \in Messages : sqs[m] # "unsent" <=> sqs'[m] # "unsent"
           /\ \A a \in Alerts : verdict[a] # None => verdict'[a] = verdict[a]
  <1> USE DEF queueVars, tableVars, workerVars, Statuses
  <1>0. /\ sqs \in [Messages -> Places]
        /\ verdict \in [Alerts -> Verdicts \cup {None}]
    BY DEF WorkerInv, WorkerAloneTypeOK, SharedTypeOK, WorkerTypeOK, TableTypeOK
  <1>1. ASSUME NEW w \in Workers, NEW batch \in SUBSET Messages, Invoke(w, batch)
        PROVE  /\ body' = body /\ verdict' = verdict
               /\ \A m \in Messages : sqs[m] # "unsent" <=> sqs'[m] # "unsent"
    BY <1>0, <1>1 DEF Invoke, Deliver
  <1>2. ASSUME NEW w \in Workers, RecordStep(w)
        PROVE  /\ queueVars' = queueVars
               /\ \A a \in Alerts : verdict[a] # None => verdict'[a] = verdict[a]
    <2>1. CASE PutVerdict(w) \/ PutAnswerLost(w)
      BY <1>0, <2>1 DEF PutVerdict, PutAnswerLost
    <2>2. CASE ~(PutVerdict(w) \/ PutAnswerLost(w))
      BY <1>2, <2>2
      DEF RecordStep, TakeRecord, AlreadyTriaged, NoVerdictSeen, AcquireSlot,
          SlotAnswerLost, CapReached, RunModel, ModelRaises, Decline, VerdictTaken,
          MarkTriaged, MarkRaises, RecordFails
    <2> QED BY <2>1, <2>2
  <1>3. ASSUME NEW w \in Workers, ReturnBatch(w) \/ Crash(w)
        PROVE  /\ body' = body /\ verdict' = verdict
               /\ \A m \in Messages : sqs[m] # "unsent" <=> sqs'[m] # "unsent"
    BY <1>0, <1>3 DEF ReturnBatch, Crash, Delete
  <1>4. ASSUME NEW m \in Messages,
               VisibilityTimeout(m) \/ DuplicateDelivery(m) \/ Redrive(m)
        PROVE  /\ body' = body /\ verdict' = verdict
               /\ \A n \in Messages : sqs[n] # "unsent" <=> sqs'[n] # "unsent"
    BY <1>0, <1>4
    DEF VisibilityTimeout, DuplicateDelivery, Redrive, Reappear, DeadLetter
  <1>5. CASE NextDay
    BY <1>5 DEF NextDay
  <1> QED BY <1>1, <1>2, <1>3, <1>4, <1>5 DEF WorkerNext

\* A record that leaves stays held, in done or failed, until the batch returns.
LEMMA ReturnsHeld ==
    ASSUME InvocationTypeOK, NEW w \in Workers, cur[w] \in Messages,
           Returns(w) \/ Raises(w), RecordInHand
    PROVE  /\ \A x \in Workers : Held(x)' = Held(x)
           /\ RecordInHand'
  <1> USE NoneAssumption DEF InvocationTypeOK, Leave, Goto
  <1>1. /\ cur'[w] = None /\ todo'[w] = todo[w]
        /\ done'[w] \cup failed'[w] = done[w] \cup failed[w] \cup {cur[w]}
    BY DEF Returns, Raises
  <1>2. Held(w)' = Held(w) BY <1>1 DEF Held
  <1>3. ASSUME NEW x \in Workers, x # w
        PROVE  /\ Held(x)' = Held(x)
               /\ pc'[x] = pc[x] /\ cur'[x] = cur[x]
    BY <1>3 DEF Returns, Raises, Held
  <1>4. pc'[w] = "next" BY DEF Returns, Raises
  <1> QED BY <1>2, <1>3, <1>4 DEF RecordInHand, RecordSteps

\* An invocation that ends holds nothing, and the others hold what they held.
LEMMA EndsHeld ==
    ASSUME InvocationTypeOK, NEW w \in Workers, Ends(w), RecordInHand
    PROVE  /\ Held(w)' = {}
           /\ \A x \in Workers : x # w => Held(x)' = Held(x)
           /\ RecordInHand'
  BY DEF InvocationTypeOK, Ends, Held, RecordInHand, RecordSteps

\* A step on a record takes a record up, lets the one in hand leave, or works
\* on it without moving any record.
LEMMA StepShape ==
    ASSUME InvocationTypeOK, NEW w \in Workers, RecordStep(w)
    PROVE  /\ UNCHANGED queueVars
           /\ \/ \E m \in Messages : TakeRecord(w, m)
              \/ /\ pc[w] \in RecordSteps
                 /\ \/ Returns(w) \/ Raises(w)
                    \/ /\ UNCHANGED <<todo, cur, failed, done>>
                       /\ \A x \in Workers : x # w => pc'[x] = pc[x]
  BY DEF InvocationTypeOK, RecordStep, TakeRecord, AlreadyTriaged, NoVerdictSeen,
         AcquireSlot, SlotAnswerLost, CapReached, RunModel, ModelRaises, Decline,
         PutVerdict, PutAnswerLost, VerdictTaken, MarkTriaged, MarkRaises,
         RecordFails, Goto, RecordSteps, invocationVars

\* Whatever an invocation holds was sent: deliveries hand out sent messages only
\* and no step unsends one.
LEMMA RecordInvStep == ASSUME WorkerInv, WorkerNext PROVE RecordInv'
  <1>0. RecordInv /\ InvocationTypeOK /\ SharedTypeOK
    BY DEF WorkerInv, WorkerAloneTypeOK, WorkerTypeOK
  <1>1. SentHasBody'
    BY <1>0, Persistence DEF RecordInv, SentHasBody
  <1>2. ASSUME NEW w \in Workers, NEW batch \in SUBSET Messages, Invoke(w, batch)
        PROVE  HeldIsSent' /\ RecordInHand'
    <2>1. \A x \in Workers : Held(x)' \subseteq Held(x) \cup batch
      BY <1>0, <1>2 DEF Invoke, Held, InvocationTypeOK
    <2>2. \A m \in batch : sqs[m] # "unsent"
      BY <1>2 DEF Invoke, Deliver
    <2>3. RecordInHand'
      BY <1>0, <1>2
      DEF Invoke, Goto, RecordInv, RecordInHand, InvocationTypeOK, RecordSteps
    <2>4. \A x \in Workers : Held(x) \subseteq Messages
      BY <1>0 DEF InvocationTypeOK, Held
    <2> QED
      BY <1>0, <2>1, <2>2, <2>3, <2>4, Persistence DEF RecordInv, HeldIsSent
  <1>3. ASSUME NEW w \in Workers, RecordStep(w)
        PROVE  HeldIsSent' /\ RecordInHand'
    <2>1. UNCHANGED queueVars BY <1>0, <1>3, StepShape
    <2>2. CASE \E m \in Messages : TakeRecord(w, m)
      <3>1. PICK m \in Messages : TakeRecord(w, m) BY <2>2
      <3>2. Held(w)' \subseteq Held(w)
        BY <1>0, <3>1 DEF TakeRecord, Held, InvocationTypeOK
      <3>3. \A x \in Workers : x # w => Held(x)' = Held(x)
        BY <1>0, <3>1 DEF TakeRecord, Held, InvocationTypeOK
      <3>4. RecordInHand'
        BY <1>0, <3>1, NoneAssumption
        DEF TakeRecord, Goto, RecordInv, RecordInHand, InvocationTypeOK
      <3> QED BY <1>0, <2>1, <3>2, <3>3, <3>4 DEF RecordInv, HeldIsSent, queueVars
    <2>3. CASE pc[w] \in RecordSteps /\ (Returns(w) \/ Raises(w))
      <3>1. (\A x \in Workers : Held(x)' = Held(x)) /\ RecordInHand'
        BY <1>0, <2>3, RecordAtHand, ReturnsHeld DEF RecordInv
      <3> QED BY <1>0, <2>1, <3>1 DEF RecordInv, HeldIsSent, queueVars
    <2>4. CASE /\ pc[w] \in RecordSteps
               /\ UNCHANGED <<todo, cur, failed, done>>
               /\ \A x \in Workers : x # w => pc'[x] = pc[x]
      BY <1>0, <2>1, <2>4
      DEF RecordInv, HeldIsSent, RecordInHand, Held, queueVars
    <2> QED BY <1>0, <1>3, <2>2, <2>3, <2>4, StepShape
  <1>4. ASSUME NEW w \in Workers, ReturnBatch(w) \/ Crash(w)
        PROVE  HeldIsSent' /\ RecordInHand'
    <2>1. Ends(w) BY <1>4 DEF ReturnBatch, Crash
    <2>2. \A x \in Workers : Held(x)' \subseteq Held(x)
      BY <1>0, <2>1, EndsHeld DEF RecordInv
    <2>3. \A x \in Workers : Held(x) \subseteq Messages
      BY <1>0 DEF InvocationTypeOK, Held
    <2>4. HeldIsSent' BY <1>0, <2>2, <2>3, Persistence DEF RecordInv, HeldIsSent
    <2> QED BY <1>0, <2>1, <2>4, EndsHeld DEF RecordInv
  <1>5. ASSUME \/ NextDay
               \/ \E m \in Messages :
                      VisibilityTimeout(m) \/ DuplicateDelivery(m) \/ Redrive(m)
        PROVE  HeldIsSent' /\ RecordInHand'
    <2>1. UNCHANGED invocationVars
      BY <1>5
      DEF NextDay, VisibilityTimeout, DuplicateDelivery, Redrive, workerVars,
          invocationVars
    <2>2. RecordInHand' /\ \A x \in Workers : Held(x)' = Held(x)
      BY <1>0, <2>1 DEF invocationVars, RecordInv, RecordInHand, Held
    <2>3. \A x \in Workers : Held(x) \subseteq Messages
      BY <1>0 DEF InvocationTypeOK, Held
    <2> QED BY <1>0, <2>2, <2>3, Persistence DEF RecordInv, HeldIsSent
  <1>6. HeldIsSent' /\ RecordInHand'
    BY <1>2, <1>3, <1>4, <1>5 DEF WorkerNext
  <1> QED BY <1>1, <1>6 DEF RecordInv

\* What invocations know of verdicts stays true, so the status follows the
\* verdict and a batch deletes judged messages only.
LEMMA VerdictInvStep == ASSUME WorkerInv, WorkerNext PROVE VerdictInv'
  <1>0. /\ VerdictInv /\ RecordInv /\ InvocationTypeOK /\ SharedTypeOK
        /\ verdict \in [Alerts -> Verdicts \cup {None}]
    BY DEF WorkerInv, WorkerAloneTypeOK, WorkerTypeOK, TableTypeOK
  <1>1. /\ UNCHANGED body
        /\ \A a \in Alerts : verdict[a] # None => verdict'[a] # None
    BY Persistence
  <1>2. \A w \in Workers : pc[w] \in RecordSteps => AlertOf(w) \in Alerts
    BY RecordAtHand
  <1>3. \A w \in Workers : \A m \in Held(w) : m \in Messages /\ body[m] \in Alerts
    BY <1>0 DEF RecordInv, HeldIsSent, SentHasBody, Held, InvocationTypeOK
  <1>4. \A w \in Workers : cur'[w] = cur[w] => AlertOf(w)' = AlertOf(w)
    BY <1>1 DEF AlertOf
  <1> USE DEF VerdictInv, DoneHasVerdict, DraftAtPut, VerdictAtMark,
              TriagedHasVerdict, DeletedHasVerdict
  <1>5. ASSUME NEW w \in Workers, RecordStep(w)
        PROVE  VerdictInv'
    <2>0. UNCHANGED queueVars BY <1>0, <1>5, StepShape
    <2>1. DeletedHasVerdict' BY <1>0, <1>1, <2>0 DEF queueVars, RecordInv, SentHasBody
    <2>2. TriagedHasVerdict'
      <3>1. CASE MarkTriaged(w) \/ MarkRaises(w)
        BY <1>0, <1>1, <3>1 DEF MarkTriaged, MarkRaises, SharedTypeOK
      <3>2. CASE UNCHANGED status
        BY <1>0, <1>1, <3>2
      <3> QED
        BY <1>5, <3>1, <3>2
        DEF RecordStep, TakeRecord, AlreadyTriaged, NoVerdictSeen, AcquireSlot,
            SlotAnswerLost, CapReached, RunModel, ModelRaises, Decline, PutVerdict,
            PutAnswerLost, VerdictTaken, RecordFails
    <2>3. DoneHasVerdict'
      <3>1. CASE AlreadyTriaged(w) \/ VerdictTaken(w) \/ MarkTriaged(w)
        <4>1. pc[w] \in RecordSteps /\ verdict[AlertOf(w)] # None
          BY <1>0, <3>1 DEF AlreadyTriaged, VerdictTaken, MarkTriaged, RecordSteps
        <4>2. verdict'[body'[cur[w]]] # None
          BY <1>1, <1>2, <4>1 DEF AlertOf
        <4>3. done' = [done EXCEPT ![w] = @ \cup {cur[w]}]
          BY <3>1 DEF AlreadyTriaged, VerdictTaken, MarkTriaged, Returns
        <4>4. \A x \in Workers : \A m \in done[x] : verdict'[body'[m]] # None
          BY <1>0, <1>1, <1>3 DEF Held
        <4> QED BY <1>0, <4>2, <4>3, <4>4, <1>1 DEF InvocationTypeOK
      <3>2. CASE UNCHANGED done
        BY <1>0, <1>1, <1>3, <3>2 DEF Held
      <3> QED
        BY <1>5, <3>1, <3>2
        DEF RecordStep, TakeRecord, NoVerdictSeen, AcquireSlot, SlotAnswerLost,
            CapReached, RunModel, ModelRaises, Decline, PutVerdict, PutAnswerLost,
            MarkRaises, RecordFails, Raises, invocationVars
    <2>4. DraftAtPut'
      <3>1. CASE \E v \in ModelVerdicts : RunModel(w, v)
        BY <1>0, <3>1, WorkerAssumption DEF RunModel, Goto, InvocationTypeOK
      <3>2. CASE Decline(w)
        BY <1>0, <3>2, WorkerAssumption DEF Decline, Goto, InvocationTypeOK
      <3>3. CASE Returns(w) \/ Raises(w)
        BY <1>0, <3>3 DEF Returns, Raises, Leave, Goto, InvocationTypeOK
      <3>4. CASE /\ UNCHANGED draft
                 /\ \A x \in Workers : pc'[x] = "put" => pc[x] = "put"
        BY <1>0, <3>4
      <3> QED
        BY <1>0, <1>5, <3>1, <3>2, <3>3, <3>4
        DEF RecordStep, TakeRecord, AlreadyTriaged, NoVerdictSeen, AcquireSlot,
            SlotAnswerLost, CapReached, ModelRaises, PutVerdict, PutAnswerLost,
            VerdictTaken, MarkTriaged, MarkRaises, RecordFails, Goto,
            InvocationTypeOK, invocationVars
    <2>5. VerdictAtMark'
      <3>1. CASE PutVerdict(w)
        <4>1. verdict'[AlertOf(w)] # None /\ UNCHANGED cur /\ pc[w] \in RecordSteps
          BY <1>0, <1>2, <3>1 DEF PutVerdict, RecordSteps
        <4>2. \A x \in Workers : x # w => pc'[x] = pc[x]
          BY <1>0, <3>1 DEF PutVerdict, Goto, InvocationTypeOK
        <4> QED BY <1>0, <1>1, <1>2, <4>1, <4>2 DEF AlertOf, RecordSteps
      <3>2. CASE Returns(w) \/ Raises(w)
        BY <1>0, <1>1, <1>2, <3>2
        DEF Returns, Raises, Leave, Goto, InvocationTypeOK, AlertOf, RecordSteps
      <3>3. CASE \A x \in Workers :
                    pc'[x] = "mark" => pc[x] = "mark" /\ cur'[x] = cur[x]
        BY <1>0, <1>1, <1>2, <3>3 DEF AlertOf, RecordSteps
      <3> QED
        BY <1>0, <1>5, <3>1, <3>2, <3>3
        DEF RecordStep, TakeRecord, AlreadyTriaged, NoVerdictSeen, AcquireSlot,
            SlotAnswerLost, CapReached, RunModel, ModelRaises, Decline,
            PutAnswerLost, VerdictTaken, MarkTriaged, MarkRaises, RecordFails, Goto,
            InvocationTypeOK, invocationVars
    <2> QED BY <2>1, <2>2, <2>3, <2>4, <2>5
  <1>6. ASSUME NEW w \in Workers, NEW batch \in SUBSET Messages, Invoke(w, batch)
        PROVE  VerdictInv'
    <2>1. /\ UNCHANGED <<status, verdict, body, cur, done, draft>>
          /\ \A x \in Workers : pc'[x] \in RecordSteps => pc[x] = pc'[x]
          /\ \A m \in Messages : sqs'[m] = "deleted" => sqs[m] = "deleted"
      BY <1>0, <1>6
      DEF Invoke, Deliver, Goto, tableVars, InvocationTypeOK, SharedTypeOK, RecordSteps
    <2> QED BY <1>0, <2>1 DEF AlertOf, RecordSteps
  <1>7. ASSUME NEW w \in Workers, ReturnBatch(w) \/ Crash(w)
        PROVE  VerdictInv'
    <2>1. /\ UNCHANGED <<status, verdict, body>>
          /\ Ends(w)
      BY <1>7 DEF ReturnBatch, Crash, Delete, tableVars, queueVars
    <2>2. DoneHasVerdict' /\ DraftAtPut' /\ VerdictAtMark'
      BY <1>0, <2>1 DEF Ends, InvocationTypeOK, AlertOf
    <2>3. \A m \in Messages : sqs'[m] = "deleted" => sqs[m] = "deleted" \/ m \in done[w]
      BY <1>0, <1>7 DEF ReturnBatch, Crash, Delete, queueVars, SharedTypeOK
    <2> QED BY <1>0, <2>1, <2>2, <2>3
  <1>8. ASSUME \/ NextDay
               \/ \E m \in Messages :
                      VisibilityTimeout(m) \/ DuplicateDelivery(m) \/ Redrive(m)
        PROVE  VerdictInv'
    <2>1. /\ UNCHANGED <<status, verdict, body, pc, cur, done, draft>>
          /\ \A m \in Messages : sqs'[m] = "deleted" => sqs[m] = "deleted"
      BY <1>0, <1>8
      DEF NextDay, VisibilityTimeout, DuplicateDelivery, Redrive, Reappear,
          DeadLetter, SharedTypeOK, queueVars, workerVars, tableVars, invocationVars
    <2> QED BY <1>0, <2>1 DEF AlertOf
  <1> QED BY <1>5, <1>6, <1>7, <1>8 DEF WorkerNext

\* An invocation declines, and holds the placeholder, only after some day's slots
\* were all taken; slots are never given back.
LEMMA CapInvStep == ASSUME WorkerInv, WorkerNext PROVE CapInv'
  <1>0. /\ CapInv /\ InvocationTypeOK /\ TableTypeOK
    BY DEF WorkerInv, WorkerAloneTypeOK, WorkerTypeOK
  <1> USE DEF CapInv, DecliningMeansExhausted, DeclinedMeansExhausted
  <1>1. ASSUME NEW w \in Workers, RecordStep(w)
        PROVE  CapInv'
    <2>1. CASE AcquireSlot(w) \/ SlotAnswerLost(w)
      <3>1. Exhausted => Exhausted'
        <4>1. UNCHANGED day /\ \A d \in Days : slots'[d] >= slots[d]
          BY <1>0, <2>1 DEF AcquireSlot, SlotAnswerLost, TableTypeOK
        <4>2. slots \in [Days -> Nat] /\ slots' \in [Days -> Nat]
          BY <1>0, <2>1 DEF AcquireSlot, SlotAnswerLost, TableTypeOK
        <4>3. 0 .. day \subseteq Days
          BY <1>0, WorkerAssumption DEF TableTypeOK, Days
        <4> QED BY <4>1, <4>2, <4>3, WorkerAssumption DEF Exhausted
      <3>2. \A x \in Workers : pc'[x] = "decline" => pc[x] = "decline"
        BY <1>0, <2>1
        DEF AcquireSlot, SlotAnswerLost, Goto, invocationVars, InvocationTypeOK
      <3>3. UNCHANGED <<verdict, draft>>
        BY <2>1 DEF AcquireSlot, SlotAnswerLost, invocationVars
      <3> QED BY <1>0, <3>1, <3>2, <3>3
    <2>2. CASE CapReached(w)
      <3>1. Exhausted
        BY <1>0, <2>2, WorkerAssumption
        DEF CapReached, SlotFree, Exhausted, TableTypeOK, Days
      <3> QED BY <2>2, <3>1 DEF CapReached, Exhausted, tableVars
    <2>3. CASE /\ UNCHANGED <<slots, day>>
               /\ ~CapReached(w) /\ ~AcquireSlot(w) /\ ~SlotAnswerLost(w)
      <3>1. Exhausted' <=> Exhausted BY <2>3 DEF Exhausted
      <3>2. CASE PutVerdict(w) \/ PutAnswerLost(w)
        BY <1>0, <3>1, <3>2
        DEF PutVerdict, PutAnswerLost, Goto, TableTypeOK, InvocationTypeOK, invocationVars
      <3>3. CASE \E v \in ModelVerdicts : RunModel(w, v)
        BY <1>0, <3>1, <3>3, WorkerAssumption DEF RunModel, Goto, InvocationTypeOK
      <3>4. CASE Decline(w)
        BY <1>0, <3>1, <3>4 DEF Decline, Goto, InvocationTypeOK, tableVars
      <3>5. CASE (Returns(w) \/ Raises(w)) /\ UNCHANGED verdict
        BY <1>0, <3>1, <3>5, WorkerAssumption
        DEF Returns, Raises, Leave, Goto, InvocationTypeOK
      <3>6. CASE (\E m \in Messages : TakeRecord(w, m)) \/ NoVerdictSeen(w)
        BY <1>0, <3>1, <3>6
        DEF TakeRecord, NoVerdictSeen, Goto, InvocationTypeOK, tableVars
      <3> QED
        BY <1>1, <2>3, <3>2, <3>3, <3>4, <3>5, <3>6
        DEF RecordStep, AlreadyTriaged, ModelRaises, VerdictTaken, MarkTriaged,
            MarkRaises, RecordFails, tableVars
    <2> QED
      BY <1>1, <2>1, <2>2, <2>3
      DEF RecordStep, TakeRecord, AlreadyTriaged, NoVerdictSeen, RunModel,
          ModelRaises, Decline, PutVerdict, PutAnswerLost, VerdictTaken,
          MarkTriaged, MarkRaises, RecordFails, tableVars
  <1>2. CASE NextDay
    <2>1. Exhausted => Exhausted'
      BY <1>0, <1>2, WorkerAssumption DEF NextDay, Exhausted, TableTypeOK, Days
    <2> QED BY <1>0, <1>2, <2>1 DEF NextDay, invocationVars
  <1>3. ASSUME \/ \E w \in Workers :
                     \/ \E batch \in SUBSET Messages : Invoke(w, batch)
                     \/ ReturnBatch(w) \/ Crash(w)
               \/ \E m \in Messages :
                     VisibilityTimeout(m) \/ DuplicateDelivery(m) \/ Redrive(m)
        PROVE  CapInv'
    <2>1. UNCHANGED tableVars
      BY <1>3
      DEF Invoke, ReturnBatch, Crash, VisibilityTimeout, DuplicateDelivery, Redrive,
          workerVars, tableVars
    <2>2. Exhausted' <=> Exhausted BY <2>1 DEF Exhausted, tableVars
    <2>3. \A x \in Workers :
             pc'[x] = "decline" \/ draft'[x] = CapVerdict
                => pc[x] = "decline" \/ draft[x] = CapVerdict
      BY <1>0, <1>3, WorkerAssumption
      DEF Invoke, ReturnBatch, Crash, Ends, Goto, VisibilityTimeout, DuplicateDelivery,
          Redrive, workerVars, invocationVars, InvocationTypeOK
    <2> QED BY <1>0, <2>1, <2>2, <2>3 DEF tableVars
  <1> QED BY <1>1, <1>2, <1>3 DEF WorkerNext

\* The callers of a day are finitely many, and so is every part of them.
LEMMA CallersCount ==
    ASSUME NEW d, NEW S \in SUBSET Callers(d)
    PROVE  /\ IsFiniteSet(Callers(d)) /\ Cardinality(Callers(d)) \in Nat
           /\ Cardinality(S) \in Nat /\ Cardinality(S) <= Cardinality(Callers(d))
  <1>1. Callers(d) \subseteq Workers BY DEF Callers
  <1>2. IsFiniteSet(Callers(d)) BY <1>1, WorkersFinite, FS_Subset
  <1>3. IsFiniteSet(S) /\ Cardinality(S) <= Cardinality(Callers(d))
    BY <1>2, FS_Subset
  <1> QED BY <1>2, <1>3, FS_CardinalityType

\* Each call uses up the slot of its caller: callers and calls together never
\* outnumber the slots taken.
LEMMA CallsWithinCapStep == ASSUME WorkerInv, WorkerNext PROVE CallsWithinCap'
  <1>0. CallsWithinCap /\ InvocationTypeOK /\ TableTypeOK
    BY DEF WorkerInv, WorkerAloneTypeOK, WorkerTypeOK
  <1> DEFINE Limit == IF DailyCap = 0 THEN 1 ELSE DailyCap
  <1>1. ASSUME UNCHANGED <<slots, calls>>,
               \A d \in Days : Callers(d)' \subseteq Callers(d)
        PROVE  CallsWithinCap'
    <2> SUFFICES ASSUME NEW d \in Days
                 PROVE  /\ calls'[d] + Cardinality(Callers(d)') <= slots'[d]
                        /\ slots'[d] <= Limit
      BY DEF CallsWithinCap
    <2>1. /\ Cardinality(Callers(d)') \in Nat /\ Cardinality(Callers(d)) \in Nat
          /\ Cardinality(Callers(d)') <= Cardinality(Callers(d))
      BY <1>1, CallersCount
    <2>2. calls[d] \in Nat /\ slots[d] \in Nat BY <1>0 DEF TableTypeOK
    <2> QED BY <1>0, <1>1, <2>1, <2>2 DEF CallsWithinCap
  <1>2. ASSUME NEW w \in Workers, AcquireSlot(w) \/ SlotAnswerLost(w)
        PROVE  CallsWithinCap'
    <2> SUFFICES ASSUME NEW d \in Days
                 PROVE  /\ calls'[d] + Cardinality(Callers(d)') <= slots'[d]
                        /\ slots'[d] <= Limit
      BY DEF CallsWithinCap
    <2>1. Callers(d)' \subseteq Callers(d) \cup (IF d = day THEN {w} ELSE {})
      BY <1>0, <1>2
      DEF Callers, AcquireSlot, SlotAnswerLost, Goto, InvocationTypeOK, invocationVars
    <2>2. calls' = calls /\ slots' = [slots EXCEPT ![day] = @ + 1] /\ SlotFree(day)
      BY <1>2 DEF AcquireSlot, SlotAnswerLost
    <2>3. /\ IsFiniteSet(Callers(d)) /\ Cardinality(Callers(d)) \in Nat
          /\ Cardinality(Callers(d)') \in Nat
          /\ Cardinality(Callers(d)')
               <= Cardinality(Callers(d)) + (IF d = day THEN 1 ELSE 0)
      <3>1. IsFiniteSet(Callers(d)) /\ Cardinality(Callers(d)) \in Nat
        BY CallersCount
      <3>2. CASE d = day
        <4> DEFINE S == Callers(d) \cup {w}
        <4>0. /\ IsFiniteSet(S)
              /\ Cardinality(S) = IF w \in Callers(d) THEN Cardinality(Callers(d))
                                  ELSE Cardinality(Callers(d)) + 1
          BY <3>1, FS_AddElement
        <4> HIDE DEF S
        <4>1. IsFiniteSet(S) /\ Cardinality(S) <= Cardinality(Callers(d)) + 1
          BY <3>1, <4>0
        <4>2. Callers(d)' \subseteq S BY <2>1, <3>2 DEF S
        <4>3. IsFiniteSet(Callers(d)') /\ Cardinality(Callers(d)') <= Cardinality(S)
          BY <4>1, <4>2, FS_Subset
        <4> QED BY <3>1, <3>2, <4>1, <4>3, FS_CardinalityType
      <3>3. CASE d # day
        BY <2>1, <3>1, <3>3, CallersCount
      <3> QED BY <3>2, <3>3
    <2>4. calls[d] \in Nat /\ slots[d] \in Nat /\ day \in Days /\ slots \in [Days -> Nat]
      BY <1>0 DEF TableTypeOK
    <2> QED
      BY <1>0, <2>2, <2>3, <2>4, WorkerAssumption DEF CallsWithinCap, SlotFree
  <1>3. ASSUME NEW w \in Workers,
               (\E v \in ModelVerdicts : RunModel(w, v)) \/ ModelRaises(w)
        PROVE  CallsWithinCap'
    <2> SUFFICES ASSUME NEW d \in Days
                 PROVE  /\ calls'[d] + Cardinality(Callers(d)') <= slots'[d]
                        /\ slots'[d] <= Limit
      BY DEF CallsWithinCap
    <2>1. /\ slots' = slots /\ calls' = [calls EXCEPT ![slotDay[w]] = @ + 1]
          /\ pc[w] = "run" /\ slotDay[w] \in Days
      BY <1>0, <1>3 DEF RunModel, ModelRaises, InvocationTypeOK
    <2>2. Callers(d)' \subseteq Callers(d) \ {w}
      BY <1>0, <1>3
      DEF Callers, RunModel, ModelRaises, Raises, Leave, Goto, InvocationTypeOK
    <2>3. w \in Callers(d) <=> slotDay[w] = d
      BY <2>1 DEF Callers
    <2>4. /\ IsFiniteSet(Callers(d)) /\ Cardinality(Callers(d)) \in Nat
      BY CallersCount
    <2>5. /\ IsFiniteSet(Callers(d) \ {w})
          /\ Cardinality(Callers(d) \ {w})
               = Cardinality(Callers(d)) - (IF slotDay[w] = d THEN 1 ELSE 0)
      BY <2>3, <2>4, FS_RemoveElement
    <2>6. /\ Cardinality(Callers(d)') <= Cardinality(Callers(d) \ {w})
          /\ Cardinality(Callers(d)') \in Nat
      BY <2>2, <2>5, FS_Subset, FS_CardinalityType
    <2>7. calls[d] \in Nat /\ slots[d] \in Nat /\ calls \in [Days -> Nat]
      BY <1>0 DEF TableTypeOK
    <2>8. calls'[d] = calls[d] + (IF slotDay[w] = d THEN 1 ELSE 0)
      BY <2>1, <2>7
    <2> QED BY <1>0, <2>1, <2>4, <2>5, <2>6, <2>7, <2>8 DEF CallsWithinCap
  <1>4. ASSUME NEW w \in Workers, RecordStep(w),
               ~AcquireSlot(w), ~SlotAnswerLost(w),
               ~\E v \in ModelVerdicts : RunModel(w, v), ~ModelRaises(w)
        PROVE  CallsWithinCap'
    <2>1. UNCHANGED <<slots, calls>>
      BY <1>4
      DEF RecordStep, TakeRecord, AlreadyTriaged, NoVerdictSeen, CapReached, Decline,
          PutVerdict, PutAnswerLost, VerdictTaken, MarkTriaged, MarkRaises,
          RecordFails, tableVars
    <2>2. \A x \in Workers : pc'[x] = "run" => pc[x] = "run" /\ slotDay'[x] = slotDay[x]
      BY <1>0, <1>4
      DEF RecordStep, TakeRecord, AlreadyTriaged, NoVerdictSeen, CapReached, Decline,
          PutVerdict, PutAnswerLost, VerdictTaken, MarkTriaged, MarkRaises,
          RecordFails, Returns, Raises, Leave, Goto, InvocationTypeOK, invocationVars
    <2> QED BY <1>1, <2>1, <2>2 DEF Callers
  <1>5. ASSUME \/ \E w \in Workers :
                     \/ \E batch \in SUBSET Messages : Invoke(w, batch)
                     \/ ReturnBatch(w) \/ Crash(w)
               \/ \E m \in Messages :
                     VisibilityTimeout(m) \/ DuplicateDelivery(m) \/ Redrive(m)
               \/ NextDay
        PROVE  CallsWithinCap'
    <2>1. UNCHANGED <<slots, calls>>
      BY <1>5
      DEF Invoke, ReturnBatch, Crash, VisibilityTimeout, DuplicateDelivery, Redrive,
          NextDay, workerVars, tableVars
    <2>2. \A x \in Workers : pc'[x] = "run" => pc[x] = "run" /\ slotDay'[x] = slotDay[x]
      BY <1>0, <1>5
      DEF Invoke, ReturnBatch, Crash, Ends, Goto, VisibilityTimeout, DuplicateDelivery,
          Redrive, NextDay, workerVars, invocationVars, InvocationTypeOK
    <2> QED BY <1>1, <2>1, <2>2 DEF Callers
  <1> QED BY <1>2, <1>3, <1>4, <1>5 DEF WorkerNext, RecordStep

\* The arrival of an alert, under a message id nobody holds yet.
LEMMA ArriveStep ==
    ASSUME WorkerInv, NEW a \in Alerts, NEW m \in Messages, Arrive(a, m)
    PROVE  WorkerInv'
  <1> USE DEF Arrive, Send, workerVars, tableVars, invocationVars
  <1>0. SharedTypeOK /\ TableTypeOK /\ InvocationTypeOK /\ RecordInv /\ VerdictInv
    BY DEF WorkerInv, WorkerAloneTypeOK, WorkerTypeOK
  <1>1. WorkerAloneTypeOK'
    BY <1>0
    DEF WorkerAloneTypeOK, SharedTypeOK, WorkerTypeOK, TableTypeOK, InvocationTypeOK,
        Statuses, Places
  <1>2. \A w \in Workers : /\ Held(w)' = Held(w)
                           /\ m \notin Held(w) /\ Held(w) \subseteq Messages
    BY <1>0 DEF Held, RecordInv, HeldIsSent, InvocationTypeOK
  <1>3. \A n \in Messages : n # m => sqs'[n] = sqs[n] /\ body'[n] = body[n]
    BY <1>0 DEF SharedTypeOK
  <1>4. /\ SentHasBody' /\ RecordInHand'
        /\ HeldIsSent'
    <2>1. SentHasBody' BY <1>0, <1>3 DEF SharedTypeOK, RecordInv, SentHasBody
    <2>2. RecordInHand' BY <1>0 DEF RecordInv, RecordInHand
    <2>3. HeldIsSent' BY <1>0, <1>2, <1>3 DEF RecordInv, HeldIsSent
    <2> QED BY <2>1, <2>2, <2>3
  <1>5. VerdictInv'
    <2> USE DEF VerdictInv
    <2>1. DoneHasVerdict' BY <1>0, <1>2, <1>3 DEF DoneHasVerdict, Held
    <2>2. DraftAtPut' BY <1>0 DEF DraftAtPut
    <2>3. VerdictAtMark'
      <3>1. \A w \in Workers : pc[w] = "mark" => cur[w] \in Held(w)
        BY <1>0, NoneAssumption DEF RecordInv, RecordInHand, RecordSteps, Held
      <3> QED BY <1>0, <1>2, <1>3, <3>1 DEF VerdictAtMark, AlertOf
    <2>4. TriagedHasVerdict' BY <1>0 DEF TriagedHasVerdict, SharedTypeOK
    <2>5. DeletedHasVerdict' BY <1>0, <1>3 DEF DeletedHasVerdict, SharedTypeOK
    <2> QED BY <2>1, <2>2, <2>3, <2>4, <2>5
  <1>6. CapInv' /\ CallsWithinCap'
    BY DEF WorkerInv, CapInv, DecliningMeansExhausted, DeclinedMeansExhausted,
           Exhausted, CallsWithinCap, Callers
  <1> QED BY <1>1, <1>4, <1>5, <1>6 DEF WorkerInv, RecordInv

\* A step of something else.
LEMMA StutterStep == WorkerInv /\ UNCHANGED wvars => WorkerInv'
  <1> SUFFICES ASSUME WorkerInv, UNCHANGED wvars PROVE WorkerInv' OBVIOUS
  <1> USE DEF wvars, queueVars, workerVars, tableVars, invocationVars
  <1>1. WorkerAloneTypeOK'
    BY DEF WorkerInv, WorkerAloneTypeOK, SharedTypeOK, WorkerTypeOK, TableTypeOK,
           InvocationTypeOK
  <1>2. RecordInv'
    BY DEF WorkerInv, RecordInv, SentHasBody, HeldIsSent, RecordInHand, Held
  <1>3. VerdictInv'
    BY DEF WorkerInv, VerdictInv, DoneHasVerdict, DraftAtPut, VerdictAtMark, AlertOf,
           TriagedHasVerdict, DeletedHasVerdict
  <1>4. CapInv' /\ CallsWithinCap'
    BY DEF WorkerInv, CapInv, DecliningMeansExhausted, DeclinedMeansExhausted,
           Exhausted, CallsWithinCap, Callers
  <1> QED BY <1>1, <1>2, <1>3, <1>4 DEF WorkerInv

-------------------------------------------------------------------------------
(* Theorems.                                                                *)

\* WorkerInv holds in every reachable state, for any number of alerts, messages
\* and invocations, any batch size, cap and receive count.
THEOREM WorkerInvariant == WorkerSpec => []WorkerInv
  <1>1. WorkerAloneInit => WorkerInv BY InitInv
  <1>2. WorkerInv /\ [WorkerAlone]_wvars => WorkerInv'
    <2>1. WorkerInv /\ WorkerNext => WorkerInv'
      BY TypeStep, RecordInvStep, VerdictInvStep, CapInvStep, CallsWithinCapStep
      DEF WorkerInv
    <2> QED BY <2>1, ArriveStep, StutterStep DEF WorkerAlone
  <1> QED BY <1>1, <1>2, PTL DEF WorkerSpec

\* Every variable has its type, always.
THEOREM TypeCorrect == WorkerSpec => []WorkerAloneTypeOK
  <1>1. WorkerInv => WorkerAloneTypeOK BY DEF WorkerInv
  <1> QED BY <1>1, WorkerInvariant, PTL

\* The console never shows an alert as triaged that has no verdict: no order of
\* the two writes of concurrent invocations, failures and crashes reaches that.
THEOREM StatusFollowsVerdict == WorkerSpec => []TriagedHasVerdict
  <1>1. WorkerInv => TriagedHasVerdict BY DEF WorkerInv, VerdictInv
  <1> QED BY <1>1, WorkerInvariant, PTL

\* The consumer deletes the messages of judged alerts only, whatever else its
\* batch held and however often a message was delivered.
THEOREM NothingFallsThrough == WorkerSpec => []DeletedHasVerdict
  <1>1. WorkerInv => DeletedHasVerdict BY DEF WorkerInv, VerdictInv
  <1> QED BY <1>1, WorkerInvariant, PTL

\* Live model calls stay within the cap, for any number of invocations racing
\* for the last slot and across midnight.
THEOREM SpendBounded == WorkerSpec => []CallsWithinCap
  <1>1. WorkerInv => CallsWithinCap BY DEF WorkerInv
  <1> QED BY <1>1, WorkerInvariant, PTL

\* No alert is declined for the cap while every day's slots have room.
THEOREM DeclinedOnlyWhenSpent == WorkerSpec => []DeclinedMeansExhausted
  <1>1. WorkerInv => DeclinedMeansExhausted BY DEF WorkerInv, CapInv
  <1> QED BY <1>1, WorkerInvariant, PTL

\* No step changes or removes a verdict.
THEOREM VerdictFinalHolds == WorkerSpec => VerdictFinal
  <1>1. WorkerInv /\ [WorkerAlone]_wvars
           => [\A a \in Alerts : verdict[a] # None => verdict'[a] = verdict[a]]_wvars
    <2>1. ASSUME WorkerInv, WorkerNext
          PROVE  \A a \in Alerts : verdict[a] # None => verdict'[a] = verdict[a]
      BY <2>1, Persistence
    <2>2. ASSUME NEW a \in Alerts, NEW m \in Messages, Arrive(a, m)
          PROVE  verdict' = verdict
      BY <2>2 DEF Arrive, workerVars, tableVars
    <2> QED BY <2>1, <2>2 DEF WorkerAlone
  <1> QED BY <1>1, WorkerInvariant, PTL DEF WorkerSpec, VerdictFinal
===============================================================================
