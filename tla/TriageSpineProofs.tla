--------------------------- MODULE TriageSpineProofs ---------------------------
(***************************************************************************)
(* Proofs about the spine put together (TriageSpine).  The invariants of   *)
(* the worker and of ingest hold in the composition as well: the steps of  *)
(* each are what the other's lemmas allow the rest of the system to do.    *)
(* SpineInv adds what relates the two to the runs of replay-dlq, and each  *)
(* step of the spine is then a step of the ledger or none of its business. *)
(***************************************************************************)
EXTENDS TriageSpine, TriageWorkerProofs, IngestProofs

-------------------------------------------------------------------------------
(* The worker's invariant under the steps of ingest and of replay-dlq.      *)

\* A step of another component keeps the worker's invariant when it keeps what
\* was sent, triages nothing and deletes nothing on the consumer's behalf.
LEMMA WorkerOthersStep ==
    ASSUME WorkerInv, UNCHANGED workerVars, SharedTypeOK',
           \A m \in Messages : sqs[m] # "unsent" =>
               sqs'[m] # "unsent" /\ body'[m] = body[m],
           \A m \in Messages : sqs'[m] # "unsent" => body'[m] \in Alerts,
           \A m \in Messages : sqs'[m] = "deleted" => sqs[m] = "deleted",
           \A a \in Alerts : status'[a] = "triaged" => status[a] = "triaged"
    PROVE  WorkerInv'
  <1> USE DEF workerVars, tableVars, invocationVars
  <1>0. /\ SharedTypeOK /\ TableTypeOK /\ InvocationTypeOK /\ RecordInv /\ VerdictInv
        /\ CapInv /\ CallsWithinCap
    BY DEF WorkerInv, WorkerAloneTypeOK, WorkerTypeOK
  <1>1. WorkerAloneTypeOK'
    BY <1>0 DEF WorkerAloneTypeOK, WorkerTypeOK, TableTypeOK, InvocationTypeOK
  <1>2. \A w \in Workers : /\ Held(w)' = Held(w) /\ Held(w) \subseteq Messages
                           /\ \A m \in Held(w) : sqs[m] # "unsent"
    BY <1>0 DEF Held, RecordInv, HeldIsSent, InvocationTypeOK
  <1>3. RecordInv'
    <2>1. SentHasBody' BY DEF SentHasBody
    <2>2. RecordInHand' BY <1>0 DEF RecordInv, RecordInHand
    <2>3. HeldIsSent' BY <1>2 DEF HeldIsSent
    <2> QED BY <2>1, <2>2, <2>3 DEF RecordInv
  <1>4. VerdictInv'
    <2> USE DEF VerdictInv
    <2>1. DoneHasVerdict' BY <1>0, <1>2 DEF DoneHasVerdict, Held
    <2>2. DraftAtPut' BY <1>0 DEF DraftAtPut
    <2>3. VerdictAtMark'
      <3>1. \A w \in Workers : pc[w] = "mark" => cur[w] \in Held(w)
        BY <1>0, NoneAssumption DEF RecordInv, RecordInHand, RecordSteps, Held
      <3> QED BY <1>0, <1>2, <3>1 DEF VerdictAtMark, AlertOf
    <2>4. TriagedHasVerdict' BY <1>0 DEF TriagedHasVerdict
    <2>5. DeletedHasVerdict' BY <1>0 DEF DeletedHasVerdict
    <2> QED BY <2>1, <2>2, <2>3, <2>4, <2>5
  <1>5. CapInv' /\ CallsWithinCap'
    BY <1>0 DEF CapInv, DecliningMeansExhausted, DeclinedMeansExhausted, Exhausted,
                CallsWithinCap, Callers
  <1> QED BY <1>1, <1>3, <1>4, <1>5 DEF WorkerInv

\* The steps of ingest are such steps: it stores an alert as queued before any
\* message carries its id, so it takes no triaged status away and gives none.
LEMMA WorkerUnderIngest ==
    ASSUME WorkerInv, IngestInv, IngestNext, UNCHANGED workerVars
    PROVE  WorkerInv'
  <1>0. SharedTypeOK /\ IngestTypeOK /\ QueueInv /\ PayloadInv BY DEF IngestInv
  <1>1. /\ SharedTypeOK' /\ Stored \subseteq Stored' /\ QueueInv'
        /\ \A m \in Messages : body[m] # None => body'[m] = body[m]
    BY <1>0, IngestTypeStep, IngestQueueStep
  <1>2. \A m \in Messages : sqs[m] # "unsent" => body[m] # None
    BY NoneAssumption DEF WorkerInv, RecordInv, SentHasBody
  <1>3. /\ \A m \in Messages : sqs[m] # "unsent" => sqs'[m] = sqs[m]
        /\ \A m \in Messages : sqs'[m] # "unsent" /\ sqs'[m] # sqs[m] =>
              sqs'[m] = "visible" /\ body'[m] \in Alerts
        /\ \A a \in Alerts : status'[a] = "triaged" => status[a] = "triaged"
    <2>1. CASE UNCHANGED <<status, queueVars>> BY <2>1 DEF queueVars
    <2>2. CASE \E r \in Requests :
                 /\ rpc[r] = "put" /\ UNCHANGED queueVars
                 /\ status' = [status EXCEPT ![InHand(r)] = "queued"]
      BY <1>0, <2>2 DEF SharedTypeOK, queueVars
    <2>3. CASE \E r \in Requests : \E m \in Messages :
                 /\ rpc[r] = "send" /\ Send(m, InHand(r)) /\ UNCHANGED status
      <3>1. PICK r \in Requests, m \in Messages : Send(m, InHand(r)) /\ UNCHANGED status
        BY <2>3
      <3>2. InHand(r) \in Alerts BY <1>0, InHandFacts
      <3>3. /\ sqs[m] = "unsent" /\ sqs' = [sqs EXCEPT ![m] = "visible"]
            /\ body' = [body EXCEPT ![m] = InHand(r)]
        BY <3>1 DEF Send
      <3> QED BY <1>0, <3>1, <3>2, <3>3 DEF SharedTypeOK
    <2> QED BY <2>1, <2>2, <2>3, IngestEffect
  <1>4. \A m \in Messages : sqs'[m] # "unsent" => body'[m] \in Alerts
    <2>1. \A m \in Messages : sqs[m] # "unsent" => body[m] \in Alerts
      BY DEF WorkerInv, RecordInv, SentHasBody
    <2> QED BY <1>1, <1>2, <1>3, <2>1
  <1>5. \A m \in Messages : sqs[m] # "unsent" => sqs'[m] # "unsent" /\ body'[m] = body[m]
    BY <1>1, <1>2, <1>3
  <1>6. \A m \in Messages : sqs'[m] = "deleted" => sqs[m] = "deleted"
    BY <1>3
  <1> QED BY <1>1, <1>3, <1>4, <1>5, <1>6, WorkerOthersStep

-------------------------------------------------------------------------------
(* The steps of replay-dlq.                                                 *)

\* A run's copy carries the id of an alert that was sent before.
LEMMA SendCopyFacts ==
    ASSUME SpineInv, NEW o \in Operators, NEW m \in Messages, NEW n \in Messages,
           SendCopy(o, m, n)
    PROVE  /\ sqs[m] \in {"dlq", "moved"} /\ sqs[n] = "unsent" /\ body[m] \in Alerts
           /\ sqs' = [sqs EXCEPT ![n] = "visible"]
           /\ body' = [body EXCEPT ![n] = body[m]]
           /\ UNCHANGED <<receives, status>>
           /\ taken' = [taken EXCEPT ![o] = @ \ {m}] /\ copied' = [copied EXCEPT ![o] = m]
           /\ m \in taken[o] /\ copied[o] = None
  <1>1. sqs[m] \in {"dlq", "moved"}
    BY DEF SendCopy, SpineInv, ReplayHoldsDead
  <1>2. body[m] \in Alerts
    BY <1>1 DEF SpineInv, WorkerInv, RecordInv, SentHasBody
  <1> QED BY <1>1, <1>2 DEF SendCopy, Send

\* The original a run is about to delete is a sent message.
LEMMA DeleteOriginalFacts ==
    ASSUME SpineInv, NEW o \in Operators, DeleteOriginal(o)
    PROVE  /\ copied[o] \in Messages /\ sqs[copied[o]] \in {"dlq", "moved"}
           /\ sqs' = [sqs EXCEPT ![copied[o]] = "moved"]
           /\ copied' = [copied EXCEPT ![o] = None]
           /\ UNCHANGED <<status, body, receives, taken>>
  BY DEF DeleteOriginal, SpineInv, ReplayTypeOK, ReplayHoldsDead

\* What replay-dlq does to the shared state, step by step.
LEMMA ReplayEffect ==
    ASSUME SpineInv, ReplayNext
    PROVE  /\ SharedTypeOK' /\ ReplayTypeOK' /\ ReplayHoldsDead' /\ UnsentHasNoBody'
           /\ status' = status
           /\ \A m \in Messages : body[m] # None => body'[m] = body[m]
           /\ \A m \in Messages : body'[m] # None => \E n \in Messages : body[n] = body'[m]
           /\ \A m \in Messages : sqs[m] # "unsent" =>
                 sqs'[m] # "unsent" /\ body'[m] = body[m]
           /\ \A m \in Messages : sqs'[m] # "unsent" => body'[m] \in Alerts
           /\ \A m \in Messages : sqs'[m] = "deleted" => sqs[m] = "deleted"
  <1> USE DEF SharedTypeOK, ReplayTypeOK, ReplayHoldsDead, UnsentHasNoBody, queueVars
  <1>0. /\ SharedTypeOK /\ ReplayTypeOK /\ ReplayHoldsDead /\ UnsentHasNoBody
        /\ \A m \in Messages : sqs[m] # "unsent" => body[m] \in Alerts
    BY DEF SpineInv, IngestInv, QueueInv, WorkerInv, RecordInv, SentHasBody
  <1>1. ASSUME NEW o \in Operators,
               (\E batch \in SUBSET Messages : ReceiveDead(o, batch)) \/ ReplayDies(o)
        PROVE  /\ UNCHANGED <<status, queueVars>>
               /\ ReplayTypeOK' /\ ReplayHoldsDead'
    <2>1. CASE \E batch \in SUBSET Messages : ReceiveDead(o, batch)
      <3>1. PICK batch \in SUBSET Messages : ReceiveDead(o, batch) BY <2>1
      <3>2. /\ taken' = [taken EXCEPT ![o] = batch] /\ copied' = copied
            /\ UNCHANGED <<status, queueVars>> /\ \A m \in batch : sqs[m] = "dlq"
        BY <3>1 DEF ReceiveDead
      <3> QED BY <1>0, <3>2
    <2>2. CASE ReplayDies(o)
      BY <1>0, <2>2 DEF ReplayDies
    <2> QED BY <1>1, <2>1, <2>2
  <1>2. ASSUME NEW o \in Operators, NEW m \in Messages, NEW n \in Messages,
               SendCopy(o, m, n)
        PROVE  /\ SharedTypeOK' /\ ReplayTypeOK' /\ ReplayHoldsDead' /\ UnsentHasNoBody'
               /\ status' = status
               /\ sqs' = [sqs EXCEPT ![n] = "visible"] /\ sqs[n] = "unsent"
               /\ body' = [body EXCEPT ![n] = body[m]] /\ body[m] \in Alerts
    <2>1. /\ sqs[m] \in {"dlq", "moved"} /\ sqs[n] = "unsent" /\ body[m] \in Alerts
          /\ sqs' = [sqs EXCEPT ![n] = "visible"]
          /\ body' = [body EXCEPT ![n] = body[m]]
          /\ UNCHANGED <<receives, status>>
          /\ taken' = [taken EXCEPT ![o] = @ \ {m}] /\ copied' = [copied EXCEPT ![o] = m]
      BY <1>2, SendCopyFacts
    <2>2. SharedTypeOK' BY <1>0, <2>1 DEF Places
    <2>3. ReplayTypeOK' BY <1>0, <2>1
    <2>4. \A k \in Messages : sqs[k] # "unsent" => sqs'[k] = sqs[k]
      BY <1>0, <2>1
    <2>5. ReplayHoldsDead'
      <3> SUFFICES ASSUME NEW p \in Operators
                   PROVE  /\ \A k \in taken'[p] : sqs'[k] \in {"dlq", "moved"}
                          /\ copied'[p] # None => sqs'[copied'[p]] \in {"dlq", "moved"}
        OBVIOUS
      <3>1. taken'[p] \subseteq taken[p] /\ taken[p] \subseteq Messages BY <1>0, <2>1
      <3>2. copied'[p] = copied[p] \/ copied'[p] = m BY <1>0, <2>1
      <3>3. copied[p] # None => copied[p] \in Messages BY <1>0
      <3> QED BY <1>0, <2>1, <2>4, <3>1, <3>2, <3>3
    <2>6. UnsentHasNoBody' BY <1>0, <2>1
    <2> QED BY <2>1, <2>2, <2>3, <2>5, <2>6
  <1>3. ASSUME NEW o \in Operators, DeleteOriginal(o)
        PROVE  /\ SharedTypeOK' /\ ReplayTypeOK' /\ ReplayHoldsDead' /\ UnsentHasNoBody'
               /\ status' = status /\ body' = body
               /\ \A m \in Messages : sqs'[m] = sqs[m] \/ (sqs'[m] = "moved" /\ sqs[m] # "unsent")
    <2>1. /\ copied[o] \in Messages /\ sqs[copied[o]] \in {"dlq", "moved"}
          /\ sqs' = [sqs EXCEPT ![copied[o]] = "moved"]
          /\ copied' = [copied EXCEPT ![o] = None]
          /\ UNCHANGED <<status, body, receives, taken>>
      BY <1>3, DeleteOriginalFacts
    <2>2. SharedTypeOK' BY <1>0, <2>1 DEF Places
    <2>3. ReplayTypeOK' BY <1>0, <2>1
    <2>4. \A m \in Messages : sqs'[m] = sqs[m] \/ (sqs'[m] = "moved" /\ sqs[m] # "unsent")
      BY <1>0, <2>1
    <2>5. ReplayHoldsDead'
      <3> SUFFICES ASSUME NEW p \in Operators
                   PROVE  /\ \A k \in taken[p] : sqs'[k] \in {"dlq", "moved"}
                          /\ copied'[p] # None => sqs'[copied'[p]] \in {"dlq", "moved"}
        BY <2>1
      <3>1. taken[p] \subseteq Messages BY <1>0
      <3>2. copied'[p] = copied[p] \/ copied'[p] = None BY <1>0, <2>1
      <3>3. copied[p] # None => copied[p] \in Messages BY <1>0
      <3> QED BY <1>0, <2>4, <3>1, <3>2, <3>3
    <2>6. UnsentHasNoBody' BY <1>0, <2>1, <2>4
    <2> QED BY <2>1, <2>2, <2>3, <2>4, <2>5, <2>6
  <1>4. CASE \E o \in Operators :
                (\E batch \in SUBSET Messages : ReceiveDead(o, batch)) \/ ReplayDies(o)
    <2>1. /\ UNCHANGED <<status, sqs, body, receives>>
          /\ ReplayTypeOK' /\ ReplayHoldsDead'
      BY <1>1, <1>4
    <2> QED BY <1>0, <2>1
  <1>5. CASE \E o \in Operators : \E m, n \in Messages : SendCopy(o, m, n)
    <2>1. PICK m \in Messages, n \in Messages :
             /\ SharedTypeOK' /\ ReplayTypeOK' /\ ReplayHoldsDead' /\ UnsentHasNoBody'
             /\ status' = status
             /\ sqs' = [sqs EXCEPT ![n] = "visible"] /\ sqs[n] = "unsent"
             /\ body' = [body EXCEPT ![n] = body[m]] /\ body[m] \in Alerts
      BY <1>2, <1>5
    <2> QED BY <1>0, <2>1
  <1>6. CASE \E o \in Operators : DeleteOriginal(o)
    <2>1. /\ SharedTypeOK' /\ ReplayTypeOK' /\ ReplayHoldsDead' /\ UnsentHasNoBody'
          /\ status' = status /\ body' = body
          /\ \A m \in Messages : sqs'[m] = sqs[m] \/ (sqs'[m] = "moved" /\ sqs[m] # "unsent")
      BY <1>3, <1>6
    <2> QED BY <1>0, <2>1
  <1> QED BY <1>4, <1>5, <1>6 DEF ReplayNext

-------------------------------------------------------------------------------
(* The steps of the worker.                                                 *)

\* The only status the worker writes is that of a record's alert, once it has a
\* verdict.
LEMMA WorkerStatus ==
    ASSUME WorkerNext
    PROVE  \/ status' = status
           \/ \E w \in Workers :
                 pc[w] = "mark" /\ status' = [status EXCEPT ![AlertOf(w)] = "triaged"]
  BY DEF WorkerNext, Invoke, RecordStep, TakeRecord, AlreadyTriaged, NoVerdictSeen,
         AcquireSlot, SlotAnswerLost, CapReached, RunModel, ModelRaises, Decline,
         PutVerdict, PutAnswerLost, VerdictTaken, MarkTriaged, MarkRaises, RecordFails,
         ReturnBatch, Crash, VisibilityTimeout, DuplicateDelivery, Redrive, Reappear,
         DeadLetter, NextDay

\* The worker's side of the queue: dead letters stay, and a message that goes for
\* good carries a judged alert.
LEMMA WorkerQueue ==
    ASSUME WorkerInv, WorkerNext, NEW m \in Messages
    PROVE  /\ sqs[m] \in {"dlq", "moved"} => sqs'[m] = sqs[m]
           /\ Alive(m) => Alive(m)' \/ verdict[body[m]] # None
  <1>0. SharedTypeOK /\ InvocationTypeOK /\ DoneHasVerdict
    BY DEF WorkerInv, WorkerAloneTypeOK, WorkerTypeOK, VerdictInv
  <1>1. ASSUME NEW w \in Workers, NEW batch \in SUBSET Messages, Invoke(w, batch)
        PROVE  sqs'[m] = sqs[m] \/ (sqs[m] = "visible" /\ Alive(m)')
    BY <1>0, <1>1 DEF Invoke, Deliver, Alive
  <1>2. ASSUME NEW w \in Workers, RecordStep(w)
        PROVE  sqs' = sqs
    BY <1>0, <1>2, StepShape DEF queueVars
  <1>3. ASSUME NEW w \in Workers, ReturnBatch(w)
        PROVE  /\ sqs[m] \in {"dlq", "moved"} => sqs'[m] = sqs[m]
               /\ sqs'[m] = sqs[m] \/ verdict[body[m]] # None
    BY <1>0, <1>3 DEF ReturnBatch, Delete, DoneHasVerdict
  <1>4. ASSUME NEW w \in Workers, Crash(w)
        PROVE  sqs' = sqs
    BY <1>4 DEF Crash, queueVars
  <1>5. ASSUME NEW n \in Messages,
               VisibilityTimeout(n) \/ DuplicateDelivery(n) \/ Redrive(n)
        PROVE  sqs'[m] = sqs[m] \/ (sqs[m] \in {"visible", "inflight"} /\ Alive(m)')
    BY <1>0, <1>5
    DEF VisibilityTimeout, DuplicateDelivery, Redrive, Reappear, DeadLetter, Alive,
        SharedTypeOK
  <1>6. CASE NextDay BY <1>6 DEF NextDay, queueVars, Alive
  <1> QED BY <1>1, <1>2, <1>3, <1>4, <1>5, <1>6 DEF WorkerNext, Alive

\* The worker stores no alert and removes none, and triages what a message is about.
LEMMA WorkerKeepsStored ==
    ASSUME WorkerInv, IngestInv, WorkerNext
    PROVE  /\ \A a \in Alerts : status'[a] = "absent" <=> status[a] = "absent"
           /\ \A a \in Alerts : status'[a] = "triaged" =>
                 status[a] = "triaged" \/ \E m \in Messages : body[m] = a
  <1>0. SharedTypeOK /\ QueueInv BY DEF IngestInv
  <1>1. CASE \E w \in Workers :
                pc[w] = "mark" /\ status' = [status EXCEPT ![AlertOf(w)] = "triaged"]
    <2>1. PICK w \in Workers :
                pc[w] = "mark" /\ status' = [status EXCEPT ![AlertOf(w)] = "triaged"]
      BY <1>1
    <2>2. cur[w] \in Messages /\ AlertOf(w) \in Alerts /\ AlertOf(w) = body[cur[w]]
      BY <2>1, RecordAtHand DEF RecordSteps, AlertOf
    <2>3. status[AlertOf(w)] # "absent"
      BY <1>0, <2>2, NoneAssumption DEF QueueInv, BodyIsStored, Stored
    <2>4. \A a \in Alerts :
             status'[a] = IF a = AlertOf(w) THEN "triaged" ELSE status[a]
      BY <1>0, <2>1 DEF SharedTypeOK
    <2> QED BY <2>2, <2>3, <2>4
  <1>2. CASE status' = status BY <1>2
  <1> QED BY <1>1, <1>2, WorkerStatus

\* A step of the worker keeps the invariant of ingest.
LEMMA IngestUnderWorker ==
    ASSUME WorkerInv, IngestInv, WorkerNext, UNCHANGED ingestVars
    PROVE  IngestInv'
  <1>0. /\ SharedTypeOK /\ QueueInv /\ body' = body /\ SharedTypeOK'
        /\ \A m \in Messages : sqs[m] # "unsent" <=> sqs'[m] # "unsent"
    BY Persistence, TypeStep DEF IngestInv, WorkerAloneTypeOK
  <1>1. UnsentHasNoBody' BY <1>0 DEF QueueInv, UnsentHasNoBody
  <1> QED BY <1>0, <1>1, WorkerKeepsStored, OthersStep

\* The table holds the same alerts after a step of the worker.
LEMMA StoredUnderWorker == ASSUME WorkerInv, IngestInv, WorkerNext PROVE Stored' = Stored
  <1>1. \A a \in Alerts : status'[a] = "absent" <=> status[a] = "absent"
    BY WorkerKeepsStored
  <1> QED BY <1>1 DEF Stored

\* Slots are never given back, and a call or its answer is backed by one.
LEMMA PaidStep ==
    ASSUME WorkerInv, LiveDraftIsPaid, WorkerNext
    PROVE  LiveDraftIsPaid'
  <1>0. InvocationTypeOK /\ TableTypeOK
    BY DEF WorkerInv, WorkerAloneTypeOK, WorkerTypeOK
  <1>1. ASSUME NEW w \in Workers, AcquireSlot(w) \/ SlotAnswerLost(w)
        PROVE  LiveDraftIsPaid'
    <2>1. day \in Days /\ slots'[day] > 0
      BY <1>0, <1>1 DEF AcquireSlot, SlotAnswerLost, TableTypeOK
    <2> QED BY <2>1 DEF LiveDraftIsPaid
  <1>2. ASSUME slots' = slots,
               \A x \in Workers : pc'[x] = "run" \/ draft'[x] \in ModelVerdicts
                  => pc[x] = "run" \/ draft[x] \in ModelVerdicts
        PROVE  LiveDraftIsPaid'
    BY <1>2 DEF LiveDraftIsPaid
  <1>3. ASSUME NEW w \in Workers, RecordStep(w), ~AcquireSlot(w), ~SlotAnswerLost(w)
        PROVE  LiveDraftIsPaid'
    <2>1. slots' = slots
      BY <1>3
      DEF RecordStep, TakeRecord, AlreadyTriaged, NoVerdictSeen, CapReached, RunModel,
          ModelRaises, Decline, PutVerdict, PutAnswerLost, VerdictTaken, MarkTriaged,
          MarkRaises, RecordFails, tableVars
    <2>2. CASE (Returns(w) \/ Raises(w))
      <3>1. \A x \in Workers : pc'[x] = "run" \/ draft'[x] \in ModelVerdicts
               => pc[x] = "run" \/ draft[x] \in ModelVerdicts
        BY <1>0, <2>2, WorkerAssumption
        DEF Returns, Raises, Leave, Goto, InvocationTypeOK
      <3> QED BY <1>2, <2>1, <3>1
    <2>3. CASE \/ \E m \in Messages : TakeRecord(w, m)
               \/ NoVerdictSeen(w) \/ CapReached(w)
               \/ \E v \in ModelVerdicts : RunModel(w, v)
               \/ Decline(w) \/ PutVerdict(w) \/ PutAnswerLost(w)
      <3>1. \A x \in Workers : pc'[x] = "run" \/ draft'[x] \in ModelVerdicts
               => pc[x] = "run" \/ draft[x] \in ModelVerdicts
        BY <1>0, <2>3, WorkerAssumption
        DEF TakeRecord, NoVerdictSeen, CapReached, RunModel, Decline, PutVerdict,
            PutAnswerLost, Goto, InvocationTypeOK, invocationVars
      <3> QED BY <1>2, <2>1, <3>1
    <2> QED
      BY <1>3, <2>2, <2>3
      DEF RecordStep, AlreadyTriaged, ModelRaises, VerdictTaken, MarkTriaged,
          MarkRaises, RecordFails
  <1>4. ASSUME \/ \E w \in Workers :
                     \/ \E batch \in SUBSET Messages : Invoke(w, batch)
                     \/ ReturnBatch(w) \/ Crash(w)
               \/ \E m \in Messages :
                     VisibilityTimeout(m) \/ DuplicateDelivery(m) \/ Redrive(m)
               \/ NextDay
        PROVE  LiveDraftIsPaid'
    <2>1. slots' = slots
      BY <1>4
      DEF Invoke, ReturnBatch, Crash, VisibilityTimeout, DuplicateDelivery, Redrive,
          NextDay, workerVars, tableVars
    <2>2. \A x \in Workers : pc'[x] = "run" \/ draft'[x] \in ModelVerdicts
             => pc[x] = "run" \/ draft[x] \in ModelVerdicts
      BY <1>0, <1>4, WorkerAssumption
      DEF Invoke, ReturnBatch, Crash, Ends, Goto, VisibilityTimeout, DuplicateDelivery,
          Redrive, NextDay, workerVars, invocationVars, InvocationTypeOK
    <2> QED BY <1>2, <2>1, <2>2
  <1> QED BY <1>1, <1>3, <1>4 DEF WorkerNext

-------------------------------------------------------------------------------
(* An unjudged alert stays within reach.                                    *)

\* Through the steps of the worker: it only ever lets go of judged alerts.
LEMMA AliveUnderWorker ==
    ASSUME SpineInv, WorkerNext, UNCHANGED replayVars
    PROVE  UncopiedIsAlive'
  <1>0. /\ WorkerInv /\ UncopiedIsAlive /\ body' = body /\ copied' = copied
        /\ \A a \in Alerts : verdict[a] # None => verdict'[a] = verdict[a]
    BY Persistence DEF SpineInv, replayVars
  <1> SUFFICES ASSUME NEW a \in Alerts, verdict'[a] = None,
                      \E m \in Messages : body[m] = a
               PROVE  \E m \in Messages : /\ body[m] = a /\ Alive(m)'
                                          /\ \A o \in Operators : copied[o] # m
    BY <1>0 DEF UncopiedIsAlive
  <1>1. verdict[a] = None BY <1>0
  <1>2. PICK m \in Messages : /\ body[m] = a /\ Alive(m)
                              /\ \A o \in Operators : copied[o] # m
    BY <1>0, <1>1 DEF UncopiedIsAlive
  <1>3. Alive(m)' BY <1>0, <1>1, <1>2, WorkerQueue
  <1> QED BY <1>2, <1>3

\* Through the steps of ingest: a send adds a message that nobody has copied.
LEMMA AliveUnderIngest ==
    ASSUME SpineInv, IngestNext, UNCHANGED <<workerVars, replayVars>>
    PROVE  UncopiedIsAlive'
  <1> USE DEF Alive
  <1>0. /\ SharedTypeOK /\ IngestTypeOK /\ UncopiedIsAlive /\ QueueInv /\ ReplayTypeOK
        /\ ReplayHoldsDead /\ verdict' = verdict /\ copied' = copied
    BY DEF SpineInv, IngestInv, workerVars, tableVars, replayVars
  <1>1. CASE UNCHANGED queueVars
    BY <1>0, <1>1 DEF UncopiedIsAlive, queueVars
  <1>2. CASE \E r \in Requests : \E m \in Messages : Send(m, InHand(r))
    <2>1. PICK r \in Requests, m \in Messages : Send(m, InHand(r)) BY <1>2
    <2>2. /\ sqs[m] = "unsent" /\ sqs' = [sqs EXCEPT ![m] = "visible"]
          /\ body' = [body EXCEPT ![m] = InHand(r)] /\ body[m] = None
      BY <1>0, <2>1 DEF Send, QueueInv, UnsentHasNoBody
    <2>3. \A o \in Operators : copied[o] # m
      BY <1>0, <2>2, NoneAssumption DEF ReplayHoldsDead
    <2>4. /\ sqs'[m] = "visible" /\ body'[m] = InHand(r)
          /\ \A n \in Messages : n # m => sqs'[n] = sqs[n] /\ body'[n] = body[n]
      BY <1>0, <2>2 DEF SharedTypeOK
    <2> SUFFICES ASSUME NEW a \in Alerts, verdict[a] = None,
                        \E n \in Messages : body'[n] = a
                 PROVE  \E n \in Messages : /\ body'[n] = a /\ Alive(n)'
                                            /\ \A o \in Operators : copied[o] # n
      BY <1>0 DEF UncopiedIsAlive
    <2>5. CASE a = InHand(r) BY <2>3, <2>4, <2>5
    <2>6. CASE a # InHand(r)
      <3>1. PICK n \in Messages : /\ body[n] = a /\ Alive(n)
                                  /\ \A o \in Operators : copied[o] # n
        BY <1>0, <2>4, <2>6 DEF UncopiedIsAlive
      <3>2. n # m BY <2>2, <3>1, NoneAssumption
      <3> QED BY <2>4, <3>1, <3>2
    <2> QED BY <2>5, <2>6
  <1> QED BY <1>1, <1>2, IngestEffect

\* Through a replay: the copy is on the queue before the original goes, and the
\* original counts no more from the moment it is copied.
LEMMA AliveUnderReplay ==
    ASSUME SpineInv, ReplayNext, UNCHANGED workerVars
    PROVE  UncopiedIsAlive'
  <1> USE DEF Alive
  <1>0. /\ SharedTypeOK /\ UncopiedIsAlive /\ ReplayTypeOK /\ ReplayHoldsDead
        /\ UnsentHasNoBody /\ verdict' = verdict
    BY DEF SpineInv, IngestInv, QueueInv, workerVars, tableVars
  <1>1. ASSUME NEW o \in Operators,
               (\E batch \in SUBSET Messages : ReceiveDead(o, batch)) \/ ReplayDies(o)
        PROVE  UncopiedIsAlive'
    <2>1. /\ UNCHANGED <<sqs, body>>
          /\ \A p \in Operators : copied'[p] = copied[p] \/ copied'[p] = None
      BY <1>0, <1>1 DEF ReceiveDead, ReplayDies, ReplayTypeOK, queueVars
    <2> QED BY <1>0, <2>1, NoneAssumption DEF UncopiedIsAlive
  <1>2. ASSUME NEW o \in Operators, NEW m \in Messages, NEW n \in Messages,
               SendCopy(o, m, n)
        PROVE  UncopiedIsAlive'
    <2>1. /\ sqs[m] \in {"dlq", "moved"} /\ sqs[n] = "unsent" /\ body[m] \in Alerts
          /\ sqs' = [sqs EXCEPT ![n] = "visible"]
          /\ body' = [body EXCEPT ![n] = body[m]]
          /\ copied' = [copied EXCEPT ![o] = m]
      BY <1>2, SendCopyFacts
    <2>2. /\ body[n] = None
          /\ \A p \in Operators : copied'[p] # n
      <3>1. \A p \in Operators : copied'[p] = copied[p] \/ copied'[p] = m
        BY <1>0, <2>1 DEF ReplayTypeOK
      <3> QED BY <1>0, <2>1, <3>1, NoneAssumption DEF ReplayHoldsDead, UnsentHasNoBody
    <2>3. /\ sqs'[n] = "visible" /\ body'[n] = body[m]
          /\ \A k \in Messages : k # n => sqs'[k] = sqs[k] /\ body'[k] = body[k]
      BY <1>0, <2>1 DEF SharedTypeOK
    <2> SUFFICES ASSUME NEW a \in Alerts, verdict[a] = None,
                        \E k \in Messages : body'[k] = a
                 PROVE  \E k \in Messages : /\ body'[k] = a /\ Alive(k)'
                                            /\ \A p \in Operators : copied'[p] # k
      BY <1>0 DEF UncopiedIsAlive
    <2>4. CASE a = body[m] BY <2>2, <2>3, <2>4
    <2>5. CASE a # body[m]
      <3>1. PICK k \in Messages : /\ body[k] = a /\ Alive(k)
                                  /\ \A p \in Operators : copied[p] # k
        BY <1>0, <2>3, <2>5 DEF UncopiedIsAlive
      <3>2. k # n /\ k # m BY <2>1, <2>5, <3>1
      <3>3. \A p \in Operators : copied'[p] # k
        BY <1>0, <2>1, <3>1, <3>2 DEF ReplayTypeOK
      <3> QED BY <2>3, <3>1, <3>2, <3>3
    <2> QED BY <2>4, <2>5
  <1>3. ASSUME NEW o \in Operators, DeleteOriginal(o)
        PROVE  UncopiedIsAlive'
    <2>1. /\ copied[o] \in Messages /\ body' = body
          /\ sqs' = [sqs EXCEPT ![copied[o]] = "moved"]
          /\ copied' = [copied EXCEPT ![o] = None]
      BY <1>3, DeleteOriginalFacts
    <2>2. \A k \in Messages : (\A p \in Operators : copied[p] # k)
             => sqs'[k] = sqs[k] /\ \A p \in Operators : copied'[p] # k
      BY <1>0, <2>1, NoneAssumption DEF SharedTypeOK, ReplayTypeOK
    <2> QED BY <1>0, <2>1, <2>2 DEF UncopiedIsAlive
  <1> QED BY <1>1, <1>2, <1>3 DEF ReplayNext

-------------------------------------------------------------------------------
(* The invariant of the spine.                                              *)

\* The initial states.
LEMMA SpineInitInv == Init => SpineInv
  <1> SUFFICES ASSUME Init PROVE SpineInv OBVIOUS
  <1>1. WorkerInv BY InitInv DEF Init, WorkerAloneInit
  <1>2. IngestInv BY IngestInitInv DEF Init
  <1>3. ReplayTypeOK /\ ReplayHoldsDead
    BY DEF Init, ReplayInit, ReplayTypeOK, ReplayHoldsDead
  <1>4. UncopiedIsAlive
    BY NoneAssumption DEF Init, SharedInit, UncopiedIsAlive
  <1>5. LiveDraftIsPaid
    BY WorkerAssumption DEF Init, WorkerInit, LiveDraftIsPaid
  <1> QED BY <1>1, <1>2, <1>3, <1>4, <1>5 DEF SpineInv

\* Every step.
LEMMA SpineStep == ASSUME SpineInv, Next PROVE SpineInv'
  <1>0. WorkerInv /\ IngestInv /\ ReplayTypeOK /\ ReplayHoldsDead /\ LiveDraftIsPaid
    BY DEF SpineInv
  <1>1. CASE IngestNext /\ UNCHANGED <<workerVars, replayVars>>
    <2>1. WorkerInv' /\ IngestInv' /\ UncopiedIsAlive'
      BY <1>0, <1>1, WorkerUnderIngest, IngestStep, AliveUnderIngest
    <2>2. \A m \in Messages : sqs[m] # "unsent" => sqs'[m] = sqs[m]
      <3>1. CASE UNCHANGED queueVars BY <3>1 DEF queueVars
      <3>2. CASE \E r \in Requests : \E m \in Messages : Send(m, InHand(r))
        BY <1>0, <3>2 DEF Send, IngestInv, SharedTypeOK
      <3> QED BY <1>1, <3>1, <3>2, IngestEffect
    <2>3. ReplayTypeOK' /\ ReplayHoldsDead'
      BY <1>0, <1>1, <2>2 DEF ReplayTypeOK, ReplayHoldsDead, replayVars
    <2>4. LiveDraftIsPaid'
      BY <1>0, <1>1 DEF LiveDraftIsPaid, workerVars, tableVars, invocationVars
    <2> QED BY <2>1, <2>3, <2>4 DEF SpineInv
  <1>2. CASE WorkerNext /\ UNCHANGED <<ingestVars, replayVars>>
    <2>1. WorkerInv'
      BY <1>0, <1>2, TypeStep, RecordInvStep, VerdictInvStep, CapInvStep,
         CallsWithinCapStep
      DEF WorkerInv
    <2>2. IngestInv' /\ UncopiedIsAlive' /\ LiveDraftIsPaid'
      BY <1>0, <1>2, IngestUnderWorker, AliveUnderWorker, PaidStep
    <2>3. ReplayTypeOK' /\ ReplayHoldsDead'
      BY <1>0, <1>2, WorkerQueue DEF ReplayTypeOK, ReplayHoldsDead, replayVars
    <2> QED BY <2>1, <2>2, <2>3 DEF SpineInv
  <1>3. CASE ReplayNext /\ UNCHANGED <<ingestVars, workerVars>>
    <2>1. WorkerInv' BY <1>0, <1>3, ReplayEffect, WorkerOthersStep
    <2>2. IngestInv' BY <1>0, <1>3, ReplayEffect, OthersStep
    <2>3. UncopiedIsAlive' BY <1>3, AliveUnderReplay
    <2>4. LiveDraftIsPaid'
      BY <1>0, <1>3 DEF LiveDraftIsPaid, workerVars, tableVars, invocationVars
    <2> QED BY <1>3, <2>1, <2>2, <2>3, <2>4, ReplayEffect DEF SpineInv
  <1> QED BY <1>1, <1>2, <1>3 DEF Next

\* A step of nothing.
LEMMA SpineStutter == SpineInv /\ UNCHANGED vars => SpineInv'
  <1> SUFFICES ASSUME SpineInv, UNCHANGED vars PROVE SpineInv' OBVIOUS
  <1> USE DEF vars, queueVars
  <1>1. WorkerInv' BY StutterStep DEF SpineInv, wvars
  <1>2. IngestInv'
    BY OthersStep DEF SpineInv, IngestInv, SharedTypeOK, QueueInv, UnsentHasNoBody
  <1>3. /\ ReplayTypeOK' /\ ReplayHoldsDead' /\ UncopiedIsAlive' /\ LiveDraftIsPaid'
    BY DEF SpineInv, ReplayTypeOK, ReplayHoldsDead, UncopiedIsAlive, LiveDraftIsPaid,
           Alive, replayVars, workerVars, tableVars, invocationVars
  <1> QED BY <1>1, <1>2, <1>3 DEF SpineInv

-------------------------------------------------------------------------------
(* The ledger: what each step is on its level.                              *)

\* Ingest stores an alert, or stores it again while it is queued.
LEMMA IngestIsLedger ==
    ASSUME SpineInv, IngestNext, UNCHANGED workerVars
    PROVE  Ledger!Next \/ UNCHANGED <<status, verdict, slots>>
  <1>0. /\ SharedTypeOK /\ IngestTypeOK /\ PayloadInv
        /\ UNCHANGED <<verdict, slots>>
    BY DEF SpineInv, IngestInv, workerVars, tableVars
  <1>1. CASE status' = status BY <1>0, <1>1
  <1>2. CASE \E r \in Requests :
               /\ rpc[r] = "put" /\ status' = [status EXCEPT ![InHand(r)] = "queued"]
    <2>1. PICK r \in Requests :
               /\ rpc[r] = "put" /\ status' = [status EXCEPT ![InHand(r)] = "queued"]
      BY <1>2
    <2>2. InHand(r) \in Alerts BY <1>0, InHandFacts
    <2>3. status[InHand(r)] \in {"absent", "queued"}
      BY <1>0, <2>1, <2>2 DEF SharedTypeOK, Statuses, PayloadInv, PutIsUnsent
    <2>4. CASE status[InHand(r)] = "absent"
      <3>1. Ledger!Store(InHand(r)) BY <1>0, <2>1, <2>4 DEF Ledger!Store
      <3> QED BY <2>2, <3>1 DEF Ledger!Next
    <2>5. CASE status[InHand(r)] = "queued"
      <3>1. status' = status BY <1>0, <2>1, <2>5 DEF SharedTypeOK
      <3> QED BY <1>0, <3>1
    <2> QED BY <2>3, <2>4, <2>5
  <1> QED BY <1>1, <1>2, IngestEffect

\* The worker spends a slot, judges, publishes, or does what the ledger leaves out.
LEMMA WorkerIsLedger ==
    ASSUME SpineInv, WorkerNext
    PROVE  Ledger!Next \/ UNCHANGED <<status, verdict, slots>>
  <1>0. /\ WorkerInv /\ SharedTypeOK /\ TableTypeOK /\ InvocationTypeOK /\ QueueInv
        /\ CapInv /\ VerdictInv /\ LiveDraftIsPaid
    BY DEF SpineInv, IngestInv, WorkerInv, WorkerAloneTypeOK, WorkerTypeOK
  <1>1. ASSUME NEW w \in Workers, AcquireSlot(w) \/ SlotAnswerLost(w)
        PROVE  Ledger!Next
    <2>1. Ledger!Spend(day)
      BY <1>1 DEF AcquireSlot, SlotAnswerLost, SlotFree, Ledger!Spend
    <2>2. day \in Ledger!Days BY <1>0 DEF TableTypeOK, Days, Ledger!Days
    <2> QED BY <2>1, <2>2 DEF Ledger!Next
  <1>2. ASSUME NEW w \in Workers, PutVerdict(w) \/ PutAnswerLost(w)
        PROVE  Ledger!Next
    <2>1. /\ pc[w] = "put" /\ verdict[AlertOf(w)] = None
          /\ verdict' = [verdict EXCEPT ![AlertOf(w)] = draft[w]]
          /\ UNCHANGED <<status, slots>>
      BY <1>2 DEF PutVerdict, PutAnswerLost
    <2>2. cur[w] \in Messages /\ AlertOf(w) \in Alerts /\ AlertOf(w) = body[cur[w]]
      BY <1>0, <2>1, RecordAtHand DEF RecordSteps, AlertOf
    <2>3. status[AlertOf(w)] # "absent"
      BY <1>0, <2>2, NoneAssumption DEF QueueInv, BodyIsStored, Stored
    <2>4. draft[w] \in ModelVerdicts \cup {CapVerdict}
      BY <1>0, <2>1 DEF VerdictInv, DraftAtPut, InvocationTypeOK, Verdicts
    <2>5. draft[w] \in ModelVerdicts => \E d \in Ledger!Days : slots[d] > 0
      BY <1>0 DEF LiveDraftIsPaid, Days, Ledger!Days
    <2>6. draft[w] = CapVerdict => \E d \in Ledger!Days : slots[d] >= DailyCap
      <3>1. 0 .. day \subseteq 0 .. LastDay
        BY <1>0, WorkerAssumption DEF TableTypeOK, Days
      <3> QED
        BY <1>0, <3>1 DEF CapInv, DecliningMeansExhausted, Exhausted, Ledger!Days
    <2>7. Ledger!Judge(AlertOf(w), draft[w])
      BY <2>1, <2>3, <2>5, <2>6 DEF Ledger!Judge
    <2> QED BY <2>2, <2>4, <2>7 DEF Ledger!Next
  <1>3. ASSUME NEW w \in Workers, MarkTriaged(w) \/ MarkRaises(w)
        PROVE  Ledger!Next
    <2>1. /\ pc[w] = "mark" /\ status' = [status EXCEPT ![AlertOf(w)] = "triaged"]
          /\ UNCHANGED <<verdict, slots>>
      BY <1>3 DEF MarkTriaged, MarkRaises, tableVars
    <2>2. AlertOf(w) \in Alerts
      BY <1>0, <2>1, RecordAtHand DEF RecordSteps
    <2>3. verdict[AlertOf(w)] # None BY <1>0, <2>1 DEF VerdictInv, VerdictAtMark
    <2>4. Ledger!Publish(AlertOf(w)) BY <2>1, <2>3 DEF Ledger!Publish
    <2> QED BY <2>2, <2>4 DEF Ledger!Next
  <1>4. ASSUME NEW w \in Workers, RecordStep(w), ~AcquireSlot(w), ~SlotAnswerLost(w),
               ~PutVerdict(w), ~PutAnswerLost(w), ~MarkTriaged(w), ~MarkRaises(w)
        PROVE  UNCHANGED <<status, verdict, slots>>
    BY <1>4
    DEF RecordStep, TakeRecord, AlreadyTriaged, NoVerdictSeen, CapReached, RunModel,
        ModelRaises, Decline, VerdictTaken, RecordFails, tableVars
  <1>5. ASSUME \/ \E w \in Workers :
                     \/ \E batch \in SUBSET Messages : Invoke(w, batch)
                     \/ ReturnBatch(w) \/ Crash(w)
               \/ \E m \in Messages :
                     VisibilityTimeout(m) \/ DuplicateDelivery(m) \/ Redrive(m)
               \/ NextDay
        PROVE  UNCHANGED <<status, verdict, slots>>
    BY <1>5
    DEF Invoke, ReturnBatch, Crash, VisibilityTimeout, DuplicateDelivery, Redrive,
        Reappear, DeadLetter, NextDay, workerVars, tableVars
  <1> QED BY <1>1, <1>2, <1>3, <1>4, <1>5 DEF WorkerNext

-------------------------------------------------------------------------------
(* Theorems.                                                                *)

\* SpineInv, and with it every invariant of the worker and of ingest, holds in
\* the composition, for any requests, messages, invocations and replays.
THEOREM SpineInvariant == Spec => []SpineInv
  <1>1. SpineInv /\ [Next]_vars => SpineInv' BY SpineStep, SpineStutter
  <1> QED BY <1>1, SpineInitInv, PTL DEF Spec

\* Every variable of the spine has its type, always.
THEOREM SpineTypeCorrect == Spec => []TypeOK
  <1>1. SpineInv => TypeOK
    BY DEF SpineInv, WorkerInv, WorkerAloneTypeOK, IngestInv, TypeOK
  <1> QED BY <1>1, SpineInvariant, PTL

\* No alert that was enqueued is lost without a verdict: however records fail,
\* invocations crash, messages are delivered twice and replays die between their
\* two calls, one of its messages stays on the alerts or the dead-letter queue.
THEOREM NothingIsLost == Spec => []UnjudgedIsAlive
  <1>1. SpineInv => UnjudgedIsAlive
    BY DEF SpineInv, UncopiedIsAlive, UnjudgedIsAlive
  <1> QED BY <1>1, SpineInvariant, PTL

\* What ingest promises, it promises in the composition: the worker and replay-dlq
\* neither lose an occurrence it counted nor unsend what it sent, whatever they
\* do between two of its calls.  (EnqueuedOnceStored is ingest's alone: a replay
\* sends a second message about an alert on purpose.)
THEOREM IngestHoldsInTheSpine ==
    Spec => [](OccurrencesAddUp /\ AcceptedIsEnqueued /\ DuplicateOnlyByRace)
  <1>1. Init => CountInv BY CountInit DEF Init
  <1>2. CountInv /\ SpineInv /\ SpineInv' /\ [Next]_vars => CountInv'
    <2>0. SUFFICES ASSUME CountInv, SpineInv, SpineInv', [Next]_vars PROVE CountInv'
      OBVIOUS
    <2>1. CASE IngestNext
      BY <2>0, <2>1, CountInvStep DEF SpineInv, IngestAlone
    <2>2. CASE WorkerNext /\ UNCHANGED <<ingestVars, replayVars>>
      BY <2>0, <2>2, StoredUnderWorker, CountOthers DEF SpineInv
    <2>3. CASE ReplayNext /\ UNCHANGED <<ingestVars, workerVars>>
      <3>1. Stored' = Stored BY <2>0, <2>3, ReplayEffect DEF Stored
      <3> QED BY <2>0, <2>3, <3>1, CountOthers
    <2>4. CASE UNCHANGED vars
      <3>1. Stored' = Stored /\ UNCHANGED ingestVars BY <2>4 DEF Stored, vars
      <3> QED BY <2>0, <3>1, CountOthers
    <2> QED BY <2>0, <2>1, <2>2, <2>3, <2>4 DEF Next
  <1>3. SpineInv /\ CountInv
           => OccurrencesAddUp /\ AcceptedIsEnqueued /\ DuplicateOnlyByRace
    BY ExactFromInv, SentFromInv, RaceFromInv DEF SpineInv
  <1> QED BY <1>1, <1>2, <1>3, SpineInvariant, PTL DEF Spec

\* What the worker promises holds with ingest and replays beside it: a triaged
\* alert has a verdict, only messages of judged alerts are deleted, live model
\* calls stay within the cap, and only an exhausted cap declines an alert, also
\* when replays bring messages back that invocations gave up.
THEOREM WorkerHoldsInTheSpine ==
    Spec => [](TriagedHasVerdict /\ DeletedHasVerdict /\ CallsWithinCap
               /\ DeclinedMeansExhausted)
  <1>1. SpineInv => /\ TriagedHasVerdict /\ DeletedHasVerdict
                    /\ CallsWithinCap /\ DeclinedMeansExhausted
    BY DEF SpineInv, WorkerInv, VerdictInv, CapInv
  <1> QED BY <1>1, SpineInvariant, PTL

\* The spine implements the ledger: whatever its parts do in whatever order, the
\* tables go through the ledger's steps only.
THEOREM SpineImplementsLedger == Spec => LedgerSpec
  <1>1. Init => Ledger!Init
    BY DEF Init, SharedInit, WorkerInit, Ledger!Init, Days, Ledger!Days
  <1>2. SpineInv /\ [Next]_vars => [Ledger!Next]_<<status, verdict, slots>>
    <2> SUFFICES ASSUME SpineInv, [Next]_vars
                 PROVE  Ledger!Next \/ UNCHANGED <<status, verdict, slots>>
      OBVIOUS
    <2>1. CASE IngestNext /\ UNCHANGED <<workerVars, replayVars>>
      BY <2>1, IngestIsLedger
    <2>2. CASE WorkerNext BY <2>2, WorkerIsLedger
    <2>3. CASE ReplayNext /\ UNCHANGED <<ingestVars, workerVars>>
      BY <2>3, ReplayEffect DEF workerVars, tableVars
    <2>4. CASE UNCHANGED vars
      BY <2>4 DEF vars, workerVars, tableVars
    <2> QED BY <2>1, <2>2, <2>3, <2>4 DEF Next
  <1> QED BY <1>1, <1>2, SpineInvariant, PTL DEF Spec, LedgerSpec, Ledger!Spec
================================================================================
