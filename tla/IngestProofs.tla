---------------------------- MODULE IngestProofs -----------------------------
(***************************************************************************)
(* Proofs about the ingest Lambda (Ingest). IngestInv is inductive: it     *)
(* says how far each invocation is in its payload and what that means for  *)
(* the table (StoredIsOfRequest), the queue (PutIsUnsent, BehindIsSent)    *)
(* and the index (SeenIsOld). The step lemmas speak of IngestNext alone;   *)
(* OthersStep says what the rest of the system may do to the shared state. *)
(* CountInv and SendsAddUp, at the end, bound the occurrences and the      *)
(* messages: the alerts counted for certain and those that may have been   *)
(* counted enclose the sum, whatever Alerts and Requests are, because at   *)
(* any time only finitely many alerts have been reached.                   *)
(***************************************************************************)
EXTENDS Ingest, FiniteSums

-------------------------------------------------------------------------------
(* Facts the step lemmas use.                                               *)

\* The position in a payload and the alert it names.
LEMMA InHandFacts ==
    ASSUME IngestTypeOK, NEW r \in Requests
    PROVE  /\ DOMAIN Payload[r] = 1 .. Len(Payload[r]) /\ Len(Payload[r]) \in Nat
           /\ pos[r] \in 1 .. Len(Payload[r]) /\ pos[r] \in DOMAIN Payload[r]
           /\ InHand(r) = <<r, pos[r]>> /\ InHand(r) \in Alerts
  BY IngestAssumption DEF IngestTypeOK, InHand

\* Two alerts are one when their requests and positions are.
LEMMA AlertPairs ==
    ASSUME NEW r, NEW i, NEW s, NEW j
    PROVE  /\ <<r, i>> = <<s, j>> <=> r = s /\ i = j
           /\ <<r, i>>[1] = r /\ <<r, i>>[2] = i
  OBVIOUS

\* Where the loop goes after an alert: all up to the one in hand is behind.
LEMMA AdvanceShape ==
    ASSUME IngestTypeOK, NEW r \in Requests, Advance(r)
    PROVE  /\ rpc' \in [Requests -> RequestSteps \cup {"unborn", "accepted", "failed"}]
           /\ pos' \in [Requests -> Nat]
           /\ \A s \in Requests : pos'[s] \in DOMAIN Payload[s]
           /\ rpc'[r] \in {"find", "respond"}
           /\ \A s \in Requests : s # r => rpc'[s] = rpc[s] /\ pos'[s] = pos[s]
           /\ \A i \in DOMAIN Payload[r] :
                 /\ Ahead(r, i)' => i > pos[r]
                 /\ Behind(r, i)' => i <= pos[r]
                 /\ i > pos[r] => Ahead(r, i)'
  <1> USE DEF IngestTypeOK
  <1>0. /\ DOMAIN Payload[r] = 1 .. Len(Payload[r]) /\ Len(Payload[r]) \in Nat
        /\ pos[r] \in 1 .. Len(Payload[r])
    BY InHandFacts
  <1>1. CASE pos[r] < Len(Payload[r])
    <2>1. rpc' = [rpc EXCEPT ![r] = "find"] /\ pos' = [pos EXCEPT ![r] = @ + 1]
      BY <1>1 DEF Advance, Step
    <2> QED BY <1>0, <1>1, <2>1 DEF RequestSteps, Ahead, Behind
  <1>2. CASE ~(pos[r] < Len(Payload[r]))
    <2>1. rpc' = [rpc EXCEPT ![r] = "respond"] /\ pos' = pos
      BY <1>2 DEF Advance, Step
    <2> QED BY <1>0, <1>2, <2>1 DEF RequestSteps, Ahead, Behind
  <1> QED BY <1>1, <1>2

\* The initial states satisfy the invariant.
LEMMA IngestInitInv == SharedInit /\ IngestInit => IngestInv
  <1> SUFFICES ASSUME SharedInit, IngestInit PROVE IngestInv OBVIOUS
  <1> USE DEF SharedInit, IngestInit
  <1>0. \A r \in Requests : 1 \in DOMAIN Payload[r] BY IngestAssumption
  <1>1. SharedTypeOK BY MaxReceiveAssumption DEF SharedTypeOK, Statuses, Places
  <1>2. IngestTypeOK
    BY <1>0, IngestAssumption DEF IngestTypeOK, RequestSteps, CalledAt
  <1>3. Stored = {} BY DEF Stored
  <1>4. QueueInv BY DEF QueueInv, UnsentHasNoBody, BodyIsStored
  <1>5. PayloadInv
    BY <1>3 DEF PayloadInv, UnbornIsFirst, StoredIsOfRequest, PutIsUnsent, SendIsStored
  <1>6. BehindIsSent /\ IndexedIsStored /\ SeenIsOld
    BY <1>3 DEF BehindIsSent, IndexedIsStored, SeenIsOld
  <1> QED BY <1>1, <1>2, <1>4, <1>5, <1>6 DEF IngestInv

\* Every step of ingest keeps the types.
LEMMA IngestTypeStep ==
    ASSUME SharedTypeOK, IngestTypeOK, IngestNext
    PROVE  SharedTypeOK' /\ IngestTypeOK'
  <1> USE DEF SharedTypeOK, IngestTypeOK, queueVars, requestVars
  <1>1. ASSUME NEW r \in Requests, Accept(r) \/ Respond(r) \/ RequestFails(r)
        PROVE  SharedTypeOK' /\ IngestTypeOK'
    BY <1>1 DEF Accept, Respond, RequestFails, Step, RequestSteps
  <1>2. ASSUME NEW r \in Requests, FindOpen(r)
        PROVE  SharedTypeOK' /\ IngestTypeOK'
    <2>1. CASE /\ Step(r, "put") /\ UNCHANGED match
               /\ seen' = [seen EXCEPT ![InHand(r)] =
                     {b \in indexed : Fingerprint(b) = Fingerprint(InHand(r))}]
      <3>1. {b \in indexed : Fingerprint(b) = Fingerprint(InHand(r))} \in SUBSET Alerts
        OBVIOUS
      <3>2. seen' \in [Alerts -> SUBSET Alerts] BY <2>1, <3>1
      <3> QED BY <1>2, <2>1, <3>2 DEF FindOpen, Step, RequestSteps
    <2>2. CASE \E a \in Newest(OpenMatches(InHand(r))) :
                  /\ Step(r, "bump") /\ match' = [match EXCEPT ![r] = a]
                  /\ UNCHANGED seen
      <3>1. PICK a \in Newest(OpenMatches(InHand(r))) :
                  /\ Step(r, "bump") /\ match' = [match EXCEPT ![r] = a]
                  /\ UNCHANGED seen
        BY <2>2
      <3>2. a \in Alerts BY DEF Newest, OpenMatches
      <3> QED BY <1>2, <3>1, <3>2 DEF FindOpen, Step, RequestSteps
    <2> QED BY <1>2, <2>1, <2>2 DEF FindOpen
  <1>3. ASSUME NEW step \in CalledAt, AnswerLost(step)
        PROVE  lost' \in [CalledAt -> 0 .. LostAnswers]
    <2>1. /\ lost["bump"] \in Nat /\ lost["put"] \in Nat /\ lost["send"] \in Nat
          /\ lost[step] + 1 <= LostAnswers
      BY <1>3, IngestAssumption DEF CalledAt, AnswerLost
    <2> QED BY <1>3, <2>1, IngestAssumption DEF AnswerLost
  <1>4. ASSUME NEW r \in Requests, Bump(r) \/ BumpAnswerLost(r)
        PROVE  SharedTypeOK' /\ IngestTypeOK'
    <2>1. occurrences' \in [Alerts -> Nat] BY <1>4 DEF Bump, BumpAnswerLost
    <2>2. CASE Bump(r)
      <3>1. Advance(r) BY <2>2 DEF Bump
      <3>2. match' \in [Requests -> Alerts \cup {None}] BY <2>2 DEF Bump
      <3> QED BY <2>1, <2>2, <3>1, <3>2, AdvanceShape DEF Bump
    <2>3. CASE BumpAnswerLost(r)
      BY <1>3, <2>1, <2>3 DEF BumpAnswerLost, CalledAt
    <2> QED BY <1>4, <2>2, <2>3
  <1>5. ASSUME NEW r \in Requests, PutNew(r) \/ StoreAnswerLost(r)
        PROVE  SharedTypeOK' /\ IngestTypeOK'
    <2>1. status' \in [Alerts -> Statuses] /\ occurrences' \in [Alerts -> Nat]
      BY <1>5 DEF PutNew, StoreAnswerLost, Statuses
    <2>2. CASE PutNew(r)
      BY <2>1, <2>2 DEF PutNew, Step, RequestSteps
    <2>3. CASE StoreAnswerLost(r)
      BY <1>3, <2>1, <2>3 DEF StoreAnswerLost, CalledAt
    <2> QED BY <1>5, <2>2, <2>3
  <1>6. ASSUME NEW r \in Requests, NEW m \in Messages,
               Enqueue(r, m) \/ SendAnswerLost(r, m)
        PROVE  SharedTypeOK' /\ IngestTypeOK'
    <2>1. InHand(r) \in Alerts BY InHandFacts
    <2>2. /\ sqs' \in [Messages -> Places] /\ body' \in [Messages -> Alerts \cup {None}]
          /\ receives' = receives /\ status' = status
      BY <1>6, <2>1 DEF Enqueue, SendAnswerLost, Send, Places
    <2>3. CASE Enqueue(r, m)
      BY <2>2, <2>3, AdvanceShape DEF Enqueue
    <2>4. CASE SendAnswerLost(r, m)
      BY <1>3, <2>2, <2>4 DEF SendAnswerLost, CalledAt
    <2> QED BY <1>6, <2>3, <2>4
  <1>7. ASSUME NEW a \in Alerts, IndexItem(a)
        PROVE  SharedTypeOK' /\ IngestTypeOK'
    BY <1>7 DEF IndexItem
  <1>8. CASE Tick
    BY <1>8, IngestAssumption DEF Tick
  <1> QED BY <1>1, <1>2, <1>4, <1>5, <1>6, <1>7, <1>8 DEF IngestNext

\* What a step of ingest does to the shared state: nothing, a put of the alert in
\* hand, or a send of its id.
LEMMA IngestEffect ==
    ASSUME IngestNext
    PROVE  \/ UNCHANGED <<status, queueVars>>
           \/ \E r \in Requests :
                 /\ rpc[r] = "put" /\ UNCHANGED queueVars
                 /\ status' = [status EXCEPT ![InHand(r)] = "queued"]
           \/ \E r \in Requests : \E m \in Messages :
                 /\ rpc[r] = "send" /\ Send(m, InHand(r)) /\ UNCHANGED status
  BY DEF IngestNext, Accept, FindOpen, Bump, BumpAnswerLost, PutNew, StoreAnswerLost,
         Enqueue, SendAnswerLost, Respond, RequestFails, IndexItem, Tick, At

\* Ingest takes nothing back: what is stored stays stored, what has a body keeps
\* it, and a new body is that of a stored alert.
LEMMA IngestQueueStep ==
    ASSUME IngestInv, IngestNext
    PROVE  /\ Stored \subseteq Stored'
           /\ \A m \in Messages : body[m] # None => body'[m] = body[m]
           /\ QueueInv'
  <1> USE DEF SharedTypeOK, QueueInv, UnsentHasNoBody, BodyIsStored, Stored, queueVars
  <1>0. SharedTypeOK /\ IngestTypeOK /\ QueueInv /\ PayloadInv BY DEF IngestInv
  <1>1. CASE UNCHANGED <<status, queueVars>> BY <1>0, <1>1
  <1>2. CASE \E r \in Requests :
               /\ rpc[r] = "put" /\ UNCHANGED queueVars
               /\ status' = [status EXCEPT ![InHand(r)] = "queued"]
    BY <1>0, <1>2
  <1>3. CASE \E r \in Requests : \E m \in Messages :
               /\ rpc[r] = "send" /\ Send(m, InHand(r)) /\ UNCHANGED status
    <2>1. PICK r \in Requests, m \in Messages :
               /\ rpc[r] = "send" /\ Send(m, InHand(r)) /\ UNCHANGED status
      BY <1>3
    <2>2. InHand(r) \in Stored BY <1>0, <2>1 DEF PayloadInv, SendIsStored
    <2>3. /\ sqs[m] = "unsent" /\ sqs' = [sqs EXCEPT ![m] = "visible"]
          /\ body' = [body EXCEPT ![m] = InHand(r)]
      BY <2>1 DEF Send
    <2> QED BY <1>0, <2>1, <2>2, <2>3
  <1> QED BY <1>1, <1>2, <1>3, IngestEffect

\* An alert the loop has not stored yet is in no message and not in the table.
LEMMA AheadIsAbsent ==
    ASSUME IngestInv, NEW r \in Requests, NEW i \in DOMAIN Payload[r], Ahead(r, i)
    PROVE  <<r, i>> \notin Stored /\ \A m \in Messages : body[m] # <<r, i>>
  <1>1. <<r, i>> \notin Stored
    BY AlertPairs DEF IngestInv, PayloadInv, StoredIsOfRequest
  <1>2. <<r, i>> \in Alerts BY IngestAssumption
  <1> QED
    BY <1>1, <1>2, NoneAssumption DEF IngestInv, QueueInv, BodyIsStored

\* A step of one request, which stores and sends its alert in hand at most,
\* leaves what the invariant says of the other requests.
LEMMA OneRequestMoves ==
    ASSUME IngestInv, NEW r \in Requests,
           \A s \in Requests : s # r => rpc'[s] = rpc[s] /\ pos'[s] = pos[s],
           Stored \subseteq Stored',
           \A a \in Stored' \ Stored : a = <<r, pos[r]>>,
           \A m \in Messages : body[m] # None => body'[m] = body[m],
           \A m \in Messages : body'[m] # body[m] => body'[m] = <<r, pos[r]>>,
           \A a \in Alerts : status'[a] = "triaged" => status[a] = "triaged",
           rpc'[r] = "unborn" => pos'[r] = 1,
           \A i \in DOMAIN Payload[r] : Ahead(r, i)' => Ahead(r, i) /\ <<r, i>> \notin Stored',
           rpc'[r] = "put" =>
               /\ pos'[r] = pos[r] /\ status[<<r, pos[r]>>] # "triaged"
               /\ \A m \in Messages : body'[m] # <<r, pos[r]>>,
           rpc'[r] = "send" => <<r, pos'[r]>> \in Stored',
           \A i \in DOMAIN Payload[r] :
               rpc'[r] # "failed" /\ Behind(r, i)' /\ <<r, i>> \in Stored'
                   => \E m \in Messages : body'[m] = <<r, i>>
    PROVE  PayloadInv' /\ BehindIsSent'
  <1>0. IngestTypeOK /\ PayloadInv /\ BehindIsSent BY DEF IngestInv
  <1>a. \A s \in Requests : /\ <<s, pos[s]>> \in Alerts
                            /\ pos[s] \in DOMAIN Payload[s]
    BY <1>0, InHandFacts
  <1>1. UnbornIsFirst' BY <1>0 DEF PayloadInv, UnbornIsFirst
  <1>2. StoredIsOfRequest'
    <2> SUFFICES ASSUME NEW a \in Stored'
                 PROVE  \E s \in Requests : \E i \in DOMAIN Payload[s] :
                            a = <<s, i>> /\ ~Ahead(s, i)'
      BY DEF StoredIsOfRequest
    <2>1. CASE a \in Stored
      <3>0. PICK s \in Requests :
                \E i \in DOMAIN Payload[s] : a = <<s, i>> /\ ~Ahead(s, i)
        BY <1>0, <2>1 DEF PayloadInv, StoredIsOfRequest
      <3>1. PICK i \in DOMAIN Payload[s] : a = <<s, i>> /\ ~Ahead(s, i)
        BY <3>0
      <3>2. CASE s = r BY <3>1, <3>2
      <3>3. CASE s # r BY <3>1, <3>3 DEF Ahead
      <3> QED BY <3>1, <3>2, <3>3
    <2>2. CASE a \notin Stored BY <1>a, <2>2
    <2> QED BY <2>1, <2>2
  <1>3. PutIsUnsent'
    <2> SUFFICES ASSUME NEW s \in Requests, rpc'[s] = "put"
                 PROVE  /\ status'[<<s, pos'[s]>>] # "triaged"
                        /\ \A m \in Messages : body'[m] # <<s, pos'[s]>>
      BY DEF PutIsUnsent, InHand
    <2>1. CASE s = r BY <1>a, <2>1
    <2>2. CASE s # r
      <3>1. /\ status[<<s, pos[s]>>] # "triaged"
            /\ \A m \in Messages : body[m] # <<s, pos[s]>>
        BY <1>0, <2>2 DEF PayloadInv, PutIsUnsent, InHand
      <3>2. <<s, pos[s]>> # <<r, pos[r]>> BY <2>2, AlertPairs
      <3> QED BY <1>a, <2>2, <3>1, <3>2
    <2> QED BY <2>1, <2>2
  <1>4. SendIsStored'
    BY <1>0 DEF PayloadInv, SendIsStored, InHand
  <1>5. BehindIsSent'
    <2> SUFFICES ASSUME NEW s \in Requests, NEW i \in DOMAIN Payload[s],
                        rpc'[s] # "failed", Behind(s, i)', <<s, i>> \in Stored'
                 PROVE  \E m \in Messages : body'[m] = <<s, i>>
      BY DEF BehindIsSent
    <2>1. CASE s = r BY <2>1
    <2>2. CASE s # r
      <3>1. Behind(s, i) BY <2>2 DEF Behind
      <3>2. <<s, i>> \in Stored BY <2>2, AlertPairs
      <3>3. <<s, i>> # None BY IngestAssumption, NoneAssumption
      <3> QED BY <1>0, <2>2, <3>1, <3>2, <3>3 DEF BehindIsSent
    <2> QED BY <2>1, <2>2
  <1> QED BY <1>1, <1>2, <1>3, <1>4, <1>5 DEF PayloadInv

\* Every step of ingest keeps what is known of the payloads.
LEMMA PayloadStep == ASSUME IngestInv, IngestNext PROVE PayloadInv' /\ BehindIsSent'
  <1>0. /\ SharedTypeOK /\ IngestTypeOK /\ QueueInv /\ PayloadInv /\ BehindIsSent
        /\ Stored \subseteq Stored'
        /\ \A m \in Messages : body[m] # None => body'[m] = body[m]
    BY IngestQueueStep DEF IngestInv
  <1>a. \A r \in Requests : /\ InHand(r) = <<r, pos[r]>> /\ InHand(r) \in Alerts
                            /\ pos[r] \in DOMAIN Payload[r] /\ pos[r] \in Nat
                            /\ \A i \in DOMAIN Payload[r] : i \in Nat
    BY <1>0, InHandFacts
  <1>b. UNCHANGED status => Stored' = Stored BY DEF Stored
  <1>1. ASSUME NEW r \in Requests, Accept(r) \/ Respond(r) \/ RequestFails(r)
        PROVE  PayloadInv' /\ BehindIsSent'
    <2>1. /\ UNCHANGED <<status, queueVars, pos>>
          /\ \/ rpc[r] = "unborn" /\ rpc' = [rpc EXCEPT ![r] = "find"]
             \/ rpc[r] = "respond" /\ rpc' = [rpc EXCEPT ![r] = "accepted"]
             \/ rpc' = [rpc EXCEPT ![r] = "failed"]
      BY <1>1 DEF Accept, Respond, RequestFails, At, Step
    <2>2. \A i \in DOMAIN Payload[r] : /\ Ahead(r, i)' => Ahead(r, i)
                                       /\ rpc'[r] # "failed" /\ Behind(r, i)' => Behind(r, i)
      BY <1>0, <2>1 DEF Ahead, Behind, IngestTypeOK
    <2>3. /\ \A s \in Requests : s # r => rpc'[s] = rpc[s] /\ pos'[s] = pos[s]
          /\ rpc'[r] \in {"find", "accepted", "failed"} /\ body' = body
          /\ status' = status /\ Stored' = Stored
      BY <1>0, <1>b, <2>1 DEF IngestTypeOK, queueVars
    <2>4. \A i \in DOMAIN Payload[r] : Ahead(r, i)' => <<r, i>> \notin Stored'
      BY <2>2, <2>3, AheadIsAbsent
    <2>5. \A i \in DOMAIN Payload[r] : rpc'[r] # "failed" /\ Behind(r, i)' /\ <<r, i>> \in Stored'
             => \E m \in Messages : body'[m] = <<r, i>>
      <3>1. rpc'[r] # "failed" => rpc[r] # "failed" BY <1>0, <2>1 DEF IngestTypeOK
      <3> QED BY <1>0, <2>2, <2>3, <3>1 DEF BehindIsSent
    <2> QED
      BY <2>2, <2>3, <2>4, <2>5, OneRequestMoves
  <1>2. ASSUME NEW r \in Requests, FindOpen(r)
        PROVE  PayloadInv' /\ BehindIsSent'
    <2>1. /\ UNCHANGED <<status, queueVars, pos>> /\ rpc[r] = "find"
          /\ \/ rpc' = [rpc EXCEPT ![r] = "put"]
             \/ rpc' = [rpc EXCEPT ![r] = "bump"]
      BY <1>2 DEF FindOpen, At, Step
    <2>2. Ahead(r, pos[r]) BY <2>1 DEF Ahead
    <2>3. status[InHand(r)] = "absent" /\ \A m \in Messages : body[m] # InHand(r)
      BY <1>a, <2>2, AheadIsAbsent DEF Stored
    <2>4. \A i \in DOMAIN Payload[r] : /\ Ahead(r, i)' => Ahead(r, i)
                                       /\ Behind(r, i)' => Behind(r, i)
      BY <1>0, <2>1 DEF Ahead, Behind, IngestTypeOK
    <2>5. /\ \A s \in Requests : s # r => rpc'[s] = rpc[s] /\ pos'[s] = pos[s]
          /\ rpc'[r] \in {"put", "bump"} /\ pos'[r] = pos[r] /\ body' = body
          /\ status' = status /\ Stored' = Stored
      BY <1>0, <1>b, <2>1 DEF IngestTypeOK, queueVars
    <2>6. \A i \in DOMAIN Payload[r] : Ahead(r, i)' => <<r, i>> \notin Stored'
      BY <2>4, <2>5, AheadIsAbsent
    <2>7. \A i \in DOMAIN Payload[r] : Behind(r, i)' /\ <<r, i>> \in Stored'
             => \E m \in Messages : body'[m] = <<r, i>>
      BY <1>0, <2>1, <2>4, <2>5 DEF BehindIsSent
    <2> QED
      BY <1>a, <2>3, <2>4, <2>5, <2>6, <2>7, OneRequestMoves
  <1>3. ASSUME NEW r \in Requests, Bump(r)
        PROVE  PayloadInv' /\ BehindIsSent'
    <2>1. UNCHANGED <<status, queueVars>> /\ rpc[r] = "bump" /\ Advance(r)
      BY <1>3 DEF Bump, At
    <2>2. Ahead(r, pos[r]) BY <2>1 DEF Ahead
    <2>3. <<r, pos[r]>> \notin Stored BY <1>a, <2>2, AheadIsAbsent
    <2>4. \A i \in DOMAIN Payload[r] : /\ Ahead(r, i)' => Ahead(r, i)
                                       /\ Behind(r, i)' => Behind(r, i) \/ i = pos[r]
      <3>1. \A i \in DOMAIN Payload[r] : /\ Ahead(r, i)' => i > pos[r]
                                         /\ Behind(r, i)' => i <= pos[r]
        BY <1>0, <2>1, AdvanceShape
      <3> QED BY <1>a, <3>1 DEF Ahead, Behind
    <2>5. /\ \A s \in Requests : s # r => rpc'[s] = rpc[s] /\ pos'[s] = pos[s]
          /\ rpc'[r] \in {"find", "respond"} /\ body' = body
          /\ status' = status /\ Stored' = Stored
      BY <1>0, <1>b, <2>1, AdvanceShape DEF queueVars
    <2>6. \A i \in DOMAIN Payload[r] : Ahead(r, i)' => <<r, i>> \notin Stored'
      BY <2>4, <2>5, AheadIsAbsent
    <2>7. \A i \in DOMAIN Payload[r] : Behind(r, i)' /\ <<r, i>> \in Stored'
             => \E m \in Messages : body'[m] = <<r, i>>
      BY <1>0, <2>1, <2>3, <2>4, <2>5 DEF BehindIsSent
    <2> QED
      BY <2>4, <2>5, <2>6, <2>7, OneRequestMoves
  <1>4. ASSUME NEW r \in Requests, PutNew(r) \/ StoreAnswerLost(r)
        PROVE  PayloadInv' /\ BehindIsSent'
    <2>1. /\ rpc[r] = "put" /\ UNCHANGED <<queueVars, pos>>
          /\ status' = [status EXCEPT ![InHand(r)] = "queued"]
          /\ rpc' = [rpc EXCEPT ![r] = "send"] \/ rpc' = rpc
      BY <1>4 DEF PutNew, StoreAnswerLost, At, Step, requestVars
    <2>2. /\ Stored' = Stored \cup {InHand(r)}
          /\ \A a \in Alerts : status'[a] = "triaged" => status[a] = "triaged"
      <3>1. \A a \in Alerts :
               status'[a] = IF a = InHand(r) THEN "queued" ELSE status[a]
        BY <1>0, <2>1 DEF SharedTypeOK
      <3> QED BY <1>a, <3>1 DEF Stored
    <2>3. /\ status[InHand(r)] # "triaged"
          /\ \A m \in Messages : body[m] # InHand(r)
      <3>1. rpc[r] = "put" BY <2>1
      <3> QED BY <1>0, <3>1 DEF PayloadInv, PutIsUnsent
    <2>4. \A i \in DOMAIN Payload[r] : /\ Ahead(r, i)' => Ahead(r, i) /\ i # pos[r]
                                       /\ Behind(r, i)' => Behind(r, i) /\ i # pos[r]
      BY <1>0, <1>a, <2>1 DEF Ahead, Behind, IngestTypeOK
    <2>5. \A i \in DOMAIN Payload[r] : i # pos[r] =>
             (<<r, i>> \in Stored' <=> <<r, i>> \in Stored)
      BY <1>a, <2>2, AlertPairs
    <2>6. \A i \in DOMAIN Payload[r] : Ahead(r, i)' => <<r, i>> \notin Stored'
      BY <2>4, <2>5, AheadIsAbsent
    <2>7. \A i \in DOMAIN Payload[r] : rpc'[r] # "failed" /\ Behind(r, i)' /\ <<r, i>> \in Stored'
             => \E m \in Messages : body'[m] = <<r, i>>
      BY <1>0, <2>1, <2>4, <2>5 DEF BehindIsSent, queueVars
    <2>8. \A s \in Requests : s # r => rpc'[s] = rpc[s] /\ pos'[s] = pos[s]
      BY <1>0, <2>1 DEF IngestTypeOK
    <2>9. rpc'[r] \in {"send", "put"} /\ body' = body
      BY <1>0, <2>1 DEF IngestTypeOK, queueVars
    <2>10. /\ \A a \in Stored' \ Stored : a = <<r, pos[r]>>
           /\ <<r, pos[r]>> \in Stored' /\ pos'[r] = pos[r]
           /\ status[<<r, pos[r]>>] # "triaged"
           /\ \A m \in Messages : body'[m] # <<r, pos[r]>>
      BY <1>a, <2>1, <2>2, <2>3, <2>9
    <2>11. \A i \in DOMAIN Payload[r] : Ahead(r, i)' => Ahead(r, i) BY <2>4
    <2>12. \A a \in Alerts : status'[a] = "triaged" => status[a] = "triaged" BY <2>2
    <2> QED
      BY <1>0, <2>6, <2>7, <2>8, <2>9, <2>10, <2>11, <2>12, OneRequestMoves
  <1>5. ASSUME NEW r \in Requests, NEW m \in Messages,
               Enqueue(r, m) \/ SendAnswerLost(r, m)
        PROVE  PayloadInv' /\ BehindIsSent'
    <2>1. /\ rpc[r] = "send" /\ Send(m, InHand(r)) /\ UNCHANGED status
          /\ Advance(r) \/ UNCHANGED <<rpc, pos>>
      BY <1>5 DEF Enqueue, SendAnswerLost, At, requestVars
    <2>2. /\ body' = [body EXCEPT ![m] = <<r, pos[r]>>] /\ body'[m] = <<r, pos[r]>>
          /\ Stored' = Stored
      BY <1>0, <1>a, <2>1 DEF Send, SharedTypeOK, Stored
    <2>3. \A i \in DOMAIN Payload[r] : /\ Ahead(r, i)' => Ahead(r, i)
                                       /\ Behind(r, i)' => Behind(r, i) \/ i = pos[r]
      <3>1. CASE Advance(r)
        <4>1. \A i \in DOMAIN Payload[r] : /\ Ahead(r, i)' => i > pos[r]
                                           /\ Behind(r, i)' => i <= pos[r]
          BY <1>0, <3>1, AdvanceShape
        <4> QED BY <1>a, <4>1 DEF Ahead, Behind
      <3>2. CASE UNCHANGED <<rpc, pos>> BY <3>2 DEF Ahead, Behind
      <3> QED BY <2>1, <3>1, <3>2
    <2>4. \A i \in DOMAIN Payload[r] : Ahead(r, i)' => <<r, i>> \notin Stored'
      BY <2>2, <2>3, AheadIsAbsent
    <2>5. \A i \in DOMAIN Payload[r] : rpc'[r] # "failed" /\ Behind(r, i)' /\ <<r, i>> \in Stored'
             => \E n \in Messages : body'[n] = <<r, i>>
      <3>1. \A i \in DOMAIN Payload[r] : <<r, i>> # None
        BY IngestAssumption, NoneAssumption
      <3> QED BY <1>0, <2>1, <2>2, <2>3, <3>1 DEF BehindIsSent
    <2>6. /\ \A s \in Requests : s # r => rpc'[s] = rpc[s] /\ pos'[s] = pos[s]
          /\ rpc'[r] \in {"find", "respond", "send"}
          /\ rpc'[r] = "send" => pos'[r] = pos[r]
      BY <1>0, <2>1, AdvanceShape
    <2>7. <<r, pos[r]>> \in Stored BY <1>0, <1>a, <2>1 DEF PayloadInv, SendIsStored
    <2>8. \A n \in Messages : body'[n] # body[n] => body'[n] = <<r, pos[r]>>
      BY <1>0, <2>2 DEF SharedTypeOK
    <2>9. status' = status BY <2>1
    <2> QED
      BY <1>0, <2>2, <2>3, <2>4, <2>5, <2>6, <2>7, <2>8, <2>9, OneRequestMoves
  <1>6. ASSUME UNCHANGED <<status, queueVars, rpc, pos>>
        PROVE  PayloadInv' /\ BehindIsSent'
    BY <1>0, <1>6
    DEF PayloadInv, UnbornIsFirst, StoredIsOfRequest, PutIsUnsent, SendIsStored,
        BehindIsSent, Ahead, Behind, InHand, Stored, queueVars
  <1> QED
    BY <1>1, <1>2, <1>3, <1>4, <1>5, <1>6
    DEF IngestNext, BumpAnswerLost, IndexItem, Tick, requestVars

\* The index only ever holds what is stored.
LEMMA IndexStep == ASSUME IngestInv, IngestNext PROVE IndexedIsStored'
  <1>1. Stored \subseteq Stored' /\ indexed \subseteq Stored
    BY IngestQueueStep DEF IngestInv, IndexedIsStored
  <1>2. indexed' = indexed \/ \E a \in Alerts : status[a] # "absent" /\ indexed' = indexed \cup {a}
    BY DEF IngestNext, Accept, FindOpen, Bump, BumpAnswerLost, PutNew, StoreAnswerLost,
           Enqueue, SendAnswerLost, Respond, RequestFails, IndexItem, Tick
  <1> QED BY <1>1, <1>2 DEF IndexedIsStored, Stored

\* What find_open saw and passed over was too old: an item the index holds is
\* stored, hence open, so only its age can have kept it out of the answer.
LEMMA PassedOverIsOld ==
    ASSUME IngestInv, NEW r \in Requests, OpenMatches(InHand(r)) = {},
           NEW b \in indexed, Fingerprint(b) = Fingerprint(InHand(r))
    PROVE  ReceivedAt(b) < ReceivedAt(InHand(r)) - Window
  <1>0. SharedTypeOK /\ IngestTypeOK /\ IndexedIsStored /\ PayloadInv BY DEF IngestInv
  <1>1. b \in Alerts /\ status[b] \in {"queued", "triaged"}
    BY <1>0 DEF IndexedIsStored, Stored, SharedTypeOK, Statuses
  <1>2. \E s \in Requests : \E i \in DOMAIN Payload[s] : b = <<s, i>>
    BY <1>0 DEF IndexedIsStored, PayloadInv, StoredIsOfRequest
  <1>3. ReceivedAt(b) \in Nat /\ ReceivedAt(InHand(r)) \in Nat
    <2>1. InHand(r) = <<r, pos[r]>> BY <1>0, InHandFacts
    <2>2. \A s \in Requests : receivedAt[s] \in Nat
      BY <1>0, IngestAssumption DEF IngestTypeOK
    <2> QED BY <1>2, <2>1, <2>2 DEF ReceivedAt
  <1>4. ~(ReceivedAt(b) >= ReceivedAt(InHand(r)) - Window)
    BY <1>1 DEF OpenMatches
  <1> QED BY <1>3, <1>4, IngestAssumption

\* received_at is read once, by a request that has stored nothing yet.
LEMMA ReceivedAtStays ==
    ASSUME IngestInv, IngestNext, NEW s \in Requests, rpc[s] # "unborn"
    PROVE  rpc'[s] # "unborn" /\ receivedAt'[s] = receivedAt[s]
  <1>0. IngestTypeOK BY DEF IngestInv
  <1>1. ASSUME NEW r \in Requests, Accept(r)
        PROVE  rpc'[s] # "unborn" /\ receivedAt'[s] = receivedAt[s]
    BY <1>0, <1>1 DEF Accept, At, Step, IngestTypeOK
  <1>2. ASSUME NEW r \in Requests, Advance(r)
        PROVE  rpc'[s] # "unborn"
    BY <1>0, <1>2, AdvanceShape
  <1>3. ASSUME NEW r \in Requests, Bump(r) \/ \E m \in Messages : Enqueue(r, m)
        PROVE  rpc'[s] # "unborn" /\ receivedAt'[s] = receivedAt[s]
    BY <1>2, <1>3 DEF Bump, Enqueue
  <1>4. ASSUME NEW r \in Requests,
               FindOpen(r) \/ PutNew(r) \/ Respond(r) \/ RequestFails(r)
        PROVE  rpc'[s] # "unborn" /\ receivedAt'[s] = receivedAt[s]
    <2>1. /\ receivedAt' = receivedAt
          /\ \E step \in {"put", "bump", "send", "accepted", "failed"} :
                rpc' = [rpc EXCEPT ![r] = step]
      BY <1>4 DEF FindOpen, PutNew, Respond, RequestFails, Step
    <2> QED BY <1>0, <2>1 DEF IngestTypeOK
  <1>5. ASSUME UNCHANGED <<rpc, receivedAt>>
        PROVE  rpc'[s] # "unborn" /\ receivedAt'[s] = receivedAt[s]
    BY <1>5
  <1> QED
    BY <1>1, <1>3, <1>4, <1>5
    DEF IngestNext, BumpAnswerLost, StoreAnswerLost, SendAnswerLost, IndexItem, Tick,
        requestVars

\* What an alert's look at the index showed stays older than the window.
LEMMA SeenStep == ASSUME IngestInv, IngestNext PROVE SeenIsOld'
  <1>0. /\ IngestTypeOK /\ IndexedIsStored /\ SeenIsOld /\ PayloadInv
    BY DEF IngestInv
  <1>1. indexed \subseteq indexed'
    BY DEF IngestNext, Accept, FindOpen, Bump, BumpAnswerLost, PutNew, StoreAnswerLost,
           Enqueue, SendAnswerLost, Respond, RequestFails, IndexItem, Tick
  <1>2. ASSUME NEW b \in indexed
        PROVE  ReceivedAt(b)' = ReceivedAt(b)
    <2>1. PICK s \in Requests : \E i \in DOMAIN Payload[s] : b = <<s, i>> /\ ~Ahead(s, i)
      BY <1>0 DEF IndexedIsStored, PayloadInv, StoredIsOfRequest
    <2>2. PICK i \in DOMAIN Payload[s] : b = <<s, i>> /\ ~Ahead(s, i) BY <2>1
    <2>3. rpc[s] # "unborn"
      <3>1. i \in 1 .. Len(Payload[s]) /\ pos[s] \in Nat
        BY <1>0, InHandFacts
      <3> QED BY <1>0, <2>2, <3>1 DEF Ahead, PayloadInv, UnbornIsFirst
    <2> QED BY <2>2, <2>3, ReceivedAtStays DEF ReceivedAt
  <1>3. ASSUME NEW a \in Alerts, NEW b \in seen[a]
        PROVE  /\ b \in indexed' /\ ReceivedAt(b)' < ReceivedAt(a)' - Window
               /\ \E r \in Requests : \E i \in DOMAIN Payload[r] :
                     a = <<r, i>> /\ rpc'[r] # "unborn"
    <2>1. /\ b \in indexed /\ ReceivedAt(b) < ReceivedAt(a) - Window
          /\ \E r \in Requests : \E i \in DOMAIN Payload[r] :
                a = <<r, i>> /\ rpc[r] # "unborn"
      BY <1>0 DEF SeenIsOld
    <2>2. ReceivedAt(b)' = ReceivedAt(b) BY <1>2, <2>1
    <2>3. ReceivedAt(a)' = ReceivedAt(a) BY <2>1, ReceivedAtStays DEF ReceivedAt
    <2>4. \E r \in Requests : \E i \in DOMAIN Payload[r] : a = <<r, i>> /\ rpc'[r] # "unborn"
      BY <2>1, ReceivedAtStays
    <2> QED BY <1>1, <2>1, <2>2, <2>3, <2>4
  <1>4. CASE seen' = seen BY <1>3, <1>4 DEF SeenIsOld
  <1>5. CASE seen' # seen
    <2>1. PICK r \in Requests : FindOpen(r)
      BY <1>5
      DEF IngestNext, Accept, Bump, BumpAnswerLost, PutNew, StoreAnswerLost, Enqueue,
          SendAnswerLost, Respond, RequestFails, IndexItem, Tick
    <2>2. /\ OpenMatches(InHand(r)) = {} /\ rpc[r] = "find" /\ receivedAt' = receivedAt
          /\ indexed' = indexed
          /\ seen' = [seen EXCEPT ![InHand(r)] =
                {b \in indexed : Fingerprint(b) = Fingerprint(InHand(r))}]
      BY <1>5, <2>1 DEF FindOpen, At
    <2>3. InHand(r) = <<r, pos[r]>> /\ pos[r] \in DOMAIN Payload[r]
      BY <1>0, InHandFacts
    <2> SUFFICES ASSUME NEW a \in Alerts, NEW b \in seen'[a]
                 PROVE  /\ b \in indexed' /\ ReceivedAt(b)' < ReceivedAt(a)' - Window
                        /\ \E s \in Requests : \E i \in DOMAIN Payload[s] :
                              a = <<s, i>> /\ rpc'[s] # "unborn"
      BY DEF SeenIsOld
    <2>4. CASE a = InHand(r)
      <3>1. b \in indexed /\ Fingerprint(b) = Fingerprint(a)
        BY <1>0, <2>2, <2>4 DEF IngestTypeOK
      <3>2. ReceivedAt(b) < ReceivedAt(a) - Window
        BY <2>2, <2>4, <3>1, PassedOverIsOld
      <3>3. ReceivedAt(b)' = ReceivedAt(b) /\ ReceivedAt(a)' = ReceivedAt(a)
        BY <2>2 DEF ReceivedAt
      <3>4. rpc'[r] # "unborn" BY <2>2, ReceivedAtStays
      <3> QED BY <2>2, <2>3, <2>4, <3>1, <3>2, <3>3, <3>4
    <2>5. CASE a # InHand(r)
      <3>1. b \in seen[a] BY <1>0, <2>2, <2>5 DEF IngestTypeOK
      <3> QED BY <1>3, <3>1
    <2> QED BY <2>4, <2>5
  <1> QED BY <1>4, <1>5

\* Every step of ingest keeps the invariant.
LEMMA IngestStep == ASSUME IngestInv, IngestNext PROVE IngestInv'
  BY IngestTypeStep, IngestQueueStep, PayloadStep, IndexStep, SeenStep DEF IngestInv

\* So does a step of another component that stores no alert and removes none,
\* keeps what was sent, sends only what was sent before, and triages only what
\* was sent.
LEMMA OthersStep ==
    ASSUME IngestInv, UNCHANGED ingestVars, SharedTypeOK',
           \A a \in Alerts : status'[a] = "absent" <=> status[a] = "absent",
           \A a \in Alerts : status'[a] = "triaged" =>
               status[a] = "triaged" \/ \E m \in Messages : body[m] = a,
           \A m \in Messages : body[m] # None => body'[m] = body[m],
           \A m \in Messages : body'[m] # None => \E n \in Messages : body[n] = body'[m],
           UnsentHasNoBody'
    PROVE  IngestInv'
  <1> USE DEF ingestVars, requestVars
  <1>0. /\ SharedTypeOK /\ IngestTypeOK /\ QueueInv /\ PayloadInv /\ BehindIsSent
        /\ IndexedIsStored /\ SeenIsOld
    BY DEF IngestInv
  <1>1. Stored' = Stored BY DEF Stored
  <1>2. IngestTypeOK' BY <1>0 DEF IngestTypeOK
  <1>3. BodyIsStored' BY <1>0, <1>1 DEF QueueInv, BodyIsStored
  <1>4. UnbornIsFirst' BY <1>0 DEF PayloadInv, UnbornIsFirst
  <1>5. StoredIsOfRequest' BY <1>0, <1>1 DEF PayloadInv, StoredIsOfRequest, Ahead
  <1>6. \A r \in Requests : InHand(r)' = InHand(r) /\ InHand(r) \in Alerts
    BY <1>0, InHandFacts DEF InHand
  <1>7. PutIsUnsent'
    <2> SUFFICES ASSUME NEW r \in Requests, rpc[r] = "put"
                 PROVE  /\ status'[InHand(r)] # "triaged"
                        /\ \A m \in Messages : body'[m] # InHand(r)
      BY <1>6 DEF PutIsUnsent
    <2>1. status[InHand(r)] # "triaged" /\ \A m \in Messages : body[m] # InHand(r)
      BY <1>0 DEF PayloadInv, PutIsUnsent
    <2> QED BY <1>6, <2>1, NoneAssumption
  <1>8. SendIsStored' BY <1>0, <1>1, <1>6 DEF PayloadInv, SendIsStored
  <1>9. BehindIsSent'
    <2>1. \A r \in Requests : \A i \in DOMAIN Payload[r] : <<r, i>> # None
      BY IngestAssumption, NoneAssumption
    <2> QED BY <1>0, <1>1, <2>1 DEF BehindIsSent, Behind
  <1>10. IndexedIsStored' BY <1>0, <1>1 DEF IndexedIsStored
  <1>11. SeenIsOld' BY <1>0 DEF SeenIsOld, ReceivedAt
  <1> QED
    BY <1>2, <1>3, <1>4, <1>5, <1>7, <1>8, <1>9, <1>10, <1>11
    DEF IngestInv, QueueInv, PayloadInv

\* The worker's effect on the table is such a step.
LEMMA JudgeStep == ASSUME IngestInv, NEW a \in Alerts, Judge(a) PROVE IngestInv'
  <1>0. SharedTypeOK /\ QueueInv BY DEF IngestInv
  <1>1. /\ status[a] = "queued" /\ \E m \in Messages : body[m] = a
        /\ status' = [status EXCEPT ![a] = "triaged"]
        /\ UNCHANGED ingestVars /\ UNCHANGED <<sqs, body, receives>>
    BY DEF Judge, queueVars
  <1>2. SharedTypeOK' BY <1>0, <1>1 DEF SharedTypeOK, Statuses
  <1>3. \A b \in Alerts : status'[b] = IF b = a THEN "triaged" ELSE status[b]
    BY <1>0, <1>1 DEF SharedTypeOK
  <1>4. UnsentHasNoBody' BY <1>0, <1>1 DEF QueueInv, UnsentHasNoBody
  <1> QED BY <1>1, <1>2, <1>3, <1>4, OthersStep

-------------------------------------------------------------------------------
(* Theorems.                                                                *)

\* IngestInv holds in every reachable state, for any requests, payloads and
\* fingerprints, any window, any delay of the index and any repeated calls.
THEOREM IngestInvariant == IngestSpec => []IngestInv
  <1>1. IngestAloneInit => IngestInv BY IngestInitInv DEF IngestAloneInit
  <1>2. IngestInv /\ [IngestAlone]_ivars => IngestInv'
    <2>1. ASSUME IngestInv, UNCHANGED ivars PROVE IngestInv'
      <3>1. UNCHANGED ingestVars /\ UNCHANGED <<status, sqs, body, receives>>
        BY <2>1 DEF ivars, queueVars
      <3>2. SharedTypeOK' /\ UnsentHasNoBody'
        BY <2>1, <3>1 DEF IngestInv, SharedTypeOK, QueueInv, UnsentHasNoBody
      <3> QED BY <2>1, <3>1, <3>2, OthersStep
    <2> QED BY <2>1, IngestStep, JudgeStep DEF IngestAlone
  <1> QED BY <1>1, <1>2, PTL DEF IngestSpec

\* Every variable has its type, always.
THEOREM IngestTypeCorrect == IngestSpec => []IngestAloneTypeOK
  <1>1. IngestInv => IngestAloneTypeOK BY DEF IngestInv, IngestAloneTypeOK
  <1> QED BY <1>1, IngestInvariant, PTL

\* What the index showed find_open is older than the window.
LEMMA RaceFromInv == IngestInv => DuplicateOnlyByRace
  BY DEF IngestInv, SeenIsOld, DuplicateOnlyByRace, Stored

\* A duplicate inside the window is always the index's lag or a race: nothing
\* else that invocations do, in any number and order, stores one.
THEOREM DuplicatesNeedARace == IngestSpec => []DuplicateOnlyByRace
  BY RaceFromInv, IngestInvariant, PTL

\* What an accepted request stored lies behind it, and what lies behind is sent.
LEMMA SentFromInv == IngestInv => AcceptedIsEnqueued
  <1>1. ASSUME IngestInv PROVE AcceptedIsEnqueued
    <2> SUFFICES ASSUME NEW a \in Stored, rpc[a[1]] = "accepted"
                 PROVE  \E m \in Messages : body[m] = a
      BY DEF AcceptedIsEnqueued
    <2>0. IngestTypeOK /\ PayloadInv /\ BehindIsSent BY <1>1 DEF IngestInv
    <2>1. PICK r \in Requests : \E i \in DOMAIN Payload[r] : a = <<r, i>> /\ ~Ahead(r, i)
      BY <2>0 DEF PayloadInv, StoredIsOfRequest
    <2>2. PICK i \in DOMAIN Payload[r] : a = <<r, i>> /\ ~Ahead(r, i) BY <2>1
    <2>3. rpc[r] = "accepted" BY <2>2
    <2>4. i \in 1 .. Len(Payload[r]) /\ pos[r] \in Nat
      BY <2>0, InHandFacts
    <2>5. Behind(r, i) BY <2>2, <2>3, <2>4 DEF Ahead, Behind
    <2> QED BY <2>0, <2>2, <2>3, <2>5 DEF BehindIsSent
  <1> QED BY <1>1

\* An accepted request has had the id of every alert it stored sent.
THEOREM AcceptedAreEnqueued == IngestSpec => []AcceptedIsEnqueued
  BY SentFromInv, IngestInvariant, PTL

-------------------------------------------------------------------------------
(* What makes OccurrencesAddUp and EnqueuedOnceStored inductive.            *)

\* The alerts the requests have come to.
Reached == {a \in Alerts : rpc[a[1]] # "unborn" /\ a[2] <= pos[a[1]]}

\* Of these, the alerts that were counted for certain, in their own item or in the
\* item that absorbed them.
Handled == {a \in Alerts :
              \/ a[2] < pos[a[1]]
              \/ a[2] = pos[a[1]] /\ rpc[a[1]] \in {"send", "respond", "accepted"}}

\* The alerts that may have been counted.
Touched == {a \in Alerts :
              \/ a[2] < pos[a[1]]
              \/ /\ a[2] = pos[a[1]]
                 /\ rpc[a[1]] \in {"respond", "accepted", "failed"} \/ a \in Stored}

\* The alerts of one fingerprint.
Of(fp) == {a \in Alerts : Fingerprint(a) = fp}

\* The fingerprints of all alerts.
Fingerprints == UNION {Range(Payload[r]) : r \in Requests}

\* What a request is about to bump is in the table and has the fingerprint of the
\* alert in hand.
MatchIsStored ==
    \A r \in Requests : rpc[r] = "bump" =>
        match[r] \in Stored /\ Fingerprint(match[r]) = Fingerprint(InHand(r))

\* A put stores an alert the table does not have, unless an earlier put's answer
\* was lost.
PutIsNew == lost["put"] = 0 => \A r \in Requests : rpc[r] = "put" => InHand(r) \notin Stored

\* A request answers when the last alert of its payload is in hand.
RespondsAtTheEnd ==
    \A r \in Requests : rpc[r] \in {"respond", "accepted"} => pos[r] = Len(Payload[r])

\* A stored alert has occurred at least once.
StoredOccurred == \A a \in Stored : occurrences[a] >= 1

\* The sum lies between the alerts counted for certain and those that may have
\* been, plus the bumps made again.
AddsUp ==
    \A fp \in Fingerprints :
        /\ lost["put"] = 0 => Cardinality(Handled \cap Of(fp)) <= Counted(fp)
        /\ Counted(fp) <= Cardinality(Touched \cap Of(fp)) + lost["bump"]

\* Together these are inductive, beside IngestInv.
CountInv ==
    /\ IsFiniteSet(Reached)
    /\ MatchIsStored /\ PutIsNew /\ RespondsAtTheEnd /\ StoredOccurred
    /\ AddsUp

\* The messages sent.
SentMessages == {m \in Messages : body[m] # None}

\* The alerts they are about.
SentAlerts == {body[m] : m \in Messages} \ {None}

\* The requests about to send again what a lost answer hides.
SendsAgain == {r \in Requests : rpc[r] = "send" /\ InHand(r) \in SentAlerts}

\* Every message is the first about its alert or one that a lost answer made the
\* SDK send again; a request that has yet to do so is counted beforehand.
SendsAddUp ==
    /\ IsFiniteSet(SentMessages) /\ IsFiniteSet(SendsAgain)
    /\ Cardinality(SentMessages) + Cardinality(SendsAgain)
          <= Cardinality(SentAlerts) + lost["send"]

-------------------------------------------------------------------------------
(* What the counts rest on.                                                *)

\* The parts of an alert's id.
LEMMA AlertParts ==
    ASSUME IngestTypeOK, NEW a \in Alerts
    PROVE  /\ a = <<a[1], a[2]>> /\ a[1] \in Requests /\ a[2] \in DOMAIN Payload[a[1]]
           /\ a[2] \in Nat /\ a[2] >= 1 /\ pos[a[1]] \in Nat
           /\ Fingerprint(a) \in Fingerprints
  <1>1. PICK r \in Requests : \E i \in DOMAIN Payload[r] : a = <<r, i>> BY IngestAssumption
  <1>2. PICK i \in DOMAIN Payload[r] : a = <<r, i>> BY <1>1
  <1>3. a[1] = r /\ a[2] = i BY <1>2
  <1>4. DOMAIN Payload[r] = 1 .. Len(Payload[r]) /\ Len(Payload[r]) \in Nat /\ pos[r] \in Nat
    BY InHandFacts
  <1>5. Payload[r][i] \in Range(Payload[r]) BY <1>2 DEF Range
  <1> QED BY <1>2, <1>3, <1>4, <1>5 DEF Fingerprint, Fingerprints

\* Stored alerts may have been counted; counted or not, an alert has been reached.
LEMMA CountSets ==
    ASSUME IngestInv
    PROVE  /\ Stored \subseteq Touched /\ Handled \subseteq Reached /\ Touched \subseteq Reached
  <1>0. IngestTypeOK /\ PayloadInv BY DEF IngestInv
  <1>1. \A a \in Alerts : rpc[a[1]] = "unborn" => pos[a[1]] = 1 /\ a \notin Stored
    <2> SUFFICES ASSUME NEW a \in Alerts, rpc[a[1]] = "unborn" PROVE pos[a[1]] = 1 /\ a \notin Stored
      OBVIOUS
    <2>1. pos[a[1]] = 1 BY <1>0, AlertParts DEF PayloadInv, UnbornIsFirst
    <2>2. Ahead(a[1], a[2]) BY <1>0, <2>1, AlertParts DEF Ahead
    <2> QED BY <1>0, <2>1, <2>2, AlertParts, AheadIsAbsent
  <1>2. Stored \subseteq Touched
    <2> SUFFICES ASSUME NEW a \in Stored PROVE a \in Touched OBVIOUS
    <2>1. PICK r \in Requests : \E i \in DOMAIN Payload[r] : a = <<r, i>> /\ ~Ahead(r, i)
      BY <1>0 DEF PayloadInv, StoredIsOfRequest
    <2>2. a[1] = r /\ a \in Alerts /\ ~Ahead(a[1], a[2]) BY <2>1 DEF Stored
    <2> QED BY <1>0, <2>2, AlertParts DEF Ahead, Touched
  <1>3. Handled \subseteq Reached
    <2> SUFFICES ASSUME NEW a \in Handled PROVE a \in Reached OBVIOUS
    <2>1. a \in Alerts /\ a[2] \in Nat /\ a[2] >= 1 /\ pos[a[1]] \in Nat
      BY <1>0, AlertParts DEF Handled
    <2> QED BY <1>1, <2>1 DEF Handled, Reached
  <1>4. Touched \subseteq Reached
    <2> SUFFICES ASSUME NEW a \in Touched PROVE a \in Reached OBVIOUS
    <2>1. a \in Alerts /\ a[2] \in Nat /\ a[2] >= 1 /\ pos[a[1]] \in Nat
      BY <1>0, AlertParts DEF Touched
    <2> QED BY <1>1, <2>1 DEF Touched, Reached
  <1> QED BY <1>2, <1>3, <1>4

\* So all of them are finite, whatever Alerts is.
LEMMA CountsAreNat ==
    ASSUME IngestInv, IsFiniteSet(Reached), NEW fp
    PROVE  /\ IsFiniteSet(Handled \cap Of(fp)) /\ Cardinality(Handled \cap Of(fp)) \in Nat
           /\ IsFiniteSet(Touched \cap Of(fp)) /\ Cardinality(Touched \cap Of(fp)) \in Nat
           /\ IsFiniteSet({a \in Stored : Fingerprint(a) = fp})
           /\ \A a \in Stored : occurrences[a] \in Nat
           /\ Counted(fp) \in Nat
           /\ lost["bump"] \in Nat /\ lost["put"] \in Nat
  <1>1. IsFiniteSet(Handled \cap Of(fp)) /\ IsFiniteSet(Touched \cap Of(fp))
        /\ IsFiniteSet({a \in Stored : Fingerprint(a) = fp})
    BY CountSets, FS_Subset
  <1>2. \A a \in Stored : occurrences[a] \in Nat BY DEF IngestInv, IngestTypeOK, Stored
  <1> DEFINE S == {a \in Stored : Fingerprint(a) = fp}
  <1>3. IsFiniteSet(S) /\ \A a \in S : occurrences[a] \in Nat BY <1>1, <1>2
  <1>4. SumFunctionOnSet(occurrences, S) \in Nat
    <2> HIDE DEF S
    <2> QED BY <1>3, SumIsNat
  <1>5. lost["bump"] \in Nat /\ lost["put"] \in Nat
    BY IngestAssumption DEF IngestInv, IngestTypeOK, CalledAt
  <1> QED BY <1>1, <1>2, <1>4, <1>5, FS_CardinalityType DEF Counted

\* The same after a step.
LEMMA CountSetsNext ==
    IngestInv' => Stored' \subseteq Touched' /\ Handled' \subseteq Reached' /\ Touched' \subseteq Reached'
  <1> DEFINE Sets == Stored \subseteq Touched /\ Handled \subseteq Reached /\ Touched \subseteq Reached
  <1>1. IngestInv => Sets BY CountSets
  <1>2. IngestInv' => Sets'
    <2> HIDE DEF Sets
    <2> QED BY <1>1, PTL
  <1> QED BY <1>2

\* A step that stores and bumps nothing keeps the sums, and what they are held
\* against.
LEMMA CountQuietly ==
    ASSUME IngestInv, IngestInv', CountInv, IsFiniteSet(Reached)', Stored' = Stored,
           occurrences' = occurrences, lost'["put"] = lost["put"], lost'["bump"] = lost["bump"],
           Handled' \subseteq Handled, Touched \subseteq Touched'
    PROVE  StoredOccurred' /\ AddsUp'
  <1>1. StoredOccurred' BY DEF CountInv, StoredOccurred
  <1>2. AddsUp'
    <2> SUFFICES ASSUME NEW fp \in Fingerprints
                 PROVE  /\ lost'["put"] = 0 => Cardinality(Handled' \cap Of(fp)) <= Counted(fp)'
                        /\ Counted(fp)' <= Cardinality(Touched' \cap Of(fp)) + lost'["bump"]
      BY DEF AddsUp, Of, Fingerprint, Fingerprints
    <2>1. Counted(fp)' = Counted(fp) BY DEF Counted, Fingerprint
    <2>2. /\ lost["put"] = 0 => Cardinality(Handled \cap Of(fp)) <= Counted(fp)
          /\ Counted(fp) <= Cardinality(Touched \cap Of(fp)) + lost["bump"]
      BY DEF CountInv, AddsUp
    <2>3. /\ IsFiniteSet(Handled \cap Of(fp)) /\ Cardinality(Handled \cap Of(fp)) \in Nat
          /\ Cardinality(Touched \cap Of(fp)) \in Nat
          /\ Counted(fp) \in Nat /\ lost["bump"] \in Nat
      BY CountsAreNat DEF CountInv
    <2>4. /\ IsFiniteSet(Touched' \cap Of(fp)) /\ Cardinality(Touched' \cap Of(fp)) \in Nat
          /\ Cardinality(Handled' \cap Of(fp)) \in Nat
      <3>1. Touched' \subseteq Reached' /\ Handled' \subseteq Reached' BY CountSetsNext
      <3>2. IsFiniteSet(Touched' \cap Of(fp)) /\ IsFiniteSet(Handled' \cap Of(fp))
        BY <3>1, FS_Subset
      <3> QED BY <3>2, FS_CardinalityType
    <2>5. Cardinality(Handled' \cap Of(fp)) <= Cardinality(Handled \cap Of(fp))
      <3>1. Handled' \cap Of(fp) \subseteq Handled \cap Of(fp) OBVIOUS
      <3> QED BY <2>3, <3>1, FS_Subset
    <2>6. Cardinality(Touched \cap Of(fp)) <= Cardinality(Touched' \cap Of(fp))
      <3>1. Touched \cap Of(fp) \subseteq Touched' \cap Of(fp) OBVIOUS
      <3> QED BY <2>4, <3>1, FS_Subset
    <2> QED BY <2>1, <2>2, <2>3, <2>4, <2>5, <2>6
  <1> QED BY <1>1, <1>2

\* The size of a set of alerts of one fingerprint, when one alert joins it.
LEMMA OneMore ==
    ASSUME NEW A, NEW B, NEW h, NEW fp, IsFiniteSet(A \cap Of(fp)), h \notin A
    PROVE  /\ B \subseteq A \cup {h} /\ IsFiniteSet(B \cap Of(fp)) =>
                  Cardinality(B \cap Of(fp)) <= Cardinality(A \cap Of(fp)) + 1
           /\ B \subseteq A \cup {h} /\ h \notin Of(fp) =>
                  Cardinality(B \cap Of(fp)) <= Cardinality(A \cap Of(fp))
           /\ A \cup {h} \subseteq B /\ IsFiniteSet(B \cap Of(fp)) /\ h \in Of(fp) =>
                  Cardinality(A \cap Of(fp)) + 1 <= Cardinality(B \cap Of(fp))
           /\ A \subseteq B /\ IsFiniteSet(B \cap Of(fp)) =>
                  Cardinality(A \cap Of(fp)) <= Cardinality(B \cap Of(fp))
  <1> DEFINE C == A \cap Of(fp)
             D == B \cap Of(fp)
  <1>1. IsFiniteSet(C \cup {h}) /\ Cardinality(C \cup {h}) = Cardinality(C) + 1
    BY FS_AddElement
  <1>2. B \subseteq A \cup {h} => D \subseteq C \cup {h} OBVIOUS
  <1>3. B \subseteq A \cup {h} /\ h \notin Of(fp) => D \subseteq C OBVIOUS
  <1>4. A \cup {h} \subseteq B /\ h \in Of(fp) => C \cup {h} \subseteq D OBVIOUS
  <1>5. A \subseteq B => C \subseteq D OBVIOUS
  <1> HIDE DEF C, D
  <1>6. /\ D \subseteq C \cup {h} => Cardinality(D) <= Cardinality(C) + 1
        /\ D \subseteq C => Cardinality(D) <= Cardinality(C)
        /\ IsFiniteSet(D) /\ C \cup {h} \subseteq D => Cardinality(C) + 1 <= Cardinality(D)
        /\ IsFiniteSet(D) /\ C \subseteq D => Cardinality(C) <= Cardinality(D)
    <2>1. IsFiniteSet(C) BY DEF C
    <2>2. D \subseteq C \cup {h} => Cardinality(D) <= Cardinality(C) + 1 BY <1>1, FS_Subset
    <2>3. D \subseteq C => Cardinality(D) <= Cardinality(C) BY <2>1, FS_Subset
    <2>4. IsFiniteSet(D) /\ C \cup {h} \subseteq D => Cardinality(C) + 1 <= Cardinality(D)
      BY <1>1, FS_Subset
    <2>5. IsFiniteSet(D) /\ C \subseteq D => Cardinality(C) <= Cardinality(D) BY FS_Subset
    <2> QED BY <2>2, <2>3, <2>4, <2>5
  <1> QED BY <1>2, <1>3, <1>4, <1>5, <1>6 DEF C, D

\* A bump adds one to its fingerprint's sum, and to what the sum is held against.
LEMMA CountBumped ==
    ASSUME IngestInv, IngestInv', CountInv, IsFiniteSet(Reached)', Stored' = Stored,
           NEW b \in Stored, NEW h \in Alerts, Fingerprint(h) = Fingerprint(b),
           h \notin Touched, h \notin Handled,
           occurrences' = [occurrences EXCEPT ![b] = @ + 1], lost'["put"] = lost["put"],
           \/ /\ lost'["bump"] = lost["bump"] /\ Handled' \subseteq Handled \cup {h}
              /\ Touched \cup {h} \subseteq Touched'
           \/ /\ lost'["bump"] = lost["bump"] + 1 /\ Handled' \subseteq Handled
              /\ Touched \subseteq Touched'
    PROVE  StoredOccurred' /\ AddsUp'
  <1>0. /\ occurrences \in [Alerts -> Nat] /\ Stored \subseteq Alerts
        /\ \A a \in Alerts : occurrences'[a] = IF a = b THEN occurrences[a] + 1 ELSE occurrences[a]
    BY DEF IngestInv, IngestTypeOK, Stored
  <1>1. StoredOccurred' BY <1>0 DEF CountInv, StoredOccurred
  <1>2. AddsUp'
    <2> SUFFICES ASSUME NEW fp \in Fingerprints
                 PROVE  /\ lost'["put"] = 0 => Cardinality(Handled' \cap Of(fp)) <= Counted(fp)'
                        /\ Counted(fp)' <= Cardinality(Touched' \cap Of(fp)) + lost'["bump"]
      BY DEF AddsUp, Of, Fingerprint, Fingerprints
    <2> DEFINE S == {a \in Stored : Fingerprint(a) = fp}
    <2>2. /\ lost["put"] = 0 => Cardinality(Handled \cap Of(fp)) <= Counted(fp)
          /\ Counted(fp) <= Cardinality(Touched \cap Of(fp)) + lost["bump"]
      BY DEF CountInv, AddsUp
    <2>3. /\ IsFiniteSet(Handled \cap Of(fp)) /\ Cardinality(Handled \cap Of(fp)) \in Nat
          /\ IsFiniteSet(Touched \cap Of(fp)) /\ Cardinality(Touched \cap Of(fp)) \in Nat
          /\ Counted(fp) \in Nat /\ lost["bump"] \in Nat /\ IsFiniteSet(S)
      BY CountsAreNat DEF CountInv
    <2>4. /\ IsFiniteSet(Touched' \cap Of(fp)) /\ Cardinality(Touched' \cap Of(fp)) \in Nat
          /\ IsFiniteSet(Handled' \cap Of(fp)) /\ Cardinality(Handled' \cap Of(fp)) \in Nat
      <3>1. Touched' \subseteq Reached' /\ Handled' \subseteq Reached' BY CountSetsNext
      <3>2. IsFiniteSet(Touched' \cap Of(fp)) /\ IsFiniteSet(Handled' \cap Of(fp))
        BY <3>1, FS_Subset
      <3> QED BY <3>2, FS_CardinalityType
    <2>4a. PICK old, new : old = occurrences /\ new = occurrences' OBVIOUS
    <2>5. Counted(fp) = SumFunctionOnSet(old, S) BY <2>4a DEF Counted
    <2>6. Counted(fp)' = SumFunctionOnSet(new, S) BY <2>4a DEF Counted, Fingerprint
    <2>7. \A a \in S : old[a] \in Nat /\ new[a] \in Nat BY <1>0, <2>4a
    <2>8. Counted(fp)' = Counted(fp) + (IF Fingerprint(h) = fp THEN 1 ELSE 0)
      <3>1. CASE Fingerprint(h) = fp
        <4>1. b \in S /\ (\A a \in S : a # b => new[a] = old[a])
              /\ new[b] = old[b] + 1 /\ old[b] \in Nat
          BY <1>0, <2>4a, <3>1
        <4>2. SumFunctionOnSet(new, S) + old[b]
                = SumFunctionOnSet(old, S) + new[b]
          <5> HIDE DEF S
          <5> QED BY <2>3, <2>7, <4>1, SumChanges
        <4>3. SumFunctionOnSet(new, S) \in Nat
          <5> HIDE DEF S
          <5> QED BY <2>3, <2>7, SumIsNat
        <4> HIDE DEF S
        <4> QED BY <2>3, <2>5, <2>6, <3>1, <4>1, <4>2, <4>3
      <3>2. CASE Fingerprint(h) # fp
        <4>1. \A a \in S : new[a] = old[a] BY <1>0, <2>4a, <3>2
        <4>2. SumFunctionOnSet(new, S) = SumFunctionOnSet(old, S)
          <5> HIDE DEF S
          <5> QED BY <2>3, <4>1, SumAgrees
        <4> QED BY <2>3, <2>5, <2>6, <3>2, <4>2
      <3> QED BY <3>1, <3>2
    <2>9. h \in Of(fp) <=> Fingerprint(h) = fp BY DEF Of
    <2> HIDE DEF S
    <2>10. CASE /\ lost'["bump"] = lost["bump"] /\ Handled' \subseteq Handled \cup {h}
                /\ Touched \cup {h} \subseteq Touched'
      <3>1. CASE Fingerprint(h) = fp
        <4>1. Cardinality(Handled' \cap Of(fp)) <= Cardinality(Handled \cap Of(fp)) + 1
          BY <2>3, <2>4, <2>10, OneMore
        <4>2. Cardinality(Touched \cap Of(fp)) + 1 <= Cardinality(Touched' \cap Of(fp))
          BY <2>3, <2>4, <2>9, <2>10, <3>1, OneMore
        <4> QED BY <2>2, <2>3, <2>4, <2>8, <2>10, <3>1, <4>1, <4>2
      <3>2. CASE Fingerprint(h) # fp
        <4>1. Cardinality(Handled' \cap Of(fp)) <= Cardinality(Handled \cap Of(fp))
          BY <2>3, <2>9, <2>10, <3>2, OneMore
        <4>2. Cardinality(Touched \cap Of(fp)) <= Cardinality(Touched' \cap Of(fp))
          BY <2>3, <2>4, <2>10, OneMore
        <4> QED BY <2>2, <2>3, <2>4, <2>8, <2>10, <3>2, <4>1, <4>2
      <3> QED BY <3>1, <3>2
    <2>11. CASE /\ lost'["bump"] = lost["bump"] + 1 /\ Handled' \subseteq Handled
                /\ Touched \subseteq Touched'
      <3>1. Cardinality(Handled' \cap Of(fp)) <= Cardinality(Handled \cap Of(fp))
        <4>1. Handled' \cap Of(fp) \subseteq Handled \cap Of(fp) BY <2>11
        <4> QED BY <2>3, <4>1, FS_Subset
      <3>2. Cardinality(Touched \cap Of(fp)) <= Cardinality(Touched' \cap Of(fp))
        BY <2>3, <2>4, <2>11, OneMore
      <3> QED BY <2>2, <2>3, <2>4, <2>8, <2>11, <3>1, <3>2
    <2> QED BY <2>10, <2>11
  <1> QED BY <1>1, <1>2

\* A put adds one to its fingerprint's sum when it stores a new alert, and
\* nothing when the call is made again.
LEMMA CountPut ==
    ASSUME IngestInv, IngestInv', CountInv, IsFiniteSet(Reached)',
           NEW h \in Alerts, Stored' = Stored \cup {h},
           h \notin Handled, h \notin Stored => h \notin Touched,
           h \in Stored => lost["put"] # 0,
           occurrences' = [occurrences EXCEPT ![h] = 1], lost'["bump"] = lost["bump"],
           Touched \cup {h} \subseteq Touched',
           \/ lost'["put"] = lost["put"] /\ Handled' \subseteq Handled \cup {h}
           \/ lost'["put"] # 0
    PROVE  StoredOccurred' /\ AddsUp'
  <1>0. /\ occurrences \in [Alerts -> Nat] /\ Stored \subseteq Alerts
        /\ \A a \in Alerts : occurrences'[a] = IF a = h THEN 1 ELSE occurrences[a]
    BY DEF IngestInv, IngestTypeOK, Stored
  <1>1. StoredOccurred' BY <1>0 DEF CountInv, StoredOccurred
  <1>2. AddsUp'
    <2> SUFFICES ASSUME NEW fp \in Fingerprints
                 PROVE  /\ lost'["put"] = 0 => Cardinality(Handled' \cap Of(fp)) <= Counted(fp)'
                        /\ Counted(fp)' <= Cardinality(Touched' \cap Of(fp)) + lost'["bump"]
      BY DEF AddsUp, Of, Fingerprint, Fingerprints
    <2> DEFINE S == {a \in Stored : Fingerprint(a) = fp}
    <2>2. /\ lost["put"] = 0 => Cardinality(Handled \cap Of(fp)) <= Counted(fp)
          /\ Counted(fp) <= Cardinality(Touched \cap Of(fp)) + lost["bump"]
      BY DEF CountInv, AddsUp
    <2>3. /\ IsFiniteSet(Handled \cap Of(fp)) /\ Cardinality(Handled \cap Of(fp)) \in Nat
          /\ IsFiniteSet(Touched \cap Of(fp)) /\ Cardinality(Touched \cap Of(fp)) \in Nat
          /\ Counted(fp) \in Nat /\ lost["bump"] \in Nat /\ IsFiniteSet(S)
      BY CountsAreNat DEF CountInv
    <2>4. /\ IsFiniteSet(Touched' \cap Of(fp)) /\ Cardinality(Touched' \cap Of(fp)) \in Nat
          /\ IsFiniteSet(Handled' \cap Of(fp)) /\ Cardinality(Handled' \cap Of(fp)) \in Nat
      <3>1. Touched' \subseteq Reached' /\ Handled' \subseteq Reached' BY CountSetsNext
      <3>2. IsFiniteSet(Touched' \cap Of(fp)) /\ IsFiniteSet(Handled' \cap Of(fp))
        BY <3>1, FS_Subset
      <3> QED BY <3>2, FS_CardinalityType
    <2>4a. PICK old, new : old = occurrences /\ new = occurrences' OBVIOUS
    <2>5. Counted(fp) = SumFunctionOnSet(old, S) BY <2>4a DEF Counted
    <2>6. Counted(fp)' = SumFunctionOnSet(new, IF Fingerprint(h) = fp THEN S \cup {h} ELSE S)
      <3>1. {a \in Stored' : Fingerprint(a) = fp}
              = IF Fingerprint(h) = fp THEN S \cup {h} ELSE S
        OBVIOUS
      <3> QED BY <3>1, <2>4a DEF Counted, Fingerprint
    <2>7. \A a \in S \cup {h} : old[a] \in Nat /\ new[a] \in Nat BY <1>0, <2>4a
    <2>9. h \in Of(fp) <=> Fingerprint(h) = fp BY DEF Of
    <2>10. h \in Stored => old[h] >= 1 BY <2>4a DEF CountInv, StoredOccurred
    <2>11. /\ \A a \in S : a # h => new[a] = old[a]
           /\ new[h] = 1 /\ old[h] \in Nat
      BY <1>0, <2>4a
    <2>12. Cardinality(Touched \cap Of(fp)) <= Cardinality(Touched' \cap Of(fp))
      <3>1. Touched \cap Of(fp) \subseteq Touched' \cap Of(fp) OBVIOUS
      <3> QED BY <2>4, <3>1, FS_Subset
    <2>13. CASE h \in Stored
      <3>0. lost'["put"] # 0 BY <2>13
      <3>1. Counted(fp)' <= Counted(fp)
        <4>1. CASE Fingerprint(h) = fp
          <5>1. h \in S /\ S \cup {h} = S BY <2>13, <4>1
          <5> HIDE DEF S
          <5>2. SumFunctionOnSet(new, S) + old[h]
                  = SumFunctionOnSet(old, S) + new[h]
            BY <2>3, <2>7, <2>11, <5>1, SumChanges
          <5>3. SumFunctionOnSet(new, S) \in Nat BY <2>3, <2>7, SumIsNat
          <5> QED BY <2>3, <2>5, <2>6, <2>10, <2>11, <2>13, <4>1, <5>1, <5>2, <5>3
        <4>2. CASE Fingerprint(h) # fp
          <5>1. \A a \in S : new[a] = old[a] BY <2>11, <4>2
          <5> HIDE DEF S
          <5>2. SumFunctionOnSet(new, S) = SumFunctionOnSet(old, S)
            BY <2>3, <5>1, SumAgrees
          <5> QED BY <2>3, <2>5, <2>6, <4>2, <5>2
        <4> QED BY <4>1, <4>2
      <3>2. Counted(fp)' \in Nat
        <4>1. SumFunctionOnSet(new, S) \in Nat
          <5> HIDE DEF S
          <5> QED BY <2>3, <2>7, SumIsNat
        <4>2. Fingerprint(h) = fp => S \cup {h} = S BY <2>13
        <4> QED BY <2>6, <4>1, <4>2
      <3> QED BY <2>2, <2>3, <2>4, <2>12, <3>0, <3>1, <3>2
    <2>14. CASE h \notin Stored
      <3>0. h \notin S /\ \A a \in S : new[a] = old[a] BY <2>11, <2>14
      <3>1. SumFunctionOnSet(new, S) = SumFunctionOnSet(old, S)
        <4> HIDE DEF S
        <4> QED BY <2>3, <3>0, SumAgrees
      <3>2. Counted(fp)' = Counted(fp) + (IF Fingerprint(h) = fp THEN 1 ELSE 0)
        <4>1. CASE Fingerprint(h) = fp
          <5> HIDE DEF S
          <5>1. SumFunctionOnSet(new, S \cup {h})
                  = new[h] + SumFunctionOnSet(new, S)
            BY <2>3, <2>7, <3>0, SumAdds
          <5> QED BY <2>3, <2>5, <2>6, <2>11, <3>1, <4>1, <5>1
        <4>2. CASE Fingerprint(h) # fp BY <2>3, <2>5, <2>6, <3>1, <4>2
        <4> QED BY <4>1, <4>2
      <3>3. Fingerprint(h) = fp =>
               Cardinality(Touched \cap Of(fp)) + 1 <= Cardinality(Touched' \cap Of(fp))
        BY <2>3, <2>4, <2>9, <2>14, OneMore
      <3>4. lost'["put"] = 0 =>
               /\ lost["put"] = 0
               /\ Cardinality(Handled' \cap Of(fp))
                     <= Cardinality(Handled \cap Of(fp)) + (IF Fingerprint(h) = fp THEN 1 ELSE 0)
        <4> SUFFICES ASSUME lost'["put"] = 0
                     PROVE  /\ lost["put"] = 0
                            /\ Cardinality(Handled' \cap Of(fp))
                                 <= Cardinality(Handled \cap Of(fp))
                                      + (IF Fingerprint(h) = fp THEN 1 ELSE 0)
          OBVIOUS
        <4>1. lost["put"] = 0 /\ Handled' \subseteq Handled \cup {h} OBVIOUS
        <4>2. Cardinality(Handled' \cap Of(fp)) <= Cardinality(Handled \cap Of(fp)) + 1
          BY <2>3, <2>4, <4>1, OneMore
        <4>3. Fingerprint(h) # fp =>
                 Cardinality(Handled' \cap Of(fp)) <= Cardinality(Handled \cap Of(fp))
          BY <2>3, <2>9, <4>1, OneMore
        <4> QED BY <2>3, <2>4, <4>1, <4>2, <4>3
      <3> HIDE DEF S
      <3> QED BY <2>2, <2>3, <2>4, <2>12, <3>2, <3>3, <3>4
    <2> QED BY <2>13, <2>14
  <1> QED BY <1>1, <1>2

\* Where the loop goes after an alert, exactly.
LEMMA AdvanceTo ==
    ASSUME IngestTypeOK, NEW r \in Requests, Advance(r)
    PROVE  /\ \/ rpc'[r] = "find" /\ pos'[r] = pos[r] + 1
              \/ rpc'[r] = "respond" /\ pos'[r] = pos[r] /\ pos[r] = Len(Payload[r])
           /\ \A s \in Requests : s # r => rpc'[s] = rpc[s] /\ pos'[s] = pos[s]
  <1> USE DEF IngestTypeOK
  <1>0. pos[r] \in 1 .. Len(Payload[r]) /\ Len(Payload[r]) \in Nat BY InHandFacts
  <1>1. CASE pos[r] < Len(Payload[r])
    <2>1. rpc' = [rpc EXCEPT ![r] = "find"] /\ pos' = [pos EXCEPT ![r] = @ + 1]
      BY <1>1 DEF Advance, Step
    <2> QED BY <2>1
  <1>2. CASE ~(pos[r] < Len(Payload[r]))
    <2>1. rpc' = [rpc EXCEPT ![r] = "respond"] /\ pos' = pos BY <1>2 DEF Advance, Step
    <2> QED BY <1>0, <1>2, <2>1
  <1> QED BY <1>1, <1>2

\* A step moves one request at most, and no further than one alert on.
LEMMA OneMover ==
    ASSUME IngestTypeOK, IngestAlone
    PROVE  \/ UNCHANGED <<rpc, pos>>
           \/ \E r \in Requests :
                 /\ \A s \in Requests : s # r => rpc'[s] = rpc[s] /\ pos'[s] = pos[s]
                 /\ \/ pos'[r] = pos[r] /\ rpc'[r] # "unborn"
                    \/ pos'[r] = pos[r] + 1 /\ rpc[r] # "unborn"
  <1>1. ASSUME NEW r \in Requests, Bump(r) \/ \E m \in Messages : Enqueue(r, m)
        PROVE  /\ \A s \in Requests : s # r => rpc'[s] = rpc[s] /\ pos'[s] = pos[s]
               /\ \/ pos'[r] = pos[r] /\ rpc'[r] # "unborn"
                  \/ pos'[r] = pos[r] + 1 /\ rpc[r] # "unborn"
    <2>1. Advance(r) /\ rpc[r] # "unborn" BY <1>1 DEF Bump, Enqueue, At
    <2> QED BY <2>1, AdvanceTo
  <1>2. ASSUME NEW r \in Requests,
               Accept(r) \/ FindOpen(r) \/ PutNew(r) \/ Respond(r) \/ RequestFails(r)
        PROVE  /\ \A s \in Requests : s # r => rpc'[s] = rpc[s] /\ pos'[s] = pos[s]
               /\ pos'[r] = pos[r] /\ rpc'[r] # "unborn"
    BY <1>2 DEF Accept, FindOpen, PutNew, Respond, RequestFails, Step, IngestTypeOK, requestVars
  <1>3. CASE \/ \E r \in Requests : \/ BumpAnswerLost(r) \/ StoreAnswerLost(r)
                                    \/ \E m \in Messages : SendAnswerLost(r, m)
             \/ \E a \in Alerts : IndexItem(a) \/ Judge(a)
             \/ Tick
    BY <1>3 DEF BumpAnswerLost, StoreAnswerLost, SendAnswerLost, IndexItem, Judge, Tick,
                ingestVars, requestVars
  <1> QED BY <1>1, <1>2, <1>3 DEF IngestAlone, IngestNext

\* Only finitely many alerts have been reached, at any time.
LEMMA ReachedStep ==
    ASSUME IngestInv, IngestAlone, IsFiniteSet(Reached) PROVE IsFiniteSet(Reached)'
  <1>0. IngestTypeOK /\ PayloadInv BY DEF IngestInv
  <1>1. CASE UNCHANGED <<rpc, pos>> BY <1>1 DEF Reached
  <1>2. CASE \E r \in Requests :
                /\ \A s \in Requests : s # r => rpc'[s] = rpc[s] /\ pos'[s] = pos[s]
                /\ \/ pos'[r] = pos[r] /\ rpc'[r] # "unborn"
                   \/ pos'[r] = pos[r] + 1 /\ rpc[r] # "unborn"
    <2>1. PICK r \in Requests :
                /\ \A s \in Requests : s # r => rpc'[s] = rpc[s] /\ pos'[s] = pos[s]
                /\ \/ pos'[r] = pos[r] /\ rpc'[r] # "unborn"
                   \/ pos'[r] = pos[r] + 1 /\ rpc[r] # "unborn"
      BY <1>2
    <2>2. PICK b : b = <<r, pos'[r]>> OBVIOUS
    <2>3. rpc[r] = "unborn" => pos[r] = 1 BY <1>0 DEF PayloadInv, UnbornIsFirst
    <2>4. Reached' \subseteq Reached \cup {b}
      <3> SUFFICES ASSUME NEW a \in Alerts, rpc'[a[1]] # "unborn", a[2] <= pos'[a[1]], a # b
                   PROVE  rpc[a[1]] # "unborn" /\ a[2] <= pos[a[1]]
        BY DEF Reached
      <3>1. /\ a = <<a[1], a[2]>> /\ a[1] \in Requests /\ a[2] \in Nat /\ a[2] >= 1
            /\ pos[a[1]] \in Nat
        BY <1>0, AlertParts
      <3>2. CASE a[1] # r BY <2>1, <3>1, <3>2
      <3>3. CASE a[1] = r
        <4>1. a[2] # pos'[r] BY <2>2, <3>1, <3>3
        <4>2. pos'[r] = pos[r] \/ (pos'[r] = pos[r] + 1 /\ rpc[r] # "unborn") BY <2>1
        <4>3. a[2] <= pos'[r] BY <3>3
        <4> QED BY <2>3, <3>1, <3>3, <4>1, <4>2, <4>3
      <3> QED BY <3>2, <3>3
    <2>5. IsFiniteSet(Reached \cup {b}) BY FS_AddElement
    <2> QED BY <2>4, <2>5, FS_Subset
  <1> QED BY <1>0, <1>1, <1>2, OneMover

\* What find_open returned stays in the table until it is bumped.
LEMMA MatchStep == ASSUME IngestInv, IngestAlone, MatchIsStored PROVE MatchIsStored'
  <1>0. IngestTypeOK /\ SharedTypeOK /\ IndexedIsStored /\ \A r \in Requests : InHand(r) \in Alerts
    BY InHandFacts DEF IngestInv
  <1>1. Stored \subseteq Stored'
    <2>1. ASSUME NEW a \in Alerts, Judge(a) PROVE Stored \subseteq Stored'
      BY <1>0, <2>1 DEF Judge, Stored, SharedTypeOK
    <2> QED BY <2>1, IngestQueueStep DEF IngestAlone
  <1> SUFFICES ASSUME NEW s \in Requests, rpc'[s] = "bump"
               PROVE  match'[s] \in Stored' /\ Fingerprint(match'[s]) = Fingerprint(InHand(s)')
    BY DEF MatchIsStored, Fingerprint
  <1>2. ASSUME rpc[s] = "bump", match'[s] = match[s], pos'[s] = pos[s]
        PROVE  match'[s] \in Stored' /\ Fingerprint(match'[s]) = Fingerprint(InHand(s)')
    BY <1>1, <1>2 DEF MatchIsStored, InHand
  <1>3. ASSUME NEW r \in Requests, FindOpen(r)
        PROVE  match'[s] \in Stored' /\ Fingerprint(match'[s]) = Fingerprint(InHand(s)')
    <2>1. CASE \E a \in Newest(OpenMatches(InHand(r))) :
                  Step(r, "bump") /\ match' = [match EXCEPT ![r] = a]
      <3>1. PICK a \in Newest(OpenMatches(InHand(r))) :
                  Step(r, "bump") /\ match' = [match EXCEPT ![r] = a]
        BY <2>1
      <3>2. a \in Stored /\ Fingerprint(a) = Fingerprint(InHand(r))
        BY <1>0 DEF Newest, OpenMatches, IndexedIsStored
      <3>3. pos' = pos BY <1>3 DEF FindOpen
      <3>4. CASE s = r BY <1>0, <1>1, <3>1, <3>2, <3>3, <3>4 DEF IngestTypeOK, InHand
      <3>5. CASE s # r BY <1>0, <1>2, <3>1, <3>3, <3>5 DEF IngestTypeOK, Step
      <3> QED BY <3>4, <3>5
    <2>2. CASE Step(r, "put") /\ UNCHANGED match
      <3>1. pos' = pos /\ s # r /\ rpc'[s] = rpc[s]
        BY <1>0, <1>3, <2>2 DEF FindOpen, Step, IngestTypeOK
      <3> QED BY <1>2, <2>2, <3>1
    <2> QED BY <1>3, <2>1, <2>2 DEF FindOpen
  <1>4. ASSUME NEW r \in Requests, Bump(r) \/ \E m \in Messages : Enqueue(r, m)
        PROVE  match'[s] \in Stored' /\ Fingerprint(match'[s]) = Fingerprint(InHand(s)')
    <2>1. Advance(r) /\ (match' = match \/ match' = [match EXCEPT ![r] = None])
      BY <1>4 DEF Bump, Enqueue
    <2>2. s # r /\ rpc'[s] = rpc[s] /\ pos'[s] = pos[s] BY <1>0, <2>1, AdvanceTo
    <2> QED BY <1>0, <1>2, <2>1, <2>2 DEF IngestTypeOK
  <1>5. ASSUME NEW r \in Requests, Accept(r) \/ PutNew(r) \/ Respond(r) \/ RequestFails(r)
        PROVE  match'[s] \in Stored' /\ Fingerprint(match'[s]) = Fingerprint(InHand(s)')
    <2>1. /\ pos' = pos /\ (match' = match \/ match' = [match EXCEPT ![r] = None])
          /\ \E step \in {"find", "send", "accepted", "failed"} : Step(r, step)
      BY <1>5 DEF Accept, PutNew, Respond, RequestFails
    <2>2. s # r /\ rpc'[s] = rpc[s] BY <1>0, <2>1 DEF Step, IngestTypeOK
    <2> QED BY <1>0, <1>2, <2>1, <2>2 DEF IngestTypeOK
  <1>6. CASE \/ \E r \in Requests : \/ BumpAnswerLost(r) \/ StoreAnswerLost(r)
                                    \/ \E m \in Messages : SendAnswerLost(r, m)
             \/ \E a \in Alerts : IndexItem(a) \/ Judge(a)
             \/ Tick
    <2>1. rpc' = rpc /\ pos' = pos /\ match' = match
      BY <1>6 DEF BumpAnswerLost, StoreAnswerLost, SendAnswerLost, IndexItem, Judge, Tick,
                  ingestVars, requestVars
    <2> QED BY <1>2, <2>1
  <1> QED BY <1>3, <1>4, <1>5, <1>6 DEF IngestAlone, IngestNext

\* A put stores a new alert, but for one that the SDK makes again.
LEMMA PutStep == ASSUME IngestInv, IngestAlone, PutIsNew PROVE PutIsNew'
  <1>0. IngestTypeOK /\ SharedTypeOK /\ \A r \in Requests : InHand(r) \in Alerts
    BY InHandFacts DEF IngestInv
  <1> SUFFICES ASSUME lost'["put"] = 0, NEW s \in Requests, rpc'[s] = "put"
               PROVE  <<s, pos'[s]>> \notin Stored'
    BY DEF PutIsNew, InHand
  <1>1. ASSUME rpc[s] = "put", pos'[s] = pos[s], lost["put"] = 0,
               Stored' = Stored \/ \E r \in Requests : r # s /\ Stored' = Stored \cup {InHand(r)}
        PROVE  <<s, pos'[s]>> \notin Stored'
    <2>1. InHand(s) \notin Stored /\ InHand(s) = <<s, pos'[s]>> BY <1>1 DEF PutIsNew, InHand
    <2>2. \A r \in Requests : r # s => InHand(r) # InHand(s) BY AlertPairs DEF InHand
    <2> QED BY <1>1, <2>1, <2>2
  <1>2. UNCHANGED status => Stored' = Stored BY DEF Stored
  <1>3. ASSUME NEW r \in Requests, FindOpen(r) PROVE <<s, pos'[s]>> \notin Stored'
    <2>1. /\ rpc[r] = "find" /\ pos' = pos /\ lost' = lost /\ Stored' = Stored
          /\ \E step \in {"put", "bump"} : Step(r, step)
      BY <1>2, <1>3 DEF FindOpen, At
    <2>2. CASE s = r
      <3>1. pos[r] \in DOMAIN Payload[r] BY <1>0, InHandFacts
      <3>2. Ahead(r, pos[r]) BY <2>1 DEF Ahead
      <3> QED BY <2>1, <2>2, <3>1, <3>2, AheadIsAbsent
    <2>3. CASE s # r
      <3>1. rpc[s] = "put" BY <1>0, <2>1, <2>3 DEF Step, IngestTypeOK
      <3> QED BY <1>1, <2>1, <3>1
    <2> QED BY <2>2, <2>3
  <1>4. ASSUME NEW r \in Requests, Bump(r) \/ \E m \in Messages : Enqueue(r, m)
        PROVE  <<s, pos'[s]>> \notin Stored'
    <2>1. Advance(r) /\ lost' = lost /\ Stored' = Stored BY <1>2, <1>4 DEF Bump, Enqueue
    <2>2. s # r /\ rpc'[s] = rpc[s] /\ pos'[s] = pos[s] BY <1>0, <2>1, AdvanceTo
    <2> QED BY <1>1, <2>1, <2>2
  <1>5. ASSUME NEW r \in Requests, Accept(r) \/ Respond(r) \/ RequestFails(r)
        PROVE  <<s, pos'[s]>> \notin Stored'
    <2>1. /\ pos' = pos /\ lost' = lost /\ Stored' = Stored
          /\ \E step \in {"find", "accepted", "failed"} : Step(r, step)
      BY <1>2, <1>5 DEF Accept, Respond, RequestFails
    <2>2. rpc'[s] = rpc[s] BY <1>0, <2>1 DEF Step, IngestTypeOK
    <2> QED BY <1>1, <2>1, <2>2
  <1>6. ASSUME NEW r \in Requests, PutNew(r) PROVE <<s, pos'[s]>> \notin Stored'
    <2>1. pos' = pos /\ lost' = lost /\ Step(r, "send") BY <1>6 DEF PutNew
    <2>2. s # r /\ rpc'[s] = rpc[s] BY <1>0, <2>1 DEF Step, IngestTypeOK
    <2>3. Stored' = Stored \cup {InHand(r)}
      <3>1. \A a \in Alerts : status'[a] = IF a = InHand(r) THEN "queued" ELSE status[a]
        BY <1>0, <1>6 DEF PutNew, SharedTypeOK
      <3> QED BY <1>0, <3>1 DEF Stored
    <2> QED BY <1>1, <2>1, <2>2, <2>3
  <1>7. ASSUME NEW r \in Requests, StoreAnswerLost(r) PROVE FALSE
    <2>1. lost' = [lost EXCEPT !["put"] = @ + 1] BY <1>7 DEF StoreAnswerLost, AnswerLost
    <2>2. lost["put"] \in Nat /\ lost \in [CalledAt -> 0 .. LostAnswers]
      BY <1>0, IngestAssumption DEF IngestTypeOK, CalledAt
    <2> QED BY <2>1, <2>2 DEF CalledAt
  <1>8. CASE \/ \E r \in Requests : \/ BumpAnswerLost(r)
                                    \/ \E m \in Messages : SendAnswerLost(r, m)
             \/ \E a \in Alerts : IndexItem(a) \/ Judge(a)
             \/ Tick
    <2>1. rpc' = rpc /\ pos' = pos
      BY <1>8 DEF BumpAnswerLost, SendAnswerLost, IndexItem, Judge, Tick,
                  ingestVars, requestVars
    <2>2. Stored' = Stored
      <3>1. ASSUME NEW a \in Alerts, Judge(a) PROVE Stored' = Stored
        <4>1. status[a] = "queued" /\ status' = [status EXCEPT ![a] = "triaged"]
          BY <3>1 DEF Judge
        <4> QED BY <1>0, <4>1 DEF Stored, SharedTypeOK
      <3> QED BY <1>2, <1>8, <3>1 DEF BumpAnswerLost, SendAnswerLost, IndexItem, Tick
    <2>3. lost'["put"] = lost["put"]
      <3>1. \/ lost' = lost \/ lost' = [lost EXCEPT !["bump"] = @ + 1]
            \/ lost' = [lost EXCEPT !["send"] = @ + 1]
        BY <1>8 DEF BumpAnswerLost, SendAnswerLost, IndexItem, Judge, Tick, ingestVars, AnswerLost
      <3> QED BY <1>0, <3>1 DEF IngestTypeOK, CalledAt
    <2> QED BY <1>1, <2>1, <2>2, <2>3
  <1> QED BY <1>3, <1>4, <1>5, <1>6, <1>7, <1>8 DEF IngestAlone, IngestNext

\* A request answers when the last alert of its payload is in hand.
LEMMA EndStep == ASSUME IngestInv, IngestAlone, RespondsAtTheEnd PROVE RespondsAtTheEnd'
  <1>0. IngestTypeOK BY DEF IngestInv
  <1> SUFFICES ASSUME NEW s \in Requests, rpc'[s] \in {"respond", "accepted"}
               PROVE  pos'[s] = Len(Payload[s])
    BY DEF RespondsAtTheEnd
  <1>1. ASSUME NEW r \in Requests, Bump(r) \/ \E m \in Messages : Enqueue(r, m)
        PROVE  pos'[s] = Len(Payload[s])
    <2>1. Advance(r) BY <1>1 DEF Bump, Enqueue
    <2> QED BY <1>0, <2>1, AdvanceTo DEF RespondsAtTheEnd
  <1>2. ASSUME NEW r \in Requests,
               Accept(r) \/ FindOpen(r) \/ PutNew(r) \/ Respond(r) \/ RequestFails(r)
        PROVE  pos'[s] = Len(Payload[s])
    <2>1. /\ pos' = pos
          /\ \/ \E step \in {"find", "put", "bump", "send", "failed"} : Step(r, step)
             \/ rpc[r] = "respond" /\ Step(r, "accepted")
      BY <1>2 DEF Accept, FindOpen, PutNew, Respond, RequestFails, At, requestVars
    <2> QED BY <1>0, <2>1 DEF Step, IngestTypeOK, RespondsAtTheEnd
  <1>3. CASE \/ \E r \in Requests : \/ BumpAnswerLost(r) \/ StoreAnswerLost(r)
                                    \/ \E m \in Messages : SendAnswerLost(r, m)
             \/ \E a \in Alerts : IndexItem(a) \/ Judge(a)
             \/ Tick
    <2>1. rpc' = rpc /\ pos' = pos
      BY <1>3 DEF BumpAnswerLost, StoreAnswerLost, SendAnswerLost, IndexItem, Judge, Tick,
                  ingestVars, requestVars
    <2> QED BY <2>1 DEF RespondsAtTheEnd
  <1> QED BY <1>1, <1>2, <1>3 DEF IngestAlone, IngestNext

\* How the sets of counted alerts move when one request does: only its alert in
\* hand changes, and an advance leaves that behind.
LEMMA OneCounts ==
    ASSUME IngestInv, NEW r \in Requests,
           \A s \in Requests : s # r => rpc'[s] = rpc[s] /\ pos'[s] = pos[s],
           \A a \in Alerts : a # InHand(r) => (a \in Stored' <=> a \in Stored)
    PROVE  /\ \A a \in Alerts : a[1] # r =>
                 (a \in Handled' <=> a \in Handled) /\ (a \in Touched' <=> a \in Touched)
           /\ pos'[r] = pos[r] =>
                 \A a \in Alerts : a # InHand(r) =>
                    (a \in Handled' <=> a \in Handled) /\ (a \in Touched' <=> a \in Touched)
           /\ pos'[r] = pos[r] + 1 /\ rpc'[r] = "find" =>
                 /\ Handled' \subseteq Handled \cup {InHand(r)}
                 /\ Touched \cup {InHand(r)} \subseteq Touched'
  <1>0. IngestTypeOK BY DEF IngestInv
  <1>1. \A a \in Alerts : /\ a = <<a[1], a[2]>> /\ a[1] \in Requests /\ a[2] \in Nat
                          /\ pos[a[1]] \in Nat
    BY <1>0, AlertParts
  <1>2. \A a \in Alerts : a[1] # r => a # InHand(r) BY <1>1, AlertPairs DEF InHand
  <1>3. \A a \in Alerts : a[1] # r =>
           (a \in Handled' <=> a \in Handled) /\ (a \in Touched' <=> a \in Touched)
    BY <1>1, <1>2 DEF Handled, Touched
  <1>4. \A a \in Alerts : a[1] = r /\ a # InHand(r) => a[2] # pos[r]
    BY <1>1 DEF InHand
  <1>5. ASSUME pos'[r] = pos[r], NEW a \in Alerts, a # InHand(r)
        PROVE  (a \in Handled' <=> a \in Handled) /\ (a \in Touched' <=> a \in Touched)
    BY <1>1, <1>3, <1>4, <1>5 DEF Handled, Touched
  <1>6. ASSUME pos'[r] = pos[r] + 1, rpc'[r] = "find"
        PROVE  /\ Handled' \subseteq Handled \cup {InHand(r)}
               /\ Touched \cup {InHand(r)} \subseteq Touched'
    <2>1. \A a \in Alerts : a[1] = r /\ a \in Handled' => a \in Handled \cup {InHand(r)}
      BY <1>1, <1>4, <1>6 DEF Handled
    <2>2. Handled' \subseteq Handled \cup {InHand(r)}
      BY <1>3, <2>1 DEF Handled
    <2>3. \A a \in Alerts : a[1] = r /\ a \in Touched => a \in Touched'
      BY <1>1, <1>4, <1>6 DEF Touched
    <2>4. Touched \subseteq Touched' BY <1>3, <2>3 DEF Touched
    <2>5. InHand(r) \in Alerts /\ InHand(r)[1] = r /\ InHand(r)[2] = pos[r] /\ pos[r] \in Nat
      BY <1>0, InHandFacts, AlertPairs
    <2>6. InHand(r) \in Touched' BY <1>6, <2>5 DEF Touched
    <2> QED BY <2>2, <2>4, <2>6
  <1> QED BY <1>3, <1>5, <1>6

\* Every step keeps the bounds on the sums.
LEMMA CountStep ==
    ASSUME IngestInv, IngestInv', CountInv, IngestAlone PROVE StoredOccurred' /\ AddsUp'
  <1>0. /\ IngestTypeOK /\ SharedTypeOK /\ PayloadInv
        /\ \A r \in Requests : /\ InHand(r) \in Alerts /\ pos[r] \in Nat
                               /\ InHand(r)[1] = r /\ InHand(r)[2] = pos[r]
    BY InHandFacts, AlertPairs DEF IngestInv
  <1>f. IsFiniteSet(Reached)' BY ReachedStep DEF CountInv
  <1>s. UNCHANGED status => Stored' = Stored BY DEF Stored
  <1>l. ASSUME NEW step \in CalledAt, AnswerLost(step)
        PROVE  lost' = [lost EXCEPT ![step] = @ + 1] /\ \A c \in CalledAt : lost[c] \in Nat
    BY <1>0, <1>l, IngestAssumption DEF AnswerLost, IngestTypeOK
  <1>1. ASSUME NEW r \in Requests, Accept(r) \/ FindOpen(r) \/ Respond(r) \/ RequestFails(r)
        PROVE  StoredOccurred' /\ AddsUp'
    <2>1. /\ pos' = pos /\ lost' = lost /\ Stored' = Stored /\ occurrences' = occurrences
          /\ \/ rpc[r] = "unborn" /\ rpc' = [rpc EXCEPT ![r] = "find"]
             \/ rpc[r] = "find" /\ rpc' = [rpc EXCEPT ![r] = "put"]
             \/ rpc[r] = "find" /\ rpc' = [rpc EXCEPT ![r] = "bump"]
             \/ rpc[r] = "respond" /\ rpc' = [rpc EXCEPT ![r] = "accepted"]
             \/ rpc' = [rpc EXCEPT ![r] = "failed"]
      BY <1>1, <1>s DEF Accept, FindOpen, Respond, RequestFails, At, Step
    <2>2. \A s \in Requests : s # r => rpc'[s] = rpc[s] /\ pos'[s] = pos[s]
      BY <1>0, <2>1 DEF IngestTypeOK
    <2>3. /\ InHand(r) \in Handled' => InHand(r) \in Handled
          /\ InHand(r) \in Touched => InHand(r) \in Touched'
      BY <1>0, <2>1 DEF IngestTypeOK, Handled, Touched
    <2>4. \A a \in Alerts : a # InHand(r) =>
             (a \in Handled' <=> a \in Handled) /\ (a \in Touched' <=> a \in Touched)
      BY <2>1, <2>2, OneCounts
    <2>5. Handled' \subseteq Handled /\ Touched \subseteq Touched'
      BY <2>3, <2>4 DEF Handled, Touched
    <2> QED BY <1>f, <2>1, <2>5, CountQuietly
  <1>2. ASSUME NEW r \in Requests, NEW m \in Messages, Enqueue(r, m)
        PROVE  StoredOccurred' /\ AddsUp'
    <2>1. /\ rpc[r] = "send" /\ Advance(r) /\ lost' = lost /\ Stored' = Stored
          /\ occurrences' = occurrences
      BY <1>2, <1>s DEF Enqueue, At
    <2>2. InHand(r) \in Handled /\ InHand(r) \in Touched
      <3>1. InHand(r) \in Stored BY <1>0, <2>1 DEF PayloadInv, SendIsStored
      <3> QED BY <1>0, <2>1, <3>1 DEF Handled, Touched
    <2>3. /\ \A s \in Requests : s # r => rpc'[s] = rpc[s] /\ pos'[s] = pos[s]
          /\ \/ rpc'[r] = "find" /\ pos'[r] = pos[r] + 1
             \/ rpc'[r] = "respond" /\ pos'[r] = pos[r]
      BY <1>0, <2>1, AdvanceTo
    <2>4. Handled' \subseteq Handled /\ Touched \subseteq Touched'
      <3>1. CASE rpc'[r] = "find" /\ pos'[r] = pos[r] + 1
        BY <2>1, <2>2, <2>3, <3>1, OneCounts
      <3>2. CASE rpc'[r] = "respond" /\ pos'[r] = pos[r]
        <4>1. InHand(r) \in Touched' BY <1>0, <3>2 DEF Touched
        <4>2. \A a \in Alerts : a # InHand(r) =>
             (a \in Handled' <=> a \in Handled) /\ (a \in Touched' <=> a \in Touched)
          BY <2>1, <2>3, <3>2, OneCounts
        <4> QED BY <2>2, <4>1, <4>2 DEF Handled, Touched
      <3> QED BY <2>3, <3>1, <3>2
    <2> QED BY <1>f, <2>1, <2>4, CountQuietly
  <1>3. CASE \/ \E r \in Requests : \E m \in Messages : SendAnswerLost(r, m)
             \/ \E a \in Alerts : IndexItem(a) \/ Judge(a)
             \/ Tick
    <2>1. rpc' = rpc /\ pos' = pos /\ occurrences' = occurrences
      BY <1>3 DEF SendAnswerLost, IndexItem, Judge, Tick, ingestVars, requestVars
    <2>2. Stored' = Stored
      <3>1. ASSUME NEW a \in Alerts, Judge(a) PROVE Stored' = Stored
        <4>1. status[a] = "queued" /\ status' = [status EXCEPT ![a] = "triaged"]
          BY <3>1 DEF Judge
        <4> QED BY <1>0, <4>1 DEF Stored, SharedTypeOK
      <3> QED BY <1>s, <1>3, <3>1 DEF SendAnswerLost, IndexItem, Tick
    <2>3. lost'["put"] = lost["put"] /\ lost'["bump"] = lost["bump"]
      <3>1. \/ lost' = lost \/ lost' = [lost EXCEPT !["send"] = @ + 1]
        BY <1>3 DEF SendAnswerLost, IndexItem, Judge, Tick, ingestVars, AnswerLost
      <3> QED BY <1>0, <3>1 DEF IngestTypeOK, CalledAt
    <2>4. Handled' = Handled /\ Touched' = Touched BY <2>1, <2>2 DEF Handled, Touched
    <2> QED BY <1>f, <2>1, <2>2, <2>3, <2>4, CountQuietly
  <1>4. ASSUME NEW r \in Requests, Bump(r) \/ BumpAnswerLost(r)
        PROVE  StoredOccurred' /\ AddsUp'
    <2> DEFINE h == InHand(r)
               b == match[r]
    <2>1. /\ rpc[r] = "bump" /\ Stored' = Stored
          /\ occurrences' = [occurrences EXCEPT ![b] = @ + 1]
      BY <1>4, <1>s DEF Bump, BumpAnswerLost, At
    <2>2. b \in Stored /\ Fingerprint(h) = Fingerprint(b)
      BY <2>1 DEF CountInv, MatchIsStored
    <2>3. h \in Alerts /\ h \notin Touched /\ h \notin Handled
      <3>1. pos[r] \in DOMAIN Payload[r] BY <1>0, InHandFacts
      <3>2. Ahead(r, pos[r]) BY <2>1 DEF Ahead
      <3>3. h \notin Stored BY <3>1, <3>2, AheadIsAbsent DEF InHand
      <3> QED BY <1>0, <2>1, <3>3 DEF Touched, Handled
    <2>4. CASE Bump(r)
      <3>1. Advance(r) /\ lost' = lost BY <2>4 DEF Bump
      <3>2. /\ \A s \in Requests : s # r => rpc'[s] = rpc[s] /\ pos'[s] = pos[s]
            /\ \/ rpc'[r] = "find" /\ pos'[r] = pos[r] + 1
               \/ rpc'[r] = "respond" /\ pos'[r] = pos[r]
        BY <1>0, <3>1, AdvanceTo
      <3>3. Handled' \subseteq Handled \cup {h} /\ Touched \cup {h} \subseteq Touched'
        <4>1. CASE rpc'[r] = "find" /\ pos'[r] = pos[r] + 1
          BY <2>1, <3>2, <4>1, OneCounts
        <4>2. CASE rpc'[r] = "respond" /\ pos'[r] = pos[r]
          <5>1. h \in Touched' BY <1>0, <4>2 DEF Touched
          <5>2. \A a \in Alerts : a # h =>
               (a \in Handled' <=> a \in Handled) /\ (a \in Touched' <=> a \in Touched)
            BY <2>1, <3>2, <4>2, OneCounts
          <5> QED BY <5>1, <5>2 DEF Handled, Touched
        <4> QED BY <3>2, <4>1, <4>2
      <3> HIDE DEF h, b
      <3> QED BY <1>f, <2>1, <2>2, <2>3, <3>1, <3>3, CountBumped
    <2>5. CASE BumpAnswerLost(r)
      <3>1. rpc' = rpc /\ pos' = pos /\ AnswerLost("bump")
        BY <2>5 DEF BumpAnswerLost, requestVars
      <3>2. lost'["bump"] = lost["bump"] + 1 /\ lost'["put"] = lost["put"]
        BY <1>0, <1>l, <3>1 DEF CalledAt, IngestTypeOK
      <3>3. Handled' = Handled /\ Touched' = Touched BY <2>1, <3>1 DEF Handled, Touched
      <3> HIDE DEF h, b
      <3> QED BY <1>f, <2>1, <2>2, <2>3, <3>2, <3>3, CountBumped
    <2> QED BY <1>4, <2>4, <2>5
  <1>5. ASSUME NEW r \in Requests, PutNew(r) \/ StoreAnswerLost(r)
        PROVE  StoredOccurred' /\ AddsUp'
    <2> DEFINE h == InHand(r)
    <2>1. /\ rpc[r] = "put" /\ status' = [status EXCEPT ![h] = "queued"] /\ pos' = pos
          /\ occurrences' = [occurrences EXCEPT ![h] = 1]
          /\ rpc' = rpc \/ rpc' = [rpc EXCEPT ![r] = "send"]
      BY <1>5 DEF PutNew, StoreAnswerLost, At, Step, requestVars
    <2>2. h \in Alerts /\ Stored' = Stored \cup {h}
      <3>1. \A a \in Alerts : status'[a] = IF a = h THEN "queued" ELSE status[a]
        BY <1>0, <2>1 DEF SharedTypeOK
      <3> QED BY <1>0, <3>1 DEF Stored
    <2>3. h \notin Handled /\ (h \notin Stored => h \notin Touched) /\ h \in Touched'
      BY <1>0, <2>1, <2>2 DEF Handled, Touched
    <2>4. h \in Stored => lost["put"] # 0 BY <2>1 DEF CountInv, PutIsNew
    <2>5. \A a \in Alerts : a # h =>
             (a \in Handled' <=> a \in Handled) /\ (a \in Touched' <=> a \in Touched)
      <3>1. \A s \in Requests : s # r => rpc'[s] = rpc[s] /\ pos'[s] = pos[s]
        BY <1>0, <2>1 DEF IngestTypeOK
      <3> QED BY <2>1, <2>2, <3>1, OneCounts
    <2>6. Handled' \subseteq Handled \cup {h} /\ Touched \cup {h} \subseteq Touched'
      BY <2>3, <2>5 DEF Handled, Touched
    <2>7. lost'["bump"] = lost["bump"] /\ (lost'["put"] = lost["put"] \/ lost'["put"] # 0)
      <3>1. CASE PutNew(r) BY <3>1 DEF PutNew
      <3>2. CASE StoreAnswerLost(r)
        <4>1. AnswerLost("put") BY <3>2 DEF StoreAnswerLost
        <4> QED BY <1>0, <1>l, <4>1 DEF CalledAt, IngestTypeOK
      <3> QED BY <1>5, <3>1, <3>2
    <2> HIDE DEF h
    <2> QED BY <1>f, <2>1, <2>2, <2>3, <2>4, <2>6, <2>7, CountPut
  <1> QED BY <1>1, <1>2, <1>3, <1>4, <1>5 DEF IngestAlone, IngestNext

\* The alerts in the queue are as many as the messages at most.
LEMMA SentIsFinite == ASSUME IsFiniteSet(SentMessages) PROVE IsFiniteSet(SentAlerts)
  <1> DEFINE about == [m \in SentMessages |-> body[m]]
  <1>1. about \in Surjection(SentMessages, SentAlerts)
    <2>1. about \in [SentMessages -> SentAlerts] BY DEF SentMessages, SentAlerts
    <2>2. \A a \in SentAlerts : \E m \in SentMessages : about[m] = a
      BY DEF SentMessages, SentAlerts
    <2> QED BY <2>1, <2>2 DEF Surjection
  <1> HIDE DEF about
  <1> QED BY <1>1, FS_Surjection

\* A step that sends nothing sends nothing again.
LEMMA SendsQuietly ==
    ASSUME IngestInv, SendsAddUp, body' = body, lost'["send"] = lost["send"],
           SendsAgain' \subseteq SendsAgain
    PROVE  SendsAddUp'
  <1>1. SentMessages' = SentMessages /\ SentAlerts' = SentAlerts BY DEF SentMessages, SentAlerts
  <1>2. /\ IsFiniteSet(SentMessages) /\ IsFiniteSet(SendsAgain)
        /\ Cardinality(SentMessages) + Cardinality(SendsAgain)
              <= Cardinality(SentAlerts) + lost["send"]
    BY DEF SendsAddUp
  <1>3. IsFiniteSet(SendsAgain') /\ Cardinality(SendsAgain') <= Cardinality(SendsAgain)
    BY <1>2, FS_Subset
  <1>4. /\ Cardinality(SendsAgain) \in Nat /\ Cardinality(SendsAgain') \in Nat
        /\ Cardinality(SentMessages) \in Nat
    BY <1>2, <1>3, FS_CardinalityType
  <1>5. Cardinality(SentAlerts) + lost["send"] \in Int
    <2>4. Cardinality(SentAlerts) \in Nat BY <1>2, SentIsFinite, FS_CardinalityType
    <2>5. lost["send"] \in Nat BY IngestAssumption DEF IngestInv, IngestTypeOK, CalledAt
    <2> QED BY <2>4, <2>5
  <1> QED BY <1>1, <1>2, <1>3, <1>4, <1>5 DEF SendsAddUp

\* A send is the first of its alert, or one that a lost answer made again.
LEMMA SendsStep == ASSUME IngestInv, IngestInv', SendsAddUp, IngestAlone PROVE SendsAddUp'
  <1>0. /\ IngestTypeOK /\ SharedTypeOK /\ PayloadInv /\ QueueInv
        /\ \A r \in Requests : InHand(r) \in Alerts /\ InHand(r) = <<r, pos[r]>>
    BY InHandFacts DEF IngestInv
  <1>1. ASSUME NEW r \in Requests, Accept(r) \/ FindOpen(r) \/ Respond(r) \/ RequestFails(r) \/ Bump(r)
        PROVE  SendsAddUp'
    <2>1. /\ body' = body /\ lost' = lost
          /\ \/ pos' = pos /\ \E step \in {"find", "put", "bump", "accepted", "failed"} : Step(r, step)
             \/ Advance(r)
      BY <1>1 DEF Accept, FindOpen, Respond, RequestFails, Bump, queueVars
    <2>2. \A s \in Requests : rpc'[s] = "send" => rpc[s] = "send" /\ pos'[s] = pos[s]
      <3>1. CASE Advance(r)
        <4>1. /\ rpc'[r] \in {"find", "respond"}
              /\ \A s \in Requests : s # r => rpc'[s] = rpc[s] /\ pos'[s] = pos[s]
          BY <1>0, <3>1, AdvanceTo
        <4> QED BY <4>1
      <3>2. CASE pos' = pos /\ \E step \in {"find", "put", "bump", "accepted", "failed"} : Step(r, step)
        BY <1>0, <3>2 DEF Step, IngestTypeOK
      <3> QED BY <2>1, <3>1, <3>2
    <2>3. SendsAgain' \subseteq SendsAgain
      BY <2>1, <2>2 DEF SendsAgain, SentAlerts, InHand
    <2> QED BY <2>1, <2>3, SendsQuietly
  <1>2. ASSUME NEW r \in Requests, PutNew(r) PROVE SendsAddUp'
    <2>1. /\ body' = body /\ lost' = lost /\ pos' = pos /\ rpc[r] = "put"
          /\ rpc' = [rpc EXCEPT ![r] = "send"]
      BY <1>2 DEF PutNew, queueVars, At, Step
    <2>2. InHand(r) \notin SentAlerts
      BY <1>0, <2>1 DEF PayloadInv, PutIsUnsent, SentAlerts
    <2>3. SendsAgain' \subseteq SendsAgain
      BY <1>0, <2>1, <2>2 DEF SendsAgain, SentAlerts, InHand, IngestTypeOK
    <2> QED BY <2>1, <2>3, SendsQuietly
  <1>3. CASE \/ \E r \in Requests : BumpAnswerLost(r) \/ StoreAnswerLost(r)
             \/ \E a \in Alerts : IndexItem(a) \/ Judge(a)
             \/ Tick
    <2>1. rpc' = rpc /\ pos' = pos /\ body' = body
      BY <1>3 DEF BumpAnswerLost, StoreAnswerLost, IndexItem, Judge, Tick,
                  ingestVars, requestVars, queueVars
    <2>2. lost'["send"] = lost["send"]
      <3>1. \/ lost' = lost \/ lost' = [lost EXCEPT !["bump"] = @ + 1]
            \/ lost' = [lost EXCEPT !["put"] = @ + 1]
        BY <1>3 DEF BumpAnswerLost, StoreAnswerLost, IndexItem, Judge, Tick, ingestVars, AnswerLost
      <3> QED BY <1>0, <3>1 DEF IngestTypeOK, CalledAt
    <2>3. SendsAgain' = SendsAgain BY <2>1 DEF SendsAgain, SentAlerts, InHand
    <2> QED BY <2>1, <2>2, <2>3, SendsQuietly
  <1>4. ASSUME NEW r \in Requests, NEW m \in Messages, Enqueue(r, m) \/ SendAnswerLost(r, m)
        PROVE  SendsAddUp'
    <2> DEFINE h == InHand(r)
    <2>1. rpc[r] = "send" /\ sqs[m] = "unsent" /\ body' = [body EXCEPT ![m] = h]
      BY <1>4 DEF Enqueue, SendAnswerLost, Send, At
    <2>2. body[m] = None /\ h \in Alerts /\ h # None
      BY <1>0, <2>1, NoneAssumption DEF QueueInv, UnsentHasNoBody
    <2>3. /\ SentMessages' = SentMessages \cup {m} /\ m \notin SentMessages
          /\ SentAlerts' = SentAlerts \cup {h}
      <3>1. \A n \in Messages : body'[n] = IF n = m THEN h ELSE body[n]
        BY <1>0, <2>1 DEF SharedTypeOK
      <3>2. SentMessages' = SentMessages \cup {m} /\ m \notin SentMessages
        BY <2>2, <3>1 DEF SentMessages
      <3>3. SentAlerts' = SentAlerts \cup {h}
        BY <2>2, <3>1 DEF SentAlerts
      <3> QED BY <3>2, <3>3
    <2>4. /\ IsFiniteSet(SentMessages) /\ IsFiniteSet(SendsAgain)
          /\ Cardinality(SentMessages) + Cardinality(SendsAgain)
                <= Cardinality(SentAlerts) + lost["send"]
      BY DEF SendsAddUp
    <2>5. IsFiniteSet(SentAlerts) BY <2>4, SentIsFinite
    <2>6. /\ IsFiniteSet(SentMessages') /\ Cardinality(SentMessages') = Cardinality(SentMessages) + 1
          /\ Cardinality(SentAlerts') =
                Cardinality(SentAlerts) + (IF h \in SentAlerts THEN 0 ELSE 1)
      <3>1. IsFiniteSet(SentMessages \cup {m})
            /\ Cardinality(SentMessages \cup {m}) = Cardinality(SentMessages) + 1
        BY <2>3, <2>4, FS_AddElement
      <3>2. h \notin SentAlerts => Cardinality(SentAlerts \cup {h}) = Cardinality(SentAlerts) + 1
        BY <2>5, FS_AddElement
      <3>3. h \in SentAlerts => SentAlerts \cup {h} = SentAlerts OBVIOUS
      <3>4. Cardinality(SentAlerts) \in Nat BY <2>5, FS_CardinalityType
      <3>5. IsFiniteSet(SentMessages') /\ Cardinality(SentMessages') = Cardinality(SentMessages) + 1
        BY <2>3, <3>1
      <3>6. h \in SentAlerts => Cardinality(SentAlerts') = Cardinality(SentAlerts) BY <2>3, <3>3
      <3>7. h \notin SentAlerts => Cardinality(SentAlerts') = Cardinality(SentAlerts) + 1
        BY <2>3, <3>2
      <3> HIDE DEF h
      <3> QED BY <3>4, <3>5, <3>6, <3>7
    <2>7. /\ Cardinality(SentMessages) \in Nat /\ Cardinality(SentAlerts) \in Nat
          /\ Cardinality(SendsAgain) \in Nat /\ lost["send"] \in Nat
      BY <2>4, <2>5, FS_CardinalityType, IngestAssumption
      DEF IngestInv, IngestTypeOK, CalledAt
    <2>8. \A s \in Requests : s # r => InHand(s) # h BY <1>0, AlertPairs
    <2>9. r \in SendsAgain <=> h \in SentAlerts BY <2>1 DEF SendsAgain
    <2>10. CASE Enqueue(r, m)
      <3>1. Advance(r) /\ lost' = lost BY <2>10 DEF Enqueue
      <3>2. /\ rpc'[r] \in {"find", "respond"}
            /\ \A s \in Requests : s # r => rpc'[s] = rpc[s] /\ pos'[s] = pos[s]
        BY <1>0, <3>1, AdvanceTo
      <3>3. SendsAgain' = SendsAgain \ {r}
        BY <2>3, <2>8, <3>2 DEF SendsAgain, InHand
      <3>4. IsFiniteSet(SendsAgain')
        /\ Cardinality(SendsAgain') = Cardinality(SendsAgain) - (IF h \in SentAlerts THEN 1 ELSE 0)
        <4>1. IsFiniteSet(SendsAgain \ {r}) /\ Cardinality(SendsAgain \ {r})
                 = IF r \in SendsAgain THEN Cardinality(SendsAgain) - 1 ELSE Cardinality(SendsAgain)
          BY <2>4, FS_RemoveElement
        <4> QED BY <2>7, <2>9, <3>3, <4>1
      <3> HIDE DEF h
      <3> QED BY <2>4, <2>6, <2>7, <3>1, <3>4 DEF SendsAddUp
    <2>11. CASE SendAnswerLost(r, m)
      <3>1. rpc' = rpc /\ pos' = pos /\ lost'["send"] = lost["send"] + 1
        BY <1>0, <2>11 DEF SendAnswerLost, AnswerLost, requestVars, IngestTypeOK, CalledAt
      <3>2. SendsAgain' = SendsAgain \cup {r}
        BY <2>1, <2>3, <2>8, <3>1 DEF SendsAgain, InHand
      <3>3. IsFiniteSet(SendsAgain')
        /\ Cardinality(SendsAgain') = Cardinality(SendsAgain) + (IF h \in SentAlerts THEN 0 ELSE 1)
        <4>1. r \notin SendsAgain =>
                 IsFiniteSet(SendsAgain \cup {r})
                 /\ Cardinality(SendsAgain \cup {r}) = Cardinality(SendsAgain) + 1
          BY <2>4, FS_AddElement
        <4>2. r \in SendsAgain => SendsAgain \cup {r} = SendsAgain OBVIOUS
        <4>3. r \in SendsAgain => IsFiniteSet(SendsAgain') /\ Cardinality(SendsAgain') = Cardinality(SendsAgain)
          BY <2>4, <3>2, <4>2
        <4>4. r \notin SendsAgain => IsFiniteSet(SendsAgain') /\ Cardinality(SendsAgain') = Cardinality(SendsAgain) + 1
          BY <3>2, <4>1
        <4> HIDE DEF h
        <4> QED BY <2>7, <2>9, <4>3, <4>4
      <3> HIDE DEF h
      <3> QED BY <2>4, <2>6, <2>7, <3>1, <3>3 DEF SendsAddUp
    <2> QED BY <1>4, <2>10, <2>11
  <1> QED BY <1>1, <1>2, <1>3, <1>4 DEF IngestAlone, IngestNext

\* Nothing is stored, sent or counted at first.
LEMMA CountInit == ASSUME SharedInit, IngestInit PROVE CountInv /\ SendsAddUp
  <1>0. IngestInv BY IngestInitInv
  <1> USE <1>0 DEF SharedInit, IngestInit
  <1>1. Stored = {} /\ Reached = {} /\ SentMessages = {} /\ SentAlerts = {} /\ SendsAgain = {}
    <2>1. \A a \in Alerts : a[1] \in Requests BY <1>0, AlertParts DEF IngestInv
    <2>2. Stored = {} /\ Reached = {} BY <2>1 DEF Stored, Reached
    <2>3. SentMessages = {} /\ SentAlerts = {} BY DEF SentMessages, SentAlerts
    <2> QED BY <2>2, <2>3 DEF SendsAgain
  <1>2. Handled = {} BY <1>1, CountSets
  <1>3. /\ IsFiniteSet({}) /\ Cardinality({}) = 0 BY FS_EmptySet
  <1>4. \A fp : Counted(fp) = 0
    <2>1. \A fp : {a \in Stored : Fingerprint(a) = fp} = {} BY <1>1
    <2>2. \A fun : SumFunctionOnSet(fun, {}) = 0 BY <1>3, SumStep
    <2> QED BY <2>1, <2>2 DEF Counted
  <1>5. AddsUp
    <2>1. \A fp : Handled \cap Of(fp) = {} /\ Touched \cap Of(fp) = {}
      BY <1>1, <1>2, CountSets
    <2>2. lost["bump"] = 0 BY DEF CalledAt
    <2>3. \A fp : Cardinality(Handled \cap Of(fp)) = 0 /\ Cardinality(Touched \cap Of(fp)) = 0
      BY <1>3, <2>1
    <2> QED BY <1>4, <2>2, <2>3 DEF AddsUp
  <1>6. MatchIsStored /\ PutIsNew /\ RespondsAtTheEnd /\ StoredOccurred
    BY <1>1 DEF MatchIsStored, PutIsNew, RespondsAtTheEnd, StoredOccurred
  <1>7. SendsAddUp
    <2>1. lost["send"] = 0 BY DEF CalledAt
    <2> QED BY <1>1, <1>3, <2>1 DEF SendsAddUp
  <1> QED BY <1>0, <1>1, <1>3, <1>5, <1>6, <1>7 DEF CountInv

\* The counts depend on what ingest keeps and on which alerts are stored: a step
\* of another part that leaves both alone keeps them.
LEMMA CountOthers ==
    ASSUME CountInv, UNCHANGED ingestVars, Stored' = Stored
    PROVE  CountInv'
  <1>1. /\ rpc' = rpc /\ pos' = pos /\ lost' = lost /\ match' = match
        /\ occurrences' = occurrences
    BY DEF ingestVars, requestVars
  <1>2. Reached' = Reached /\ \A s \in Requests : InHand(s)' = InHand(s)
    BY <1>1 DEF Reached, InHand
  <1>3. /\ Handled' = Handled /\ Touched' = Touched
        /\ \A fp : Counted(fp)' = Counted(fp)
    BY <1>1 DEF Handled, Touched, Counted, Fingerprint
  <1>4. AddsUp' BY <1>1, <1>3 DEF CountInv, AddsUp, Of, Fingerprint, Fingerprints
  <1>5. MatchIsStored' /\ PutIsNew' /\ RespondsAtTheEnd' /\ StoredOccurred'
    BY <1>1, <1>2
    DEF CountInv, MatchIsStored, PutIsNew, RespondsAtTheEnd, StoredOccurred, Fingerprint
  <1> QED BY <1>2, <1>4, <1>5 DEF CountInv

\* A step of ingest, or the worker's effect on the table, keeps the counts.
LEMMA CountInvStep ==
    ASSUME IngestInv, IngestInv', CountInv, IngestAlone
    PROVE  CountInv'
  <1>1. /\ MatchIsStored' /\ PutIsNew' /\ RespondsAtTheEnd' /\ IsFiniteSet(Reached)'
        /\ StoredOccurred' /\ AddsUp'
    BY MatchStep, PutStep, EndStep, ReachedStep, CountStep DEF CountInv
  <1> QED BY <1>1 DEF CountInv

\* The counts add up in every reachable state, for any requests and payloads.
LEMMA CountInvariant == IngestSpec => [](IngestInv /\ CountInv /\ SendsAddUp)
  <1> DEFINE Inv == IngestInv /\ CountInv /\ SendsAddUp
  <1>1. IngestAloneInit => Inv BY IngestInitInv, CountInit DEF IngestAloneInit
  <1>2. Inv /\ IngestInv' /\ [IngestAlone]_ivars => Inv'
    <2>1. ASSUME Inv, IngestInv', IngestAlone PROVE Inv'
      BY <2>1, CountInvStep, SendsStep
    <2>2. ASSUME Inv, IngestInv', UNCHANGED ivars PROVE Inv'
      <3>1. /\ body' = body /\ lost' = lost /\ UNCHANGED ingestVars /\ rpc' = rpc
            /\ pos' = pos /\ status' = status
        BY <2>2 DEF ivars, queueVars, ingestVars, requestVars
      <3>2. /\ SentMessages' = SentMessages /\ SentAlerts' = SentAlerts
            /\ \A s \in Requests : InHand(s)' = InHand(s)
        BY <3>1 DEF SentMessages, SentAlerts, InHand
      <3>3. SendsAgain' = SendsAgain BY <3>1, <3>2 DEF SendsAgain
      <3>4. SendsAddUp' BY <2>2, <3>1, <3>2, <3>3 DEF SendsAddUp
      <3>5. CountInv' BY <2>2, <3>1, CountOthers DEF Stored
      <3> QED BY <2>2, <3>4, <3>5
    <2> QED BY <2>1, <2>2
  <1> QED BY <1>1, <1>2, IngestInvariant, PTL DEF IngestSpec

\* The sum's bounds are the property's: accepted requests are counted for certain,
\* and only what a request has come to may have been.
LEMMA ExactFromInv == ASSUME IngestInv, CountInv PROVE OccurrencesAddUp
  <1> SUFFICES ASSUME NEW f \in Fingerprints
               PROVE  LET occ == {a \in Alerts : Fingerprint(a) = f} IN
        /\ lost["put"] = 0 =>
               Counted(f) >= Cardinality({a \in occ : rpc[a[1]] = "accepted"})
        /\ Counted(f) <= Cardinality({a \in occ : rpc[a[1]] # "unborn" /\ a[2] <= pos[a[1]]})
                           + lost["bump"]
    BY DEF OccurrencesAddUp, Fingerprints
  <1> DEFINE occ == {a \in Alerts : Fingerprint(a) = f}
             Accepted == {a \in occ : rpc[a[1]] = "accepted"}
             Come == {a \in occ : rpc[a[1]] # "unborn" /\ a[2] <= pos[a[1]]}
  <1>0. IngestTypeOK /\ IsFiniteSet(Reached) BY DEF IngestInv, CountInv
  <1>1. Accepted \subseteq Handled \cap Of(f)
    <2> SUFFICES ASSUME NEW a \in Alerts, Fingerprint(a) = f, rpc[a[1]] = "accepted"
                 PROVE  a \in Handled
      BY DEF Of
    <2>1. a[1] \in Requests /\ a[2] \in DOMAIN Payload[a[1]] /\ a[2] \in Nat
      BY <1>0, AlertParts
    <2>2. pos[a[1]] = Len(Payload[a[1]]) BY <2>1 DEF CountInv, RespondsAtTheEnd
    <2>3. a[2] <= pos[a[1]] /\ pos[a[1]] \in Nat BY <1>0, <2>1, <2>2, InHandFacts
    <2> QED BY <2>1, <2>3 DEF Handled
  <1>2. Touched \cap Of(f) \subseteq Come /\ Come \subseteq Reached
    BY CountSets DEF Of, Reached, Touched
  <1>3. /\ IsFiniteSet(Handled \cap Of(f)) /\ Cardinality(Handled \cap Of(f)) \in Nat
        /\ Cardinality(Touched \cap Of(f)) \in Nat
        /\ Counted(f) \in Nat /\ lost["bump"] \in Nat
    BY <1>0, CountsAreNat
  <1>4. IsFiniteSet(Come) BY <1>0, <1>2, FS_Subset
  <1>5. IsFiniteSet(Accepted) BY <1>1, <1>3, FS_Subset
  <1>6. Cardinality(Accepted) \in Nat /\ Cardinality(Come) \in Nat
    BY <1>4, <1>5, FS_CardinalityType
  <1>7. Cardinality(Accepted) <= Cardinality(Handled \cap Of(f)) BY <1>1, <1>3, FS_Subset
  <1>8. Cardinality(Touched \cap Of(f)) <= Cardinality(Come) BY <1>2, <1>4, FS_Subset
  <1>9. /\ lost["put"] = 0 => Cardinality(Handled \cap Of(f)) <= Counted(f)
        /\ Counted(f) <= Cardinality(Touched \cap Of(f)) + lost["bump"]
    BY DEF CountInv, AddsUp
  <1> HIDE DEF Accepted, Come
  <1>10. /\ lost["put"] = 0 => Counted(f) >= Cardinality(Accepted)
         /\ Counted(f) <= Cardinality(Come) + lost["bump"]
    BY <1>3, <1>6, <1>7, <1>8, <1>9
  <1> QED BY <1>10 DEF Accepted, Come

\* The occurrences of a fingerprint's alerts add up in every reachable state:
\* every alert of an accepted request is counted, none twice, whatever invocations
\* interleave or fail half way; only calls the SDK made again are an exception.
THEOREM OccurrencesAreExact == IngestSpec => []OccurrencesAddUp
  BY ExactFromInv, CountInvariant, PTL

\* The queue never knows an alert the table does not have, and hears of it once
\* but for sends that the SDK made again, for any requests, payloads and
\* interleaving.
THEOREM SentOnceStored == IngestSpec => []EnqueuedOnceStored
  <1>1. ASSUME IngestInv, SendsAddUp PROVE EnqueuedOnceStored
    <2>1. \A m \in Messages : body[m] # None => body[m] \in Stored
      BY <1>1 DEF IngestInv, QueueInv, BodyIsStored
    <2>2. /\ IsFiniteSet(SentMessages) /\ IsFiniteSet(SendsAgain)
          /\ Cardinality(SentMessages) + Cardinality(SendsAgain)
                <= Cardinality(SentAlerts) + lost["send"]
      BY <1>1 DEF SendsAddUp
    <2>3. IsFiniteSet(SentAlerts) BY <2>2, SentIsFinite
    <2>4. /\ Cardinality(SentMessages) \in Nat /\ Cardinality(SentAlerts) \in Nat
          /\ Cardinality(SendsAgain) \in Nat /\ lost["send"] \in Nat
      BY <1>1, <2>2, <2>3, FS_CardinalityType, IngestAssumption
      DEF IngestInv, IngestTypeOK, CalledAt
    <2>5. Cardinality(SentMessages) <= Cardinality(SentAlerts) + lost["send"] BY <2>2, <2>4
    <2> QED BY <2>1, <2>5 DEF EnqueuedOnceStored, SentMessages, SentAlerts
  <1> QED BY <1>1, CountInvariant, PTL
===============================================================================
