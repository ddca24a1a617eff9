-------------------------------- MODULE Ingest --------------------------------
(***************************************************************************)
(* The ingest Lambda (services/ingest/handler.py, dedup.py): invocations   *)
(* run concurrently, each for one accepted request (an HTTP POST whose     *)
(* signature and payload were found good, or an SNS event) that carries    *)
(* one or more alerts.  Per alert the handler reads the by_fingerprint     *)
(* index, then either bumps the alert it found or stores a new one and     *)
(* enqueues it; these are separate calls, and the invocation may end after *)
(* any of them.  A sender's retry is one more request with the same        *)
(* alerts.  Requests that are refused (401, 400, 422) touch no state.      *)
(***************************************************************************)
EXTENDS SpineState, Sequences, Functions

CONSTANTS
    Requests,   \* invocations of the handler
    Payload,    \* request -> the fingerprints of its alerts, in order
    Window,     \* _DEDUP_WINDOW in ticks
    LastTick,   \* bound: the last tick of the model's clock
    LostAnswers \* bound on calls whose answer is lost, which the SDK repeats

\* new_alert_id gives alert i of request r an id of its own; there are no others.
ASSUME IngestAssumption ==
    /\ DOMAIN Payload = Requests
    /\ \A r \in Requests :
          /\ Payload[r] # <<>> /\ Payload[r] \in Seq(Range(Payload[r]))
          /\ \A i \in DOMAIN Payload[r] : <<r, i>> \in Alerts
    /\ \A a \in Alerts : \E r \in Requests : \E i \in DOMAIN Payload[r] : a = <<r, i>>
    /\ Window \in Nat
    /\ LastTick \in Nat
    /\ LostAnswers \in Nat

VARIABLES
    occurrences,  \* alert -> its occurrences column
    indexed,      \* alerts whose item has reached the by_fingerprint index
    now,          \* the clock, in ticks longer than an invocation may last
    rpc,          \* request -> its next step
    pos,          \* request -> position of the alert in hand in its payload
    receivedAt,   \* request -> received_at of its alerts
    match,        \* request -> the open alert find_open returned, or None
    seen,         \* alert -> the alerts of its fingerprint that the index held
                  \* when find_open ran for it (history)
    lost          \* step -> how many of its calls took effect without an answer

requestVars == <<rpc, pos, receivedAt, match>>
ingestVars == <<occurrences, indexed, now, requestVars, seen, lost>>

RequestSteps == {"find", "bump", "put", "send", "respond"}
Active(r) == rpc[r] \in RequestSteps
CalledAt == {"bump", "put", "send"}

IngestTypeOK ==
    /\ occurrences \in [Alerts -> Nat]
    /\ indexed \in SUBSET Alerts
    /\ now \in 0 .. LastTick
    /\ rpc \in [Requests -> RequestSteps \cup {"unborn", "accepted", "failed"}]
    /\ pos \in [Requests -> Nat]
    /\ \A r \in Requests : pos[r] \in DOMAIN Payload[r]
    /\ receivedAt \in [Requests -> 0 .. LastTick]
    /\ match \in [Requests -> Alerts \cup {None}]
    /\ seen \in [Alerts -> SUBSET Alerts]
    /\ lost \in [CalledAt -> 0 .. LostAnswers]

IngestInit ==
    /\ occurrences = [a \in Alerts |-> 0]
    /\ indexed = {}
    /\ now = 0
    /\ rpc = [r \in Requests |-> "unborn"]
    /\ pos = [r \in Requests |-> 1]
    /\ receivedAt = [r \in Requests |-> 0]
    /\ match = [r \in Requests |-> None]
    /\ seen = [a \in Alerts |-> {}]
    /\ lost = [step \in CalledAt |-> 0]

-------------------------------------------------------------------------------
\* The alert in hand, and what is fixed of an alert when its request arrives.
InHand(r) == <<r, pos[r]>>
Fingerprint(a) == Payload[a[1]][a[2]]
ReceivedAt(a) == receivedAt[a[1]]

At(r, step) == rpc[r] = step
Step(r, step) == rpc' = [rpc EXCEPT ![r] = step]

\* Mutant of Advance: the loop runs one alert past the payload.
AdvancePastEnd(r) ==
    IF pos[r] <= Len(Payload[r])
    THEN Step(r, "find") /\ pos' = [pos EXCEPT ![r] = @ + 1]
    ELSE Step(r, "respond") /\ UNCHANGED pos

\* On to the next alert of the payload, or to the answer.
Advance(r) ==
    IF pos[r] < Len(Payload[r])
    THEN Step(r, "find") /\ pos' = [pos EXCEPT ![r] = @ + 1]
    ELSE Step(r, "respond") /\ UNCHANGED pos

\* A request that verify and the adapter accepted; received_at is read once.
Accept(r) ==
    /\ At(r, "unborn")
    /\ Step(r, "find")
    /\ receivedAt' = [receivedAt EXCEPT ![r] = now]
    /\ UNCHANGED <<status, queueVars, occurrences, indexed, now, pos, match, seen, lost>>

\* Mutant of OpenMatches: a triaged alert no longer absorbs its repeats.
OpenMatchesQueuedOnly(a) ==
    {b \in indexed : /\ Fingerprint(b) = Fingerprint(a)
                     /\ ReceivedAt(b) >= ReceivedAt(a) - Window
                     /\ status[b] = "queued"}

\* The alerts the index query of find_open for alert a returns.
OpenMatches(a) ==
    {b \in indexed : /\ Fingerprint(b) = Fingerprint(a)
                     /\ ReceivedAt(b) >= ReceivedAt(a) - Window
                     /\ status[b] \in {"queued", "triaged"}}

\* ScanIndexForward = False, items[0]: one of the most recent matches.
Newest(S) == {a \in S : \A b \in S : ReceivedAt(b) <= ReceivedAt(a)}

FindOpen(r) ==
    /\ At(r, "find")
    /\ LET found == OpenMatches(InHand(r)) IN
         \/ /\ found = {}
            /\ Step(r, "put")
            /\ seen' = [seen EXCEPT ![InHand(r)] =
                  {b \in indexed : Fingerprint(b) = Fingerprint(InHand(r))}]
            /\ UNCHANGED match
         \/ \E a \in Newest(found) :
               /\ Step(r, "bump")
               /\ match' = [match EXCEPT ![r] = a]
               /\ UNCHANGED seen
    /\ UNCHANGED <<status, queueVars, occurrences, indexed, now, pos, receivedAt, lost>>

\* The call of a step took effect and its answer was lost: the SDK makes it again.
AnswerLost(step) ==
    /\ lost["bump"] + lost["put"] + lost["send"] < LostAnswers
    /\ lost' = [lost EXCEPT ![step] = @ + 1]

\* Mutants of Bump: occurrences is set instead of added to; the alert that
\* absorbs the repeat is enqueued again.
BumpOverwrites(r) ==
    /\ At(r, "bump")
    /\ occurrences' = [occurrences EXCEPT ![match[r]] = 2]
    /\ match' = [match EXCEPT ![r] = None]
    /\ Advance(r)
    /\ UNCHANGED <<status, queueVars, indexed, now, receivedAt, seen, lost>>

BumpEnqueuesAgain(r) ==
    /\ At(r, "bump")
    /\ occurrences' = [occurrences EXCEPT ![match[r]] = @ + 1]
    /\ \E m \in Messages : Send(m, match[r])
    /\ match' = [match EXCEPT ![r] = None]
    /\ Advance(r)
    /\ UNCHANGED <<status, indexed, now, receivedAt, seen, lost>>

\* bump: an atomic ADD on the item found.
Bump(r) ==
    /\ At(r, "bump")
    /\ occurrences' = [occurrences EXCEPT ![match[r]] = @ + 1]
    /\ match' = [match EXCEPT ![r] = None]
    /\ Advance(r)
    /\ UNCHANGED <<status, queueVars, indexed, now, receivedAt, seen, lost>>

BumpAnswerLost(r) ==
    /\ At(r, "bump")
    /\ occurrences' = [occurrences EXCEPT ![match[r]] = @ + 1]
    /\ AnswerLost("bump")
    /\ UNCHANGED <<status, queueVars, indexed, now, requestVars, seen>>

\* put_new: the item, status "queued", occurrences 1.
PutNew(r) ==
    /\ At(r, "put")
    /\ status' = [status EXCEPT ![InHand(r)] = "queued"]
    /\ occurrences' = [occurrences EXCEPT ![InHand(r)] = 1]
    /\ Step(r, "send")
    /\ UNCHANGED <<queueVars, indexed, now, pos, receivedAt, match, seen, lost>>

\* The put is unconditional: made again, it takes back what was added meanwhile.
StoreAnswerLost(r) ==
    /\ At(r, "put")
    /\ status' = [status EXCEPT ![InHand(r)] = "queued"]
    /\ occurrences' = [occurrences EXCEPT ![InHand(r)] = 1]
    /\ AnswerLost("put")
    /\ UNCHANGED <<queueVars, indexed, now, requestVars, seen>>

\* send_message with the new alert's id.
Enqueue(r, m) ==
    /\ At(r, "send")
    /\ Send(m, InHand(r))
    /\ Advance(r)
    /\ UNCHANGED <<status, occurrences, indexed, now, receivedAt, match, seen, lost>>

SendAnswerLost(r, m) ==
    /\ At(r, "send")
    /\ Send(m, InHand(r))
    /\ AnswerLost("send")
    /\ UNCHANGED <<status, occurrences, indexed, now, requestVars, seen>>

Respond(r) ==
    /\ At(r, "respond")
    /\ Step(r, "accepted")
    /\ UNCHANGED <<status, queueVars, occurrences, indexed, now, pos,
                   receivedAt, match, seen, lost>>

\* Mutant of RequestFails: a failed send_message is logged and passed over.
RequestFailsSwallowed(r) ==
    /\ At(r, "send")
    /\ Advance(r)
    /\ UNCHANGED <<status, queueVars, occurrences, indexed, now, receivedAt,
                   match, seen, lost>>

\* A call raised or the invocation died; what it did so far stays.
RequestFails(r) ==
    /\ Active(r)
    /\ Step(r, "failed")
    /\ match' = [match EXCEPT ![r] = None]
    /\ UNCHANGED <<status, queueVars, occurrences, indexed, now, pos,
                   receivedAt, seen, lost>>

\* The index catches up with the table.
IndexItem(a) ==
    /\ status[a] # "absent" /\ a \notin indexed
    /\ indexed' = indexed \cup {a}
    /\ UNCHANGED <<status, queueVars, occurrences, now, requestVars, seen, lost>>

\* An invocation ends within 30 s: it may see the tick change once.
Tick ==
    /\ now < LastTick
    /\ \A r \in Requests : Active(r) => receivedAt[r] = now
    /\ now' = now + 1
    /\ UNCHANGED <<status, queueVars, occurrences, indexed, requestVars, seen, lost>>

IngestNext ==
    \/ \E r \in Requests :
          \/ Accept(r) \/ FindOpen(r) \/ Bump(r) \/ PutNew(r)
          \/ \E m \in Messages : Enqueue(r, m)
          \/ BumpAnswerLost(r) \/ StoreAnswerLost(r)
          \/ \E m \in Messages : SendAnswerLost(r, m)
          \/ Respond(r) \/ RequestFails(r)
    \/ \E a \in Alerts : IndexItem(a)
    \/ Tick

-------------------------------------------------------------------------------
(* Ingest on its own, over the tables and the queue.                        *)

\* The worker's effect on the table: the alert's status becomes "triaged".
Judge(a) ==
    /\ status[a] = "queued" /\ \E m \in Messages : body[m] = a
    /\ status' = [status EXCEPT ![a] = "triaged"]
    /\ UNCHANGED <<queueVars, ingestVars>>

ivars == <<status, queueVars, ingestVars>>

IngestAlone == IngestNext \/ \E a \in Alerts : Judge(a)

IngestAloneInit == SharedInit /\ IngestInit
IngestSpec == IngestAloneInit /\ [][IngestAlone]_ivars

-------------------------------------------------------------------------------
(* Properties.                                                              *)

\* Every variable has its type.
IngestAloneTypeOK == SharedTypeOK /\ IngestTypeOK

Stored == {a \in Alerts : status[a] # "absent"}

\* Two open alerts of one fingerprint inside the dedup window can only come from
\* a race: whatever the index showed when find_open ran for a stored alert was
\* older than the window, even though the put comes later and the earlier alert
\* may have been triaged by then (handler.py 44-56, dedup.py 46-62).
DuplicateOnlyByRace ==
    \A a \in Stored : \A b \in seen[a] : ReceivedAt(b) < ReceivedAt(a) - Window

\* The occurrences of a fingerprint's alerts add up: every alert of an accepted
\* request is counted, none twice, whatever invocations interleave and whichever
\* of them fail half way through their payload.  Calls that the SDK made again
\* are the only exception, and a bump made again adds no more than itself
\* (handler.py 48, dedup.py 40-69).
Counted(f) == SumFunctionOnSet(occurrences, {a \in Stored : Fingerprint(a) = f})

OccurrencesAddUp ==
    \A f \in UNION {Range(Payload[r]) : r \in Requests} :
        LET occ == {a \in Alerts : Fingerprint(a) = f} IN
          /\ lost["put"] = 0 =>
                 Counted(f) >= Cardinality({a \in occ : rpc[a[1]] = "accepted"})
          /\ Counted(f) <= Cardinality({a \in occ : rpc[a[1]] # "unborn" /\ a[2] <= pos[a[1]]})
                             + lost["bump"]

\* The queue never knows an alert the table does not have, and hears of it once
\* but for sends that the SDK made again: the item is put before its id is sent,
\* and only its creator sends it (handler.py 51-55).
EnqueuedOnceStored ==
    /\ \A m \in Messages : body[m] # None => body[m] \in Stored
    /\ Cardinality({m \in Messages : body[m] # None})
           <= Cardinality({body[m] : m \in Messages} \ {None}) + lost["send"]

\* An accepted request has left no alert it stored behind: each one's id went
\* to the queue, also those early in a payload of several (handler.py 46-56).
AcceptedIsEnqueued ==
    \A a \in Stored : rpc[a[1]] = "accepted" => \E m \in Messages : body[m] = a

\* DESIGN.md's dedup rule: an alert within the window of an open alert with its
\* fingerprint attaches to it, so no two open alerts lie that close.  Concurrent
\* invocations break it.
OneOpenPerWindow ==
    \A a, b \in Stored :
        a # b /\ Fingerprint(a) = Fingerprint(b)
            => \/ ReceivedAt(a) < ReceivedAt(b) - Window
               \/ ReceivedAt(b) < ReceivedAt(a) - Window

-------------------------------------------------------------------------------
(* What makes the properties inductive: how far each invocation is in its     *)
(* payload, and what that says of the table, of the queue and of the index.   *)

Ahead(r, i) == i > pos[r] \/ (i = pos[r] /\ rpc[r] \in {"unborn", "find", "bump"})
Behind(r, i) == i < pos[r] \/ (i = pos[r] /\ rpc[r] \in {"respond", "accepted"})

UnbornIsFirst == \A r \in Requests : rpc[r] = "unborn" => pos[r] = 1

UnsentHasNoBody == \A m \in Messages : sqs[m] = "unsent" => body[m] = None

BodyIsStored == \A m \in Messages : body[m] # None => body[m] \in Stored

StoredIsOfRequest ==
    \A a \in Stored : \E r \in Requests : \E i \in DOMAIN Payload[r] :
        a = <<r, i>> /\ ~Ahead(r, i)

PutIsUnsent ==
    \A r \in Requests : rpc[r] = "put" =>
        status[InHand(r)] # "triaged" /\ \A m \in Messages : body[m] # InHand(r)

SendIsStored == \A r \in Requests : rpc[r] = "send" => InHand(r) \in Stored

BehindIsSent ==
    \A r \in Requests : \A i \in DOMAIN Payload[r] :
        rpc[r] # "failed" /\ Behind(r, i) /\ <<r, i>> \in Stored
            => \E m \in Messages : body[m] = <<r, i>>

IndexedIsStored == indexed \subseteq Stored

SeenIsOld ==
    \A a \in Alerts : \A b \in seen[a] :
        /\ b \in indexed /\ ReceivedAt(b) < ReceivedAt(a) - Window
        /\ \E r \in Requests : \E i \in DOMAIN Payload[r] :
              a = <<r, i>> /\ rpc[r] # "unborn"

QueueInv == UnsentHasNoBody /\ BodyIsStored
PayloadInv == UnbornIsFirst /\ StoredIsOfRequest /\ PutIsUnsent /\ SendIsStored
IngestInv ==
    SharedTypeOK /\ IngestTypeOK /\ QueueInv /\ PayloadInv
        /\ BehindIsSent /\ IndexedIsStored /\ SeenIsOld
===============================================================================
