-------------------------------- MODULE RouteA --------------------------------
(***************************************************************************)
(* Route A, Alertmanager's alerts over Kafka to ingest.  alerts-bridge     *)
(* (bank/k8s/alerts_bridge/service.py) answers a webhook after producing   *)
(* its alerts to alerts.raw, a topic of one partition, through the         *)
(* producer's local buffer, which its threads share.  kafka-relay          *)
(* (bank/k8s/kafka_relay/service.py on the ConsumerLoop of                 *)
(* bank/k8s/_shared/kafka.py) polls message by message, posts each to      *)
(* ingest with retries and commits.  Pods may restart, the consumer may    *)
(* have to rejoin its group, the broker may lose or expire its log.        *)
(***************************************************************************)
EXTENDS Integers, Sequences, FiniteSets

CONSTANTS
    Webhooks,   \* requests Alertmanager makes; a retry is one more request
    Size,       \* webhook -> the number of alerts in its payload
    Attempts,   \* posts per message: the first and one per entry of backoff
    MaxLog      \* bound: messages the topic ever takes

ASSUME RouteAssumption ==
    /\ Size \in [Webhooks -> Nat]
    /\ Attempts \in Nat \ {0}
    /\ MaxLog \in Nat

VARIABLES
    wpc,        \* webhook -> where its handler is, then its answer
    wpos,       \* webhook -> alerts of its payload gone through
    hadError,   \* webhook -> had_error of handle_webhook
    buffer,     \* alerts in the producer's buffer
    gone,       \* alerts that left the buffer for nowhere (history)
    log,        \* the topic: every message it ever took, by offset
    start,      \* offsets up to here are no longer in the topic
    rpc,        \* where the consumer thread is
    hand,       \* the offset it handles, or 0
    attempt,    \* posts begun for the message in hand
    position,   \* the last offset polled
    asked,      \* the last offset commit was called for; commits run behind
    committed,  \* the group's committed offset, 0 for none
    relayed,    \* offsets answered 2xx, or counted in relay_dropped_total (history)
    raised      \* offsets whose handler raised (history)

bridgeVars == <<wpc, wpos, hadError>>
topicVars == <<log, start>>
handVars == <<rpc, hand, attempt>>
offsetVars == <<position, asked, committed>>
outcomeVars == <<relayed, raised>>
relayVars == <<handVars, offsetVars, outcomeVars>>
vars == <<bridgeVars, buffer, gone, topicVars, relayVars>>

AlertsOf(w) == {<<w, i>> : i \in 1 .. Size[w]}
Alerts == UNION {AlertsOf(w) : w \in Webhooks}

TypeOK ==
    /\ wpc \in [Webhooks -> {"unborn", "publish", "flush",
                             "accepted", "rejected", "cut"}]
    /\ wpos \in [Webhooks -> Nat]
    /\ \A w \in Webhooks :
          /\ wpos[w] <= Size[w]
          /\ wpc[w] = "unborn" => wpos[w] = 0
          /\ wpc[w] = "publish" => wpos[w] < Size[w]
    /\ hadError \in [Webhooks -> BOOLEAN]
    /\ buffer \in SUBSET Alerts /\ gone \in SUBSET Alerts
    /\ log \in Seq(Alerts) /\ Len(log) <= MaxLog
    /\ start \in 0 .. Len(log)
    /\ rpc \in {"poll", "post", "commit"}
    /\ hand \in 0 .. Len(log) /\ (hand = 0 <=> rpc = "poll")
    /\ attempt \in 0 .. Attempts
    /\ position \in 0 .. Len(log)
    /\ asked \in 0 .. Len(log) /\ committed \in 0 .. Len(log)
    /\ relayed \in SUBSET (1 .. Len(log)) /\ raised \in SUBSET (1 .. Len(log))

Init ==
    /\ wpc = [w \in Webhooks |-> "unborn"]
    /\ wpos = [w \in Webhooks |-> 0]
    /\ hadError = [w \in Webhooks |-> FALSE]
    /\ buffer = {} /\ gone = {}
    /\ log = <<>> /\ start = 0
    /\ rpc = "poll" /\ hand = 0 /\ attempt = 0
    /\ position = 0 /\ asked = 0 /\ committed = 0
    /\ relayed = {} /\ raised = {}

-------------------------------------------------------------------------------
(* alerts-bridge: one thread per webhook.                                   *)

Handling(w) == wpc[w] \in {"publish", "flush"}

\* The alert at wpos is done with: on to the next, or to flush.
NextAlert(w) ==
    /\ wpos' = [wpos EXCEPT ![w] = @ + 1]
    /\ wpc' = [wpc EXCEPT ![w] = IF wpos[w] + 1 < Size[w] THEN "publish" ELSE "flush"]

Receive(w) ==
    /\ wpc[w] = "unborn"
    /\ wpc' = [wpc EXCEPT ![w] = IF Size[w] = 0 THEN "flush" ELSE "publish"]
    /\ UNCHANGED <<wpos, hadError, buffer, gone, topicVars, relayVars>>

\* publish puts the message in the buffer; nothing waits for its delivery.
Publish(w) ==
    /\ wpc[w] = "publish"
    /\ buffer' = buffer \cup {<<w, wpos[w] + 1>>}
    /\ NextAlert(w)
    /\ UNCHANGED <<hadError, gone, topicVars, relayVars>>

\* Mutant of PublishRaises: the failed produce is passed over.
PublishRaisesForgotten(w) ==
    /\ wpc[w] = "publish"
    /\ NextAlert(w)
    /\ UNCHANGED <<hadError, buffer, gone, topicVars, relayVars>>

\* publish raises (the buffer is full); the handler goes on to the next alert.
PublishRaises(w) ==
    /\ wpc[w] = "publish"
    /\ hadError' = [hadError EXCEPT ![w] = TRUE]
    /\ NextAlert(w)
    /\ UNCHANGED <<buffer, gone, topicVars, relayVars>>

\* flush returns: the buffer ran empty, or ten seconds passed.  How many
\* messages are left is what it returns, and KafkaPublisher.flush drops that.
Answer(w) ==
    /\ wpc[w] = "flush"
    /\ wpc' = [wpc EXCEPT ![w] = IF hadError[w] THEN "rejected" ELSE "accepted"]
    /\ UNCHANGED <<wpos, hadError, buffer, gone, topicVars, relayVars>>

FlushRaises(w) ==
    /\ wpc[w] = "flush"
    /\ wpc' = [wpc EXCEPT ![w] = "rejected"]
    /\ hadError' = [hadError EXCEPT ![w] = TRUE]
    /\ UNCHANGED <<wpos, buffer, gone, topicVars, relayVars>>

\* The pod restarts: the buffer and the handlers are gone.
BridgeRestart ==
    /\ buffer # {} \/ \E w \in Webhooks : Handling(w)
    /\ wpc' = [w \in Webhooks |-> IF Handling(w) THEN "cut" ELSE wpc[w]]
    /\ buffer' = {}
    /\ gone' = gone \cup buffer
    /\ UNCHANGED <<wpos, hadError, topicVars, relayVars>>

-------------------------------------------------------------------------------
(* The producer's background thread and the topic.                          *)

\* The broker takes x; the buffer lets go of it.
Deliver(x) ==
    /\ x \in buffer /\ Len(log) < MaxLog
    /\ log' = Append(log, x)
    /\ buffer' = buffer \ {x}
    /\ UNCHANGED <<bridgeVars, gone, start, relayVars>>

\* The broker takes x and its answer is lost: the producer, which is not
\* idempotent, will send x again.
DeliverAnswerLost(x) ==
    /\ x \in buffer /\ Len(log) < MaxLog
    /\ log' = Append(log, x)
    /\ UNCHANGED <<bridgeVars, buffer, gone, start, relayVars>>

\* The producer gives x up after its delivery timeout; no callback hears of it.
Expire(x) ==
    /\ x \in buffer
    /\ buffer' = buffer \ {x}
    /\ gone' = gone \cup {x}
    /\ UNCHANGED <<bridgeVars, topicVars, relayVars>>

\* Retention passes, or a broker on ephemeral storage comes back without its
\* log.  Offsets go on where they were.
Truncate ==
    /\ \E s \in start + 1 .. Len(log) : start' = s
    /\ UNCHANGED <<bridgeVars, buffer, gone, log, relayVars>>

-------------------------------------------------------------------------------
(* kafka-relay: ConsumerLoop._run and handle_message.                       *)

\* Where a consumer without a position of its own begins: at the committed
\* offset, or at the earliest message when that is not in the topic.
Later(o) == IF o < start THEN start ELSE o

\* handle_message is over; the loop polls again.
BackToPoll ==
    /\ rpc' = "poll" /\ hand' = 0 /\ attempt' = 0

\* Mutant of Poll: the message is committed as it is taken.
PollCommits ==
    /\ rpc = "poll" /\ Later(position) < Len(log)
    /\ rpc' = "post" /\ hand' = Later(position) + 1 /\ attempt' = 1
    /\ position' = Later(position) + 1
    /\ asked' = Later(position) + 1
    /\ UNCHANGED <<bridgeVars, buffer, gone, topicVars, committed, outcomeVars>>

Poll ==
    /\ rpc = "poll" /\ Later(position) < Len(log)
    /\ rpc' = "post" /\ hand' = Later(position) + 1 /\ attempt' = 1
    /\ position' = Later(position) + 1
    /\ UNCHANGED <<bridgeVars, buffer, gone, topicVars, asked, committed,
                   outcomeVars>>

\* A 2xx ends the attempts.
PostAccepted ==
    /\ rpc = "post"
    /\ relayed' = relayed \cup {hand}
    /\ rpc' = "commit"
    /\ UNCHANGED <<bridgeVars, buffer, gone, topicVars, hand, attempt,
                   offsetVars, raised>>

\* Mutants of PostFails: one post too many; the last failure starts over.
PostFailsOnceMore ==
    /\ rpc = "post"
    /\ \/ /\ attempt <= Attempts
          /\ attempt' = attempt + 1
          /\ UNCHANGED <<rpc, relayed>>
       \/ /\ attempt > Attempts
          /\ rpc' = "commit"
          /\ relayed' = relayed \cup {hand}
          /\ UNCHANGED attempt
    /\ UNCHANGED <<bridgeVars, buffer, gone, topicVars, hand, offsetVars, raised>>

PostFailsForever ==
    /\ rpc = "post"
    /\ attempt' = IF attempt < Attempts THEN attempt + 1 ELSE 1
    /\ UNCHANGED <<bridgeVars, buffer, gone, topicVars, rpc, hand, offsetVars,
                   outcomeVars>>

\* Another status, or a URLError: sleep and try again, or drop.
PostFails ==
    /\ rpc = "post"
    /\ \/ /\ attempt < Attempts
          /\ attempt' = attempt + 1
          /\ UNCHANGED <<rpc, relayed>>
       \/ /\ attempt = Attempts
          /\ rpc' = "commit"
          /\ relayed' = relayed \cup {hand}
          /\ UNCHANGED attempt
    /\ UNCHANGED <<bridgeVars, buffer, gone, topicVars, hand, offsetVars,
                   raised>>

\* The answer times out or the connection closes without one: that is no
\* URLError, the handler raises, and the loop logs it and polls on.
PostRaises ==
    /\ rpc = "post"
    /\ raised' = raised \cup {hand}
    /\ BackToPoll
    /\ UNCHANGED <<bridgeVars, buffer, gone, topicVars, offsetVars, relayed>>

\* consumer.commit(message) only asks for the commit.
Commit ==
    /\ rpc = "commit"
    /\ asked' = hand
    /\ BackToPoll
    /\ UNCHANGED <<bridgeVars, buffer, gone, topicVars, position, committed,
                   outcomeVars>>

\* commit raises, after the post; the loop polls on.
CommitRaises ==
    /\ rpc = "commit"
    /\ BackToPoll
    /\ UNCHANGED <<bridgeVars, buffer, gone, topicVars, offsetVars, outcomeVars>>

CommitLands ==
    /\ asked # committed
    /\ committed' = asked
    /\ UNCHANGED <<bridgeVars, buffer, gone, topicVars, handVars, position, asked,
                   outcomeVars>>

\* The group rebalances: the consumer resumes from the committed offset, while
\* its thread still handles the message in hand.
Rejoin ==
    /\ position' = Later(committed) /\ asked' = committed
    /\ UNCHANGED <<bridgeVars, buffer, gone, topicVars, handVars, committed,
                   outcomeVars>>

\* The pod restarts, wherever its thread is.
RelayRestart ==
    /\ BackToPoll
    /\ position' = Later(committed) /\ asked' = committed
    /\ UNCHANGED <<bridgeVars, buffer, gone, topicVars, committed, outcomeVars>>

-------------------------------------------------------------------------------
HandlerStep(w) ==
    Publish(w) \/ PublishRaises(w) \/ Answer(w) \/ FlushRaises(w)

RelayStep ==
    Poll \/ PostAccepted \/ PostFails \/ PostRaises \/ Commit \/ CommitRaises

Next ==
    \/ \E w \in Webhooks : Receive(w) \/ HandlerStep(w)
    \/ BridgeRestart
    \/ \E x \in Alerts : Deliver(x) \/ DeliverAnswerLost(x) \/ Expire(x)
    \/ Truncate
    \/ RelayStep
    \/ CommitLands \/ Rejoin \/ RelayRestart

\* The threads run on, the producer delivers a message or gives it up.
Fairness ==
    /\ \A w \in Webhooks : WF_vars(HandlerStep(w))
    /\ \A x \in Alerts : WF_vars(Deliver(x) \/ Expire(x))
    /\ WF_vars(RelayStep)

Spec == Init /\ [][Next]_vars
FairSpec == Spec /\ Fairness

-------------------------------------------------------------------------------
(* Properties.                                                              *)

\* What became of a message is known: ingest took it, it was counted as
\* dropped, its handler raised and was logged, or the topic no longer had it.
Settled(o) == o \in relayed \/ o \in raised \/ o <= start

\* The committed offset never runs ahead of the work: whatever order retries,
\* late commits, rejoins and restarts come in, a restart skips no message that
\* nobody looked at (kafka_relay/service.py 107-132, kafka.py 149-167).
CommittedIsSettled == \A o \in 1 .. committed : Settled(o)

\* A webhook answered 202 has none of its alerts missed by the handler: each
\* was handed to the producer, also when another one's produce failed
\* (alerts_bridge/service.py 60-80).
AcceptedIsProduced ==
    \A w \in Webhooks :
        wpc[w] = "accepted"
            => AlertsOf(w) \subseteq buffer \cup gone \cup {log[o] : o \in DOMAIN log}

\* One bad message does not block the partition: once restarts and rejoins
\* cease, an alert of a webhook answered 202 is settled, or the producer gave it
\* up (kafka_relay/service.py 107-110).
SettledInTheEnd(w) ==
    \A x \in AlertsOf(w) :
        x \in gone \/ \E o \in DOMAIN log : log[o] = x /\ Settled(o)

AcceptedEventuallySettled ==
    <>[][~(Rejoin \/ RelayRestart)]_vars
        => \A w \in Webhooks : wpc[w] = "accepted" ~> SettledInTheEnd(w)

\* alerts_bridge/service.py 24-26: a webhook is answered 202 only once every
\* message has left the local producer buffer.  A flush that times out answers
\* 202 all the same.
AcceptedHasLeftBuffer ==
    \A w \in Webhooks : wpc[w] = "accepted" => AlertsOf(w) \cap buffer = {}

\* kafka_relay/service.py 107-110: a message is committed after a successful post
\* or after the last retry, counted as dropped.  A post that times out raises,
\* and the next message's commit covers the one that was skipped.
CommittedIsRelayed ==
    \A o \in 1 .. committed :
        \/ o <= start
        \/ \E p \in DOMAIN log : log[p] = log[o] /\ p \in relayed
===============================================================================
