----------------------------- MODULE RouteAProofs -----------------------------
(***************************************************************************)
(* Route A for any webhooks, payloads, number of attempts and length of    *)
(* the topic: the types, and that the relay's committed offset never runs  *)
(* ahead of what it has settled.                                           *)
(***************************************************************************)
EXTENDS RouteA, TLAPS

\* What the relay has behind it: every offset it polled past, other than the
\* one in hand, is settled; so is every offset below the one in hand, which a
\* rejoin may have left above position, and every offset a commit was asked
\* for; and a message is committed only after it was posted or dropped.
SettledUpTo(o) == \A p \in 1 .. o : Settled(p)

RelayInv ==
    /\ \A o \in 1 .. position : o = hand \/ Settled(o)
    /\ hand # 0 => SettledUpTo(hand - 1)
    /\ rpc = "commit" => hand \in relayed
    /\ SettledUpTo(asked)
    /\ SettledUpTo(committed)

LEMMA InitInv == Init => TypeOK /\ RelayInv
  <1> SUFFICES ASSUME Init PROVE TypeOK /\ RelayInv
    OBVIOUS
  <1> USE DEF Init
  <1>1. log \in Seq(Alerts) /\ Len(log) = 0
    OBVIOUS
  <1>2. TypeOK
    BY <1>1, RouteAssumption DEF TypeOK
  <1>3. RelayInv
    BY DEF RelayInv, SettledUpTo
  <1> QED
    BY <1>2, <1>3

\* The bridge's handlers keep the types and leave topic and relay alone.
LEMMA BridgeStep ==
    ASSUME TypeOK,
           \/ \E w \in Webhooks : Receive(w) \/ HandlerStep(w)
           \/ BridgeRestart
    PROVE  TypeOK' /\ UNCHANGED <<topicVars, relayVars>>
  <1> USE DEF TypeOK, bridgeVars, topicVars, relayVars, handVars, offsetVars,
              outcomeVars
  <1>1. ASSUME NEW w \in Webhooks, Receive(w)
        PROVE  TypeOK' /\ UNCHANGED <<topicVars, relayVars>>
    <2>1. wpos[w] = 0 /\ Size[w] \in Nat
      BY <1>1, RouteAssumption DEF Receive
    <2>2. wpc' \in [Webhooks -> {"unborn", "publish", "flush",
                                "accepted", "rejected", "cut"}]
      BY <1>1 DEF Receive
    <2>3. \A v \in Webhooks :
             /\ wpc'[v] = "unborn" => wpos[v] = 0
             /\ wpc'[v] = "publish" => wpos[v] < Size[v]
      BY <1>1, <2>1 DEF Receive
    <2> QED
      BY <1>1, <2>2, <2>3 DEF Receive
  <1>2. ASSUME NEW w \in Webhooks, wpc[w] = "publish"
        PROVE  <<w, wpos[w] + 1>> \in Alerts
    <2>1. wpos[w] + 1 \in 1 .. Size[w]
      BY <1>2, RouteAssumption
    <2>2. <<w, wpos[w] + 1>> \in AlertsOf(w)
      BY <2>1 DEF AlertsOf
    <2> QED
      BY <2>2 DEF Alerts
  <1>3. ASSUME NEW w \in Webhooks, wpc[w] = "publish", NextAlert(w)
        PROVE  /\ wpc' \in [Webhooks -> {"unborn", "publish", "flush",
                                        "accepted", "rejected", "cut"}]
               /\ wpos' \in [Webhooks -> Nat]
               /\ \A v \in Webhooks :
                     /\ wpos'[v] <= Size[v]
                     /\ wpc'[v] = "unborn" => wpos'[v] = 0
                     /\ wpc'[v] = "publish" => wpos'[v] < Size[v]
    <2>1. /\ Size[w] \in Nat /\ wpos[w] \in Nat /\ wpos[w] < Size[w]
          /\ \A v \in Webhooks : Size[v] \in Nat /\ wpos[v] \in Nat
      BY <1>3, RouteAssumption
    <2>2. /\ wpos' = [wpos EXCEPT ![w] = wpos[w] + 1]
          /\ wpc' = [wpc EXCEPT ![w] =
                        IF wpos[w] + 1 < Size[w] THEN "publish" ELSE "flush"]
      BY <1>3 DEF NextAlert
    <2>3. /\ wpos' \in [Webhooks -> Nat]
          /\ \A v \in Webhooks : wpos'[v] = IF v = w THEN wpos[w] + 1 ELSE wpos[v]
      BY <2>1, <2>2
    <2>4. /\ wpc' \in [Webhooks -> {"unborn", "publish", "flush",
                                   "accepted", "rejected", "cut"}]
          /\ \A v \in Webhooks : v # w => wpc'[v] = wpc[v]
          /\ wpc'[w] = IF wpos[w] + 1 < Size[w] THEN "publish" ELSE "flush"
      BY <2>2
    <2> QED
      BY <2>1, <2>3, <2>4
  <1>4. ASSUME NEW w \in Webhooks, Publish(w)
        PROVE  TypeOK' /\ UNCHANGED <<topicVars, relayVars>>
    <2>1. buffer' \in SUBSET Alerts
      BY <1>2, <1>4 DEF Publish
    <2>2. TypeOK'
      BY <1>4, <2>1, <1>3 DEF Publish
    <2> QED
      BY <1>4, <2>2 DEF Publish
  <1>5. ASSUME NEW w \in Webhooks, PublishRaises(w)
        PROVE  TypeOK' /\ UNCHANGED <<topicVars, relayVars>>
    BY <1>5, <1>3 DEF PublishRaises
  <1>6. ASSUME NEW w \in Webhooks, Answer(w) \/ FlushRaises(w)
        PROVE  TypeOK' /\ UNCHANGED <<topicVars, relayVars>>
    BY <1>6 DEF Answer, FlushRaises
  <1>7. ASSUME BridgeRestart
        PROVE  TypeOK' /\ UNCHANGED <<topicVars, relayVars>>
    BY <1>7 DEF BridgeRestart, Handling
  <1> QED
    BY <1>1, <1>4, <1>5, <1>6, <1>7 DEF HandlerStep

\* The topic only grows at its end, and the messages that leave it count as
\* settled.
LEMMA TopicStep ==
    ASSUME TypeOK, RelayInv,
           \/ \E x \in Alerts : Deliver(x) \/ DeliverAnswerLost(x) \/ Expire(x)
           \/ Truncate
    PROVE  TypeOK' /\ RelayInv'
  <1> USE DEF bridgeVars, topicVars, relayVars, handVars, offsetVars, outcomeVars
  <1>1. ASSUME NEW x \in Alerts, Deliver(x) \/ DeliverAnswerLost(x)
        PROVE  TypeOK' /\ UNCHANGED <<start, relayVars>>
    <2>1. log' \in Seq(Alerts) /\ Len(log') = Len(log) + 1
      <3>1. log \in Seq(Alerts) /\ log' = Append(log, x)
        BY <1>1 DEF Deliver, DeliverAnswerLost, TypeOK
      <3> QED
        BY <3>1
    <2>2. Len(log') <= MaxLog
      BY <1>1, <2>1, RouteAssumption DEF Deliver, DeliverAnswerLost, TypeOK
    <2>3. buffer' \in SUBSET Alerts /\ Len(log) \in Nat
      BY <1>1 DEF Deliver, DeliverAnswerLost, TypeOK
    <2>4. UNCHANGED <<bridgeVars, gone, start, relayVars>>
      BY <1>1 DEF Deliver, DeliverAnswerLost
    <2> QED
      BY <2>1, <2>2, <2>3, <2>4 DEF TypeOK
  <1>2. ASSUME NEW x \in Alerts, Expire(x)
        PROVE  TypeOK' /\ UNCHANGED <<start, relayVars>>
    BY <1>2 DEF Expire, TypeOK
  <1>3. ASSUME Truncate
        PROVE  TypeOK' /\ start' >= start /\ UNCHANGED relayVars
    BY <1>3 DEF Truncate, TypeOK
  <1>4. TypeOK' /\ start' >= start /\ UNCHANGED relayVars
    <2>1. start \in Int
      BY DEF TypeOK
    <2>2. ASSUME NEW x \in Alerts, Deliver(x) \/ DeliverAnswerLost(x) \/ Expire(x)
          PROVE  TypeOK' /\ start' >= start /\ UNCHANGED relayVars
      BY <1>1, <1>2, <2>1, <2>2
    <2> QED
      BY <1>3, <2>2
  <1>5. \A o \in Nat : Settled(o) => Settled(o)'
    BY <1>4 DEF Settled, TypeOK
  <1>6. RelayInv'
    BY <1>4, <1>5 DEF RelayInv, SettledUpTo, TypeOK
  <1> QED
    BY <1>4, <1>6

\* Each step of the relay.
LEMMA RelayStepInv ==
    ASSUME TypeOK, RelayInv, RelayStep \/ CommitLands \/ Rejoin \/ RelayRestart
    PROVE  TypeOK' /\ RelayInv'
  <1> USE RouteAssumption
      DEF TypeOK, RelayInv, SettledUpTo, Settled, BackToPoll, Later, bridgeVars,
          topicVars, handVars, offsetVars, outcomeVars
  <1>1. CASE Poll
    <2> DEFINE o == Later(position) + 1
    <2>1. /\ hand = 0 /\ hand' = o /\ position' = o /\ rpc' = "post" /\ attempt' = 1
          /\ o \in 1 .. Len(log)
          /\ UNCHANGED <<bridgeVars, buffer, gone, topicVars, asked, committed,
                         outcomeVars>>
      BY <1>1 DEF Poll
    <2>2. \A p \in 1 .. o - 1 : Settled(p)
      BY <2>1
    <2>3. TypeOK'
      BY <2>1
    <2>4. \A p \in Nat : Settled(p)' <=> Settled(p)
      BY <2>1
    <2> HIDE DEF o
    <2>5. RelayInv'
      BY <2>1, <2>2, <2>4
    <2> QED
      BY <2>3, <2>5
  <1>2. CASE PostAccepted
    BY <1>2 DEF PostAccepted
  <1>3. CASE PostFails
    <2>1. /\ rpc = "post" /\ attempt' \in 0 .. Attempts
          /\ rpc' \in {"post", "commit"}
          /\ rpc' = "commit" => hand \in relayed'
          /\ relayed' \in {relayed, relayed \cup {hand}}
      BY <1>3 DEF PostFails
    <2>2. UNCHANGED <<bridgeVars, buffer, gone, topicVars, hand, offsetVars, raised>>
      BY <1>3 DEF PostFails
    <2>3. hand \in 1 .. Len(log) /\ relayed' \in SUBSET (1 .. Len(log))
      BY <2>1
    <2>4. TypeOK'
      BY <2>1, <2>2, <2>3
    <2>5. RelayInv'
      BY <2>1, <2>2
    <2> QED
      BY <2>4, <2>5
  <1>4. CASE PostRaises
    BY <1>4 DEF PostRaises
  <1>5. CASE Commit
    BY <1>5 DEF Commit
  <1>6. CASE CommitRaises
    BY <1>6 DEF CommitRaises
  <1>7. CASE CommitLands
    BY <1>7 DEF CommitLands
  <1>8. CASE Rejoin
    BY <1>8 DEF Rejoin
  <1>9. CASE RelayRestart
    BY <1>9 DEF RelayRestart
  <1> QED
    BY <1>1, <1>2, <1>3, <1>4, <1>5, <1>6, <1>7, <1>8, <1>9 DEF RelayStep

THEOREM RelayInvariant == Spec => [](TypeOK /\ RelayInv)
  <1>1. Init => TypeOK /\ RelayInv
    BY InitInv
  <1>2. TypeOK /\ RelayInv /\ [Next]_vars => (TypeOK /\ RelayInv)'
    <2> SUFFICES ASSUME TypeOK, RelayInv, [Next]_vars
                 PROVE  (TypeOK /\ RelayInv)'
      OBVIOUS
    <2>1. CASE \/ \E w \in Webhooks : Receive(w) \/ HandlerStep(w)
               \/ BridgeRestart
      <3>1. TypeOK' /\ UNCHANGED <<topicVars, relayVars>>
        BY <2>1, BridgeStep
      <3>2. RelayInv'
        BY <3>1 DEF RelayInv, SettledUpTo, Settled, topicVars, relayVars,
                    handVars, offsetVars, outcomeVars
      <3> QED
        BY <3>1, <3>2
    <2>2. CASE \/ \E x \in Alerts : Deliver(x) \/ DeliverAnswerLost(x) \/ Expire(x)
               \/ Truncate
      BY <2>2, TopicStep
    <2>3. CASE RelayStep \/ CommitLands \/ Rejoin \/ RelayRestart
      BY <2>3, RelayStepInv
    <2>4. CASE UNCHANGED vars
      BY <2>4 DEF vars, TypeOK, RelayInv, SettledUpTo, Settled, bridgeVars,
                  topicVars, relayVars, handVars, offsetVars, outcomeVars
    <2> QED
      BY <2>1, <2>2, <2>3, <2>4 DEF Next
  <1> QED
    BY <1>1, <1>2, PTL DEF Spec

\* Every variable has its type, for any webhooks, payloads and numbers of
\* attempts (the type invariant of route A).
THEOREM RouteTypeCorrect == Spec => []TypeOK
  BY RelayInvariant, PTL

\* The relay never commits past a message nobody looked at: what a restart
\* skips was posted, dropped, failed in its handler, or is gone from the topic
\* (kafka_relay/service.py 107-132, kafka.py 149-167).
THEOREM NeverCommitsAhead == Spec => []CommittedIsSettled
  <1>1. RelayInv => CommittedIsSettled
    BY DEF RelayInv, SettledUpTo, CommittedIsSettled
  <1> QED
    BY <1>1, RelayInvariant, PTL

-------------------------------------------------------------------------------
(* The bridge: what it answered 202 for, it produced.                       *)

\* Known(x): the producer was handed x.  While no produce of its payload has
\* failed, a handler has produced what it went through, and goes on to flush
\* only after the last alert.
Known(x) == x \in buffer \cup gone \cup {log[o] : o \in DOMAIN log}

BridgeInv ==
    \A w \in Webhooks :
        /\ wpc[w] = "accepted" => ~hadError[w]
        /\ wpc[w] \in {"flush", "accepted"} => wpos[w] = Size[w]
        /\ wpc[w] \in {"publish", "flush", "accepted"} /\ ~hadError[w]
              => \A i \in 1 .. wpos[w] : Known(<<w, i>>)

\* What the producer was handed stays so.
LEMMA KnownStays ==
    ASSUME TypeOK, [Next]_vars, NEW x, Known(x)
    PROVE  Known(x)'
  <1>1. CASE UNCHANGED <<buffer, gone, log>>
    BY <1>1 DEF Known
  <1>2. CASE UNCHANGED log /\ buffer \cup gone \subseteq buffer' \cup gone'
    BY <1>2 DEF Known
  <1>3. CASE \E y \in Alerts : /\ log' = Append(log, y) /\ UNCHANGED gone
                              /\ buffer \subseteq buffer' \cup {y}
    <2>1. PICK y \in Alerts : /\ log' = Append(log, y) /\ UNCHANGED gone
                              /\ buffer \subseteq buffer' \cup {y}
      BY <1>3
    <2>2. log \in Seq(Alerts)
      BY DEF TypeOK
    <2>3. /\ \A o \in DOMAIN log : o \in DOMAIN log' /\ log'[o] = log[o]
          /\ Len(log) + 1 \in DOMAIN log' /\ log'[Len(log) + 1] = y
      BY <2>1, <2>2
    <2> QED
      BY <2>1, <2>3 DEF Known
  <1>4. ASSUME NEW w \in Webhooks, Receive(w) \/ HandlerStep(w)
        PROVE  UNCHANGED log /\ buffer \cup gone \subseteq buffer' \cup gone'
    BY <1>4 DEF Receive, HandlerStep, Publish, PublishRaises, Answer, FlushRaises,
                NextAlert, topicVars
  <1>5. ASSUME BridgeRestart
        PROVE  UNCHANGED log /\ buffer \cup gone \subseteq buffer' \cup gone'
    BY <1>5 DEF BridgeRestart, topicVars
  <1>6. ASSUME NEW y \in Alerts, Deliver(y) \/ DeliverAnswerLost(y)
        PROVE  /\ log' = Append(log, y) /\ UNCHANGED gone
               /\ buffer \subseteq buffer' \cup {y}
    BY <1>6 DEF Deliver, DeliverAnswerLost
  <1>7. ASSUME NEW y \in Alerts, Expire(y)
        PROVE  UNCHANGED log /\ buffer \cup gone \subseteq buffer' \cup gone'
    BY <1>7 DEF Expire, topicVars
  <1>8. ASSUME Truncate \/ RelayStep \/ CommitLands \/ Rejoin \/ RelayRestart
        PROVE  UNCHANGED <<buffer, gone, log>>
    BY <1>8 DEF Truncate, RelayStep, Poll, PostAccepted, PostFails, PostRaises,
                Commit, CommitRaises, CommitLands, Rejoin, RelayRestart, topicVars
  <1>9. UNCHANGED vars => UNCHANGED <<buffer, gone, log>>
    BY DEF vars, topicVars
  <1> QED
    BY <1>1, <1>2, <1>3, <1>4, <1>5, <1>6, <1>7, <1>8, <1>9 DEF Next

LEMMA BridgeInvStep ==
    ASSUME TypeOK, BridgeInv, [Next]_vars
    PROVE  BridgeInv'
  <1> USE DEF BridgeInv
  <1>1. \A x : Known(x) => Known(x)'
    BY KnownStays
  <1>2. CASE UNCHANGED bridgeVars
    BY <1>1, <1>2 DEF bridgeVars
  <1>3. ASSUME NEW w \in Webhooks, NEW v \in Webhooks, v # w,
               wpc'[v] = wpc[v], wpos'[v] = wpos[v], hadError'[v] = hadError[v]
        PROVE  /\ wpc'[v] = "accepted" => ~hadError'[v]
               /\ wpc'[v] \in {"flush", "accepted"} => wpos'[v] = Size[v]
               /\ wpc'[v] \in {"publish", "flush", "accepted"} /\ ~hadError'[v]
                     => \A i \in 1 .. wpos'[v] : Known(<<v, i>>)'
    BY <1>1, <1>3
  <1>4. ASSUME NEW w \in Webhooks, Receive(w)
        PROVE  BridgeInv'
    BY <1>1, <1>4 DEF Receive, TypeOK
  <1>5. ASSUME NEW w \in Webhooks, Publish(w) \/ PublishRaises(w)
        PROVE  BridgeInv'
    <2>1. /\ wpc[w] = "publish" /\ Size[w] \in Nat
          /\ wpos[w] \in Nat /\ wpos[w] < Size[w]
          /\ \A v \in Webhooks : wpos[v] \in Nat
      BY <1>5, RouteAssumption DEF Publish, PublishRaises, TypeOK
    <2>2. \A v \in Webhooks :
             v # w => /\ wpc'[v] = wpc[v] /\ wpos'[v] = wpos[v]
                      /\ hadError'[v] = hadError[v]
      BY <1>5 DEF Publish, PublishRaises, NextAlert, TypeOK
    <2>3. /\ wpos'[w] = wpos[w] + 1
          /\ wpc'[w] = IF wpos[w] + 1 < Size[w] THEN "publish" ELSE "flush"
      BY <1>5 DEF Publish, PublishRaises, NextAlert, TypeOK
    <2>4. PICK n \in Nat : n = wpos[w] + 1
      BY <2>1
    <2>5. hadError'[w] = TRUE \/ (hadError' = hadError /\ Known(<<w, n>>)')
      <3>1. CASE Publish(w)
        BY <2>4, <3>1 DEF Publish, Known
      <3>2. CASE PublishRaises(w)
        BY <3>2 DEF PublishRaises, TypeOK
      <3> QED
        BY <1>5, <3>1, <3>2
    <2>6. hadError'[w] \/ \A i \in 1 .. wpos'[w] : Known(<<w, i>>)'
      <3>1. ASSUME hadError' = hadError, Known(<<w, n>>)', ~hadError'[w]
            PROVE  \A i \in 1 .. wpos'[w] : Known(<<w, i>>)'
        <4>1. \A i \in 1 .. wpos[w] : Known(<<w, i>>)'
          BY <1>1, <2>1, <3>1
        <4> QED
          BY <2>1, <2>3, <2>4, <3>1, <4>1
      <3> QED
        BY <2>5, <3>1
    <2>7. wpc'[w] # "accepted" /\ (wpc'[w] = "flush" => wpos'[w] = Size[w])
      BY <2>1, <2>3
    <2> QED
      BY <1>3, <2>2, <2>6, <2>7
  <1>6. ASSUME NEW w \in Webhooks, Answer(w) \/ FlushRaises(w)
        PROVE  BridgeInv'
    BY <1>1, <1>6 DEF Answer, FlushRaises, TypeOK
  <1>7. ASSUME BridgeRestart
        PROVE  BridgeInv'
    BY <1>1, <1>7 DEF BridgeRestart, Handling, TypeOK
  <1>8. ASSUME NEW x \in Alerts, Deliver(x) \/ DeliverAnswerLost(x) \/ Expire(x)
        PROVE  UNCHANGED bridgeVars
    BY <1>8 DEF Deliver, DeliverAnswerLost, Expire
  <1>9. ASSUME Truncate \/ RelayStep \/ CommitLands \/ Rejoin \/ RelayRestart
        PROVE  UNCHANGED bridgeVars
    BY <1>9 DEF Truncate, RelayStep, Poll, PostAccepted, PostFails, PostRaises,
                Commit, CommitRaises, CommitLands, Rejoin, RelayRestart
  <1> QED
    BY <1>2, <1>4, <1>5, <1>6, <1>7, <1>8, <1>9 DEF Next, HandlerStep, vars

\* Whatever the bridge answered 202 for was handed to the producer, alert by
\* alert (alerts_bridge/service.py 60-80).
THEOREM AcceptedWasProduced == Spec => []AcceptedIsProduced
  <1>1. Init => BridgeInv
    BY DEF Init, BridgeInv
  <1>2. TypeOK /\ BridgeInv /\ [Next]_vars => BridgeInv'
    BY BridgeInvStep
  <1>3. TypeOK /\ BridgeInv => AcceptedIsProduced
    <2> SUFFICES ASSUME TypeOK, BridgeInv, NEW w \in Webhooks, wpc[w] = "accepted",
                        NEW x \in AlertsOf(w)
                 PROVE  Known(x)
      BY DEF AcceptedIsProduced, Known
    <2>1. PICK i \in 1 .. Size[w] : x = <<w, i>>
      BY DEF AlertsOf
    <2>2. wpos[w] = Size[w] /\ \A j \in 1 .. wpos[w] : Known(<<w, j>>)
      BY DEF BridgeInv
    <2> QED
      BY <2>1, <2>2
  <1> QED
    BY <1>1, <1>2, <1>3, RouteTypeCorrect, PTL DEF Spec
===============================================================================
