---------------------------- MODULE FaultsProofs -----------------------------
(***************************************************************************)
(* Proofs about what fails: the hooks that are retried, and the three      *)
(* places where faults are injected, the fraud pipeline, the cloud's       *)
(* Lambdas and the cluster. Each part has an inductive invariant of its    *)
(* own, with one lemma for every action, and its theorems follow at the    *)
(* end of the part.                                                        *)
(***************************************************************************)
EXTENDS Intake, FraudPipeline, ChaosFaults, EstateDrills, FiniteSums

-------------------------------------------------------------------------------
(***************************************************************************)
(* Intake: the answers and the alerts. DoneSoFar says what the present try *)
(* of a hook has done at each of its steps.                                *)
(***************************************************************************)

\* The steps of a hook, the answers, and a hook's record.
HookSteps == {"new", "wire", "find", "bump", "put", "send", "answer", "accepted", "refused", "failed",
              "unknown", "unsent"}
AnswersGiven == {0, 202, 400, 401, 422, 500}
Request == [pc : HookSteps, tries : 0 .. MaxTries, answer : AnswersGiven, todo : SUBSET Nat,
            saw : SUBSET Conds]
Doings == SUBSET (Conds \X Effects)

\* The types.
IntakeTypes ==
    /\ req \in [Hooks -> Request]
    /\ did \in [Hooks -> Doings]
    /\ \A o \in open : o.cond \in Conds
    /\ indexed \subseteq open

\* The conditions of the alerts at positions P; those something was done for, and
\* what of it was stored and not sent.
CondsAt(h, P) == {h.alerts[i].cond : i \in P}
CondsOf(D) == {d[1] : d \in D}
StoredOnly(D) == {d \in D : d[2] = "stored"}

\* An answer a is true of a try that did D.
AnswerFits(h, a, D) ==
    /\ a = 202 => CondsOf(D) = Firing(h) /\ StoredOnly(D) = {}
    /\ a \in {400, 401, 422} => D = {}
    /\ a = 500 => CondsOf(D) \subseteq Firing(h) /\ \A d, e \in StoredOnly(D) : d = e

\* What a try of h has done, where it is.  Between put and send the next alert is
\* stored and nothing else is unsent; at the other steps nothing is.
Fits(h, r, D) ==
    /\ r.pc \in {"wire", "refused"} => D = {}
    /\ r.pc = "refused" => r.answer \notin {202, 500}
    /\ r.pc \in {"find", "bump", "put", "send"} => r.todo \subseteq FiringOf(h.alerts)
    /\ r.pc \in {"bump", "put", "send"} => r.todo # {}
    /\ r.pc \in {"find", "bump", "put"} =>
          /\ CondsOf(D) = CondsAt(h, FiringOf(h.alerts) \ r.todo)
          /\ StoredOnly(D) = {}
    /\ r.pc = "send" =>
          /\ CondsOf(D) = CondsAt(h, FiringOf(h.alerts) \ (r.todo \ {NextOf(r.todo)}))
          /\ StoredOnly(D) = {<<h.alerts[NextOf(r.todo)].cond, "stored">>}
    /\ r.pc = "answer" => r.answer # 0
    /\ r.pc \in {"answer", "accepted", "failed"} => AnswerFits(h, r.answer, D)

\* The inductive invariant of the answers.
AnswersInv == IntakeTypes /\ \A h \in Hooks : Fits(h, req[h], did[h])

\* A stored alert has the fingerprint of every firing alert of its condition.
OpenIsOfItsCondition ==
    \A o \in open : \A h \in Hooks : \A i \in FiringOf(h.alerts) :
        h.alerts[i].cond = o.cond => CanonicalOf(h)[i].fingerprint = o.fingerprint

-------------------------------------------------------------------------------
(* Lemmas.                                                                  *)

\* What is firing, told by position and by condition.
LEMMA FiringIsConds ==
    ASSUME NEW h \in Hooks
    PROVE  /\ Firing(h) = CondsAt(h, FiringOf(h.alerts))
           /\ Firing(h) \subseteq Conds
           /\ FiringOf(h.alerts) \subseteq Nat
           /\ \A i \in FiringOf(h.alerts) : h.alerts[i].cond \in Conds
  <1>1. Firing(h) = CondsAt(h, FiringOf(h.alerts))
    BY DEF Firing, CondsAt, FiringOf, Elements
  <1>2. \A i \in DOMAIN h.alerts : h.alerts[i].cond \in Conds
    BY DEF Conds, Elements
  <1> QED BY <1>1, <1>2, HooksAreLists DEF CondsAt, FiringOf

\* What the adapters make of an alert: its condition is kept.
LEMMA CanonicalFacts ==
    ASSUME NEW h \in Hooks
    PROVE  /\ DOMAIN CanonicalOf(h) = FiringOf(h.alerts)
           /\ \A i \in FiringOf(h.alerts) : CanonicalOf(h)[i].cond = h.alerts[i].cond
  <1>1. SourceOf(h) \in {"bankops", "cloudwatch", "azure-monitor", "alertmanager"}
    BY DEF SourceOf
  <1>2. \A e, r : Adapted(SourceOf(h), r, e).cond = e.cond
    BY <1>1 DEF Adapted, FromAlertmanager, FromAzureMonitor, FromCloudWatch, FromBankops, Canonical
  <1> QED BY <1>2 DEF CanonicalOf, AlertsFor

\* Two alerts of one condition have one fingerprint, whichever routes they take.
LEMMA SameFingerprint ==
    ASSUME NEW g \in Hooks, NEW h \in Hooks,
           NEW i \in FiringOf(g.alerts), NEW j \in FiringOf(h.alerts),
           g.alerts[i].cond = h.alerts[j].cond
    PROVE  CanonicalOf(g)[i].fingerprint = CanonicalOf(h)[j].fingerprint
  <1> DEFINE e == g.alerts[i]
             f == h.alerts[j]
             source == SourceOf(g)
  <1>1. /\ source = SourceOf(h) /\ e.tag = f.tag /\ e.resource = f.resource /\ e.name = f.name
        /\ Told(e.labels) = Told(f.labels)
    BY ConditionsAreTold DEF Elements, FiringOf
  <1>2. source \in {"bankops", "cloudwatch", "azure-monitor", "alertmanager"}
    BY DEF SourceOf
  <1>3. /\ CanonicalOf(g)[i] = Adapted(source, ReceiverOf(g), e)
        /\ CanonicalOf(h)[j] = Adapted(source, ReceiverOf(h), f)
    BY <1>1 DEF CanonicalOf, AlertsFor
  <1> HIDE DEF e, f, source
  <1> DEFINE Route(r) == IF r = "route-a-kafka" THEN "A" ELSE "B"
             Labelled(x, v) == x.labels \cup {<<"service", x.tag>>, <<"route", v>>}
  <1>4. ASSUME NEW x, NEW v
        PROVE  Told(Labelled(x, v)) = Told(x.labels) \cup {<<"service", x.tag>>}
    BY DEF Told, _EXCLUDED_FINGERPRINT_LABELS, HiddenLabels
  <1>5. ASSUME NEW x, NEW r
        PROVE  FromAlertmanager(r, x).fingerprint =
                  <<"alertmanager", FirstOf(x.tag, x.resource), x.name, Told(Labelled(x, Route(r)))>>
    BY DEF FromAlertmanager, Canonical, Fingerprint
  <1> HIDE DEF Route, Labelled
  <1>6. CASE source = "alertmanager"
    <2>1. /\ CanonicalOf(g)[i] = FromAlertmanager(ReceiverOf(g), e)
          /\ CanonicalOf(h)[j] = FromAlertmanager(ReceiverOf(h), f)
      BY <1>3, <1>6 DEF Adapted
    <2>2. Told(Labelled(e, Route(ReceiverOf(g)))) = Told(e.labels) \cup {<<"service", e.tag>>}
      BY <1>4
    <2>3. Told(Labelled(f, Route(ReceiverOf(h)))) = Told(f.labels) \cup {<<"service", f.tag>>}
      BY <1>4
    <2>4. CanonicalOf(g)[i].fingerprint =
             <<"alertmanager", FirstOf(e.tag, e.resource), e.name, Told(e.labels) \cup {<<"service", e.tag>>}>>
      BY <1>5, <2>1, <2>2
    <2>5. CanonicalOf(h)[j].fingerprint =
             <<"alertmanager", FirstOf(f.tag, f.resource), f.name, Told(f.labels) \cup {<<"service", f.tag>>}>>
      BY <1>5, <2>1, <2>3
    <2> QED BY <1>1, <2>4, <2>5
  <1>7. CASE source # "alertmanager"
    BY <1>1, <1>2, <1>3, <1>7 DEF Adapted, FromAzureMonitor, FromCloudWatch, FromBankops, Canonical, Fingerprint
  <1> QED BY <1>6, <1>7

\* The alert that is processed next is one of those to process.
LEMMA NextIsToDo ==
    ASSUME NEW todo \in SUBSET Nat, todo # {}
    PROVE  NextOf(todo) \in todo
  BY LeastElement DEF NextOf

\* Hook h moves to r and has done D, the others have done what they had done.
LEMMA HookMoves ==
    ASSUME AnswersInv, NEW h \in Hooks, NEW r \in Request, NEW D \in Doings,
           req' = [req EXCEPT ![h] = r], did' = [did EXCEPT ![h] = D],
           \A o \in open' : o.cond \in Conds, indexed' \subseteq open',
           Fits(h, r, D)
    PROVE  AnswersInv'
  <1>1. /\ req' \in [Hooks -> Request] /\ req'[h] = r
        /\ \A g \in Hooks : g # h => req'[g] = req[g]
    BY DEF AnswersInv, IntakeTypes
  <1>2. /\ did' \in [Hooks -> Doings] /\ did'[h] = D
        /\ \A g \in Hooks : g # h => did'[g] = did[g]
    BY DEF AnswersInv, IntakeTypes
  <1>3. ASSUME NEW g \in Hooks PROVE Fits(g, req'[g], did'[g])
    BY <1>1, <1>2 DEF AnswersInv
  <1> QED BY <1>1, <1>2, <1>3 DEF AnswersInv, IntakeTypes

\* Hook h moves to r and does nothing.
LEMMA RequestKeeps ==
    ASSUME AnswersInv, NEW h \in Hooks, NEW r \in Request, req' = [req EXCEPT ![h] = r],
           UNCHANGED <<open, indexed, did>>, Fits(h, r, did[h])
    PROVE  AnswersInv'
  <1>1. did[h] \in Doings /\ did' = [did EXCEPT ![h] = did[h]] BY DEF AnswersInv, IntakeTypes
  <1>2. (\A o \in open' : o.cond \in Conds) /\ indexed' \subseteq open' BY DEF AnswersInv, IntakeTypes
  <1> QED BY <1>1, <1>2, HookMoves

\* The hook that moves.
LEMMA AHookIs ==
    ASSUME AnswersInv, NEW h \in Hooks
    PROVE  /\ req \in [Hooks -> Request] /\ req[h] \in Request /\ did[h] \in Doings
           /\ Fits(h, req[h], did[h])
  BY DEF AnswersInv, IntakeTypes

\* Nothing done has no conditions, and nothing that is not sent.
LEMMA NothingDone == CondsOf({}) = {} /\ StoredOnly({}) = {} /\ {} \in Doings
  BY DEF CondsOf, StoredOnly, Doings

\* The next alert is a firing one, and its condition that of the canonical one.
LEMMA NextAlertIs ==
    ASSUME AnswersInv, NEW h \in Hooks, req[h].pc \in {"find", "bump", "put", "send"}, req[h].todo # {}
    PROVE  /\ NextOf(req[h].todo) \in req[h].todo
           /\ NextOf(req[h].todo) \in FiringOf(h.alerts)
           /\ NextAlert(h).cond = h.alerts[NextOf(req[h].todo)].cond
           /\ NextAlert(h).cond \in Conds
  <1>1. req[h].todo \in SUBSET Nat /\ req[h].todo \subseteq FiringOf(h.alerts)
    BY AHookIs DEF Fits, Request
  <1>2. NextOf(req[h].todo) \in req[h].todo BY <1>1, NextIsToDo
  <1> QED BY <1>1, <1>2, CanonicalFacts, FiringIsConds DEF NextAlert

\* The next try begins with nothing done.
LEMMA SendsKeeps ==
    ASSUME AnswersInv, NEW h \in Hooks, NEW pc \in {"wire", "refused"}, Sends(h, pc)
    PROVE  AnswersInv'
  <1> DEFINE n == req[h].tries + 1
             new == [req[h] EXCEPT !.tries = n, !.pc = pc, !.answer = 0]
  <1>1. req \in [Hooks -> Request] /\ req[h] \in Request BY AHookIs
  <1>2. /\ req' = [req EXCEPT ![h] = new] /\ did' = [did EXCEPT ![h] = {}]
        /\ UNCHANGED <<open, indexed>>
    BY <1>1 DEF Sends
  <1>3. n \in 0 .. MaxTries
    BY <1>1, IntakeBounds DEF Sends, Request
  <1> HIDE DEF n
  <1>4. pc \in HookSteps /\ 0 \in AnswersGiven BY DEF HookSteps, AnswersGiven
  <1>5. new \in Request BY <1>1, <1>3, <1>4 DEF Request
  <1>6. new.pc = pc /\ new.answer = 0 BY <1>1 DEF Request
  <1> HIDE DEF new
  <1>7. Fits(h, new, {}) BY <1>6 DEF Fits
  <1>8. (\A o \in open' : o.cond \in Conds) /\ indexed' \subseteq open'
    BY <1>2 DEF AnswersInv, IntakeTypes
  <1> QED BY <1>2, <1>5, <1>7, <1>8, NothingDone, HookMoves

\* Before the first alert is processed nothing is done, whatever the answer.
LEMMA HandleHttpKeeps ==
    ASSUME AnswersInv, NEW h \in Hooks, NEW age \in Ages, HandleHttp(h, age)
    PROVE  AnswersInv'
  <1> DEFINE a == Answers(h, age)
             pc == IF a = 0 THEN "find" ELSE "answer"
             todo == IF a = 0 THEN DOMAIN CanonicalOf(h) ELSE {}
             new == [req[h] EXCEPT !.answer = a, !.pc = pc, !.todo = todo]
  <1>1. req \in [Hooks -> Request] /\ req[h] \in Request /\ Fits(h, req[h], did[h])
    BY AHookIs
  <1>2. /\ req[h].pc = "wire" /\ UNCHANGED <<open, indexed, did>>
        /\ req' = [req EXCEPT ![h].answer = a, ![h].pc = pc, ![h].todo = todo]
    BY DEF HandleHttp, HookAt
  <1>3. did[h] = {} BY <1>1, <1>2 DEF Fits
  <1>4. DOMAIN CanonicalOf(h) = FiringOf(h.alerts) /\ FiringOf(h.alerts) \in SUBSET Nat
    BY CanonicalFacts, FiringIsConds
  <1>5. a \in {0, 400, 401, 422} BY DEF Answers
  <1>6. (pc = "find" /\ todo = FiringOf(h.alerts)) \/ (pc = "answer" /\ a \in {400, 401, 422})
    BY <1>4, <1>5
  <1>7. pc \in HookSteps /\ todo \in SUBSET Nat /\ a \in AnswersGiven
    BY <1>4, <1>5 DEF HookSteps, AnswersGiven
  <1> HIDE DEF a, pc, todo
  <1>8. req' = [req EXCEPT ![h] = new] BY <1>1, <1>2
  <1>9. new \in Request BY <1>1, <1>7 DEF Request
  <1>10. new.pc = pc /\ new.answer = a /\ new.todo = todo BY <1>1 DEF Request
  <1> HIDE DEF new
  <1>11. CondsAt(h, FiringOf(h.alerts) \ FiringOf(h.alerts)) = {} BY DEF CondsAt
  <1>12. Fits(h, new, did[h])
    <2>1. CASE pc = "find" /\ todo = FiringOf(h.alerts)
      BY <1>3, <1>10, <1>11, <2>1, NothingDone DEF Fits
    <2>2. CASE pc = "answer" /\ a \in {400, 401, 422}
      BY <1>3, <1>10, <2>2 DEF Fits, AnswerFits
    <2> QED BY <1>6, <2>1, <2>2
  <1> QED BY <1>2, <1>8, <1>9, <1>12, RequestKeeps

\* The SNS route refuses nothing before it processes.
LEMMA HandleSnsKeeps ==
    ASSUME AnswersInv, NEW h \in Hooks, HandleSns(h)
    PROVE  AnswersInv'
  <1> DEFINE todo == DOMAIN CanonicalOf(h)
             new == [req[h] EXCEPT !.pc = "find", !.todo = todo]
  <1>1. req \in [Hooks -> Request] /\ req[h] \in Request /\ Fits(h, req[h], did[h])
    BY AHookIs
  <1>2. /\ req[h].pc = "wire" /\ UNCHANGED <<open, indexed, did>>
        /\ req' = [req EXCEPT ![h].pc = "find", ![h].todo = todo]
    BY DEF HandleSns, HookAt
  <1>3. did[h] = {} BY <1>1, <1>2 DEF Fits
  <1>4. todo = FiringOf(h.alerts) /\ todo \in SUBSET Nat /\ "find" \in HookSteps
    BY CanonicalFacts, FiringIsConds DEF HookSteps
  <1> HIDE DEF todo
  <1>5. req' = [req EXCEPT ![h] = new] BY <1>1, <1>2
  <1>6. new \in Request BY <1>1, <1>4 DEF Request
  <1>7. new.pc = "find" /\ new.todo = todo BY <1>1 DEF Request
  <1> HIDE DEF new
  <1>8. CondsAt(h, FiringOf(h.alerts) \ todo) = {} BY <1>4 DEF CondsAt
  <1>9. Fits(h, new, did[h]) BY <1>3, <1>4, <1>7, <1>8, NothingDone DEF Fits
  <1> QED BY <1>2, <1>5, <1>6, <1>9, RequestKeeps

\* find_open does nothing yet.
LEMMA FindOpenKeeps ==
    ASSUME AnswersInv, NEW h \in Hooks, FindOpen(h)
    PROVE  AnswersInv'
  <1> DEFINE saw == {o.cond : o \in indexed}
  <1>1. req \in [Hooks -> Request] /\ req[h] \in Request /\ Fits(h, req[h], did[h])
    BY AHookIs
  <1>2. PICK pc \in {"bump", "put"} : req' = [req EXCEPT ![h].pc = pc, ![h].saw = saw]
    BY DEF FindOpen
  <1>3. req[h].pc = "find" /\ req[h].todo # {} /\ UNCHANGED <<open, indexed, did>>
    BY DEF FindOpen, HookAt
  <1>4. saw \in SUBSET Conds BY DEF AnswersInv, IntakeTypes
  <1>5. pc \in HookSteps BY DEF HookSteps
  <1> HIDE DEF saw
  <1> DEFINE new == [req[h] EXCEPT !.pc = pc, !.saw = saw]
  <1>6. req' = [req EXCEPT ![h] = new] BY <1>1, <1>2
  <1>7. new \in Request BY <1>1, <1>4, <1>5 DEF Request
  <1>8. new.pc = pc /\ new.todo = req[h].todo BY <1>1 DEF Request
  <1> HIDE DEF new
  <1>9. Fits(h, new, did[h]) BY <1>1, <1>3, <1>8 DEF Fits
  <1> QED BY <1>3, <1>6, <1>7, <1>9, RequestKeeps

\* What an alert that is through leaves to process, and what it adds to the done.
LEMMA ThroughIs ==
    ASSUME AnswersInv, NEW h \in Hooks, req[h].pc \in {"bump", "send"}, Through(h),
           UNCHANGED <<open, indexed>>, NEW D \in Doings, did' = [did EXCEPT ![h] = D],
           StoredOnly(D) = {},
           CondsOf(D) = CondsAt(h, FiringOf(h.alerts) \ (req[h].todo \ {NextOf(req[h].todo)}))
    PROVE  AnswersInv'
  <1> DEFINE todo == req[h].todo \ {NextOf(req[h].todo)}
             none == {}
             new == [req[h] EXCEPT !.pc = "find", !.todo = todo, !.saw = none]
  <1>1. req \in [Hooks -> Request] /\ req[h] \in Request /\ Fits(h, req[h], did[h])
    BY AHookIs
  <1>2. req' = [req EXCEPT ![h] = new] BY <1>1 DEF Through
  <1>3. /\ todo \in SUBSET Nat /\ todo \subseteq FiringOf(h.alerts) /\ none \in SUBSET Conds
        /\ "find" \in HookSteps
    BY <1>1 DEF Fits, Request, HookSteps
  <1> HIDE DEF none
  <1>4. CondsOf(D) = CondsAt(h, FiringOf(h.alerts) \ todo) OBVIOUS
  <1> HIDE DEF todo
  <1>5. new \in Request BY <1>1, <1>3 DEF Request
  <1>6. new.pc = "find" /\ new.todo = todo BY <1>1 DEF Request
  <1> HIDE DEF new
  <1>7. Fits(h, new, D) BY <1>3, <1>4, <1>6 DEF Fits
  <1>8. (\A o \in open' : o.cond \in Conds) /\ indexed' \subseteq open'
    BY DEF AnswersInv, IntakeTypes
  <1> QED BY <1>2, <1>5, <1>7, <1>8, HookMoves

\* One more position is done, its condition is added.
LEMMA OneMoreDone ==
    ASSUME NEW h \in Hooks, NEW todo \in SUBSET FiringOf(h.alerts), NEW i \in todo
    PROVE  CondsAt(h, FiringOf(h.alerts) \ (todo \ {i}))
              = CondsAt(h, FiringOf(h.alerts) \ todo) \cup {h.alerts[i].cond}
  <1>1. FiringOf(h.alerts) \ (todo \ {i}) = (FiringOf(h.alerts) \ todo) \cup {i} OBVIOUS
  <1>2. CondsAt(h, (FiringOf(h.alerts) \ todo) \cup {i})
           = CondsAt(h, FiringOf(h.alerts) \ todo) \cup {h.alerts[i].cond}
    BY DEF CondsAt
  <1> QED BY <1>1, <1>2

\* One more thing is done, of condition c.
With(D, c, e) == D \cup {<<c, e>>}
LEMMA OneMoreDoing ==
    ASSUME NEW D \in Doings, NEW c \in Conds, NEW e \in Effects
    PROVE  /\ With(D, c, e) \in Doings
           /\ CondsOf(With(D, c, e)) = CondsOf(D) \cup {c}
           /\ e # "stored" => StoredOnly(With(D, c, e)) = StoredOnly(D)
           /\ e = "stored" => StoredOnly(With(D, c, e)) = StoredOnly(D) \cup {<<c, "stored">>}
  <1>1. With(D, c, e) \in Doings BY DEF With, Doings
  <1>2. CondsOf(With(D, c, e)) = CondsOf(D) \cup {c}
    <2>1. <<c, e>>[1] = c OBVIOUS
    <2> DEFINE x == <<c, e>>
    <2> HIDE DEF x
    <2>2. {d[1] : d \in D \cup {x}} = {d[1] : d \in D} \cup {x[1]} OBVIOUS
    <2> QED BY <2>1, <2>2 DEF CondsOf, With, x
  <1>3. e # "stored" => StoredOnly(With(D, c, e)) = StoredOnly(D)
    <2>1. <<c, e>>[2] = e OBVIOUS
    <2> DEFINE x == <<c, e>>
    <2> HIDE DEF x
    <2>2. x[2] # "stored" => {d \in D \cup {x} : d[2] = "stored"} = {d \in D : d[2] = "stored"} OBVIOUS
    <2> QED BY <2>1, <2>2 DEF StoredOnly, With, x
  <1>4. e = "stored" => StoredOnly(With(D, c, e)) = StoredOnly(D) \cup {<<c, "stored">>}
    <2>1. <<c, e>>[2] = e OBVIOUS
    <2> DEFINE x == <<c, e>>
    <2> HIDE DEF x
    <2>2. x[2] = "stored" => {d \in D \cup {x} : d[2] = "stored"} = {d \in D : d[2] = "stored"} \cup {x}
      OBVIOUS
    <2> QED BY <2>1, <2>2 DEF StoredOnly, With, x
  <1> QED BY <1>1, <1>2, <1>3, <1>4

\* A bump: the alert is through.
LEMMA BumpKeeps ==
    ASSUME AnswersInv, NEW h \in Hooks, Bump(h)
    PROVE  AnswersInv'
  <1> DEFINE next == NextOf(req[h].todo)
             c == NextAlert(h).cond
             D == With(did[h], c, "bumped")
  <1>1. req[h] \in Request /\ did[h] \in Doings /\ Fits(h, req[h], did[h]) BY AHookIs
  <1>2. /\ req[h].pc = "bump" /\ Through(h) /\ UNCHANGED <<open, indexed>>
        /\ did' = [did EXCEPT ![h] = D]
    BY DEF Bump, HookAt, With
  <1>3. /\ req[h].todo # {} /\ req[h].todo \subseteq FiringOf(h.alerts)
        /\ CondsOf(did[h]) = CondsAt(h, FiringOf(h.alerts) \ req[h].todo) /\ StoredOnly(did[h]) = {}
    BY <1>1, <1>2 DEF Fits
  <1>4. next \in req[h].todo /\ c = h.alerts[next].cond /\ c \in Conds
    BY <1>2, <1>3, NextAlertIs
  <1> HIDE DEF next, c
  <1>5. "bumped" \in Effects BY DEF Effects
  <1>6. /\ D \in Doings /\ CondsOf(D) = CondsOf(did[h]) \cup {c} /\ StoredOnly(D) = StoredOnly(did[h])
    BY <1>1, <1>4, <1>5, OneMoreDoing
  <1> HIDE DEF D
  <1>7. CondsOf(D) = CondsAt(h, FiringOf(h.alerts) \ (req[h].todo \ {next}))
    BY <1>3, <1>4, <1>6, OneMoreDone
  <1> QED BY <1>2, <1>3, <1>6, <1>7, ThroughIs DEF next

\* A put: the alert is stored and not yet sent.
LEMMA PutNewKeeps ==
    ASSUME AnswersInv, NEW h \in Hooks, PutNew(h)
    PROVE  AnswersInv'
  <1> DEFINE next == NextOf(req[h].todo)
             c == NextAlert(h).cond
             D == With(did[h], c, "stored")
             none == {}
             new == [req[h] EXCEPT !.pc = "send", !.saw = none]
  <1>1. req \in [Hooks -> Request] /\ req[h] \in Request /\ did[h] \in Doings /\ Fits(h, req[h], did[h])
    BY AHookIs
  <1>2. /\ req[h].pc = "put" /\ indexed' = indexed
        /\ did' = [did EXCEPT ![h] = D] /\ req' = [req EXCEPT ![h] = new]
    BY <1>1 DEF PutNew, HookAt, With
  <1>3. /\ req[h].todo # {} /\ req[h].todo \subseteq FiringOf(h.alerts)
        /\ CondsOf(did[h]) = CondsAt(h, FiringOf(h.alerts) \ req[h].todo) /\ StoredOnly(did[h]) = {}
    BY <1>1, <1>2 DEF Fits
  <1>4. next \in req[h].todo /\ c = h.alerts[next].cond /\ c \in Conds
    BY <1>2, <1>3, NextAlertIs
  <1>5. (\A o \in open' : o.cond \in Conds) /\ indexed' \subseteq open'
    <2>1. PICK o : o.cond = c /\ open' = open \cup {o} BY DEF PutNew
    <2> HIDE DEF c
    <2> QED BY <1>2, <1>4, <2>1 DEF AnswersInv, IntakeTypes
  <1> HIDE DEF next, c
  <1>6. "stored" \in Effects BY DEF Effects
  <1>7. /\ D \in Doings /\ CondsOf(D) = CondsOf(did[h]) \cup {c}
        /\ StoredOnly(D) = StoredOnly(did[h]) \cup {<<c, "stored">>}
    BY <1>1, <1>4, <1>6, OneMoreDoing
  <1> HIDE DEF D
  <1>8. CondsOf(D) = CondsAt(h, FiringOf(h.alerts) \ (req[h].todo \ {next}))
    <2>1. req[h].todo \in SUBSET FiringOf(h.alerts) BY <1>3
    <2>2. CondsAt(h, FiringOf(h.alerts) \ (req[h].todo \ {next}))
             = CondsAt(h, FiringOf(h.alerts) \ req[h].todo) \cup {h.alerts[next].cond}
      BY <1>4, <2>1, OneMoreDone
    <2> QED BY <1>3, <1>4, <1>7, <2>2
  <1>9. none \in SUBSET Conds /\ "send" \in HookSteps BY DEF HookSteps
  <1> HIDE DEF none
  <1>10. new \in Request BY <1>1, <1>9 DEF Request
  <1>11. new.pc = "send" /\ new.todo = req[h].todo BY <1>1 DEF Request
  <1> HIDE DEF new
  <1>12. StoredOnly(D) = {<<h.alerts[next].cond, "stored">>} BY <1>3, <1>4, <1>7
  <1>13. Fits(h, new, D) BY <1>3, <1>8, <1>11, <1>12 DEF Fits, next
  <1> QED BY <1>2, <1>5, <1>7, <1>10, <1>13, HookMoves

\* A send: the alert is stored and sent, and through.
LEMMA SendMessageKeeps ==
    ASSUME AnswersInv, NEW h \in Hooks, SendMessage(h)
    PROVE  AnswersInv'
  <1> DEFINE next == NextOf(req[h].todo)
             c == NextAlert(h).cond
             E == did[h] \ {<<c, "stored">>}
             D == With(E, c, "sent")
  <1>1. req[h] \in Request /\ did[h] \in Doings /\ Fits(h, req[h], did[h]) BY AHookIs
  <1>2. /\ req[h].pc = "send" /\ Through(h) /\ UNCHANGED <<open, indexed>>
        /\ did' = [did EXCEPT ![h] = D]
    BY DEF SendMessage, HookAt, With
  <1>3. /\ req[h].todo # {}
        /\ CondsOf(did[h]) = CondsAt(h, FiringOf(h.alerts) \ (req[h].todo \ {next}))
        /\ StoredOnly(did[h]) = {<<h.alerts[next].cond, "stored">>}
    BY <1>1, <1>2 DEF Fits
  <1>4. c = h.alerts[next].cond /\ c \in Conds
    BY <1>2, <1>3, NextAlertIs
  <1> HIDE DEF next, c
  <1>5. "sent" \in Effects BY DEF Effects
  <1>6. E \in Doings /\ StoredOnly(E) = {} BY <1>1, <1>3, <1>4 DEF Doings, StoredOnly
  <1>7. CondsOf(E) \cup {c} = CondsOf(did[h])
    <2>1. <<c, "stored">> \in did[h] BY <1>3, <1>4 DEF StoredOnly
    <2> QED BY <2>1 DEF CondsOf
  <1> HIDE DEF E
  <1>8. D \in Doings /\ CondsOf(D) = CondsOf(E) \cup {c} /\ StoredOnly(D) = StoredOnly(E)
    BY <1>4, <1>5, <1>6, OneMoreDoing
  <1> HIDE DEF D
  <1> QED BY <1>2, <1>3, <1>6, <1>7, <1>8, ThroughIs DEF next

\* Nothing is left to process: the answer is 202.
LEMMA ProcessedKeeps ==
    ASSUME AnswersInv, NEW h \in Hooks, Processed(h)
    PROVE  AnswersInv'
  <1> DEFINE new == [req[h] EXCEPT !.pc = "answer", !.answer = 202]
  <1>1. req \in [Hooks -> Request] /\ req[h] \in Request /\ Fits(h, req[h], did[h])
    BY AHookIs
  <1>2. /\ req[h].pc = "find" /\ req[h].todo = {} /\ UNCHANGED <<open, indexed, did>>
        /\ req' = [req EXCEPT ![h] = new]
    BY <1>1 DEF Processed, HookAt
  <1>3. CondsOf(did[h]) = Firing(h) /\ StoredOnly(did[h]) = {}
    <2>1. CondsOf(did[h]) = CondsAt(h, FiringOf(h.alerts) \ {}) /\ StoredOnly(did[h]) = {}
      BY <1>1, <1>2 DEF Fits
    <2> QED BY <2>1, FiringIsConds
  <1>4. "answer" \in HookSteps /\ 202 \in AnswersGiven BY DEF HookSteps, AnswersGiven
  <1>5. new \in Request BY <1>1, <1>4 DEF Request
  <1>6. new.pc = "answer" /\ new.answer = 202 BY <1>1 DEF Request
  <1> HIDE DEF new
  <1>7. Fits(h, new, did[h]) BY <1>3, <1>6 DEF Fits, AnswerFits
  <1> QED BY <1>2, <1>5, <1>7, RequestKeeps

\* A try that fails, wherever: what it did is of its firing alerts, and at most the
\* alert that it was about to send is not sent.
LEMMA RaisesKeeps ==
    ASSUME AnswersInv, NEW h \in Hooks, Raises(h)
    PROVE  AnswersInv'
  <1> DEFINE none == {}
             new == [req[h] EXCEPT !.pc = "answer", !.answer = 500, !.todo = none, !.saw = none]
  <1>1. req \in [Hooks -> Request] /\ req[h] \in Request /\ Fits(h, req[h], did[h])
    BY AHookIs
  <1>2. req[h].pc \in {"wire", "find", "bump", "put", "send"} /\ UNCHANGED <<open, indexed, did>>
    BY DEF Raises
  <1>3. req' = [req EXCEPT ![h] = new] BY DEF Raises
  <1>4. AnswerFits(h, 500, did[h])
    <2>1. CASE req[h].pc = "wire"
      <3>1. did[h] = {} BY <1>1, <2>1 DEF Fits
      <3> QED BY <3>1, NothingDone DEF AnswerFits
    <2>2. ASSUME req[h].pc \in {"find", "bump", "put"} PROVE AnswerFits(h, 500, did[h])
      <3>1. CondsOf(did[h]) = CondsAt(h, FiringOf(h.alerts) \ req[h].todo) /\ StoredOnly(did[h]) = {}
        BY <1>1, <2>2 DEF Fits
      <3> QED BY <3>1, FiringIsConds DEF AnswerFits, CondsAt
    <2>3. CASE req[h].pc = "send"
      <3>1. /\ CondsOf(did[h]) = CondsAt(h, FiringOf(h.alerts) \ (req[h].todo \ {NextOf(req[h].todo)}))
            /\ \A d, e \in StoredOnly(did[h]) : d = e
        BY <1>1, <2>3 DEF Fits
      <3> QED BY <3>1, FiringIsConds DEF AnswerFits, CondsAt
    <2> QED BY <1>2, <2>1, <2>2, <2>3
  <1>5. /\ none \in SUBSET Nat /\ none \in SUBSET Conds
        /\ "answer" \in HookSteps /\ 500 \in AnswersGiven
    BY DEF HookSteps, AnswersGiven
  <1> HIDE DEF none
  <1>6. new \in Request
    <2> DEFINE half == [req[h] EXCEPT !.pc = "answer", !.answer = 500]
    <2>1. half \in Request BY <1>1, <1>5 DEF Request
    <2>2. new = [half EXCEPT !.todo = none, !.saw = none] BY <1>1 DEF Request
    <2> HIDE DEF half, new
    <2> QED BY <1>5, <2>1, <2>2 DEF Request
  <1>7. new.pc = "answer" /\ new.answer = 500 BY <1>1 DEF Request
  <1> HIDE DEF new
  <1>8. Fits(h, new, did[h]) BY <1>4, <1>7 DEF Fits
  <1> QED BY <1>2, <1>3, <1>6, <1>8, RequestKeeps

\* The answer is true of the try, whatever its sender makes of it.
LEMMA AnsweredKeeps ==
    ASSUME AnswersInv, NEW h \in Hooks, Answered(h)
    PROVE  AnswersInv'
  <1>1. req \in [Hooks -> Request] /\ req[h] \in Request /\ Fits(h, req[h], did[h])
    BY AHookIs
  <1>2. req[h].pc = "answer" /\ UNCHANGED <<open, indexed, did>> BY DEF Answered, HookAt
  <1>3. req[h].answer \in {202, 400, 401, 422, 500} /\ AnswerFits(h, req[h].answer, did[h])
    BY <1>1, <1>2 DEF Fits, Request, AnswersGiven
  <1>4. PICK pc \in {"new", "accepted", "failed", "refused"} :
             /\ req' = [req EXCEPT ![h].pc = pc]
             /\ pc = "refused" => req[h].answer \notin {202, 500}
    <2>1. CASE Repeats(h) BY <2>1 DEF Answered
    <2>2. CASE ~Repeats(h) /\ req[h].answer = 202 BY <2>2 DEF Answered
    <2>3. CASE ~Repeats(h) /\ req[h].answer = 500 BY <2>3 DEF Answered
    <2>4. CASE ~Repeats(h) /\ req[h].answer \notin {202, 500} BY <2>4 DEF Answered
    <2> QED BY <2>1, <2>2, <2>3, <2>4
  <1>5. pc \in HookSteps BY DEF HookSteps
  <1> DEFINE new == [req[h] EXCEPT !.pc = pc]
  <1>6. req' = [req EXCEPT ![h] = new] BY <1>1, <1>4
  <1>7. new \in Request BY <1>1, <1>5 DEF Request
  <1>8. new.pc = pc /\ new.answer = req[h].answer BY <1>1 DEF Request
  <1> HIDE DEF new
  <1>9. Fits(h, new, did[h]) BY <1>3, <1>4, <1>8 DEF Fits, AnswerFits
  <1> QED BY <1>2, <1>6, <1>7, <1>9, RequestKeeps

\* A lost answer leaves what was done.
LEMMA AnswerLostKeeps ==
    ASSUME AnswersInv, NEW h \in Hooks, AnswerLost(h)
    PROVE  AnswersInv'
  <1>1. req \in [Hooks -> Request] /\ req[h] \in Request BY AHookIs
  <1>2. PICK pc \in {"new", "unknown"} : req' = [req EXCEPT ![h].pc = pc]
    BY DEF AnswerLost
  <1> DEFINE new == [req[h] EXCEPT !.pc = pc]
  <1>3. pc \in HookSteps BY DEF HookSteps
  <1>4. new \in Request BY <1>1, <1>3 DEF Request
  <1>5. new.pc = pc BY <1>1 DEF Request
  <1>6. req' = [req EXCEPT ![h] = new] BY <1>1, <1>2
  <1> HIDE DEF new
  <1>7. Fits(h, new, did[h]) BY <1>5 DEF Fits
  <1> QED BY <1>4, <1>6, <1>7, RequestKeeps DEF AnswerLost

\* The index and the window leave the hooks alone.
LEMMA ClockKeeps ==
    ASSUME AnswersInv, NEW o \in open, IndexShows(o) \/ WindowPasses(o)
    PROVE  AnswersInv'
  <1>1. UNCHANGED <<req, did>> /\ open' \subseteq open /\ indexed' \subseteq open'
    BY DEF IndexShows, WindowPasses, AnswersInv, IntakeTypes
  <1>2. IntakeTypes' BY <1>1 DEF AnswersInv, IntakeTypes
  <1>3. \A h \in Hooks : Fits(h, req'[h], did'[h]) BY <1>1 DEF AnswersInv
  <1> QED BY <1>2, <1>3 DEF AnswersInv

-------------------------------------------------------------------------------
(* The theorems.                                                            *)

\* The invariant holds in the initial states.
LEMMA AnswersInvInit == IntakeInit => AnswersInv
  <1> SUFFICES ASSUME IntakeInit PROVE AnswersInv OBVIOUS
  <1>1. PICK G \in Groups : InGroup(G) BY DEF IntakeInit
  <1> DEFINE Fresh(h) == [pc |-> IF h \in G THEN "new" ELSE "unsent", tries |-> 0, answer |-> 0,
                          todo |-> {}, saw |-> {}]
  <1>2. ASSUME NEW h \in Hooks PROVE Fresh(h) \in Request /\ Fresh(h).pc \in {"new", "unsent"}
    BY IntakeBounds DEF Request, HookSteps, AnswersGiven
  <1>3. req = [h \in Hooks |-> Fresh(h)] BY <1>1 DEF InGroup
  <1> HIDE DEF Fresh
  <1>4. IntakeTypes BY <1>2, <1>3 DEF IntakeInit, IntakeTypes, Doings
  <1>5. ASSUME NEW h \in Hooks PROVE Fits(h, req[h], did[h])
    <2>1. req[h].pc \in {"new", "unsent"} BY <1>2, <1>3
    <2> QED BY <2>1 DEF Fits
  <1> QED BY <1>4, <1>5 DEF AnswersInv

\* Every step of the intake keeps it.
LEMMA AnswersInvNext == AnswersInv /\ [IntakeNext]_intakeVars => AnswersInv'
  <1> SUFFICES ASSUME AnswersInv, [IntakeNext]_intakeVars PROVE AnswersInv' OBVIOUS
  <1>1. CASE UNCHANGED intakeVars
    <2>1. UNCHANGED <<req, open, indexed, did>> BY <1>1 DEF intakeVars
    <2>2. \A h \in Hooks : Fits(h, req'[h], did'[h]) BY <2>1 DEF AnswersInv
    <2>3. IntakeTypes' BY <2>1 DEF AnswersInv, IntakeTypes
    <2> QED BY <2>2, <2>3 DEF AnswersInv
  <1>2. ASSUME NEW h \in Hooks, Forward(h) \/ Relay(h) \/ Fire(h) \/ Publish(h) PROVE AnswersInv'
    <2>1. \E pc \in {"wire", "refused"} : Sends(h, pc) BY <1>2 DEF Forward, Relay, Fire, Publish
    <2> QED BY <2>1, SendsKeeps
  <1> QED
    BY <1>1, <1>2, HandleHttpKeeps, HandleSnsKeeps, FindOpenKeeps, BumpKeeps, PutNewKeeps,
       SendMessageKeeps, ProcessedKeeps, RaisesKeeps, AnsweredKeeps, AnswerLostKeeps, ClockKeeps
    DEF IntakeNext

\* Every variable of the intake keeps its type.
THEOREM IntakeTypeSafety == IntakeSpec => []IntakeTypeOK
  <1>1. AnswersInv => IntakeTypeOK
    BY DEF AnswersInv, IntakeTypes, Request, HookSteps, AnswersGiven, Doings, IntakeTypeOK
  <1> QED BY <1>1, AnswersInvInit, AnswersInvNext, PTL DEF IntakeSpec

\* What a sender was told is true of what the try did, for any hooks, tries and
\* deaths between any two calls: a 202 means that every firing alert was bumped, or
\* stored and sent, a 4xx that nothing was, a 500 that at most one is not sent.
THEOREM AnswersTellTheTruth == IntakeSpec => []AnswersAreTrue
  <1>1. AnswersInv => AnswersAreTrue
    <2> SUFFICES ASSUME AnswersInv, NEW h \in Hooks
                 PROVE  /\ HasAnswer(h, {202}) => DoneFor(h) = Firing(h) /\ Unsent(h) = {}
                        /\ HasAnswer(h, 400 .. 499) \/ HookAt(h, "refused") => did[h] = {}
                        /\ HasAnswer(h, {500}) => /\ DoneFor(h) \subseteq Firing(h)
                                                  /\ \A d, e \in Unsent(h) : d = e
      BY DEF AnswersAreTrue
    <2>1. Fits(h, req[h], did[h]) /\ req[h].answer \in {0, 202, 400, 401, 422, 500}
      BY AHookIs DEF Request, AnswersGiven
    <2>2. DoneFor(h) = CondsOf(did[h]) /\ Unsent(h) = StoredOnly(did[h])
      BY DEF DoneFor, CondsOf, Unsent, StoredOnly
    <2>3. HasAnswer(h, {202}) => req[h].answer = 202 /\ req[h].pc \in {"answer", "accepted", "failed"}
      BY <2>1 DEF HasAnswer, Fits
    <2>4. HasAnswer(h, {500}) => req[h].answer = 500 /\ req[h].pc \in {"answer", "accepted", "failed"}
      BY <2>1 DEF HasAnswer, Fits
    <2>5. HasAnswer(h, 400 .. 499) \/ HookAt(h, "refused") =>
             \/ req[h].pc = "refused"
             \/ req[h].answer \in {400, 401, 422} /\ req[h].pc \in {"answer", "accepted", "failed"}
      BY <2>1 DEF HasAnswer, HookAt
    <2> QED BY <2>1, <2>2, <2>3, <2>4, <2>5 DEF Fits, AnswerFits
  <1> QED BY <1>1, AnswersInvInit, AnswersInvNext, PTL DEF IntakeSpec

\* A stored alert keeps the fingerprint of its condition, and a request about to
\* store one was not shown one of that condition.
LEMMA UnseenNext ==
    AnswersInv /\ OpenIsOfItsCondition /\ SecondOnlyUnseen /\ [IntakeNext]_intakeVars
        => (OpenIsOfItsCondition /\ SecondOnlyUnseen)'
  <1> SUFFICES ASSUME AnswersInv, OpenIsOfItsCondition, SecondOnlyUnseen, [IntakeNext]_intakeVars
               PROVE  OpenIsOfItsCondition' /\ SecondOnlyUnseen'
    OBVIOUS
  <1>0. req \in [Hooks -> Request] BY DEF AnswersInv, IntakeTypes
  \* Most steps store nothing and leave every hook but one where it is, that one
  \* anywhere but before a put.
  <1>1. ASSUME open' \subseteq open PROVE OpenIsOfItsCondition'
    BY <1>1 DEF OpenIsOfItsCondition, CanonicalOf, AlertsFor
  <1>2. ASSUME NEW h \in Hooks, req'[h].pc # "put", \A g \in Hooks : g # h => req'[g] = req[g]
        PROVE  SecondOnlyUnseen'
    BY <1>2 DEF SecondOnlyUnseen, HookAt, NextAlert, CanonicalOf, AlertsFor
  <1>3. ASSUME NEW h \in Hooks, FindOpen(h) PROVE OpenIsOfItsCondition' /\ SecondOnlyUnseen'
    <2>1. /\ HookAt(h, "find") /\ req[h].todo # {} /\ UNCHANGED <<open, indexed, did>>
          /\ \A g \in Hooks : g # h => req'[g] = req[g]
          /\ req'[h].todo = req[h].todo /\ req'[h].saw = {o.cond : o \in indexed}
          /\ req'[h].pc = "put" => ~ \E o \in indexed : o.fingerprint = NextAlert(h).fingerprint
      BY <1>0, <1>3 DEF FindOpen, Request
    <2>2. ASSUME req'[h].pc = "put" PROVE NextAlert(h).cond \notin req'[h].saw
      <3> DEFINE i == NextOf(req[h].todo)
      <3> SUFFICES ASSUME NEW o \in indexed, o.cond = NextAlert(h).cond PROVE FALSE
        BY <2>1
      <3>1. i \in FiringOf(h.alerts) /\ h.alerts[i].cond = o.cond
        BY <2>1, NextAlertIs DEF HookAt
      <3>2. o \in open BY DEF AnswersInv, IntakeTypes
      <3>3. CanonicalOf(h)[i].fingerprint = o.fingerprint BY <3>1, <3>2 DEF OpenIsOfItsCondition
      <3> QED BY <2>1, <2>2, <3>3 DEF NextAlert
    <2>3. NextAlert(h)' = NextAlert(h) BY <2>1 DEF NextAlert, CanonicalOf, AlertsFor
    <2>4. ASSUME NEW g \in Hooks, g # h, HookAt(g, "put")'
          PROVE  (NextAlert(g).cond \notin req[g].saw)'
      BY <2>1, <2>4 DEF SecondOnlyUnseen, HookAt, NextAlert, CanonicalOf, AlertsFor
    <2> QED BY <1>1, <2>1, <2>2, <2>3, <2>4 DEF SecondOnlyUnseen, HookAt
  <1>4. ASSUME NEW h \in Hooks, PutNew(h) PROVE OpenIsOfItsCondition' /\ SecondOnlyUnseen'
    <2> DEFINE i == NextOf(req[h].todo)
    <2>1. HookAt(h, "put") /\ req'[h].pc = "send" /\ \A g \in Hooks : g # h => req'[g] = req[g]
      BY <1>0, <1>4 DEF PutNew, Request
    <2>2. req[h].todo # {} BY <2>1, AHookIs DEF Fits, HookAt
    <2>3. i \in FiringOf(h.alerts) /\ NextAlert(h).cond = h.alerts[i].cond
      BY <2>1, <2>2, NextAlertIs DEF HookAt
    <2>4. PICK o : /\ open' = open \cup {o} /\ o.cond = NextAlert(h).cond
                   /\ o.fingerprint = NextAlert(h).fingerprint
      <3> DEFINE o == [cond |-> NextAlert(h).cond, fingerprint |-> NextAlert(h).fingerprint,
                       of |-> <<h, req[h].tries, NextOf(req[h].todo)>>]
      <3>1. open' = open \cup {o} BY <1>4 DEF PutNew
      <3>2. o.cond = NextAlert(h).cond /\ o.fingerprint = NextAlert(h).fingerprint OBVIOUS
      <3> HIDE DEF o
      <3> QED BY <3>1, <3>2
    <2>5. ASSUME NEW g \in Hooks, NEW j \in FiringOf(g.alerts), g.alerts[j].cond = o.cond
          PROVE  CanonicalOf(g)[j].fingerprint = o.fingerprint
      BY <2>3, <2>4, <2>5, SameFingerprint DEF NextAlert
    <2>6. OpenIsOfItsCondition'
      BY <2>4, <2>5 DEF OpenIsOfItsCondition, CanonicalOf, AlertsFor
    <2> QED BY <1>2, <2>1, <2>6
  <1>5. ASSUME NEW h \in Hooks, NEW pc \in {"wire", "refused"}, Sends(h, pc)
        PROVE OpenIsOfItsCondition' /\ SecondOnlyUnseen'
    <2>1. open' = open /\ req'[h].pc # "put" /\ \A g \in Hooks : g # h => req'[g] = req[g]
      BY <1>0, <1>5 DEF Sends, Request
    <2> QED BY <1>1, <1>2, <2>1
  <1>6. ASSUME NEW h \in Hooks,
               (\E age \in Ages : HandleHttp(h, age)) \/ HandleSns(h) \/ Bump(h) \/ SendMessage(h)
        PROVE  OpenIsOfItsCondition' /\ SecondOnlyUnseen'
    <2>1. open' = open /\ \A g \in Hooks : g # h => req'[g] = req[g]
      BY <1>0, <1>6 DEF HandleHttp, HandleSns, Bump, SendMessage, Through
    <2>2. req'[h].pc # "put"
      <3>1. ASSUME NEW age \in Ages, HandleHttp(h, age) PROVE req'[h].pc \in {"find", "answer"}
        BY <1>0, <3>1 DEF HandleHttp, Request
      <3>2. CASE HandleSns(h) BY <1>0, <3>2 DEF HandleSns, Request
      <3>3. CASE Through(h) BY <1>0, <3>3 DEF Through, Request
      <3> QED BY <1>6, <3>1, <3>2, <3>3 DEF Bump, SendMessage
    <2> QED BY <1>1, <1>2, <2>1, <2>2
  <1>7. ASSUME NEW h \in Hooks, Processed(h) \/ Raises(h) \/ Answered(h) \/ AnswerLost(h)
        PROVE  OpenIsOfItsCondition' /\ SecondOnlyUnseen'
    <2>1. open' = open /\ \A g \in Hooks : g # h => req'[g] = req[g]
      BY <1>0, <1>7 DEF Processed, Raises, Answered, AnswerLost
    <2>2. HookAt(h, "find") \/ HookAt(h, "answer") \/ Raises(h)
      BY <1>7 DEF Processed, Answered, AnswerLost
    <2>3. req'[h].pc # "put"
      <3>1. CASE Processed(h) BY <1>0, <3>1 DEF Processed, Request
      <3>2. CASE Raises(h) BY <1>0, <3>2 DEF Raises, Request
      <3>3. CASE Answered(h) BY <1>0, <3>3 DEF Answered, Request
      <3>4. CASE AnswerLost(h) BY <1>0, <3>4 DEF AnswerLost, Request
      <3> QED BY <1>7, <3>1, <3>2, <3>3, <3>4
    <2> QED BY <1>1, <1>2, <2>1, <2>3
  <1>8. ASSUME UNCHANGED req, open' \subseteq open PROVE OpenIsOfItsCondition' /\ SecondOnlyUnseen'
    BY <1>1, <1>8 DEF SecondOnlyUnseen, HookAt, NextAlert, CanonicalOf, AlertsFor
  <1>9. ASSUME NEW o \in open, IndexShows(o) \/ WindowPasses(o)
        PROVE  OpenIsOfItsCondition' /\ SecondOnlyUnseen'
    <2>1. UNCHANGED req /\ open' \subseteq open BY <1>9 DEF IndexShows, WindowPasses
    <2> QED BY <1>8, <2>1
  <1>10. CASE UNCHANGED intakeVars BY <1>8, <1>10 DEF intakeVars
  <1>11. ASSUME NEW h \in Hooks, Forward(h) \/ Relay(h) \/ Fire(h) \/ Publish(h)
         PROVE  OpenIsOfItsCondition' /\ SecondOnlyUnseen'
    <2>1. \E pc \in {"wire", "refused"} : Sends(h, pc) BY <1>11 DEF Forward, Relay, Fire, Publish
    <2> QED BY <1>5, <2>1
  <1> QED BY <1>3, <1>4, <1>6, <1>7, <1>9, <1>10, <1>11 DEF IntakeNext

\* A condition gets a second alert inside the window only from a request that the
\* index did not show the first, for any routes, batches, repeats and labels that
\* differ by route: the adapters give its alerts one fingerprint.
THEOREM SecondsAreUnseen == IntakeSpec => []SecondOnlyUnseen
  <1>1. IntakeInit => OpenIsOfItsCondition /\ SecondOnlyUnseen
    <2> SUFFICES ASSUME IntakeInit PROVE OpenIsOfItsCondition /\ SecondOnlyUnseen OBVIOUS
    <2>1. open = {} /\ \A h \in Hooks : req[h].pc # "put" BY DEF IntakeInit, InGroup
    <2> QED BY <2>1 DEF OpenIsOfItsCondition, SecondOnlyUnseen, HookAt
  <1> QED BY <1>1, AnswersInvInit, AnswersInvNext, UnseenNext, PTL DEF IntakeSpec

-------------------------------------------------------------------------------
(***************************************************************************)
(* Intake: the card numbers. The Luhn sum is a fold over the positions;    *)
(* FiniteSums lets one term be taken out of it.                            *)
(***************************************************************************)

\* A number is a sequence of PanLength digits.
LEMMA NumberIs ==
    ASSUME PanLength \in Nat, NEW n \in Numbers
    PROVE  n \in Seq(0 .. 9) /\ Len(n) = PanLength
  <1>1. n \in Seq(0 .. 9) BY DEF Numbers
  <1>2. DOMAIN n = 1 .. PanLength BY DEF Numbers
  <1>3. Len(n) \in Nat /\ DOMAIN n = 1 .. Len(n) BY <1>1
  <1> QED BY <1>1, <1>2, <1>3

\* What each digit adds to the checksum.
Weights(n) == [i \in 1 .. PanLength |-> Weighted(PanLength - i, n[i])]

\* The checksum is the sum of the weights, in whatever order the fold takes the
\* digits.
LEMMA LuhnIsASum ==
    ASSUME PanLength \in Nat, NEW n \in Numbers
    PROVE  LuhnOk(n) <=> SumFunctionOnSet(Weights(n), 1 .. PanLength) % 10 = 0
  <1> DEFINE S == 1 .. PanLength
             Luhn(g) == g = [s \in SUBSET S |->
                                IF s = {} THEN 0
                                ELSE Weighted(PanLength - Pick(s), n[Pick(s)]) + g[s \ {Pick(s)}]]
  <1>1. Len(n) = PanLength BY NumberIs
  <1>2. LuhnOk(n) <=> (CHOOSE g : Luhn(g))[S] % 10 = 0
    BY <1>1 DEF LuhnOk, MapThenFoldSet, Pick
  <1>3. \A g : Luhn(g) <=> Sums(Weights(n), S, g)
    <2> SUFFICES ASSUME NEW g
                 PROVE  [s \in SUBSET S |->
                                IF s = {} THEN 0
                                ELSE Weighted(PanLength - Pick(s), n[Pick(s)]) + g[s \ {Pick(s)}]]
                        = [s \in SUBSET S |-> IF s = {} THEN 0 ELSE Weights(n)[Pick(s)] + g[s \ {Pick(s)}]]
      BY DEF Sums
    <2>1. ASSUME NEW s \in SUBSET S, s # {}
          PROVE  Weights(n)[Pick(s)] = Weighted(PanLength - Pick(s), n[Pick(s)])
      <3>1. Pick(s) \in S BY <2>1 DEF Pick
      <3> QED BY <3>1 DEF Weights
    <2> QED BY <2>1
  <1>4. IsFiniteSet(S) BY FS_Interval
  <1> HIDE DEF S, Luhn
  <1>5. PICK h : Sums(Weights(n), S, h) /\ SumFunctionOnSet(Weights(n), S) = h[S]
    BY <1>4, SumsExist, SumUnfolds
  <1>6. Luhn(CHOOSE g : Luhn(g)) BY <1>3, <1>5
  <1>7. (CHOOSE g : Luhn(g))[S] = h[S] BY <1>3, <1>4, <1>5, <1>6, SumsAgree
  <1> QED BY <1>2, <1>5, <1>7 DEF S

\* Doubling a digit and subtracting nine keeps digits apart.
LEMMA WeightsDiffer ==
    ASSUME NEW i \in Int, NEW d \in 0 .. 9, NEW e \in 0 .. 9
    PROVE  Weighted(i, d) \in 0 .. 9 /\ (Weighted(i, d) = Weighted(i, e) => d = e)
  BY DEF Weighted

\* One slip changes one weight by less than ten, so the sum is no longer a
\* multiple of ten.
LEMMA SlipShows == ASSUME PanLength \in Nat PROVE OneSlipShows
  <1> SUFFICES ASSUME NEW n \in Numbers, LuhnOk(n), NEW slip \in Slips(n)
               PROVE  RedactPan(slip) = slip
    BY DEF OneSlipShows
  <1>0. PICK i \in 1 .. PanLength, d \in 0 .. 9 : slip = [n EXCEPT ![i] = d] /\ slip # n
    BY DEF Slips
  <1>1. PICK m : m = slip OBVIOUS
  <1>2. m \in Numbers /\ m[i] = d /\ d # n[i] /\ n[i] \in 0 .. 9
        /\ \A j \in 1 .. PanLength : j # i => m[j] = n[j]
    BY <1>0, <1>1 DEF Numbers
  <1> DEFINE S == 1 .. PanLength
  <1>3. PICK w, v : w = Weights(n) /\ v = Weights(m) OBVIOUS
  <1>4. \A j \in S : w[j] \in 0 .. 9 /\ v[j] \in 0 .. 9
    <2> TAKE j \in S
    <2>1. n[j] \in 0 .. 9 /\ m[j] \in 0 .. 9 /\ PanLength - j \in Int BY <1>2 DEF Numbers
    <2> QED BY <1>3, <2>1, WeightsDiffer DEF Weights
  <1>5. \A j \in S : j # i => v[j] = w[j] BY <1>2, <1>3 DEF Weights
  <1>6. v[i] # w[i]
    <2>1. PanLength - i \in Int OBVIOUS
    <2>2. w[i] = Weighted(PanLength - i, n[i]) /\ v[i] = Weighted(PanLength - i, d)
      BY <1>2, <1>3 DEF Weights
    <2>3. PICK k \in Int : k = PanLength - i BY <2>1
    <2>4. Weighted(k, n[i]) = Weighted(k, d) => n[i] = d BY <1>2, <2>3, WeightsDiffer
    <2> QED BY <1>2, <2>2, <2>3, <2>4
  <1>7. IsFiniteSet(S) BY FS_Interval
  <1>8. i \in S /\ \A j \in S : w[j] \in Nat /\ v[j] \in Nat BY <1>4
  <1> HIDE DEF S
  <1>9. SumFunctionOnSet(v, S) + w[i] = SumFunctionOnSet(w, S) + v[i]
    <2>1. PICK a : a = i OBVIOUS
    <2>2. a \in S /\ \A x \in S : x # a => v[x] = w[x] BY <1>5, <1>8, <2>1
    <2>4. \A x \in S : w[x] \in Nat /\ v[x] \in Nat BY <1>8
    <2>3. SumFunctionOnSet(v, S) + w[a] = SumFunctionOnSet(w, S) + v[a]
      <3>1. SumFunctionOnSet(w, S) = w[a] + SumFunctionOnSet(w, S \ {a}) BY <1>7, <2>2, <2>4, SumTakesOut
      <3>2. SumFunctionOnSet(v, S) = v[a] + SumFunctionOnSet(v, S \ {a}) BY <1>7, <2>2, <2>4, SumTakesOut
      <3> QED BY <1>7, <2>2, <2>4, SumChanges
    <2> QED BY <2>1, <2>3
  <1>10. SumFunctionOnSet(w, S) \in Nat /\ SumFunctionOnSet(v, S) \in Nat
    BY <1>7, <1>8, SumIsNat
  <1>11. SumFunctionOnSet(w, S) % 10 = 0 BY <1>3, LuhnIsASum DEF S
  <1>12. SumFunctionOnSet(v, S) % 10 # 0
    <2>1. \A x, y \in Nat : \A a, b \in 0 .. 9 : x % 10 = 0 /\ a # b /\ y + a = x + b => y % 10 # 0
      OBVIOUS
    <2>2. w[i] \in 0 .. 9 /\ v[i] \in 0 .. 9 BY <1>4, <1>8
    <2> QED BY <1>6, <1>9, <1>10, <1>11, <2>1, <2>2
  <1>13. ~LuhnOk(m) BY <1>2, <1>3, <1>12, LuhnIsASum DEF S
  <1> QED BY <1>1, <1>13 DEF RedactPan

\* Scrubbing takes no number for a card's that is one digit off one, for card
\* numbers of any length.
THEOREM ScrubTellsCardsApart == IntakeSpec => []ScrubTellsSlips
  <1>1. PanLength \in Nat
    BY IntakeBounds
  <1>2. OneSlipShows
    BY <1>1, SlipShows
  <1>3. ScrubTellsSlips
    BY <1>2 DEF ScrubTellsSlips
  <1> QED
    BY <1>3, PTL

-------------------------------------------------------------------------------
(***************************************************************************)
(* FraudPipeline. WorkedOff says that the loop has accounted for all it    *)
(* has come past; what it commits is never more.                           *)
(***************************************************************************)

\* The modes, and a thread's steps and record.
AllModes == FraudModes \cup {Normal}
ThreadSteps == {"rest", "work", "polling", "message", "score", "commit"}
ThreadRecord == [pc : ThreadSteps, ask : {"no", "store"}, mode : AllModes]

\* The offsets of the group and what was published.
OffsetTypes ==
    /\ authorized \in [end : 0 .. MaxCards, position : Nat, committed : Nat]
    /\ authorized.committed <= authorized.position /\ authorized.position <= authorized.end
    /\ out \in [buffer : Seq(CardEvents), log : Seq(CardEvents)]
    /\ bank \in [position : Nat, committed : Nat]
    /\ bank.committed <= bank.position /\ bank.position <= Len(out.log)
    /\ failed \subseteq CardEvents /\ dropped \subseteq CardEvents

\* What the threads share.
PodTypes ==
    /\ configMap \in [{"key", "mounted"} -> AllModes]
    /\ fault \in [mode : AllModes, fresh : BOOLEAN]
    /\ thread \in [PodThreads -> ThreadRecord]
    /\ since \in {"none", "set", "due"}

\* The loop has polled a card that it has not dealt with.
InHand == thread["loop"].pc \in {"message", "score"}

\* What became of the cards: in the producer's buffer, published, raised in their
\* publish, or lost with a buffer.
Accounted == Range(out.buffer) \cup Range(out.log) \cup failed \cup dropped

\* Every card up to the position is accounted for, but for one in hand, which
\* the group has not committed.
WorkedOff ==
    /\ InHand => authorized.committed < authorized.position
    /\ 1 .. authorized.position \subseteq
          Accounted \cup (IF InHand THEN {authorized.position} ELSE {})

\* Together these are inductive.
FraudInv == OffsetTypes /\ PodTypes /\ WorkedOff

-------------------------------------------------------------------------------
(* Lemmas.                                                                  *)

\* Appending adds one element.
LEMMA RangeOfAppend ==
    ASSUME NEW S, NEW s \in Seq(S), NEW e \in S
    PROVE  Append(s, e) \in Seq(S) /\ Range(Append(s, e)) = Range(s) \cup {e}
  <1>1. Append(s, e) \in Seq(S) /\ Len(Append(s, e)) = Len(s) + 1 OBVIOUS
  <1>2. /\ DOMAIN Append(s, e) = 1 .. Len(s) + 1 /\ DOMAIN s = 1 .. Len(s)
        /\ \A i \in 1 .. Len(s) : Append(s, e)[i] = s[i]
        /\ Append(s, e)[Len(s) + 1] = e
    BY <1>1
  <1>3. Len(s) \in Nat OBVIOUS
  <1> HIDE DEF Range
  <1>4. Range(Append(s, e)) \subseteq Range(s) \cup {e}
    <2> SUFFICES ASSUME NEW i \in 1 .. Len(s) + 1 PROVE Append(s, e)[i] \in Range(s) \cup {e}
      BY <1>2 DEF Range
    <2> QED BY <1>2, <1>3 DEF Range
  <1>5. Range(s) \subseteq Range(Append(s, e))
    <2> SUFFICES ASSUME NEW i \in 1 .. Len(s) PROVE s[i] \in Range(Append(s, e))
      BY <1>2 DEF Range
    <2>1. i \in 1 .. Len(s) + 1 BY <1>3
    <2> QED BY <1>2, <2>1 DEF Range
  <1>6. e \in Range(Append(s, e))
    <2>1. Len(s) + 1 \in 1 .. Len(s) + 1 BY <1>3
    <2> QED BY <1>2, <2>1 DEF Range
  <1> QED BY <1>1, <1>4, <1>5, <1>6

\* A sequence is its head and its tail.
LEMMA RangeOfTail ==
    ASSUME NEW S, NEW s \in Seq(S), s # <<>>
    PROVE  /\ Head(s) \in S /\ Tail(s) \in Seq(S)
           /\ Range(s) = {Head(s)} \cup Range(Tail(s))
  <1>1. /\ Head(s) \in S /\ Tail(s) \in Seq(S) /\ Len(s) \in Nat /\ Len(s) >= 1
        /\ Head(s) = s[1] /\ Len(Tail(s)) = Len(s) - 1
        /\ \A i \in 1 .. Len(s) - 1 : Tail(s)[i] = s[i + 1]
    OBVIOUS
  <1>2. DOMAIN s = 1 .. Len(s) /\ DOMAIN Tail(s) = 1 .. Len(s) - 1
    BY <1>1
  <1>3. Range(s) \subseteq {Head(s)} \cup Range(Tail(s))
    <2> SUFFICES ASSUME NEW i \in 1 .. Len(s) PROVE s[i] \in {Head(s)} \cup Range(Tail(s))
      BY <1>2 DEF Range
    <2>1. CASE i = 1 BY <1>1, <2>1
    <2>2. CASE i # 1
      <3>1. i - 1 \in 1 .. Len(s) - 1 /\ (i - 1) + 1 = i BY <1>1, <2>2
      <3>2. s[i] = Tail(s)[i - 1] BY <1>1, <3>1
      <3> QED BY <1>2, <3>1, <3>2 DEF Range
    <2> QED BY <2>1, <2>2
  <1>4. {Head(s)} \cup Range(Tail(s)) \subseteq Range(s)
    <2>1. Head(s) \in Range(s) BY <1>1, <1>2 DEF Range
    <2>2. ASSUME NEW i \in 1 .. Len(s) - 1 PROVE Tail(s)[i] \in Range(s)
      <3>1. i + 1 \in 1 .. Len(s) BY <1>1
      <3> QED BY <1>1, <1>2, <3>1 DEF Range
    <2> QED BY <1>2, <2>1, <2>2 DEF Range
  <1> QED BY <1>1, <1>3, <1>4

\* What Goto does to the threads.
LEMMA GotoFacts ==
    ASSUME PodTypes, NEW t \in PodThreads, NEW step \in ThreadSteps, Goto(t, step)
    PROVE  /\ thread' \in [PodThreads -> ThreadRecord]
           /\ thread'[t].pc = step
           /\ \A u \in PodThreads : u # t => thread'[u] = thread[u]
  <1>1. [AtRest EXCEPT !.pc = step] = [pc |-> step, ask |-> "no", mode |-> Normal]
    BY DEF AtRest
  <1>2. [pc |-> step, ask |-> "no", mode |-> Normal] \in ThreadRecord
    BY DEF ThreadRecord, AllModes
  <1>3. thread' = [thread EXCEPT ![t] = [pc |-> step, ask |-> "no", mode |-> Normal]]
    BY <1>1 DEF Goto
  <1> QED BY <1>2, <1>3 DEF PodTypes

\* What a question for the mode does to the pod: the thread moves on, and the
\* answer is a mode.
LEMMA AskModeFacts ==
    ASSUME PodTypes, NEW t \in PodThreads, NEW from \in ThreadSteps, NEW to \in ThreadSteps,
           AskMode(t, from, to)
    PROVE  /\ PodTypes' /\ UNCHANGED kafkaVars
           /\ thread[t].pc = from /\ thread'[t].pc = to
           /\ \A u \in PodThreads : u # t => thread'[u] = thread[u]
  <1> DEFINE new == IF fault.fresh THEN [pc |-> to, ask |-> "no", mode |-> fault.mode]
                                  ELSE [pc |-> to, ask |-> "store", mode |-> configMap.mounted]
  <1>1. new \in ThreadRecord /\ new.pc = to
    BY DEF ThreadRecord, PodTypes, AllModes
  <1>2. thread' = [thread EXCEPT ![t] = new]
    BY DEF AskMode
  <1> HIDE DEF new
  <1>3. /\ thread' \in [PodThreads -> ThreadRecord] /\ thread'[t].pc = to
        /\ \A u \in PodThreads : u # t => thread'[u] = thread[u]
    BY <1>1, <1>2 DEF PodTypes
  <1>4. fault' = [fault EXCEPT !.fresh = TRUE] /\ UNCHANGED <<configMap, since, kafkaVars>>
    BY DEF AskMode
  <1>5. fault' \in [mode : AllModes, fresh : BOOLEAN]
    BY <1>4 DEF PodTypes
  <1> QED BY <1>3, <1>4, <1>5 DEF PodTypes, AskMode, ThreadAt

\* Storing an answer keeps every thread where it is.
LEMMA StoreModeFacts ==
    ASSUME PodTypes, NEW t \in PodThreads, StoreMode(t)
    PROVE  /\ PodTypes' /\ UNCHANGED kafkaVars
           /\ \A u \in PodThreads : thread'[u].pc = thread[u].pc
  <1>1. thread[t] \in ThreadRecord BY DEF PodTypes
  <1> DEFINE new == [thread[t] EXCEPT !.ask = "no"]
  <1>2. new \in ThreadRecord /\ new.pc = thread[t].pc
    BY <1>1 DEF ThreadRecord
  <1>3. thread' = [thread EXCEPT ![t] = new] BY DEF StoreMode
  <1> HIDE DEF new
  <1>4. /\ thread' \in [PodThreads -> ThreadRecord]
        /\ \A u \in PodThreads : thread'[u].pc = thread[u].pc
    BY <1>2, <1>3 DEF PodTypes
  <1>5. /\ fault' = [fault EXCEPT !.mode = thread[t].mode] /\ thread[t].mode \in AllModes
        /\ UNCHANGED <<configMap, since, kafkaVars>>
    BY <1>1 DEF StoreMode, ThreadRecord
  <1>6. fault' \in [mode : AllModes, fresh : BOOLEAN]
    BY <1>5 DEF PodTypes
  <1> QED BY <1>4, <1>5, <1>6 DEF PodTypes

\* A step that leaves Kafka alone and the loop on the same side of its work.
LEMMA PodStep ==
    ASSUME FraudInv, PodTypes', UNCHANGED kafkaVars, InHand' = InHand
    PROVE  FraudInv'
  <1>1. OffsetTypes' BY DEF FraudInv, OffsetTypes, kafkaVars
  <1>2. WorkedOff' BY DEF FraudInv, WorkedOff, Accounted, kafkaVars
  <1> QED BY <1>1, <1>2 DEF FraudInv

\* A thread asks for the mode before it works, from the cache or from the file.
LEMMA GetModeKeeps ==
    ASSUME FraudInv, NEW t \in PodThreads, GetMode(t)
    PROVE  FraudInv'
  <1>0. PodTypes BY DEF FraudInv
  <1>1. CASE t # "loop" /\ AskMode(t, "rest", "work")
    <2>1. thread'["loop"] = thread["loop"] /\ PodTypes' /\ UNCHANGED kafkaVars
      BY <1>0, <1>1, AskModeFacts DEF ThreadSteps, PodThreads
    <2> QED BY <2>1, PodStep DEF InHand
  <1>2. CASE t = "loop" /\ AskMode(t, "rest", "polling")
    <2>1. /\ thread["loop"].pc = "rest" /\ thread'["loop"].pc = "polling"
          /\ PodTypes' /\ UNCHANGED kafkaVars
      BY <1>0, <1>2, AskModeFacts DEF ThreadSteps, PodThreads
    <2> QED BY <2>1, PodStep DEF InHand
  <1>3. CASE t = "loop" /\ AskMode(t, "message", "score")
    <2>1. /\ thread["loop"].pc = "message" /\ thread'["loop"].pc = "score"
          /\ PodTypes' /\ UNCHANGED kafkaVars
      BY <1>0, <1>3, AskModeFacts DEF ThreadSteps, PodThreads
    <2> QED BY <2>1, PodStep DEF InHand
  <1>4. CASE StoreMode(t)
    <2>1. thread'["loop"].pc = thread["loop"].pc /\ PodTypes' /\ UNCHANGED kafkaVars
      BY <1>0, <1>4, StoreModeFacts DEF PodThreads
    <2> QED BY <2>1, PodStep DEF InHand
  <1> QED BY <1>1, <1>2, <1>3, <1>4 DEF GetMode

\* A thread goes to work.
LEMMA WorkKeeps ==
    ASSUME FraudInv, NEW t \in {"ticker", "http"}, Work(t)
    PROVE  FraudInv'
  <1>0. PodTypes /\ t \in PodThreads /\ t # "loop" BY DEF FraudInv, PodThreads
  <1>1. /\ thread' \in [PodThreads -> ThreadRecord] /\ thread'["loop"] = thread["loop"]
    BY <1>0, GotoFacts DEF Work, ThreadSteps, PodThreads
  <1>2. since' \in {"none", "set", "due"} /\ UNCHANGED <<configMap, fault, kafkaVars>>
    BY <1>0 DEF Work, PodTypes
  <1>3. PodTypes' BY <1>0, <1>1, <1>2 DEF PodTypes
  <1> QED BY <1>1, <1>2, <1>3, PodStep DEF InHand

\* A restart moves what was in the buffer to the cards that are lost, and the
\* position back to the commit, which the work never lags behind.
LEMMA NewPodKeeps ==
    ASSUME FraudInv, NewPod
    PROVE  FraudInv'
  <1>1. PodTypes'
    <2>1. AtRest \in ThreadRecord BY DEF AtRest, ThreadRecord, ThreadSteps, AllModes
    <2>2. thread' \in [PodThreads -> ThreadRecord] BY <2>1 DEF NewPod
    <2>3. fault' \in [mode : AllModes, fresh : BOOLEAN] BY DEF NewPod, AllModes
    <2> QED BY <2>2, <2>3 DEF NewPod, FraudInv, PodTypes
  <1>2. /\ authorized'.end = authorized.end /\ authorized'.committed = authorized.committed
        /\ authorized'.position = authorized.committed
        /\ authorized' \in [end : 0 .. MaxCards, position : Nat, committed : Nat]
    BY DEF NewPod, FraudInv, OffsetTypes
  <1>3. out' = [buffer |-> <<>>, log |-> out.log]
    BY DEF NewPod, FraudInv, OffsetTypes
  <1>4. Range(out.buffer) \subseteq CardEvents
    BY DEF FraudInv, OffsetTypes, Range
  <1>5. OffsetTypes'
    <2>1. <<>> \in Seq(CardEvents) OBVIOUS
    <2>2. /\ out' \in [buffer : Seq(CardEvents), log : Seq(CardEvents)] /\ out'.log = out.log
          /\ bank' = bank /\ failed' = failed /\ dropped' \subseteq CardEvents
      BY <1>3, <1>4, <2>1 DEF NewPod, FraudInv, OffsetTypes
    <2>3. authorized.committed <= authorized.end
      BY FraudBounds DEF FraudInv, OffsetTypes
    <2> QED BY <1>2, <2>2, <2>3 DEF FraudInv, OffsetTypes
  <1>6. ~InHand'
    BY DEF NewPod, InHand, AtRest, PodThreads
  <1>7. Accounted \subseteq Accounted'
    BY <1>3 DEF NewPod, Accounted
  <1>8. 1 .. authorized.committed \subseteq Accounted
    BY DEF FraudInv, WorkedOff, OffsetTypes
  <1>9. WorkedOff'
    BY <1>2, <1>6, <1>7, <1>8 DEF WorkedOff
  <1> QED BY <1>1, <1>5, <1>9 DEF FraudInv

\* The loop polls: the card it takes up is one after all that are accounted for.
LEMMA PollKeeps ==
    ASSUME FraudInv, Poll
    PROVE  FraudInv'
  <1> DEFINE from == IF evicted THEN authorized.committed ELSE authorized.position
             to == IF from < authorized.end THEN from + 1 ELSE from
             step == IF from < authorized.end THEN "message" ELSE "rest"
  <1>1. /\ thread["loop"].pc = "polling" /\ evicted' = FALSE
        /\ authorized' = [authorized EXCEPT !.position = to]
        /\ Goto("loop", step)
        /\ UNCHANGED <<configMap, fault, since, out, failed, dropped, bank>>
    BY DEF Poll, ThreadAt
  <1>2. /\ from \in Nat /\ authorized.committed <= from /\ from <= authorized.position
        /\ to \in Nat /\ to <= authorized.end
        /\ authorized \in [end : 0 .. MaxCards, position : Nat, committed : Nat]
    BY DEF FraudInv, OffsetTypes
  <1>3. 1 .. from \subseteq Accounted
    <2>1. ~InHand BY <1>1 DEF InHand
    <2>2. 1 .. authorized.position \subseteq Accounted BY <2>1 DEF FraudInv, WorkedOff
    <2>3. authorized.position \in Nat BY <1>2
    <2> QED BY <1>2, <2>2, <2>3
  <1>4. step \in ThreadSteps /\ "loop" \in PodThreads /\ PodTypes
    BY DEF ThreadSteps, PodThreads, FraudInv
  <1>5. (to = from + 1 /\ step = "message" /\ from < authorized.end) \/ (to = from /\ step = "rest")
    OBVIOUS
  <1> HIDE DEF from, to, step
  <1>6. thread' \in [PodThreads -> ThreadRecord] /\ thread'["loop"].pc = step
    BY <1>1, <1>4, GotoFacts
  <1>7. PodTypes' BY <1>1, <1>4, <1>6 DEF PodTypes
  <1>8. /\ authorized'.end = authorized.end /\ authorized'.committed = authorized.committed
        /\ authorized'.position = to
        /\ authorized' \in [end : 0 .. MaxCards, position : Nat, committed : Nat]
    BY <1>1, <1>2
  <1>9. OffsetTypes'
    BY <1>1, <1>2, <1>5, <1>8 DEF FraudInv, OffsetTypes
  <1>10. Accounted' = Accounted BY <1>1 DEF Accounted
  <1>11. CASE step = "message"
    <2>1. InHand' /\ to = from + 1 BY <1>5, <1>6, <1>11 DEF InHand
    <2>2. 1 .. to \subseteq Accounted \cup {to} BY <1>2, <1>3, <2>1
    <2>3. authorized.committed < to BY <1>2, <1>8, <2>1
    <2>4. WorkedOff' BY <1>8, <1>10, <2>1, <2>2, <2>3 DEF WorkedOff
    <2> QED BY <1>7, <1>9, <2>4 DEF FraudInv
  <1>12. CASE step = "rest"
    <2>1. ~InHand' /\ to = from BY <1>5, <1>6, <1>12 DEF InHand
    <2>2. WorkedOff' BY <1>3, <1>8, <1>10, <2>1 DEF WorkedOff
    <2> QED BY <1>7, <1>9, <2>2 DEF FraudInv
  <1> QED BY <1>5, <1>11, <1>12

\* The card in hand is published, or its publish raises: it is accounted for.
LEMMA ScoreKeeps ==
    ASSUME FraudInv, PublishScore \/ PublishRaises
    PROVE  FraudInv'
  <1> DEFINE card == authorized.position
  <1>1. /\ thread["loop"].pc = "score"
        /\ UNCHANGED <<configMap, fault, since, authorized, evicted, dropped, bank>>
    BY DEF PublishScore, PublishRaises, ThreadAt
  <1>2. card \in CardEvents
    <2>1. InHand BY <1>1 DEF InHand
    <2>2. /\ authorized \in [end : 0 .. MaxCards, position : Nat, committed : Nat]
          /\ authorized.committed < card /\ card <= authorized.end
      BY <2>1 DEF FraudInv, WorkedOff, OffsetTypes
    <2> QED BY <2>2, FraudBounds DEF CardEvents
  <1>3. \E step \in {"commit", "rest"} : Goto("loop", step)
    BY DEF PublishScore, PublishRaises
  <1>4. thread' \in [PodThreads -> ThreadRecord] /\ thread'["loop"].pc \in {"commit", "rest"}
    BY <1>3, GotoFacts DEF ThreadSteps, PodThreads, FraudInv
  <1>5. PodTypes' BY <1>1, <1>4 DEF PodTypes, FraudInv
  <1>6. OffsetTypes' /\ Accounted' = Accounted \cup {card}
    <2>1. CASE PublishScore
      <3>1. /\ out' = [buffer |-> Append(out.buffer, card), log |-> out.log]
            /\ failed' = failed /\ out.buffer \in Seq(CardEvents)
        BY <2>1 DEF PublishScore, FraudInv, OffsetTypes
      <3>2. /\ Append(out.buffer, card) \in Seq(CardEvents)
            /\ Range(Append(out.buffer, card)) = Range(out.buffer) \cup {card}
        BY <1>2, <3>1, RangeOfAppend
      <3>3. OffsetTypes' BY <1>1, <3>1, <3>2 DEF FraudInv, OffsetTypes
      <3>4. Range(out'.buffer) = Range(out.buffer) \cup {card} /\ out'.log = out.log
        BY <3>1, <3>2
      <3> QED BY <1>1, <3>1, <3>3, <3>4 DEF Accounted
    <2>2. CASE PublishRaises
      <3>1. out' = out /\ failed' = failed \cup {card}
        BY <2>2 DEF PublishRaises
      <3> QED BY <1>1, <1>2, <3>1 DEF FraudInv, OffsetTypes, Accounted
    <2> QED BY <2>1, <2>2
  <1>7. WorkedOff'
    <2>1. ~InHand' BY <1>4 DEF InHand
    <2>2. 1 .. card \subseteq Accounted \cup {card} BY DEF FraudInv, WorkedOff
    <2> QED BY <1>1, <1>6, <2>1, <2>2 DEF WorkedOff
  <1> QED BY <1>5, <1>6, <1>7 DEF FraudInv

\* The loop commits what it has come past.
LEMMA CommitKeeps ==
    ASSUME FraudInv, Commit
    PROVE  FraudInv'
  <1>1. PICK c \in {authorized.committed, authorized.position} :
            authorized' = [authorized EXCEPT !.committed = c]
    BY DEF Commit
  <1>2. /\ thread["loop"].pc = "commit" /\ Goto("loop", "rest")
        /\ UNCHANGED <<configMap, fault, since, evicted, out, failed, dropped, bank>>
    BY DEF Commit, ThreadAt
  <1>3. thread' \in [PodThreads -> ThreadRecord] /\ thread'["loop"].pc = "rest"
    BY <1>2, GotoFacts DEF ThreadSteps, PodThreads, FraudInv
  <1>4. PodTypes' BY <1>2, <1>3 DEF PodTypes, FraudInv
  <1>5. /\ authorized'.end = authorized.end /\ authorized'.committed = c
        /\ authorized'.position = authorized.position
        /\ authorized' \in [end : 0 .. MaxCards, position : Nat, committed : Nat]
    BY <1>1 DEF FraudInv, OffsetTypes
  <1>6. OffsetTypes' BY <1>1, <1>2, <1>5 DEF FraudInv, OffsetTypes
  <1>7. ~InHand /\ ~InHand' /\ Accounted' = Accounted BY <1>2, <1>3 DEF InHand, Accounted
  <1>8. WorkedOff' BY <1>5, <1>7 DEF FraudInv, WorkedOff
  <1> QED BY <1>4, <1>6, <1>8 DEF FraudInv

\* The broker takes the oldest card of the buffer.
LEMMA DeliveredKeeps ==
    ASSUME FraudInv, Delivered
    PROVE  FraudInv'
  <1>1. /\ out.buffer # <<>> /\ out.buffer \in Seq(CardEvents) /\ out.log \in Seq(CardEvents)
        /\ out' = [buffer |-> Tail(out.buffer), log |-> Append(out.log, Head(out.buffer))]
        /\ UNCHANGED <<configMap, podVars, authorized, evicted, failed, dropped, bank>>
    BY DEF Delivered, FraudInv, OffsetTypes
  <1>2. /\ Head(out.buffer) \in CardEvents /\ Tail(out.buffer) \in Seq(CardEvents)
        /\ Range(out.buffer) = {Head(out.buffer)} \cup Range(Tail(out.buffer))
    BY <1>1, RangeOfTail
  <1>3. /\ Append(out.log, Head(out.buffer)) \in Seq(CardEvents)
        /\ Range(Append(out.log, Head(out.buffer))) = Range(out.log) \cup {Head(out.buffer)}
    BY <1>1, <1>2, RangeOfAppend
  <1>4. Len(Append(out.log, Head(out.buffer))) = Len(out.log) + 1 /\ Len(out.log) \in Nat
    BY <1>1, <1>2
  <1> DEFINE buffer == Tail(out.buffer)
             log == Append(out.log, Head(out.buffer))
  <1>5. out' = [buffer |-> buffer, log |-> log] /\ buffer \in Seq(CardEvents) /\ log \in Seq(CardEvents)
        /\ Len(log) = Len(out.log) + 1
        /\ Range(buffer) \cup Range(log) = Range(out.buffer) \cup Range(out.log)
    BY <1>1, <1>2, <1>3, <1>4
  <1> HIDE DEF buffer, log
  <1>6. OffsetTypes' BY <1>1, <1>4, <1>5 DEF FraudInv, OffsetTypes
  <1>7. Accounted' = Accounted
    <2>1. out'.buffer = buffer /\ out'.log = log BY <1>5
    <2> QED BY <1>1, <1>5, <2>1 DEF Accounted
  <1>8. PodTypes' BY <1>1 DEF FraudInv, PodTypes, podVars
  <1>9. WorkedOff' BY <1>1, <1>7 DEF FraudInv, WorkedOff, InHand, podVars
  <1> QED BY <1>6, <1>8, <1>9 DEF FraudInv

\* The broker takes it and the producer does not hear of it: the log grows.
LEMMA UnheardKeeps ==
    ASSUME FraudInv, DeliveredUnheard
    PROVE  FraudInv'
  <1> DEFINE log == Append(out.log, Head(out.buffer))
  <1>1. /\ out.buffer # <<>> /\ out.buffer \in Seq(CardEvents) /\ out.log \in Seq(CardEvents)
        /\ out' = [buffer |-> out.buffer, log |-> log]
        /\ UNCHANGED <<configMap, podVars, authorized, evicted, failed, dropped, bank>>
    BY DEF DeliveredUnheard, FraudInv, OffsetTypes
  <1>2. /\ Head(out.buffer) \in CardEvents
        /\ Range(out.buffer) = {Head(out.buffer)} \cup Range(Tail(out.buffer))
    BY <1>1, RangeOfTail
  <1>3. /\ log \in Seq(CardEvents) /\ Len(log) = Len(out.log) + 1 /\ Len(out.log) \in Nat
        /\ Range(log) = Range(out.log) \cup {Head(out.buffer)}
    BY <1>1, <1>2, RangeOfAppend
  <1> HIDE DEF log
  <1>4. OffsetTypes' BY <1>1, <1>3 DEF FraudInv, OffsetTypes
  <1>5. Accounted' = Accounted
    <2>1. out'.buffer = out.buffer /\ out'.log = log BY <1>1
    <2> QED BY <1>1, <1>2, <1>3, <2>1 DEF Accounted
  <1>6. PodTypes' BY <1>1 DEF FraudInv, PodTypes, podVars
  <1>7. WorkedOff' BY <1>1, <1>5 DEF FraudInv, WorkedOff, InHand, podVars
  <1> QED BY <1>4, <1>6, <1>7 DEF FraudInv

\* An event that is given up is remembered as one that left for nowhere.
LEMMA ExpiredKeeps ==
    ASSUME FraudInv, Expired
    PROVE  FraudInv'
  <1> DEFINE buffer == Tail(out.buffer)
  <1>1. /\ out.buffer # <<>> /\ out.buffer \in Seq(CardEvents) /\ out.log \in Seq(CardEvents)
        /\ out' = [buffer |-> buffer, log |-> out.log]
        /\ dropped' = dropped \cup {Head(out.buffer)}
        /\ UNCHANGED <<configMap, podVars, authorized, evicted, failed, bank>>
    BY DEF Expired, FraudInv, OffsetTypes
  <1>2. /\ Head(out.buffer) \in CardEvents /\ buffer \in Seq(CardEvents)
        /\ Range(out.buffer) = {Head(out.buffer)} \cup Range(buffer)
    BY <1>1, RangeOfTail
  <1> HIDE DEF buffer
  <1>3. OffsetTypes' BY <1>1, <1>2 DEF FraudInv, OffsetTypes
  <1>4. Accounted' = Accounted
    <2>1. out'.buffer = buffer /\ out'.log = out.log BY <1>1
    <2> QED BY <1>1, <1>2, <2>1 DEF Accounted
  <1>5. PodTypes' BY <1>1 DEF FraudInv, PodTypes, podVars
  <1>6. WorkedOff' BY <1>1, <1>4 DEF FraudInv, WorkedOff, InHand, podVars
  <1> QED BY <1>3, <1>5, <1>6 DEF FraudInv

-------------------------------------------------------------------------------
(* The theorems.                                                            *)

\* The invariant holds in the initial states.
LEMMA FraudInvInit == FraudInit => FraudInv
  <1> SUFFICES ASSUME FraudInit PROVE FraudInv OBVIOUS
  <1>1. AtRest \in ThreadRecord BY DEF AtRest, ThreadRecord, ThreadSteps, AllModes
  <1>2. PodTypes
    BY <1>1 DEF FraudInit, PodTypes, AllModes
  <1>3. <<>> \in Seq(CardEvents) /\ Len(<<>>) = 0 OBVIOUS
  <1>4. OffsetTypes
    BY <1>3, FraudBounds DEF FraudInit, OffsetTypes
  <1>5. ~InHand BY DEF FraudInit, InHand, AtRest, PodThreads
  <1>6. WorkedOff BY <1>5 DEF FraudInit, WorkedOff
  <1> QED BY <1>2, <1>4, <1>6 DEF FraudInv

\* Every step of the pipeline keeps the invariant.
LEMMA FraudInvNext == FraudInv /\ [FraudNext]_fraudVars => FraudInv'
  <1> SUFFICES ASSUME FraudInv, [FraudNext]_fraudVars PROVE FraudInv' OBVIOUS
  <1>0. OffsetTypes /\ PodTypes /\ WorkedOff BY DEF FraudInv
  <1>1. ASSUME NEW m \in FraudModes \cup {Normal}, Patch(m) PROVE FraudInv'
    <2>1. PodTypes' BY <1>0, <1>1 DEF Patch, PodTypes, podVars, AllModes
    <2> QED BY <1>1, <2>1, PodStep DEF Patch, podVars, InHand
  <1>2. CASE Sync
    <2>1. configMap.key \in AllModes BY <1>0 DEF PodTypes
    <2>2. PodTypes' BY <1>0, <1>2, <2>1 DEF Sync, PodTypes, podVars
    <2> QED BY <1>2, <2>2, PodStep DEF Sync, podVars, InHand
  <1>3. CASE TtlPasses
    <2>1. PodTypes' BY <1>0, <1>3 DEF TtlPasses, PodTypes
    <2> QED BY <1>3, <2>1, PodStep DEF TtlPasses, InHand
  <1>4. CASE TenSeconds
    <2>1. PodTypes' BY <1>0, <1>4 DEF TenSeconds, PodTypes
    <2> QED BY <1>4, <2>1, PodStep DEF TenSeconds, InHand
  <1>5. CASE TickerStep
    BY <1>5, GetModeKeeps, WorkKeeps, NewPodKeeps DEF TickerStep, TickerExits, PodThreads
  <1>6. CASE HttpStep
    BY <1>6, GetModeKeeps, WorkKeeps DEF HttpStep, PodThreads
  <1>7. CASE LoopStep
    <2>1. CASE Paused
      <3>1. /\ thread["loop"].pc = "polling" /\ Goto("loop", "rest")
            /\ UNCHANGED <<configMap, fault, since, kafkaVars>>
        BY <2>1 DEF Paused, ThreadAt
      <3>2. thread' \in [PodThreads -> ThreadRecord] /\ thread'["loop"].pc = "rest"
        BY <1>0, <3>1, GotoFacts DEF ThreadSteps, PodThreads
      <3>3. PodTypes' BY <1>0, <3>1, <3>2 DEF PodTypes
      <3> QED BY <3>1, <3>2, <3>3, PodStep DEF InHand
    <2> QED BY <1>7, <2>1, GetModeKeeps, PollKeeps, ScoreKeeps, CommitKeeps DEF LoopStep, PodThreads
  <1>8. CASE PodKilled BY <1>8, NewPodKeeps DEF PodKilled
  <1>9. CASE Authorize
    <2>1. /\ authorized.end < MaxCards /\ authorized' = [authorized EXCEPT !.end = @ + 1]
          /\ UNCHANGED <<configMap, podVars, evicted, out, failed, dropped, bank>>
      BY <1>9 DEF Authorize
    <2>2. /\ authorized'.end = authorized.end + 1 /\ authorized'.position = authorized.position
          /\ authorized'.committed = authorized.committed
          /\ authorized' \in [end : 0 .. MaxCards, position : Nat, committed : Nat]
          /\ authorized \in [end : 0 .. MaxCards, position : Nat, committed : Nat]
      BY <1>0, <2>1, FraudBounds DEF OffsetTypes
    <2>3. OffsetTypes' BY <1>0, <2>1, <2>2 DEF OffsetTypes
    <2>4. PodTypes' /\ WorkedOff'
      BY <1>0, <2>1, <2>2 DEF PodTypes, WorkedOff, Accounted, InHand, podVars
    <2> QED BY <2>3, <2>4 DEF FraudInv
  <1>10. CASE Evict
    BY <1>0, <1>10 DEF Evict, FraudInv, OffsetTypes, PodTypes, WorkedOff, Accounted, InHand, podVars
  <1>11. CASE Delivered \/ DeliveredUnheard \/ Expired
    BY <1>11, DeliveredKeeps, UnheardKeeps, ExpiredKeeps
  <1>12. CASE HandleScored \/ BankRestarts
    <2>1. UNCHANGED <<configMap, podVars, authorized, evicted, out, failed, dropped>>
      BY <1>12 DEF HandleScored, BankRestarts
    <2>2. /\ bank' \in [position : Nat, committed : Nat] /\ bank'.committed <= bank'.position
          /\ bank'.position <= Len(out.log)
      <3>1. Len(out.log) \in Nat /\ bank.position \in Nat /\ bank.committed \in Nat
        BY <1>0 DEF OffsetTypes
      <3>2. CASE HandleScored BY <1>0, <3>1, <3>2 DEF HandleScored, OffsetTypes
      <3>3. CASE BankRestarts BY <1>0, <3>1, <3>3 DEF BankRestarts, OffsetTypes
      <3> QED BY <1>12, <3>2, <3>3
    <2>3. OffsetTypes' BY <1>0, <2>1, <2>2 DEF OffsetTypes
    <2>4. PodTypes' /\ WorkedOff'
      BY <1>0, <2>1 DEF PodTypes, WorkedOff, Accounted, InHand, podVars
    <2> QED BY <2>3, <2>4 DEF FraudInv
  <1>13. CASE UNCHANGED fraudVars
    BY <1>0, <1>13 DEF fraudVars, FraudInv, OffsetTypes, PodTypes, WorkedOff, Accounted, InHand
  <1> QED
    BY <1>1, <1>2, <1>3, <1>4, <1>5, <1>6, <1>7, <1>8, <1>9, <1>10, <1>11, <1>12, <1>13 DEF FraudNext

\* The fraud pipeline's invariant holds in every reachable state.
THEOREM FraudInvariance == FraudSpec => []FraudInv
  BY FraudInvInit, FraudInvNext, PTL DEF FraudSpec

\* The group is given up or it is not.
Membership == evicted \in BOOLEAN

\* A consumer is a member of the group or was evicted.
LEMMA MembershipNext == Membership /\ [FraudNext]_fraudVars => Membership'
  <1> SUFFICES ASSUME Membership, [FraudNext]_fraudVars PROVE Membership' OBVIOUS
  <1> USE DEF Membership
  <1>1. CASE UNCHANGED kafkaVars \/ UNCHANGED fraudVars BY <1>1 DEF kafkaVars, fraudVars
  <1>2. ASSUME NEW t \in PodThreads, GetMode(t) \/ Work(t) PROVE Membership'
    BY <1>1, <1>2 DEF GetMode, AskMode, StoreMode, Work
  <1>3. CASE TickerStep BY <1>2, <1>3 DEF TickerStep, TickerExits, NewPod, PodThreads
  <1>4. CASE HttpStep BY <1>2, <1>4 DEF HttpStep, PodThreads
  <1>5. CASE LoopStep
    BY <1>1, <1>2, <1>5 DEF LoopStep, Paused, Poll, PublishScore, PublishRaises, Commit, PodThreads
  <1>6. CASE \/ PodKilled \/ Authorize \/ Evict
             \/ Delivered \/ DeliveredUnheard \/ Expired \/ HandleScored \/ BankRestarts
    BY <1>6 DEF PodKilled, NewPod, Authorize, Evict, Delivered, DeliveredUnheard, Expired,
       HandleScored, BankRestarts
  <1>7. ASSUME NEW m \in FraudModes \cup {Normal}, Patch(m) PROVE Membership'
    BY <1>1, <1>7 DEF Patch
  <1>8. CASE Sync \/ TtlPasses \/ TenSeconds BY <1>1, <1>8 DEF Sync, TtlPasses, TenSeconds
  <1> QED BY <1>1, <1>3, <1>4, <1>5, <1>6, <1>7, <1>8 DEF FraudNext

\* Whatever is fair, the steps of the pipeline keep these.
LEMMA FraudSafety ==
    FraudInit /\ [][FraudNext]_fraudVars => [](FraudTypeOK /\ CommittedIsAccounted)
  <1>1. FraudInit => Membership BY DEF FraudInit, Membership
  <1>2. FraudInv /\ Membership => FraudTypeOK
    <2> SUFFICES ASSUME FraudInv, Membership PROVE FraudTypeOK OBVIOUS
    <2>1. PodTypes /\ OffsetTypes BY DEF FraudInv
    <2> QED BY <2>1 DEF PodTypes, OffsetTypes, FraudTypeOK, ThreadRecord, ThreadSteps, AllModes, Membership
  <1>3. FraudInv => CommittedIsAccounted
    <2> SUFFICES ASSUME FraudInv PROVE CommittedIsAccounted OBVIOUS
    <2>1. /\ authorized.committed \in Nat /\ authorized.position \in Nat
          /\ authorized.committed <= authorized.position
      BY DEF FraudInv, OffsetTypes
    <2>2. 1 .. authorized.committed \subseteq Accounted
      BY <2>1 DEF FraudInv, WorkedOff
    <2> QED BY <2>2 DEF CommittedIsAccounted, Accounted
  <1> QED
    BY <1>1, <1>2, <1>3, FraudInvInit, FraudInvNext, MembershipNext, PTL

\* Every variable of the fraud pipeline keeps its type.
THEOREM FraudTypeSafety == FraudSpec => []FraudTypeOK
  BY FraudSafety, PTL DEF FraudSpec

\* Every card the group committed was published, is in the producer's buffer,
\* raised in its publish, or left the buffer for nowhere, at a restart or at the
\* delivery timeout: no commit passes a card the loop has not handled, for any
\* number of cards, pauses, evictions, restarts and messages given up.
THEOREM CommitNeverAhead == FraudSpec => []CommittedIsAccounted
  BY FraudSafety, PTL DEF FraudSpec

-------------------------------------------------------------------------------
(***************************************************************************)
(* ChaosFaults. DrillOfNow bounds how old a cached mode, and a mode a      *)
(* message was sent under, can be; OwnRow ties the probe's row to the step *)
(* the probe is at.                                                        *)
(***************************************************************************)

\* The modes of notifications, and the rows of the faults table.
NotificationModes == VALID_MODES["notifications"]
AnyMode == CloudModes \cup {NoFault}
Row == [mode : AnyMode, until : Nat, by : {"user", "probe", NoFault}]

\* The clock and the faults table.
TableTypes ==
    /\ now \in 0 .. MaxTime
    /\ table \in [Targets -> Row]
    /\ \A s \in Targets : table[s] = NoRow \/ table[s].mode \in VALID_MODES[s]

\* What the Function knows and sent.
BatchRecord == [mode : NotificationModes \cup {NoFault}, at : Int, failed : Nat]

\* The types of what notifications caches and has sent, and of the history.
BatchTypes ==
    /\ cache \in BatchRecord /\ cache.at <= now
    /\ sent \in BatchRecord /\ sent.at <= now
    /\ active \in [NotificationModes -> Int]

\* A mode that is active has been so until now; a mode was active when it was
\* cached, and less than a lifetime of the cache before it was sent.
DrillOfNow ==
    /\ \A m \in NotificationModes : Current("notifications") = m => active[m] = now
    /\ \A m \in NotificationModes : active[m] <= now
    /\ cache.mode # NoFault /\ cache.failed = 0 => cache.at <= active[cache.mode]
    /\ sent.mode # NoFault /\ sent.failed = 0 => sent.at < active[sent.mode] + Ttl

\* Together these are inductive.
BatchInv == TableTypes /\ BatchTypes /\ DrillOfNow

\* The steps of the probe, and its record.
ProbeSteps == {"idle", "wait", "judge", "clear", "over"}
ProbeRecord == [pc : ProbeSteps, on : Targets \cup {NoFault}, failed : BOOLEAN, broken : BOOLEAN]

\* A row of the probe is one it will clear, or one of its calls broke.
OwnRow ==
    /\ probe \in ProbeRecord
    /\ \A s \in Targets : table[s].by = "probe" =>
          \/ probe.pc \in {"wait", "judge", "clear"} /\ probe.on = s
          \/ probe.broken

-------------------------------------------------------------------------------
(* Lemmas.                                                                  *)

\* The modes of a target are modes, and none is the absence of a fault.
LEMMA TargetFacts ==
    /\ Targets = {"payments", "ledger", "auth", "notifications"}
    /\ NotificationModes = {"provider-429", "backlog"}
    /\ \A s \in Targets : VALID_MODES[s] \subseteq CloudModes
    /\ NoFault \notin CloudModes /\ NotificationModes \subseteq CloudModes
  <1>1. Targets = {"payments", "ledger", "auth", "notifications"}
    BY DEF Targets, VALID_MODES
  <1>2. NotificationModes = {"provider-429", "backlog"}
    BY DEF NotificationModes, VALID_MODES
  <1>3. \A s \in Targets : VALID_MODES[s] \subseteq CloudModes
    BY DEF CloudModes
  <1>4. NoFault \notin CloudModes
    <2> SUFFICES ASSUME NEW s \in Targets PROVE NoFault \notin VALID_MODES[s]
      BY DEF CloudModes
    <2> QED BY <1>1 DEF VALID_MODES, NoFault
  <1>5. NotificationModes \subseteq CloudModes
    BY <1>1, <1>3 DEF NotificationModes
  <1> QED BY <1>1, <1>2, <1>3, <1>4, <1>5

\* A row that is put, whoever puts it.
LEMMA PutRowFacts ==
    ASSUME TableTypes, NEW s \in Targets, NEW m \in VALID_MODES[s], NEW d \in Durations,
           NEW who \in {"user", "probe"}, PutRow(s, m, d, who), now' = now
    PROVE  /\ TableTypes' /\ table'[s].by = who
           /\ \A r \in Targets : r # s => table'[r] = table[r]
  <1> DEFINE row == [mode |-> m, until |-> now + d, by |-> who]
  <1>1. row \in Row /\ row.mode = m /\ row.by = who
    BY TargetFacts, ChaosBounds DEF Row, AnyMode, TableTypes
  <1>2. table' = [table EXCEPT ![s] = row] BY DEF PutRow
  <1> HIDE DEF row
  <1> QED BY <1>1, <1>2 DEF TableTypes

\* A row that is deleted.
LEMMA DeleteRowFacts ==
    ASSUME TableTypes, NEW s \in Targets, table' = [table EXCEPT ![s] = NoRow], now' = now
    PROVE  /\ TableTypes' /\ table'[s] = NoRow
           /\ \A r \in Targets : r # s => table'[r] = table[r]
  <1>1. NoRow \in Row BY DEF NoRow, Row, AnyMode
  <1> QED BY <1>1 DEF TableTypes

\* What a step does to the clock and the table.
LEMMA TableStep ==
    ASSUME TableTypes, [ChaosNext]_chaosVars
    PROVE  /\ TableTypes' /\ now <= now'
           /\ UNCHANGED <<now, table>> \/ (UNCHANGED <<cache, sent>> /\ Noted)
  <1>0. now \in Int BY ChaosBounds DEF TableTypes
  <1>1. CASE Passes BY <1>1, ChaosBounds DEF Passes, TableTypes
  <1>2. ASSUME NEW s \in Targets, NEW m \in VALID_MODES[s], NEW d \in Durations,
               set_fault(s, m, d) \/ ProbeSets(s, m, d) \/ ProbeSetLost(s, m, d)
        PROVE  /\ TableTypes' /\ now <= now' /\ UNCHANGED <<cache, sent>> /\ Noted
    <2>1. now' = now /\ UNCHANGED <<cache, sent>> /\ Noted
      BY <1>2 DEF set_fault, ProbeSets, ProbeSetLost
    <2>2. \E who \in {"user", "probe"} : PutRow(s, m, d, who)
      BY <1>2 DEF set_fault, ProbeSets, ProbeSetLost
    <2> QED BY <2>1, <2>2, PutRowFacts DEF TableTypes
  <1>3. ASSUME NEW s \in Targets, clear_fault(s)
        PROVE  /\ TableTypes' /\ now <= now' /\ UNCHANGED <<cache, sent>> /\ Noted
    <2>1. /\ now' = now /\ UNCHANGED <<cache, sent>> /\ Noted
          /\ table' = [table EXCEPT ![s] = NoRow]
      BY <1>3 DEF clear_fault
    <2>2. TableTypes' BY <2>1, DeleteRowFacts
    <2> QED BY <1>0, <2>1, <2>2
  <1>4. CASE ProbeClears
    <2>1. UNCHANGED <<now, cache, sent>> /\ Noted BY <1>4 DEF ProbeClears
    <2>2. TableTypes'
      <3>1. table' = [table EXCEPT ![probe.on] = NoRow] BY <1>4 DEF ProbeClears
      <3>2. CASE probe.on \in Targets BY <2>1, <3>1, <3>2, DeleteRowFacts
      <3>3. CASE probe.on \notin Targets BY <2>1, <3>1, <3>3 DEF TableTypes
      <3> QED BY <3>2, <3>3
    <2> QED BY <2>1, <2>2 DEF TableTypes
  <1>5. CASE UNCHANGED <<now, table>>
    <2>1. TableTypes' BY <1>5 DEF TableTypes
    <2> QED BY <1>0, <1>5, <2>1
  <1>6. ASSUME NEW t \in Txns, PaymentsRun(t) \/ LedgerRun(t) PROVE UNCHANGED <<now, table>>
    BY <1>6 DEF PaymentsRun, LedgerRun
  <1>7. CASE BatchFromCache \/ BatchAfterPoll \/ BatchAfterFailedPoll \/ FunctionRestarts
    BY <1>5, <1>7 DEF BatchFromCache, BatchAfterPoll, BatchAfterFailedPoll, FunctionRestarts, Batch
  <1>8. CASE ProbeWaited \/ ProbeJudged \/ ProbeBreaks
    BY <1>5, <1>8 DEF ProbeWaited, ProbeJudged, ProbeBreaks
  <1>9. CASE UNCHANGED chaosVars BY <1>5, <1>9 DEF chaosVars
  <1> QED BY <1>1, <1>2, <1>3, <1>4, <1>5, <1>6, <1>7, <1>8, <1>9 DEF ChaosNext

\* The mode that is active is one of the service's, or none.
LEMMA CurrentIsAMode ==
    ASSUME TableTypes
    PROVE  Current("notifications") \in NotificationModes \cup {NoFault}
  <1>1. "notifications" \in Targets BY TargetFacts
  <1>2. table["notifications"] = NoRow \/ table["notifications"].mode \in NotificationModes
    BY <1>1 DEF TableTypes, NotificationModes
  <1> QED BY <1>2 DEF Current, NoRow

\* While clock and table move, nothing that was sent becomes too late.
LEMMA NotedKeeps ==
    ASSUME BatchInv, TableTypes', now <= now', UNCHANGED <<cache, sent>>, Noted
    PROVE  BatchInv'
  <1>1. now \in Int /\ now' \in Int BY ChaosBounds DEF BatchInv, TableTypes
  <1>2. active \in [NotificationModes -> Int] BY DEF BatchInv, BatchTypes
  <1>3. active' = [m \in NotificationModes |-> IF Current("notifications")' = m THEN now' ELSE active[m]]
    BY <1>2 DEF Noted
  <1>4. active' \in [NotificationModes -> Int] BY <1>1, <1>2, <1>3
  <1>5. \A m \in NotificationModes : active[m] <= active'[m] /\ active'[m] <= now'
    BY <1>1, <1>2, <1>3 DEF BatchInv, DrillOfNow
  <1>6. \A m \in NotificationModes : Current("notifications")' = m => active'[m] = now'
    BY <1>3
  <1>7. BatchTypes' BY <1>1, <1>4 DEF BatchInv, BatchTypes, BatchRecord
  <1>8. ASSUME cache.mode # NoFault, cache.failed = 0 PROVE cache.at <= active'[cache.mode]
    <2>1. cache.mode \in NotificationModes /\ cache.at \in Int
      BY <1>8 DEF BatchInv, BatchTypes, BatchRecord
    <2>2. cache.at <= active[cache.mode] BY <1>8 DEF BatchInv, DrillOfNow
    <2> QED BY <1>2, <1>4, <1>5, <2>1, <2>2
  <1>9. ASSUME sent.mode # NoFault, sent.failed = 0 PROVE sent.at < active'[sent.mode] + Ttl
    <2>1. sent.mode \in NotificationModes /\ sent.at \in Int
      BY <1>9 DEF BatchInv, BatchTypes, BatchRecord
    <2>2. sent.at < active[sent.mode] + Ttl BY <1>9 DEF BatchInv, DrillOfNow
    <2> QED BY <1>2, <1>4, <1>5, <2>1, <2>2 DEF Ttl
  <1>10. DrillOfNow' BY <1>5, <1>6, <1>8, <1>9 DEF DrillOfNow
  <1> QED BY <1>7, <1>10 DEF BatchInv

\* A batch under a record whose mode was active when it was cached, less than a
\* lifetime ago.
LEMMA BatchKeeps ==
    ASSUME BatchInv, NEW c \in BatchRecord, Batch(c), c.at <= now, now - c.at < Ttl,
           c.mode # NoFault /\ c.failed = 0 => c.at <= active[c.mode]
    PROVE  BatchInv'
  <1>1. now \in Int /\ active \in [NotificationModes -> Int] /\ c.at \in Int
    BY ChaosBounds DEF BatchInv, TableTypes, BatchTypes, BatchRecord
  <1>2. cache' = c /\ sent' = [c EXCEPT !.at = now] /\ UNCHANGED <<now, table, active>>
    BY DEF Batch
  <1>3. sent' \in BatchRecord /\ sent'.mode = c.mode /\ sent'.failed = c.failed /\ sent'.at = now
    BY <1>1, <1>2 DEF BatchRecord
  <1>4. TableTypes' BY <1>2 DEF BatchInv, TableTypes
  <1>5. BatchTypes' BY <1>1, <1>2, <1>3 DEF BatchInv, BatchTypes
  <1>6. ASSUME c.mode # NoFault, c.failed = 0 PROVE now < active[c.mode] + Ttl
    <2>1. c.mode \in NotificationModes BY <1>6 DEF BatchRecord
    <2> QED BY <1>1, <1>6, <2>1 DEF Ttl
  <1>7. Current("notifications")' = Current("notifications") BY <1>2 DEF Current
  <1>8. DrillOfNow' BY <1>2, <1>3, <1>6, <1>7 DEF BatchInv, DrillOfNow
  <1> QED BY <1>4, <1>5, <1>8 DEF BatchInv

\* Every step keeps the invariant.
LEMMA BatchInvNext == BatchInv /\ [ChaosNext]_chaosVars => BatchInv'
  <1> SUFFICES ASSUME BatchInv, [ChaosNext]_chaosVars PROVE BatchInv' OBVIOUS
  <1>0. now \in Int /\ cache \in BatchRecord /\ cache.at <= now
    BY ChaosBounds DEF BatchInv, TableTypes, BatchTypes
  <1>1. CASE UNCHANGED <<cache, sent>> /\ Noted
    BY <1>1, TableStep, NotedKeeps DEF BatchInv
  <1>2. CASE UNCHANGED <<now, table, cache, sent, active>>
    BY <1>2 DEF BatchInv, TableTypes, BatchTypes, DrillOfNow, Current
  <1>3. CASE BatchFromCache
    BY <1>0, <1>3, BatchKeeps DEF BatchFromCache, CacheFresh, BatchInv, DrillOfNow
  <1>4. CASE BatchAfterPoll
    <2> DEFINE c == [mode |-> Current("notifications"), at |-> now, failed |-> 0]
    <2>1. c \in BatchRecord /\ c.at = now /\ c.mode = Current("notifications") /\ Batch(c)
      BY <1>0, <1>4, CurrentIsAMode DEF BatchInv, BatchRecord, BatchAfterPoll
    <2> HIDE DEF c
    <2>2. c.mode # NoFault => active[c.mode] = now
      BY <2>1 DEF BatchInv, DrillOfNow, BatchRecord
    <2> QED BY <1>0, <2>1, <2>2, BatchKeeps DEF Ttl
  <1>5. CASE BatchAfterFailedPoll
    <2> DEFINE c == [cache EXCEPT !.at = now, !.failed = @ + 1]
    <2> DEFINE n == cache.failed + 1
    <2>1. n \in Nat /\ n # 0 /\ c = [cache EXCEPT !.at = now, !.failed = n]
      BY <1>0 DEF BatchRecord
    <2>2. c \in BatchRecord /\ c.at = now /\ c.failed # 0
      <3> HIDE DEF n
      <3> QED BY <1>0, <2>1 DEF BatchRecord
    <2>3. Batch(c) BY <1>5 DEF BatchAfterFailedPoll
    <2> HIDE DEF c
    <2> QED BY <1>0, <2>2, <2>3, BatchKeeps DEF Ttl
  <1>6. CASE FunctionRestarts
    <2>1. cache' = NotPolled /\ UNCHANGED <<now, table, sent, active>>
      BY <1>6 DEF FunctionRestarts
    <2>2. NotPolled \in BatchRecord /\ NotPolled.mode = NoFault /\ NotPolled.at <= 0
      BY DEF NotPolled, BatchRecord, Never, Ttl
    <2>3. now >= 0 BY ChaosBounds DEF BatchInv, TableTypes
    <2>4. NotPolled.at \in Int BY <2>2 DEF BatchRecord
    <2>5. BatchTypes' /\ DrillOfNow'
      BY <1>0, <2>1, <2>2, <2>3, <2>4 DEF BatchInv, BatchTypes, DrillOfNow, Current
    <2> QED BY <2>1, <2>5 DEF BatchInv, TableTypes
  <1>7. ASSUME NEW s \in Targets, NEW m \in VALID_MODES[s], NEW d \in Durations,
               set_fault(s, m, d) \/ ProbeSets(s, m, d) \/ ProbeSetLost(s, m, d)
        PROVE  UNCHANGED <<cache, sent>> /\ Noted
    BY <1>7 DEF set_fault, ProbeSets, ProbeSetLost
  <1>8. ASSUME NEW s \in Targets, clear_fault(s) PROVE UNCHANGED <<cache, sent>> /\ Noted
    BY <1>8 DEF clear_fault
  <1>9. CASE ProbeClears \/ Passes BY <1>1, <1>9 DEF ProbeClears, Passes
  <1>10. ASSUME NEW t \in Txns, PaymentsRun(t) \/ LedgerRun(t)
         PROVE  UNCHANGED <<now, table, cache, sent, active>>
    BY <1>10 DEF PaymentsRun, LedgerRun
  <1>11. CASE ProbeWaited \/ ProbeJudged \/ ProbeBreaks
    BY <1>2, <1>11 DEF ProbeWaited, ProbeJudged, ProbeBreaks
  <1>12. CASE UNCHANGED chaosVars BY <1>2, <1>12 DEF chaosVars
  <1> QED
    BY <1>1, <1>2, <1>3, <1>4, <1>5, <1>6, <1>7, <1>8, <1>9, <1>10, <1>11, <1>12 DEF ChaosNext

\* It holds in the initial states.
LEMMA BatchInvInit == ChaosInit => BatchInv
  <1> SUFFICES ASSUME ChaosInit PROVE BatchInv OBVIOUS
  <1>1. NoRow \in Row BY DEF NoRow, Row, AnyMode
  <1>2. TableTypes BY <1>1, ChaosBounds DEF ChaosInit, TableTypes
  <1>3. NoFault \notin NotificationModes BY TargetFacts
  <1>4. /\ cache.mode = NoFault /\ cache.at <= 0 /\ cache.at \in Int /\ cache \in BatchRecord
        /\ sent.mode = NoFault /\ sent.at = 0 /\ sent \in BatchRecord
    BY DEF ChaosInit, NotPolled, BatchRecord, Never, Ttl
  <1>5. active = [m \in NotificationModes |-> -2] /\ now = 0
    BY DEF ChaosInit, NotificationModes, Never, Ttl
  <1>6. Current("notifications") = NoFault
    BY TargetFacts DEF ChaosInit, Current, NoRow
  <1>7. BatchTypes BY <1>4, <1>5 DEF BatchTypes
  <1>8. DrillOfNow BY <1>3, <1>4, <1>5, <1>6 DEF DrillOfNow
  <1> QED BY <1>2, <1>7, <1>8 DEF BatchInv

-------------------------------------------------------------------------------
(* The probe.                                                               *)

\* The probe's claim holds in the initial states.
LEMMA OwnRowInit == ChaosInit => OwnRow
  BY TargetFacts DEF ChaosInit, OwnRow, NotBegun, NoRow, ProbeRecord, ProbeSteps, NoFault

\* A step of the probe that leaves its service and what broke as it is.
LEMMA ProbeMoves ==
    ASSUME OwnRow, NEW step \in ProbeSteps, NEW bad \in BOOLEAN,
           probe' = [probe EXCEPT !.pc = step, !.failed = bad]
    PROVE  /\ probe' \in ProbeRecord /\ probe'.pc = step /\ probe'.on = probe.on
           /\ probe.broken => probe'.broken
  <1>1. probe \in ProbeRecord BY DEF OwnRow
  <1>2. probe' \in ProbeRecord BY <1>1 DEF ProbeRecord
  <1>3. probe'.pc = step /\ probe'.on = probe.on BY <1>1 DEF ProbeRecord
  <1>4. probe.broken => probe'.broken BY <1>1 DEF ProbeRecord
  <1> QED BY <1>2, <1>3, <1>4

\* Every step keeps it.
LEMMA OwnRowNext == TableTypes /\ OwnRow /\ [ChaosNext]_chaosVars => OwnRow'
  <1> SUFFICES ASSUME TableTypes, OwnRow, [ChaosNext]_chaosVars PROVE OwnRow' OBVIOUS
  <1>1. CASE UNCHANGED <<table, probe>> BY <1>1 DEF OwnRow
  <1>2. ASSUME NEW s \in Targets, NEW m \in VALID_MODES[s], NEW d \in Durations, set_fault(s, m, d)
        PROVE  OwnRow'
    <2>1. table'[s].by = "user" /\ \A r \in Targets : r # s => table'[r] = table[r]
      BY <1>2, PutRowFacts DEF set_fault
    <2> QED BY <1>2, <2>1 DEF set_fault, OwnRow
  <1>3. ASSUME NEW s \in Targets, NEW m \in VALID_MODES[s], NEW d \in Durations, ProbeSets(s, m, d)
        PROVE  OwnRow'
    <2>1. \A r \in Targets : r # s => table'[r] = table[r]
      BY <1>3, PutRowFacts DEF ProbeSets
    <2>2. probe' = [NotBegun EXCEPT !.pc = "wait", !.on = s] /\ probe = NotBegun
      BY <1>3 DEF ProbeSets
    <2>3. probe' \in ProbeRecord /\ probe'.pc = "wait" /\ probe'.on = s
      BY <2>2 DEF NotBegun, ProbeRecord, ProbeSteps
    <2>4. \A r \in Targets : table[r].by # "probe"
      BY <2>2 DEF OwnRow, NotBegun
    <2> QED BY <2>1, <2>3, <2>4 DEF OwnRow
  <1>4. ASSUME NEW s \in Targets, NEW m \in VALID_MODES[s], NEW d \in Durations, ProbeSetLost(s, m, d)
        PROVE  OwnRow'
    <2>1. probe' = [pc |-> "over", on |-> s, failed |-> TRUE, broken |-> TRUE]
      BY <1>4 DEF ProbeSetLost
    <2>2. probe' \in ProbeRecord /\ probe'.broken BY <2>1 DEF ProbeRecord, ProbeSteps
    <2> QED BY <2>2 DEF OwnRow
  <1>5. ASSUME NEW s \in Targets, clear_fault(s) PROVE OwnRow'
    <2>1. table'[s] = NoRow /\ \A r \in Targets : r # s => table'[r] = table[r]
      BY <1>5, DeleteRowFacts DEF clear_fault
    <2>2. table'[s].by # "probe" BY <2>1 DEF NoRow, NoFault
    <2> QED BY <1>5, <2>1, <2>2 DEF clear_fault, OwnRow
  <1>6. CASE ProbeWaited
    <2>1. PICK bad \in BOOLEAN : probe' = [probe EXCEPT !.pc = IF bad THEN "clear" ELSE "judge", !.failed = bad]
      BY <1>6 DEF ProbeWaited
    <2> DEFINE step == IF bad THEN "clear" ELSE "judge"
    <2>2. step \in {"judge", "clear"} OBVIOUS
    <2>3. probe' = [probe EXCEPT !.pc = step, !.failed = bad] BY <2>1
    <2> HIDE DEF step
    <2>4. /\ probe' \in ProbeRecord /\ probe'.pc \in {"judge", "clear"} /\ probe'.on = probe.on
          /\ probe.broken => probe'.broken
      BY <2>2, <2>3, ProbeMoves DEF ProbeSteps
    <2> QED BY <1>6, <2>4 DEF ProbeWaited, OwnRow
  <1>7. CASE ProbeJudged
    <2>1. PICK bad \in BOOLEAN : probe' = [probe EXCEPT !.pc = "clear", !.failed = bad]
      BY <1>7 DEF ProbeJudged
    <2>2. /\ probe' \in ProbeRecord /\ probe'.pc = "clear" /\ probe'.on = probe.on
          /\ probe.broken => probe'.broken
      BY <2>1, ProbeMoves DEF ProbeSteps
    <2> QED BY <1>7, <2>2 DEF ProbeJudged, OwnRow
  <1>8. CASE ProbeClears
    <2>1. /\ probe.pc = "clear" /\ table' = [table EXCEPT ![probe.on] = NoRow]
          /\ probe' = [probe EXCEPT !.pc = "over"] /\ now' = now
      BY <1>8 DEF ProbeClears
    <2>2. probe' \in ProbeRecord /\ (probe.broken => probe'.broken)
      <3>1. probe \in ProbeRecord BY DEF OwnRow
      <3>2. probe' \in ProbeRecord BY <2>1, <3>1 DEF ProbeRecord, ProbeSteps
      <3>3. probe.broken => probe'.broken BY <2>1, <3>1 DEF ProbeRecord
      <3> QED BY <3>2, <3>3
    <2>3. ASSUME NEW s \in Targets, table'[s].by = "probe" PROVE probe'.broken
      <3>1. s # probe.on /\ table'[s] = table[s]
        BY <2>1, <2>3 DEF TableTypes, NoRow, NoFault
      <3> QED BY <2>1, <2>2, <2>3, <3>1 DEF OwnRow
    <2> QED BY <2>2, <2>3 DEF OwnRow
  <1>9. CASE ProbeBreaks
    <2>1. probe' = [probe EXCEPT !.pc = "over", !.failed = TRUE, !.broken = TRUE]
      BY <1>9 DEF ProbeBreaks
    <2>2. probe \in ProbeRecord BY DEF OwnRow
    <2>3. probe' \in ProbeRecord BY <2>1, <2>2 DEF ProbeRecord, ProbeSteps
    <2>4. probe'.broken BY <2>1, <2>2 DEF ProbeRecord
    <2> QED BY <2>3, <2>4 DEF OwnRow
  <1>10. ASSUME NEW t \in Txns, PaymentsRun(t) \/ LedgerRun(t) PROVE UNCHANGED <<table, probe>>
    BY <1>10 DEF PaymentsRun, LedgerRun
  <1>11. CASE BatchFromCache \/ BatchAfterPoll \/ BatchAfterFailedPoll \/ FunctionRestarts
    BY <1>1, <1>11 DEF BatchFromCache, BatchAfterPoll, BatchAfterFailedPoll, FunctionRestarts, Batch
  <1>12. CASE Passes BY <1>1, <1>12 DEF Passes
  <1>13. CASE UNCHANGED chaosVars BY <1>1, <1>13 DEF chaosVars
  <1> QED
    BY <1>1, <1>2, <1>3, <1>4, <1>5, <1>6, <1>7, <1>8, <1>9, <1>10, <1>11, <1>12, <1>13 DEF ChaosNext

-------------------------------------------------------------------------------
(* The authorisations, and the types of all.                                *)

\* The types of the authorisations.
TxnTypes == txn \in [Txns -> [at : {"unsent", "queue", "posted", "dead"}, receives : 0 .. MaxReceive]]

\* Every step keeps them.
LEMMA TxnTypesNext == TxnTypes /\ [ChaosNext]_chaosVars => TxnTypes'
  <1> SUFFICES ASSUME TxnTypes, [ChaosNext]_chaosVars PROVE TxnTypes' OBVIOUS
  <1> DEFINE TxnRecord == [at : {"unsent", "queue", "posted", "dead"}, receives : 0 .. MaxReceive]
  <1>1. CASE UNCHANGED txn BY <1>1 DEF TxnTypes
  <1>2. ASSUME NEW t \in Txns, PaymentsRun(t) PROVE TxnTypes'
    BY <1>2 DEF PaymentsRun, TxnTypes
  <1>3. ASSUME NEW t \in Txns, LedgerRun(t) PROVE TxnTypes'
    <2>1. txn[t] \in TxnRecord BY DEF TxnTypes
    <2>2. CASE txn[t].receives = MaxReceive
      BY <1>3, <2>2 DEF LedgerRun, TxnTypes
    <2>3. CASE txn[t].receives # MaxReceive
      <3> DEFINE at == IF Current("ledger") = "lag" THEN "queue" ELSE "posted"
                 n == txn[t].receives + 1
                 new == [txn[t] EXCEPT !.receives = n, !.at = at]
      <3>1. txn' = [txn EXCEPT ![t] = new] BY <1>3, <2>3 DEF LedgerRun
      <3>2. n \in 0 .. MaxReceive /\ at \in {"queue", "posted"} BY <2>1, <2>3, ChaosBounds
      <3> HIDE DEF at, n
      <3>3. new \in TxnRecord BY <2>1, <3>2
      <3> HIDE DEF new
      <3> QED BY <3>1, <3>3 DEF TxnTypes
    <2> QED BY <2>2, <2>3
  <1>4. ASSUME NEW s \in Targets, NEW m \in VALID_MODES[s], NEW d \in Durations,
               set_fault(s, m, d) \/ ProbeSets(s, m, d) \/ ProbeSetLost(s, m, d) \/ clear_fault(s)
        PROVE  UNCHANGED txn
    BY <1>4 DEF set_fault, ProbeSets, ProbeSetLost, clear_fault
  <1>5. ASSUME NEW s \in Targets, clear_fault(s) PROVE UNCHANGED txn BY <1>5 DEF clear_fault
  <1>6. CASE BatchFromCache \/ BatchAfterPoll \/ BatchAfterFailedPoll \/ FunctionRestarts
    BY <1>1, <1>6 DEF BatchFromCache, BatchAfterPoll, BatchAfterFailedPoll, FunctionRestarts, Batch
  <1>7. CASE ProbeWaited \/ ProbeJudged \/ ProbeClears \/ ProbeBreaks \/ Passes
    BY <1>1, <1>7 DEF ProbeWaited, ProbeJudged, ProbeClears, ProbeBreaks, Passes
  <1>8. CASE UNCHANGED chaosVars BY <1>1, <1>8 DEF chaosVars
  <1> QED BY <1>1, <1>2, <1>3, <1>4, <1>5, <1>6, <1>7, <1>8 DEF ChaosNext

\* The parts cover every variable.
LEMMA ChaosTypesOfParts == BatchInv /\ OwnRow /\ TxnTypes => ChaosTypeOK
  <1> SUFFICES ASSUME BatchInv, OwnRow, TxnTypes PROVE ChaosTypeOK OBVIOUS
  <1>1. /\ now \in 0 .. MaxTime
        /\ \A s \in Targets : table[s] = NoRow \/ table[s].mode \in VALID_MODES[s]
    BY DEF BatchInv, TableTypes
  <1>2. /\ cache.mode \in CloudModes \cup {NoFault} /\ cache.at <= now
        /\ sent.mode \in CloudModes \cup {NoFault} /\ sent.at <= now
    BY TargetFacts DEF BatchInv, BatchTypes, BatchRecord
  <1>3. \A t \in Txns : txn[t].receives \in 0 .. MaxReceive BY DEF TxnTypes
  <1>4. probe.pc \in {"idle", "wait", "judge", "clear", "over"}
    BY DEF OwnRow, ProbeRecord, ProbeSteps
  <1> QED BY <1>1, <1>2, <1>3, <1>4 DEF ChaosTypeOK

-------------------------------------------------------------------------------
(* The theorems.                                                            *)

\* Whatever is fair, the steps of the fault injection keep these.
LEMMA ChaosSafety ==
    ChaosInit /\ [][ChaosNext]_chaosVars
        => [](ChaosTypeOK /\ NotificationsStop /\ ProbeLeavesNothing)
  <1>1. ChaosInit => TxnTypes BY ChaosBounds DEF ChaosInit, TxnTypes
  <1>2. BatchInv => TableTypes BY DEF BatchInv
  <1>3. BatchInv => NotificationsStop
    BY DEF BatchInv, DrillOfNow, NotificationsStop
  <1>4. OwnRow => ProbeLeavesNothing BY DEF OwnRow, ProbeLeavesNothing
  <1> QED
    BY <1>1, <1>2, <1>3, <1>4, BatchInvInit, BatchInvNext, OwnRowInit, OwnRowNext,
       TxnTypesNext, ChaosTypesOfParts, PTL

\* A drill on notifications is over within one lifetime of the cache after its
\* fault was cleared, replaced or ran out, unless a poll has failed since, for any
\* lifetime and whoever set the row (notifications.py 80-102).
THEOREM DrillsOnNotificationsEnd == ChaosSpec => []NotificationsStop
  BY ChaosSafety, PTL DEF ChaosSpec

\* However the probe's waits end, and whatever users set meanwhile, no fault of its
\* own is active once it is over, unless one of its own calls broke (chaos_probe.py
\* 97-114).
THEOREM ProbeCleansUp == ChaosSpec => []ProbeLeavesNothing
  BY ChaosSafety, PTL DEF ChaosSpec

\* Every variable of the fault injection keeps its type.
THEOREM ChaosTypeSafety == ChaosSpec => []ChaosTypeOK
  BY ChaosSafety, PTL DEF ChaosSpec

-------------------------------------------------------------------------------
(***************************************************************************)
(* EstateDrills, for any number of overlapping runs. DrillsInv adds to     *)
(* CleanWhenOver who will undo what is set (WillUndo) and to               *)
(* PassesAreApart how the alerts of a rule and the starts of the runs lie  *)
(* in time (AlertsAreApart, SawAnAlert).                                   *)
(***************************************************************************)

-------------------------------------------------------------------------------
(* How a run's record changes.                                              *)

\* A step that moves the run on.
LEMMA StepToFacts ==
    ASSUME DrillsTypes, NEW r \in Runs, NEW step \in DrillSteps, StepTo(r, step)
    PROVE  /\ drill' \in [Runs -> DrillRecord]
           /\ \A q \in Runs : q # r => drill'[q] = drill[q]
           /\ drill'[r].pc = step
           /\ drill'[r].on = drill[r].on /\ drill'[r].started = drill[r].started
           /\ drill'[r].saw = drill[r].saw /\ drill'[r].after = drill[r].after
  <1>1. drill[r] \in DrillRecord BY DEF DrillsTypes
  <1>2. drill' = [drill EXCEPT ![r] = [drill[r] EXCEPT !.pc = step]]
    BY DEF StepTo
  <1>3. [drill[r] EXCEPT !.pc = step] =
            [pc |-> step, on |-> drill[r].on, started |-> drill[r].started,
             saw |-> drill[r].saw, after |-> drill[r].after]
    BY <1>1 DEF DrillRecord
  <1>4. [pc |-> step, on |-> drill[r].on, started |-> drill[r].started,
         saw |-> drill[r].saw, after |-> drill[r].after] \in DrillRecord
    BY <1>1 DEF DrillRecord
  <1> QED BY <1>2, <1>3, <1>4 DEF DrillsTypes

\* A run that ends without passing.
LEMMA FailsFacts ==
    ASSUME DrillsTypes, NEW r \in Runs, Fails(r)
    PROVE  /\ drill' \in [Runs -> DrillRecord]
           /\ \A q \in Runs : q # r => drill'[q] = drill[q]
           /\ drill'[r].pc = "over" /\ drill'[r].saw = -1
           /\ drill'[r].on = drill[r].on /\ drill'[r].started = drill[r].started
           /\ drill'[r].after = drill[r].after
  <1>1. drill[r] \in DrillRecord BY DEF DrillsTypes
  <1>2. drill' = [drill EXCEPT ![r] = [drill[r] EXCEPT !.pc = "over", !.saw = -1]]
    BY DEF Fails
  <1> DEFINE new == [drill[r] EXCEPT !.pc = "over", !.saw = -1]
  <1>3. /\ new \in DrillRecord /\ new.pc = "over" /\ new.saw = -1 /\ new.on = drill[r].on
        /\ new.started = drill[r].started /\ new.after = drill[r].after
    <2>1. "over" \in DrillSteps BY DEF DrillSteps
    <2>2. -1 \in Int OBVIOUS
    <2> QED BY <1>1, <2>1, <2>2 DEF DrillRecord
  <1> HIDE DEF new
  <1>4. /\ drill' \in [Runs -> DrillRecord] /\ drill'[r] = new
        /\ \A q \in Runs : q # r => drill'[q] = drill[q]
    BY <1>2, <1>3 DEF DrillsTypes, new
  <1> QED BY <1>3, <1>4

\* A run that sees its verdict.
LEMMA VerdictSeenFacts ==
    ASSUME DrillsTypes, NEW r \in Runs, drill[r].on \in Scenarios, VerdictSeen(r)
    PROVE  /\ drill' \in [Runs -> DrillRecord] /\ drill[r].pc = "spine"
           /\ \A q \in Runs : q # r => drill'[q] = drill[q]
           /\ drill'[r].pc = "undo"
           /\ \E a \in alertsOf[drill[r].on] :
                 a.judged /\ a.at >= drill[r].started /\ drill'[r].saw = a.at
           /\ drill'[r].on = drill[r].on /\ drill'[r].started = drill[r].started
           /\ drill'[r].after = drill[r].after
  <1>1. drill[r] \in DrillRecord BY DEF DrillsTypes
  <1>2. PICK a \in alertsOf[drill[r].on] :
            /\ a.judged /\ a.at >= drill[r].started
            /\ drill' = [drill EXCEPT ![r] = [drill[r] EXCEPT !.pc = "undo", !.saw = a.at]]
    BY DEF VerdictSeen
  <1>3. a.at \in Nat BY DEF DrillsTypes
  <1> DEFINE new == [drill[r] EXCEPT !.pc = "undo", !.saw = a.at]
  <1>4. /\ new \in DrillRecord /\ new.pc = "undo" /\ new.saw = a.at /\ new.on = drill[r].on
        /\ new.started = drill[r].started /\ new.after = drill[r].after
    <2>1. "undo" \in DrillSteps /\ a.at \in Int BY <1>3 DEF DrillSteps
    <2> DEFINE at == a.at
    <2>2. new = [drill[r] EXCEPT !.pc = "undo", !.saw = at] /\ at \in Int BY <2>1
    <2> HIDE DEF at
    <2>3. /\ new \in DrillRecord /\ new.pc = "undo" /\ new.saw = at /\ new.on = drill[r].on
          /\ new.started = drill[r].started /\ new.after = drill[r].after
      BY <1>1, <2>1, <2>2 DEF DrillRecord
    <2> QED BY <2>3 DEF at
  <1>5. drill' = [drill EXCEPT ![r] = new] BY <1>2
  <1> HIDE DEF new
  <1>6. /\ drill' \in [Runs -> DrillRecord] /\ drill'[r] = new
        /\ \A q \in Runs : q # r => drill'[q] = drill[q]
    BY <1>4, <1>5 DEF DrillsTypes
  <1> QED BY <1>2, <1>4, <1>6 DEF VerdictSeen, DrillAt

\* A run that begins.
LEMMA BeginFacts ==
    ASSUME DrillsTypes, NEW r \in Runs, NEW s \in Scenarios, Begin(r, s)
    PROVE  /\ drill' \in [Runs -> DrillRecord] /\ drill[r].pc = "idle"
           /\ \A q \in Runs : q # r => drill'[q] = drill[q]
           /\ drill'[r].pc = IF s = OnKafka THEN "pause" ELSE "set"
           /\ drill'[r].on = s /\ drill'[r].started = clock
           /\ drill'[r].saw = drill[r].saw
           /\ drill'[r].after = {q \in Runs : drill[q].pc = "over"}
  <1> DEFINE step == IF s = OnKafka THEN "pause" ELSE "set"
             before == {q \in Runs : drill[q].pc = "over"}
  <1>1. drill[r] \in DrillRecord BY DEF DrillsTypes
  <1>2. /\ drill[r].pc = "idle"
        /\ drill' = [drill EXCEPT ![r] = [drill[r] EXCEPT !.pc = step, !.on = s,
                                              !.started = clock, !.after = before]]
    BY DEF Begin, DrillAt
  <1>3. step \in DrillSteps /\ before \in SUBSET Runs /\ clock \in Nat
    BY DEF DrillSteps, DrillsTypes
  <1> HIDE DEF step, before
  <1> DEFINE new == [drill[r] EXCEPT !.pc = step, !.on = s, !.started = clock,
                                     !.after = before]
  <1>4. /\ new \in DrillRecord /\ new.pc = step /\ new.saw = drill[r].saw /\ new.on = s
        /\ new.started = clock /\ new.after = before
    BY <1>1, <1>3 DEF DrillRecord
  <1>5. drill' = [drill EXCEPT ![r] = new] BY <1>2
  <1> HIDE DEF new
  <1>6. /\ drill' \in [Runs -> DrillRecord] /\ drill'[r] = new
        /\ \A q \in Runs : q # r => drill'[q] = drill[q]
    BY <1>4, <1>5 DEF DrillsTypes
  <1> QED BY <1>2, <1>4, <1>6 DEF step, before

\* A step of a run moves it on, shows it its verdict, or ends it for good.
LEMMA DrillShape ==
    ASSUME DrillsTypes, OnItsWay, NEW r \in Runs,
           RunStep(r) \/ CallFails(r) \/ RunKilled(r)
    PROVE  /\ UNCHANGED <<clock, alertsOf>> /\ drill' \in [Runs -> DrillRecord]
           /\ \A q \in Runs : q # r => drill'[q] = drill[q]
           /\ drill'[r].on = drill[r].on /\ drill'[r].started = drill[r].started
           /\ drill'[r].after = drill[r].after
           /\ drill[r].pc \notin {"idle", "over"} /\ drill'[r].pc # "idle"
           /\ \/ /\ drill'[r].saw = drill[r].saw
                 /\ \/ drill[r].pc \in {"set", "pause", "delete", "rule", "spine"}
                    \/ drill'[r].pc \in {"ready", "over"}
              \/ /\ drill'[r].pc = "undo"
                 /\ \E a \in alertsOf[drill[r].on] :
                       a.judged /\ a.at >= drill[r].started /\ drill'[r].saw = a.at
              \/ drill'[r].saw = -1
  <1> USE DEF estateVars, DrillAt
  <1>1. CASE Sets(r) \/ Pauses(r) \/ Deletes(r) \/ RuleSeen(r) \/ WaitFails(r)
    <2>1. PICK step \in {"rule", "delete", "spine", "undo"} :
              /\ StepTo(r, step) /\ UNCHANGED <<clock, alertsOf>>
              /\ drill[r].pc \in {"set", "pause", "delete", "rule", "spine"}
      BY <1>1 DEF Sets, Pauses, Deletes, RuleSeen, WaitFails
    <2>2. step \in DrillSteps /\ step # "idle" BY DEF DrillSteps
    <2> QED BY <2>1, <2>2, StepToFacts
  <1>2. CASE Undoes(r) \/ (Ready(r) /\ broker = "ready")
    <2>1. PICK step \in {"ready", "over"} :
              /\ StepTo(r, step) /\ UNCHANGED <<clock, alertsOf>>
              /\ drill[r].pc \in {"undo", "ready"}
      BY <1>2 DEF Undoes, Ready, Over
    <2>2. step \in DrillSteps /\ step # "idle" BY DEF DrillSteps
    <2> QED BY <2>1, <2>2, StepToFacts
  <1>3. CASE (Ready(r) /\ broker # "ready") \/ CallFails(r) \/ RunKilled(r)
    <2>1. /\ Fails(r) /\ UNCHANGED <<clock, alertsOf>>
          /\ drill[r].pc \notin {"idle", "over"}
      BY <1>3 DEF Ready, CallFails, RunKilled
    <2> QED BY <2>1, FailsFacts
  <1>4. CASE VerdictSeen(r)
    <2>1. drill[r].on \in Scenarios /\ drill[r].pc = "spine"
      BY <1>4 DEF VerdictSeen, OnItsWay
    <2>2. UNCHANGED <<clock, alertsOf>> BY <1>4 DEF VerdictSeen
    <2> QED BY <1>4, <2>1, <2>2, VerdictSeenFacts
  <1> QED BY <1>1, <1>2, <1>3, <1>4 DEF RunStep

-------------------------------------------------------------------------------
(* The step lemmas.                                                         *)

\* What is written to the ConfigMap is a mode.
LEMMA FaultModes ==
    /\ \A k \in FaultKeys : \A mode \in K8S_VALID_MODES[k] \cup {Cleared} :
          mode \in {"timeouts", "issuer-down", "model-drift", "latency", "crashloop",
                    "lag", Cleared}
    /\ \A s \in Scenarios \ {OnKafka} :
          FaultKey[s] \in FaultKeys /\ FaultMode[s] \in {"timeouts", "lag"}
  BY DEF FaultKeys, K8S_VALID_MODES, Scenarios, OnKafka, FaultKey, FaultMode

\* No call of kubectl takes the ConfigMap or the annotation out of its type.
LEMMA RunKeepsEstate ==
    ASSUME DrillsTypes, OnItsWay, NEW r \in Runs,
           RunStep(r) \/ CallFails(r) \/ RunKilled(r)
    PROVE  /\ paused' \in BOOLEAN
           /\ key' \in [FaultKeys -> {"timeouts", "issuer-down", "model-drift", "latency",
                                      "crashloop", "lag", Cleared}]
  <1> USE DEF DrillsTypes
  <1>1. CASE UNCHANGED <<key, paused>> BY <1>1
  <1>2. CASE /\ UNCHANGED paused /\ drill[r].pc = "set"
             /\ key' = [key EXCEPT ![FaultKey[drill[r].on]] = FaultMode[drill[r].on]]
    <2>1. FaultMode[drill[r].on] \in {"timeouts", "lag"}
      BY <1>2, FaultModes DEF OnItsWay
    <2> QED BY <1>2, <2>1
  <1>3. CASE /\ UNCHANGED paused
             /\ key' = [key EXCEPT ![FaultKey[drill[r].on]] = Cleared]
    BY <1>3
  <1>4. CASE UNCHANGED key /\ paused' \in BOOLEAN BY <1>4
  <1> USE DEF patch_fault, annotate, delete_broker_podset, NoCall, estateVars, DrillAt
  <1>5. CASE RuleSeen(r) \/ VerdictSeen(r) \/ WaitFails(r) \/ Ready(r) \/ RunKilled(r)
    BY <1>1, <1>5 DEF RuleSeen, VerdictSeen, WaitFails, Ready, RunKilled
  <1>6. CASE Sets(r)
    BY <1>2, <1>6 DEF Sets
  <1>7. CASE Pauses(r) \/ Deletes(r)
    BY <1>4, <1>7 DEF Pauses, Deletes
  <1>8. Restore(r) => (/\ UNCHANGED paused
                       /\ key' = [key EXCEPT ![FaultKey[drill[r].on]] = Cleared])
                      \/ (UNCHANGED key /\ paused' \in BOOLEAN)
    BY DEF Restore
  <1>9. CASE Undoes(r)
    BY <1>3, <1>4, <1>8, <1>9 DEF Undoes
  <1>10. CASE CallFails(r)
    <2>1. \/ UNCHANGED <<key, paused>> \/ Restore(r)
          \/ UNCHANGED key /\ paused' \in BOOLEAN
          \/ /\ UNCHANGED paused /\ drill[r].pc = "set"
             /\ key' = [key EXCEPT ![FaultKey[drill[r].on]] = FaultMode[drill[r].on]]
      BY <1>10 DEF CallFails
    <2> QED BY <1>1, <1>2, <1>3, <1>4, <1>8, <2>1
  <1> QED BY <1>5, <1>6, <1>7, <1>9, <1>10 DEF RunStep

\* Every step keeps the types.
LEMMA DrillsTypeStep ==
    ASSUME DrillsTypes, OnItsWay, DrillsNext PROVE DrillsTypes'
  <1> USE DEF DrillsTypes
  <1>1. ASSUME NEW r \in Runs, RunStep(r) \/ CallFails(r) \/ RunKilled(r)
        PROVE  DrillsTypes'
    BY <1>1, DrillShape, RunKeepsEstate
  <1>2. ASSUME NEW r \in Runs, NEW s \in Scenarios, Begin(r, s)
        PROVE  DrillsTypes'
    BY <1>2, BeginFacts DEF Begin, estateVars
  <1>3. ASSUME NEW k \in FaultKeys, NEW mode \in K8S_VALID_MODES[k] \cup {Cleared},
               UserPatches(k, mode)
        PROVE  DrillsTypes'
    BY <1>3, FaultModes DEF UserPatches, patch_fault
  <1>4. CASE UserDownsBroker \/ UserResumes \/ Reconcile \/ SecondPasses
    <2>1. paused' \in BOOLEAN
      BY <1>4 DEF UserDownsBroker, UserResumes, Reconcile, SecondPasses, annotate
    <2>2. UNCHANGED <<key, alertsOf, drill>> /\ clock' \in Nat
      BY <1>4 DEF UserDownsBroker, UserResumes, Reconcile, SecondPasses, annotate
    <2> QED BY <2>1, <2>2
  <1>5. ASSUME NEW s \in Scenarios, RuleChanges(s) \/ NotifyIngest(s) \/ JudgeAlert(s)
        PROVE  DrillsTypes'
    <2>1. CASE RuleChanges(s) BY <2>1 DEF RuleChanges
    <2>2. CASE NotifyIngest(s)
      <3>1. [at |-> clock, judged |-> FALSE] \in [at : Nat, judged : BOOLEAN] OBVIOUS
      <3> QED BY <2>2, <3>1 DEF NotifyIngest
    <2>3. CASE JudgeAlert(s)
      <3>1. PICK a \in alertsOf[s] :
                alertsOf' = [alertsOf EXCEPT ![s] = (@ \ {a}) \cup {[a EXCEPT !.judged = TRUE]}]
        BY <2>3 DEF JudgeAlert
      <3>2. a \in [at : Nat, judged : BOOLEAN] OBVIOUS
      <3>3. [a EXCEPT !.judged = TRUE] \in [at : Nat, judged : BOOLEAN] BY <3>2
      <3> QED BY <2>3, <3>1, <3>3 DEF JudgeAlert
    <2> QED BY <1>5, <2>1, <2>2, <2>3
  <1> QED BY <1>1, <1>2, <1>3, <1>4, <1>5 DEF DrillsNext

\* Each run stays where its scenario lets it be.
LEMMA OnItsWayStep ==
    ASSUME DrillsTypes, OnItsWay, DrillsNext PROVE OnItsWay'
  <1> USE DEF DrillAt
  <1>1. ASSUME NEW r \in Runs, RunStep(r) \/ CallFails(r) \/ RunKilled(r)
        PROVE  OnItsWay'
    <2>1. /\ \A q \in Runs : q # r => drill'[q] = drill[q]
          /\ drill'[r].on = drill[r].on
      BY <1>1, DrillShape
    <2>2. /\ drill'[r].pc \in {"delete", "rule", "spine", "undo", "ready", "over"}
          /\ drill'[r].pc = "delete" => drill[r].pc = "pause"
          /\ drill'[r].pc = "ready" => drill[r].on = OnKafka
          /\ drill'[r].pc \in {"rule", "spine", "undo"} =>
                drill[r].pc \in {"set", "delete", "rule", "spine"}
      <3>1. CASE Sets(r) \/ Deletes(r)
        <4>1. "rule" \in DrillSteps BY DEF DrillSteps
        <4> QED BY <3>1, <4>1, StepToFacts DEF Sets, Deletes
      <3>2. CASE Pauses(r)
        <4>1. "delete" \in DrillSteps BY DEF DrillSteps
        <4> QED BY <3>2, <4>1, StepToFacts DEF Pauses
      <3>3. CASE RuleSeen(r)
        <4>1. "spine" \in DrillSteps BY DEF DrillSteps
        <4> QED BY <3>3, <4>1, StepToFacts DEF RuleSeen
      <3>4. CASE WaitFails(r)
        <4>1. "undo" \in DrillSteps BY DEF DrillSteps
        <4> QED BY <3>4, <4>1, StepToFacts DEF WaitFails
      <3>5. CASE VerdictSeen(r)
        <4>1. drill[r].on \in Scenarios /\ drill[r].pc = "spine"
          BY <3>5 DEF VerdictSeen, OnItsWay
        <4> QED BY <3>5, <4>1, VerdictSeenFacts
      <3>6. CASE Undoes(r)
        <4>1. "ready" \in DrillSteps /\ "over" \in DrillSteps BY DEF DrillSteps
        <4> QED BY <3>6, <4>1, StepToFacts DEF Undoes, Over
      <3>7. CASE Ready(r) \/ CallFails(r) \/ RunKilled(r)
        <4>1. "over" \in DrillSteps BY DEF DrillSteps
        <4>2. StepTo(r, "over") \/ Fails(r)
          BY <3>7 DEF Ready, CallFails, RunKilled, Over
        <4> QED BY <4>1, <4>2, StepToFacts, FailsFacts
      <3> QED BY <1>1, <3>1, <3>2, <3>3, <3>4, <3>5, <3>6, <3>7 DEF RunStep
    <2> QED
      <3>1. /\ drill'[r].pc = "set" => drill'[r].on \in Scenarios \ {OnKafka}
            /\ drill'[r].pc \in {"pause", "delete", "ready"} => drill'[r].on = OnKafka
            /\ drill'[r].pc \in {"rule", "spine", "undo"} => drill'[r].on \in Scenarios
        BY <2>1, <2>2 DEF OnItsWay, Scenarios, OnKafka
      <3> QED BY <2>1, <3>1 DEF OnItsWay
  <1>2. ASSUME NEW r \in Runs, NEW s \in Scenarios, Begin(r, s)
        PROVE  OnItsWay'
    <2>1. /\ \A q \in Runs : q # r => drill'[q] = drill[q]
          /\ drill'[r].pc = IF s = OnKafka THEN "pause" ELSE "set"
          /\ drill'[r].on = s
      BY <1>2, BeginFacts
    <2> QED BY <2>1 DEF OnItsWay
  <1>3. ASSUME drill' = drill PROVE OnItsWay' BY <1>3 DEF OnItsWay
  <1> QED
    BY <1>1, <1>2, <1>3
    DEF DrillsNext, UserPatches, UserDownsBroker, UserResumes, Reconcile, SecondPasses,
        RuleChanges, NotifyIngest, JudgeAlert

\* A step of a run that sets nothing anew and goes on towards its undoing leaves
\* the others to undo what they set.
LEMMA StillWillUndo ==
    ASSUME DrillsTypes, WillUndo, disturbed' = disturbed, NEW r \in Runs,
           \A q \in Runs : q # r => drill'[q] = drill[q],
           \A k \in FaultKeys : key'[k] # Cleared => key[k] # Cleared,
           paused' => paused,
           drill[r].pc \in {"rule", "spine", "undo"} =>
               /\ drill'[r].pc \in {"rule", "spine", "undo"} /\ drill'[r].on = drill[r].on,
           drill[r].pc = "delete" =>
               /\ drill'[r].pc \in {"delete", "rule"} /\ drill'[r].on = drill[r].on
    PROVE  WillUndo'
  <1> SUFFICES ASSUME ~disturbed PROVE WillUndo' BY DEF WillUndo
  <1>1. ASSUME NEW k \in FaultKeys, key'[k] # Cleared
        PROVE  \E q \in Runs : /\ drill'[q].pc \in {"rule", "spine", "undo"}
                               /\ drill'[q].on # OnKafka /\ FaultKey[drill'[q].on] = k
    <2>1. PICK q \in Runs : /\ drill[q].pc \in {"rule", "spine", "undo"}
                            /\ drill[q].on # OnKafka /\ FaultKey[drill[q].on] = k
      BY <1>1 DEF WillUndo
    <2> QED BY <2>1
  <1>2. ASSUME paused'
        PROVE  \E q \in Runs : /\ drill'[q].pc \in {"delete", "rule", "spine", "undo"}
                               /\ drill'[q].on = OnKafka
    <2>1. PICK q \in Runs : /\ drill[q].pc \in {"delete", "rule", "spine", "undo"}
                            /\ drill[q].on = OnKafka
      BY <1>2 DEF WillUndo
    <2> QED BY <2>1
  <1> QED BY <1>1, <1>2 DEF WillUndo

\* Whatever is set or paused stays somebody's to undo.
LEMMA WillUndoStep ==
    ASSUME DrillsTypes, OnItsWay, WillUndo, DrillsNext PROVE WillUndo'
  <1> USE DEF DrillAt
  <1>1. ASSUME NEW r \in Runs, Sets(r)
        PROVE  WillUndo'
    <2>1. /\ drill[r].pc = "set" /\ drill[r].on \in Scenarios \ {OnKafka}
          /\ key' = [key EXCEPT ![FaultKey[drill[r].on]] = FaultMode[drill[r].on]]
          /\ UNCHANGED <<paused, disturbed>>
      BY <1>1 DEF Sets, patch_fault, OnItsWay
    <2>2. /\ \A q \in Runs : q # r => drill'[q] = drill[q]
          /\ drill'[r].pc = "rule" /\ drill'[r].on = drill[r].on
      <3>1. "rule" \in DrillSteps BY DEF DrillSteps
      <3> QED BY <1>1, <3>1, StepToFacts DEF Sets
    <2> SUFFICES ASSUME ~disturbed PROVE WillUndo' BY <2>1 DEF WillUndo
    <2>3. ASSUME NEW k \in FaultKeys, key'[k] # Cleared
          PROVE  \E q \in Runs : /\ drill'[q].pc \in {"rule", "spine", "undo"}
                                 /\ drill'[q].on # OnKafka /\ FaultKey[drill'[q].on] = k
      <3>1. CASE k = FaultKey[drill[r].on] BY <2>1, <2>2, <3>1
      <3>2. CASE k # FaultKey[drill[r].on]
        <4>1. key[k] # Cleared BY <2>1, <2>3, <3>2 DEF DrillsTypes
        <4>2. PICK q \in Runs : /\ drill[q].pc \in {"rule", "spine", "undo"}
                                /\ drill[q].on # OnKafka /\ FaultKey[drill[q].on] = k
          BY <4>1 DEF WillUndo
        <4> QED BY <2>1, <2>2, <4>2
      <3> QED BY <3>1, <3>2
    <2>4. ASSUME paused'
          PROVE  \E q \in Runs : /\ drill'[q].pc \in {"delete", "rule", "spine", "undo"}
                                 /\ drill'[q].on = OnKafka
      BY <2>1, <2>2, <2>4 DEF WillUndo
    <2> QED BY <2>3, <2>4 DEF WillUndo
  <1>2. ASSUME NEW r \in Runs, Pauses(r)
        PROVE  WillUndo'
    <2>1. /\ drill[r].pc = "pause" /\ drill[r].on = OnKafka /\ UNCHANGED <<key, disturbed>>
      BY <1>2 DEF Pauses, annotate, OnItsWay
    <2>2. /\ \A q \in Runs : q # r => drill'[q] = drill[q]
          /\ drill'[r].pc = "delete" /\ drill'[r].on = drill[r].on
      <3>1. "delete" \in DrillSteps BY DEF DrillSteps
      <3> QED BY <1>2, <3>1, StepToFacts DEF Pauses
    <2>3. ASSUME NEW k \in FaultKeys, key[k] # Cleared, ~disturbed
          PROVE  \E q \in Runs : /\ drill'[q].pc \in {"rule", "spine", "undo"}
                                 /\ drill'[q].on # OnKafka /\ FaultKey[drill'[q].on] = k
      <3>1. PICK q \in Runs : /\ drill[q].pc \in {"rule", "spine", "undo"}
                              /\ drill[q].on # OnKafka /\ FaultKey[drill[q].on] = k
        BY <2>3 DEF WillUndo
      <3> QED BY <2>1, <2>2, <3>1
    <2> QED BY <2>1, <2>2, <2>3 DEF WillUndo
  <1>3. ASSUME NEW r \in Runs,
               Deletes(r) \/ RuleSeen(r) \/ WaitFails(r) \/ VerdictSeen(r) \/ Ready(r)
        PROVE  WillUndo'
    <2>1. /\ UNCHANGED <<key, paused, disturbed>>
          /\ drill[r].pc \in {"delete", "rule", "spine", "ready"}
      BY <1>3
      DEF Deletes, RuleSeen, WaitFails, VerdictSeen, Ready, delete_broker_podset, estateVars
    <2>2. /\ \A q \in Runs : q # r => drill'[q] = drill[q]
          /\ drill'[r].on = drill[r].on
      BY <1>3, DrillShape DEF RunStep
    <2>3. drill[r].pc # "ready" =>
             /\ drill'[r].pc \in {"rule", "spine", "undo"}
             /\ drill[r].pc = "delete" => drill'[r].pc = "rule"
      <3>1. CASE VerdictSeen(r)
        <4>1. drill[r].on \in Scenarios BY <3>1 DEF VerdictSeen, OnItsWay
        <4> QED BY <3>1, <4>1, VerdictSeenFacts
      <3>2. CASE Deletes(r) \/ RuleSeen(r) \/ WaitFails(r)
        <4>1. /\ "rule" \in DrillSteps /\ "spine" \in DrillSteps /\ "undo" \in DrillSteps
          BY DEF DrillSteps
        <4> QED BY <3>2, <4>1, StepToFacts DEF Deletes, RuleSeen, WaitFails
      <3>3. CASE Ready(r) BY <3>3 DEF Ready
      <3> QED BY <1>3, <3>1, <3>2, <3>3
    <2> QED BY <2>1, <2>2, <2>3, StillWillUndo
  <1>4. ASSUME NEW r \in Runs, Undoes(r)
        PROVE  WillUndo'
    <2>1. /\ drill[r].pc = "undo" /\ drill[r].on \in Scenarios /\ UNCHANGED disturbed
          /\ IF drill[r].on = OnKafka THEN paused' = FALSE /\ UNCHANGED key
             ELSE UNCHANGED paused /\ key' = [key EXCEPT ![FaultKey[drill[r].on]] = Cleared]
      BY <1>4 DEF Undoes, Restore, annotate, patch_fault, OnItsWay
    <2>2. \A q \in Runs : q # r => drill'[q] = drill[q]
      BY <1>4, DrillShape DEF RunStep
    <2> SUFFICES ASSUME ~disturbed PROVE WillUndo' BY <2>1 DEF WillUndo
    <2>3. ASSUME NEW k \in FaultKeys, key'[k] # Cleared
          PROVE  \E q \in Runs : /\ drill'[q].pc \in {"rule", "spine", "undo"}
                                 /\ drill'[q].on # OnKafka /\ FaultKey[drill'[q].on] = k
      <3>1. /\ key[k] # Cleared
            /\ drill[r].on # OnKafka => FaultKey[drill[r].on] # k
        BY <2>1, <2>3 DEF DrillsTypes
      <3>2. PICK q \in Runs : /\ drill[q].pc \in {"rule", "spine", "undo"}
                              /\ drill[q].on # OnKafka /\ FaultKey[drill[q].on] = k
        BY <3>1 DEF WillUndo
      <3> QED BY <2>2, <3>1, <3>2
    <2>4. ASSUME paused'
          PROVE  \E q \in Runs : /\ drill'[q].pc \in {"delete", "rule", "spine", "undo"}
                                 /\ drill'[q].on = OnKafka
      <3>1. drill[r].on # OnKafka /\ paused
        <4>1. CASE drill[r].on = OnKafka
          <5>1. paused' = FALSE BY <2>1, <4>1, Zenon
          <5> QED BY <2>4, <5>1, Zenon
        <4>2. CASE drill[r].on # OnKafka
          <5>1. paused' = paused BY <2>1, <4>2, Zenon
          <5> QED BY <2>4, <4>2, <5>1, Zenon
        <4> QED BY <4>1, <4>2
      <3>2. PICK q \in Runs : /\ drill[q].pc \in {"delete", "rule", "spine", "undo"}
                              /\ drill[q].on = OnKafka
        BY <3>1 DEF WillUndo
      <3> QED BY <2>2, <3>1, <3>2
    <2> QED BY <2>3, <2>4 DEF WillUndo
  <1>5. ASSUME NEW r \in Runs, CallFails(r) \/ RunKilled(r)
        PROVE  WillUndo'
    BY <1>5 DEF CallFails, RunKilled, WillUndo
  <1>6. ASSUME NEW r \in Runs, NEW s \in Scenarios, Begin(r, s)
        PROVE  WillUndo'
    <2>1. /\ \A q \in Runs : q # r => drill'[q] = drill[q]
          /\ drill[r].pc = "idle" /\ UNCHANGED <<key, paused, disturbed>>
      BY <1>6, BeginFacts DEF Begin, estateVars
    <2> QED BY <2>1, StillWillUndo
  <1>7. ASSUME NEW k \in FaultKeys, NEW mode \in K8S_VALID_MODES[k] \cup {Cleared},
               UserPatches(k, mode)
        PROVE  WillUndo'
    <2>1. CASE mode = Cleared
      <3>1. key' = [key EXCEPT ![k] = Cleared] /\ UNCHANGED <<paused, drill>>
        BY <1>7, <2>1 DEF UserPatches, patch_fault
      <3>2. \A j \in FaultKeys : key'[j] # Cleared => key[j] # Cleared
        BY <3>1 DEF DrillsTypes
      <3>3. disturbed => disturbed' BY <1>7, Zenon DEF UserPatches
      <3>4. paused' = paused /\ drill' = drill BY <3>1
      <3> QED BY <3>2, <3>3, <3>4, Zenon DEF WillUndo
    <2>2. CASE mode # Cleared
      BY <1>7, <2>2 DEF UserPatches, WillUndo
    <2> QED BY <2>1, <2>2
  <1>8. CASE UserDownsBroker BY <1>8 DEF UserDownsBroker, WillUndo
  <1>9. CASE UserResumes BY <1>9 DEF UserResumes, annotate, WillUndo
  <1>10. ASSUME UNCHANGED <<key, paused, drill, disturbed>>
         PROVE  WillUndo'
    BY <1>10 DEF WillUndo
  <1> QED
    BY <1>1, <1>2, <1>3, <1>4, <1>5, <1>6, <1>7, <1>8, <1>9, <1>10
    DEF DrillsNext, RunStep, Reconcile, SecondPasses, RuleChanges, NotifyIngest, JudgeAlert

\* ingest keeps the alerts of a rule apart.
LEMMA AlertsAreApartStep ==
    ASSUME DrillsTypes, OnItsWay, AlertsAreApart, DrillsNext PROVE AlertsAreApart'
  <1> USE DrillsAssumption DEF DrillsTypes
  <1>1. ASSUME NEW s \in Scenarios, NotifyIngest(s)
        PROVE  AlertsAreApart'
    <2> DEFINE new == [at |-> clock, judged |-> FALSE]
    <2>1. /\ alertsOf' = [alertsOf EXCEPT ![s] = @ \cup {new}] /\ clock' = clock
          /\ \A a \in alertsOf[s] : clock - a.at > Window
      BY <1>1 DEF NotifyIngest
    <2>2. new.at = clock /\ new.judged = FALSE OBVIOUS
    <2> HIDE DEF new
    <2>3. ASSUME NEW t \in Scenarios, NEW a \in alertsOf'[t], NEW b \in alertsOf'[t]
          PROVE  /\ a.at = b.at \/ a.at > b.at + Window \/ b.at > a.at + Window
                 /\ a.at <= clock' /\ (a.judged => a.at < clock')
      <3>1. CASE a \in alertsOf[t] /\ b \in alertsOf[t] BY <2>1, <3>1 DEF AlertsAreApart
      <3>2. CASE a \notin alertsOf[t] \/ b \notin alertsOf[t]
        <4>1. /\ t = s
              /\ a \in alertsOf[t] \/ a = new
              /\ b \in alertsOf[t] \/ b = new
          BY <2>1, <3>2
        <4>2. /\ a \in alertsOf[t] => /\ a.at <= clock /\ (a.judged => a.at < clock)
                                      /\ a.at \in Nat /\ clock - a.at > Window
              /\ b \in alertsOf[t] => b.at \in Nat /\ clock - b.at > Window
          BY <2>1, <4>1 DEF AlertsAreApart
        <4> QED BY <2>1, <2>2, <3>2, <4>1, <4>2
      <3> QED BY <3>1, <3>2
    <2> QED BY <2>3 DEF AlertsAreApart
  <1>2. ASSUME NEW s \in Scenarios, JudgeAlert(s)
        PROVE  AlertsAreApart'
    <2>1. PICK was \in alertsOf[s] :
              /\ was.at < clock
              /\ alertsOf' = [alertsOf EXCEPT ![s] =
                                  (@ \ {was}) \cup {[was EXCEPT !.judged = TRUE]}]
      BY <1>2 DEF JudgeAlert
    <2> DEFINE new == [was EXCEPT !.judged = TRUE]
    <2>2. clock' = clock /\ was \in [at : Nat, judged : BOOLEAN] BY <1>2 DEF JudgeAlert
    <2>3. new.at = was.at BY <2>2
    <2>4. alertsOf' = [alertsOf EXCEPT ![s] = (@ \ {was}) \cup {new}] BY <2>1
    <2> HIDE DEF new
    <2>5. ASSUME NEW t \in Scenarios, NEW a \in alertsOf'[t]
          PROVE  \E o \in alertsOf[t] : /\ o.at = a.at
                                        /\ a.judged => (o.judged \/ o.at < clock)
      BY <2>1, <2>3, <2>4
    <2>6. ASSUME NEW t \in Scenarios, NEW a \in alertsOf'[t], NEW b \in alertsOf'[t]
          PROVE  /\ a.at = b.at \/ a.at > b.at + Window \/ b.at > a.at + Window
                 /\ a.at <= clock' /\ (a.judged => a.at < clock')
      <3>1. PICK o \in alertsOf[t] : o.at = a.at /\ (a.judged => (o.judged \/ o.at < clock))
        BY <2>5
      <3>2. PICK p \in alertsOf[t] : p.at = b.at BY <2>5
      <3>3. /\ o.at = p.at \/ o.at > p.at + Window \/ p.at > o.at + Window
            /\ o.at <= clock /\ (o.judged => o.at < clock)
        BY DEF AlertsAreApart
      <3> QED BY <2>2, <3>1, <3>2, <3>3
    <2> QED BY <2>6 DEF AlertsAreApart
  <1>3. CASE SecondPasses
    <2>1. clock' = clock + 1 /\ alertsOf' = alertsOf BY <1>3 DEF SecondPasses
    <2>2. ASSUME NEW t \in Scenarios, NEW a \in alertsOf[t]
          PROVE  a.at <= clock' /\ a.at < clock'
      <3>1. a.at \in Nat /\ a.at <= clock BY DEF AlertsAreApart
      <3> QED BY <2>1, <3>1
    <2> QED BY <2>1, <2>2 DEF AlertsAreApart
  <1>4. CASE UNCHANGED <<clock, alertsOf>> BY <1>4 DEF AlertsAreApart
  <1>5. ASSUME NEW r \in Runs,
               RunStep(r) \/ CallFails(r) \/ RunKilled(r) \/ \E s \in Scenarios : Begin(r, s)
        PROVE  UNCHANGED <<clock, alertsOf>>
    BY <1>5, DrillShape DEF Begin, estateVars
  <1> QED
    BY <1>1, <1>2, <1>3, <1>4, <1>5
    DEF DrillsNext, UserPatches, UserDownsBroker, UserResumes, Reconcile, RuleChanges

\* A run that is over stays over, and a run passes on an alert of its own time.
LEMMA SawAnAlertStep ==
    ASSUME DrillsTypes, OnItsWay, AlertsAreApart, SawAnAlert, DrillsNext PROVE SawAnAlert'
  <1> USE DEF DrillsTypes
  <1>1. ASSUME NEW r \in Runs, RunStep(r) \/ CallFails(r) \/ RunKilled(r)
        PROVE  SawAnAlert'
    <2>1. /\ UNCHANGED <<clock, alertsOf>> /\ drill' \in [Runs -> DrillRecord]
          /\ \A q \in Runs : q # r => drill'[q] = drill[q]
          /\ drill'[r].on = drill[r].on /\ drill'[r].started = drill[r].started
          /\ drill'[r].after = drill[r].after
          /\ drill[r].pc \notin {"idle", "over"} /\ drill'[r].pc # "idle"
      BY <1>1, DrillShape
    <2>2. drill'[r].saw # -1 =>
              /\ drill'[r].pc \notin {"idle", "set", "pause", "delete", "rule", "spine"}
              /\ drill'[r].on \in Scenarios
              /\ \E a \in alertsOf[drill'[r].on] : a.at = drill'[r].saw
              /\ drill'[r].started <= drill'[r].saw /\ drill'[r].saw < clock
      <3>1. CASE drill'[r].saw = -1 BY <3>1
      <3>2. CASE /\ drill'[r].saw = drill[r].saw
                 /\ \/ drill[r].pc \in {"set", "pause", "delete", "rule", "spine"}
                    \/ drill'[r].pc \in {"ready", "over"}
        BY <2>1, <3>2 DEF SawAnAlert
      <3>3. CASE /\ drill'[r].pc = "undo"
                 /\ \E a \in alertsOf[drill[r].on] :
                       a.judged /\ a.at >= drill[r].started /\ drill'[r].saw = a.at
        <4>1. drill'[r].on \in Scenarios BY <3>3, OnItsWayStep DEF OnItsWay
        <4>2. PICK a \in alertsOf[drill[r].on] :
                  a.judged /\ a.at >= drill[r].started /\ drill'[r].saw = a.at
          BY <3>3
        <4>3. a.at < clock BY <2>1, <4>1, <4>2 DEF AlertsAreApart
        <4>4. drill[r].started \in Nat /\ a.at \in Nat BY <2>1, <4>1 DEF DrillRecord
        <4> QED BY <2>1, <3>3, <4>1, <4>2, <4>3, <4>4
      <3> QED BY <1>1, <3>1, <3>2, <3>3, DrillShape
    <2>3. ASSUME NEW q \in Runs, NEW p \in drill'[q].after
          PROVE  drill'[p].pc = "over" /\ drill'[p].saw < drill'[q].started
      <3>1. p \in drill[q].after /\ drill'[q].started = drill[q].started BY <2>1, <2>3
      <3>2. p \in Runs BY <3>1 DEF DrillRecord
      <3>3. drill[p].pc = "over" /\ drill[p].saw < drill[q].started
        BY <3>1 DEF SawAnAlert
      <3> QED BY <2>1, <3>1, <3>2, <3>3
    <2>4. ASSUME NEW q \in Runs
          PROVE  /\ drill'[q].started <= clock'
                 /\ drill'[q].saw # -1 =>
                       /\ drill'[q].pc \notin {"idle", "set", "pause", "delete", "rule",
                                               "spine"}
                       /\ drill'[q].on \in Scenarios
                       /\ \E a \in alertsOf'[drill'[q].on] : a.at = drill'[q].saw
                       /\ drill'[q].started <= drill'[q].saw /\ drill'[q].saw < clock'
                 /\ drill'[q].pc = "idle" => drill'[q].after = {}
      <3>1. CASE q = r BY <2>1, <2>2, <3>1 DEF SawAnAlert
      <3>2. CASE q # r BY <2>1, <3>2 DEF SawAnAlert
      <3> QED BY <3>1, <3>2
    <2> QED BY <2>3, <2>4 DEF SawAnAlert
  <1>2. ASSUME NEW r \in Runs, NEW s \in Scenarios, Begin(r, s)
        PROVE  SawAnAlert'
    <2>1. /\ drill[r].pc = "idle"
          /\ \A q \in Runs : q # r => drill'[q] = drill[q]
          /\ drill'[r].pc = IF s = OnKafka THEN "pause" ELSE "set"
          /\ drill'[r].started = clock /\ drill'[r].saw = drill[r].saw
          /\ drill'[r].after = {q \in Runs : drill[q].pc = "over"}
          /\ UNCHANGED <<clock, alertsOf>>
      BY <1>2, BeginFacts DEF Begin, estateVars
    <2>2. drill[r].saw = -1 BY <2>1 DEF SawAnAlert
    <2>3. ASSUME NEW q \in Runs, NEW p \in drill'[q].after
          PROVE  drill'[p].pc = "over" /\ drill'[p].saw < drill'[q].started
      <3>1. CASE q = r
        <4>1. p \in Runs /\ drill[p].pc = "over" BY <2>1, <2>3, <3>1
        <4>2. drill[p].saw < clock
          <5>1. CASE drill[p].saw = -1 BY <5>1
          <5>2. CASE drill[p].saw # -1 BY <4>1, <5>2 DEF SawAnAlert
          <5> QED BY <5>1, <5>2
        <4> QED BY <2>1, <3>1, <4>1, <4>2
      <3>2. CASE q # r
        <4>1. drill[p].pc = "over" /\ drill[p].saw < drill[q].started /\ p \in Runs
          BY <2>1, <2>3, <3>2 DEF SawAnAlert, DrillRecord
        <4> QED BY <2>1, <3>2, <4>1
      <3> QED BY <3>1, <3>2
    <2>4. ASSUME NEW q \in Runs
          PROVE  /\ drill'[q].started <= clock'
                 /\ drill'[q].saw # -1 =>
                       /\ drill'[q].pc \notin {"idle", "set", "pause", "delete", "rule",
                                               "spine"}
                       /\ drill'[q].on \in Scenarios
                       /\ \E a \in alertsOf'[drill'[q].on] : a.at = drill'[q].saw
                       /\ drill'[q].started <= drill'[q].saw /\ drill'[q].saw < clock'
                 /\ drill'[q].pc = "idle" => drill'[q].after = {}
      <3>1. CASE q = r BY <2>1, <2>2, <3>1
      <3>2. CASE q # r BY <2>1, <3>2 DEF SawAnAlert
      <3> QED BY <3>1, <3>2
    <2> QED BY <2>3, <2>4 DEF SawAnAlert
  <1>3. ASSUME drill' = drill, clock' \in Nat, clock' >= clock,
               \A s \in Scenarios : \A a \in alertsOf[s] :
                   \E b \in alertsOf'[s] : b.at = a.at
        PROVE  SawAnAlert'
    <2>1. ASSUME NEW q \in Runs
          PROVE  /\ drill'[q].started <= clock'
                 /\ drill'[q].saw # -1 =>
                       /\ drill'[q].pc \notin {"idle", "set", "pause", "delete", "rule",
                                               "spine"}
                       /\ drill'[q].on \in Scenarios
                       /\ \E a \in alertsOf'[drill'[q].on] : a.at = drill'[q].saw
                       /\ drill'[q].started <= drill'[q].saw /\ drill'[q].saw < clock'
      <3>1. drill[q].started \in Nat /\ drill[q].saw \in Int BY DEF DrillRecord
      <3> QED BY <1>3, <3>1 DEF SawAnAlert
    <2> QED BY <1>3, <2>1 DEF SawAnAlert
  <1>4. ASSUME NEW s \in Scenarios, NotifyIngest(s)
        PROVE  SawAnAlert'
    BY <1>3, <1>4 DEF NotifyIngest
  <1>5. ASSUME NEW s \in Scenarios, JudgeAlert(s)
        PROVE  SawAnAlert'
    <2>1. PICK was \in alertsOf[s] :
              alertsOf' = [alertsOf EXCEPT ![s] =
                               (@ \ {was}) \cup {[was EXCEPT !.judged = TRUE]}]
      BY <1>5 DEF JudgeAlert
    <2>2. was \in [at : Nat, judged : BOOLEAN] OBVIOUS
    <2>3. [was EXCEPT !.judged = TRUE].at = was.at BY <2>2
    <2>4. \A t \in Scenarios : \A a \in alertsOf[t] : \E b \in alertsOf'[t] : b.at = a.at
      BY <2>1, <2>3
    <2>5. drill' = drill /\ clock' = clock BY <1>5 DEF JudgeAlert
    <2> QED BY <1>3, <2>4, <2>5
  <1>6. CASE SecondPasses BY <1>3, <1>6 DEF SecondPasses
  <1>7. CASE UNCHANGED <<clock, alertsOf, drill>> BY <1>3, <1>7
  <1> QED
    BY <1>1, <1>2, <1>4, <1>5, <1>6, <1>7
    DEF DrillsNext, UserPatches, UserDownsBroker, UserResumes, Reconcile, RuleChanges

-------------------------------------------------------------------------------
(* The theorems.                                                            *)

\* The invariant holds in the initial states.
LEMMA DrillsInitInv == DrillsInit => DrillsInv
  <1> SUFFICES ASSUME DrillsInit PROVE DrillsInv OBVIOUS
  <1> USE DEF DrillsInit
  <1>1. /\ Unstarted \in DrillRecord /\ Unstarted.pc = "idle" /\ Unstarted.saw = -1
        /\ Unstarted.started = 0 /\ Unstarted.after = {}
    BY DEF Unstarted, DrillRecord, DrillSteps
  <1>2. \A r \in Runs : drill[r] = Unstarted OBVIOUS
  <1>3. DrillsTypes BY <1>1 DEF DrillsTypes
  <1>4. OnItsWay BY <1>1, <1>2 DEF OnItsWay
  <1>5. WillUndo BY DEF WillUndo
  <1>6. AlertsAreApart BY DEF AlertsAreApart
  <1>7. SawAnAlert BY <1>1, <1>2 DEF SawAnAlert
  <1> QED BY <1>3, <1>4, <1>5, <1>6, <1>7 DEF DrillsInv

\* Every step keeps it.
LEMMA DrillsInvStep == DrillsInv /\ [DrillsNext]_drillVars => DrillsInv'
  <1> SUFFICES ASSUME DrillsInv, [DrillsNext]_drillVars PROVE DrillsInv' OBVIOUS
  <1>1. CASE DrillsNext
    BY <1>1, DrillsTypeStep, OnItsWayStep, WillUndoStep, AlertsAreApartStep, SawAnAlertStep
    DEF DrillsInv
  <1>2. CASE UNCHANGED drillVars
    BY <1>2
    DEF drillVars, DrillsInv, DrillsTypes, OnItsWay, WillUndo, AlertsAreApart, SawAnAlert
  <1> QED BY <1>1, <1>2

\* What DrillsInv does not need to know: which modes a key takes, and the types of
\* the broker and of the rules.
DrillsRest ==
    /\ \A k \in FaultKeys : key[k] \in K8S_VALID_MODES[k] \cup {Cleared}
    /\ broker \in {"gone", "starting", "ready"} /\ firing \subseteq Scenarios

\* A scenario sets its key to a mode of that key.
LEMMA ScenarioModes ==
    \A s \in Scenarios \ {OnKafka} :
        FaultKey[s] \in FaultKeys /\ FaultMode[s] \in K8S_VALID_MODES[FaultKey[s]]
  BY DEF FaultKeys, K8S_VALID_MODES, Scenarios, OnKafka, FaultKey, FaultMode

\* A call writes a mode of the key it writes, or clears a key, or leaves them alone.
LEMMA PatchKeeps ==
    ASSUME DrillsTypes, DrillsRest, NEW k \in FaultKeys, NEW mode, patch_fault(k, mode),
           mode \in K8S_VALID_MODES[k] \cup {Cleared}, firing' = firing
    PROVE  DrillsRest'
  BY DEF DrillsTypes, DrillsRest, patch_fault

\* Undoing clears the run's key, or resumes the operator.
LEMMA RestoreKeeps ==
    ASSUME DrillsTypes, DrillsRest, NEW r \in Runs, drill[r].on \in Scenarios, Restore(r),
           firing' = firing
    PROVE  DrillsRest'
  <1>1. CASE drill[r].on = OnKafka BY <1>1 DEF Restore, annotate, DrillsRest
  <1>2. CASE drill[r].on # OnKafka
    <2>1. FaultKey[drill[r].on] \in FaultKeys BY <1>2, ScenarioModes
    <2> QED BY <1>2, <2>1, PatchKeeps DEF Restore
  <1> QED BY <1>1, <1>2

\* A step of a run.
LEMMA RunKeepsRest ==
    ASSUME DrillsTypes, OnItsWay, DrillsRest, NEW r \in Runs,
           RunStep(r) \/ CallFails(r) \/ RunKilled(r)
    PROVE  DrillsRest'
  <1> USE DEF DrillAt
  <1>1. firing' = firing
    BY DEF RunStep, Sets, Pauses, Deletes, RuleSeen, VerdictSeen, WaitFails, Undoes, Ready,
           CallFails, RunKilled, estateVars
  <1>2. ASSUME drill[r].pc = "set", patch_fault(FaultKey[drill[r].on], FaultMode[drill[r].on])
        PROVE  DrillsRest'
    <2>1. drill[r].on \in Scenarios \ {OnKafka} BY <1>2 DEF OnItsWay
    <2> QED BY <1>1, <1>2, <2>1, ScenarioModes, PatchKeeps
  <1>3. ASSUME NEW on, annotate(on) PROVE DrillsRest'
    BY <1>1, <1>3 DEF annotate, DrillsRest
  <1>4. ASSUME delete_broker_podset PROVE DrillsRest'
    BY <1>1, <1>4 DEF delete_broker_podset, DrillsRest
  <1>5. ASSUME drill[r].pc = "undo", Restore(r) PROVE DrillsRest'
    BY <1>1, <1>5, RestoreKeeps DEF OnItsWay
  <1>6. ASSUME NoCall PROVE DrillsRest'
    BY <1>1, <1>6 DEF NoCall, DrillsRest
  <1>7. CASE Sets(r) \/ Pauses(r) \/ Deletes(r) \/ Undoes(r)
    BY <1>2, <1>3, <1>4, <1>5, <1>7 DEF Sets, Pauses, Deletes, Undoes
  <1>8. CASE RuleSeen(r) \/ VerdictSeen(r) \/ WaitFails(r) \/ Ready(r) \/ RunKilled(r)
    <2>1. NoCall
      BY <1>8 DEF RuleSeen, VerdictSeen, WaitFails, Ready, RunKilled, estateVars, NoCall
    <2> QED BY <1>6, <2>1
  <1>9. CASE CallFails(r)
    BY <1>2, <1>3, <1>4, <1>5, <1>6, <1>9 DEF CallFails
  <1> QED BY <1>7, <1>8, <1>9 DEF RunStep

\* Every step keeps DrillsRest.
LEMMA DrillsRestStep ==
    ASSUME DrillsTypes, OnItsWay, DrillsRest, [DrillsNext]_drillVars
    PROVE  DrillsRest'
  <1>1. ASSUME NEW k \in FaultKeys, NEW mode, UserPatches(k, mode) PROVE DrillsRest'
    BY <1>1, PatchKeeps DEF UserPatches
  <1>2. CASE UserDownsBroker \/ UserResumes \/ Reconcile \/ SecondPasses
    BY <1>2 DEF UserDownsBroker, UserResumes, annotate, Reconcile, SecondPasses, DrillsRest
  <1>3. ASSUME NEW r \in Runs, NEW s \in Scenarios, Begin(r, s) PROVE DrillsRest'
    BY <1>3 DEF Begin, estateVars, DrillsRest
  <1>4. ASSUME NEW s \in Scenarios, RuleChanges(s) \/ NotifyIngest(s) \/ JudgeAlert(s)
        PROVE  DrillsRest'
    BY <1>4 DEF RuleChanges, NotifyIngest, JudgeAlert, DrillsRest
  <1>5. CASE UNCHANGED drillVars BY <1>5 DEF drillVars, DrillsRest
  <1> QED BY <1>1, <1>2, <1>3, <1>4, <1>5, RunKeepsRest DEF DrillsNext

\* The invariant covers every variable.
LEMMA DrillsTypesOfParts == DrillsInv /\ DrillsRest => DrillsTypeOK
  <1> SUFFICES ASSUME DrillsInv, DrillsRest PROVE DrillsTypeOK OBVIOUS
  <1>1. \A s \in Scenarios : alertsOf[s] \subseteq [at : 0 .. clock, judged : BOOLEAN]
    <2> SUFFICES ASSUME NEW s \in Scenarios, NEW a \in alertsOf[s]
                 PROVE  a \in [at : 0 .. clock, judged : BOOLEAN]
      OBVIOUS
    <2>1. a \in [at : Nat, judged : BOOLEAN] /\ a.at <= clock /\ clock \in Nat
      BY DEF DrillsInv, DrillsTypes, AlertsAreApart
    <2> QED BY <2>1
  <1>2. \A r \in Runs : drill[r].started <= clock /\ drill[r].saw <= clock
    <2> SUFFICES ASSUME NEW r \in Runs PROVE drill[r].started <= clock /\ drill[r].saw <= clock
      OBVIOUS
    <2>1. clock \in Nat /\ drill[r].saw \in Int /\ drill[r].started <= clock
      BY DEF DrillsInv, DrillsTypes, DrillRecord, SawAnAlert
    <2> QED BY <2>1 DEF DrillsInv, SawAnAlert
  <1> QED BY <1>1, <1>2 DEF DrillsInv, DrillsTypes, DrillsRest, DrillsTypeOK

\* Whatever is fair, the steps of the drills keep these.
LEMMA DrillsSafety ==
    DrillsInit /\ [][DrillsNext]_drillVars
        => [](DrillsTypeOK /\ CleanWhenOver /\ PassesAreApart)
  <1>1. DrillsInv => CleanWhenOver
    <2> SUFFICES ASSUME DrillsInv, ~disturbed,
                        \A r \in Runs : drill[r].pc \in {"idle", "over"}
                 PROVE  ~paused /\ \A k \in FaultKeys : key[k] = Cleared
      BY DEF CleanWhenOver
    <2> QED BY DEF DrillsInv, WillUndo
  <1>2. DrillsInv => PassesAreApart
    <2> SUFFICES ASSUME DrillsInv, NEW q \in Runs, NEW r \in Runs,
                        q \in drill[r].after, drill[q].on = drill[r].on,
                        Passed(q), Passed(r)
                 PROVE  drill[r].saw > drill[q].saw + Window
      BY DEF PassesAreApart
    <2>1. /\ drill[q].saw < drill[r].started /\ drill[r].started <= drill[r].saw
          /\ drill[r].on \in Scenarios
      BY DEF DrillsInv, SawAnAlert, Passed
    <2>2. PICK a \in alertsOf[drill[r].on] : a.at = drill[q].saw
      BY DEF DrillsInv, SawAnAlert, Passed
    <2>3. PICK b \in alertsOf[drill[r].on] : b.at = drill[r].saw
      BY DEF DrillsInv, SawAnAlert, Passed
    <2>4. a.at = b.at \/ a.at > b.at + Window \/ b.at > a.at + Window
      BY <2>1, <2>2, <2>3 DEF DrillsInv, AlertsAreApart
    <2>5. a.at \in Nat /\ b.at \in Nat /\ drill[r].started \in Nat
      BY <2>1, <2>2, <2>3 DEF DrillsInv, DrillsTypes, DrillRecord
    <2> QED BY <2>1, <2>2, <2>3, <2>4, <2>5, DrillsAssumption
  <1>3. DrillsInit => DrillsRest
    BY DEF DrillsInit, DrillsRest, FaultKeys, K8S_VALID_MODES
  <1>4. DrillsInv /\ DrillsRest /\ [DrillsNext]_drillVars => DrillsRest'
    BY DrillsRestStep DEF DrillsInv
  <1> QED BY <1>1, <1>2, <1>3, <1>4, DrillsInitInv, DrillsInvStep, DrillsTypesOfParts, PTL

\* The invariant of the drills holds in every reachable state.
THEOREM DrillsInvariant == DrillsSpec => []DrillsInv
  BY DrillsInitInv, DrillsInvStep, PTL DEF DrillsSpec

\* The drills clear what they set: once no run is under way nothing is set and
\* Kafka is not paused, unless a call of kubectl failed, a run was killed or a user
\* set a fault (estate_scenarios.py 166-180, 252-270).
THEOREM DrillsLeaveNothing == DrillsSpec => []CleanWhenOver
  BY DrillsSafety, PTL DEF DrillsSpec

\* Runs of one scenario, one after the other, pass on alerts that lie further apart
\* than ingest's window (estate_scenarios.py 94-148, smoke.py 52-58).
THEOREM DrillsPassApart == DrillsSpec => []PassesAreApart
  BY DrillsSafety, PTL DEF DrillsSpec

\* Every variable of the drills keeps its type.
THEOREM DrillsTypeSafety == DrillsSpec => []DrillsTypeOK
  BY DrillsSafety, PTL DEF DrillsSpec
===============================================================================
