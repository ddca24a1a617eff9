-------------------------------- MODULE Intake --------------------------------
(***************************************************************************)
(* How an alert gets from its source into the alerts table, in what form:  *)
(* the forwarder and the relay wrap and sign what Alertmanager and Azure   *)
(* Monitor send, ingest verifies, parses, lets the adapter of the source   *)
(* make canonical alerts and processes one after the other; a sender that  *)
(* gets no good answer sends the same thing again.  The calls of one alert *)
(* are steps of their own, between which an invocation may die, and other  *)
(* requests move; one hook has one try at a time here, module Ingest has   *)
(* tries that overlap, occurrences and the clock of the window.            *)
(***************************************************************************)
EXTENDS Integers, Sequences, FiniteSets, Folds

CONSTANTS
    Groups,         \* sets of what may be sent, one of which a behaviour is about:
                    \* records [by, shape, alerts], the alerts a sequence of
                    \* [cond, firing, tag, resource, name, labels]
    Ages,           \* seconds between signing and arrival that may occur
    MaxTries,       \* bound on how often one thing is sent
    PanLength       \* digits of the numbers that the check of Luhn's sum covers

Empty == ""
MaxSkew == 300
\* Mutant of _EXCLUDED_FINGERPRINT_LABELS: the route stays in.
ExcludedButRoute == {"runbook"}
_EXCLUDED_FINGERPRINT_LABELS == {"route", "runbook"}
HiddenLabels == {"_source"}             \* the keys that start with an underscore
Elements(s) == {s[i] : i \in DOMAIN s}
Hooks == UNION Groups
Conds == UNION {{e.cond : e \in Elements(h.alerts)} : h \in Hooks}

ASSUME IntakeBounds == MaxTries \in Nat /\ PanLength \in Nat

VARIABLES
    req,        \* each hook: its step, tries, answer, positions of the alerts
                \* to process; history: conditions its last find was shown
    open,       \* the stored alerts that are inside the window
    indexed,    \* those of them that the index by_fingerprint shows
    did         \* history: hook -> what its last try did, of which condition

intakeVars == <<req, open, indexed, did>>

\* What is not in the group is not sent.
InGroup(G) == req = [h \in Hooks |-> [pc |-> IF h \in G THEN "new" ELSE "unsent",
                                     tries |-> 0, answer |-> 0, todo |-> {}, saw |-> {}]]

IntakeInit ==
    /\ \E G \in Groups : InGroup(G)
    /\ open = {} /\ indexed = {}
    /\ did = [h \in Hooks |-> {}]

Told(labels) == {l \in labels : l[1] \notin _EXCLUDED_FINGERPRINT_LABELS \cup HiddenLabels}
Fingerprint(source, service, name, labels) == <<source, service, name, Told(labels)>>

----------------------------------------------------------------------------
(* The adapters. *)

FirstOf(a, b) == IF a # Empty THEN a ELSE IF b # Empty THEN b ELSE "unknown"

Canonical(source, service, labels, e) ==
    [cond |-> e.cond,
     valid |-> service # Empty /\ e.name # Empty,
     fingerprint |-> Fingerprint(source, service, e.name, labels)]

\* _one_canonical of Alertmanager: a label names the service, or the job.
FromAlertmanager(receiver, e) ==
    Canonical("alertmanager", FirstOf(e.tag, e.resource),
              e.labels \cup {<<"service", e.tag>>,
                             <<"route", IF receiver = "route-a-kafka" THEN "A" ELSE "B">>}, e)

\* to_canonical of the others: a tag in the description names the service, or
\* the target, or a dimension; bankops says all of it.
FromAzureMonitor(e) == Canonical("azure-monitor", FirstOf(e.tag, e.resource), {}, e)
FromCloudWatch(e) == Canonical("cloudwatch", FirstOf(e.tag, e.resource), e.labels, e)
FromBankops(e) == Canonical("bankops", e.tag, e.labels, e)

Adapted(source, receiver, e) ==
    CASE source = "alertmanager" -> FromAlertmanager(receiver, e)
      [] source = "azure-monitor" -> FromAzureMonitor(e)
      [] source = "cloudwatch" -> FromCloudWatch(e)
      [] source = "bankops" -> FromBankops(e)

\* The positions of the alerts that fire.
FiringOf(alerts) == {i \in DOMAIN alerts : alerts[i].firing}

\* Mutant of AlertsFor: an alert that is not valid is passed over.
ValidAlertsFor(source, receiver, alerts) ==
    [i \in {i \in FiringOf(alerts) : Adapted(source, receiver, alerts[i]).valid} |->
        Adapted(source, receiver, alerts[i])]

\* What the adapter makes of a payload: the alerts that fire, in their order.
AlertsFor(source, receiver, alerts) ==
    [i \in FiringOf(alerts) |-> Adapted(source, receiver, alerts[i])]

----------------------------------------------------------------------------
(* Scrubbing. *)

\* Mutant of Weighted: a doubled digit is not reduced.
WeightedPlain(i, d) == IF i % 2 = 0 THEN d ELSE 2 * d

\* _luhn_ok: from the right, every other digit doubled, less nine above nine.
Weighted(i, d) == IF i % 2 = 0 THEN d ELSE IF 2 * d > 9 THEN 2 * d - 9 ELSE 2 * d

LuhnOk(digits) ==
    LET n == Len(digits)
    IN  MapThenFoldSet(+, 0, LAMBDA i : Weighted(n - i, digits[i]), LAMBDA S : CHOOSE i \in S : TRUE, 1 .. n) % 10 = 0

\* A number that is a card's is redacted; another is left as it is.
Redacted == <<>>
RedactPan(digits) == IF LuhnOk(digits) THEN Redacted ELSE digits

----------------------------------------------------------------------------
(* A hook on its way. *)

HookAt(h, pc) == req[h].pc = pc
Signed(h) == h.by # "sns"

\* classify: what looks like neither Azure's nor Alertmanager's is a 400.
SourceOf(h) ==
    CASE h.by = "bankops" -> "bankops"
      [] h.by = "sns" -> "cloudwatch"
      [] OTHER -> IF h.shape = "essentials" THEN "azure-monitor" ELSE "alertmanager"
ReceiverOf(h) == IF h.by = "relay" THEN "route-a-kafka" ELSE "route-b-forwarder"
CanonicalOf(h) == AlertsFor(SourceOf(h), ReceiverOf(h), h.alerts)

\* The alerts of a hook are in an order; what bankops fires is one alert.
ASSUME HooksAreLists ==
    \A h \in Hooks :
        /\ h.by \in {"relay", "forwarder", "sns", "bankops"}
        /\ DOMAIN h.alerts \subseteq Nat
        /\ h.by = "bankops" => \A i, j \in DOMAIN h.alerts : i = j

\* What is sent of one condition differs at most in labels that do not count.
ASSUME ConditionsAreTold ==
    \A g, h \in Hooks : \A e \in Elements(g.alerts), f \in Elements(h.alerts) :
        e.firing /\ f.firing /\ e.cond = f.cond =>
            /\ SourceOf(g) = SourceOf(h)
            /\ e.tag = f.tag /\ e.resource = f.resource /\ e.name = f.name
            /\ Told(e.labels) = Told(f.labels)

\* The next try of whoever sends h.
Sends(h, pc) ==
    /\ HookAt(h, "new") /\ req[h].tries < MaxTries
    /\ req' = [req EXCEPT ![h].tries = @ + 1, ![h].pc = pc, ![h].answer = 0]
    /\ did' = [did EXCEPT ![h] = {}]
    /\ UNCHANGED <<open, indexed>>

\* The forwarder refuses what it cannot classify.
Forward(h) == h.by = "forwarder" /\ Sends(h, IF h.shape = "other" THEN "refused" ELSE "wire")
Relay(h) == h.by = "relay" /\ Sends(h, "wire")
Fire(h) == h.by = "bankops" /\ Sends(h, "wire")
Publish(h) == h.by = "sns" /\ Sends(h, "wire")

\* verify: too old, or too new.
OutsideSkew(age) == age > MaxSkew \/ -age > MaxSkew

\* _handle_http before the first alert is processed: every alert is made first.
Answers(h, age) ==
    LET alerts == CanonicalOf(h)
    IN  IF OutsideSkew(age) THEN 401
        ELSE IF h.shape = "broken" THEN 400
        ELSE IF DOMAIN alerts = {} THEN 422
        ELSE IF \E i \in DOMAIN alerts : ~alerts[i].valid THEN 400
        ELSE 0

HandleHttp(h, age) ==
    /\ HookAt(h, "wire") /\ Signed(h)
    /\ LET answer == Answers(h, age)
       IN  req' = [req EXCEPT ![h].answer = answer,
                     ![h].pc = IF answer = 0 THEN "find" ELSE "answer",
                     ![h].todo = IF answer = 0 THEN DOMAIN CanonicalOf(h) ELSE {}]
    /\ UNCHANGED <<open, indexed, did>>

\* _handle_sns passes over what does not fire.
HandleSns(h) ==
    /\ HookAt(h, "wire") /\ ~Signed(h) /\ h.shape # "broken"
    /\ req' = [req EXCEPT ![h].pc = "find",
                          ![h].todo = DOMAIN CanonicalOf(h)]
    /\ UNCHANGED <<open, indexed, did>>

NextOf(todo) == CHOOSE i \in todo : \A j \in todo : i <= j

NextAlert(h) == CanonicalOf(h)[NextOf(req[h].todo)]

\* _process_alert, for the next alert.  find_open: an open one the index shows
\* is bumped, else the alert is new.
FindOpen(h) ==
    /\ HookAt(h, "find") /\ req[h].todo # {} /\ NextAlert(h).valid
    /\ LET found == \E o \in indexed : o.fingerprint = NextAlert(h).fingerprint
       IN  req' = [req EXCEPT ![h].pc = IF found THEN "bump" ELSE "put",
                              ![h].saw = {o.cond : o \in indexed}]
    /\ UNCHANGED <<open, indexed, did>>

\* The alert is through, the next one follows.
Through(h) == req' = [req EXCEPT ![h].pc = "find", ![h].todo = @ \ {NextOf(@)}, ![h].saw = {}]

Bump(h) ==
    /\ HookAt(h, "bump")
    /\ did' = [did EXCEPT ![h] = @ \cup {<<NextAlert(h).cond, "bumped">>}]
    /\ Through(h)
    /\ UNCHANGED <<open, indexed>>

PutNew(h) ==
    /\ HookAt(h, "put")
    /\ open' = open \cup {[cond |-> NextAlert(h).cond, fingerprint |-> NextAlert(h).fingerprint,
                           of |-> <<h, req[h].tries, NextOf(req[h].todo)>>]}
    /\ did' = [did EXCEPT ![h] = @ \cup {<<NextAlert(h).cond, "stored">>}]
    /\ req' = [req EXCEPT ![h].pc = "send", ![h].saw = {}]
    /\ UNCHANGED indexed

SendMessage(h) ==
    LET cond == NextAlert(h).cond
    IN  /\ HookAt(h, "send")
        /\ did' = [did EXCEPT ![h] = (@ \ {<<cond, "stored">>}) \cup {<<cond, "sent">>}]
        /\ Through(h)
        /\ UNCHANGED <<open, indexed>>

\* The index shows a stored alert when it gets to it, and find_open leaves out
\* what was received longer than the window ago.
IndexShows(o) ==
    /\ o \in open \ indexed
    /\ indexed' = indexed \cup {o}
    /\ UNCHANGED <<req, open, did>>
WindowPasses(o) ==
    /\ o \in open
    /\ open' = open \ {o} /\ indexed' = indexed \ {o}
    /\ UNCHANGED <<req, did>>

Processed(h) ==
    /\ HookAt(h, "find") /\ req[h].todo = {}
    /\ req' = [req EXCEPT ![h].pc = "answer", ![h].answer = 202]
    /\ UNCHANGED <<open, indexed, did>>

\* The invocation dies or a call raises, before the first alert, between the
\* calls of one, or after the last; an SNS record that is not valid among others.
Raises(h) ==
    /\ req[h].pc \in {"wire", "find", "bump", "put", "send"}
    /\ req' = [req EXCEPT ![h] = [@ EXCEPT !.pc = "answer", !.answer = 500, !.todo = {}, !.saw = {}]]
    /\ UNCHANGED <<open, indexed, did>>

\* What the sender makes of ingest's answer.  The forwarder tells its caller
\* 202 or 502, and its callers may repeat a 502; the relay repeats what is
\* not a 2xx, SNS what raised, bankops nothing.
Repeats(h) ==
    CASE h.by \in {"forwarder", "relay"} -> ~(200 <= req[h].answer /\ req[h].answer < 300)
      [] h.by = "sns" -> req[h].answer = 500
      [] OTHER -> FALSE

Answered(h) ==
    /\ HookAt(h, "answer")
    /\ req' = [req EXCEPT ![h].pc = IF Repeats(h) THEN "new"
                                    ELSE CASE req[h].answer = 202 -> "accepted"
                                           [] req[h].answer = 500 -> "failed"
                                           [] OTHER -> "refused"]
    /\ UNCHANGED <<open, indexed, did>>

\* The answer does not come.  The forwarder's call raises, a 500 of its own that
\* its caller may repeat; the relay repeats a broken connection, and is left
\* not knowing by a timeout, as bankops always is.
AnswerLost(h) ==
    /\ HookAt(h, "answer") /\ Signed(h)
    /\ \E then \in {"new", "unknown"} :
          /\ h.by = "forwarder" => then = "new"
          /\ h.by = "bankops" => then = "unknown"
          /\ req' = [req EXCEPT ![h].pc = then]
    /\ UNCHANGED <<open, indexed, did>>

IntakeNext ==
    \/ \E h \in Hooks :
        \/ Forward(h) \/ Relay(h) \/ Fire(h) \/ Publish(h)
        \/ \E age \in Ages : HandleHttp(h, age)
        \/ HandleSns(h)
        \/ FindOpen(h) \/ Bump(h) \/ PutNew(h) \/ SendMessage(h)
        \/ Processed(h) \/ Raises(h)
        \/ Answered(h) \/ AnswerLost(h)
    \/ \E o \in open : IndexShows(o) \/ WindowPasses(o)

IntakeSpec == IntakeInit /\ [][IntakeNext]_intakeVars

Firing(h) == {e.cond : e \in {e \in Elements(h.alerts) : e.firing}}
Effects == {"bumped", "stored", "sent"}
DoneFor(h) == {d[1] : d \in did[h]}
Unsent(h) == {d \in did[h] : d[2] = "stored"}
HasAnswer(h, codes) ==
    req[h].pc \in {"answer", "accepted", "refused", "failed"} /\ req[h].answer \in codes

\* Every variable has its type.
IntakeTypeOK ==
    /\ \A h \in Hooks :
        /\ req[h].pc \in {"new", "wire", "find", "bump", "put", "send", "answer",
                          "accepted", "refused", "failed", "unknown", "unsent"}
        /\ req[h].tries \in 0 .. MaxTries /\ req[h].answer \in {0, 202, 400, 401, 422, 500}
        /\ req[h].saw \subseteq Conds
        /\ did[h] \subseteq Conds \X Effects
    /\ \A o \in open : o.cond \in Conds
    /\ indexed \subseteq open

\* What ingest answers is true of the try it answers, after any number of tries: a
\* 202 means that each firing alert was bumped, or stored and sent, a 4xx that
\* nothing was, not even for the valid ones of a batch with an invalid one
\* (handler.py 102-112, function_app.py 41-54).  A 500 may leave alerts stored
\* or bumped, also when its sender does not repeat it; of them at most one is
\* stored and not sent (handler.py 51-55).
AnswersAreTrue ==
    \A h \in Hooks :
        /\ HasAnswer(h, {202}) => DoneFor(h) = Firing(h) /\ Unsent(h) = {}
        /\ HasAnswer(h, 400 .. 499) \/ HookAt(h, "refused") => did[h] = {}
        /\ HasAnswer(h, {500}) => DoneFor(h) \subseteq Firing(h) /\ \A d, e \in Unsent(h) : d = e

\* A condition gets a second alert inside the window only from a request whose
\* find_open was not shown the first, whichever routes brought the two, in
\* whichever batches, however often they were repeated, and whatever labels
\* differ by route (canonical.py 52-61, handler.py 46-51).  While the index lags,
\* or when two requests both find before either puts, there are two.
SecondOnlyUnseen == \A h \in Hooks : HookAt(h, "put") => NextAlert(h).cond \notin req[h].saw

\* Scrubbing takes no number for a card's that is one digit off one, whichever
\* digit it is and however it is weighted (scrub.py 15-32).
Numbers == [1 .. PanLength -> 0 .. 9]
Slips(n) == {[n EXCEPT ![i] = d] : i \in 1 .. PanLength, d \in 0 .. 9} \ {n}
OneSlipShows == \A n \in Numbers : LuhnOk(n) => \A slip \in Slips(n) : RedactPan(slip) = slip
ScrubTellsSlips == open # {} => OneSlipShows
===============================================================================
