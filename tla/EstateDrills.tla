----------------------------- MODULE EstateDrills -----------------------------
(***************************************************************************)
(* The fault drills of the Kubernetes estate.  estate_scenarios sets a key *)
(* of the nordwind-faults ConfigMap, or pauses the operator of Kafka and   *)
(* deletes the broker, waits for the rule and for the verdict, and undoes  *)
(* it in a finally.  chaos_k8s and bankops chaos do the same one call at a *)
(* time.  Nothing here expires by itself: what is not undone stays.        *)
(***************************************************************************)
EXTENDS Integers, FiniteSets

CONSTANTS
    Runs,           \* runs of estate_scenarios
    Window,         \* ingest's de-duplication window
    DrillLimits     \* the scenarios a behaviour plays, and bounds on seconds, on runs
                    \* of the tools by users and on calls that break

ASSUME DrillsAssumption == Window \in Nat

Scenarios == {"cards-timeouts", "fraud-lag", "broker-down"}
OnKafka == "broker-down"
FaultKey == [s \in Scenarios \ {OnKafka} |->
                IF s = "cards-timeouts" THEN "cards-authorization" ELSE "fraud-scoring"]
FaultMode == [s \in Scenarios \ {OnKafka} |-> IF s = "cards-timeouts" THEN "timeouts" ELSE "lag"]
K8S_VALID_MODES == [x \in {"cards-authorization", "fraud-scoring"} |->
                       IF x = "cards-authorization" THEN {"timeouts", "issuer-down"}
                       ELSE {"model-drift", "latency", "crashloop", "lag"}]
FaultKeys == DOMAIN K8S_VALID_MODES
Cleared == ""

VARIABLES
    clock,      \* in seconds
    key,        \* the ConfigMap: key -> mode
    paused,     \* the Kafka resource has the pause annotation
    broker,     \* the broker's pod set: "gone", "starting" or "ready"
    firing,     \* rules that Alertmanager shows as active
    alertsOf,   \* the alerts of each rule that ingest stored: when, and whether judged
    drill,      \* each run: its step, scenario, start, and the alert it passed on
    allowed,    \* what is left of the bounds
    disturbed   \* history: a call failed, a run was killed, or a user set a fault

drillVars == <<clock, key, paused, broker, firing, alertsOf, drill, allowed, disturbed>>
estateVars == <<clock, key, paused, broker, firing, alertsOf>>

Unstarted == [pc |-> "idle", on |-> Cleared, started |-> 0, saw |-> -1, after |-> {}]

DrillsInit ==
    /\ clock = 0
    /\ key = [k \in FaultKeys |-> Cleared]
    /\ paused = FALSE /\ broker = "ready"
    /\ firing = {} /\ alertsOf = [s \in Scenarios |-> {}]
    /\ drill = [r \in Runs |-> Unstarted]
    /\ allowed \in DrillLimits
    /\ disturbed = FALSE

Allow(what) == allowed[what] > 0 /\ allowed' = [allowed EXCEPT ![what] = @ - 1]
StepTo(r, pc) == drill' = [drill EXCEPT ![r].pc = pc]
Over(r) == StepTo(r, "over")
Fails(r) == drill' = [drill EXCEPT ![r] = [@ EXCEPT !.pc = "over", !.saw = -1]]
DrillAt(r, pc) == drill[r].pc = pc

Faulty(s) == IF s = OnKafka THEN broker = "gone" ELSE key[FaultKey[s]] = FaultMode[s]

----------------------------------------------------------------------------
(* The calls of kubectl. *)

patch_fault(k, mode) == key' = [key EXCEPT ![k] = mode] /\ UNCHANGED <<paused, broker>>

annotate(on) == paused' = on /\ UNCHANGED <<key, broker>>

delete_broker_podset == broker' = "gone" /\ UNCHANGED <<key, paused>>

NoCall == UNCHANGED <<key, paused, broker>>

\* A user of chaos_k8s or bankops chaos; the tools refuse a mode their table lacks.
UserPatches(k, mode) ==
    /\ mode \in K8S_VALID_MODES[k] \cup {Cleared}
    /\ Allow("user")
    /\ patch_fault(k, mode)
    /\ disturbed' = (disturbed \/ mode # Cleared)
    /\ UNCHANGED <<clock, firing, alertsOf, drill>>

\* kafka broker-down, for users: the annotation, then the delete if the first call
\* worked.  Nobody undoes it but the user.
UserDownsBroker ==
    /\ Allow("user")
    /\ paused' = TRUE /\ broker' \in {broker, "gone"}
    /\ disturbed' = TRUE
    /\ UNCHANGED <<clock, key, firing, alertsOf, drill>>

\* kafka clear, for users; the wait that follows changes nothing.
UserResumes ==
    /\ Allow("user")
    /\ annotate(FALSE)
    /\ UNCHANGED <<clock, firing, alertsOf, drill, disturbed>>

----------------------------------------------------------------------------
(* A run of estate_scenarios. *)

\* The start is noted to the second, before the fault is set.
Begin(r, s) ==
    /\ DrillAt(r, "idle") /\ s \in allowed.on
    /\ drill' = [drill EXCEPT ![r] = [@ EXCEPT !.pc = IF s = OnKafka THEN "pause" ELSE "set",
                                               !.on = s, !.started = clock,
                                               !.after = {q \in Runs : DrillAt(q, "over")}]]
    /\ UNCHANGED <<estateVars, allowed, disturbed>>

Sets(r) ==
    /\ DrillAt(r, "set")
    /\ patch_fault(FaultKey[drill[r].on], FaultMode[drill[r].on])
    /\ StepTo(r, "rule")
    /\ UNCHANGED <<clock, firing, alertsOf, allowed, disturbed>>

Pauses(r) ==
    /\ DrillAt(r, "pause")
    /\ annotate(TRUE)
    /\ StepTo(r, "delete")
    /\ UNCHANGED <<clock, firing, alertsOf, allowed, disturbed>>

Deletes(r) ==
    /\ DrillAt(r, "delete")
    /\ delete_broker_podset
    /\ StepTo(r, "rule")
    /\ UNCHANGED <<clock, firing, alertsOf, allowed, disturbed>>

\* wait_for_rule_firing looks at the name only, whenever the rule began to fire.
RuleSeen(r) ==
    /\ DrillAt(r, "rule") /\ drill[r].on \in firing
    /\ StepTo(r, "spine")
    /\ UNCHANGED <<estateVars, allowed, disturbed>>

\* Mutant of VerdictSeen: an alert from before the start will do.
AnyVerdictSeen(r) ==
    /\ DrillAt(r, "spine")
    /\ \E a \in alertsOf[drill[r].on] :
          a.judged /\ drill' = [drill EXCEPT ![r] = [@ EXCEPT !.pc = "undo", !.saw = a.at]]
    /\ UNCHANGED <<estateVars, allowed, disturbed>>

\* wait_for_spine_verdict takes an alert received since the start that has a verdict.
VerdictSeen(r) ==
    /\ DrillAt(r, "spine")
    /\ \E a \in alertsOf[drill[r].on] :
          /\ a.judged /\ a.at >= drill[r].started
          /\ drill' = [drill EXCEPT ![r] = [@ EXCEPT !.pc = "undo", !.saw = a.at]]
    /\ UNCHANGED <<estateVars, allowed, disturbed>>

\* Mutant of WaitFails: nothing is undone.
WaitFailsAtOnce(r) ==
    /\ drill[r].pc \in {"rule", "spine"}
    /\ Fails(r)
    /\ UNCHANGED <<estateVars, allowed, disturbed>>

\* A wait passes its deadline, gets an answer other than 200 or raises, or the
\* alert came over the wrong route; the finally runs all the same.
WaitFails(r) ==
    /\ drill[r].pc \in {"rule", "spine"}
    /\ StepTo(r, "undo")
    /\ UNCHANGED <<estateVars, allowed, disturbed>>

\* Mutant of Restore: the broker is waited for, the operator not resumed.
RestoreFault(r) ==
    IF drill[r].on = OnKafka THEN NoCall ELSE patch_fault(FaultKey[drill[r].on], Cleared)

Restore(r) ==
    IF drill[r].on = OnKafka THEN annotate(FALSE)
    ELSE patch_fault(FaultKey[drill[r].on], Cleared)

Undoes(r) ==
    /\ DrillAt(r, "undo")
    /\ Restore(r)
    /\ IF drill[r].on = OnKafka THEN StepTo(r, "ready") ELSE Over(r)
    /\ UNCHANGED <<clock, firing, alertsOf, allowed, disturbed>>

\* wait_for_broker_ready returns, or raises when one of its waits times out.
Ready(r) ==
    /\ DrillAt(r, "ready")
    /\ IF broker = "ready" THEN Over(r) ELSE Fails(r)
    /\ UNCHANGED <<estateVars, allowed, disturbed>>

\* A call of kubectl fails, its effect done or not.  Before the try, that is
\* while setting, pausing and deleting, and in the finally, nothing is undone.
CallFails(r) ==
    /\ drill[r].pc \in {"set", "pause", "delete", "undo"}
    /\ Allow("breaks")
    /\ \/ NoCall
       \/ DrillAt(r, "set") /\ patch_fault(FaultKey[drill[r].on], FaultMode[drill[r].on])
       \/ DrillAt(r, "pause") /\ annotate(TRUE)
       \/ DrillAt(r, "delete") /\ delete_broker_podset
       \/ DrillAt(r, "undo") /\ Restore(r)
    /\ Fails(r)
    /\ disturbed' = TRUE
    /\ UNCHANGED <<clock, firing, alertsOf>>

RunKilled(r) ==
    /\ drill[r].pc \notin {"idle", "over"}
    /\ Allow("breaks")
    /\ Fails(r)
    /\ disturbed' = TRUE
    /\ UNCHANGED estateVars

----------------------------------------------------------------------------
(* The estate: the operator, the rules, the way of an alert to its verdict. *)

Reconcile ==
    /\ ~paused /\ broker # "ready"
    /\ broker' = IF broker = "gone" THEN "starting" ELSE "ready"
    /\ UNCHANGED <<clock, key, paused, firing, alertsOf, drill, allowed, disturbed>>

RuleChanges(s) ==
    /\ Faulty(s) # (s \in firing)
    /\ firing' = IF Faulty(s) THEN firing \cup {s} ELSE firing \ {s}
    /\ UNCHANGED <<clock, key, paused, broker, alertsOf, drill, allowed, disturbed>>

\* A notification of a firing rule reaches ingest, which stores an alert unless
\* one of the same rule is still in the window.  A rule notifies seldom enough for
\* the index to have caught up; module Ingest has what comes faster.
NotifyIngest(s) ==
    /\ s \in firing
    /\ \A a \in alertsOf[s] : clock - a.at > Window
    /\ alertsOf' = [alertsOf EXCEPT ![s] = @ \cup {[at |-> clock, judged |-> FALSE]}]
    /\ UNCHANGED <<clock, key, paused, broker, firing, drill, allowed, disturbed>>

\* A triage takes longer than a second.
JudgeAlert(s) ==
    /\ \E a \in alertsOf[s] :
          /\ ~a.judged /\ a.at < clock
          /\ alertsOf' = [alertsOf EXCEPT ![s] = (@ \ {a}) \cup {[a EXCEPT !.judged = TRUE]}]
    /\ UNCHANGED <<clock, key, paused, broker, firing, drill, allowed, disturbed>>

SecondPasses ==
    /\ Allow("seconds")
    /\ clock' = clock + 1
    /\ UNCHANGED <<key, paused, broker, firing, alertsOf, drill, disturbed>>

RunStep(r) ==
    \/ Sets(r) \/ Pauses(r) \/ Deletes(r)
    \/ RuleSeen(r) \/ VerdictSeen(r) \/ WaitFails(r)
    \/ Undoes(r) \/ Ready(r)

DrillsNext ==
    \/ \E k \in FaultKeys : \E mode \in K8S_VALID_MODES[k] \cup {Cleared} : UserPatches(k, mode)
    \/ UserDownsBroker \/ UserResumes
    \/ \E r \in Runs :
          \/ \E s \in Scenarios : Begin(r, s)
          \/ RunStep(r)
          \/ CallFails(r) \/ RunKilled(r)
    \/ Reconcile \/ SecondPasses
    \/ \E s \in Scenarios : RuleChanges(s) \/ NotifyIngest(s) \/ JudgeAlert(s)

\* A run goes on: its waits have deadlines.  The operator reconciles.
DrillsFairness == (\A r \in Runs : WF_drillVars(RunStep(r))) /\ WF_drillVars(Reconcile)

DrillsSpec == DrillsInit /\ [][DrillsNext]_drillVars /\ DrillsFairness

\* Every variable has its type; an alert or a run's start is not in the future.
DrillsTypeOK ==
    /\ clock \in Nat
    /\ \A k \in FaultKeys : key[k] \in K8S_VALID_MODES[k] \cup {Cleared}
    /\ paused \in BOOLEAN /\ broker \in {"gone", "starting", "ready"}
    /\ firing \subseteq Scenarios
    /\ \A s \in Scenarios : alertsOf[s] \subseteq [at : 0 .. clock, judged : BOOLEAN]
    /\ \A r \in Runs : drill[r].started <= clock /\ drill[r].saw <= clock

\* When no run is under way, every fault they set is cleared and Kafka is
\* reconciled again, however the waits ended and whoever cleared in between;
\* only a failed call of kubectl, a killed run or a user's own fault leaves
\* something behind (estate_scenarios.py 166-180, 252-270).
CleanWhenOver ==
    ((\A r \in Runs : drill[r].pc \in {"idle", "over"}) /\ ~disturbed) =>
        ~paused /\ \A k \in FaultKeys : key[k] = Cleared

Passed(r) == drill[r].pc = "over" /\ drill[r].saw # -1

\* Two runs of one scenario, one after the other, never pass on one alert, and
\* inside ingest's window the second cannot pass at all (smoke.py 52-58), unless
\* ingest stores two alerts in one window, as it may while its index lags.
PassesAreApart ==
    \A q, r \in Runs :
        (q \in drill[r].after /\ drill[q].on = drill[r].on /\ Passed(q) /\ Passed(r))
            => drill[r].saw > drill[q].saw + Window

\* However the runs overlap, and whoever resumes the operator meanwhile, the
\* broker comes back, again and again, unless a call of kubectl failed or a run
\* was killed (estate_scenarios.py 236-271, chaos_k8s.py 89-131).
BrokerComesBack == []<>(broker = "ready" \/ disturbed)

----------------------------------------------------------------------------
(* What makes CleanWhenOver and PassesAreApart inductive.                   *)

DrillSteps == {"idle", "set", "pause", "delete", "rule", "spine", "undo", "ready", "over"}
DrillRecord ==
    [pc : DrillSteps, on : Scenarios \cup {Cleared}, started : Nat, saw : Int,
     after : SUBSET Runs]

DrillsTypes ==
    /\ clock \in Nat /\ paused \in BOOLEAN
    /\ key \in [FaultKeys -> {"timeouts", "issuer-down", "model-drift", "latency",
                              "crashloop", "lag", Cleared}]
    /\ alertsOf \in [Scenarios -> SUBSET [at : Nat, judged : BOOLEAN]]
    /\ drill \in [Runs -> DrillRecord]

\* A run is where its scenario lets it be.
OnItsWay ==
    \A r \in Runs :
        /\ drill[r].pc = "set" => drill[r].on \in Scenarios \ {OnKafka}
        /\ drill[r].pc \in {"pause", "delete", "ready"} => drill[r].on = OnKafka
        /\ drill[r].pc \in {"rule", "spine", "undo"} => drill[r].on \in Scenarios

\* Whatever is set or paused, some run will undo.
WillUndo ==
    disturbed \/
       /\ \A k \in FaultKeys : key[k] # Cleared =>
             \E r \in Runs : /\ drill[r].pc \in {"rule", "spine", "undo"}
                             /\ drill[r].on # OnKafka /\ FaultKey[drill[r].on] = k
       /\ paused => \E r \in Runs :
             drill[r].pc \in {"delete", "rule", "spine", "undo"} /\ drill[r].on = OnKafka

\* Two alerts of a rule are further apart than the window; a verdict takes time.
AlertsAreApart ==
    \A s \in Scenarios : \A a, b \in alertsOf[s] :
        /\ a.at = b.at \/ a.at > b.at + Window \/ b.at > a.at + Window
        /\ a.at <= clock /\ (a.judged => a.at < clock)

\* A run passed on an alert of its rule, not older than itself; those over when
\* it began stay over, and what they passed on is older than its start.
SawAnAlert ==
    \A r \in Runs :
        /\ drill[r].started <= clock
        /\ drill[r].saw # -1 =>
              /\ drill[r].pc \notin {"idle", "set", "pause", "delete", "rule", "spine"}
              /\ drill[r].on \in Scenarios
              /\ \E a \in alertsOf[drill[r].on] : a.at = drill[r].saw
              /\ drill[r].started <= drill[r].saw /\ drill[r].saw < clock
        /\ \A q \in drill[r].after : drill[q].pc = "over" /\ drill[q].saw < drill[r].started
        /\ drill[r].pc = "idle" => drill[r].after = {}

DrillsInv == DrillsTypes /\ OnItsWay /\ WillUndo /\ AlertsAreApart /\ SawAnAlert
===============================================================================
