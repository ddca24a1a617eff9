----------------------------- MODULE ChaosFaults -----------------------------
(***************************************************************************)
(* The fault drills of the cloud estates.  The console (and bankops chaos) *)
(* puts and deletes rows of the faults table; a row is active until its    *)
(* time comes, and stays in the table after that.  The AWS Lambdas read    *)
(* the table at every run, customer-notifications asks the console's list  *)
(* and caches the answer, chaos_probe sets a fault, waits for its alert    *)
(* and clears it.  The clock counts half minutes.                          *)
(***************************************************************************)
EXTENDS Integers, FiniteSets

CONSTANTS
    MaxTime,        \* bound on the clock
    Durations,      \* lifetimes people give a fault
    Txns,           \* authorisations that payments may send
    MaxReceive,     \* receives of the ledger queue before its dead-letter queue
    ChaosLimits     \* the service a behaviour is about, and bounds on its sets, clears,
                    \* failed polls, probes, calls of the probe that break and
                    \* authorisations

ASSUME ChaosBounds ==
    MaxTime \in Nat /\ MaxReceive \in Nat /\ Durations \subseteq Nat

Ttl == 2
NoFault == "none"
VALID_MODES == [payments |-> {"errors", "latency", "pool"},
                ledger   |-> {"lag", "reconciliation-mismatch"},
                auth     |-> {"jwks-rotation", "lockouts"},
                notifications |-> {"provider-429", "backlog"}]
Targets == DOMAIN VALID_MODES
CloudModes == UNION {VALID_MODES[s] : s \in Targets}

VARIABLES
    now,
    table,      \* the faults table: service -> row, or NoRow
    chances,    \* what is left of the bounds
    cache,      \* ChaosClient: cached mode, when it was cached, the polls that failed since it was read
    sent,       \* the last batch of notifications: the mode, the time, and the failed polls behind it
    active,     \* history: when each mode of notifications was last active
    txn,        \* authorisations: where, and their receives
    probe       \* chaos_probe: its step, its service, and what went wrong

chaosVars == <<now, table, chances, cache, sent, active, txn, probe>>

NoRow == [mode |-> NoFault, until |-> 0, by |-> NoFault]
Never == -Ttl
NotPolled == [mode |-> NoFault, at |-> Never, failed |-> 0]
NotBegun == [pc |-> "idle", on |-> NoFault, failed |-> FALSE, broken |-> FALSE]

ChaosInit ==
    /\ now = 0
    /\ table = [s \in Targets |-> NoRow]
    /\ chances \in ChaosLimits
    /\ cache = NotPolled
    /\ sent = [mode |-> NoFault, at |-> 0, failed |-> 0]
    /\ active = [m \in VALID_MODES["notifications"] |-> Never]
    /\ txn = [t \in Txns |-> [at |-> "unsent", receives |-> 0]]
    /\ probe = NotBegun

Chance(what) == chances[what] > 0 /\ chances' = [chances EXCEPT ![what] = @ - 1]

\* current_fault, and the "active" of list_faults.
Current(s) == IF table[s].until > now THEN table[s].mode ELSE NoFault

\* The mode that is active after this step was active now.
Noted == active' = [m \in DOMAIN active |->
                      IF Current("notifications")' = m THEN now' ELSE active[m]]

Passes ==
    /\ now < MaxTime
    /\ now' = now + 1
    /\ UNCHANGED <<table, chances, cache, sent, txn, probe>>
    /\ Noted

PutRow(s, m, d, who) ==
    /\ s \in chances.on /\ m \in VALID_MODES[s]
    /\ table' = [table EXCEPT ![s] = [mode |-> m, until |-> now + d, by |-> who]]

\* POST and DELETE /chaos/{service}; a set replaces whoever's fault is there.
set_fault(s, m, d) ==
    /\ Chance("sets")
    /\ PutRow(s, m, d, "user")
    /\ UNCHANGED <<now, cache, sent, txn, probe>>
    /\ Noted

clear_fault(s) ==
    /\ Chance("clears") /\ table[s] # NoRow
    /\ table' = [table EXCEPT ![s] = NoRow]
    /\ UNCHANGED <<now, cache, sent, txn, probe>>
    /\ Noted

\* A mode that errors or finds the pool exhausted raises before it sends.
PaymentsRun(t) ==
    /\ txn[t].at = "unsent"
    /\ Current("payments") \notin {"errors", "pool"}
    /\ txn' = [txn EXCEPT ![t].at = "queue"]
    /\ Chance("txns")
    /\ UNCHANGED <<now, table, cache, sent, active, probe>>

\* Mutant of LedgerRun: a lagging record is sent anew instead of failed.
LedgerResends(t) ==
    /\ txn[t].at = "queue"
    /\ txn' = [txn EXCEPT ![t].at = IF Current("ledger") = "lag" THEN "queue" ELSE "posted"]
    /\ UNCHANGED <<now, table, chances, cache, sent, active, probe>>

\* A lagging ledger reports every record of its batch as failed.
LedgerRun(t) ==
    /\ txn[t].at = "queue"
    /\ IF txn[t].receives = MaxReceive
       THEN txn' = [txn EXCEPT ![t].at = "dead"]
       ELSE txn' = [txn EXCEPT ![t].receives = @ + 1,
                               ![t].at = IF Current("ledger") = "lag" THEN "queue" ELSE "posted"]
    /\ UNCHANGED <<now, table, chances, cache, sent, active, probe>>

\* send_batch under the mode that current_mode answers.
Batch(c) ==
    /\ cache' = c
    /\ sent' = [c EXCEPT !.at = now]
    /\ UNCHANGED <<now, table, active, txn, probe>>

\* Mutant of CacheFresh: the last moment counts as fresh.
CacheFreshLonger == now - cache.at <= Ttl

CacheFresh == now - cache.at < Ttl

BatchFromCache == CacheFresh /\ Batch(cache) /\ UNCHANGED chances

BatchAfterPoll ==
    /\ ~CacheFresh
    /\ Batch([mode |-> Current("notifications"), at |-> now, failed |-> 0])
    /\ UNCHANGED chances

\* A poll that fails goes on with the cached mode for another lifetime.
BatchAfterFailedPoll ==
    /\ ~CacheFresh
    /\ Chance("failures")
    /\ Batch([cache EXCEPT !.at = now, !.failed = @ + 1])

\* The Function's process is replaced: nothing is cached.
FunctionRestarts ==
    /\ Chance("failures")
    /\ cache' = NotPolled
    /\ UNCHANGED <<now, table, sent, active, txn, probe>>

----------------------------------------------------------------------------
(* chaos_probe.run: set, then wait for alert and verdict under try, finally clear. *)

ProbeSets(s, m, d) ==
    /\ probe = NotBegun
    /\ Chance("probes")
    /\ PutRow(s, m, d, "probe")
    /\ probe' = [probe EXCEPT !.pc = "wait", !.on = s]
    /\ UNCHANGED <<now, cache, sent, txn>>
    /\ Noted

\* The answer to the POST is lost: http raises before the try.
ProbeSetLost(s, m, d) ==
    /\ probe = NotBegun
    /\ Chance("breaks")
    /\ PutRow(s, m, d, "probe")
    /\ probe' = [pc |-> "over", on |-> s, failed |-> TRUE, broken |-> TRUE]
    /\ UNCHANGED <<now, cache, sent, txn>>
    /\ Noted

\* Mutant of ProbeWaited: a wait that fails skips the finally.
ProbeWaitFails ==
    /\ probe.pc = "wait"
    /\ \E bad \in BOOLEAN :
          probe' = [probe EXCEPT !.pc = IF bad THEN "over" ELSE "judge", !.failed = bad]
    /\ UNCHANGED <<now, table, chances, cache, sent, active, txn>>

\* Each wait returns, times out or raises; the finally runs either way.
ProbeWaited ==
    /\ probe.pc = "wait"
    /\ \E bad \in BOOLEAN :
          probe' = [probe EXCEPT !.pc = IF bad THEN "clear" ELSE "judge", !.failed = bad]
    /\ UNCHANGED <<now, table, chances, cache, sent, active, txn>>

ProbeJudged ==
    /\ probe.pc = "judge"
    /\ \E bad \in BOOLEAN : probe' = [probe EXCEPT !.pc = "clear", !.failed = bad]
    /\ UNCHANGED <<now, table, chances, cache, sent, active, txn>>

ProbeClears ==
    /\ probe.pc = "clear"
    /\ table' = [table EXCEPT ![probe.on] = NoRow]
    /\ probe' = [probe EXCEPT !.pc = "over"]
    /\ UNCHANGED <<now, chances, cache, sent, txn>>
    /\ Noted

\* The DELETE fails, or the probe is killed.
ProbeBreaks ==
    /\ probe.pc \in {"wait", "judge", "clear"}
    /\ Chance("breaks")
    /\ probe' = [probe EXCEPT !.pc = "over", !.failed = TRUE, !.broken = TRUE]
    /\ UNCHANGED <<now, table, cache, sent, active, txn>>

ChaosNext ==
    \/ Passes
    \/ \E s \in Targets : \E m \in VALID_MODES[s], d \in Durations :
          set_fault(s, m, d) \/ ProbeSets(s, m, d) \/ ProbeSetLost(s, m, d)
    \/ \E s \in Targets : clear_fault(s)
    \/ \E t \in Txns : PaymentsRun(t) \/ LedgerRun(t)
    \/ BatchFromCache \/ BatchAfterPoll \/ BatchAfterFailedPoll \/ FunctionRestarts
    \/ ProbeWaited \/ ProbeJudged \/ ProbeClears \/ ProbeBreaks

\* The ledger's queue keeps delivering; nothing forces time, users or the probe.
ChaosFairness == \A t \in Txns : WF_chaosVars(LedgerRun(t))

ChaosSpec == ChaosInit /\ [][ChaosNext]_chaosVars /\ ChaosFairness

\* Every variable has its type, and no batch or poll lies in the future.
ChaosTypeOK ==
    /\ now \in 0 .. MaxTime
    /\ \A s \in Targets : table[s] = NoRow \/ table[s].mode \in VALID_MODES[s]
    /\ cache.mode \in CloudModes \cup {NoFault} /\ cache.at <= now
    /\ sent.mode \in CloudModes \cup {NoFault} /\ sent.at <= now
    /\ \A t \in Txns : txn[t].receives \in 0 .. MaxReceive
    /\ probe.pc \in {"idle", "wait", "judge", "clear", "over"}

\* A drill on notifications is over within one lifetime of the cache after its
\* fault was cleared, replaced or ran out, unless a poll has failed since; a row
\* that ran out stays in the table (notifications.py 80-102, store.py 144-147).
NotificationsStop ==
    sent.mode # NoFault /\ sent.failed = 0 => sent.at < active[sent.mode] + Ttl

\* However the probe's waits end, no fault of its own is active after it, unless
\* one of its own calls broke (chaos_probe.py 97-114).
ProbeLeavesNothing ==
    probe.pc = "over" /\ ~probe.broken => \A s \in Targets : table[s].by # "probe"

\* Every authorisation that payments sent is posted or given up, whatever the
\* lag does (ledger/handler.py 18-30, bank.tf 41-49).
LedgerSettles == \A t \in Txns : []<>(txn[t].at # "queue")
===============================================================================
