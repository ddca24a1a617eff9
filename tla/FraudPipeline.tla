---------------------------- MODULE FraudPipeline ----------------------------
(***************************************************************************)
(* The bank's event pipeline in Kubernetes: cards-authorization publishes  *)
(* to card.authorized, fraud-scoring consumes it and publishes             *)
(* fraud.scored, open-banking-api consumes that.  fraud-scoring runs its   *)
(* work() on a ticker thread and on HTTP threads, beside the thread of its *)
(* consumer loop; all of them ask one FaultFile for the mode, which reads  *)
(* the mounted key of the ConfigMap at most once per ttl.                  *)
(***************************************************************************)
EXTENDS Naturals, Sequences, FiniteSets, Functions

CONSTANTS
    MaxCards,       \* bound on card.authorized
    MaxScored,      \* bound on fraud.scored
    Budgets         \* bounds on authorizations, patches of the ConfigMap and their
                    \* modes, requests to /work and restarts no fault caused; a
                    \* behaviour keeps one of them

ASSUME FraudBounds == MaxCards \in Nat

Normal == ""
FraudModes == {"crashloop", "lag", "latency"}       \* latency stands for model-drift too
PodThreads == {"ticker", "http", "loop"}
CardEvents == 1 .. MaxCards

VARIABLES
    configMap,  \* the key of fraud-scoring, and the copy the kubelet mounted
    fault,      \* FaultFile: cached mode, and whether it is younger than the ttl
    thread,     \* each thread of the pod: its step and the mode it works under
    since,      \* _crashloop_since: none, set, or set ten seconds ago
    authorized, \* card.authorized: its end; the group's position and commit
    evicted,    \* the group gave the partition up: no poll for too long
    out,        \* published to fraud.scored: the buffer, and the log
    failed,     \* history: cards whose publish raised
    dropped,    \* history: cards whose event left the buffer for nowhere
    bank,       \* open-banking-api's position and commit in fraud.scored
    budget      \* what is left of the bounds

fraudVars == <<configMap, fault, thread, since, authorized, evicted, out, failed, dropped, bank, budget>>
podVars == <<fault, thread, since>>
kafkaVars == <<authorized, evicted, out, failed, dropped, bank>>

UseUp(what) == budget[what] > 0 /\ budget' = [budget EXCEPT ![what] = @ - 1]

AtRest == [pc |-> "rest", ask |-> "no", mode |-> Normal]

FraudInit ==
    /\ configMap = [key |-> Normal, mounted |-> Normal]
    /\ fault = [mode |-> Normal, fresh |-> FALSE]
    /\ thread = [t \in PodThreads |-> AtRest]
    /\ since = "none"
    /\ authorized = [end |-> 0, position |-> 0, committed |-> 0]
    /\ evicted = FALSE
    /\ out = [buffer |-> <<>>, log |-> <<>>]
    /\ failed = {} /\ dropped = {}
    /\ bank = [position |-> 0, committed |-> 0]
    /\ budget \in Budgets

----------------------------------------------------------------------------
(* The fault reaches the pod. *)

\* chaos_k8s.patch_fault; a mode the service does not know is run as normal.
Patch(m) ==
    /\ UseUp("patches") /\ m # configMap.key /\ m \in budget.modes \cup {Normal}
    /\ configMap' = [configMap EXCEPT !.key = m]
    /\ UNCHANGED <<podVars, kafkaVars>>

Sync ==
    /\ configMap.mounted # configMap.key
    /\ configMap' = [configMap EXCEPT !.mounted = configMap.key]
    /\ UNCHANGED <<podVars, kafkaVars, budget>>

TtlPasses ==
    /\ fault.fresh
    /\ fault' = [fault EXCEPT !.fresh = FALSE]
    /\ UNCHANGED <<configMap, thread, since, kafkaVars, budget>>

ThreadAt(t, step) == thread[t].pc = step /\ thread[t].ask = "no"
Goto(t, step) == thread' = [thread EXCEPT ![t] = [AtRest EXCEPT !.pc = step]]

\* FaultFile.current on the way to the next step: a fresh answer is taken from
\* the cache; a stale one is marked fresh, and read from the file.
AskMode(t, from, to) ==
    /\ ThreadAt(t, from)
    /\ fault' = [fault EXCEPT !.fresh = TRUE]
    /\ thread' = [thread EXCEPT ![t] =
         IF fault.fresh THEN [pc |-> to, ask |-> "no", mode |-> fault.mode]
                        ELSE [pc |-> to, ask |-> "store", mode |-> configMap.mounted]]
    /\ UNCHANGED <<configMap, since, kafkaVars>>

\* Mutant of StoreMode: an empty mode does not replace what is cached.
StoreSomeMode(t) ==
    /\ thread[t].ask = "store"
    /\ fault' = [fault EXCEPT !.mode = IF thread[t].mode = Normal THEN @ ELSE thread[t].mode]
    /\ thread' = [thread EXCEPT ![t].ask = "no", ![t].mode = fault'.mode]
    /\ UNCHANGED <<configMap, since, kafkaVars, budget>>

\* What was read is stored in the cache, however long ago it was read.
StoreMode(t) ==
    /\ thread[t].ask = "store"
    /\ fault' = [fault EXCEPT !.mode = thread[t].mode]
    /\ thread' = [thread EXCEPT ![t].ask = "no"]
    /\ UNCHANGED <<configMap, since, kafkaVars, budget>>

GetMode(t) ==
    \/ t = "ticker" /\ AskMode(t, "rest", "work") /\ UNCHANGED budget
    \/ t = "http" /\ AskMode(t, "rest", "work") /\ UseUp("requests")
    \/ t = "loop" /\ AskMode(t, "rest", "polling") /\ UNCHANGED budget
    \/ t = "loop" /\ AskMode(t, "message", "score") /\ UNCHANGED budget
    \/ StoreMode(t)

----------------------------------------------------------------------------
(* work(), once a second by the ticker, and for each request to /work. *)

TenSeconds ==
    /\ since = "set"
    /\ since' = "due"
    /\ UNCHANGED <<configMap, fault, thread, kafkaVars, budget>>

\* Mutant of Work: the ticker survives sys.exit as the HTTP threads do.
WorkSurvives(t) ==
    /\ ThreadAt(t, "work")
    /\ since' = IF thread[t].mode # "crashloop" \/ since = "due" THEN "none" ELSE "set"
    /\ Goto(t, "rest")
    /\ UNCHANGED <<configMap, fault, kafkaVars, budget>>

\* Under any mode but crashloop the clock of the crash is reset; the first
\* sight of crashloop starts it.  In an HTTP thread sys.exit only ends that thread.
Work(t) ==
    /\ ThreadAt(t, "work")
    /\ since' = IF thread[t].mode # "crashloop" THEN "none"
                ELSE IF since = "none" THEN "set" ELSE since
    /\ thread[t].mode = "crashloop" /\ since = "due" => t = "http"
    /\ Goto(t, "rest")
    /\ UNCHANGED <<configMap, fault, kafkaVars, budget>>

\* A new process: nothing cached, the buffer lost, the group resumed.
NewPod ==
    /\ fault' = [mode |-> Normal, fresh |-> FALSE]
    /\ thread' = [t \in PodThreads |-> AtRest]
    /\ since' = "none"
    /\ authorized' = [authorized EXCEPT !.position = authorized.committed]
    /\ evicted' = FALSE
    /\ dropped' = dropped \cup Range(out.buffer)
    /\ out' = [out EXCEPT !.buffer = <<>>]
    /\ UNCHANGED <<configMap, failed, bank>>

\* The ticker turns SystemExit into an exit of the process.
TickerExits ==
    /\ ThreadAt("ticker", "work") /\ thread["ticker"].mode = "crashloop" /\ since = "due"
    /\ NewPod
    /\ UNCHANGED budget

PodKilled ==
    /\ UseUp("kills")
    /\ NewPod

----------------------------------------------------------------------------
(* Kafka. *)

\* cards-authorization's work() publishes under every mode; a publish that
\* raises is counted and forgotten, and leaves the topic as it is.
Authorize ==
    /\ UseUp("cards") /\ authorized.end < MaxCards
    /\ authorized' = [authorized EXCEPT !.end = @ + 1]
    /\ UNCHANGED <<configMap, podVars, evicted, out, failed, dropped, bank>>

\* A loop that is paused does not poll; the group's coordinator gives up on it.
Evict ==
    /\ ~evicted /\ ThreadAt("loop", "rest") /\ fault.mode = "lag"
    /\ evicted' = TRUE
    /\ UNCHANGED <<configMap, podVars, authorized, out, failed, dropped, bank, budget>>

Paused ==
    /\ ThreadAt("loop", "polling") /\ thread["loop"].mode = "lag"
    /\ Goto("loop", "rest")
    /\ UNCHANGED <<configMap, fault, since, kafkaVars, budget>>

\* Mutant of Poll: what is taken is committed (enable.auto.commit).
PollCommits ==
    LET from == IF evicted THEN authorized.committed ELSE authorized.position
    IN  /\ ThreadAt("loop", "polling") /\ thread["loop"].mode # "lag"
        /\ evicted' = FALSE /\ from < authorized.end
        /\ authorized' = [authorized EXCEPT !.position = from + 1, !.committed = from + 1]
        /\ Goto("loop", "message")
        /\ UNCHANGED <<configMap, fault, since, out, failed, dropped, bank, budget>>

\* poll: an evicted member joins again and resumes from the commit.
Poll ==
    LET from == IF evicted THEN authorized.committed ELSE authorized.position
    IN  /\ ThreadAt("loop", "polling") /\ thread["loop"].mode # "lag"
        /\ evicted' = FALSE
        /\ authorized' = [authorized EXCEPT !.position = IF from < authorized.end THEN from + 1 ELSE from]
        /\ Goto("loop", IF from < authorized.end THEN "message" ELSE "rest")
        /\ UNCHANGED <<configMap, fault, since, out, failed, dropped, bank, budget>>

\* handle_card_authorized: the message in hand is the one at the position.
PublishScore ==
    /\ ThreadAt("loop", "score") /\ Len(out.buffer \o out.log) < MaxScored
    /\ out' = [out EXCEPT !.buffer = Append(@, authorized.position)]
    /\ Goto("loop", "commit")
    /\ UNCHANGED <<configMap, fault, since, authorized, evicted, failed, dropped, bank, budget>>

\* A publish that raises returns from the handler before its commit.
PublishRaises ==
    /\ ThreadAt("loop", "score")
    /\ failed' = failed \cup {authorized.position}
    /\ Goto("loop", "rest")
    /\ UNCHANGED <<configMap, fault, since, authorized, evicted, out, dropped, bank, budget>>

\* Mutant of Commit: the offset committed is one too far.
CommitNext ==
    /\ ThreadAt("loop", "commit")
    /\ authorized' = [authorized EXCEPT !.committed = authorized.position + 1]
    /\ Goto("loop", "rest")
    /\ UNCHANGED <<configMap, fault, since, evicted, out, failed, dropped, bank, budget>>

\* The commit is asynchronous: it may never reach the coordinator.
Commit ==
    /\ ThreadAt("loop", "commit")
    /\ \E c \in {authorized.committed, authorized.position} : authorized' = [authorized EXCEPT !.committed = c]
    /\ Goto("loop", "rest")
    /\ UNCHANGED <<configMap, fault, since, evicted, out, failed, dropped, bank, budget>>

\* The broker takes the oldest event of the buffer.
Delivered ==
    /\ out.buffer # <<>>
    /\ out' = [buffer |-> Tail(out.buffer), log |-> Append(out.log, Head(out.buffer))]
    /\ UNCHANGED <<configMap, podVars, authorized, evicted, failed, dropped, bank, budget>>

\* It takes it, and its answer is lost: the producer sends the event again.
DeliveredUnheard ==
    /\ out.buffer # <<>> /\ Len(out.buffer \o out.log) < MaxScored
    /\ out' = [out EXCEPT !.log = Append(@, Head(out.buffer))]
    /\ UNCHANGED <<configMap, podVars, authorized, evicted, failed, dropped, bank, budget>>

\* The producer gives the oldest event up after its delivery timeout; no callback
\* hears of it, and the card may be committed already.
Expired ==
    /\ out.buffer # <<>>
    /\ dropped' = dropped \cup {Head(out.buffer)}
    /\ out' = [out EXCEPT !.buffer = Tail(@)]
    /\ UNCHANGED <<configMap, podVars, authorized, evicted, failed, bank, budget>>

\* open-banking-api counts and commits; its restart resumes from the commit.
HandleScored ==
    /\ bank.position < Len(out.log)
    /\ \E c \in {bank.committed, bank.position + 1} :
          bank' = [position |-> bank.position + 1, committed |-> c]
    /\ UNCHANGED <<configMap, podVars, authorized, evicted, out, failed, dropped, budget>>

BankRestarts ==
    /\ UseUp("kills")
    /\ bank' = [bank EXCEPT !.position = bank.committed]
    /\ UNCHANGED <<configMap, podVars, authorized, evicted, out, failed, dropped>>

----------------------------------------------------------------------------
TickerStep == GetMode("ticker") \/ Work("ticker") \/ TickerExits
HttpStep == GetMode("http") \/ Work("http")
LoopStep ==
    \/ GetMode("loop")
    \/ Paused \/ Poll \/ PublishScore \/ PublishRaises \/ Commit

FraudNext ==
    \/ \E m \in FraudModes \cup {Normal} : Patch(m)
    \/ Sync \/ TtlPasses \/ TenSeconds
    \/ TickerStep \/ HttpStep \/ LoopStep
    \/ PodKilled \/ Authorize \/ Evict
    \/ Delivered \/ DeliveredUnheard \/ Expired \/ HandleScored \/ BankRestarts

\* Threads run, time passes, the kubelet syncs; nothing forces a restart, an
\* authorization or an HTTP request.
FraudFairness ==
    /\ WF_fraudVars(Sync) /\ WF_fraudVars(TtlPasses) /\ WF_fraudVars(TenSeconds)
    /\ WF_fraudVars(TickerStep) /\ WF_fraudVars(LoopStep)

FraudSpec == FraudInit /\ [][FraudNext]_fraudVars /\ FraudFairness

\* Every variable has its type, and no offset runs past the one before it.
FraudTypeOK ==
    /\ configMap \in [{"key", "mounted"} -> FraudModes \cup {Normal}]
    /\ fault \in [mode : FraudModes \cup {Normal}, fresh : BOOLEAN]
    /\ thread \in [PodThreads -> [pc : {"rest", "work", "polling", "message", "score", "commit"},
                               ask : {"no", "store"}, mode : FraudModes \cup {Normal}]]
    /\ since \in {"none", "set", "due"} /\ evicted \in BOOLEAN
    /\ authorized.committed <= authorized.position /\ authorized.position <= authorized.end
    /\ bank.committed <= bank.position /\ bank.position <= Len(out.log)
    /\ failed \subseteq CardEvents /\ dropped \subseteq CardEvents

\* Every card the group committed was published or waits in the producer's buffer,
\* but for those whose publish raised and those whose event left the buffer for
\* nowhere, at a restart or at the delivery timeout: what is committed is what
\* produce() took, never what no one has handled, through pauses, evictions and
\* restarts (service.py 131-144, kafka.py 76-78, 160-174).  It is not that a
\* commit follows the publish's success, as service.py 111-113 has it.
CommittedIsAccounted ==
    1 .. authorized.committed \subseteq Range(out.buffer) \cup Range(out.log) \cup failed \cup dropped

\* A lag drill only delays: whenever the key stays cleared the consumer catches
\* up, whichever thread read the file last and however long it was paused.
LagEnds == []<>(configMap.key # Normal \/ authorized.position = authorized.end)

\* While the key says crashloop the process exits again and again; requests to
\* /work, which share the clock of the crash, cannot keep it alive.
CrashloopCrashes == <>[](configMap.key = "crashloop") => []<><<TickerExits>>_fraudVars
===============================================================================
