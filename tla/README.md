# TLA+ models of oncall-triage

Models of the alert pipeline of this repository, checked with TLC, and proofs
about them, checked with TLAPS. Paths below are relative to the repository root.

## The system

Alerts come from three estates and an operator, are stored and de-duplicated by
one Lambda, triaged by another that calls a language model, and shown on a
console.

    CloudWatch -> SNS --------------------------+
    Azure Monitor -> alert_forwarder -----------+
    Alertmanager -> alert_forwarder (route B) --+-> ingest --> alerts table --> console API
    Alertmanager -> alerts_bridge -> Kafka      |      |            ^               |
        alerts.raw -> kafka_relay (route A) ----+      v            |            console
    bankops fire -------------------------------+   alerts queue -> triage worker
                                                     ^     |            |
                                        replay-dlq --+--- DLQ       verdicts table
                                                                        |
                                              slo_reporter (daily) -----+

### Inventory

| Component | State it keeps | Operations | Hard behaviour | What makes it correct |
|---|---|---|---|---|
| ingest `services/ingest/handler.py`, `dedup.py` | alerts table (status, occurrences, received_at), its `by_fingerprint` index | accept a request, per alert: find_open, then bump, or put_new and send_message | concurrent requests, index lag, dying between calls, payloads of several alerts, senders that retry | occurrences add up; duplicates only from races; what was accepted was enqueued |
| ingest algorithms `adapters/`, `canonical.py`, `scrub.py`, `hmac_auth.py` | none | to_canonical, fingerprint, scrub, verify | batches with one bad alert, lost answers and repeats, two routes for one condition | an answer is true of what was done; a second open alert of a condition only from a request that was not shown the first, whichever routes bring it; Luhn's check mistakes no number one digit off |
| triage worker `services/triage_worker/` | verdicts table with the counter `cap#<day>`; the batch in hand | per record: read, take a slot, call the model, put the verdict, update the status; report failures | redelivery, duplicates, batches that fail in part, crashes, SDK repeats, midnight | one final verdict per alert; the cap; nothing deleted unjudged; every message disposed of |
| queue and DLQ `infra/aws/messaging.tf` | messages, receive counts | deliver, reappear, redrive, delete | at-least-once delivery | (environment) |
| replay-dlq `cli/bankops/commands.py` | messages received and not moved | receive, send copy, delete original | interruption, overlapping runs | no alert lost on the way |
| console API `services/console_api/` | known issues, faults | list and get alerts, teach, delete, set and clear faults | two queries while alerts change status, one page per query, check-then-act teaching | each alert listed, once; what was taught last stays |
| triage agent `oncall_triage/` | known issues (table or JSON file) | check_known, remember_known, recent alerts | unlocked read-modify-write of the file, kills in the middle | the store is never half-written |
| route A `bank/k8s/alerts_bridge`, `kafka_relay`, `_shared/kafka.py` | producer buffer, topic, committed offset | webhook, flush, poll, post with retries, commit | flush that times out, handler exceptions, commits that cover skipped messages, shutdown | what was answered 202 reaches ingest, or is counted as dropped |
| alert forwarder `bank/azure/alert_forwarder` | none | classify, sign, post | a lost answer, a sender that repeats | the status of ingest is passed on |
| bank services `bank/k8s`, `bank/aws`, `bank/azure` | consumer positions, producer buffer, ledger queue | work, handle events | three threads of one pod, pauses that cost the partition, commits that are late | a commit is never ahead of the work; what was sent settles |
| fault injection `bank/k8s/_shared/faults.py`, `bank/aws/common.py`, `cli`, `scripts/chaos_k8s.py` | ConfigMap, faults table, caches | set, clear, expire, read through a cache | stale caches, failed polls, one clock shared by threads | a cleared fault ends; crashloop does crash |
| SLO reporter `bank/ops/slo_reporter` | none | daily report | day boundaries compared as text, pages, retries | a report has its day but for the first second, an alert one day but at midnight |
| known-issues export and import | an object per export | scan, upload; read, post | a scan is not a snapshot, imports that die | a backup has what stayed; an import that reports success restored it |
| scenario scripts `scripts/` | where each run is | set a fault, wait for rule and verdict, undo | waits that time out, overlapping runs, old alerts | nothing is left behind; no run passes on another's alert |
| console page, infrastructure | none | rendering; declarations | | not modelled |

The parts meet in three places: the alerts table (ingest creates and bumps,
the worker updates the status, console and reporter read), the alerts queue
(ingest and replay-dlq send, the worker consumes) and the verdicts table (the
worker writes, everything else reads). Nothing locks across two of them, so the
properties below are about sequences of single-item writes.

## Modules

| Module | Models | Composes |
|---|---|---|
| `SpineState` | status column, alerts queue and DLQ: send, deliver, redrive, delete, reappear | |
| `TriageWorker` | `lambda_handler`, `_process_record`, `DailyCap`, the events around an invocation | extends `SpineState` |
| `Ingest` | `_process_alert`, `_handle_http`, `_handle_sns`, `AlertStore`, index lag | extends `SpineState` |
| `DlqReplay` | `cmd_replay_dlq` | extends `SpineState` |
| `TriageLedger` | abstract: what triage promises | |
| `TriageSpine` | the three on shared tables and queues; refines `TriageLedger` | extends the three |
| `RouteA` | `handle_webhook`, the producer's buffer, the topic, `ConsumerLoop._run`, `handle_message`, commits | |
| `KnownIssues` | the known-issues table under `add_known_issue`, delete, `remember_issue`, the export and `bankops known-issues import` | |
| `JsonStore` | `JsonFileStore`: load, write beside, `os.replace` | |
| `SpineReads` | `list_alerts`, `recent_alerts`, the SLO reporter's query and report, over tables the spine writes | |
| `Intake` | forwarder, relay, SNS and `bankops fire` as senders; `verify`, the adapters, `fingerprint`, answers and repeats; Luhn's check | |
| `FraudPipeline` | cards-authorization, fraud-scoring with its ticker, HTTP and consumer threads, open-banking-api; `FaultFile` | |
| `ChaosFaults` | the faults table, payments and ledger, customer-notifications' `ChaosClient`, `chaos_probe` | |
| `EstateDrills` | `estate_scenarios`, `chaos_k8s`, `bankops chaos` on the ConfigMap and on Kafka | |
| `Estate` | the seven above side by side; a behaviour is about one of them | extends the seven |
| `MCTriageWorker`, `MCIngest`, `MCTriageSpine`, `MCRouteA`, `MCEstate`, `MCSpineReads` | instances and symmetry for TLC | |
| `TriageWorkerProofs`, `IngestProofs`, `RouteAProofs` | theorems about the module of that name | extend it |
| `TriageSpineProofs` | theorems about `TriageSpine` | extends it, `TriageWorkerProofs` and `IngestProofs` |
| `TablesProofs` | theorems about `JsonStore`, `SpineReads` and `KnownIssues` | extends the three |
| `FaultsProofs` | theorems about `Intake`, `FraudPipeline`, `ChaosFaults` and `EstateDrills` | extends the four |
| `EstateProofs` | theorems about `Estate` | extends it and the two above |
| `FiniteSums` | lemmas about induction and about sums over finite sets | |

### How state and actions correspond to the code

**Shared state.** `status[a]` is the status column, `"absent"` before the item
exists. `sqs[m]` says where message `m` is; every send uses a fresh id, `body[m]`
is the alert id in it, `receives[m]` its ApproximateReceiveCount. A visible
message with its receives used up is not handed out again but moved
(`DeadLetter`), as `maxReceiveCount` has it.

**TriageWorker.** An invocation `w` is at `pc[w]`: `"next"` is the loop of
`lambda_handler`, the record steps are the places of `_process_record` between
two calls that others can observe.

| Action | Code |
|---|---|
| `Invoke`, `TakeRecord` | event source mapping, `for record in event["Records"]` |
| `AlreadyTriaged`, `NoVerdictSeen` | handler.py 88-98 |
| `AcquireSlot`, `CapReached`, `SlotAnswerLost` | cap.py 23-37, handler.py 101-102 |
| `RunModel`, `ModelRaises` | handler.py 103, runner.py |
| `Decline` | handler.py 105-107 |
| `PutVerdict`, `VerdictTaken`, `PutAnswerLost` | handler.py 110-118 |
| `MarkTriaged`, `MarkRaises` | handler.py 120-125 |
| `RecordFails` | the `except` of handler.py 153, from any step |
| `ReturnBatch` | handler.py 159 and the deletion it causes |
| `Crash` | the 120 s timeout or a container that dies |
| `VisibilityTimeout`, `DuplicateDelivery`, `Redrive`, `NextDay` | queue and clock |

`NoVerdictSeen` is possible even when a verdict is there: `get_item` is
eventually consistent by default. `SlotAnswerLost` and `PutAnswerLost` are the
SDK repeating a request whose answer it did not get; the handler does not see
the repeat, only its outcome. `VisibilityTimeout` needs that no invocation holds
the message: 720 s is six times the Lambda's timeout. `DuplicateDelivery` is the
standard queue's own redelivery and has no such guard. A model run is one step
that ends in one of `ModelVerdicts`, because everything it does in between only
reads (the tools that teach write the known-issues table, which no part of the
spine reads back). `calls` is a history variable.

**Ingest.** A request `r` works through the alerts of `Payload[r]`; alert `i` of
it is `<<r, i>>`, its fingerprint `Payload[r][i]`. `Accept` is a request that
passed `verify` and the adapter, `FindOpen`, `Bump`, `PutNew`, `Enqueue` are the
four calls of `_process_alert`, `Respond` the 202 (or the SNS return).
`RequestFails` ends a request between any two calls. `BumpAnswerLost`,
`StoreAnswerLost` and `SendAnswerLost` are calls that took effect without an answer, so
that the SDK makes them again: an ADD counts twice, an unconditional put takes back what
was added meanwhile, a message is sent twice; `lost` counts them. A sender's retry is another
request with the same payload. `IndexItem` is the index catching up. Time is
counted in ticks longer than an invocation may last, so a request sees at most
one tick pass. `seen` is a history variable.

**DlqReplay.** `ReceiveDead` is the batch received, `SendCopy` and
`DeleteOriginal` are the two calls per message, `ReplayDies` is the command being
interrupted; overlapping runs may hold the same message, since it is hidden for
30 s only.

**TriageLedger** has `Store`, `Spend`, `Judge` and `Publish` on the tables alone.
`TriageSpine` refines it by the identity on `status`, `verdict` and `slots`.

**RouteA.** A webhook `w` is handled by a thread of its own; `buffer` is the one
producer they share, `log` every message the topic ever took, of which those up to
`start` are gone. The consumer thread has one message in `hand`.

| Action | Code |
|---|---|
| `Receive`, `Publish`, `PublishRaises`, `Answer`, `FlushRaises` | `do_POST`, alerts_bridge/service.py 52-80 |
| `Deliver`, `DeliverAnswerLost`, `Expire` | the producer's background thread (not idempotent, default timeout) |
| `BridgeRestart`, `RelayRestart` | a pod restarts at any point |
| `Truncate` | retention, or the broker's ephemeral storage |
| `Poll`, `BackToPoll` | `ConsumerLoop._run`, kafka.py 160-174 |
| `PostAccepted`, `PostFails`, `PostRaises` | `_post_once`, `_default_http` and the retries of `handle_message` |
| `Commit`, `CommitRaises`, `CommitLands` | `consumer.commit`, asynchronous by default |
| `Rejoin` | the consumer group gives the partition anew |

`flush` returning is one action, `Answer`, whether the buffer is empty or ten seconds
have passed: the code cannot tell. A message settles when ingest took it, when it was
counted as dropped, when its handler raised, or when the topic lost it; `gone`,
`relayed` and `raised` are history variables. The relay's posts arrive at ingest as
requests of the module `Ingest`.

**KnownIssues.** The table is `cards`; ids and `created_at` are numbers of puts. A teach
request is `TeachList` (the query and the choice of what to keep), a `TeachDelete` for
each older copy and `TeachPut`; `TeachDies` ends it between any two. `AgentRemembers` puts
with a new id unconditionally. `ExportPage` and `ExportStore` are the scan and the
object, `ImportItem` the loop of the import over the backup's items, which posts to the
same teach. `latest`,
`orphaned` and the fields `alone`, `gone`, `found`, `stayed`, `forgot` are history.

**JsonStore.** `path` and `tmp` are names, `content` the inodes they point to: a process
goes on writing to the inode it opened after another has moved the name. `LoadFile`,
`OpenTmp`, `WriteTmp`, `ReplaceFile` are the calls of `add_known`; `AdderKilled` may come
between any two.

**SpineReads.** `Stores`, `Judges`, `Marks` are what the spine does to the tables,
`Follows` the index catching up entry by entry. A list is a query per status and then its
answer; a report pages, and drops what has no verdict. Three moments make a day: midnight
itself, the rest of its second and the rest of the day, which is all that the comparison
of times as text tells apart (`Text`). `InDay` is what the query's BETWEEN on text
returns, `OfDay` the UTC day that a report is about; the two differ (see below).

**Intake.** A hook is one thing that is sent; `Forward`, `Relay`, `Fire`, `Publish` are its
tries, `HandleHttp` and `HandleSns` what ingest decides before its first alert,
`FindOpen`, `Bump`, `PutNew` and `SendMessage` the calls of `_process_alert` for the first
of the positions in the payload that are still `todo`, `Raises` a death or an exception
before, between or after any of them, also after the last alert's put, `Answered` and
`AnswerLost` what the sender learns and whether it repeats. `open` are the stored alerts
inside the window, `indexed` those that the lagging index shows; `IndexShows` and
`WindowPasses` may come at any time. `did` and `saw` are history: what the present try
has done of which condition, and the conditions its last find was shown. A hook has one
try at a time; `Ingest` has tries of one payload that overlap, and the clock of the window.

**FraudPipeline.** Each thread of the pod is at a step; `AskMode` and `StoreMode` are the
two halves of `FaultFile.current`, between which other threads run; `Work` and
`TickerExits` are `work()` on the ticker, where `sys.exit` ends the process, and on an
HTTP thread, where it ends the thread. `Poll`, `PublishScore`, `PublishRaises`, `Commit`
are the consumer loop with its handler; `Evict` is the coordinator giving up on a loop
that does not poll, `NewPod` what a restart keeps. The producer delivers in the
background: `Delivered`, `DeliveredUnheard` (the broker has it, the answer is lost, it is
sent again) and `Expired` (given up at the delivery timeout; no callback tells anyone).

**ChaosFaults.** The clock counts half minutes. `set_fault` and `clear_fault` are the
console's, `Current` is `current_fault` with its comparison of times. `PaymentsRun` and
`LedgerRun` are runs of the two Lambdas, `BatchFromCache`, `BatchAfterPoll` and
`BatchAfterFailedPoll` runs of customer-notifications. The probe sets, waits twice and
clears in its `finally`; `ProbeSetLost` and `ProbeBreaks` are calls of its own that fail.

**EstateDrills.** A run of a scenario is at `pc`: `Begin`, `Sets` or `Pauses` and
`Deletes`, `RuleSeen`, `VerdictSeen`, `WaitFails`, `Undoes`, `Ready`. `CallFails` is a
kubectl call that raises, its effect done or not; `RunKilled` any death. `UserPatches`,
`UserDownsBroker` and `UserResumes` are people with the same tools. `Reconcile` is the
operator, `RuleChanges` Alertmanager, `NotifyIngest` and `JudgeAlert` the spine as a
drill sees it. `disturbed` is history.

## What the runs check

| Run | Instance | Question |
|---|---|---|
| `worker` | 2 alerts, 2 messages, 2 invocations, 2 receives, cap 1, 2 days | `VerdictFinal`, `TriagedHasVerdict`, `DeletedHasVerdict`, `CallsWithinCap`, `DeclinedMeansExhausted` |
| `worker_live` | 2 alerts, 2 messages, 1 invocation, cap 1, fairness | `Disposed`, `EventuallyJudged` |
| `ingest` | 2 requests of 2 alerts each, `<<f, g>>` and `<<f, f>>`, 4 messages, 1 repeated SDK call, window 1, clock to 2 | `DuplicateOnlyByRace`, `OccurrencesAddUp`, `EnqueuedOnceStored`, `AcceptedIsEnqueued` |
| `spine` | 1 alert, 3 messages, 1 invocation, 2 replays, 1 receive | `UnjudgedIsAlive`, `LedgerSpec` |
| `route_a` | 1 webhook of 2 alerts, topic of 2 messages, 2 attempts, fairness | `CommittedIsSettled`, `AcceptedIsProduced`, `AcceptedEventuallySettled` |
| `estate` | seven parts, see below, fairness | fourteen safety and five action or liveness properties, see below |
| `capped_is_triaged` | 1 of each, 3 receives | violated, see below |
| `one_open_per_window` | as `ingest` | violated, see below |
| `unjudged_on_queue` | as `spine` | violated, see below |
| `accepted_left_buffer`, `committed_is_relayed` | as `route_a` | violated, see below |
| `newest_listed` | 3 alerts, pages of 2 | violated, see below |

Every passing run but `worker_live` also checks a type invariant.

**The run `estate`.** The parts around the spine share no state with each other, so their
product would only multiply states. `Estate` puts them side by side, and `part` says which
of them a behaviour is about; the others stay where they began. One run thus checks seven
independent specifications, each on its own bounds.

| Part | Bounds (one of each list per behaviour) | Properties |
|---|---|---|
| `KnownIssues` | 2 spellings of one pattern, 2 teachers and the import, 4 puts, pages of 2; 4 teaches, 1 memory, 1 delete, 1 death, or 1/1/2/1 and an export, or 3 memories, 1 delete and an export | `LatestTeachingStays`, `TeachingCollapses`, `ImportRestores`, `ExportHoldsWhatStayed` |
| `JsonStore` | 2 processes, 3 adds | `StoreSurvivesKill` |
| `SpineReads` | 2 alerts, pages of 1; a list over two moments, a report over two days, two over three | `ListMissesNothing`, `ReportsAddUp` |
| `Intake` | 2 or 3 hooks of up to 2 alerts, 2 tries, ages on both sides of the skew: one condition over two routes with different labels, a batch with a nameless alert, payloads of another shape, SNS and bankops; numbers of 3 digits | `AnswersAreTrue`, `SecondOnlyUnseen`, `ScrubTellsSlips` |
| `FraudPipeline` | 2 cards and 1 kill, or 1 card and a lag, or crashloop with 2 requests, or crashloop and another mode | `CommittedIsAccounted`, `LagEnds`, `CrashloopCrashes` |
| `ChaosFaults` | clock to 4, cache of 2, lifetimes 1 and 3; two sets and a clear, a failed poll, a probe, a probe that breaks, or one authorisation of 2 receives | `NotificationsStop`, `ProbeLeavesNothing`, `LedgerSettles` |
| `EstateDrills` | 2 runs, window 1; a user beside broker drills, a call that breaks, 3 seconds of one scenario, or a user and a break beside a lag drill | `CleanWhenOver`, `PassesAreApart`, `BrokerComesBack` |

A page smaller than what is stored makes paging happen; two spellings of a pattern make
the folded comparison matter; lifetimes below and above the cache's make a fault end
before and after it; two runs overlap or follow one another; three seconds and a window
of one let a second alert come only after the window of the first. A number of 3 digits
has a doubled digit between two that are not; a longer one only adds more of either.

**Bounds and why they are enough.** Races between invocations are pairwise: two
invocations, with two alerts, give every order of two records in one batch, in
two batches, and of two deliveries of one message. A cap of 1 makes the second
alert of a day hit it (a cap of 0, which lets one call through, is left to the theorem
`SpendBounded`), and two days cover a slot taken before midnight and used
after. With two receives a message both comes back and runs out of receives. In
`ingest`, two requests of two alerts give a race, a repeat inside the window and one
outside it (window 1 on a clock of 0 to 2), a repeat inside one payload and the half-done
request; the fourth message is the one that a repeated call sends again. In `spine`, three message ids are the original and two copies, so that
two replays of the same message both go through; one receive sends a message to
the DLQ after one failure, which keeps replays in reach. In `route_a`, two messages are the least for a commit to
cover another message, for a rejoin to go back over one and for a repeat of the
producer to crowd out a message, which then expires; with two attempts both a
retry and the last failure happen. `MaxLog` bounds the topic. `LastDay` and `LastTick`
bound the calendar and the clock; message ids run out, after which nothing is
sent: the properties checked there say what is true of what was sent.

**Symmetry** is used for the safety runs, over model values that only ever stand
in sets and functions; in `MCIngest` only over messages, since the payloads
differ, and never in a run with liveness properties.

**Fairness** (`WorkerFairness`). Weak fairness of an invocation's own progress:
a Lambda that runs goes on running, and a crash ends it instead. Strong fairness of
each message's delivery: the event source mapping polls for ever, but other
batches may occupy the concurrency again and again, so delivery is not
continuously possible. Weak fairness of the visibility timeout and of the
redrive, which SQS carries out. In `RouteA` the handlers' threads and the
consumer's thread go on running, and the producer delivers a message or gives it up
at its delivery timeout, all weakly fair. That commits land is not assumed.
`AcceptedEventuallySettled` has its condition in its own text: once restarts and
rejoins cease; a relay that restarts for ever settles nothing.
In `FraudPipeline` the ticker's and the consumer's threads go on (`kafka.py` and
`ticker.py` loop for ever), the kubelet syncs the ConfigMap, and time passes, so that a
cache gets stale and ten seconds end. In `ChaosFaults` the ledger's queue keeps delivering,
in `EstateDrills` a run goes on (each of its waits has a deadline) and the operator
reconciles when it may. All of these are weakly fair.
Nothing is fair that the system does not control: arrivals, failures, crashes,
duplicates, users, the change of day.

**No deadlock check.** All runs set `CHECK_DEADLOCK FALSE`: when every message is
disposed of and every request answered, the system is rightly idle.

### Disagreements between documents and code

- `capped_is_triaged`: the worker's README says an alert declined for the cap is
  still marked triaged rather than left queued. The verdict and the status are two
  writes; a worker that dies between them, or an SDK that repeats the put and meets
  its own verdict, leaves the alert queued for good, because the redelivery returns
  early (handler.py 97-98) and its message is deleted. `TriagedHasVerdict`, the
  converse, holds and is proved.
- `one_open_per_window`: DESIGN.md's dedup rule. Concurrent requests, or the index
  lag, store two open alerts of one fingerprint. `DuplicateOnlyByRace` says that
  nothing else does.
- `unjudged_on_queue`: slo.md says unjudged alerts are on the DLQ or awaiting
  redelivery. An ingest that dies between put_new and send_message leaves one on no
  queue; the sender's retry is deduplicated onto it. `UnjudgedIsAlive` says that once
  an alert was sent it is never lost.

- `accepted_left_buffer`: the bridge's docstring says 202 means every message left
  the producer's buffer. A flush that times out says so only in its return value,
  which kafka.py 81 drops. `AcceptedIsProduced` is what 202 does mean.
- `committed_is_relayed`: the relay's docstring says a message is committed after a
  successful post or after the last retry. A post that times out while waiting for the
  response raises an exception that is no `URLError`, skips the retries and the
  drop counter, and a later commit covers the message. `CommittedIsSettled` says
  that nothing else is passed over.
- `newest_listed`: the console's store says its index lists open alerts most recent
  first. The query asks for neither a descending order nor a second page, so with more
  open alerts than a page holds the oldest are shown and sorted. `ListMissesNothing` says
  that a list whose queries fit a page misses nothing.

These are exhibited by runs. Others the models contain and their properties allow, so
that no run shows them violated:

- `bank/ops/slo_reporter/handler.py` 13-16: the query "returns exactly yesterday's triaged
  alerts". Its bounds are midnights without a fraction, compared as text with times that
  mostly have one, and `.` sorts before `Z`. So a report leaves out the fractions of its
  day's first second and takes in those of the next day's, and an alert at midnight itself
  is in two reports. `ReportsAddUp` claims the UTC day but for these.
- `bank/k8s/fraud_scoring/service.py` 111-113: the handler "commits the message only once
  that publish has succeeded". It commits once `produce` has taken the score into its
  buffer; the score may still be lost there, at a restart or at the delivery timeout
  (`_shared/kafka.py` 76-78 asks for no delivery report). And a message whose publish raised is
  covered by the next one's commit. `CommittedIsAccounted` is what a commit does mean.
- `services/console_api/store.py` 119-128 carries `first_taught_at` over from the copy with
  the oldest `created_at`. A card taught again has a new `created_at`: with a copy
  that was added in between it sorts after that one, and is deleted with the older
  `first_taught_at`. `TeachingCollapses` claims a date no later than any copy's own, not
  the first teaching.
- A 500 from ingest does not mean that nothing happened: its alert may be stored, and if the
  invocation ended before the send, be on no queue. A sender that repeats is then
  deduplicated onto it, `bankops fire` does not repeat. `AnswersAreTrue` says so of a 500;
  `unjudged_on_queue` shows what becomes of such an alert.

## What is proved

`TriageWorkerProofs` proves about `WorkerSpec`, for every finite set of
invocations, any alerts and messages, batch size, cap, receive count and number of
days:

- `TypeCorrect`, `StatusFollowsVerdict`, `NothingFallsThrough`, `SpendBounded`,
  `DeclinedOnlyWhenSpent`: the invariants of the run `worker`;
- `VerdictFinalHolds`: its action property.

The assumptions are those of the modules: `MaxReceiveAssumption`, `NoneAssumption`,
`WorkersFinite` (for counting callers) and `WorkerAssumption`. All are evaluated by
TLC in the run `worker`.

**The argument.** None of the invariants is inductive alone. That a deletion
leaves no alert unjudged depends on what an invocation knew when it let a record
go: `WorkerInv` adds that what an invocation holds was sent (`HeldIsSent`), so that
a new message never has an id somebody holds; that a sent message names an alert
(`SentHasBody`); that records in `done` have a verdict (`DoneHasVerdict`), which
they keep because nothing removes one (`Persistence`); that there is a draft before
the put and a verdict before the mark (`DraftAtPut`, `VerdictAtMark`). For the
placeholder, an invocation on its way to decline has seen the slots exhausted
(`DecliningMeansExhausted`), and slots are never given back. For the cap, calls and
callers of a day are counted together: taking a slot adds one caller, calling turns
a caller into a call, everything else only loses callers. The step lemmas are about
`WorkerNext`, so that they serve the composition as well.

`RouteAProofs` proves about `Spec` of `RouteA`, for any webhooks of any sizes, any
number of attempts and any length of the topic (`RouteAssumption`):
`RouteTypeCorrect`, `NeverCommitsAhead` and `AcceptedWasProduced`, the invariants of
the run `route_a`. That commits never run ahead needs `RelayInv`: a commit lands long
after it was asked for, and a rejoin moves the position back to it, so it is not enough
to look at the committed offset. Everything up to the position is settled or in
hand, everything before the message in hand is settled, a message about to be
committed was relayed, and everything up to the offset asked for is settled. Each
move then copies one of these bounds to another, and the history only grows.
`BridgeInv` follows each handler through its payload: what it went through was
produced, or it remembers an error.

`IngestProofs` proves about `IngestSpec`, for any requests with payloads of any length,
any window and any number of repeated calls (`IngestAssumption`, by which every alert id is
one that a request makes): `IngestTypeCorrect`,
`DuplicatesNeedARace`, `AcceptedAreEnqueued`, `OccurrencesAreExact` and `SentOnceStored`,
all that the run `ingest` checks. A duplicate without a race would be an
alert stored although the index showed an open one of its window: `SeenIsOld` says that
what `find_open` saw was too old. That what is behind a request in its payload was sent
(`BehindIsSent`) needs to know that a stored alert belongs to a request that has come that
far (`StoredIsOfRequest`), and that an alert about to be stored is in no message and not
triaged (`PutIsUnsent`), since the put is unconditional and would take a verdict's status
back.

The two that count need sums. `OccurrencesAddUp` is not inductive because it speaks of
accepted requests only: `AddsUp` holds the sum of a fingerprint's occurrences between the
alerts that were counted for certain (`Handled`) and those that may have been (`Touched`)
plus the repeats, at every moment of every request, and a step moves one alert from one
side to the other and the sum by one at most (`OneCounts`). `SendsAddUp` counts the
messages against the alerts they are about, where a request that is about to repeat a
send is counted beforehand. Nothing says that requests or alerts are finitely many; at any
time only finitely many have been reached, and the sums are over those.

`TriageSpineProofs` proves about `Spec` of `TriageSpine`, for any numbers of all of these
and of overlapping replays: `SpineTypeCorrect`, `NothingIsLost` and
`SpineImplementsLedger`, the refinement. `WorkerInv` and `IngestInv` carry over because
each part's steps are what the other's lemmas allow the rest of the system to do
(`WorkerOthersStep`, `OthersStep`). That an unjudged alert has a message alive is not
inductive: a replay deletes an original whose copy it sent. `UncopiedIsAlive` asks for a
message that no run is about to delete, and `ReplayHoldsDead` says that what a run holds is
on the DLQ or was moved by another. For the refinement, `LiveDraftIsPaid` says that
whoever calls the model took a slot; the rest of the ledger's guards are in `WorkerInv`.

What the parts promise alone they promise together: `IngestHoldsInTheSpine` says so of
`OccurrencesAddUp`, `AcceptedIsEnqueued` and `DuplicateOnlyByRace`, `WorkerHoldsInTheSpine`
of the worker's four safety invariants. The counts carry over because the other parts leave
alone what ingest keeps and which alerts are stored (`CountOthers`). `EnqueuedOnceStored` is
about ingest alone: a replay sends a second message about an alert on purpose.

`TablesProofs` has three parts.

- `JsonStore`: `StoreIsNeverHalfWritten`, for any processes and adds (`FileAssumption`). As
  long as adds do not overlap, the one at work writes to the `.tmp` file, which is not the
  store (`AtWork`).
- `SpineReads`: `ListsMissNothing` and `ReportsAlwaysAddUp`, for any finite set of alerts,
  pages and limits of any size (`ReadBounds`). What a reader has yet to return is what
  needs an invariant: `ListCovers` says that an alert the index has held since the list
  began was returned, or is in the index under the status the list asks for next, which is
  why the list must ask for queued before triaged. `ReportCovers` says that what is due and was
  not returned lies after the position the report has come to, unless it is of the day's
  first second (`Overlooked`), which a page keeps since
  what it leaves over lies after all it returns (`PageIsOldest`). `IndexFollows` says that
  the index lags behind the table and never runs ahead of it.
- `KnownIssues`: `TeachingIsNeverLost`, `AloneTeachingCollapses`, `BackupIsRestored` and
  `ScanMissesNothing`, for any patterns, writers, puts and pages (`KnownBounds`).
  That the card taught last is in the table depends on what every other request deletes,
  and a request deletes what it saw long ago. `IdsHaveOwners` says that an id stands for one
  pattern for good, so that a deletion under way can only hit its own pattern, and then its
  request is known to be at work, or its id is orphaned. `AloneCollapses` says
  that what a request that is alone has yet to do covers all copies there are, `DatesKept`
  that it dates its card no later than any copy it found. The import's
  promise is carried by `ImportInv`, pattern by pattern: restored, or being posted; the
  export's by `ExportInv`, as for the report.

`FaultsProofs` has five.

- `Intake`, the answers: `AnswersTellTheTruth` and `SecondsAreUnseen`, for any hooks with
  any alerts, tries and deaths between any two calls (`IntakeBounds`, `HooksAreLists`,
  `ConditionsAreTold`; the last is what it means for two alerts to be of one condition:
  they differ at most in labels that the code leaves out of the fingerprint). `Fits` says
  for each step of a try what has been done by then, of which one alert at most is stored
  and unsent, between its put and its send; a try forgets what an earlier one did, and the
  answer is about the try. For the second alerts, `OpenIsOfItsCondition` says that a stored
  alert has the fingerprint of everything its condition sends (`SameFingerprint`, over the
  four adapters), so that a find that is shown it finds it. That there are second alerts
  at all, while the index lags or requests overlap, is the run `one_open_per_window`.
- `Intake`, the numbers: `ScrubTellsCardsApart`, for numbers of any length. Luhn's sum is a
  fold; `LuhnIsASum` turns it into a sum over the positions, from which one term can be
  taken out (`SumChanges` in `FiniteSums`), and one slip changes one term by less than ten.
- `FraudPipeline`: `CommitNeverAhead`, for any number of cards and whatever the threads, the
  coordinator, the producer's delivery and restarts do (`FraudBounds`). `WorkedOff` says that all up to the position
  is accounted for but the card in hand, and that the card in hand is not committed.
- `ChaosFaults`: `DrillsOnNotificationsEnd` and `ProbeCleansUp` (`ChaosBounds`). `DrillOfNow`
  bounds when the cached mode was last active, and so the mode of what was sent; `OwnRow`
  says that a row of the probe's is where the probe is, or one of its calls broke.
- `EstateDrills`: `DrillsLeaveNothing` and `DrillsPassApart`, for any number of overlapping
  runs and any window (`DrillsAssumption`). Whatever is set or paused, some run is still to
  undo it (`WillUndo`); two alerts of a rule are further apart than the window
  (`AlertsAreApart`), an alert a run passed on is not older than the run, and those over
  when it began had passed on older ones (`SawAnAlert`).

Each part has its type invariant as a theorem, too (`JsonStore` checks none). The proofs
use the initial states and the steps, never the fairness.

`EstateProofs` puts them together. `EstateRunsItsParts` says that a behaviour of the estate
is, in the variables of each part, a behaviour of that part, since a step moves one part
and leaves the others alone. From it follow `EstateTypeSafety` and, all at once,
the properties of the run `estate` (`EstateKeepsItsPromises`): the run checks the composition, the theorem says
that composing hid nothing.

Every inductive invariant was first checked by TLC as an invariant of the instance of its
module. All assumptions are evaluated by TLC in the runs `worker`, `ingest`, `spine`,
`route_a` and `estate`, whose modules extend those that make them.

**Induction.** The prover cannot use the library's induction rules, which take an operator
as a parameter. Where an argument is by induction over numbers or over finite sets it is
made with a set in place of the predicate: a set of naturals has a least element
(`LeastElement`, from the well-foundedness of inclusion among finite sets), so a set that
has 0 and the successors of its members has all (`InductiveSet`), and likewise for the
subsets of a finite set (`SubsetInduction`). `FiniteSums` has these, and on them rests what
the proofs know of sums: that a sum is well defined whatever the order, and changes by
what one term changes.

**Only model-checked.** Liveness (`Disposed`, `EventuallyJudged`,
`AcceptedEventuallySettled`, `LagEnds`, `CrashloopCrashes`, `LedgerSettles`,
`BrokerComesBack`), which with ENABLED is out of the prover's reach. Every invariant and
every action property of a passing run is a theorem. What the runs that expect a violation show is a
counterexample and needs no proof.

## What is not modelled

- The console's web page: it renders what the API returns and posts what a user types;
  the order of the calls it makes is free in the modules of the API.
- Terraform, Helm and the other declarations: nothing runs. Visibility, redrive, indexes,
  topics and replica counts are read from them.
- `c4_drift.py`, `estate_status.py`, the render scripts, `bankops tail` and `known`: they
  parse and print texts and change no state. `smoke.py` beyond its wait for a verdict:
  checks that read and compare.
- Text: the patterns with which the scrubber finds numbers, IBANs and emails; hashes and
  ULIDs, which are taken to be as different as what they are made of; the conversion of
  numbers for DynamoDB; the wording of answers.
- What the language model answers and which of its tools it calls when: any verdict at
  any time. What its tools write and read is modelled.
- The SLO reporter's percentiles, the figures and metrics the bank services make up, and
  `auth`, which keeps no state.
- Retention: messages expire after 4 days on the queue and 14 on the DLQ.
- Repeated SDK calls in the composition: the run `spine` sets `LostAnswers` to 0, because
  with 1 it passes the time a run may take; `ingest` has them alone, and the theorems
  about `TriageSpine` are for any number.
- Requests that are refused are in `Intake` and not in `Ingest`: they touch no state.
- The date read and the slot's update are one step in `TriageWorker`; the slot goes to the
  day of the update.
- An alert triaged after its day was reported is in no report, as docs/slo.md says of one
  that awaits redelivery past the reporting window, so `ReportsAddUp` claims an alert for one report at most and only what was
  triaged when a report began for that report.
- Overlapping adds to the JSON store lose records: nothing locks it, and nothing says it
  would not. `StoreSurvivesKill` stops at the first overlap (`alone`).
- In `RouteA`, offsets that start again at 1 after the broker lost its log: they go on
  where they were. `ConsumerLoop.stop`, which no service calls, and the pause of the loop,
  which the relay does not use; fraud-scoring's pause is in `FraudPipeline`.

## Reading order

`SpineState`, `TriageWorker`, `Ingest`, `DlqReplay` and `TriageSpine` are the core, and
`TriageLedger` says in fifty lines what they promise. `RouteA` and `Intake` are what comes
before it, `SpineReads` and `KnownIssues` what is around it, `FraudPipeline`,
`ChaosFaults` and `EstateDrills` the bank that raises the alerts and the drills that make
it do so.
