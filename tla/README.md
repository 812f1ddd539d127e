# RegFlow in TLA+

This directory models RegFlow's back end: the concurrent, failing, restarting
parts of a program that watches regulators' portals, works out which businesses
a change concerns, keeps a document pipeline and a set of workers going, and
serves an API in which requests overlap.
Modules are translated from the source (paths below are relative to the root of
the repository); TLC checks them on small instances, and TLAPS proves the safety
properties for every value of the constants. `PROJECT.json` maps each definition
to the lines it stands for, and lists the hazards that led to each property.

    tlc -workers 2 -config WorkQueue.cfg MCWorkQueue     # one run
    tlapm WorkQueueProofs.tla                            # the proofs of a module

## 1. The system

### 1.1 Components, their state and what they do

| component | state | operations | talks to |
|---|---|---|---|
| Work queues and workers, `workers/` | two Redis lists per queue, a local job per worker | enqueue; BRPOPLPUSH, handle, ack / nack | DAG 03 enqueues; handlers in `services/orchestration` |
| IRDA regulation watch, `services/agents/irda`, `services/scheduler` | tables `regulation_snapshots`, `regulation_deltas`, Redis keys `portal_override:*` | poll every portal, compare, heartbeat or insert; process the deltas found | mock portals, database, obligation graph, alerts, COCE, web sockets, ledger |
| Obligation graph, `services/knowledge/obligation_graph` | a list of nodes in each process's memory, with versions | build, match a business, update a node | IRDA updates it; COCE builds its own |
| COCE cascade, `services/agents/coce` | table `obligations` | evaluate a change for every business | called by IRDA within its loop |
| Document pipeline, `airflow_home/dags`, `services/orchestration` | JSON files under `data/pipeline`, hash files under `data/raw/_hashes`, the vector store | collect, process, embed, analyse, report | Airflow datasets start the next DAG; Redis queues |
| Dry run, `services/orchestration/pipeline.py`, `scripts/run_v2_pipeline.py` | the same kinds of files in a directory of its own | the stages of the pipeline as one program | nobody: it is killed or overlaps with itself |
| Metrics and lineage, `services/orchestration/metrics.py`, `lineage.py` | one JSON file rewritten by everybody; one log appended to | increment; record | the dry run and every DAG task |
| Realtime channel, `services/api/websocket`, `apps/web/hooks/useWebSocket.ts` | a list of sockets; a client's socket and timers | connect, disconnect, broadcast; reconnect | IRDA broadcasts |
| Dual-rail review, `services/agents/drca`, `hitl`, `caal` | tables `hitl_queue`, `caal_ledger` | compare, escalate, resolve, write evidence | the assistant and the console |
| Obligations, payroll, GST, compliance, HITL and admin APIs, `services/api/routers` | tables `obligations`, `payroll_dues`, `gst_filing_status`; a session per request | select and insert, load and flush, delete all | the console; each other, through the tables |
| Rule engine, `services/knowledge/rule_engine` | none | arithmetic on salaries and turnovers | rail A, payroll |
| Web console, `apps/web` | forms, hooks, toasts | fetch and show | the API |

`PROJECT.json` lists all of them with their files and their status.

### 1.2 Where it is hard

* **Several processes run the same job.** The API and the scheduler container
  both start `SchedulerJobs`; a demo trigger runs a cycle of its own inside a
  request. They share the tables and take no lock: select, think, insert.
* **Time stamps order the rows.** "The latest snapshot" is the greatest
  `fetched_at`; an insert is stamped with the start of its transaction and a
  heartbeat with the time of day, so the order of commits is not the order of rows.
* **Work in memory.** Deltas found but not processed live in a local list, the
  graph's thresholds in the process: a failure or a restart forgets them.
* **Lists without transactions.** ack and nack remove by value, nack is two
  commands, and a lost reply leaves the caller with the wrong idea.
* **Requests that await.** An API handler reads, awaits, and writes what it made of
  the reading; another request, or the demo reset, runs in between. A commit may
  raise after it was applied. A broadcast goes through a list of sockets that changes.
* **Files as messages.** DAGs read each other's files while they are written; a
  dataset update is used up at the start of a run; tasks are retried, die, and overlap.

Each hazard in `PROJECT.json` is one of these at one line.

### 1.3 What makes each component correct

* Queue: nothing pushed is lost except by a fault, at most one copy per fault; a
  job is repeated only because of a fault; the queue drains while a worker is left.
* Watch: no change goes unnoticed (a content the watch goes by has its delta);
  concurrent polls may double a delta, but a publication sets off a bounded number;
  the snapshots converge to the portals; a failure abandons at most one delta of each portal.
* Impact: at most one obligation row per node and cycle; a finished cascade left
  nobody out; the live thresholds follow the portal and the version history leads back.
* Pipeline: change detection hides nothing; nothing is forgotten between two
  DAGs; when everything is quiet the store, the summary and the report are current.
* Dry run: a stored hash is of a text that is there; the report covers what its run
  saved or found unchanged; the lineage log tells nothing that did not happen; the counter is
  short only of files lost to an overlap, a kill or an exception; a run that breaks off over a
  file has a kill or an overlap behind it.
* API: duplicates are bounded by the requests under way; what is shown is no older
  than the last recomputation; the two health scores agree; a score is explained by
  its list; a finished reset stands.
* Review: what the ledger calls a divergence was put before an approver; an answer has
  its evidence, in every packet that goes back to it; a resolved item is all of one approver.
* Realtime: a broadcast that ends normally passed nobody over.

## 2. The modules

| module | models | lines of the source |
|---|---|---|
| `JobDelivery` | the abstract service a producer relies on | none: a specification |
| `WorkQueue` | one queue and its workers | `workers/queue_client.py`, `*_worker.py` |
| `RegulationWatch` | detection, and the loop over the deltas | `irda/watcher.py`, `irda/orchestrator.py`, `polling_jobs.py`, `admin.py` trigger |
| `ObligationGraph` | the nodes, matching and versioned update, as operators | `obligation_graph/*` |
| `RegulationImpact` (extends it) | one delta's effect: extraction, graph, alerts, cascade, reset | `delta_extractor.py`, `notifier.py`, `cascade_engine.py`, `admin.py` reset |
| `DocumentPipeline` | five DAGs and the scheduling between them | `dag_01` .. `dag_05`, the jobs in `services/orchestration` |
| `MetricsStore` | the counters and their file | `orchestration/metrics.py` |
| `DryRun` (extends it) | the pipeline as one program | `orchestration/pipeline.py`, `lineage.py`, `run_v2_pipeline.py` |
| `ApiRequests` | a request: its awaits, its session, a commit that raises | `api/database.py` get_db |
| `ObligationsApi` (extends it) | the obligations table and its requests | `routers/obligations.py` |
| `Filings` (extends it) | payroll dues, GST filing status, health scores | `routers/payroll.py`, `gst.py`, `compliance.py`, `gst_agent/readiness_checker.py` |
| `ReviewDesk` (extends `Filings`) | both rails, escalation, ledger, approvers | `agents/drca`, `hitl`, `caal`, `routers/assistant.py`, `hitl.py` |
| `RealtimeChannel` (extends `ApiRequests`) | sockets and broadcasts | `websocket/retrigger_ws.py` |
| `ApiServer` | the four together, with the administrator's reset | `routers/admin.py` |
| `MC*` | the instances for TLC | |
| `*Proofs`, `WorkQueueRefinement` | the proofs | |

RegulationWatch and RegulationImpact cut the same loop at two places. The first
keeps the detection in full (transactions, time stamps, overrides) and makes each
step on a delta a change of its `stage`; the second keeps the contents (fields,
thresholds, businesses, rows) and takes detection to be the fetch and the select.
Together every statement of `run_cycle` is in one of them.

### WorkQueue

`queue` is the list `rg:queue:<name>`, `processing` the bag of payloads in
`...:processing` (LREM removes by value, so the order there says nothing), `pc`
and `job` a worker's place in `process_one` and its local variable. Each Redis
command is a step. `*Raises` actions are a command that raises: the server may
have applied it (reply lost) or not. `Interrupt` is a kill or KeyboardInterrupt
at any place. `Start` is an operator who starts a worker by hand.
`submitted`, `done`, `dropped`, `faults` are history.

### RegulationWatch

A *cycle* is a polling process or a demo trigger. Its `pc` follows
`check_all_portals` (fetch, select, compare for each portal in order) and then
`run_cycle`'s loop (alerts, cascade, commit, announce for each delta found).
A snapshot table is reduced to what anybody reads, the content of the newest row
of each portal. Whether an inserted row is the newest depends on when its
transaction began: `open`, `elder` and `behind` record, for each open
transaction, which portals got a later stamp since it began. `FetchFails` is a
portal that stays unreachable after three attempts (an override that Redis does not give up
is passed over, and the portal is asked, as a choice within `Fetch`); `DeltaRaises` an exception
that is logged and skips the delta; `CycleDies` a database error or the end of the
process, with or without the commit under way.

### RegulationImpact

Thresholds, contents and business rows are values with the fields the code
compares. `graph` is the live graph of each process; the cascade matches on
`Graph`, the list as built, because `cascade_engine.py` holds a graph of its own
that nothing updates. `CascadeTo` is one turn of the loop over businesses (read
its obligations, add what it lacks), `CascadeCommit` the commit at the end,
`ResetDemo` the administrator's reset at any moment, `Restart` a new process with a
new graph.

### DocumentPipeline

A task instance is `idle`, waits for a `retry`, or stands at a step. A file is
written in two steps, because `Path.write_text` opens (and empties) the file
before it writes; `torn` are the chunk files that are empty. Directories are
sequences in the order of modification times, because processing takes the
newest raw file and analysis the newest 50 chunk files. `pending` holds the
datasets whose update has not started a run yet, `failed` those whose task used up
its retries. `CollectError` is the blanket `except` of `collect_regulator`.
`Kill` is the end of a task process, counted by Airflow as a failed attempt.

### MetricsStore and DryRun

A process loads the counters (`mem`), adds to them in memory and rewrites the whole
file, which is empty in between (`counters.whole`); a reader of the empty file
starts from zero, and two writers may leave a mixture. `DryRun` goes through
`run_full_pipeline` stage by stage: `pc` is the place, `at` the regulator in the
loop, `doc` the document in hand, `got` the chunk files read. Raw files, hashes,
chunk files and the summary are opened and written in two steps; `rawTorn`, `torn` and
`summary.whole` tell which are empty now. `Kill` takes a run away at any place, with
all it had in memory; another goes on with the files. Collection is different: its `except`
around each regulator swallows whatever raises after the fetch, and the run goes on to its report
(`SaveError`, `CountError`; `FetchFails` for the fetch itself), leaving a file torn, a hash empty, a
saved text uncounted or the memory ahead of the counters' file; `missed` counts the files given up
in this way, and `unwritten` says that the counters could not be written. `EmbedRaises`, `AnalyseRaises`
and `ReportRaises` are `json.loads` on an empty file. A text is a number and has
`Pieces` chunks; every chunk counts for one obligation.

### ApiRequests and the modules on it

`pc[h]` is the await at which handler `h` stands, `req[h]` its locals; between two
awaits a handler is not interrupted, because the API is one event loop. A commit
(`Commits`) is applied or not, and raises or not; at most `MaxFaults` raise. Rows are
functions from ids that are never given twice. A session's UPDATE names only the
columns whose value differs from what it loaded (`Written`, `Resolved`), and raises
when the row is gone. `HeldRows` and `HeldItems` are rows that the open transaction of
a reset has deleted: PostgreSQL makes every writer of such a row wait, and refuses a
foreign key to a row that is gone (`InsertTestRaises`, `Referenced`).

`Filings` reduces a payroll row to its key and a filing to when it began, when its
two selects read, and what they found; `clock` numbers the transactions, because
`updated_at` is NOW(), the start of the transaction. `ReviewDesk` leaves what the
model and the rule engine say to a choice among what `compare_rails` tells apart; an entry
carries the time at which its writing began (`stamp`), which may be before its commit, and `Packet`
takes those from `Cutoff` on, as `audit_packet.py` takes the last 90 days. The clock is the month
of `Filings`, and `AuditMonths` the months a packet goes back.
`RealtimeChannel` has one step for each send; `Connect`, `Close` and `Disconnect` come
between them in any order. `ResetDemo`, `ResetRows`, `ResetCommit` are the two deletes
of reset-demo and its commit; what it does to a cascade under way is in
`RegulationImpact`. The first three modules of the table say what happens within one
request, `ApiServer` lets all of them run at once.

## 3. The runs

Bounds are constants with names (`MaxPublished`, `MaxFaults`, ...) in the guards of
the actions they bound; all of them are given in the `.cfg`.

| run | checks | bounds, and why they are enough |
|---|---|---|
| `workqueue` | `WorkQueueInv` (with the types); `NothingLost`, `RedeliveryNeedsFault`, `LossPerFault`; the refinement `DeliverySpec`; `QueueDrains`, `EverythingSettles` | two workers, two payloads pushed twice each, three faults: equal payloads in both workers' hands, and one fault more than there are workers |
| `workqueue_stops` | finding 1 | one of each |
| `watch_race` | `SnapshotHasDelta`, `DeltasPerPublication`, `Converges`, `DeltasSettle` | two pollers and a demo trigger on one portal, one change, one failure: three transactions can overlap, which already inverts the rows. `DeltasEach = 3` is tight: with 2 TLC finds a fourth row. (Two portals, a poller and a trigger were checked once, as far as 18 million states) |
| `watch_single` | `WatchInv`, `AbandonedPerFault`, `DeltaChain` | one poller, two portals, three contents (two differ cosmetically), two changes each and a failure |
| `watch_misnamed` | finding 2 | |
| `impact_cycles` | `CascadeInv`, `OncePerCycle`, `CascadeComplete`, `HistoryConsistent`, `ThresholdsFollow` | a poller and a trigger that overlap, two businesses on both sides of the FSSAI limits, four contents (limit raised, removed, retitled), a failure and a reset |
| `impact_alerted` | finding 3 | |
| `pipeline_hours` | `PipelineInv`, `HashedIsSaved`, `NoStrandedDocument` | two regulators, the first with two overlapping collect tasks, one change, a kill anywhere: a document can arrive behind a run's back |
| `pipeline_settles` | `NoStrandedChunk`, `SummaryRepaired`, `Settles`, `EverythingStored` | one collector, two processing and two embedding tasks, two hours, an exception and a kill; `Limit = 2` is passed, so that the analysis cuts off |
| `pipeline_repairs` | finding 4 | |
| `dryrun` | `HashedIsRaw`, `LineageOrder`, `ReportCurrent`, `CountersFollow`, `AbortsHaveCause` | two runs, so that they overlap or follow one another; two regulators, so that a loop goes on after a file; a second text of two chunks, so that a kill comes between chunks and `Limit = 3` can be passed; one kill; two exceptions in collection, so that a counter is written after one that was not, in histories without overlap (`MaxOverlappingErrors = 0`: with one exception there too TLC found 16 million states once, and no error; the theorems have no such bound) |
| `api` | `DuplicatesBounded`, `ShownSince`, `ListExplainsScore`, `ScoresAgree`, `DivergenceReviewed`, `Evidenced`, `CoherentDecision`, `NobodyPassedOver`, `ResetStands` | two requests at once and three in all: the third begins when one of two overlapping ones has ended, which all of the stale reads need; one commit that raises; two sockets, so that one leaves the list under a broadcast to the other; a month that passes, also between the stamp of an entry and its commit, and `AuditMonths = 0`, so that entries get too old for the packet |

The pipeline, `dryrun` and `api` runs say `CHECK_DEADLOCK FALSE`: after the bounded
number of hours, runs or requests everything rests, as the program does between
two of them. The other models never stop.

Handlers, sockets and dry runs are interchangeable and no liveness is checked of
them: those two runs use symmetry. The inductive
invariants of the next section (`DeltasInv`, `DryRunInv`, `CountersInv`, `CurrentInv`, `ApiInv`,
`FilingInv`, `ResolutionInv`, `EvidenceInv`, `HistoryInv`, `FollowInv`, `SummaryInv`)
hold on the same instances; they are left out of the `.cfg` because they contain
or imply the properties listed there (`DeltasInv` with `DeltaBound` in place of the
smaller `DeltasEach`).

### Fairness

* `WorkQueue!FairSpec`: a worker that runs goes on (WF of `Proceed(w)`); neither
  `Start` nor any fault is fair, because nothing in the repository restarts a
  worker. So both liveness properties are promised only as long as a worker must be
  left (`Outlived`): `run_loop` ends with the first exception.
* `RegulationWatch!FairSpec`: the interval trigger of APScheduler fires again and
  again (WF of `Poll`), and a cycle under way goes on. Triggers, publications
  and failures are not fair.
* `DocumentPipeline!FairSpec`: the Airflow scheduler starts what is due, retries what
  is to be retried, and a running task goes on (WF of `Proceed(t)`). The hours, kills
  and exceptions are not fair. `Settles` promises the summary and the
  report only if no process was killed and the chunks fit into one analysis
  (`Limit`); it does allow runs of one DAG to overlap, and the retries to be used up
  on half-written files, which the update by the task that wrote them makes good.
* `DryRun!Spec` and `ApiServer!Spec` state no fairness: a dry run is started by
  hand, and a client may never ask again. Their properties are safety properties.

## 4. The proofs

`ASSUME`s are only about constants: which sets are disjoint, which are numbers,
that no content is a marker. No bound is assumed to be small, and none is needed.
Those that say something of the program: there are finitely many polling processes and
demo triggers, and none is both (`WatchAssumption`); a regulation has at least one field, its id
(`ContentAssumption`); no regulator is configured twice, and `documents_scraped` is a
counter (`DryRunAssumption`); an empty file is not the absence of a file
(`PipelineAssumption`).

| module | theorems | the argument |
|---|---|---|
| `WorkQueueProofs` | `TypeCorrect`, `Invariance`, `NothingLostHolds`, `RedeliveryNeedsFaultHolds`, `LossPerFaultHolds` | `WorkQueueInv` is inductive. `NothingLost` alone is not: a worker that acks has its copy counted in `done` already, so the entry LREM removes must be covered twice; `JobInv` says so, per payload, together with who owes a handling and who pays for a redelivery. The lemmas count workers and list entries |
| `WorkQueueRefinement` | `Refinement` | every step of the lists and workers is a step of `JobDelivery`, or a stutter, under `owed[j] = Owed(j)`; rests on `WorkQueueInv` |
| `RegulationWatchProofs` | `TypeCorrect`, `WatchInvariance`, `SnapshotHasDeltaHolds`, `DeltaChainHolds`, `AbandonedPerFaultHolds` | `CycleOK` ties what a cycle holds to its place; `SnapshotHasDelta` needs also that a row a cycle has *seen* was detected (a heartbeat brings it back); `DeltaChain`, for at most one cycle at a time, that the newest delta ends where the snapshot is; the bound on abandoned deltas counts the deltas of a `todo` list |
| | `DeltasInvariance`, `DeltasPerPublicationHolds` | `DeltasInv` is an account per portal: the deltas stored, those that are due, and a price for every cycle that is misled (it will compare the portal with a content that it does not serve) are paid for by publications. A publication misleads at most all of the cycles, a trigger one more. A misled cycle pays when it is through, for its row and for the snapshot it may have put back. With nobody misled an old snapshot can only be replaced by what the portal serves; a row that is stamped too late to do so leaves fewer cycles that are late (`Late`), because transactions are ordered by their start. With N cycles this gives N(2N + 3) deltas per publication (`DeltaBound`) |
| `RegulationImpactProofs` | `CascadeInvariance`, `OncePerCycleHolds`, `CascadeCompleteHolds` | a node a session adds has no row of that session yet (`AddedHasNoRow`), because `Current` is read from committed rows and a skip relies on a committed row only (`DealtWith`) |
| | `HistoryInvariance`, `HistoryConsistentHolds` | `HistoryInv` (`WholeHistory`) says of every node that its version is one more than the length of its history, that the entries are numbered, and that the first threshold is the built one. `UpdateNode` keeps it, so the fold over the changed fields does |
| | `FollowInvariance`, `ThresholdsFollowHolds` | `FollowInv`: a poller that is alone compares with the newest snapshot, and its graph follows that snapshot at every place. The step is a lemma on the fold: it leaves the node as it was if no field differs, and otherwise with the new value of the last field that does |
| `DocumentPipelineProofs` | `Invariance`, `HashedIsSavedHolds`, `NoStrandedDocumentHolds`, `NoStrandedChunkHolds` | every task step satisfies `Frame`: it moves one task, takes no written raw file away, stores only hashes of saved texts, touches one chunk file, and ends a collect or process task only by updating or failing its dataset. From `Frame` and `PipelineInv` each property follows by asking who held the promise before the step: the one who opens a chunk file becomes the one who will write it, the run that uses an update up has every directory before it |
| | `SummaryRepairedHolds` | `SummaryInv` adds that the one task that has the summary open is the reason why it is empty; then an empty one always has that task under way, in its retries, or failed |
| `DryRunProofs` | `Invariance`, `HashedIsRawHolds`, `LineageOrderHolds`, `AbortsHaveCauseHolds` | `DryRunInv` is inductive: where a run stands says which file it has written (`Standing`), every chunk file is of a document logged as parsed, and as long as nobody was killed and nothing overlapped, at most the file a run is at is torn (`Undisturbed`). `LineageOrder` alone is not: that a run is about to log a document's chunks must mean that they are files. The steps of `r` satisfy `Frame(r)`, from which every other run keeps standing where it stood |
| | `CountersInvariance`, `CountersFollowHolds` | `CountersInv`: neither the file nor any run's copy of the counters is ahead of the raw files, a run's own uncounted file included; and with nothing disturbed the copy of the one run is exact, but for the files that exceptions made it give up (`missed`). It says nothing more once the file of the counters could not be written: then the memory is ahead of it. A raw file more is one more in the sum over the regulators |
| | `CurrentInvariance`, `ReportCurrentHolds` | `CurrentInv` says what the place of a run that is alone means for each text it saved or found unchanged (`Made`): it is the last raw file of its regulator, then it has its chunks, then they are among what was read, then in the summary. It must also say what killed runs leave: the newest file is the last one, and a stored hash of its text means it is whole (`Ordered`) |
| `ApiServerProofs` | `Invariance`, `DuplicatesBoundedHolds`, `ResetStandsHolds`, `DivergenceReviewedHolds`, `NobodyPassedOverHolds` | `ApiInv` is inductive: `Holding(h)` says what a request may rely on across its awaits. `ResetStands` needs that ids are never given again, and that between its two deletes and its commit no item comes to refer to a deleted row (`HeldRows`); `DuplicatesBounded`, that once there is a row the rows and the requests that will insert one are together no more than the handlers (`PayrollBound`, by counting); `NobodyPassedOver`, that the sends go through a copy |
| | `ScoresAgreeHolds` | both scores are one sum, over the rows and over the statuses; the sum by value is the sum of the value times how often it occurs (`SumByValue`) |
| | `FilingInvariance`, `ListExplainsScoreHolds`, `ShownSinceHolds` | `FilingInv`: a request between its two selects has the score of the obligations it read, if they have not changed since; and stamps are in the order in which the requests began (`StampOrder`), also those of requests whose row is still to come. `ShownSince` takes the row with the greatest stamp, which a finite set has |
| | `ResolutionInvariance`, `CoherentDecisionHolds` | `ResolutionInv` says by the number of resolutions so far (`Settled`: none, one, two) what the row shows and what an approver still at it can have loaded. With two the second has written its own column or found it equal; with three this fails, as section 5 tells |
| | `EvidenceInvariance`, `EvidencedHolds` | `EvidenceInv`: a request that has escalated and not recorded it holds its item (`OwnItem`); a commit that raises lets at most one item go without an entry. Between question, stamp and clock there is an order (`Timely`) that a passing month keeps; by it the cutoff reaches the entry of every chat that it reaches |
| `FiniteSums` | lemmas only | sums over finite sets: adding an element, changing one value, splitting a sum, comparing two sums term by term, and the sum by value |

**Induction over data.** The library's induction theorems have a predicate as a
parameter, which the provers cannot instantiate. `FiniteSums` goes round it for
finite sets and numbers: assume that a statement fails for some set (number), take
a smallest one for which it does (`SmallestSet`, `SmallestNumber`: facts about
sets, from the well-foundedness of the subset and the less-than relation), and take an
element out. The sums of the scores and counters, the greatest stamp, and the folds
over the changed fields are done in this way.

Only model-checked: liveness, which rests on fairness (`QueueDrains`,
`EverythingSettles`, `Converges`, `DeltasSettle`, `Settles`, `EverythingStored`).

`DeltasPerPublication` is proved for every `DeltasEach` from `DeltaBound` on, which is 27 for
three cycles; TLC finds that 3 is enough for the three of `watch_race`. The
proof lets every misled cycle bring the old snapshot back, and every other cycle
answer that with a row, so what is left open is the least bound, not whether there
is one. The sum over all portals in it is not for
convenience: with two portals, a demo trigger on one replays the override that an
earlier trigger left on the other, and TLC finds a delta there without a publication
of that portal.

## 5. Where the code and its documents disagree

Each of the first four is a run that TLC ends with a counterexample.

1. `workqueue_stops`: one failing job ends a worker's loop
   (`workers/embedding_worker.py:55`), which is to go on "until interrupted" (`:59`).
2. `watch_misnamed`: a demo trigger for `pt-states` is written under a key the watcher
   does not read (`services/api/routers/admin.py:282`).
3. `impact_alerted`: the first scrape of the professional-tax portal overwrites the
   state a node is matched by (`graph_builder.py:119`); the cascade, on its own
   graph, creates obligations nobody is alerted of.
4. `pipeline_repairs`: a retry does not repair the chunk file a kill left empty when a
   newer document has come (`dag_02_document_processing.py:74`).

Seen while modelling, and not the subject of a run:

* `collect_regulator` turns every exception into a successful task with status
  `error` (`dag_01_regulatory_collection.py:115`), so `retries=3`
  (`README.md:74`, `ARCHITECTURE.md:79`) never applies to a regulator that cannot be reached.
  `CollectError` models it.
* A delta whose broadcast raises stays `processed` without a ledger entry
  (`orchestrator.py:93`; `README.md:133` says each decision has evidence).
* The cascade never follows an edge of the graph (`cascade_engine.py:81`;
  `README.md:375` says it traverses it).
* The console says "Action recorded in CAAL ledger." (`apps/web/app/hitl/page.tsx:49`), but
  a resolution writes no entry, and `human_approvals` in an audit packet is always 0.
  Neither is it checked that the item is still pending: the later approver wins
  (`routers/hitl.py:37`). Because only changed columns are written, three
  resolutions of one item can leave one approver's name beside another's decision;
  `CoherentDecision` is for two.
* `README.md:363` says that uncertain answers are escalated. A question that the rule
  engine abstains on is answered with confidence 0.35 or 0.0 and never is; `compare_rails`
  sees a divergence only in deterministic results.
* PUT takes any string as a status. The list of businesses gives an unknown status
  the weight 0, the health score 0.5; `ScoresAgree` is for the known ones. A waived
  GST obligation counts as due and not as compliant for ever.
* Overlapping updates of one obligation both write version n + 1; nothing reads it.
* Payroll's due dates are in the current month, the calculator's in the following
  one, and its professional tax is always 0.
* test-create and reset-demo commit before they broadcast, so that a closed socket
  turns a request that was carried out into a 500 (`SendRaises`).
* Dry run: analysis reads the first 50 chunk files by name, so beyond them a new
  document is never analysed. An empty chunk file of a superseded document is never
  rewritten, and every later run raises over it. The raw event in the lineage log is
  under another id than the later ones. `MetricsStore()` in `validation.py:33` has no path,
  so `rule_conflicts` is never stored.
* The EPFO portal publishes `EPF_*` regulations, the graph's nodes say `PF_*`: no
  change of that portal ever reaches a node.

## 6. What is not modelled, and the plan

Left out of the modelled parts: which text an alert, a report, an answer or a delta
has, and which amounts a filing; the Redis copy of the metrics, which is off without a
URL; the metrics and lineage of the DAG tasks (written by every task, read by none;
`MetricsStore` and the log are modelled where the dry run writes them); two raw
files of one regulator in the same second, which may share a name; a directory is
read in one step. A regulator's site never serves an earlier text again in `DryRun` (texts are
numbers that grow). An audit packet covers 90 days: of older chats the models promise nothing,
and neither does the code. Requests that are refused before their first write, and the
listings, change nothing. The pipeline is the one of a writable checkout (the
container mounts the DAGs where `ROOT` points elsewhere).

Details that the modelled parts simplify, none of which a property depends on:

* names are ordered by number: in the dry run the code's order of file names puts `chunk_10`
  before `chunk_2`, and regulators alphabetically; the runs have no document of ten chunks, and the
  theorems hold for the order of the model;
* the stamp of a heartbeat and its commit (`RegulationWatch`), the write of a hash file
  (`DocumentPipeline!StoreHash`), and in payroll the period and the select of its row are one step each;
* businesses have a turnover and a number of employees, and obligations a due date: the code skips a row
  without one in the readiness score (`readiness_checker.py:16`), and a business without
  one makes `float(None)` raise in `_matches` (`graph_builder.py:61`), which ends the assessment of
  the delta as a failure would;
* the scores are whole numbers rounded down, the code's are floats rounded to two
  digits (`compliance.py:56`, `:106`): two computations that agree in the model may differ there by a hundredth;
* a chat about a business that does not exist fails at its first insert.

Not modelled at all, because there is no protocol in it: retrieval and language
models, the knowledge and demo APIs, authentication, schemas, views, seeds,
deployment. The `ComplianceOrchestrator`, the `HITLResolver` and the DPDP helpers have no
caller in the repository.

Not modelled yet, in this order:

1. the reconnecting client (`apps/web/hooks/useWebSocket.ts`): one socket, its timers, and the
   close of a socket that was replaced; `RealtimeChannel` takes any order of
   connections, which covers what the server sees of it;
2. the rule engine as functions, checked at their thresholds against a reference
   definition;
3. the toasts with their removal timers.

Proofs that are still open: the least bound on the deltas of a publication as a function
of the number of cycles, and the bound on what the counters lose to overlap and kills.
Liveness stays with TLC.
