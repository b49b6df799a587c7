# TLA+ models of scoot

Scoot is a distributed build and test scheduler: a scheduler hands the tasks of
a job to workers, tracks them in a saga log, learns which workers exist from a
cluster membership view, and serves Bazel remote execution and CAS requests.
This directory holds TLA+ models of the parts of it that are in `src/`, a
model of the scheduler that connects two of them, the TLC configurations that
check them, and `PROJECT.json`, which lists the runs, the
source lines each definition models, the findings and the hazards.

## The system

| Part | Source | State | Operations | Talks to |
|---|---|---|---|---|
| In-memory saga log | `src/unnamed/part_000` | `sagas` (id -> messages), one `RWMutex` | `LogMessage`, `StartSaga`, `GetMessages` | called by the Saga coordinator from any goroutine |
| Cluster membership view | `src/cloud/cluster/cluster.go` 1-143 | node set, `subs` slice, `ch`, `reqCh` | `NewCluster`, `Members`, `Subscribe`, `closeSubscription`, `Close`, the `loop` goroutine and `handleReq` | a producer feeds `ch`; the scheduler subscribes |
| Worker server handler | `src/cloud/cluster/cluster.go` 144-307 | `mu`, `timeLastRpc`, `currentCmd`, `currentRunID` | `QueryWorker`, `Run`, `Abort`, `Erase`, `updateTimeLastRpc`, the `stats` goroutine | `runner.Service`; called by the scheduler over Thrift |
| CAS and ActionCache server | `src/unnamed/part_001` | the blob store behind it | `FindMissingBlobs`, `Read`, `Write`, `GetActionResult`, `UpdateActionResult` | Bazel clients, the store |
| Bazel execution server | `src/bazel/execution/service.go` | none of its own | `Execute`, `GetOperation`, `execReqToScoot`, `validateExecRequest` | `sched.ValidateJob`, the scheduler |
| Git snapshot ingest | `src/snapshot/git/gitdb/create.go` | the data repository, the ingest repository, temporary index directories | `ingestDir`, `ingestDirWithRepo`, `ingestGitCommit`, `ingestGitWorkingDir`, `shaPresent` | git and cp subprocesses, `moveCommit` |
| Scheduler data model | `src/sched/sched.thrift` | - | - | declarations only; the records of `Execution` |
| Scheduler loop and Task Runner | specification only | job and task status, the free pool, one Task Runner per dispatched task | admission, dispatch, worker loss, completion, `RunTask` | `Execute` calls it; it writes the saga log and calls workers |

The Saga coordinator, the scheduler, its job state, the task runner,
`runner.Service`, the cluster `State` and `Subscriber` are described by the
specification and are not in `src/`. Where a module needs one of them it is
modelled from the specification, and `PROJECT.json` marks those definitions
`spec_modelled`. No two parts that are in `src/` call each other: the
execution server meets the saga log only through the scheduler, which is why
the composition `Scheduler` has the scheduler loop in the middle.

What makes these parts hard: each is called from several goroutines at once.
The saga log and the worker handler rely on a mutex that an error path forgets
to release. The cluster view relies on one goroutine owning `subs`, and `Close`
breaks that ownership. The worker's `Run` decides whether a call is a retry of
the running command from two fields it reads and writes with no lock. The
saga of a job is written by the scheduler loop and by the Task Runners of every
attempt of its task, and the log appends whatever reaches it.

## Modules

### SagaLog (`SagaLog.tla`, `MCSagaLog.tla`)

Checked on its own for the leaked lock (`MCSagaLog`) and, through `INSTANCE`,
as the log of `Scheduler`.

`sagas` is `log.sagas`, `locked` the write lock. A call is two steps: `Call`
takes the goroutine to the method's `Lock`, and `LogMessage`, `StartSaga` or
`GetMessages` is the whole critical section up to the return. The mutex makes
the section atomic, so `locked` is TRUE in a reachable state only after a
section returned without unlocking, which is what `LogMessage` does for a saga
that is not started. `pc`, `arg` and `ret` are the callers' program counter,
argument and result. `Call` lets any goroutine call any method for any saga
id, a `StartSaga` for a saga that exists included: `StartSaga` stores a fresh
one-message log whatever was there. In `Scheduler` the only caller of
`StartSaga` is the loop, which starts each job id once.

### Cluster (`Cluster.tla`, `MCCluster.tla`)

`nodes` is `c.State.Nodes`; `ch` and `reqCh` are the two channels as open,
closed or nil. `c.subs` is a Go slice: `subs` is the header (array, length) and
`arrays` the backing arrays, because `for range` keeps the header it started
with while `append(c.subs[0:i], c.subs[i+1:]...)` shifts the array in place.
`SliceAppend` and `SliceRemove` do what the two `append` calls do, including
the growth of the capacity. `loop` and `closer` are the loop goroutine and the
goroutine inside `Close`, each with the header and index of the range it is in.
`client` is what each calling goroutine is doing (blocked in a send on `reqCh`,
answered, hung), `chan` the state of each subscription channel, `view` the
history variable that applies to the members a subscriber got from `Subscribe`
every update it received since. `panicked` records a send on a closed channel
or a second close, which end the process.

Each `select` case of `loop` and each case of `handleReq` is one action
(`LoopReceiveItem`, `LoopInputClosed`, `LoopMembers`, `LoopSubscribe`,
`LoopUnsubscribe`, `LoopRequestsClosed`); the sends and closes inside a range
are one action per iteration (`LoopSend`, `LoopCloseSub`) since another
goroutine can run between them. `Close` is four steps (`CloseBegin`,
`CloseHandle` per iteration, `CloseClear`, `CloseRequests`) because it runs
beside the loop with no synchronisation. The reads and writes of `c.subs` and
`c.reqCh` that race are separate steps; a read of `c.reqCh` after the loop set
it to nil yields either value.

### WorkerHandler (`WorkerHandler.tla`, `MCWorkerHandler.tla`)

`runs` is the runner's cache (modelled from the specification: at most one
active run, `QueueFull` for another). `mu` is `h.mu` as in SagaLog.
`currentCmd` and `currentRunID` are the two unguarded fields. An RPC is `Call`
(entry), `UpdateTimeLastRpc` (the critical section of `h.mu`), and then the
body: one step for `QueryWorker`, `Abort` and `Erase`, which call the runner
once, and five for `Run` (`Run`, `RunCheck`, `RunStatusOfCurrent`, `RunFinish`,
`RunSetID`), one per access to the runner or to the unguarded fields. `Stats`
is one tick of the stats goroutine, whose `StatusAll` may fail in every run. `origin` and `raced` are history variables:
the run a `Run` call made or was refused for, and whether two `Run` calls were
ever in progress together. The replies of `QueryWorker`, `Abort` and `Erase`
are functions of the runner's cache and are not kept; the gauges are written to
a stats receiver nothing reads back.

### CasServer (`CasServer.tla`, `MCCasServer.tla`)

The server keeps no state between calls; what its handlers share is the store.
`store` maps a store name to what was written under it, `[kind, len]`: data is
told apart by its length and by whether it is a blob or a serialized
`ActionResult`. A digest is a record `[hash, size]`, and since
`bazel.DigestStoreName` is one-to-one a digest is its own store name. The store
itself is not in the source: `Exists` and `Put` say what the handlers rely on
(a write replaces what is there), and with `Faulty` any store or stream call
may fail.

gRPC runs each call on a goroutine, here a client `c` with `pc[c]`, its locals
`loc[c]` and the reply `ret[c]`. A handler is cut where it reaches the store or
the stream again after another goroutine could have run:

| Action | Code |
|---|---|
| `FindMissingBlobsCall`, `FindMissingBlobs` | entry; one `Exists` per turn of the loop, then the answer |
| `Read`, `ReadChunk` | validation, `OpenForRead`, the skipped offset and the chunk capacity; one `r.Read` and `Send` per turn |
| `WriteCall`, `WriteRecv`, `WriteCommit`, `WriteAck` | entry; one `Recv` per turn with the first-request checks (parse, empty digest, `Exists`), the validation and `buffer.Write`; the length check and `Store.Write`; `SendAndClose`, which may fail for a blob that is stored |
| `GetActionResult`, `UpdateActionResult` | the whole handler: one store call each |
| `Unsupported` | `BatchUpdateBlobs`, `GetTree`, `QueryWriteStatus` |

`acked` is a history variable: the digests a `Write` was answered OK for. A
`FindMissingBlobs` call remembers in `known` which of its digests were in
`acked` when it began. `ret[c]` is forgotten when `c` calls again.

A turn of `Read`'s loop is `ReadTurn`: `ReadResults` is what `r.Read` may
return into a buffer of `ChunkCap` bytes (some of the bytes left with `nil`,
the last of them with `nil` or `io.EOF`, nothing with `io.EOF` at the end,
and from a failing store any of these with an error), and the turn does with
it what the code does: for `n > 0` it sends, and `Send`'s result takes the
place of the reader's `err`, so an error that came with data is forgotten and
the loop reads again. `failed` remembers that the reader has failed; such a
reader returns the error again, with no data.

### Execution (`Execution.tla`)

Checked as part of `Scheduler`, which instantiates it.

The server has no state of its own; its calls meet in the scheduler. `jobs` is
the scheduler as the specification describes its admission: the sequence of
admitted job definitions, a job's id its position. A request is what the
handler tells apart: its action, whether the command digest and the input root
digest are valid, and its timeout as one of four cases (negative, zero,
positive, too large for `time.ParseDuration`). `execReqToScoot` builds the
`JobDefinition` of `sched.thrift` with one task, the placeholder argv and the
request passed through; `ValidateJob` is the specification's job validation.

`Execute` is two steps, cut at the call of the scheduler, where calls of other
goroutines are admitted in between: `Execute` (initialisation, digest of the
action, conversion, validation) and `ScheduleJob` (admission, the operation
named after the id, the two `marshalAny` calls). `GetOperation` is one step and
answers for any name. With `Faulty` the digest, the scheduler and `marshalAny`
may fail; `marshalAny` may fail after the job was admitted.

### Scheduler (`Scheduler.tla`, `MCScheduler.tla`)

The composition of `Execution` and `SagaLog` with the scheduler between them.
`Exec == INSTANCE Execution` and `Log == INSTANCE SagaLog` share the variables
of this module; the log's threads are the scheduler loop and one Task Runner
per worker, its saga ids the job ids, and its `pc`, `arg`, `ret` are `logPc`,
`logArg`, `logRet`. An action of `Scheduler` conjoins at most one action of
each instance with the scheduler's own variables:

| Action | What it is |
|---|---|
| `Execute`, `GetOperation` | the handlers of `service.go`, unchanged |
| `Admit`, `ScheduleJob` | admission: the loop takes the request, calls `StartSaga` for the next job id; in the critical section of `StartSaga` the job gets its state and `Execute` its answer. `ScheduleJob` is also the step in which the scheduler refuses or a `marshalAny` fails |
| `Dispatch` | the dispatch policy for jobs of one priority: the oldest `NotStarted` task goes to a free worker and a Task Runner starts |
| `IsTaskStarted`, `GetMessages`, `StartTask`, `LogMessage` | `RunTask` step 1: read the saga, append `StartTask` unless one is there |
| `Run`, `EndTask` | steps 2 to 5: the worker runs the command; a runner whose worker was removed stops, the others append `EndTask` and tell the loop |
| `Complete`, `EndSaga` | completion: the worker goes back to the free pool, the task is `Completed`, `EndSaga` is appended and the job state removed; a completion for a job that has ended already only releases the worker |
| `Removed` | worker loss: the worker leaves for good, its `Started` task is `NotStarted` again |

`state` is the status of each job's one task, `loop` what the loop is in the
middle of (it handles one event at a time and waits for the log's mutex like
any caller), `free` and `gone` the free pool and the removed workers, `task`
and `rpc` the task and step of each Task Runner, `events` the completions not
yet handled. The Saga of the source wraps the whole log without state of its
own, so `StartTask`, `EndTask` and `EndSaga` are `LogMessage` calls and
`IsTaskStarted` is a `GetMessages` of the job's saga. Completed and failed
runs are not told apart: both append `EndTask`.

### GitIngest (`GitIngest.tla`, `SnapshotStore.tla`, `MCGitIngest.tla`)

`data` and `ingest` are the object stores of `db.dataRepo` and of the
repository a commit or working directory is ingested from; `tmp` holds the
temporary index directories that exist. The contents of a work tree are a
member of `Dirs`: `git add --all` of contents `d` writes `Blob(d)`, the sha
`write-tree` prints is `Tree(d)`, that of `commit-tree` `Commit(d)`. Every
subprocess is one action and may fail (`Faulty`):

| Action | Code |
|---|---|
| `IngestDir`, `IngestGitWorkingDir` | entry and `db.tmp.TempDir` |
| `Cp` | `cp .git/index` into the temporary directory |
| `Add`, `WriteTree` | `ingestDirWithRepo`: `git add --all` and `git write-tree`, each writing its objects into the repository the caller passed (the data repository for `ingestDir`, the ingest repository for `ingestGitWorkingDir`) |
| `CommitTree` | `git commit-tree -p HEAD` in the ingest repository |
| `IngestGitCommit`, `ShaPresent` | `rev-parse --verify commitish^{commit}`; `shaPresent`, whose every error means absent |
| `MoveGitCommit`, `MoveCommit` | `moveCommit` and the return, in `ingestGitCommit` and in `ingestGitWorkingDir` |

`ingestDir` and `ingestGitWorkingDir` return through `DeferredReturn` once
`TempDir` has succeeded: the deferred `os.RemoveAll` runs, and since its error
is dropped the directory may stay. `ingestGitCommit`, and the other two when
`TempDir` fails, return through `Return`, which leaves `tmp` alone.
`moveCommit` is not in the source and the specification does not describe it:
it is one step that puts the commit with its tree and blobs into the data
repository or fails and puts nothing. Whether `DB` calls these functions from
one goroutine or several is decided outside `create.go`; the model allows
several, which includes the serial case.

`SnapshotStore` is what the callers of ingestion rely on: a call either fails
and stores nothing or, in one step, stores a snapshot with all it needs and
returns it. `GitIngest` instantiates it with `out <- ret` and `stored <-
Complete`, the trees and commits of the data repository that have everything
they refer to, and checks its specification as the property
`IngestIsAtomicStore`. Objects that `git add` wrote for a call that failed
later stay in the data repository; they are part of no snapshot and do not
count as stored.

## Runs

| Run | Config | Expect | Shows |
|---|---|---|---|
| saga_log_leak | `SagaLogLeak.cfg` | violation | `EveryCallReturns` fails: `LogMessage` for an unknown saga returns with the lock held |
| cluster_safety | `ClusterSafety.cfg` | pass | for subscriptions opened and closed in any order beside a reader and an ingested update: `subs` holds exactly the open subscriptions (`RegisteredIffOpen`), every subscriber's view equals the node set at each select (`ViewConsistent`), and nothing panics (`PanicOnlyAfterClose`), all three until `Close` is called, which it may be at any step; under a fair loop every `Members`, `Subscribe` and `Subscriber.Close` call is answered unless `Close` is called while it waits (`EveryRequestAnswered`) |
| cluster_close_skips | `ClusterCloseSkips.cfg` | violation | `CloseReachesEverySubscriber` fails: `Close` skips every other subscription |
| cluster_close_race | `ClusterCloseRace.cfg` | violation | `NeverPanics` fails: `Close` races with blocked callers and with the loop |
| worker_safety | `WorkerSafety.cfg` | pass | with one `Run` call at a time, `Run` answers with the live run of the caller's command (`SerialRunAnswersLiveRun`) and the two fields follow the active run (`SerialRunsTrackActiveRun`) |
| worker_stats_leak | `WorkerStatsLeak.cfg` | violation | `EveryRpcReturns` fails: a tick of `stats()` whose `StatusAll` fails keeps `h.mu` |
| worker_dup_race | `WorkerDupRace.cfg` | violation | `RunAnswersLiveRun` fails: a `Run` racing another is answered with a run that ended before |
| cas_safety | `CasSafety.cfg` | pass | for two concurrent calls over a failing store: what `Write` stored has its digest's length (`StoredLengthMatchesDigest`), `FindMissingBlobs` never lists a digest a `Write` had answered OK for when it began (`AckedNeverMissing`), a `Read` without a limit that ends OK sent the blob from the offset to its end whatever the chunks and whichever reader errors `Send` hid (`ReadSendsFromOffset`), and under fair handlers the loops of `Read` and `FindMissingBlobs` end (`EveryLoopEnds`) |
| cas_collision | `CasCollision.cfg` | violation | `AckedBlobIsStored` fails: `UpdateActionResult` has stored a result under the name of the blob with the action's digest, and the `Write` of that blob answers OK without storing |
| scheduler_safety | `SchedulerSafety.cfg` | pass | for one client, two jobs and two workers of which one may be removed at any step: only jobs whose request passed `validateExecRequest` are admitted (`ScheduledJobsAreRunnable`); sagas are well formed while no worker was removed (`SagasWellFormedUntilRemoved`); a task has one live Task Runner and a free worker none (`DispatchIsExclusive`); every admitted job gets its `EndSaga` (`EveryJobEnds`) |
| scheduler_loss | `SchedulerLoss.cfg` | violation | `SagasWellFormed` fails: after a worker is removed, the abandoned attempt and the new one both append `EndTask` |
| git_ingest_safety | `GitIngestSafety.cfg` | pass | `GitIngest` implements `SnapshotStore` (`IngestIsAtomicStore`): the step that returns a snapshot is the step that makes it complete in the data repository, with its blobs and, for a commit, its tree, in the kind it says; no other step adds a snapshot, whatever other callers write in between |

Every violation run has a finding in `PROJECT.json` with the line it is about.

Two more properties are stated in the modules and fail; each has a
configuration of its own that is not among the runs of `PROJECT.json`, and a
hazard there that names it:

- `ReadRespectsLimit` (`CasReadLimit.cfg`, `tlc -config CasReadLimit.cfg
  MCCasServer`). `Read` says it implements the ByteStream API, where a
  `read_limit` other than 0 bounds the bytes of all responses together. The
  code makes the limit the capacity of its chunk buffer and loops to `io.EOF`:
  a two-byte blob read with limit 1 is sent whole, in two chunks.
  `ReadSendsFromOffset` in cas_safety is stated for reads without a limit.
- `AppendOnly` (`SagaRestart.cfg`, `tlc -config SagaRestart.cfg MCSagaLog`).
  The specification has `StartSaga` answer `AlreadyStarted` for a saga that
  exists; `inMemorySagaLog.StartSaga` replaces its log, and what was logged
  is gone after `StartSaga`, `LogMessage`, `StartSaga`.

cas_collision in a few words: `UpdateActionResult` for an action digest
stores the serialized result, one byte long, under the digest's name; a
client uploads the Action message, the two-byte blob with that digest;
`Write` finds the name in the store and answers OK with the digest's size.
The store holds one byte of another kind under a name whose digest says two.
`StoredLengthMatchesDigest` in cas_safety is stated for what `Write` stored
and says what holds beside the collision.

scheduler_loss in a few words: the Task Runner on `w1` has decided to append
`EndTask` and waits for the log; the cluster removes `w1`, the loop sets the
task back to `NotStarted` and dispatches it to `w2`; both runners append
`EndTask`. The specification has `LogMessage` refuse such a message and has an
abandoned runner append none; the log of the source appends what it is given,
and the runner's decision and its append are two steps.

## Bounds

- SagaLog, alone: two goroutines, one saga id, logs of at most `MaxLen = 2`
  messages. One goroutine leaks the lock with a message for a saga that was
  not started, the other is the one that hangs. In `Scheduler` the log has
  three threads and two sagas.
- Cluster: in cluster_safety two subscriptions, one reader, two nodes of which
  one is an initial member, and one ingested item of one update (`MaxIngest`,
  `MaxBatch`). `Close` may be called at any step and calls may follow it
  (`QuiescentClose` and `CloseIsLast` are FALSE), which is what lets the loop
  end with a subscription that was added behind `Close`'s back. Two
  subscriptions give the removal of an element that is not the last, the
  shift of the backing array under an older header and a capacity above the
  length; the run checks a liveness property, so nothing is declared
  symmetric, and a third subscription takes it past a million states.
  cluster_close_skips has three subscriptions, which the skipped element
  needs, and a `Close` that is called last and in a quiet moment;
  cluster_close_race has two and no discipline. Both declare subscriptions
  symmetric.
- WorkerHandler: two connections, two command lines, `MaxRuns = 2` runs (three
  in worker_dup_race, where the stale answer needs an ended run, a live one and
  two calls in progress). Two command lines tell a retry from a different
  command; two runs let a run end and the next one start.

- CasServer: two clients, the empty digest and one digest of two bytes, a
  serialized `ActionResult` of one byte, chunks of at most
  `DefaultReadCapacity = 2` bytes, write requests of 0 to 2 bytes into a buffer
  of at most `MaxBuf = 3`. Two clients give the two writers of one digest and a
  reader beside a writer; two bytes let a blob arrive and leave in one chunk or
  two, and three buffered bytes are a stream longer than its digest says. Read
  offsets run from -1 to 3 (before, in, at the end of and past the blob),
  limits from -1 to 1 (invalid, none, below the chunk size). The clients are
  not declared symmetric: cas_safety checks a liveness property, for which
  TLC's symmetry reduction is not sound.

- Scheduler: one client, one action, `MaxJobs = 2`, two workers of which
  `MaxRemoved = 1` may be removed, sagas of at most `MaxLen = 6` messages (a
  saga needs four; six leave room for the duplicates of scheduler_loss). The
  requests are the nil request, a valid one, and one for each way to be
  refused (`MCRequests`): what `Execute` tells apart. Two jobs give a job
  admitted, dispatched and ended while another is at any of its steps, and two
  Task Runners writing to the log at once; two workers with one removed give a
  second attempt on the worker that is left. One client keeps the liveness
  check at 55,000 states; with two clients it has 400,000 and takes longer
  than the safety properties are worth waiting for. `SagasWellFormed` is
  violated with one job already.
- GitIngest: two callers, two contents of which the ingest repository has one
  committed. Two contents tell the snapshot a call returns from the one another
  call stored; the committed one is what `ingestGitCommit` finds, the other
  what it rejects until `ingestGitWorkingDir` has committed it. Nothing is
  bounded: the object stores only grow, within `Objects`. Callers are symmetric.

`MaxLen`, `MaxIngest`, `MaxRuns`, `MaxBuf`, `MaxJobs` and `MaxRemoved` are
bounds of the model, not of the code; they appear only in the guards of `Call`,
`LoopReceiveItem`, `WriteRecv`, `Execute` and `Removed`.

## Fairness

- SagaLog: strong fairness of each critical section per goroutine.
  `sync.RWMutex` queues its waiters, so a goroutine that keeps waiting gets the
  lock if it is released again and again. Callers are not obliged to call.
- Cluster: weak fairness of the loop's own steps (it is a goroutine that runs
  when it can) and strong fairness of each request's receive: `select` picks at
  random among its ready cases, so a request that is ready every time the loop
  is back at the select is taken in the end. Nothing is assumed of the callers,
  the producer or `Close`.
- WorkerHandler, in worker_stats_leak: strong fairness of `UpdateTimeLastRpc`
  (a mutex), weak fairness of the steps of an RPC in progress. Nothing is
  assumed of the stats ticker or of the end of a run. The two other runs check
  safety properties and assume none.
- Scheduler: weak fairness of the loop's steps and of each Task Runner's
  steps, one conjunct per thread. Both are goroutines that run when they can;
  the steps that wait for the log's mutex are enabled whenever they are
  reached, because a critical section is one step and this composition never
  leaks the lock. Nothing obliges a client to call or the cluster to remove a
  worker, and `MaxRemoved` is below the number of workers: with no worker left
  no job can end.
- CasServer: weak fairness, per call, of `FindMissingBlobs` and of the turn
  of `Read`'s loop that a working store and stream give it
  (`ReadTurn(c, FALSE)`). A handler is a goroutine that runs when it can. A
  failure of the store or of `Send` may happen and is never owed: were the
  failing turn fair too, a loop that makes no progress would still be said to
  end, through the failure. Whether the stream of a `Write` ends depends on
  the client, so `WriteRecv` has no fairness and `EveryLoopEnds` does not
  speak of it.
- GitIngest: none. Its properties are safety properties; whether a subprocess
  ends depends on git.

Deadlock checking is off for SagaLog, Cluster, WorkerHandler and CasServer: a
server at its bound with no call in progress, a view whose loop has ended and
a log whose lock was leaked may all stop. It is on for Scheduler and
GitIngest, where an idle caller can always call.

## Not modelled

- `runner.Service` beyond what the handler observes (checkout, output, timeouts).
- The thrift transport and `MakeServer`'s sockets: a connection is a goroutine.
- Time: `timeLastRpc`, the ticker period and the latency gauges.
- The text of errors and log lines.
- CAS: the bytes of a blob and their hash (the server never checks a hash), the
  TTL given to `Store.Write`, and the expiry of stored data. The store never
  loses what was written, so `AckedNeverMissing` is about the handlers agreeing
  with each other, not about retention.
- CAS: what a store does with a second write of a name. `UpdateActionResult`
  and `Write` use the same name for an action digest and for the blob with that
  digest; the model lets the later write replace the earlier one. The
  counterexample of cas_collision does not depend on it: there the `Write`
  comes second and does not reach the store.
- CAS: a reader that reports an error once. `Read` forgets an error that
  `r.Read` returns together with data; the model's reader returns the error
  again on the next call, as a file or a connection does, and the call ends
  Internal. With a reader that answers `io.EOF` after the error it reported,
  `Read` would end OK for a truncated blob. The store's reader is not in the
  source, so which it is cannot be read off the code.

- Execution: `Execute` and `GetOperation` are stubs that answer `Done` with
  exit code 0 for a job that was only scheduled; the model answers as they do
  and relates nothing in the answer to the job's state.
- Scheduler: `KillJob` and the abort of a job with its compensating tasks;
  recovery on startup (the log of the source is in memory and does not outlive
  the process, so there is nothing to recover from); the periodic tick and
  timeouts; priorities other than the one `Execute` sets; the retries and
  back-off of `worker.Run`, and the worker's side of a run (`WorkerHandler`
  checks the duplicate `Run` such a retry is, on its own); the release of a
  removed worker. The cluster view is not part of the composition: a removal is
  an event that may happen at any step.
- Saga: the validating wrapper with cached state that the specification
  describes. The source has `Saga{log: ...}` around the whole log, and that is
  what `Scheduler` uses; scheduler_loss is what the difference amounts to.
- Cluster: the `Subscriber`, which is not in the source. Every open
  subscription is received from as soon as the loop sends, which is what the
  specification's subscriber, a goroutine that only receives, does.
  `EveryRequestAnswered` rests on it: a subscriber that stops receiving, or
  calls the view from its receiving goroutine, blocks the loop in `sub <-
  outgoing` and with it every caller.
- Git: the contents of objects, refs and `HEAD`, the parent of the commit
  `commit-tree` makes, and the inside of `moveCommit`, which is not in the
  source. `create.go` declares the temporary branch names it works with, fixed
  names that two concurrent moves would share; what `moveCommit` does with
  them, and what it leaves behind when it fails, cannot be read off the code.
  `IngestIsAtomicStore` holds for a `moveCommit` that copies all or nothing.

## Plan

Modules are written in the order of the dependencies between the parts, the
self-contained ones first:

1. `SagaLog`, `Cluster`, `WorkerHandler` (done).
2. `CasServer` (done), with the termination of its loops and the run for the
   name shared by action results and blobs. Open: a store modelled with
   expiry.
3. `Execution` (done).
4. `GitIngest`, and `SnapshotStore` which it refines (done).
5. `Scheduler`, the composition of `Execution` and `SagaLog` with the
   scheduler loop and the Task Runner of the specification (done); its runs
   took the place of the runs that checked the two parts alone.
6. Open: the worker's side of `RunTask` (`WorkerHandler` under the retries of
   the Task Runner), and the cluster view as the source of `Removed`. Each
   multiplies the states of `Scheduler` by those of a module that fills a run
   of its own today; they wait for a reduction that keeps the liveness check
   within reach.
