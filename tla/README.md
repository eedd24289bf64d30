# Tarn: TLA+ models, model checking and proofs

Tarn is a local emulator of AWS services: one Go process that serves the AWS
APIs over HTTP, keeps each service's state in memory, saves it as JSON
snapshots, and runs functions and tasks in Docker containers. This directory
holds TLA+ models of the parts of it that are concurrent or stateful enough to
be hard to test, the TLC configurations that check them, and TLAPS proofs.

Run a configuration with `tlc -workers 2 -config MCFlusher.cfg MCFlusher`, and a
proof with `tlapm FlusherProofs.tla`. `PROJECT.json` lists the runs, the
theorems, the hazards, and for every definition the source lines it models.

## 1. Inventory

### Parts and how they interact

| part | state | operations | talks to |
|---|---|---|---|
| persist flusher (`internal/persist`) | dirty flag, kick channel, write mutex | mark, background loop, Flush, Close | every store with a snapshot |
| job queue (`internal/asyncqueue`) | buffered channel, mutex, wait groups, closed flag | Submit, workers, Drain, Close | Lambda's asynchronous invokes, EventBridge's dispatch |
| SQS store (`internal/sqs/store.go`, `dlq.go`) | queues, messages, visibility, dedup entries, redrive policies | send, receive, delete, change visibility, release, purge, redrive, transfer, reap, queue life cycle | HTTP API, event sources, SNS, EventBridge, S3 |
| SQS service (`internal/sqs/service.go`) | long polls, reaper goroutine | ReceiveMessageUntil, MoveToDLQIfExceeded, Stop | store; its wake channels |
| event sources (`internal/eventsource`) | mappings, pollers | create, update, delete, tag; poll, invoke, settle, scale up, disable | SQS, DynamoDB streams, Lambda |
| Lambda and engine (`internal/lambda`, `internal/engine`) | functions, deployments and their leases, containers per function, availability channel | invoke, acquire, cold start, release, evict, concurrency limits | Docker; all event producers |
| Step Functions (`internal/stepfunctions`) | machines, executions, running handles, event history | start, run, stop, delete, evict | Lambda, ECS, HTTP |
| DynamoDB (`internal/dynamodb`) | tables, items, stream records, wake channels, TTL | item writes, transactions, stream reads, expiry, UpdateTable | event sources |
| ECS (`internal/ecs`) | clusters, services, tasks, running containers | run, stop, reconcile, drain, recover | engine, EventBridge, Step Functions |
| EventBridge (`internal/eventbridge`) | rules, schedules, ECS slots | put events, schedule, fire, edit | job queue, Lambda, ECS |
| Cognito (`internal/cognito`) | users, sessions, refresh-token index, challenges, codes | sign up, sign in, confirm, recover, delete | message senders, Lambda triggers |
| S3 (`internal/s3`) | bucket index, bodies, metadata files, configurations | put, copy, delete, bucket life cycle | notifications to SQS, SNS, Lambda |
| logs (`internal/logs`) | groups with a buffer that becomes a ring, streams, policies | put, ingest, clear, prune, create, delete | every container's output |
| accounts (`internal/api/accounts.go`, `server.go`) | loaded services, records, `account.json`, three locks | load on first use, archive, restore, delete, Touch, shutdown, restart | every service |
| SNS, KMS, Secrets Manager, API Gateway, traces | maps under one lock each | create, read, update, delete | the services above |
| server and command line (`internal/cli`, `internal/api`) | none of their own | start, decode, route, encode, stop | everything |

Services call each other directly in process; there is no message transport to
lose or reorder anything. What is concurrent is goroutines: a request handler per
call, the reaper, pollers and their drain loops, workers, flushers, timers. What
fails is a snapshot write, a container, a timeout, and the process itself
between two steps.

### Which behaviours are hard

`PROJECT.json` lists the hazards, each at its line. The recurring patterns are:

* *wake-up protocols*: a goroutine looks, finds nothing and sleeps on a channel
  another one closes (dirty flag and kick, the queue's wake channel, DynamoDB
  stream readers, container availability);
* *look, unlock, act*: a decision is taken under a lock that is given up before
  it is carried out (the reaper's candidates, a queue looked up and scanned, a
  mapping read and saved, a password checked, a rule copied and fired, an account
  checked and loaded);
* *two owners of one item*: poller, reaper, redrive and consumers move and delete
  the same message; reconciler, StopTask, container exit and drain end one task;
* *a copy and its index*: refresh tokens and sessions, an S3 index and its files,
  a table and its stream, a record and `account.json`;
* *shutdown with a grace period*: Close waits for a while and then goes on;
* *a crash or restart* between two writes that belong together.

### What makes each part correct

* flusher: an acknowledged change is saved, marked or being written; the file
  never goes back; Close saves; marked means scheduled.
* job queue: never panics, Drain and Close mean what they say, closing ends
  every accepted job.
* SQS: no message lost or doubled by a transfer; FIFO groups in order;
  deduplication within its window; nobody's in-flight message is reaped; no poll
  sleeps through a message and every poll returns.
* event sources: an update or deletion is not undone by a poller; no poller
  outlives its mapping; nothing is settled that no run of the function processed.
* Lambda: a container serves one invocation and is never leaked; a deployment
  directory lives as long as somebody uses it; no stale environment is reused; a
  waiter is woken.
* Step Functions: an ended execution has its whole history; a RUNNING one is driven
  by somebody; no task it started is abandoned.
* ECS: no container in the runner's hand escapes a stop; never more tasks than asked for; a drained
  service has nothing left; a rollout goes one task at a time and finishes.
* DynamoDB: the stream tells the history of the items; no reader sleeps over a
  record; a rejected call changes nothing.
* EventBridge: a fire leaves state and targets as the calls made them, and a rule
  with a schedule keeps running.
* Cognito, S3, logs: the index, or the ring, agrees with what it indexes.
* accounts: an archived account has no services, serves nobody, and is saved as
  what it is.

## 2. Modules

Each component has a module of its own. An `MC...` module gives the constants
values. The theorems are in eight `...Proofs` modules:

| module | proves about |
|---|---|
| `FlusherProofs` | Flusher, and that it implements SnapshotFile |
| `SQSProofs` | SQSStore, LongPoll |
| `SchedulingProofs` | AsyncQueue, ECSService |
| `EventSourceProofs` | EventSource |
| `LambdaProofs` | Lambda |
| `WorkflowProofs` | EventBridge, StepFunctions, ECSTask, Interpreter |
| `StorageProofs` | Cognito, DynamoDB, S3, Logs, and that Logs implements BoundedLog |
| `AccountsProofs` | Accounts |

### Flusher and SnapshotFile (`internal/persist/flusher.go`)

The store's contents are a version number: `mem` in memory, `disk` in the file.
A writer mutates, swaps the flag and sends the kick in three steps; `Flush` is
lock-and-clear, capture, and commit or failure, and runs in the loop, in `Close`
and in any caller of the exported `Flush`. `RemarkOnFailure` selects between the
SQS store, which marks itself again after a failed write, and the eleven stores
that drop the error. The capture is one read of the store under its lock, as in
`dynamodb/store.go`; the SQS store locks one queue after another, so for it a
version stands for each queue separately and a transfer may be cut in two (see
the plan). `startFlusher` itself is the initial state: it runs before the account
serves requests.

`SnapshotFile` is what the flusher promises a store: the file holds a version the
store was in, and each write moves it forward. `ImplementsFile` maps `mem` and
`disk` to its two variables; it is checked and proved.

### SQSStore (`internal/sqs/store.go`, `dlq.go`, `service.go`)

Messages are numbered in the order they are appended, so a queue's slice is its
messages in increasing order; `origin` names the send a copy goes back to. A
receipt handle is a message with its receive count, the empty handle being count
0. Periods are kept as what is left of them and a `Tick` takes one off each, which
makes the state space finite. Every store operation holds the locks of the queues
it touches and is one action; `Reap` is an action per queue and one per transfer,
with everything else in between, except creating and deleting queues (it holds
the store's read lock) and the clock (it reads the time once). `owed` is a
history variable: the sends that no client has removed and that have neither
expired nor been absorbed by a duplicate.

Abstracted: bodies, attributes, ids and handles as text; the queue's kind is
fixed at creation (`SetQueueAttributes` can turn a standard queue into a FIFO
one); `moveToDLQ`'s first check, which only decides whether to take the second
lock, is folded into the deciding one under both; a call that changes nothing (an
error, an empty receive, a suppressed duplicate, a disrupted send) is a
stuttering step; a send that looked its queue up before `DeleteQueue` and
appended after it counts as done before the deletion. Handles are ones that were
given out (`MinReceipt = 1`).

### LongPoll (`internal/sqs/service.go`, extends SQSStore)

`ReceiveMessageUntil` step by step: check for cancellation, look the queue up,
scan it, sleep. Every SQSStore action is conjoined with the signal its code
sends. A signal closes the queue's channel and forgets it, so each sleeping poll
holds either the current channel or a closed one, and one Boolean per poll
(`woken`) represents it. `orphan` marks a poll whose queue was deleted after the
look-up.

### AsyncQueue (`internal/asyncqueue/queue.go`)

`Submit`'s critical section is modelled step by step, since workers take no lock.
A `Stuck` job returns only when its context is cancelled. `Done` on an empty wait
group, a send on the closed channel and a second `close` set `panicked`. The nil
queue, which runs jobs inline, is left out.

### EventSource (`internal/eventsource/service.go`, `poller.go`, `store.go`)

The mappings of one source and one function. Each start of a poller is a
generation with its own copy of the mapping; loop 1 is `run`, the others the drain
loops that `scaleUp` starts. A poll is receive, filter, invoke, settle, advance,
save, with the lock `poller.mu` where the code holds it; `stop` sets the flag,
cancels, and waits for the loops up to its grace period. API calls take
`Service.mu` and are steps of their own around each save, stop and start. A
configuration is a version number; the queue is reduced to what a poller can tell
of a message. `handled` is a history variable.

### Lambda (`internal/lambda`, `internal/engine`)

One function: its record, versions and alias; its deployment directories with the
leases that keep them; the set of containers in the pool; the start gate; the
invocations. Where the code takes the first match in creation order, any match may
be taken: no property depends on which. `acquireContainer` and `coldStart` are modelled one lock at a
time (`Top`, `ReadConcurrency`, `CheckReserved`, `AcquireIdle`, `TakeGate`,
`CaptureChannel`, `CountPool`, `DiscardIdle`, `DecideColdStart`, `Wake`,
`CreateContainer`, `RetireAfterCreate`, `StartContainer`, ...). Management calls
hold the function's mutex; their second steps (retiring $LATEST's containers,
signalling availability) are `pending`. Docker is external: every call may fail.

### Interpreter and StepFunctions (`internal/stepfunctions`)

`Interpreter` is one execution: a flow is one goroutine in `execution.loop` (the
machine, a Parallel branch, a Map item), `main` the goroutine in `run_`. Every
state type's control is there, with Retry, Catch, the join of branches, the Map's
semaphore, `ecs:runTask.sync` with its polling and its stop, and the emitter that
numbers an event before it hands it over (`pending`: the goroutines in between).
Data handling succeeds or fails with `States.Runtime`. The machine is a constant of
which `InterpreterAssumption` says what `validateMachine` checks and that machines
are nested as the JSON document is, to any depth. `StepFunctions` is the service around it: one action
per store call, `StartExecution` and its goroutine in steps (save, register, run,
read, save), StopExecution, deletion with eviction, flush and restart.

### ECSTask and ECSService (`internal/ecs/runner.go`, `service.go`)

`ECSTask` is one task: the launching goroutine, a starter and a lifecycle goroutine
per container, `StopTask`, `Runner.Stop`, a crash at any step and the recovery of
the next process from the saved record and Docker's list. Docker may fail: the wait
for a container may end with an error while it runs (it is then treated as having
exited), a removal may do nothing (its error is dropped), and the list a recovery
asks for may not come, or a removal of the orphans it found may fail: the task is
then `unadopted`, and what Docker still runs of it belongs to nobody. `Watched` are
the running containers the runner has in hand; `NoEscape` and `TrackedWhileRunning`
are about them. `ECSService` is one
service: its calls, the reconcile pass step by step with the (possibly late)
container listing it works on, admission, launch, back-off, rollout to any other
definition, and `DrainService`, which meets launches at the gate. A task is there what the
reconciler sees of it.

### DynamoDB (`internal/dynamodb`)

One table. A write is planned and then committed with its stream record; a batch
or a transaction is refused whole or planned whole before any of it is committed,
and may not name an item twice. A condition check of a transaction commits
nothing. The TTL sweeper deletes expired items, in the order of the map. Records
are pruned at `MaxRecords`; readers look, capture the wake channel and sleep.
`UpdateTable` retires and creates streams. Every call is one step of `s.mu`, and
`tableMu` says whether one returned without unlocking it.

### EventBridge (`internal/eventbridge`)

One rule. A fire works on a copy of it, target by target, while calls change the
stored one, and saves its result at the end; fires come from the scheduler's
minute, from a dispatched event or from a call. `wanted` is a history variable:
what the calls made of the rule. `StateAndTargetsKept` compares the stored rule with
it; the next run of an enabled rule is the part of an edit that a fire does
overwrite, and `SchedulesRun` says what should then still hold of it.

### Cognito (`internal/cognito`)

The users of one pool. A call that hashes a password or runs a trigger gives up
the service lock and is two actions (`SignInBegin`, `PasswordEnd`; ...); the second
finds the user by name again, or holds the object it had. A check of a password
or code succeeds or fails. Restart rebuilds the refresh index from the sessions.

### S3 (`internal/s3/store.go`)

One bucket name, through its successive buckets: the directory, the bodies, the
metadata files and the index of each `bucketState`, under the store's and the
bucket's lock. Puts and copies are create, copy and metadata; deletes are body
and metadata; each may fail, and the process may crash between any two. `transfer`
is what each client is at; a call keeps the `bucketState` it looked up, so it may
outlive its bucket. `torn` counts the file changes since the index was made that
failed, were cut off or ran across a deletion. `IndexExact` lets each of them put the
count off the listing by one, and wants all of the index exact when there was none.

### Logs and BoundedLog (`internal/logs`)

A group's buffer with its head and count, growing to `MaxEvents` and then
wrapping, replaced by a shorter one when it is pruned. `BoundedLog` is what
readers are promised: every event written, oldest first, of which the newest
`Capacity` are kept, less the expired ones. Events are numbered as they are handed
in (`given`, which the ring's module counts as `nlines`), and a write appends exactly
the events with the next numbers: a line that is handed in and not kept is no step of
it. It says of a prune only which events are left and that they are in order.
`ImplementsLog` maps the ring to the sequence it reads as; it is checked and proved.

### Accounts (`internal/api/accounts.go`, `server.go`, `datadog.go`)

The registry of an instance. A request is check, `get` (with the factory running
under `r.mu` when the account is not loaded), handler, `Touch`, and the look-up of
the request log; archive, restore and delete are steps around `unload`, the stop
of the services and the write. `metaMu` is never held across a step, so its
sections are single steps; `writeMu` is `writing`, which holds what is about to
be written. `Touch` leaves a background write at most once an hour (here: any
time but the first). Shutdown drains up to a deadline, `StopAll` takes `r.mu`,
`persistActivity` saves what no background write took; `Start` is the next process
after a shutdown or a crash at any step. A request of the dashboard (under `/_tarn/`)
ends without `Touch` and without the request log (`AnswerDashboard`). `Touch` counts its
background write in the step that changes the record, although the code adds it just
after it releases `metaMu`: the request is still in its handler then, and a shutdown
that meets its deadline waits for the handlers before it waits for the writes
(`drained`; of one that does not, `RecordsSaved` asks nothing for calls still under
way). `clock` counts activity times.

### Composition

`LongPoll` composes the store with its pollers. `MCScheduling` (the job queue and the
ECS service) and `MCServices` (nine parts) extend parts that share no state and put them side by side: `active`, chosen by the initial state,
says which part moves. A step of one commutes with every step of another, so the
interleavings add nothing to what each part does; where one part calls another
(an execution runs a task, a rule dispatches a job), the caller's module already
answers the call with every outcome. In `MCScheduling` each part's fairness is
conditional on its being the active one.

## 3. Runs

| run | instance | checks |
|---|---|---|
| `flusher` | 2 writers, 1 caller of Flush, 2 changes, 1 failed write | `AckedIsCovered`, `ImplementsFile`, `EventuallySaved`, `CloseReturns` |
| `sqs_transfer` | standard queue and DLQ, 2 messages, 2 receives each, with and without a policy | `NothingLost`, `ReaperSparesInFlight` |
| `sqs_group` | FIFO queue and FIFO DLQ, 3 message numbers, one group, delays, visibility timeouts of 1, 2 receives each | `AtMostOneLive`, `FifoInOrder` |
| `sqs_fifo` | FIFO queue and FIFO DLQ, 2 messages, one group, one dedup id, delays, a long poll on the DLQ that asks for both messages and hides none | `NoLostWakeup`, `DedupHolds`, `PollReturns` |
| `scheduling` | job queue: 3 jobs (1 stuck), 2 workers, backlog of 1, 1 Drain, 2 Closes; ECS service: 2 tasks, 2 definitions, 2 deleters, 3 calls or faults | `NoPanic`, `ClosedJobsFinish`, `DrainReturns`; `NoSurplus`, `DrainedIsQuiet`, `RolloutOneAtATime`, `Converges` |
| `eventsource` | 1 caller, 2 calls, 1 message or 2 records, 2 receives, 2 loops, 1 restart | `NoSaveAfterStop`, `Accounted`, `TagsSurvive`, `StoppedExits` |
| `eventsource_orphan` | 2 callers, no restart | `NoOrphan`: **violated** |
| `eventsource_update` | 1 caller, no restart | `StoreMatchesPoller`: **violated** |
| `lambda` | 2 invocations (1 queued), 2 packages, 2 containers, limit 1, 2 management calls | `PoolSound`, `DeploymentsKept`, `NoStaleEnvironment`, `NoMissedRelease` |
| `services` | nine parts, see below | `NoAbandonedTask`, `HistoryComplete`; `RunningIsDriven`; `NoEscape`, `TrackedWhileRunning`; `StreamMirrorsItems`, `NoSleepOverRecords`; `StateAndTargetsKept`; `RefreshIndexExact`; `IndexExact`; `ImplementsLog`; `ArchivedNotLoaded`, `RecordsSaved` |
| `eventbridge_enable` | 1 rule, 1 ordinary target, 2 intervals, 1 worker, 4 edits, 2 minutes | `SchedulesRun`: **violated** |
| `accounts_archive` | 1 request, 1 archive call | `ServedByItsAccount`: **violated** |

The parts of `services` (1,019,885 states): an execution of a machine with a retried
task, a Parallel state with an ECS branch, a Choice, a Map of two items of which one
is a Parallel state itself, Wait, Fail and Succeed, cancelled or timed out anywhere; two starts under two names with a limit of one
stored execution, two calls, a restart; a task of two containers of which the
second depends on the essential first, one StopTask, one crash; a table of two
keys, three writes or updates, two streams, one reader, one restart; a rule with
an ordinary and an ECS target, two intervals, one worker beside the scheduler,
three edits; two users under one name, two sessions, five calls; two objects in
two successive buckets of one name, two clients, six calls of which three put,
failures and a crash; two groups (one of the
system's) with a ring of two, four lines; an account with two calls of any kind
and a restart after a shutdown or a crash.

Bounds. The flusher needs two writers for a mark to race a mark, and a second
change for one made during a write. The transfers need a message in each state
(visible, in flight, over the threshold) and a copy's number: two numbers make
one transfer or one redrive reachable, and a third a second one of the same send,
which is how poller, reaper and redrive could double a message (`sqs_group`,
938,306 states). FIFO order needs a group with messages in several states at once:
one delayed, one in flight or just released, one that the dead-letter queue gave
back (the same run). A second receive is what makes a receipt
stale. Two closers are needed for a second `Close`; a backlog of one is full with
one job queued and one running. A rollout needs two tasks on two definitions. Two
invocations and a limit of one make one of them wait; two packages make a stale
environment. A poller is made obsolete by one call and removed by a second; two
callers make them meet (`eventsource_orphan`). Two containers are needed for one to be started when the
other exits. Two users and two buckets under one name are a deletion and re-creation
with a call across it; three puts are an upload, an overwrite that is torn and the
next write that finds what it left.
Two account calls are every pair of a request, an import, an archive, a restore
and a deletion. A ring of two wraps with its third line and is pruned with its
fourth. Every passing run explores its instance completely.

Deadlock is not checked: all these systems stop when their callers do.

### What the violations show

* `eventsource_update`: a stopped poller's copy "must not" be written back.
  `UpdateMapping` saves before it stops the running poller; a poll that ends in
  between overwrites the update, so the store and the next start have the old
  configuration while the new poller runs the new one.
* `eventsource_orphan`: DeleteMapping "removes a mapping and stops its poller". An
  update between a create's save and its `startPoller` starts a poller that the
  create's then overwrites in the map: it runs on and no call finds it.
* `eventbridge_enable`: a fire does not save its copy wholesale since that "would
  discard targets, state or tags changed by API calls meanwhile". It does save the
  copy's next run: a rule disabled, or without a schedule, when the fire read it and
  enabled again before the fire ends, loses the next run it was given, and is never
  fired again.
* `accounts_archive`: an archived account's request "never falls back to the default
  account". A request that passed the check before `Archive` marked the account
  and looks its services up afterwards gets nil from `get` and runs on the default
  account's.

### Fairness

* Flusher: goroutines that can run do; timers fire; `sync.Mutex` is starvation
  free, so acquiring it is strongly fair. Writing, `Flush` and `Close` are calls
  nobody must make. `EventuallySaved` needs the bound on failed writes: a disk that
  always fails saves nothing.
* LongPoll: the poll's goroutine runs, the reaper ticks once a second, and the
  clock advances (strongly fair because a reaper pass interrupts it).
* AsyncQueue: workers run and jobs end, a stuck one when cancelled; the timeout of
  `Close` fires. Mutex steps inside `Submit` and `Close` are weakly fair: their
  holder runs.
* EventSource: each caller's and each loop's goroutine runs, and an invocation ends
  (the engine bounds it by the function's timeout). No source has to have anything.
* ECSService: the reconcile loop, the back-off timer, the drain and Docker's
  handling of a stop proceed. Calls and faults need not happen, and are bounded:
  `Converges` speaks of what follows once they end.

The other parts are checked for safety only.

## 4. Proofs

Everything below holds for every value of the constants under the modules'
assumptions: names distinct from the values that stand for "none", bounds natural
numbers, finite sets of jobs, invocations, containers, keys, objects and task ARNs,
at least one worker, a positive capacity, a valid state machine. One theorem on event
sources assumes more, named below.

*Flusher.* `FlusherType`, `MarkScheduled`, `AckedCovered`, `CloseSaves` (when Close
has returned, its last write succeeded and no other Flush is under way, what was
acknowledged before it is in the file) and `Refinement`
(`Flusher` implements `SnapshotFile`), for any number of writers and flushers, any
failures and both kinds of store. The invariants are not inductive alone: the
induction adds that the holder of the mutex is exactly the process inside `Flush`,
that a snapshot captured by it is at least as new as the file, that a writer still
to mark or to kick accounts for its own version, and that after `Close` the loop
has exited.

*SQSStore.* `StoreType`, `OneLiveCopy`, `NoMessageLost`, `FifoOrder`,
`ReaperSpares`, `DedupExclusive`. The induction adds that numbers above `last` are
unused and that a copy's origin is a number already used (`SlotInv`); together
with `AtMostOneLive` and `NothingLost` this is `CopyInv`. Actions are grouped by
what they do to copies: those that only remove (`Shrinks`) and those that give a
message a new number (`Relocates`), with one lemma for each. `DedupExclusive`
needs in addition that no period exceeds its initial value and that a live message
whose window is open has an entry that outlasts it. `FifoOrder` and `ReaperSpares`
are action properties and follow from the definitions of the actions and the type
invariant.

*LongPoll.* `PollType` and `WakeupsArrive`: a poll asleep on an open channel has
nothing to receive now and nothing that falls due before it wakes by itself. The
invariant (`WaitInv`) says so of every such poll; each action of the store is either
`Calm` (it makes no message of the polled queue receivable) or signals the queue, and
which of the two is proved action by action. The delicate cases are the FIFO groups,
where a removal makes the next message receivable, and the clock, which the poll's
own timer must not outrun. `PollsUseTheStore` shows that a poller's steps are steps of
the store or leave it alone, so the store's theorems carry over to the composed
system: `PolledDedup`, `PolledOrder`, `PolledNothingLost`.

*EventSource.* `EventSourceType`, `EverythingAccounted` (`Accounted`), `TagsKept`
(`TagsSurvive`), `StoppedSavesNothing` (`NoSaveAfterStop`), for any number of
concurrent calls, loops, messages, records and restarts. `ESInv` adds
what each call and each loop holds where it is (which mutex, a mapping, the batch it
has settled), and that no copy of a mapping, in a call, a poller or the store, is
ahead of the records that succeeded. `StopInv` says that a caller waiting for a
poller has the service's mutex and that a poller whose stop has returned is stopped.
`StoppedSavesNothing` assumes `PromptSteps`: only an invocation outlasts the grace
period of `stop`. Without it the statement is false, since `stop` then returns while
a save is under way.

*Lambda.* `LambdaType`, `PoolIsSound` (`PoolSound`), `NoStaleIdle`
(`NoStaleEnvironment`), `ReleasesNotMissed` (`NoMissedRelease`), `DeploymentsAreKept`
(`DeploymentsKept`), for any number of invocations, containers, packages and
management calls. Every step is first reduced to one of four kinds: a step of one
invocation, a step that touches no invocation, the removal of a container, a restart
(`Steps5`). `PoolInv` ties the start gate to the invocation that counts and creates,
each busy container to the one invocation that holds it, and bounds the pool.
`StaleInv` says that a container that is neither retired nor current has an update
or a cold start that will still look at it. `WaitInv` says that what an invocation
has found out since it captured the availability channel still holds while that
channel is open. The leases are counted: `Counted` equates each counter with the
number of invocations, cold starts and containers that use the package, and every
step is shown to change both sides alike (`Balanced`); `OnDisk` follows from it.

*ECSService.* `SchedulerType`, `NeverOvershoots` (`NoSurplus`), `DrainsForGood`
(`DrainedIsQuiet`), `RolloutsTakeTurns` (`RolloutOneAtATime`) and
`DefinitionsDoNotMix`, for any number of tasks, deletions, counts and definitions.
All steps but a launch, its success, its failure and a stop by the pass are `Calm`:
they bring no task, activate none and start none. `Budgeted` counts what the pass
still has to launch, and the launch under way, with the active records. `Generations`
says that the active service and a deletion under way have different generations, and
that no launch is admitted for a generation whose drain is over: the gate separates a
launch from the drain, the status separates it from what follows. `RolloutTurn` needs
`OneDefinition`: a pass launches only when every task of another definition is gone
(an active one is stopped first, one that is to stop is still tracked), so the tasks
that are not over share one definition, even if a pass of a deleted service launches
into its successor. Hence if one task is old, all are, and one that the rollout
stopped before keeps the gate closed.

*AsyncQueue.* `QueueType`, `QueueNeverPanics`, `DrainSound` (the jobs submitted
before a Drain that returned have finished), `CloseSound` (every accepted job has
finished when a Close returns that its timeout did not cut short). The induction says that the wait group
equals the number of jobs between `Add` and `Done`; that a job inside `Submit` and a
closer inside its critical section hold the mutex, the former with the queue open;
that the channel holds exactly the queued jobs and the workers exactly the running
ones, each once; and that a worker only leaves when the closed channel is empty.

*Accounts.* `AccountsType` and `ArchivedStaysUnloaded`: the induction (`IInv`) adds
where each kind of call can be (`CallsPlaced`) and that a load under way holds
`r.mu` for an account that is not archived (`LoadsGuarded`): `unload` marks and
unloads in one section of that lock, so it cannot come between `get`'s second look
at the mark and the registration. `RecordsStaySaved`: whoever changes a record owes
a write until it made one. `RInv` says that `writeMu` has one holder, who owes the
write (`LockHeld`); that an unknown record is blank (`BlankRecords`); that what is
being written is current unless somebody else owes a write (`WritesCurrent`); that
where nobody owes one, record and file agree (`SettledAgree`); how the activity
times are ordered and which of them are in the file (`TimesOrdered`,
`ActivitySaved`); and what a drained shutdown leaves (`Shut`). The actions are
first reduced to what they do to each field (`SaveStep`), and the seven parts are
then proved preserved one lemma each.

*EventBridge.* `FiresKeepStateAndTargets` (`StateAndTargetsKept`), `SlotsNeverLeak`, `RuleType`, for
any targets, workers, backlog and ECS limit. The induction adds that the fires that
hold an ECS slot are the ones inside `RunTask` and that the counter is their number
(`SlotsExact`), so that none of a fire's early returns leaks one.

*StepFunctions.* `NoRecordRunsForEver` (`RunningIsDriven`), `MachinesType`, for any
machines, names and calls. `MachinesInv` adds where a run can be: one that has started
has its ARN, one that has ended its status (`RunsPlaced`), so that its last save ends
the record it began. Over a restart the property is carried by the load, which aborts
what the snapshot says is RUNNING.

*Interpreter.* `TasksNeverAbandoned` (`NoAbandonedTask`), `HistoriesAreComplete`
(`HistoryComplete`), `ExecutionType`, for every valid machine, nested to any depth, and
any number of tasks. `ExecutionInv` has four parts: types; where a flow is, its state
exists and is of the type that code is for, and what validation guarantees of it
follows (`Placed`); a flow outside `runECS` has asked every live task of its last call
to stop, and one inside it has seen only stopped tasks as STOPPED (`TasksKept`); a child
that is not at rest is waited for by the one state that started it (`TreeInv`). From the
last follows that when the root has returned nothing below it runs: a busy child of
least depth would have a busy parent above it.

*ECSTask.* `NothingEscapes` (`NoEscape`), `AlwaysTracked` (`TrackedWhileRunning`),
`TaskType`, for any containers, dependencies, stops, crashes and failures of Docker's
waits, removals and listings. The first two are about the containers the runner has in
hand (`Watched`): a task whose recovery failed has no goroutine to stop it, and a
container in hand is one the tracked task still counts (`WatchedFacts`). `PhaseInv` says where
the goroutines of a container can be while the launch is at a step; `CountedInv`
equates `remaining` with the containers whose goroutines have yet to subtract
themselves, so that zero means none. `StopInv` follows a stop on its way: recorded,
then requested, then at every running container either carried out or still somebody's
to do: its starter's, the stopper's, the failing launch's or an essential sibling's
(`Handled`); `SweptInv` says what the shutdown's sweep leaves.

*Cognito.* `TokensMatchSessions` (`RefreshIndexExact`), `SessionsHaveOwners`, for any
names and calls. `PoolInv` adds that names never share a user object, that session
numbers are unique and owned by a user who has a name, and that a call which gave up
the lock remembers a user that existed. Steps are reduced to the five ways in which
they meet the index, one lemma for each.

*DynamoDB.* `StreamTellsHistory` (`StreamMirrorsItems`), `NobodySleepsOverRecords`
(`NoSleepOverRecords`), `TableType`, for any keys and requests of any length. `TableInv`
says of the table in memory and of the one on disk alike that the records of a stream
with both images lead from image to image and end at the items (`StateInv`), since a
restart makes the second the first. `CommitOne` shows that a committed plan keeps this
whether or not a record is evicted for it, and `CommitAllFollows` carries it along a
batch: `CommitAll` is a recursive function, and the shortest batch for which it would
fail extends one for which it holds.

*S3.* `IndexStaysExact` (`IndexExact`), `BucketType`, for any objects, sizes, clients
and calls, whatever is torn. `IndexExact` is about a bucket nobody writes to; the
inductive invariants must hold in the middle of a call too. `DriftInv` bounds the
count: what the next write of an object will take for its old state is the body it
finds, or the size it found when it began (`Seen`); the count is at least the number of
objects that are listed or seen so, and at most the number that are both, give or take
one for every torn write. `ExactInv` is about buckets with no torn write. There the index still tells what the metadata
tell (`Matches`), body and metadata differ only for an object that a call holding the
bucket's lock works on (`Fits`), and the call remembers the old size, which its last
step subtracts (`Remembers`). `Holders` says that the calls that write have the lock of
their `bucketState`, and `GoneWhenDeleted` that a deleted bucket left no files. The
total size is a sum over a set of objects (`Sizing`); the lemmas on it (adding,
removing, changing one object) are proved on the smallest set that would violate them.

*Logs.* `RingImplementsLog` (`ImplementsLog`): the ring implements `BoundedLog`, for any
capacity, groups, streams and policies. `LogsInv` says that a ring's head and count fit
its buffer (`RingShape`), and that it reads as events in the order of their numbers,
none of which is still to be given; `given` is mapped to `nlines`. `SlotOf` computes the slot of the i-th oldest event
without the modulus, `PutOne` shows that a put reads as an append that drops the oldest
event when the buffer is full, `NewestTwice` that two puts read as one append of both,
`KeptProperties` what pruning's scan returns, `FreshRing` that the buffer it makes reads
as it is. Every operation is then a step of `BoundedLog` or leaves what readers see
alone.

`MarkedIsScheduled`, `ClosedMeansSaved`, `DrainComplete`, `CloseComplete`, `SlotsExact`,
the ownership of sessions and the type invariants are proved and are not repeated in
the runs.

Every invariant and action property that a passing run checks, and both refinements,
are proved; the properties of the violation runs are false and have none. Only model-checked are the liveness properties (`EventuallySaved`,
`CloseReturns`, `PollReturns`, `ClosedJobsFinish`, `DrainReturns`, `StoppedExits`,
`Converges`), which with fairness and `ENABLED` are outside what the prover handles.
What recursive functions compute is proved by taking the least natural number at which
a statement fails, since the library's induction theorems cannot be instantiated.
`PutLogEvents` is proved for the batches the models write (one or two events).

## 5. Not modelled

The map covers about an eighth of the repository's lines, and most of what is left
has no state of its own to say anything about: HTTP handlers that decode and
encode (`internal/api/*`, the largest part), the command line with its load
generator and updater, the console, wire formats, cron, pattern, path and
expression evaluation, Docker's client. A model of those would be a
transliteration of text processing. The remaining stateful parts:

* SNS, KMS, Secrets Manager, API Gateway, traces: maps under one lock, with no
  waiting and no two-step operations worth a model of their own but for the ones
  named in section 6.
* The server's wiring and the order in which an account's services stop; the SQS
  disruptor (a disrupted call is one that never happened).
* SQS: tags, counters, listings; lock order (`lockQueuePair` locks by name);
  `startFlusher`, which runs before the account serves requests.
* Event sources: filter patterns, batching windows, payloads, traces.
* Lambda: ZIP edits made outside the API, layers, permissions, tags, image
  resolution, the promotion from Pending, payloads.
* Step Functions: paths, templates, intrinsic functions, history pages.
* ECS: networks, health checks, log pumps, secrets, contents of definitions.
* DynamoDB: expressions, queries, key order, indexes, tags, backups.
* EventBridge: cron arithmetic, patterns, buses, tags.
* Cognito: pools, clients, groups, aliases, token signing, message senders.
* S3: listings, object tags, the delivery of notifications.
* Logs: filters, pages, scans, tags, parsing of container output.
* Accounts: routes, and failures to write `account.json`.

A restart is modelled as a start from the last snapshot, without its parsing.
Stores that save only through the flusher restart in their own modules from the
state a clean shutdown leaves, or from any earlier flush where the module has one.

## 6. Limits of the code met while modelling

Where the code, read closely, does something a reader may not expect, the models
follow it and the properties are stated so that they allow it:

* SQS: the handle of a message never received is empty, so a visibility change with
  an empty handle hides the first such message. A snapshot locks one queue after
  another, so a transfer may be in both or in neither queue's part. `DeleteQueue`
  signals so that "waiting long polls re-check and find the queue gone"
  (`store.go:455`); a poll between its look-up and its scan misses the signal, finds
  the queue it holds empty and sleeps until its own deadline, as `PollReturns` says.
* Event sources: CreateMapping's look for an existing mapping "keeps mappings unique"
  (`service.go:214`), but look and save are under no common lock, so two concurrent
  creates for one source and function save one each; `Restart` merges them as the code
  does. A poller started by an update between a create's save and its `startPoller` is
  lost from the map (`eventsource_orphan`). The run `eventsource` has one caller; the
  theorems on the same invariants hold for any number of concurrent calls.
* Step Functions: a StopExecution between the save of the record and its
  registration stops nothing; an execution whose machine is deleted saves itself
  again when it ends.
* DynamoDB: a reader that fell behind skips the evicted records; streams re-created
  within a millisecond share an ARN. "A rejected request changes nothing"
  (`table.go:145`), but an UpdateTable rejected for its encryption specification returns
  at `table.go:207` with the store's mutex held, and every later call blocks: the
  model's `tableMu` stays taken.
* Lambda: the limit is read before the gate, so one lowered meanwhile is exceeded
  once.
* EventBridge: a fire saves a next run computed from the schedule it copied. If the
  schedule was changed meanwhile, the following fire corrects it; if the copy had none,
  the rule never fires again (`eventbridge_enable`); if the schedule was replaced by a
  pattern, the rule gets a next run that no fire moves, and fires every minute.
  EnableRule on a rule with a pattern fails.
* ECS: a failed wait is taken for an exit, and a failed removal or recovery leaves a
  container nobody looks for before the next start, although `finishTask` takes it that
  "every container has already been removed". An update back to an earlier definition is a rollout like any other; a delete
  of a service with no tasks marks it without the gate.
* S3: a failed overwrite removes the body and keeps metadata and index; a crash
  between body and metadata leaves them apart; a put across DeleteBucket's unlocked
  removal lands in the next bucket of the name; a copy of an object onto itself
  empties it; configurations stay in memory after DeleteBucket; two concurrent
  PutBucketNotification calls may leave memory and file different. `torn` counts
  the ones among these that touch an object's files. After a failed overwrite the next
  put counts a listed key a second time, so ObjectCount does not stay "consistent with
  what RecentObjects and ListObjects report" (`store.go:761`): `IndexExact` bounds the
  difference by the number of such failures.
* Cognito: UpdateUserAttributes and GetUserAttributeVerificationCode use a client that
  may have been deleted; concurrent MFA sign-ins of a user share one code.
* Logs: cursor paging skips events with equal or out-of-order times.
* Accounts: Delete forgets the mark before it removes the files, so a request in
  between loads the account again, and one in flight re-creates its record; a Restore
  during Archive's stop lets a second copy of the services load beside the stopping
  one; unsigned Cognito requests of an archived account go to the default account.
* Secrets: a name resolves by prefix, so `db` may find `db-prod`. API Gateway v1 reads
  and then saves without a lock, and PatchMethod changes a shared map outside it.

## 7. Plan

1. **SQSSnapshot**: the snapshot taken queue by queue, composed with `SQSStore` and
   `Flusher`, with a crash and a restart: what a torn capture may lose or double. It
   is the hazard of the list that no property covers.
2. **AccountShutdown**: the order of stops and closes in `cli/server.go`, from the
   abstract behaviour of Flusher, AsyncQueue and the pollers.
3. SNS fan-out, the secret versions' stages, API Gateway v1's unlocked updates.
4. One abstract wake-up protocol (a channel captured before the look) that LongPoll,
   Lambda's availability and the DynamoDB readers implement.

Proofs to add: for what items 1 to 4 model; the liveness
properties, once the prover handles fairness.
