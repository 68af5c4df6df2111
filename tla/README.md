# A verification of eth2-validator

eth2-validator is the validator client of an Ethereum consensus node: it asks a
beacon node which duties its validators have in each epoch, runs each duty at
its time (a block proposal, an attestation, an aggregation, a sync committee
message), signs and publishes the result, and keeps a record of it.  This
directory holds TLA+ models of the program, the TLC runs that check them on
small instances, and theorems about them that TLAPS checks for every instance.

## 1. Inventory

### Components, state and operations

| Component | Source | State | Operations | Modelled |
|---|---|---|---|---|
| Duty queue | `internal/server/duty_queue.go` | delay heap, blocked duties and reverse index, ready list, unacknowledged duties, trace contexts, gauges, two notification channels, one timer | `Enqueue`, `Dequeue`, `Ack`, the loop `runDelayHeap` | `DutyQueue`, abstract `DutyFlow` |
| Delay heap | `internal/delayheap` | array heap, index by id | `Push`, `Pop`, `Peek`, `Update`, `Remove` | `DelayHeap`, abstract `DelaySet` |
| Scheduler | `internal/scheduler/scheduler.go` | none between epochs | `HandleEpoch`, `Process`, `cleanDuties` | `Scheduler` |
| Duty logic | `internal/scheduler/duties.go` | none | one handler per kind of duty | `ValidatorServer`, `DutyRecords`: what a handler reads, publishes and returns, not the messages |
| Validator state | `internal/server/state` | boltdb on disk, memdb in memory with secondary indexes | `NewState` with `reIndex`, `UpsertDuties`, `UpsertValidator`, `Close`, queries by index | `StateStore`, `StateSchema`, abstract `DurableStore`; the queries in `ValidatorLifecycle` and `DutyRecords` |
| Slashing checks | `internal/server/state/state.go:258-382` | reads the state | `SlashBlockCheck`, `SlashAttestCheck` | `DutyRecords` |
| Server | `internal/server/server.go` | the routines and all of the above | `NewServer`, `watchDuties`, `handleNewEpoch`, `runWorker`, `Stop` | `ValidatorServer`, abstract `DutyLedger`; its use of the state in `ValidatorLifecycle`, `DutyRecords` |
| Validator lifecycle | `internal/server/server.go:349-395` | the validators in the state | one pass per epoch | `ValidatorLifecycle`; its effect on the plans in `Scheduler` |
| Subscription services | `internal/server/sync_*_subscription.go` | none | `Run`, `Close`; not started by the server | `Subscriptions`, without the fields of the calls |
| Routine manager | `internal/routine` | the running routines | `Add`, `Start`, `Stop` | `RoutineManager` |
| Bit list | `internal/bitlist` | bytes | `NewBitlist`, `SetBitAt`, `BitAt`, `Len` | `BitList` |
| Command line | `internal/cmd` | signals, the goroutine that stops the server | `handleSignals` | `Shutdown`; not the flags and the configuration |
| Slashing format, gRPC service, HTTP client, messages | `internal/slashing`, `internal/server/service.go`, `internal/beacon`, `internal/server/proto` | none | formatting, queries, HTTP calls | no: no state of their own |

### How they interact

`watchDuties` starts a goroutine per epoch that runs `handleNewEpoch`: it asks
the scheduler for a plan, gives the plan to `DutyQueue.Enqueue`, then writes it
to the state.  `runDelayHeap` moves a duty from the delay heap to the ready list
at its active time.  The duty worker (`runWorker`) loops over `Dequeue` and
starts a goroutine per duty; the goroutine runs the duty against the beacon
node, records the result in the state and calls `Ack`, which releases the duties
blocked by it.  An aggregation is blocked by its attestation and reads the
attestation's result from the state.  `validatorLifecycle` asks the beacon node
once per epoch for the index and activation epoch of the validators that have
none yet; the scheduler only plans duties of validators it finds active.

### What is hard, and what must hold

* *Duty queue.*  Four kinds of goroutines share it; notifications are
  non-blocking sends on unbuffered channels, so they are lost when the other side
  is not yet in its `select`; a duty is peeked under one lock and launched under
  another; the timer is reset without draining.  No duty may be lost, run twice,
  run before its blockers or before its time; every duty must run in the end.
* *Scheduler.*  The clean-up of duties in the past must not separate a duty from
  its blocker; every duty of the plan is in the epoch and at the right offset.
* *State.*  Disk and memory must agree after an upsert, an error and a restart;
  duty objects are shared by pointer and changed outside transactions.
* *Server.*  Publishing and recording are two steps, with crashes, panics and
  `Stop` in between; the plan is enqueued before it is recorded.
* *Validator lifecycle.*  A validator must not be missed when it becomes active
  after it is first seen, or after a restart.
* *Slashing checks.*  What they let through against EIP-3076.

* *Subscriptions.*  A change of the duties during a call must not be missed.
* *Delay heap, bit list, routine manager.*  Small data structures with an index, a
  length mark and a set of goroutines that must stay in step.
* *End of the program.*  `Stop` may hang, and races with signals and a time limit.

`PROJECT.json` lists each hazard at its line, with the properties that cover it,
or the reason why none does.

## 2. Structure

The components meet at narrow places, and the development follows them: a component
is modelled in detail, shown to implement an abstract specification of what it
promises, and its users are modelled over what it promises.

| Detailed | Implements | Used as such by |
|---|---|---|
| `DelayHeap` | `DelaySet` | `DutyQueue`, whose heap is a set with an earliest element |
| `DutyQueue` | `DutyFlow` | `ValidatorServer`, whose queue is `DutyFlow` with active times |
| `StateStore` | `DurableStore` | `ValidatorServer`, whose `UpsertDuties` is one step |
| `Scheduler` | `SchedulerBatches` (a hypothesis of `DutyQueue`) | `DutyQueue` |
| `ValidatorServer` | `DutyLedger` | |

`StateStore` is extended by `ValidatorLifecycle` (the rows of the validators), that by
`DutyRecords` (the rows of the duties and the slashing checks), and that by
`Subscriptions`.  `RoutineManager`, `BitList` and `Shutdown` stand alone.

Each safety property that a passing run checks is also a theorem, those about `Ack`,
the reverse index and the gauges under a hypothesis named there, and so is each
refinement:

| Proofs | About |
|---|---|
| `DutyQueueProofs`, `GaugesAndTimerProofs` | the duty queue (section 3) |
| `SchedulerProofs` | the plans (section 4) |
| `ValidatorServerProofs` | the server (section 5) |
| `StateStoreProofs` | the two copies of the tables (section 6) |
| `ServerStateProofs` | the queries and the slashing checks (section 6) |
| `DelayHeapProofs`, `ComponentProofs` | the small components (section 7) |

## 3. The duty queue

### `DutyFlow`: the promise

One variable, `phase`, that gives each duty `new`, `pending`, `running` or `done`.
`Submit(S)` hands over a plan, `Start(d)` gives a pending duty to a handler when
all the duties it is blocked by are done, `Finish(d)` ends it.

### `DutyQueue`: the code

A critical section of the lock `p.l` is one action; what happens between two
critical sections is separate.

| Action | Code |
|---|---|
| `Enqueue(batch)` | `Enqueue` with a plan: blocked duties and reverse index, pushes, gauges, contexts, notification |
| `Dequeue` | the critical section of `Dequeue`: take the head of `ready`, or go on to the select; the error when the context is missing ends in the worker's panic |
| `DequeueWait` | entering the select on `updateCh` |
| `Ack(d)` | `Ack`, called by the handler of `d`, with its error returns |
| `PeekAndArm` | `nextDelayedEval`, then `NewTimer` or `Reset` |
| `Select` | entering the select of `runDelayHeap`, receiving a tick already in the channel |
| `TimerFires` | the runtime sends the tick |
| `Launch` | `case <-timerChannel`: `Remove`, `enqueueLocked` |
| `ClockTick` | time passes |

`heap` and `worker` are the control points of `runDelayHeap` and of the goroutine
in `Dequeue`.  `NotifyDelayHeap` and `NotifyWorker` are the non-blocking sends:
they wake the other goroutine only if it is parked in its select.  `timer` is the
deadline of `delayTimer` and whether a tick is in its channel, which has room
for one.  `AsyncTimer` says whether such a tick survives `Reset`: it does for
every program whose `go.mod` says go 1.22 or less, as here (go 1.18).  A blocked
entry is its set of remaining blockers, with `{}` for no entry.  `closeCh` is never
closed by the program, and `EmitStats` and `Stats` only read; they are left out.
`enqueued` and `acked` are history variables.

`reverseBlockedMap` is kept as the code keeps it: the test in
`duty_queue.go:93` empties the list of a blocker when it *exists*, so only the last
dependent survives (`ReverseAfter`).  This is harmless as long as no two duties
share a blocker.  `SchedulerBatches` states that condition, and that a blocker is
in the plan of its dependent or never enqueued; the scheduler meets it because
each aggregation is blocked by its own attestation.  `MCDutyQueue` assumes it of
its workload, and the theorems about `Ack` have it as a hypothesis; the other
theorems hold for arbitrary plans.  `StatsExact` also needs at most one blocker
per duty (`SingleBlocker`): `TotalBlocked` grows by the number of blockers and
shrinks by one.

### Runs

All runs use the workload of `MCDutyQueue` (`MCDutyQueueLive` adds three flags: two record
a missed wake-up, one a tick that outlived a `Reset`): one plan with a proposal, an attestation
and its aggregation, another with a sync committee duty and an aggregation whose
attestation `cleanDuties` dropped, with active times 1, 2 and 3.  The two plans may
be enqueued in either order and at any time, also late, which gives every kind of
race: an earlier duty pushed while a later one is armed, a push by `Enqueue` and by
`Ack` in every state of `runDelayHeap`, two duties of the same time, a duty that
is already late.  The clock stops at `MaxTime = 3`, the last active time: later
instants differ in nothing.  Runs do not check deadlock, since a workload ends.

| Run | Result | Shows |
|---|---|---|
| `queue_plan` | pass | `TypeOK`; the inductive invariants `Inv` and `IndexInv`; `OnePlace`, `BlockersFirst`, `NoStrandedDuty`, `AckNeverFails`, `StatsExact`; `EarlyOnlyByStaleTick`: a duty is ready before its time only if a tick survived a `Reset` and a duty whose time has come was launched before it; the queue implements `DutyFlow`; `RunsUnlessWakeupMissed`: a duty enqueued with its blockers is acknowledged in the end, unless a wake-up falls into the window before a select and no later one makes up for it |
| `queue_lost_ready` | violation of `ReadyIsDequeued` | `updateCh` does not notify "whenever there are new ready duties" (duty_queue.go:36) |
| `queue_early` | violation of `NotEarly` | a stale tick launches a duty before its active time (structs.proto:46, duty_queue.go:228) |

A wake-up of `runDelayHeap` can be lost in the same way (duty_queue.go:108, 179: the
update sent between `nextDelayedEval` and the select); `RunsUnlessWakeupMissed` records both
windows with its flags `heapMissed` and `workerMissed`, and fails without either.  Both are
real for the last duty before a quiet period; during operation the next notification
that is received delivers the delayed duty too, which is what the property establishes.

**Fairness.**  The liveness property assumes weak fairness of each step of the two
loops, of the timer and the clock (the Go scheduler and runtime), and of `Ack(d)`
for each duty handed out: a handler ends, because its calls to the beacon node
return or fail, and a failure ends the process.  Nothing is assumed of `Enqueue`.

### Proofs

`DutyQueueProofs` proves, for every finite set of duties, every set of plans,
every blocking relation and both kinds of timers:

| Theorem | States |
|---|---|
| `TypeCorrect` | `Spec => []TypeOK` |
| `Invariance` | `Spec => []Inv` |
| `NeverLostNorTwice` | `Spec => []OnePlace` |
| `BlockersComeFirst` | `Spec => []BlockersFirst` |
| `IndexInvariance` | `SchedulerBatches` implies `Spec => []IndexInv` |
| `AckFindsDependents` | `SchedulerBatches` implies `Spec => []AckNeverFails` |
| `NeverStranded` | `SchedulerBatches` implies `Spec => []NoStrandedDuty` |
| `Refinement` | `Spec => ImplementsDutyFlow` |

The assumption is `DutyAssumption` on the constants.  The inductive invariant is
`Inv`: besides the types it says where each duty is (`Placed`), that the duty
peeked by `runDelayHeap` is still in the heap when its timer fires
(`PeekedInHeap`; without it `Launch` could make a duty ready that has left the
heap), that what a duty no longer waits for is acknowledged (`Released`; it turns
"nothing left in `blocked`" into "all blockers acknowledged"), and that the
contexts are those of the unacknowledged duties.  There is a lemma per action.
`IndexInv` adds what the reverse index holds under `SchedulerBatches`: exactly the
one dependent of each blocker; it needs `Planned` to exclude a plan whose blocker
was acknowledged before.  The refinement maps each step: `Enqueue` to `Submit`,
a successful `Dequeue` to `Start`, `Ack` to `Finish`, every other step to a stutter.

`GaugesAndTimerProofs` proves two more.  `GaugesAreExact`:
`SchedulerBatches` and `SingleBlocker` imply `Spec => []StatsExact`; what is left is
counting, one lemma per action on how the sizes of the sets change.
`EarlyNeedsStaleTick`: `WatchedSpec => []EarlyOnlyByStaleTick`, from an
invariant that ties the deadline of the timer to the duty that was peeked, and a tick in
the channel to a duty whose time has come and that is peeked or was launched.
Only model-checked: the liveness property (liveness under fairness is out of the
prover's reach).

## 4. The scheduler

`Scheduler` models the goroutines that `watchDuties` starts, one per epoch, each of
which runs `HandleEpoch` and `Process` once.  They overlap: the goroutine of an
epoch may still wait for the beacon node when the next epoch begins.

| Action | Code |
|---|---|
| `WatchGenesis` | the wait for genesis, then `CurrentEpoch` |
| `WatchEpoch` | one turn of the loop: `go handleNewEpoch(epoch)`, wait for the next one |
| `ReadValidators(e)` | `GetValidatorsActiveAt` |
| `QueryFails(e)` | an error of the beacon node or of decoding its answer: logged, the epoch is not tried again |
| `Process(e)` | the plan: `Duties` builds the duties, `CleanDuties` drops what is due, `Fork` fills in the fork |
| `LearnValidators` | `validatorLifecycle` has learnt the index and activation epoch of some validators |
| `ClockTick` | time passes |

Time is counted in thirds of a slot, since the delays of `Process` are 0, 1/3 and
2/3 of a slot.  A duty is named by kind, validator, slot and subcommittee; its id,
active time and blockers follow from these.  What the beacon node assigns is
constant, and so is being an aggregator, because the selection proof is a
deterministic signature.  The three queries of `HandleEpoch` change nothing of ours
and are one step.  `Sign` finds the validator, which `HandleEpoch` has just read from
the state and nothing removes; a configuration whose divisors are zero is excluded
by `SchedulerAssumption`.  That `runBlockProposal` uses the Altair form of the block
for Bellatrix too (duties.go:237) is a matter of message contents and not modelled.

| Run | Result | Shows |
|---|---|---|
| `sched_plan` | pass | `TypeOK`, the inductive `PlanInv`; `PlannedOnce`: the plans of two epochs are disjoint; `PlanSound`: only duties of own active validators, still to come; `PlanComplete`: none is forgotten; `OrphansOnlyInWindow`; `QueueHypothesis`: what the duty queue relies on; `ForkAgrees`: duties are built for the fork they are signed for; `EveryEpochHandled` |
| `sched_orphan` | violation of `BlockersPlanned` | a plan made between 1/3 and 2/3 of a slot keeps an aggregation whose attestation it drops (scheduler.go:290) |
| `sched_first_slot` | violation of `ProposalsPlanned` | the proposal of the first slot of an epoch is dropped even by a plan made at the very start of the epoch (scheduler.go:295) |

The instance has two validators, one active from epoch 0 and one from epoch 1, three
epochs of two slots with the forks at epochs 1 and 2, a proposal in every slot (one by
a foreign validator), attestations with and without an aggregation, sync committees
with two subcommittees and with two seats in one, and starts before genesis and in
the middle of the first two epochs: each rule of `Process` applies to some duty and
fails to apply to another, and each pair of goroutines can overlap in every order.
`LastEpoch` bounds the epochs and with them the clock.

**Fairness.**  `EveryEpochHandled` assumes weak fairness of the watch loop, of the
steps of each goroutine (its queries return or fail), and of the clock.

**Proofs.**  `SchedulerProofs` proves `TypeCorrect`, `PlanInvInvariant`, `NeverPlannedTwice`,
`PlansAreSound`, `PlansAreComplete`, `OrphansComeFromTheWindow`, `PlansSuitTheQueue` and
`ForksAgree`, from `SchedulerAssumption` alone.  `PlanInv` says of
each planned duty that it is well-formed for its epoch (`WellFormed`), that its time
is after the plan was made, and that an epoch whose goroutine has not finished has
an empty plan; two plans are disjoint because the slots of two epochs are
(`OneEpochPerSlot`).  There is a lemma per family of duties and one per action.
`PlansSuitTheQueue` closes the gap of the queue's theorems: `SchedulerBatches` is not
an assumption about the environment but a consequence of how plans are built.
`PlansAreComplete` and `OrphansComeFromTheWindow` need a second invariant, `Made`: a plan is
what `Process` made of the validators read, at the time it was made.
Only model-checked: the liveness property.

## 5. The server

`ValidatorServer` extends `Scheduler` with the queue, the handlers, the records and the
life of the process.  The queue is `DutyFlow`, which `DutyQueue` is proved to
implement, with the guard `Due` on a start: the time of the duty has come, or the timer
has kept a stale tick.

The program is built with the timers of go 1.18 (go.mod), so stale ticks are part of the
model and not an option of it.  A tick that was sent while `runDelayHeap` handled an update
stays in the channel, through any number of `Reset`s, until a select with the timer
receives it; the duty peeked by then, the next one or one of a plan that came later, is
launched before its time.  `StaleTick` asks only that the process has started a duty
whose time has come, because the tick was sent for one and `ready` is a FIFO:
`EarlyOnlyByStaleTick` proves that no early launch goes without (section 3).  It allows more
early starts than the timer does, one tick starts one duty, so that what holds of the
model holds of the program.

| Action | Code |
|---|---|
| `Schedule`, `TimePasses` | the steps of `Scheduler` while the process runs |
| `EnqueuePlan(e)`, `SavePlan(e)` | the two halves of `handleNewEpoch` after the plan is made |
| `StartDuty(d)` | `runWorker` takes a duty from `Dequeue` and starts its handler |
| `Publish(d)` | `Duty.Handle`: the queries, the signature and the publication |
| `MarkComplete(d)` | `duty.Result = res; duty.State = COMPLETE`, outside any transaction |
| `SaveResult(d)` | `UpsertDuty` |
| `AckDuty(d)` | `evalQueue.Ack` |
| `ProcessEnds` | the process is killed, exits after `Stop`, or one of its handlers panics |
| `Restart` | `NewServer` on the same database |
| `Stop` | `Stop`: the database is closed, everything else goes on until the process exits |

`object[d]` is the state of the duty object, which the plan, the queue, the handler
and memdb share by pointer: `SavePlan` and `SaveResult` write what the object says at
that moment (`InPlan`).  `disk[b]` are the records written by the `b`-th process: ids
are fresh in each process, so that a later process never changes nor looks at an
earlier row.  `UpsertDuties` runs under the write lock of memdb and is one step; it
fails when the database is closed.  After `Stop` the channel `shutdownCh` is
closed too, but the loop of `watchDuties` may have received its timer already; the
model lets it go on, which allows more than the code does.  A panic is `ProcessEnds`
at any point, which also covers an error of the beacon node in a handler.

`DutyLedger` is the promise: a process publishes a duty at most once, and not at all when
an earlier one has, unless that was before the duty's time; what was published is
recorded, or lost with the process that published it; a record is final.

| Run | Result | Shows |
|---|---|---|
| `server` | pass | over two starts of the process: the inductive `ServerInv` and `OnceInv`; `PublishedAgainOnlyIfEarly`; `AggregateFindsResult`; `AckedIsRecorded`; `CompleteIsFinal`; `PublishedIsRecorded`; the server implements `DutyLedger` |
| `server_block_twice` | violation of `ProposedOnce` | a validator publishes two blocks for one slot (schema.go:28, structs.proto:46, duty_queue.go:228) |

Nothing of what a process did is consulted by the next one, and only the clock
(`cleanDuties` drops what is due, the queue starts what is due) keeps a duty from being
planned and published again.  A stale tick voids the clock.  `PublishedAgainOnlyIfEarly`
says what is left: within a process nothing is published twice, and a later process
publishes again only what an earlier one published before its time.  `early` is the
history variable that names these.  `server_block_twice` shows that the case is real for a
block, which is a slashable offence: the tick of an attestation is left over and launches
the block of a later slot; it is published; the process ends and is started again before
the time of the block, so that `cleanDuties` keeps it in the new plan, and it is published
for the second time.  What the model takes from the beacon node there is that it builds
and accepts a block for a slot that has not begun; the validator does nothing to prevent
either.

The instance of `server` has one validator and two epochs of one slot, so that the tick
left by a duty of the first epoch can meet the plan of the second: an attestation with
its aggregation in the first, another attestation in the second.  This gives every order
of two plans, a blocked duty and an independent one, starts at the time and before it,
and two processes that may plan the same epoch.  A third process would meet the disk
and `published` as the second does.  `server_block_twice` has epochs of two slots and the
block in the last of them.

**Fairness.**  `PublishedIsRecorded` assumes weak fairness of `MarkComplete` and
`SaveResult`: a handler that has published runs on, there is no call left in it that
may block but the database.  The property leaves out a process that ends and a
database that `Stop` has closed (server.go:319): a handler that has published may
then panic in its upsert (server.go:167), and what it published is not recorded.
`Shutdown` (section 7) shows what the exit code says of that.

**Proofs.**  `ValidatorServerProofs` proves, for every network, any number of starts,
every interleaving and every point at which the process ends:

| Theorem | States |
|---|---|
| `ServerInvHolds` | `ServerSpec => []ServerInv` |
| `AggregationFindsItsResult` | `ServerSpec => []AggregateFindsResult` |
| `AckFollowsRecord` | `ServerSpec => []AckedIsRecorded` |
| `NeverEnqueuedTwice` | `ServerSpec => []EnqueuedOnce`: the guard of `Submit` never blocks a plan |
| `RecordsAreFinal` | `ServerSpec => CompleteIsFinal` |
| `OnceInvInvariant` | `ServerSpec => []OnceInv` |
| `AgainOnlyIfEarly` | `ServerSpec => []PublishedAgainOnlyIfEarly` |
| `Refinement` | `ServerSpec => ImplementsDutyLedger` |

None has a hypothesis about the timers.

`ServerInv` relates the phase of a duty in the queue, its handler, its object and its
record (`JobsMatch`, `RecordsMatch`), says that a duty runs after its blockers
(`BlockersDone`) and that what is in the queue is in a plan that was enqueued
(`QueuedIsPlanned`), from which with `OneEpochPerSlot` no duty is enqueued twice.  `OnceInv` adds
who published what (`PublishedByHandler`, `RecordedIsPublished`) and what needs the clock,
`PublishedIsPast`: what was published and was not early is due by now, so that it is in no plan
made since, and in a plan of this process only if its handler is still there.  What was
early is exempt; hence no theorem says that a duty is published once.  In the refinement
`Publish` maps to `Publish`, a write to the disk to `Record` of the duties that become
`COMPLETE` with it, the end of the process to `Lose`, all else to a stutter.
Only model-checked: `PublishedIsRecorded`.

## 6. The state and its users

### `StateStore`: a write, step by step

The tables are kept twice.  `StateStore` models a write as the code performs it: the
write lock of memdb is the whole transaction, inside it the boltdb transaction, and
readers run between any two steps.

| Action | Code |
|---|---|
| `OpenDB`, `ReIndex` | `NewState`: the file is opened, then every record is inserted into memdb |
| `Begin(c, batch)` | `UpsertDuties` or `UpsertValidator` called by `c`; fails when the database is closed |
| `InsertRow(r)`, `PutRow(r)` | the two halves of a turn of its loop |
| `CommitDB`, `CommitMem` | boltdb commits, then memdb |
| `WriteFails` | an insert, a put or the commit of boltdb fails: both abort |
| `CloseDB` | `Close`, which waits for the boltdb transaction |
| `Complete(r, v, w)` | the owner of an object changes it in place (server.go:163-164) |
| `ProcessEnds` | what is not on disk is lost |

memdb stores pointers.  `Complete` therefore changes an object wherever there is a
pointer to it: in the tree that readers see, in the transaction, in the batch still to
be written; the disk and the indexes do not follow until the row is written again.
memdb deletes the index entries of the object it replaces by evaluating the indexers
on it again, *as it is then*: `InsertRow` subtracts the keys of `mem[r]`, which may have
changed since they were added.  That this is harmless rests on `StoreAssumption`: an
owner only adds keys to its object.  `InPlace` names the changes owners make;
`StateSchema` gives the keys of each table.

`DurableStore` is the promise: the rows of a write take effect all or none, at one
step, nothing else changes them, and nothing is lost when the process ends.

### The users

`ValidatorLifecycle` adds `NewServer`'s upsert of the bare validators, the routine
`validatorLifecycle` (`ReadPending`, `QueryOk`, `QueryFails`, `Register`, `Registered`, `RegisterFails`,
`NextRound`), the three queries over the validators (`Pending`, `ActiveAt`, `ByIndex`), the
beacon chain, which deposits and activates validators at any time, failing calls and
writes, `Stop` and restarts.  The discarded error of `UpsertValidator` (server.go:380) is
`RegisterFails`: the routine goes on to the next epoch.

`DutyRecords` adds the duties: a plan that is enqueued and then written, handlers
that finish at any time in between (`Finish` changes the object, `SaveResult` writes
it), and the two slashing checks as operators over the index, with the order of its
keys (`BlockKeyLeq`, `AttestKeyLeq`).  Only the parts of a result that the indexes read
are kept.  `Subscriptions` adds the two services: a listing with its watch channel, a
call, the wait.  A commit that writes duties closes the channels of all listings made
before it.

### Runs

| Run | Result | Shows |
|---|---|---|
| `state_store` | pass | `StoreInv`: disk, memory and indexes agree; `ImplementsDurableStore`; `QueriesExact`: the queries answer for the rows as they are; `BlockChecks`, `AttestChecks`: what the slashing checks refuse is exactly what the history of the validator explains, from the moment an upsert has returned and over restarts, and without a history what a validator after it explains; `EventuallyRegistered`: every validator the chain knows is registered in the end, after failed calls and restarts; `DutiesSubmitted`: every duty is part of a call made after it was written |
| `state_pending` | violation of `ActivationLearnt` | a validator seen before its activation leaves the pending index and is never asked for again (schema.go:50, server.go:367) |
| `state_slashing` | violation of `NoSlashable` | `SlashAttestCheck` lets a double vote pass when two attestations are recorded (schema.go:34, state.go:371) |

`MCServerState` has two validators, four blocks and three attestations in four plans, two
starts of the process and one failing call (`MaxBoots`, `MaxFaults`).  The users share
nothing but the write lock, and their product is too large: a behaviour has one
`focus`.  With "validators" the chain, the routine, faults and `Stop` move; with
"subscriptions" one plan of two attestations, faults and one service (the two differ
in the kind of duty only); with "blocks" and "votes" two plans each, all interleavings of
their handlers and writes, without faults.  An aborted write of a plan is met with
"subscriptions".

The blocks of validator 1 are in slots 1 and 2, so that slot 2 is above the lowest one and
the comparison of the roots (state.go:314) alone decides there: without it `BlockChecks`
fails.  The second plan has another block of validator 1 for slot 2 with another root, made
after a restart, which is what `server_block_twice` (section 5) arrives at; and a block of
validator 2 with the same slot and root as one of validator 1, so that each answer shows
whose record it looks at.  The votes of validator 1 are nested, so that double and surround
votes both exist, and validator 2 has one of its own.  The checks are evaluated for slots
and roots `1 .. 3` and epochs `0 .. 3`, and `NoSlashable` for epochs `0 .. 4`, which goes from what
nothing recorded allows to above it.  Two starts suffice for a restart to meet what its
predecessor left in every state; a third finds the same kinds of disk.

`LowerBound` on the prefix of an index is not restricted to the validator (state.go:294, 351):
a validator without a record is compared with the next one that has some.  `BlockChecks`
and `AttestChecks` therefore say for every validator that what the check refuses without a
record of its own is explained by a validator after it (`After`), and for one with a record
that the answer is exact whatever the others have signed.  A result that readers see
before its upsert has returned may count or not.

**Fairness.**  `EventuallyRegistered` and `ActivationLearnt` assume weak fairness of `NewServer`, of
the steps of a write and of the routine: goroutines are scheduled, calls return or
fail, and the epochs go on.  Failures are bounded by `MaxFaults`; without a bound on
consecutive failures no registration can be promised.  `DutiesSubmitted` assumes weak
fairness of the steps of the service, and counts a call as made when it fails, since
nothing repeats it before the next change (sync_committee_subscription.go:84).

### Proofs

`StateStoreProofs` proves, for all rows, contents, keys, callers and owners that meet
`StoreAssumption`, with any failures and restarts (`ServerUsesStore` and
`ServerKeepsStoreInv` also need
`LifecycleAssumption` and `RecordsAssumption`, which say how the rows and contents of the
server are among those of the store):

| Theorem | States |
|---|---|
| `InitStoreInv`, `StoreInvHolds` | `StoreSpec => []StoreInv` |
| `MemoryIsDisk` | `StoreSpec => []MemIsDisk` |
| `Refinement` | `StoreSpec => ImplementsDurableStore` |
| `ServerUsesStore` | `SubsSpec => StoreSpec` |
| `ServerKeepsStoreInv` | `SubsSpec => []StoreInv` |

`StoreSpec` lets any callers write anything and owners change their objects at any time;
`ServerUsesStore` shows that the routines of the server, as `ValidatorLifecycle`, `DutyRecords`
and `Subscriptions` model them, do nothing else (`UserInv`: what they are about to write are
rows with known contents), so that the theorems hold of them.  `MemIsDisk` is what a reader relies on.  It is not inductive alone:
`TxnFits` says that what is in the one transaction is in the other, up to what an owner
changed since it was encoded, and that the disk has what the committed boltdb
transaction had, which is what memory becomes with the second commit; `IndexFits`
says the same of the indexes of the tree and of the transaction.  In the refinement
`Begin` maps to `Ask`, `Complete` to `Amend`, `CommitDB` to `Apply`, a failure and the end of the process to
`Refuse`, all else to a stutter.

`ServerStateProofs` proves what the users of the state read from it, for any validators,
duties, results, plans, failures, calls of `Stop` and restarts:

| Theorem | States |
|---|---|
| `QueriesAnswer` | `SubsSpec => []QueriesExact` |
| `BlockCheckIsExact` | for all slots and roots: `SubsSpec => []BlockCheckExact(slots, roots)` |
| `BlockChecksHold` | the same for the slots and roots of the runs, `BlockChecks` |
| `AttestCheckIsExact` | for all epochs: `SubsSpec => []AttestCheckExact(epochs)` |
| `AttestChecksHold` | the same for the epochs of the runs, `AttestChecks` |

They follow from the inductive invariant `UsersInv`, which adds to `StoreInv` and `UserInv`:

* `RowsFit`: every copy of a row, in the trees, in the write under way and at its owner,
  is a validator with the metadata the chain gave at some time, or a duty as it was
  planned, with or without a result of its handler.  Without it the indexes may hold
  keys that no query can explain.
* `RecordsKept`: a duty whose upsert has returned has its result, on disk and in memory,
  under the keys of that result, and an unfinished write keeps it so.  Here the proof
  must follow the two commits of a write and the crash between them, and a plan that is
  written while its handlers finish.
* `HandlersFit`: the object of a duty whose upsert has been called does not change any
  more; this is what makes the keys of the index those of the result.

The checks read the first entry at or above a key, so that their proofs are about the
order of the keys: that a first entry exists (`Least`), that it is the least slot, or the
least source and target, of the validator, and that without an entry of its own it is one
of a validator after it (`BlockScanGoesOn`, `AttestScanGoesOn`).

Two blocks of a validator may be recorded for the same slot (section 5).  `SlashBlockCheck`
compares with a single entry of the slot (state.go:281), so that the root of the other
one is refused; `BlockCheckExact` promises that a root that passes is one of those that are
recorded, and that the root passes on which all of them agree.

`RecordsAssumption` names what the server gives to the state: results of attestations are
pairs of epochs, and duties are other callers than the routines are.  `SlashingKeys` gives
no keys to a duty without a result before it looks at its kind, as `FromObject` does;
the kinds and the missing result must not be arms of one `CASE`, whose value is not
determined where two of them hold.

## 7. Small components

One run, `components`, checks four modules that share no state with anything; a
behaviour moves one of them (`focus` of `MCComponents`).

| Property | Module | Says |
|---|---|---|
| `ImplementsDelaySet` | `DelayHeap` | the array heap with its index map behaves as a set with an earliest element, after any sequence of `Push`, `Pop`, `Update` and `Remove` |
| `BitsExact` | `BitList` | the list keeps its length and each position the value last written, whatever positions are written |
| `StopWaits` | `RoutineManager` | when `Stop` has returned no goroutine of any start is left |
| `GracefulExit` | `Shutdown` | exit code 0 means that `Stop` came to its end and cut off no write |
| `ExitsAfterSignal` | `Shutdown` | a signal ends the program, even when `Stop` hangs |

*Delay heap.*  `Up`, `Down` and `Fixed` are those of `container/heap`, each loop written as
the function from the number of its turns to where it stands; `Less` and `Swap` are the
methods of the repository; the zero time sorts last.  Six nodes make a heap of three
levels, in which `Remove` moves a node down and, between subtrees, up; three times
give ties, and 0 the zero time.

*Bit list.*  Bytes are numbers.  The sizes 0, 1, 7, 8 and 9 lie on both sides of the
boundary of a byte; positions go past the end.

*Routine manager.*  `Start` overwrites the instance it tracks, so that `Stop` must wait
for each before the next `Start`.  Two routines and two starts make every name meet
its own past.

*Shutdown.*  `handleSignals` and `Stop`, which it runs in a goroutine, with the routines and
a handler that goes on all the while: one that comes to its upsert after the database
was closed panics, which is exit code 2.  Four signals fit into `signalCh`.

**Fairness.**  `ExitsAfterSignal` assumes weak fairness of the main goroutine and of the
timer only; nothing of `Stop`, of the write it waits for, of connections or handlers.

**Proofs.**  `DelayHeapProofs`: `HeapImplementsSet`, `HeapSpec => ImplementsDelaySet`, for any
ids and times and any sequence of operations.  The invariant is `Good`: array and nodes
agree on their places (`Heaps`), and no node comes before the one above it (`Ordered`).
The argument has three layers.

* The array alone: after an operation at most one node is out of place, and it may have
  to rise (`MayRise`), to sink (`MaySink`) or either (`MayMove`); one turn of `up` or `down`
  keeps this for the next place (`Rise`, `Sink`), and where the loop ends the array is in
  order (`Risen`, `Sunk`).  Each form says in `Bridged` that the nodes below the place also
  fit the one above it, without which the exchange breaks the other branch.
* The loops: `UpLoop` and `DownLoop` are functions on the number of turns (`Iteration`),
  `RiseInv` and `SinkInv` hold at each turn, and the place comes closer to the end of the
  array, so that `up` has ended after `j` turns and `down` after `n`.
* The operations: each leaves the times of `DelaySet` in an array to which `UpOrders`,
  `DownOrders` or `FixOrders` applies, and the root of an ordered array leads (`RootLeads`).

The other three are in `ComponentProofs`.  `BitListIsExact`: `BitSpec => []BitsExact`, for any
list sizes and positions, within a byte by a table of the eight bits.
`StopWaitsForAll`: `ManagerSpec => []StopWaits`, for any routines and any number of starts.
The inductive `ManagerInv` says that whatever runs is of the last start, tracked, and not
yet passed by the loop of `Stop` (`Tracked`), and which contexts are cancelled
(`Cancelled`).  `GracefulExitIsEarned`: `ShutdownSpec => []GracefulExit`, from an invariant of
how far `Stop` has come.

## 8. What is only model-checked

* Liveness (`RunsUnlessWakeupMissed`, `EveryEpochHandled`, `PublishedIsRecorded`, `EventuallyRegistered`,
  `DutiesSubmitted`, `ExitsAfterSignal`): out of the prover's reach, as is `ENABLED`.

Recursion over data is proved about where the recursive definition is a function on the
naturals and the argument needs no induction over an operator: a set of naturals that
contains 0 and with each number the next is `Nat` (`Induct` in `DelayHeapProofs`, from the
least element of the rest).  Other recursive definitions do not occur in the modules.

The violations of sections 3 to 6 are behaviours TLC finds; nothing is proved of them.

| Run | Distinct states | Time with two workers |
|---|---|---|
| `server` | 243 054 | 1.5 min |
| `state_store` | 76 271 | 1 min |
| `components` | 180 907 | 2.5 min |

The other runs end within a minute.

## 9. Not modelled

* The contents of messages: how blocks, attestations and contributions are built and
  signed, the form of a block per fork (duties.go:237), the bit set in an attestation
  (duties.go:143), the encoding of records.
* The fields of the subscription calls, `UntilEpoch` among them
  (sync_committee_subscription.go:65).
* `Sign` beyond the choice of the fork: it reads the state and computes.
* The gRPC service, the Beacon API client with its mock, the EIP-3076 export: they have
  no state; each call is one HTTP request, one read or one conversion.
* Flags, the configuration file and the key file (command.go:141), logging, tracing and
  metrics output.
* A configuration whose divisors are zero (scheduler.go:245), excluded by
  `SchedulerAssumption`.

Mutants of the code are kept beside the definitions they change, named in a
comment; each property of a passing run fails for one of them.
