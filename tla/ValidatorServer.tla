--------------------------- MODULE ValidatorServer ---------------------------
(***************************************************************************)
(* The server (internal/server/server.go): the scheduler, the duty queue,  *)
(* the handlers of the duties and the state on disk, over several starts   *)
(* of the process.                                                         *)
(*                                                                         *)
(* The scheduler is the module Scheduler; the queue is what DutyQueue has  *)
(* been shown to implement, DutyFlow, with the active time added.  A plan  *)
(* is enqueued first and written to the state afterwards, a handler        *)
(* publishes first and records afterwards, and the process may end at any  *)
(* point: it is killed, a handler panics, or Stop is called and the        *)
(* process exits.  Only the disk survives.  The records of an earlier      *)
(* process are read back into memory but nobody looks at them: ids are     *)
(* fresh in each process.                                                  *)
(*                                                                         *)
(* The timer of the queue is the one of go.mod's go 1.18: a tick that was  *)
(* left over by Timer.Reset starts a duty before its time, so that a later *)
(* process may plan, and publish, the duty again.                          *)
(***************************************************************************)
EXTENDS Scheduler

CONSTANT MaxBoots   \* bound on the starts of the process

ASSUME ServerAssumption == MaxBoots \in Nat \ {0}

Boot == 1 .. MaxBoots

\* The duties that can be planned at all.
Task == UNION {Duties(e, Validator) : e \in Epoch}

VARIABLES
  boot,        \* the number of starts
  up,          \* the process is running
  dbOpen,      \* the database is open
  save,        \* save[e]: how far handleNewEpoch has come with the plan of e
  phase,       \* phase[d]: where the duty queue has d
  job,         \* job[d]: the handler of d
  object,      \* object[d]: the state of the duty object in memory, shared by
               \* the plan, the queue, the handler and memdb
  memdb,       \* the duties of this process DutyByID finds
  disk,        \* disk[b][d]: the record of d written by the b-th process
  published,   \* published[b][d]: how often the b-th process published d
  early        \* history: early[b] is what it published before its time

processVars == <<save, phase, job, object, memdb>>
recordVars == <<disk, published, early>>
serverVars == <<boot, up, dbOpen, processVars, recordVars>>
allVars == <<vars, serverVars>>

Queue == INSTANCE DutyFlow WITH Duty <- Task, BlockedBy <- [d \in Task |-> BlockersOf(d)]

-----------------------------------------------------------------------------
(* The process starts and ends                                             *)

ServerInit ==
  /\ Init
  /\ boot = 1
  /\ up = TRUE
  /\ dbOpen = TRUE
  /\ save = [e \in Epoch |-> "none"]
  /\ phase = [d \in Task |-> "new"]
  /\ job = [d \in Task |-> "none"]
  /\ object = [d \in Task |-> "PENDING"]
  /\ memdb = {}
  /\ disk = [b \in Boot |-> [d \in Task |-> "none"]]
  /\ published = [b \in Boot |-> [d \in Task |-> 0]]
  /\ early = [b \in Boot |-> {}]

\* The process ends: it is killed, it exits after Stop, or one of its handlers
\* panics, because the beacon node returned an error (duties.go:45), or the
\* database was closed under it (server.go:166).
ProcessEnds ==
  /\ up
  /\ up' = FALSE
  /\ known' = {}
  /\ next' = NoEpoch
  /\ handler' = [e \in Epoch |-> Idle]
  /\ plan' = [e \in Epoch |-> NoPlan]
  /\ save' = [e \in Epoch |-> "none"]
  /\ phase' = [d \in Task |-> "new"]
  /\ job' = [d \in Task |-> "none"]
  /\ object' = [d \in Task |-> "PENDING"]
  /\ memdb' = {}
  /\ UNCHANGED <<now, boot, dbOpen, recordVars>>

\* NewServer with the database of the processes before.  The validators are
\* written again without their metadata, so that none is known.
Restart ==
  /\ ~up
  /\ boot < MaxBoots
  /\ boot' = boot + 1
  /\ up' = TRUE
  /\ dbOpen' = TRUE
  /\ UNCHANGED <<vars, processVars, recordVars>>

\* Stop closes the database and then the other parts; the goroutines are not
\* waited for and go on until the process exits.
Stop ==
  /\ up
  /\ dbOpen
  /\ dbOpen' = FALSE
  /\ UNCHANGED <<vars, boot, up, processVars, recordVars>>

-----------------------------------------------------------------------------
(* The epochs                                                              *)

\* HandleEpoch and the loop of watchDuties.
Schedule ==
  /\ up
  /\ SchedulerStep
  /\ UNCHANGED serverVars

\* handleNewEpoch, first half: the duties of the plan go into the queue.
EnqueuePlan(e) ==
  /\ handler[e].pc = "planned"
  /\ save[e] = "none"
  /\ save' = [save EXCEPT ![e] = "enqueued"]
  /\ Queue!Submit(plan[e].duties)
  /\ UNCHANGED <<vars, boot, up, dbOpen, job, object, memdb, recordVars>>

\* UpsertDuties: boltdb and memdb together, under the lock of memdb.
Upsert(duties, record) ==
  /\ disk' = [disk EXCEPT ![boot] =
                [d \in Task |-> IF d \in duties THEN record[d] ELSE disk[boot][d]]]
  /\ memdb' = memdb \cup duties

\* Mutant of InPlan: the plan has copies of the duties, made when it was planned.
InPlanCopy == [d \in Task |-> "PENDING"]

\* The plan holds pointers to the objects that the handlers change.
InPlan == object

\* handleNewEpoch, second half: the plan is written to the state; when the
\* database is closed the error is logged.
SavePlan(e) ==
  /\ save[e] = "enqueued"
  /\ IF dbOpen
     THEN /\ Upsert(plan[e].duties, InPlan)
          /\ save' = [save EXCEPT ![e] = "saved"]
     ELSE /\ save' = [save EXCEPT ![e] = "failed"]
          /\ UNCHANGED <<disk, memdb>>
  /\ UNCHANGED <<vars, boot, up, dbOpen, phase, job, object, published, early>>

-----------------------------------------------------------------------------
(* The duties                                                              *)

\* A tick can be left over in the timer of runDelayHeap: it fired for a duty
\* whose time had come, which the worker has received since (ready is a FIFO).
StaleTick == \E d \in Task : phase[d] \in {"running", "done"} /\ now >= ActiveTime(d)

\* The delay heap lets a duty go when its timer fires, which is at its active
\* time or, by a stale tick, before (EarlyOnlyByStaleTick of MCDutyQueueLive).
Due(d) == now >= ActiveTime(d) \/ StaleTick

\* runWorker receives d from Dequeue and starts its handler.
StartDuty(d) ==
  /\ Due(d)
  /\ Queue!Start(d)
  /\ job' = [job EXCEPT ![d] = "running"]
  /\ UNCHANGED <<vars, boot, up, dbOpen, save, object, memdb, recordVars>>

\* Mutant of Publish: the call may be repeated.
PublishRetried(d) ==
  /\ job[d] = "running"
  /\ published' = [published EXCEPT ![boot][d] = @ + 1]
  /\ job' \in {job, [job EXCEPT ![d] = "published"]}
  /\ UNCHANGED <<vars, boot, up, dbOpen, save, phase, object, memdb, disk, early>>

\* The handler asks the beacon node (an aggregation also DutyByID for the
\* attestation), signs, publishes, and returns a result.
Publish(d) ==
  /\ job[d] = "running"
  /\ published' = [published EXCEPT ![boot][d] = @ + 1]
  /\ early' = [early EXCEPT ![boot] = IF now < ActiveTime(d) THEN @ \cup {d} ELSE @]
  /\ job' = [job EXCEPT ![d] = "published"]
  /\ UNCHANGED <<vars, boot, up, dbOpen, save, phase, object, memdb, disk>>

\* Mutant of MarkComplete: the result is set and the state forgotten.
MarkResultOnly(d) ==
  /\ job[d] = "published"
  /\ job' = [job EXCEPT ![d] = "marked"]
  /\ UNCHANGED <<vars, boot, up, dbOpen, save, phase, object, memdb, recordVars>>

\* duty.Result = res, duty.State = COMPLETE: outside any transaction.
MarkComplete(d) ==
  /\ job[d] = "published"
  /\ object' = [object EXCEPT ![d] = "COMPLETE"]
  /\ job' = [job EXCEPT ![d] = "marked"]
  /\ UNCHANGED <<vars, boot, up, dbOpen, save, phase, memdb, recordVars>>

\* UpsertDuty; with the database closed it fails, and the handler panics.
SaveResult(d) ==
  /\ job[d] = "marked"
  /\ dbOpen
  /\ Upsert({d}, object)
  /\ job' = [job EXCEPT ![d] = "saved"]
  /\ UNCHANGED <<vars, boot, up, dbOpen, save, phase, object, published, early>>

\* Mutant of Acknowledged: the duty is acknowledged before it is saved.
AcknowledgedEarly == "marked"

Acknowledged == "saved"

\* evalQueue.Ack, the last call of the handler.
AckDuty(d) ==
  /\ job[d] = Acknowledged
  /\ Queue!Finish(d)
  /\ job' = [job EXCEPT ![d] = "done"]
  /\ UNCHANGED <<vars, boot, up, dbOpen, save, object, memdb, recordVars>>

-----------------------------------------------------------------------------

TimePasses == ClockTick /\ UNCHANGED serverVars

DutyStep(d) ==
  StartDuty(d) \/ Publish(d) \/ MarkComplete(d) \/ SaveResult(d) \/ AckDuty(d)

ServerNext ==
  \/ Schedule
  \/ \E e \in Epoch : EnqueuePlan(e) \/ SavePlan(e)
  \/ \E d \in Task : DutyStep(d)
  \/ ProcessEnds \/ Restart \/ Stop
  \/ TimePasses

ServerSpec == ServerInit /\ [][ServerNext]_allVars

\* A handler that has published goes on: one goroutine, one step after the other.
ServerFairness == \A d \in Task : WF_allVars(MarkComplete(d) \/ SaveResult(d))

ServerFairSpec == ServerSpec /\ ServerFairness

-----------------------------------------------------------------------------
(* Properties                                                              *)

\* The range of the variables.
ServerTypeOK ==
  /\ TypeOK
  /\ boot \in Boot
  /\ up \in BOOLEAN
  /\ dbOpen \in BOOLEAN
  /\ save \in [Epoch -> {"none", "enqueued", "saved", "failed"}]
  /\ phase \in [Task -> Queue!Phase]
  /\ job \in [Task -> {"none", "running", "published", "marked", "saved", "done"}]
  /\ object \in [Task -> {"PENDING", "COMPLETE"}]
  /\ memdb \in SUBSET Task
  /\ disk \in [Boot -> [Task -> {"none", "PENDING", "COMPLETE"}]]
  /\ published \in [Boot -> [Task -> Nat]]
  /\ early \in [Boot -> SUBSET Task]

Recorded(d) == \E b \in Boot : disk[b][d] = "COMPLETE"

Published(b, d) == published[b][d] > 0

\* A process publishes a duty at most once, and publishes what an earlier process
\* has published only if that one did so before the duty's time, by a stale tick:
\* a plan has only duties whose time is still to come, and no two plans of a
\* process share a duty.  Nothing else keeps a restarted process from signing a
\* second block or attestation for a slot; no record is consulted.
PublishedAgainOnlyIfEarly ==
  \A b \in Boot, d \in Task :
    /\ published[b][d] <= 1
    /\ \A c \in Boot : c < b /\ Published(c, d) /\ Published(b, d) => d \in early[c]

\* "EIP-3076 block proposer slash protection": no validator publishes two blocks
\* for one slot, over all the starts of the process.
ProposedOnce ==
  \A d \in Task : d.kind = "blockProposal" =>
    \A b, c \in Boot : Published(b, d) /\ Published(c, d) => b = c

\* "wait for other tasks to unlock": when the handler of an aggregation reads
\* its attestation with DutyByID(duty.BlockedBy[0]) and uses its result, memdb
\* has it and the result is there; nil would panic (duties.go:174-179).
AggregateFindsResult ==
  \A d \in Task : job[d] = "running" =>
    \A b \in BlockersOf(d) : b \in memdb /\ object[b] = "COMPLETE"

\* What the queue counts as done is COMPLETE on disk: Ack follows UpsertDuty.
AckedIsRecorded == \A d \in Task : phase[d] = "done" => disk[boot][d] = "COMPLETE"

\* A COMPLETE record never reverts, although handleNewEpoch may write the plan,
\* with the duty PENDING when planned, after the handler wrote its result.
CompleteIsFinal ==
  [][\A b \in Boot, d \in Task : disk[b][d] = "COMPLETE" => disk'[b][d] = "COMPLETE"]_allVars

\* A duty that was published is recorded, unless the process ends or Stop has
\* closed the database before.
PublishedIsRecorded ==
  \A d \in Task : job[d] = "published" ~> Recorded(d) \/ job[d] = "none" \/ ~dbOpen

\* Enqueue is given no duty it has been given before: the duties of a plan that
\* is not enqueued yet are new to the queue (Submit of DutyFlow needs it).
EnqueuedOnce ==
  \A e \in Epoch : save[e] = "none" => \A d \in plan[e].duties : phase[d] = "new"

-----------------------------------------------------------------------------
(* The inductive invariant behind the safety properties.                   *)

\* The handler and the queue agree, and the object is complete once marked.
JobsMatch ==
  \A d \in Task :
    /\ job[d] = "none" <=> phase[d] \in {"new", "pending"}
    /\ job[d] = "done" <=> phase[d] = "done"
    /\ object[d] = "COMPLETE" <=> job[d] \in {"marked", "saved", "done"}

\* Nothing is in memory while the process is down.
NothingDown ==
  ~up => /\ \A d \in Task : phase[d] = "new"
         /\ \A e \in Epoch : handler[e].pc = "idle" /\ save[e] = "none"

\* A duty runs after its blockers.
BlockersDone ==
  \A d \in Task : phase[d] \in {"running", "done"} =>
    \A b \in BlockersOf(d) : phase[b] = "done"

\* Only the duties of a plan are planned.
PlansAreTasks == \A e \in Epoch : plan[e].duties \subseteq Duties(e, Validator)

\* What the queue has is in a plan that was enqueued; with PlannedOnce, no duty
\* of a plan is in the queue before the plan is enqueued.
QueuedIsPlanned ==
  \A d \in Task : phase[d] # "new" =>
    \E e \in Epoch : save[e] # "none" /\ d \in plan[e].duties

\* The records of this process follow the objects, later rows are still empty.
RecordsMatch ==
  \A d \in Task :
    /\ job[d] \in {"saved", "done"} => disk[boot][d] = "COMPLETE" /\ d \in memdb
    /\ up /\ disk[boot][d] = "COMPLETE" => object[d] = "COMPLETE"
    /\ \A b \in Boot : b > boot => disk[b][d] = "none"

\* What the records and the queue need, for any timer.
ServerInv ==
  /\ ServerTypeOK
  /\ PlanInv
  /\ JobsMatch
  /\ NothingDown
  /\ BlockersDone
  /\ PlansAreTasks
  /\ QueuedIsPlanned
  /\ RecordsMatch

\* A handler of this process publishes its duty, once; the processes to come
\* have published nothing.
PublishedByHandler ==
  \A d \in Task :
    /\ published[boot][d] <= 1
    /\ up => (job[d] \in {"published", "marked", "saved", "done"} <=> Published(boot, d))
    /\ \A b \in Boot : b > boot => ~Published(b, d)

\* A process records only what it has published itself.
RecordedIsPublished ==
  \A b \in Boot, d \in Task : disk[b][d] = "COMPLETE" => Published(b, d)

\* What was published at its time or later is not planned any more, unless the
\* handler that did it is still there.
PublishedIsPast ==
  \A b \in Boot, d \in Task : Published(b, d) /\ d \notin early[b] =>
    /\ now >= ActiveTime(d)
    /\ d \in Planned => b = boot

\* What publishing again only after an early start needs, besides ServerInv.
OnceInv ==
  /\ PublishedByHandler
  /\ RecordedIsPublished
  /\ PublishedIsPast
  /\ PublishedAgainOnlyIfEarly

-----------------------------------------------------------------------------
\* The server implements DutyLedger.
LedgerOf(b, d) ==
  IF disk[b][d] = "COMPLETE" THEN "recorded"
  ELSE IF ~Published(b, d) THEN "open"
  ELSE IF b = boot /\ up THEN "published" ELSE "lost"

Ledger == INSTANCE DutyLedger WITH
  Duty <- Task, current <- boot,
  ledger <- [b \in Boot |-> [d \in Task |-> LedgerOf(b, d)]]

\* Over all restarts: a process publishes a duty at most once, and again after
\* another process only if that one was early; it records only what it has
\* published, and what it did not record before it ended stays lost.
ImplementsDutyLedger == Ledger!Spec
=============================================================================
