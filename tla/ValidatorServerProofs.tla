------------------------ MODULE ValidatorServerProofs ------------------------
(***************************************************************************)
(* Proofs about the server, for every network, every number of epochs and  *)
(* of starts of the process, and every interleaving.  Neither ServerInv    *)
(* nor OnceInv, which relies on it, asks anything of the timers of the     *)
(* queue: a duty may be started at any time.                               *)
(***************************************************************************)
EXTENDS ValidatorServer, SchedulerProofs

-----------------------------------------------------------------------------
(* The duties                                                              *)

\* Each aggregation waits for an attestation that can be planned.
LEMMA TasksShaped ==
  ASSUME NEW d \in Task
  PROVE  d \in DutyType /\ BlockersOf(d) \subseteq Task
<1>1. PICK e \in Epoch : d \in Duties(e, Validator)
  BY DEF Task
<1>2. d \in DutyType
  BY <1>1, DutiesShaped DEF ShapedFor
<1>3. ASSUME NEW b \in BlockersOf(d) PROVE b \in Task
  <2>1. d.kind = "attestationAggregate" /\ b = NewDuty("attestation", d.validator, d.slot, d.sub)
    BY <1>3 DEF BlockersOf
  <2>2. d \in AttestationAggregates(e, Validator)
    BY <1>1, <2>1 DEF Duties, Proposals, Attestations, SyncMessages, SyncAggregates, NewDuty
  <2>3. PICK a \in Attestations(e, Validator) :
           d = NewDuty("attestationAggregate", a.validator, a.slot, 0)
    BY <2>2 DEF AttestationAggregates
  <2>4. a = NewDuty("attestation", a.validator, a.slot, 0)
    BY DEF Attestations, NewDuty
  <2>5. b = a
    BY <2>1, <2>3, <2>4 DEF NewDuty
  <2> QED BY <2>5 DEF Duties, Task
<1> QED BY <1>2, <1>3

LEMMA ActiveTimeInt == ASSUME NEW d \in Task PROVE ActiveTime(d) \in Int
<1>1. d \in DutyType
  BY TasksShaped
<1>2. d.slot \in Nat /\ d.kind \in Kind
  BY <1>1 DEF DutyType
<1>3. Delay[d.kind] \in Nat
  BY <1>2 DEF Delay, Kind
<1> QED BY <1>2, <1>3 DEF ActiveTime, AtSlot

-----------------------------------------------------------------------------
(* What the actions do, one component at a time                            *)

\* A step of the scheduler fills at most one plan, which was empty, with duties
\* whose time is still to come.
LEMMA SchedulerEffect ==
  ASSUME PlanInv, PlansAreTasks, [Next]_vars
  PROVE  /\ PlanInv'
         /\ PlansAreTasks'
         /\ \A e \in Epoch :
              \/ plan'[e].duties = plan[e].duties
              \/ plan[e].duties = {} /\ \A d \in plan'[e].duties : ActiveTime(d) > now
<1>1. CASE UNCHANGED plan
  BY <1>1, NextPlanInv DEF PlansAreTasks
<1>2. ASSUME NEW e \in Epoch, Process(e)
      PROVE  /\ plan[e].duties = {}
             /\ \A f \in Epoch : f # e => plan'[f] = plan[f]
             /\ \A d \in plan'[e].duties : d \in Duties(e, Validator) /\ ActiveTime(d) > now
  BY <1>2, ProcessEffect
<1>3. CASE \E e \in Epoch : Process(e)
  <2>1. PICK e \in Epoch : Process(e)
    BY <1>3
  <2>2. PlansAreTasks'
    BY <1>2, <2>1 DEF PlansAreTasks
  <2> QED BY <1>2, <2>1, <2>2, NextPlanInv
<1>4. UNCHANGED plan \/ \E e \in Epoch : Process(e)
  BY DEF Next, SchedulerStep, EpochStep, WatchGenesis, WatchEpoch, LearnValidators,
         ReadValidators, QueryFails, ClockTick, schedulerVars, vars
<1> QED BY <1>1, <1>3, <1>4

\* UpsertDuties changes the records of this process for the given duties.
LEMMA UpsertEffect ==
  ASSUME ServerTypeOK, NEW duties \in SUBSET Task,
         NEW record \in [Task -> {"PENDING", "COMPLETE"}],
         disk' = [disk EXCEPT ![boot] =
                    [d \in Task |-> IF d \in duties THEN record[d] ELSE disk[boot][d]]],
         memdb' = memdb \cup duties
  PROVE  /\ disk' \in [Boot -> [Task -> {"none", "PENDING", "COMPLETE"}]]
         /\ memdb' \in SUBSET Task
         /\ memdb' = memdb \cup duties
         /\ \A b \in Boot, d \in Task :
              disk'[b][d] = IF b = boot /\ d \in duties THEN record[d] ELSE disk[b][d]
<1> DEFINE row == [d \in Task |-> IF d \in duties THEN record[d] ELSE disk[boot][d]]
<1>1. disk[boot] \in [Task -> {"none", "PENDING", "COMPLETE"}]
  BY DEF ServerTypeOK
<1>2. row \in [Task -> {"none", "PENDING", "COMPLETE"}]
  BY <1>1
<1>3. disk' = [disk EXCEPT ![boot] = row] /\ memdb' = memdb \cup duties
  OBVIOUS
<1>4. \A d \in Task : row[d] = IF d \in duties THEN record[d] ELSE disk[boot][d]
  OBVIOUS
<1> HIDE DEF row
<1>5. disk' \in [Boot -> [Task -> {"none", "PENDING", "COMPLETE"}]]
  BY <1>2, <1>3 DEF ServerTypeOK
<1>6. \A b \in Boot : disk'[b] = IF b = boot THEN row ELSE disk[b]
  BY <1>3 DEF ServerTypeOK
<1> QED BY <1>3, <1>4, <1>5, <1>6 DEF ServerTypeOK

\* The objects of duties S are written.
Written(S) ==
  /\ disk' \in [Boot -> [Task -> {"none", "PENDING", "COMPLETE"}]]
  /\ memdb' \in SUBSET Task
  /\ memdb' = memdb \cup S
  /\ \A b \in Boot, c \in Task :
       disk'[b][c] = IF b = boot /\ c \in S THEN object[c] ELSE disk[b][c]

LEMMA UpsertWrites ==
  ASSUME ServerInv, NEW S \in SUBSET Task, Upsert(S, object) PROVE Written(S)
<1>1. ServerTypeOK /\ object \in [Task -> {"PENDING", "COMPLETE"}]
  BY DEF ServerInv, ServerTypeOK
<1>2. /\ disk' = [disk EXCEPT ![boot] =
                    [d \in Task |-> IF d \in S THEN object[d] ELSE disk[boot][d]]]
      /\ memdb' = memdb \cup S
  BY DEF Upsert
<1> QED BY <1>1, <1>2, UpsertEffect DEF Written

LEMMA PlanWrites ==
  ASSUME ServerInv, NEW e \in Epoch, Upsert(plan[e].duties, object)
  PROVE  Written(plan[e].duties)
<1>1. plan[e].duties \in SUBSET Task
  BY DEF ServerInv, PlansAreTasks, Task
<1> QED BY <1>1, UpsertWrites

LEMMA ResultWrites ==
  ASSUME ServerInv, NEW d \in Task, Upsert({d}, object) PROVE Written({d})
<1>1. {d} \in SUBSET Task
  OBVIOUS
<1> QED BY <1>1, UpsertWrites

\* A step of the queue moves duty d.
LEMMA StartEffect ==
  ASSUME ServerTypeOK, NEW d \in Task, Queue!Start(d)
  PROVE  /\ phase' \in [Task -> Queue!Phase]
         /\ phase[d] = "pending"
         /\ \A b \in BlockersOf(d) : phase[b] = "done"
         /\ \A c \in Task : phase'[c] = IF c = d THEN "running" ELSE phase[c]
BY DEF ServerTypeOK, Queue!Start, Queue!Phase

LEMMA FinishEffect ==
  ASSUME ServerTypeOK, NEW d \in Task, Queue!Finish(d)
  PROVE  /\ phase' \in [Task -> Queue!Phase]
         /\ phase[d] = "running"
         /\ \A c \in Task : phase'[c] = IF c = d THEN "done" ELSE phase[c]
BY DEF ServerTypeOK, Queue!Finish, Queue!Phase

LEMMA SubmitEffect ==
  ASSUME ServerTypeOK, NEW S \in SUBSET Task, Queue!Submit(S)
  PROVE  /\ phase' \in [Task -> Queue!Phase]
         /\ \A c \in S : phase[c] = "new"
         /\ \A c \in Task : phase'[c] = IF c \in S THEN "pending" ELSE phase[c]
BY DEF ServerTypeOK, Queue!Submit, Queue!Phase

-----------------------------------------------------------------------------
(* ServerInv, one lemma per action                                         *)

LEMMA InitServerInv == ServerInit => ServerInv
<1> SUFFICES ASSUME ServerInit PROVE ServerInv
  OBVIOUS
<1>1. PlanInv
  BY InitPlanInv DEF ServerInit
<1>2. \A e \in Epoch : plan[e].duties = {} /\ handler[e].pc = "idle"
  BY DEF ServerInit, Init, NoPlan, Idle
<1>3. /\ boot = 1 /\ boot \in Boot
      /\ disk \in [Boot -> [Task -> {"none", "PENDING", "COMPLETE"}]]
      /\ \A b \in Boot, d \in Task : disk[b][d] = "none"
  BY ServerAssumption DEF ServerInit, Boot
<1>4. \A d \in Task : phase[d] = "new" /\ job[d] = "none" /\ object[d] = "PENDING"
  BY DEF ServerInit
<1>5. ServerTypeOK
  BY <1>1, <1>3 DEF ServerTypeOK, ServerInit, PlanInv, Queue!Phase
<1>6. JobsMatch /\ BlockersDone /\ QueuedIsPlanned
  BY <1>4 DEF JobsMatch, BlockersDone, QueuedIsPlanned
<1>7. NothingDown /\ PlansAreTasks
  BY <1>2 DEF NothingDown, PlansAreTasks, ServerInit
<1>8. RecordsMatch
  BY <1>3, <1>4 DEF RecordsMatch
<1> QED BY <1>1, <1>5, <1>6, <1>7, <1>8 DEF ServerInv

LEMMA ProcessEndsInv == ServerInv /\ ProcessEnds => ServerInv'
<1> SUFFICES ASSUME ServerInv, ProcessEnds PROVE ServerInv'
  OBVIOUS
<1> USE DEF ServerInv, ProcessEnds
<1>1. \A e \in Epoch : plan'[e] = NoPlan /\ handler'[e] = Idle
  OBVIOUS
<1>2. TypeOK'
  BY DEF PlanInv, TypeOK, Idle, NoPlan
<1>3. PlanInv'
  BY <1>1, <1>2 DEF PlanInv, Idle, NoPlan
<1>4. \A d \in Task : phase'[d] = "new" /\ job'[d] = "none" /\ object'[d] = "PENDING"
  OBVIOUS
<1>5. up' = FALSE /\ disk' = disk /\ boot' = boot
  BY DEF recordVars
<1>6. ServerTypeOK'
  BY <1>2 DEF ServerTypeOK, recordVars, Queue!Phase
<1>7. JobsMatch' /\ BlockersDone' /\ QueuedIsPlanned'
  BY <1>4 DEF JobsMatch, BlockersDone, QueuedIsPlanned
<1>8. NothingDown' /\ PlansAreTasks'
  BY <1>1, <1>4 DEF NothingDown, PlansAreTasks, NoPlan, Idle
<1>9. RecordsMatch'
  BY <1>4, <1>5 DEF RecordsMatch
<1> QED BY <1>3, <1>6, <1>7, <1>8, <1>9

LEMMA PlanUnchanged ==
  ASSUME PlanInv, PlansAreTasks, UNCHANGED vars
  PROVE  PlanInv' /\ PlansAreTasks'
BY SchedulerEffect

LEMMA RestartInv == ServerInv /\ Restart => ServerInv'
<1> SUFFICES ASSUME ServerInv, Restart PROVE ServerInv'
  OBVIOUS
<1>1. /\ boot \in Nat /\ boot' = boot + 1 /\ boot' \in Boot /\ boot' > boot
      /\ up' = TRUE /\ dbOpen' = TRUE /\ ~up
      /\ UNCHANGED <<vars, handler, plan, save, phase, job, object, memdb, disk, published, early>>
  BY ServerAssumption
     DEF Restart, ServerInv, ServerTypeOK, Boot, processVars, recordVars, vars, schedulerVars
<1>2. PlanInv' /\ PlansAreTasks'
  BY <1>1, PlanUnchanged DEF ServerInv
<1>3. ServerTypeOK'
  BY <1>1, <1>2 DEF ServerInv, ServerTypeOK, PlanInv
<1>4. JobsMatch' /\ BlockersDone' /\ QueuedIsPlanned' /\ NothingDown'
  BY <1>1 DEF ServerInv, JobsMatch, BlockersDone, QueuedIsPlanned, NothingDown
<1>5. \A d \in Task : job[d] = "none"
  BY <1>1 DEF ServerInv, JobsMatch, NothingDown
<1>6. \A d \in Task : /\ disk[boot'][d] = "none"
                      /\ \A b \in Boot : b > boot' => disk[b][d] = "none"
  <2>1. \A b \in Boot : b > boot' => b > boot
    BY <1>1 DEF Boot
  <2> QED BY <1>1, <2>1 DEF ServerInv, RecordsMatch
<1>7. RecordsMatch'
  BY <1>1, <1>5, <1>6 DEF RecordsMatch
<1> QED BY <1>2, <1>3, <1>4, <1>7 DEF ServerInv

LEMMA StopInv == ServerInv /\ Stop => ServerInv'
<1> SUFFICES ASSUME ServerInv, Stop PROVE ServerInv'
  OBVIOUS
<1>1. /\ dbOpen' = FALSE
      /\ UNCHANGED <<vars, handler, plan, boot, up, save, phase, job, object, memdb, disk, published, early>>
  BY DEF Stop, processVars, recordVars, vars, schedulerVars
<1>2. PlanInv' /\ PlansAreTasks'
  BY <1>1, PlanUnchanged DEF ServerInv
<1>3. ServerTypeOK'
  BY <1>1, <1>2 DEF ServerInv, ServerTypeOK, PlanInv
<1> QED BY <1>1, <1>2, <1>3
        DEF ServerInv, JobsMatch, BlockersDone, QueuedIsPlanned, NothingDown, RecordsMatch

\* The scheduler and the clock: a plan in the queue stays as it is.
LEMMA ScheduleInv == ServerInv /\ (Schedule \/ TimePasses) => ServerInv'
<1> SUFFICES ASSUME ServerInv, Schedule \/ TimePasses PROVE ServerInv'
  OBVIOUS
<1>1. /\ [Next]_vars
      /\ UNCHANGED <<boot, up, dbOpen, save, phase, job, object, memdb, disk, published, early>>
      /\ up \/ UNCHANGED handler
  BY DEF Schedule, TimePasses, Next, ClockTick, schedulerVars,
         serverVars, processVars, recordVars
<1>2. PlanInv' /\ PlansAreTasks'
  BY <1>1, SchedulerEffect DEF ServerInv
<1>3. ServerTypeOK'
  BY <1>1, <1>2 DEF ServerInv, ServerTypeOK, PlanInv
<1>4. JobsMatch' /\ BlockersDone' /\ RecordsMatch' /\ NothingDown'
  BY <1>1 DEF ServerInv, JobsMatch, BlockersDone, RecordsMatch, NothingDown
<1>5. \A e \in Epoch : plan[e].duties \subseteq plan'[e].duties
  BY <1>1, SchedulerEffect DEF ServerInv
<1>6. QueuedIsPlanned'
  BY <1>1, <1>5 DEF ServerInv, QueuedIsPlanned
<1> QED BY <1>2, <1>3, <1>4, <1>6 DEF ServerInv

LEMMA EnqueuePlanInv == ASSUME ServerInv, NEW e \in Epoch, EnqueuePlan(e) PROVE ServerInv'
<1>1. /\ handler[e].pc = "planned"
      /\ save' = [save EXCEPT ![e] = "enqueued"]
      /\ Queue!Submit(plan[e].duties)
      /\ UNCHANGED <<vars, handler, plan, boot, up, dbOpen, job, object, memdb, disk, published, early>>
  BY DEF EnqueuePlan, recordVars, vars, schedulerVars
<1>2. plan[e].duties \in SUBSET Task
  BY DEF ServerInv, PlansAreTasks, Task
<1>3. /\ phase' \in [Task -> Queue!Phase]
      /\ \A c \in plan[e].duties : phase[c] = "new"
      /\ \A c \in Task : phase'[c] = IF c \in plan[e].duties THEN "pending" ELSE phase[c]
  BY <1>1, <1>2, SubmitEffect DEF ServerInv
<1>4. PlanInv' /\ PlansAreTasks'
  BY <1>1, PlanUnchanged DEF ServerInv
<1>5. /\ save' \in [Epoch -> {"none", "enqueued", "saved", "failed"}]
      /\ \A f \in Epoch : save'[f] = IF f = e THEN "enqueued" ELSE save[f]
  BY <1>1 DEF ServerInv, ServerTypeOK
<1>6. ServerTypeOK'
  BY <1>1, <1>3, <1>4, <1>5 DEF ServerInv, ServerTypeOK, PlanInv
<1>7. JobsMatch'
  BY <1>1, <1>3 DEF ServerInv, JobsMatch
<1>8. NothingDown'
  BY <1>1 DEF ServerInv, NothingDown
<1>9. BlockersDone'
  <2> SUFFICES ASSUME NEW d \in Task, phase'[d] \in {"running", "done"}, NEW b \in BlockersOf(d)
               PROVE  phase'[b] = "done"
    BY DEF BlockersDone
  <2>1. phase[d] \in {"running", "done"} /\ b \in Task
    BY <1>3, TasksShaped
  <2>2. phase[b] = "done"
    BY <2>1 DEF ServerInv, BlockersDone
  <2> QED BY <1>3, <2>1, <2>2
<1>10. QueuedIsPlanned'
  BY <1>1, <1>3, <1>5 DEF ServerInv, QueuedIsPlanned
<1>11. RecordsMatch'
  BY <1>1 DEF ServerInv, RecordsMatch
<1> QED BY <1>4, <1>6, <1>7, <1>8, <1>9, <1>10, <1>11 DEF ServerInv

\* Writing the objects never takes a record back.
LEMMA SavePlanInv == ASSUME ServerInv, NEW e \in Epoch, SavePlan(e) PROVE ServerInv'
<1>1. /\ save[e] = "enqueued"
      /\ UNCHANGED <<vars, handler, plan, boot, up, dbOpen, phase, job, object, published, early>>
      /\ save' = [save EXCEPT ![e] = "saved"] \/ save' = [save EXCEPT ![e] = "failed"]
      /\ Upsert(plan[e].duties, object) \/ UNCHANGED <<disk, memdb>>
  BY DEF SavePlan, InPlan, vars, schedulerVars
<1>2. plan[e].duties \in SUBSET Task /\ object \in [Task -> {"PENDING", "COMPLETE"}]
  BY DEF ServerInv, ServerTypeOK, PlansAreTasks, Task
<1>3. /\ disk' \in [Boot -> [Task -> {"none", "PENDING", "COMPLETE"}]]
      /\ memdb' \in SUBSET Task /\ memdb \subseteq memdb'
      /\ \A b \in Boot, d \in Task :
           disk'[b][d] = disk[b][d] \/ (b = boot /\ disk'[b][d] = object[d])
  <2>1. CASE Upsert(plan[e].duties, object)
    <3>1. Written(plan[e].duties)
      BY <2>1, PlanWrites
    <3> QED BY <3>1 DEF Written
  <2>2. CASE UNCHANGED <<disk, memdb>>
    BY <2>2 DEF ServerInv, ServerTypeOK
  <2> QED BY <1>1, <2>1, <2>2
<1>4. PlanInv' /\ PlansAreTasks'
  BY <1>1, PlanUnchanged DEF ServerInv
<1>5. /\ save' \in [Epoch -> {"none", "enqueued", "saved", "failed"}]
      /\ \A f \in Epoch : save'[f] # "none" <=> save[f] # "none"
  BY <1>1 DEF ServerInv, ServerTypeOK
<1>6. ServerTypeOK'
  BY <1>1, <1>3, <1>4, <1>5 DEF ServerInv, ServerTypeOK, PlanInv
<1>7. JobsMatch' /\ BlockersDone' /\ NothingDown' /\ QueuedIsPlanned'
  BY <1>1, <1>5 DEF ServerInv, JobsMatch, BlockersDone, NothingDown, QueuedIsPlanned
<1>8. RecordsMatch'
  <2> SUFFICES ASSUME NEW d \in Task
               PROVE  /\ job[d] \in {"saved", "done"} => disk'[boot][d] = "COMPLETE" /\ d \in memdb'
                      /\ up /\ disk'[boot][d] = "COMPLETE" => object[d] = "COMPLETE"
                      /\ \A b \in Boot : b > boot => disk'[b][d] = "none"
    BY <1>1 DEF RecordsMatch
  <2>1. boot \in Boot /\ ~(boot > boot)
    BY DEF ServerInv, ServerTypeOK, Boot
  <2>2. job[d] \in {"saved", "done"} => object[d] = "COMPLETE"
    BY DEF ServerInv, JobsMatch
  <2> QED BY <1>3, <2>1, <2>2 DEF ServerInv, RecordsMatch
<1> QED BY <1>4, <1>6, <1>7, <1>8 DEF ServerInv

-----------------------------------------------------------------------------
(* The handlers                                                            *)

\* The job of d changes, nothing of the scheduler.
LEMMA JobEffect ==
  ASSUME ServerInv, NEW d \in Task,
         NEW to \in {"none", "running", "published", "marked", "saved", "done"},
         job' = [job EXCEPT ![d] = to], UNCHANGED vars
  PROVE  /\ job' \in [Task -> {"none", "running", "published", "marked", "saved", "done"}]
         /\ \A c \in Task : job'[c] = IF c = d THEN to ELSE job[c]
         /\ PlanInv' /\ PlansAreTasks' /\ TypeOK'
         /\ UNCHANGED <<handler, plan>>
<1>1. PlanInv' /\ PlansAreTasks'
  BY PlanUnchanged DEF ServerInv
<1> QED BY <1>1 DEF ServerInv, ServerTypeOK, PlanInv, vars, schedulerVars

LEMMA StartDutyInv == ASSUME ServerInv, NEW d \in Task, StartDuty(d) PROVE ServerInv'
<1>1. /\ job' = [job EXCEPT ![d] = "running"] /\ Queue!Start(d)
      /\ UNCHANGED <<vars, boot, up, dbOpen, save, object, memdb, disk, published, early>>
  BY DEF StartDuty, recordVars
<1>2. /\ phase' \in [Task -> Queue!Phase]
      /\ phase[d] = "pending"
      /\ \A b \in BlockersOf(d) : phase[b] = "done"
      /\ \A c \in Task : phase'[c] = IF c = d THEN "running" ELSE phase[c]
  BY <1>1, StartEffect DEF ServerInv
<1>3. /\ job' \in [Task -> {"none", "running", "published", "marked", "saved", "done"}]
      /\ \A c \in Task : job'[c] = IF c = d THEN "running" ELSE job[c]
      /\ PlanInv' /\ PlansAreTasks' /\ TypeOK'
      /\ UNCHANGED <<handler, plan>>
  BY <1>1, JobEffect
<1>4. ServerTypeOK'
  BY <1>1, <1>2, <1>3 DEF ServerInv, ServerTypeOK
<1>5. job[d] = "none"
  BY <1>2 DEF ServerInv, JobsMatch
<1>6. JobsMatch'
  BY <1>1, <1>2, <1>3, <1>5 DEF ServerInv, JobsMatch
<1>7. NothingDown'
  BY <1>1, <1>2, <1>3 DEF ServerInv, NothingDown
<1>8. BlockersDone'
  <2> SUFFICES ASSUME NEW c \in Task, phase'[c] \in {"running", "done"}, NEW b \in BlockersOf(c)
               PROVE  phase'[b] = "done"
    BY DEF BlockersDone
  <2>1. phase[b] = "done" /\ b \in Task
    BY <1>2, TasksShaped DEF ServerInv, BlockersDone
  <2> QED BY <1>2, <2>1
<1>9. QueuedIsPlanned'
  BY <1>1, <1>2, <1>3 DEF ServerInv, QueuedIsPlanned
<1>10. RecordsMatch'
  BY <1>1, <1>3 DEF ServerInv, RecordsMatch
<1> QED BY <1>3, <1>4, <1>6, <1>7, <1>8, <1>9, <1>10 DEF ServerInv

\* The process that publishes d is the running one.
LEMMA PublishEffect ==
  ASSUME ServerTypeOK, NEW d \in Task,
         published' = [published EXCEPT ![boot][d] = @ + 1],
         early' = [early EXCEPT ![boot] = IF now < ActiveTime(d) THEN @ \cup {d} ELSE @]
  PROVE  /\ published' \in [Boot -> [Task -> Nat]] /\ early' \in [Boot -> SUBSET Task]
         /\ \A b \in Boot, c \in Task : published'[b][c] =
              IF b = boot /\ c = d THEN published[b][c] + 1 ELSE published[b][c]
         /\ \A b \in Boot : early'[b] =
              IF b = boot /\ now < ActiveTime(d) THEN early[b] \cup {d} ELSE early[b]
<1>1. boot \in Boot /\ published \in [Boot -> [Task -> Nat]] /\ early \in [Boot -> SUBSET Task]
  BY DEF ServerTypeOK
<1>2. published[boot] \in [Task -> Nat]
  BY <1>1
<1>3. [published[boot] EXCEPT ![d] = @ + 1] \in [Task -> Nat]
  BY <1>2
<1>4. published' = [published EXCEPT ![boot] = [published[boot] EXCEPT ![d] = @ + 1]]
  BY <1>1
<1>5. published' \in [Boot -> [Task -> Nat]]
  BY <1>1, <1>3, <1>4
<1>6. \A b \in Boot, c \in Task : published'[b][c] =
        IF b = boot /\ c = d THEN published[b][c] + 1 ELSE published[b][c]
  BY <1>1, <1>2, <1>4
<1>7. \A b \in Boot : early'[b] =
        IF b = boot /\ now < ActiveTime(d) THEN early[b] \cup {d} ELSE early[b]
  BY <1>1
<1>8. early' \in [Boot -> SUBSET Task]
  BY <1>1
<1> QED BY <1>5, <1>6, <1>7, <1>8

LEMMA PublishInv == ASSUME ServerInv, NEW d \in Task, Publish(d) PROVE ServerInv'
<1>1. /\ job[d] = "running" /\ job' = [job EXCEPT ![d] = "published"]
      /\ published' = [published EXCEPT ![boot][d] = @ + 1]
      /\ early' = [early EXCEPT ![boot] = IF now < ActiveTime(d) THEN @ \cup {d} ELSE @]
      /\ UNCHANGED <<vars, boot, up, dbOpen, save, phase, object, memdb, disk>>
  BY DEF Publish
<1>2. /\ job' \in [Task -> {"none", "running", "published", "marked", "saved", "done"}]
      /\ \A c \in Task : job'[c] = IF c = d THEN "published" ELSE job[c]
      /\ PlanInv' /\ PlansAreTasks' /\ TypeOK'
      /\ UNCHANGED <<handler, plan>>
  BY <1>1, JobEffect
<1>3. published' \in [Boot -> [Task -> Nat]] /\ early' \in [Boot -> SUBSET Task]
  BY <1>1, PublishEffect DEF ServerInv
<1>4. ServerTypeOK'
  BY <1>1, <1>2, <1>3 DEF ServerInv, ServerTypeOK
<1>5. JobsMatch' /\ BlockersDone' /\ NothingDown' /\ QueuedIsPlanned' /\ RecordsMatch'
  BY <1>1, <1>2 DEF ServerInv, JobsMatch, BlockersDone, NothingDown, QueuedIsPlanned, RecordsMatch
<1> QED BY <1>2, <1>4, <1>5 DEF ServerInv

LEMMA MarkCompleteInv == ASSUME ServerInv, NEW d \in Task, MarkComplete(d) PROVE ServerInv'
<1>1. /\ job[d] = "published" /\ job' = [job EXCEPT ![d] = "marked"]
      /\ object' = [object EXCEPT ![d] = "COMPLETE"]
      /\ UNCHANGED <<vars, boot, up, dbOpen, save, phase, memdb, disk, published, early>>
  BY DEF MarkComplete, recordVars
<1>2. /\ job' \in [Task -> {"none", "running", "published", "marked", "saved", "done"}]
      /\ \A c \in Task : job'[c] = IF c = d THEN "marked" ELSE job[c]
      /\ PlanInv' /\ PlansAreTasks' /\ TypeOK'
      /\ UNCHANGED <<handler, plan>>
  BY <1>1, JobEffect
<1>3. /\ object' \in [Task -> {"PENDING", "COMPLETE"}]
      /\ \A c \in Task : object'[c] = IF c = d THEN "COMPLETE" ELSE object[c]
  BY <1>1 DEF ServerInv, ServerTypeOK
<1>4. ServerTypeOK'
  BY <1>1, <1>2, <1>3 DEF ServerInv, ServerTypeOK
<1>5. JobsMatch' /\ BlockersDone' /\ NothingDown' /\ QueuedIsPlanned' /\ RecordsMatch'
  BY <1>1, <1>2, <1>3
     DEF ServerInv, JobsMatch, BlockersDone, NothingDown, QueuedIsPlanned, RecordsMatch
<1> QED BY <1>2, <1>4, <1>5 DEF ServerInv

LEMMA SaveResultInv == ASSUME ServerInv, NEW d \in Task, SaveResult(d) PROVE ServerInv'
<1>1. /\ job[d] = "marked" /\ job' = [job EXCEPT ![d] = "saved"]
      /\ Upsert({d}, object)
      /\ UNCHANGED <<vars, boot, up, dbOpen, save, phase, object, published, early>>
  BY DEF SaveResult
<1>2. /\ job' \in [Task -> {"none", "running", "published", "marked", "saved", "done"}]
      /\ \A c \in Task : job'[c] = IF c = d THEN "saved" ELSE job[c]
      /\ PlanInv' /\ PlansAreTasks' /\ TypeOK'
      /\ UNCHANGED <<handler, plan>>
  BY <1>1, JobEffect
<1>3. /\ disk' \in [Boot -> [Task -> {"none", "PENDING", "COMPLETE"}]]
      /\ memdb' \in SUBSET Task
      /\ memdb' = memdb \cup {d}
      /\ \A b \in Boot, c \in Task :
           disk'[b][c] = IF b = boot /\ c = d THEN object[c] ELSE disk[b][c]
  <2>1. Written({d})
    BY <1>1, ResultWrites
  <2> QED BY <2>1 DEF Written
<1>4. ServerTypeOK'
  BY <1>1, <1>2, <1>3 DEF ServerInv, ServerTypeOK
<1>5. JobsMatch' /\ BlockersDone' /\ NothingDown' /\ QueuedIsPlanned'
  BY <1>1, <1>2 DEF ServerInv, JobsMatch, BlockersDone, NothingDown, QueuedIsPlanned
<1>6. object[d] = "COMPLETE" /\ boot \in Boot /\ ~(boot > boot)
  BY <1>1 DEF ServerInv, JobsMatch, ServerTypeOK, Boot
<1>7. RecordsMatch'
  BY <1>1, <1>2, <1>3, <1>6 DEF ServerInv, RecordsMatch
<1> QED BY <1>2, <1>4, <1>5, <1>7 DEF ServerInv

LEMMA AckDutyInv == ASSUME ServerInv, NEW d \in Task, AckDuty(d) PROVE ServerInv'
<1>1. /\ job[d] = "saved" /\ job' = [job EXCEPT ![d] = "done"] /\ Queue!Finish(d)
      /\ UNCHANGED <<vars, boot, up, dbOpen, save, object, memdb, disk, published, early>>
  BY DEF AckDuty, Acknowledged, recordVars
<1>2. /\ phase' \in [Task -> Queue!Phase]
      /\ phase[d] = "running"
      /\ \A c \in Task : phase'[c] = IF c = d THEN "done" ELSE phase[c]
  BY <1>1, FinishEffect DEF ServerInv
<1>3. /\ job' \in [Task -> {"none", "running", "published", "marked", "saved", "done"}]
      /\ \A c \in Task : job'[c] = IF c = d THEN "done" ELSE job[c]
      /\ PlanInv' /\ PlansAreTasks' /\ TypeOK'
      /\ UNCHANGED <<handler, plan>>
  BY <1>1, JobEffect
<1>4. ServerTypeOK'
  BY <1>1, <1>2, <1>3 DEF ServerInv, ServerTypeOK
<1>5. JobsMatch' /\ NothingDown' /\ RecordsMatch' /\ QueuedIsPlanned'
  BY <1>1, <1>2, <1>3 DEF ServerInv, JobsMatch, NothingDown, RecordsMatch, QueuedIsPlanned
<1>6. BlockersDone'
  <2> SUFFICES ASSUME NEW c \in Task, phase'[c] \in {"running", "done"}, NEW b \in BlockersOf(c)
               PROVE  phase'[b] = "done"
    BY DEF BlockersDone
  <2>1. phase[b] = "done" /\ b \in Task
    BY <1>2, TasksShaped DEF ServerInv, BlockersDone
  <2> QED BY <1>2, <2>1
<1> QED BY <1>3, <1>4, <1>5, <1>6 DEF ServerInv

LEMMA NextServerInv == ServerInv /\ [ServerNext]_allVars => ServerInv'
<1> SUFFICES ASSUME ServerInv, [ServerNext]_allVars PROVE ServerInv'
  OBVIOUS
<1>1. CASE Schedule \/ TimePasses
  BY <1>1, ScheduleInv
<1>2. ASSUME NEW e \in Epoch, EnqueuePlan(e) \/ SavePlan(e) PROVE ServerInv'
  BY <1>2, EnqueuePlanInv, SavePlanInv
<1>3. ASSUME NEW d \in Task, DutyStep(d) PROVE ServerInv'
  BY <1>3, StartDutyInv, PublishInv, MarkCompleteInv, SaveResultInv, AckDutyInv DEF DutyStep
<1>4. CASE ProcessEnds \/ Restart \/ Stop
  BY <1>4, ProcessEndsInv, RestartInv, StopInv
<1>5. CASE UNCHANGED allVars
  <2>1. PlanInv' /\ PlansAreTasks'
    BY <1>5, PlanUnchanged DEF ServerInv, allVars
  <2>2. /\ UNCHANGED <<handler, plan, boot, up, dbOpen, save, phase, job, object, memdb, disk, published, early>>
    BY <1>5 DEF allVars, vars, schedulerVars, serverVars, processVars, recordVars
  <2> QED BY <2>1, <2>2 DEF ServerInv, ServerTypeOK, PlanInv, JobsMatch, BlockersDone,
                NothingDown, QueuedIsPlanned, RecordsMatch
<1> QED BY <1>1, <1>2, <1>3, <1>4, <1>5 DEF ServerNext

LEMMA ServerInvInvariant == ServerSpec => []ServerInv
BY InitServerInv, NextServerInv, PTL DEF ServerSpec

-----------------------------------------------------------------------------
(* What the steps do to the records and to what was published              *)

\* The disk only changes by writing objects, in the row of this process.
LEMMA RecordEffect ==
  ASSUME ServerInv, NEW e \in Epoch, NEW d \in Task, SavePlan(e) \/ SaveResult(d)
  PROVE  /\ up
         /\ UNCHANGED <<now, plan, boot, up, object, published, early>>
         /\ \A b \in Boot, c \in Task :
              disk'[b][c] = disk[b][c] \/ (b = boot /\ disk'[b][c] = object[c])
<1>1. CASE SavePlan(e)
  <2>1. /\ save[e] = "enqueued"
        /\ UNCHANGED <<now, plan, boot, up, object, published, early>>
        /\ Upsert(plan[e].duties, object) \/ UNCHANGED disk
    BY <1>1 DEF SavePlan, InPlan, vars, schedulerVars
  <2>2. up
    BY <2>1 DEF ServerInv, NothingDown
  <2>3. CASE Upsert(plan[e].duties, object)
    <3>1. Written(plan[e].duties)
      BY <2>3, PlanWrites
    <3> QED BY <2>1, <2>2, <3>1 DEF Written
  <2> QED BY <2>1, <2>2, <2>3
<1>2. CASE SaveResult(d)
  <2>1. /\ job[d] = "marked"
        /\ UNCHANGED <<now, plan, boot, up, object, published, early>>
        /\ Upsert({d}, object)
    BY <1>2 DEF SaveResult, vars, schedulerVars
  <2>2. up
    BY <2>1 DEF ServerInv, NothingDown, JobsMatch
  <2>3. Written({d})
    BY <2>1, ResultWrites
  <2> QED BY <2>1, <2>2, <2>3 DEF Written
<1> QED BY <1>1, <1>2

\* Every other step leaves the disk alone.
LEMMA DiskUnchanged ==
  ASSUME [ServerNext]_allVars, ~ \E e \in Epoch : SavePlan(e), ~ \E d \in Task : SaveResult(d)
  PROVE  UNCHANGED disk
BY DEF ServerNext, Schedule, TimePasses, EnqueuePlan, DutyStep, StartDuty, Publish, MarkComplete,
       AckDuty, ProcessEnds, Restart, Stop, allVars, serverVars, recordVars

-----------------------------------------------------------------------------
(* OnceInv, by kinds of actions                                            *)

Handled == {"published", "marked", "saved", "done"}

LEMMA InitOnceInv == ServerInit => OnceInv
<1> SUFFICES ASSUME ServerInit PROVE OnceInv
  OBVIOUS
<1>1. boot \in Boot /\ \A b \in Boot, d \in Task : /\ job[d] = "none"
                                                /\ published[b][d] = 0
                                                /\ disk[b][d] = "none"
  BY ServerAssumption DEF ServerInit, Boot
<1> QED BY <1>1 DEF OnceInv, PublishedByHandler, RecordedIsPublished, PublishedIsPast,
           PublishedAgainOnlyIfEarly, Published

\* What is planned now is still to come, what was published at its time is not.
LEMMA ScheduleOnceInv ==
  ASSUME ServerInv, OnceInv, Schedule \/ TimePasses
  PROVE  OnceInv'
<1>1. /\ [Next]_vars
      /\ UNCHANGED <<boot, up, job, published, early, disk>>
      /\ now' \in Int /\ now \in Int /\ now' >= now
  BY DEF Schedule, TimePasses, Next, ClockTick, schedulerVars, serverVars, processVars,
         recordVars, SchedulerStep, EpochStep, WatchGenesis, WatchEpoch, LearnValidators,
         ReadValidators, QueryFails, Process, ServerInv, PlanInv, TypeOK
<1>2. \A e \in Epoch :
        \/ plan'[e].duties = plan[e].duties
        \/ \A d \in plan'[e].duties : ActiveTime(d) > now
  BY <1>1, SchedulerEffect DEF ServerInv
<1>3. \A d \in Task : d \in Planned' => d \in Planned \/ ActiveTime(d) > now
  BY <1>2 DEF Planned
<1>4. PublishedIsPast'
  <2> SUFFICES ASSUME NEW b \in Boot, NEW d \in Task, Published(b, d), d \notin early[b]
               PROVE  now' >= ActiveTime(d) /\ (d \in Planned' => b = boot)
    BY <1>1 DEF PublishedIsPast, Published
  <2>1. ActiveTime(d) \in Int
    BY ActiveTimeInt
  <2>2. now >= ActiveTime(d) /\ (d \in Planned => b = boot)
    BY DEF OnceInv, PublishedIsPast
  <2> QED BY <1>1, <1>3, <2>1, <2>2
<1>5. PublishedByHandler' /\ RecordedIsPublished' /\ PublishedAgainOnlyIfEarly'
  BY <1>1 DEF OnceInv, PublishedByHandler, RecordedIsPublished, PublishedAgainOnlyIfEarly, Published
<1> QED BY <1>4, <1>5 DEF OnceInv

\* What a handler does before and after it publishes.
LEMMA QuietOnceInv ==
  ASSUME OnceInv, UNCHANGED <<now, plan, boot, up, published, early, disk>>,
         \A d \in Task : job'[d] \in Handled <=> job[d] \in Handled
  PROVE  OnceInv'
BY DEF OnceInv, PublishedByHandler, RecordedIsPublished, PublishedIsPast,
       PublishedAgainOnlyIfEarly, Published, Planned, Handled

LEMMA ProcessEndsOnceInv == ASSUME OnceInv, ProcessEnds PROVE OnceInv'
<1>1. /\ UNCHANGED <<now, boot, published, early, disk>>
      /\ up' = FALSE
      /\ \A e \in Epoch : plan'[e].duties = {}
  BY DEF ProcessEnds, recordVars, NoPlan
<1>2. Planned' = {}
  BY <1>1 DEF Planned
<1>3. PublishedIsPast'
  BY <1>1, <1>2 DEF OnceInv, PublishedIsPast, Published
<1> QED BY <1>1, <1>3 DEF OnceInv, PublishedByHandler, RecordedIsPublished,
           PublishedAgainOnlyIfEarly, Published

\* The new process has no plans and has published nothing.
LEMMA RestartOnceInv == ASSUME ServerInv, OnceInv, Restart PROVE OnceInv'
<1>1. /\ boot' = boot + 1 /\ boot \in Nat /\ boot' \in Boot /\ boot' > boot /\ ~up
      /\ UNCHANGED <<now, plan, job, published, early, disk>>
  BY ServerAssumption
     DEF Restart, ServerInv, ServerTypeOK, Boot, processVars, recordVars, vars, schedulerVars
<1>2. \A d \in Task : job[d] = "none" /\ published[boot'][d] = 0
  <2> SUFFICES ASSUME NEW d \in Task PROVE job[d] = "none" /\ published[boot'][d] = 0
    OBVIOUS
  <2>1. job[d] = "none"
    BY <1>1 DEF ServerInv, JobsMatch, NothingDown
  <2>2. ~Published(boot', d) /\ published[boot'][d] \in Nat
    BY <1>1 DEF OnceInv, PublishedByHandler, ServerInv, ServerTypeOK
  <2> QED BY <2>1, <2>2 DEF Published
<1>3. Planned' = {}
  <2>1. \A e \in Epoch : plan'[e].duties = {}
    BY <1>1 DEF ServerInv, NothingDown, PlanInv
  <2> QED BY <2>1 DEF Planned
<1>4. \A b \in Boot : b > boot' => b > boot
  BY <1>1 DEF Boot
<1>5. PublishedByHandler'
  BY <1>1, <1>2, <1>4 DEF OnceInv, PublishedByHandler, Published
<1>6. PublishedIsPast'
  BY <1>1, <1>3 DEF OnceInv, PublishedIsPast, Published
<1> QED BY <1>1, <1>5, <1>6 DEF OnceInv, RecordedIsPublished, PublishedAgainOnlyIfEarly, Published

\* What is written as complete was published by its handler.
LEMMA RecordOnceInv ==
  ASSUME ServerInv, OnceInv, NEW e \in Epoch, NEW d \in Task, SavePlan(e) \/ SaveResult(d)
  PROVE  OnceInv'
<1>1. /\ UNCHANGED <<now, plan, boot, up, object, published, early>> /\ up
      /\ \A b \in Boot, c \in Task :
           disk'[b][c] = disk[b][c] \/ (b = boot /\ disk'[b][c] = object[c])
  BY RecordEffect
<1>2. \A c \in Task : job'[c] \in Handled <=> job[c] \in Handled
  BY DEF SavePlan, SaveResult, ServerInv, ServerTypeOK, Handled
<1>3. RecordedIsPublished'
  <2> SUFFICES ASSUME NEW c \in Task, NEW b \in Boot, disk'[b][c] = "COMPLETE"
               PROVE  Published(b, c)
    BY <1>1 DEF RecordedIsPublished, Published
  <2>1. CASE disk[b][c] = "COMPLETE"
    BY <2>1 DEF OnceInv, RecordedIsPublished
  <2>2. CASE b = boot /\ object[c] = "COMPLETE"
    <3>1. job[c] \in {"marked", "saved", "done"}
      BY <2>2 DEF ServerInv, JobsMatch
    <3> QED BY <1>1, <2>2, <3>1 DEF OnceInv, PublishedByHandler
  <2> QED BY <1>1, <2>1, <2>2
<1>4. PublishedByHandler' /\ PublishedAgainOnlyIfEarly' /\ PublishedIsPast'
  BY <1>1, <1>2 DEF OnceInv, PublishedByHandler, PublishedAgainOnlyIfEarly, PublishedIsPast,
                    Published, Planned, Handled
<1> QED BY <1>3, <1>4 DEF OnceInv

\* A duty that runs has not been published by this process, nor by another one
\* at its time: it is planned.
LEMMA RunningIsUnpublished ==
  ASSUME ServerInv, OnceInv, NEW d \in Task, job[d] = "running"
  PROVE  /\ up /\ d \in Planned /\ published[boot][d] = 0
         /\ \A b \in Boot : Published(b, d) => d \in early[b] /\ b < boot
<1>1. phase[d] # "new"
  BY DEF ServerInv, JobsMatch
<1>2. d \in Planned /\ up
  BY <1>1 DEF ServerInv, QueuedIsPlanned, Planned, NothingDown
<1>3. ~Published(boot, d) /\ \A b \in Boot : b > boot => ~Published(b, d)
  BY <1>2 DEF OnceInv, PublishedByHandler
<1>4. published[boot][d] = 0
  BY <1>3 DEF Published, ServerInv, ServerTypeOK
<1>5. ASSUME NEW b \in Boot, Published(b, d) PROVE d \in early[b] /\ b < boot
  <2>1. b # boot /\ ~(b > boot) /\ b \in Int /\ boot \in Int
    BY <1>3, <1>5 DEF ServerInv, ServerTypeOK, Boot
  <2> QED BY <1>2, <1>5, <2>1 DEF OnceInv, PublishedIsPast
<1> QED BY <1>2, <1>4, <1>5

LEMMA PublishOnceInv ==
  ASSUME ServerInv, OnceInv, NEW d \in Task, Publish(d)
  PROVE  OnceInv'
<1>1. /\ job[d] = "running" /\ job' = [job EXCEPT ![d] = "published"]
      /\ published' = [published EXCEPT ![boot][d] = @ + 1]
      /\ early' = [early EXCEPT ![boot] = IF now < ActiveTime(d) THEN @ \cup {d} ELSE @]
      /\ UNCHANGED <<now, plan, boot, up, disk>>
  BY DEF Publish, vars, schedulerVars
<1>2. /\ up /\ d \in Planned /\ published[boot][d] = 0
      /\ \A b \in Boot : Published(b, d) => d \in early[b] /\ b < boot
  BY <1>1, RunningIsUnpublished
<1>3. /\ \A b \in Boot, c \in Task : published'[b][c] =
           IF b = boot /\ c = d THEN published[b][c] + 1 ELSE published[b][c]
      /\ \A b \in Boot : early'[b] =
           IF b = boot /\ now < ActiveTime(d) THEN early[b] \cup {d} ELSE early[b]
      /\ boot \in Boot /\ Boot \subseteq Int /\ now \in Int /\ ActiveTime(d) \in Int
  <2>1. ServerTypeOK /\ boot \in Boot /\ Boot \subseteq Int /\ now \in Int
    BY DEF ServerInv, ServerTypeOK, PlanInv, TypeOK, Boot
  <2> QED BY <1>1, <2>1, PublishEffect, ActiveTimeInt
<1>4. /\ published'[boot][d] = 1 /\ Published(boot, d)'
      /\ \A b \in Boot, c \in Task : b # boot \/ c # d =>
           published'[b][c] = published[b][c] /\ (Published(b, c)' <=> Published(b, c))
  BY <1>1, <1>2, <1>3 DEF Published
<1>5. \A b \in Boot : /\ early[b] \subseteq early'[b]
                     /\ \A c \in Task : b # boot \/ c # d => (c \in early'[b] <=> c \in early[b])
  BY <1>3
<1>6. PublishedByHandler'
  <2>1. \A c \in Task : job'[c] = IF c = d THEN "published" ELSE job[c]
    BY <1>1 DEF ServerInv, ServerTypeOK
  <2>2. ~(boot > boot)
    BY <1>3
  <2> QED BY <1>1, <1>3, <1>4, <2>1, <2>2 DEF OnceInv, PublishedByHandler
<1>7. RecordedIsPublished'
  BY <1>1, <1>4 DEF OnceInv, RecordedIsPublished
<1>8. PublishedIsPast'
  <2> SUFFICES ASSUME NEW b \in Boot, NEW c \in Task, Published(b, c)', c \notin early'[b]
               PROVE  now >= ActiveTime(c) /\ (c \in Planned => b = boot)
    BY <1>1 DEF PublishedIsPast, Planned
  <2>1. CASE b = boot /\ c = d
    <3>1. ~(now < ActiveTime(d))
      BY <1>3, <2>1
    <3> QED BY <1>3, <2>1, <3>1
  <2>2. CASE b # boot \/ c # d
    BY <1>4, <1>5, <2>2 DEF OnceInv, PublishedIsPast
  <2> QED BY <2>1, <2>2
<1>9. PublishedAgainOnlyIfEarly'
  <2> SUFFICES ASSUME NEW b \in Boot, NEW c \in Task
               PROVE  /\ published'[b][c] <= 1
                      /\ \A a \in Boot : a < b /\ Published(a, c)' /\ Published(b, c)'
                            => c \in early'[a]
    BY DEF PublishedAgainOnlyIfEarly
  <2>1. published'[b][c] <= 1
    BY <1>4 DEF OnceInv, PublishedAgainOnlyIfEarly
  <2>2. ASSUME NEW a \in Boot, a < b, Published(a, c)', Published(b, c)'
        PROVE  c \in early'[a]
    <3>1. CASE c # d
      BY <1>4, <1>5, <2>2, <3>1 DEF OnceInv, PublishedAgainOnlyIfEarly
    <3>2. CASE c = d /\ b = boot
      <4>1. a # boot
        BY <1>3, <2>2, <3>2
      <4>2. Published(a, d)
        BY <1>4, <2>2, <3>2, <4>1
      <4> QED BY <1>2, <1>5, <3>2, <4>2
    <3>3. CASE c = d /\ b # boot
      <4>1. b < boot /\ Published(b, d)
        BY <1>2, <1>4, <2>2, <3>3
      <4>2. a # boot /\ Published(a, d)
        BY <1>3, <1>4, <2>2, <3>3, <4>1
      <4> QED BY <1>2, <1>5, <3>3, <4>2
    <3> QED BY <3>1, <3>2, <3>3
  <2> QED BY <2>1, <2>2
<1> QED BY <1>6, <1>7, <1>8, <1>9 DEF OnceInv

LEMMA HandlerOnceInv ==
  ASSUME ServerInv, OnceInv, NEW d \in Task, StartDuty(d) \/ MarkComplete(d) \/ AckDuty(d)
  PROVE  OnceInv'
<1>1. UNCHANGED <<now, plan, boot, up, published, early, disk>>
  BY DEF StartDuty, MarkComplete, AckDuty, vars, schedulerVars, recordVars
<1>2. \A c \in Task : job'[c] \in Handled <=> job[c] \in Handled
  <2>1. CASE StartDuty(d)
    <3>1. phase[d] = "pending" /\ job' = [job EXCEPT ![d] = "running"]
      BY <2>1, StartEffect DEF StartDuty, ServerInv
    <3>2. job[d] = "none"
      BY <3>1 DEF ServerInv, JobsMatch
    <3> QED BY <3>1, <3>2 DEF ServerInv, ServerTypeOK, Handled
  <2>2. CASE MarkComplete(d) \/ AckDuty(d)
    BY <2>2 DEF MarkComplete, AckDuty, Acknowledged, ServerInv, ServerTypeOK, Handled
  <2> QED BY <2>1, <2>2
<1> QED BY <1>1, <1>2, QuietOnceInv

LEMMA NextOnceInv == ServerInv /\ OnceInv /\ [ServerNext]_allVars => OnceInv'
<1> SUFFICES ASSUME ServerInv, OnceInv, [ServerNext]_allVars
             PROVE  OnceInv'
  OBVIOUS
<1>1. CASE Schedule \/ TimePasses
  BY <1>1, ScheduleOnceInv
<1>2. ASSUME NEW e \in Epoch, EnqueuePlan(e) PROVE OnceInv'
  BY <1>2, QuietOnceInv DEF EnqueuePlan, vars, schedulerVars, recordVars
<1>3. ASSUME NEW e \in Epoch, SavePlan(e) PROVE OnceInv'
  <2>1. CASE Task = {}
    BY <2>1 DEF OnceInv, PublishedByHandler, RecordedIsPublished, PublishedIsPast,
                PublishedAgainOnlyIfEarly
  <2>2. CASE Task # {}
    BY <1>3, <2>2, RecordOnceInv
  <2> QED BY <2>1, <2>2
<1>4. ASSUME NEW d \in Task, DutyStep(d) PROVE OnceInv'
  <2>1. 0 \in Epoch
    BY SchedulerAssumption DEF Epoch
  <2> QED BY <1>4, <2>1, PublishOnceInv, HandlerOnceInv, RecordOnceInv DEF DutyStep
<1>5. CASE ProcessEnds
  BY <1>5, ProcessEndsOnceInv
<1>6. CASE Restart
  BY <1>6, RestartOnceInv
<1>7. CASE Stop \/ UNCHANGED allVars
  BY <1>7, QuietOnceInv DEF Stop, allVars, vars, schedulerVars, serverVars,
                            processVars, recordVars
<1> QED BY <1>1, <1>2, <1>3, <1>4, <1>5, <1>6, <1>7 DEF ServerNext

\* What is on disk, in the queue, planned and published agrees over all epochs
\* and all processes, whatever the timers do: the invariant behind
\* AgainOnlyIfEarly and the ledger (server.go:140-170, 262; scheduler.go:290).
THEOREM OnceInvInvariant == ServerSpec => []OnceInv
BY InitOnceInv, NextOnceInv, ServerInvInvariant, PTL DEF ServerSpec

-----------------------------------------------------------------------------
(* The theorems                                                            *)

\* What the records and the queue need holds in every state, whatever the timer
\* of the queue does and wherever the process is ended and started again.
THEOREM ServerInvHolds == ServerSpec => []ServerInv
BY ServerInvInvariant

\* runAttestationAggregate finds the attestation it is blocked by, with its
\* result (duties.go:174-179): Ack follows UpsertDuty, and Dequeue follows Ack.
THEOREM AggregationFindsItsResult == ServerSpec => []AggregateFindsResult
<1>1. ServerInv => AggregateFindsResult
  <2> SUFFICES ASSUME ServerInv, NEW d \in Task, job[d] = "running", NEW b \in BlockersOf(d)
               PROVE  b \in memdb /\ object[b] = "COMPLETE"
    BY DEF AggregateFindsResult
  <2>1. b \in Task
    BY TasksShaped
  <2>2. phase[d] = "running"
    BY DEF ServerInv, JobsMatch, ServerTypeOK, Queue!Phase
  <2>3. phase[b] = "done"
    BY <2>2 DEF ServerInv, BlockersDone
  <2>4. job[b] = "done"
    BY <2>1, <2>3 DEF ServerInv, JobsMatch
  <2> QED BY <2>1, <2>4 DEF ServerInv, JobsMatch, RecordsMatch
<1> QED BY ServerInvInvariant, <1>1, PTL

\* A duty the queue counts as done is COMPLETE on disk (server.go:166-170).
THEOREM AckFollowsRecord == ServerSpec => []AckedIsRecorded
<1>1. ServerInv => AckedIsRecorded
  BY DEF ServerInv, AckedIsRecorded, JobsMatch, RecordsMatch
<1> QED BY ServerInvInvariant, <1>1, PTL

\* handleNewEpoch never enqueues a duty twice, over all epochs (server.go:262):
\* the guard of Submit is met.
THEOREM NeverEnqueuedTwice == ServerSpec => []EnqueuedOnce
<1>1. ServerInv => EnqueuedOnce
  <2> SUFFICES ASSUME ServerInv, NEW e \in Epoch, save[e] = "none", NEW d \in plan[e].duties,
                      phase[d] # "new"
               PROVE  FALSE
    BY DEF EnqueuedOnce
  <2>1. d \in Task
    BY DEF ServerInv, PlansAreTasks, Task
  <2>2. PICK f \in Epoch : save[f] # "none" /\ d \in plan[f].duties
    BY <2>1 DEF ServerInv, QueuedIsPlanned
  <2>3. d.slot \in Int /\ SlotOf(d.slot, e) /\ SlotOf(d.slot, f)
    BY <2>2 DEF ServerInv, PlanInv, WellFormed, DutyType
  <2> QED BY <2>2, <2>3, OneEpochPerSlot DEF Epoch
<1> QED BY ServerInvInvariant, <1>1, PTL

\* No step takes a record back: handleNewEpoch writes the plan after its duties
\* may have run, but through the pointers their handlers have changed.
THEOREM RecordsAreFinal == ServerSpec => CompleteIsFinal
<1>1. ServerInv /\ [ServerNext]_allVars =>
        [\A b \in Boot, d \in Task : disk[b][d] = "COMPLETE" => disk'[b][d] = "COMPLETE"]_allVars
  <2> SUFFICES ASSUME ServerInv, [ServerNext]_allVars, NEW b \in Boot, NEW d \in Task,
                      disk[b][d] = "COMPLETE"
               PROVE  disk'[b][d] = "COMPLETE"
    OBVIOUS
  <2>1. 0 \in Epoch
    BY SchedulerAssumption DEF Epoch
  <2>2. ASSUME NEW e \in Epoch, NEW c \in Task, SavePlan(e) \/ SaveResult(c)
        PROVE  disk'[b][d] = "COMPLETE"
    BY <2>2, RecordEffect DEF ServerInv, RecordsMatch
  <2>3. CASE UNCHANGED disk
    BY <2>3
  <2> QED BY <2>1, <2>2, <2>3, DiskUnchanged
<1> QED BY <1>1, ServerInvInvariant, PTL DEF ServerSpec, CompleteIsFinal

\* A process publishes a duty at most once, and publishes what an earlier process
\* has published only if that one was early: the clock alone keeps a restarted
\* process from planning what was published (cleanDuties, scheduler.go:290-299).
THEOREM AgainOnlyIfEarly == ServerSpec => []PublishedAgainOnlyIfEarly
<1>1. OnceInv => PublishedAgainOnlyIfEarly
  BY DEF OnceInv
<1> QED BY <1>1, OnceInvInvariant, PTL

-----------------------------------------------------------------------------
(* The refinement                                                          *)

\* The ledger of all processes.
Rows == [b \in Boot |-> [d \in Task |-> LedgerOf(b, d)]]

\* The entries of a process for the duties in S change to the given state, the
\* others stay.
LEMMA RowsChange ==
  ASSUME NEW p \in Boot, NEW S \in SUBSET Task, NEW state,
         \A d \in S : LedgerOf(p, d)' = state,
         \A b \in Boot, d \in Task : b # p \/ d \notin S => LedgerOf(b, d)' = LedgerOf(b, d)
  PROVE  Rows' = [Rows EXCEPT ![p] = [d \in Task |-> IF d \in S THEN state ELSE @[d]]]
<1>1. \A b \in Boot : Rows[b] = [d \in Task |-> LedgerOf(b, d)]
  BY DEF Rows
<1>2. \A b \in Boot : Rows'[b] = [d \in Task |-> LedgerOf(b, d)']
  BY DEF Rows
<1>3. Rows'[p] = [d \in Task |-> IF d \in S THEN state ELSE Rows[p][d]]
  <2>1. \A d \in Task : Rows[p][d] = LedgerOf(p, d)
    BY <1>1
  <2>2. \A d \in Task : LedgerOf(p, d)' = IF d \in S THEN state ELSE Rows[p][d]
    BY <2>1
  <2> QED BY <1>2, <2>2
<1>4. \A b \in Boot : b # p => Rows'[b] = Rows[b]
  BY <1>1, <1>2
<1>5. Rows' = [b \in Boot |-> Rows'[b]] /\ Rows = [b \in Boot |-> Rows[b]]
  BY DEF Rows
<1> HIDE DEF Rows
<1> QED BY <1>3, <1>4, <1>5

LEMMA LedgerInit == ServerInit => Ledger!Init
<1> SUFFICES ASSUME ServerInit PROVE Ledger!Init
  OBVIOUS
<1>1. \A b \in Boot, d \in Task : LedgerOf(b, d) = "open"
  BY DEF ServerInit, LedgerOf, Published
<1> QED BY <1>1 DEF Ledger!Init, ServerInit

LEMMA LedgerPublish ==
  ASSUME ServerInv, OnceInv, NEW d \in Task, Publish(d)
  PROVE  Ledger!Publish(d)
<1>1. /\ job[d] = "running"
      /\ published' = [published EXCEPT ![boot][d] = @ + 1]
      /\ early' = [early EXCEPT ![boot] = IF now < ActiveTime(d) THEN @ \cup {d} ELSE @]
      /\ UNCHANGED <<boot, up, disk>>
  BY DEF Publish
<1>2. /\ up /\ published[boot][d] = 0
      /\ \A b \in Boot : Published(b, d) => d \in early[b]
      /\ boot \in Boot
  BY <1>1, RunningIsUnpublished DEF ServerInv, ServerTypeOK
<1>3. \A b \in Boot, c \in Task : published'[b][c] =
        IF b = boot /\ c = d THEN published[b][c] + 1 ELSE published[b][c]
  BY <1>1, PublishEffect DEF ServerInv
<1>4. disk[boot][d] # "COMPLETE"
  BY <1>2 DEF OnceInv, RecordedIsPublished, Published
<1>5. LedgerOf(boot, d) = "open"
  BY <1>2, <1>4 DEF LedgerOf, Published
<1>6. \A b \in Boot : LedgerOf(b, d) # "open" => d \in early[b]
  BY <1>2 DEF LedgerOf, OnceInv, RecordedIsPublished
<1>7. LedgerOf(boot, d)' = "published"
  BY <1>1, <1>2, <1>3, <1>4 DEF LedgerOf, Published
<1>8. \A b \in Boot, c \in Task : b # boot \/ c # d => LedgerOf(b, c)' = LedgerOf(b, c)
  BY <1>1, <1>3 DEF LedgerOf, Published
<1>9. Rows' = [Rows EXCEPT ![boot] = [c \in Task |-> IF c \in {d} THEN "published" ELSE @[c]]]
  <2>1. ASSUME NEW p \in Boot, p = boot, NEW S \in SUBSET Task, S = {d}
        PROVE  Rows' = [Rows EXCEPT ![p] = [c \in Task |-> IF c \in S THEN "published" ELSE @[c]]]
    <3>1. \A c \in S : LedgerOf(p, c)' = "published"
      BY <1>1, <1>7, <2>1
    <3>2. \A b \in Boot, c \in Task : b # p \/ c \notin S => LedgerOf(b, c)' = LedgerOf(b, c)
      BY <1>8, <2>1
    <3> QED BY <3>1, <3>2, RowsChange
  <2>2. {d} \in SUBSET Task
    OBVIOUS
  <2> QED BY <1>2, <2>1, <2>2
<1>10. Rows' = [Rows EXCEPT ![boot][d] = "published"]
  <2>1. Rows[boot] = [c \in Task |-> Rows[boot][c]]
    BY <1>2 DEF Rows
  <2>2. [c \in Task |-> IF c \in {d} THEN "published" ELSE Rows[boot][c]]
          = [Rows[boot] EXCEPT ![d] = "published"]
    BY <2>1
  <2> QED BY <1>9, <2>2
<1>11. early' \in {early, [early EXCEPT ![boot] = @ \cup {d}]}
  BY <1>1, <1>2 DEF ServerInv, ServerTypeOK
<1>12. Rows[boot][d] = "open" /\ \A b \in Boot : Rows[b][d] # "open" => d \in early[b]
  BY <1>2, <1>5, <1>6 DEF Rows
<1> QED BY <1>1, <1>10, <1>11, <1>12 DEF Ledger!Publish, Rows

\* A write records the duties whose handlers have published and marked them.
LEMMA LedgerRecord ==
  ASSUME ServerInv, OnceInv, NEW e \in Epoch, NEW d \in Task, SavePlan(e) \/ SaveResult(d)
  PROVE  \E S \in SUBSET Task : Ledger!Record(S)
<1> DEFINE S == {c \in Task : disk[boot][c] # "COMPLETE" /\ disk'[boot][c] = "COMPLETE"}
<1>1. /\ UNCHANGED <<boot, up, object, published, early>> /\ up /\ boot \in Boot
      /\ \A b \in Boot, c \in Task :
           disk'[b][c] = disk[b][c] \/ (b = boot /\ disk'[b][c] = object[c])
      /\ \A b \in Boot, c \in Task : disk[b][c] = "COMPLETE" => disk'[b][c] = "COMPLETE"
  BY RecordEffect DEF ServerInv, ServerTypeOK, RecordsMatch
<1>2. ASSUME NEW c \in S PROVE LedgerOf(boot, c) = "published" /\ LedgerOf(boot, c)' = "recorded"
  <2>1. object[c] = "COMPLETE" /\ c \in Task
    BY <1>1, <1>2
  <2>2. job[c] \in {"marked", "saved", "done"}
    BY <2>1 DEF ServerInv, JobsMatch
  <2>3. Published(boot, c)
    BY <1>1, <2>1, <2>2 DEF OnceInv, PublishedByHandler
  <2> QED BY <1>1, <1>2, <2>3 DEF LedgerOf
<1>3. \A b \in Boot, c \in Task : b # boot \/ c \notin S => LedgerOf(b, c)' = LedgerOf(b, c)
  <2> SUFFICES ASSUME NEW b \in Boot, NEW c \in Task, b # boot \/ c \notin S
               PROVE  LedgerOf(b, c)' = LedgerOf(b, c)
    OBVIOUS
  <2>1. disk'[b][c] = "COMPLETE" <=> disk[b][c] = "COMPLETE"
    BY <1>1
  <2> QED BY <1>1, <2>1 DEF LedgerOf, Published
<1>4. S \in SUBSET Task
  OBVIOUS
<1> HIDE DEF S
<1>5. Rows' = [Rows EXCEPT ![boot] = [c \in Task |-> IF c \in S THEN "recorded" ELSE @[c]]]
  <2>1. ASSUME NEW p \in Boot, p = boot
        PROVE  Rows' = [Rows EXCEPT ![p] = [c \in Task |-> IF c \in S THEN "recorded" ELSE @[c]]]
    <3>1. \A c \in S : LedgerOf(p, c)' = "recorded"
      BY <1>1, <1>2, <2>1
    <3>2. \A b \in Boot, c \in Task : b # p \/ c \notin S => LedgerOf(b, c)' = LedgerOf(b, c)
      BY <1>3, <2>1
    <3> QED BY <1>4, <3>1, <3>2, RowsChange
  <2> QED BY <1>1, <2>1
<1>6. \A c \in S : Rows[boot][c] = "published"
  BY <1>1, <1>2, <1>4 DEF Rows
<1>7. Ledger!Record(S)
  BY <1>1, <1>5, <1>6 DEF Ledger!Record, Ledger!Settle, Rows
<1> QED BY <1>4, <1>7

LEMMA LedgerLose ==
  ASSUME ServerInv, OnceInv, ProcessEnds
  PROVE  Ledger!Lose
<1> DEFINE S == {c \in Task : Rows[boot][c] = "published"}
<1>1. UNCHANGED <<boot, disk, published, early>> /\ up /\ up' = FALSE /\ boot \in Boot
  BY DEF ProcessEnds, recordVars, ServerInv, ServerTypeOK
<1>2. \A c \in Task : Rows[boot][c] = LedgerOf(boot, c)
  BY <1>1 DEF Rows
<1>3. \A c \in S : LedgerOf(boot, c)' = "lost"
  BY <1>1, <1>2 DEF LedgerOf, Published
<1>4. \A b \in Boot, c \in Task : b # boot \/ c \notin S => LedgerOf(b, c)' = LedgerOf(b, c)
  BY <1>1, <1>2 DEF LedgerOf, Published
<1>5. S \in SUBSET Task /\ \A c \in S : Rows[boot][c] = "published"
  OBVIOUS
<1>6. S = {c \in Task : Rows[boot][c] = "published"}
  OBVIOUS
<1> HIDE DEF S
<1>7. Rows' = [Rows EXCEPT ![boot] = [c \in Task |-> IF c \in S THEN "lost" ELSE @[c]]]
  BY <1>1, <1>3, <1>4, <1>5, RowsChange
<1>8. Ledger!Settle(S, "lost")
  BY <1>1, <1>5, <1>7 DEF Ledger!Settle, Rows
<1> QED BY <1>6, <1>8 DEF Ledger!Lose, Rows

\* A new process begins when the one before has ended.
LEMMA LedgerBegin ==
  ASSUME ServerInv, OnceInv, Restart
  PROVE  Ledger!Begin
<1>1. /\ UNCHANGED <<disk, published, early>> /\ ~up /\ up' = TRUE
      /\ boot' = boot + 1 /\ boot' \in Boot /\ boot \in Boot /\ boot' > boot
  BY ServerAssumption DEF Restart, ServerInv, ServerTypeOK, Boot, recordVars
<1>2. \A b \in Boot, c \in Task : LedgerOf(b, c) # "published"
  BY <1>1 DEF LedgerOf
<1>3. \A c \in Task : ~Published(boot', c)
  BY <1>1 DEF OnceInv, PublishedByHandler
<1>4. \A b \in Boot, c \in Task : LedgerOf(b, c)' = LedgerOf(b, c)
  BY <1>1, <1>3 DEF LedgerOf, Published
<1>5. Rows' = Rows /\ \A c \in Task : Rows[boot][c] # "published"
  BY <1>1, <1>2, <1>4 DEF Rows
<1> QED BY <1>1, <1>5 DEF Ledger!Begin, Rows

ledgerVars == <<boot, Rows, early>>

\* The other steps are not seen.
LEMMA LedgerStutter ==
  ASSUME UNCHANGED <<boot, up, disk, published, early>>
  PROVE  UNCHANGED ledgerVars
<1>1. \A b \in Boot, d \in Task : LedgerOf(b, d)' = LedgerOf(b, d)
  BY DEF LedgerOf, Published
<1> QED BY <1>1 DEF ledgerVars, Rows

LEMMA LedgerStep ==
  ASSUME ServerInv, OnceInv, [ServerNext]_allVars
  PROVE  [Ledger!Next]_ledgerVars
<1>1. ASSUME NEW d \in Task, Publish(d) PROVE Ledger!Next
  BY <1>1, LedgerPublish DEF Ledger!Next
<1>2. ASSUME NEW e \in Epoch, NEW d \in Task, SavePlan(e) \/ SaveResult(d) PROVE Ledger!Next
  BY <1>2, LedgerRecord DEF Ledger!Next
<1>3. CASE ProcessEnds
  BY <1>3, LedgerLose DEF Ledger!Next
<1>4. CASE Restart
  BY <1>4, LedgerBegin DEF Ledger!Next
<1>5. ASSUME NEW d \in Task, StartDuty(d) \/ MarkComplete(d) \/ AckDuty(d)
      PROVE  UNCHANGED ledgerVars
  BY <1>5, LedgerStutter DEF StartDuty, MarkComplete, AckDuty, recordVars
<1>6. ASSUME NEW e \in Epoch, \/ Schedule \/ TimePasses \/ EnqueuePlan(e)
                              \/ Stop \/ UNCHANGED allVars
      PROVE  UNCHANGED ledgerVars
  BY <1>6, LedgerStutter DEF Schedule, TimePasses, EnqueuePlan, Stop, allVars,
                             serverVars, processVars, recordVars
<1>7. 0 \in Epoch
  BY SchedulerAssumption DEF Epoch
<1>8. ASSUME NEW e \in Epoch, SavePlan(e), Task = {}
      PROVE  UNCHANGED ledgerVars
  <2>1. UNCHANGED <<boot, early>>
    BY <1>8 DEF SavePlan
  <2> QED BY <1>8, <2>1 DEF ledgerVars, Rows
<1> QED BY <1>1, <1>2, <1>3, <1>4, <1>5, <1>6, <1>7, <1>8 DEF ServerNext, DutyStep

\* The server implements the ledger: over all its processes a duty is published
\* again only if it was early, and what a process publishes it records or loses
\* with its end.
THEOREM Refinement == ServerSpec => ImplementsDutyLedger
<1>1. ServerInv /\ OnceInv /\ [ServerNext]_allVars => [Ledger!Next]_ledgerVars
  BY LedgerStep
<1>2. ServerSpec => []ServerInv
  BY ServerInvInvariant
<1>3. ServerSpec => []OnceInv
  BY OnceInvInvariant
<1>4. ServerSpec => Ledger!Spec
  BY <1>1, <1>2, <1>3, LedgerInit, PTL DEF ServerSpec, Ledger!Spec, ledgerVars, Rows
<1> QED BY <1>4 DEF ImplementsDutyLedger
=============================================================================
