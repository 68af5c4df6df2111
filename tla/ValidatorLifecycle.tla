-------------------------- MODULE ValidatorLifecycle --------------------------
(***************************************************************************)
(* How the server learns about its validators: NewServer writes a row for  *)
(* each private key, and validatorLifecycle (internal/server/server.go)    *)
(* asks the beacon node, once per epoch, for every validator that is still *)
(* pending and writes the metadata it is given.                            *)
(*                                                                         *)
(* The beacon chain moves on at any time.  Calls to the beacon node and    *)
(* writes to the database may fail, the process may end at any point and   *)
(* be started again, and Stop may close the database under the routine.    *)
(***************************************************************************)
EXTENDS StateStore, StateSchema

CONSTANTS
  Validator,         \* the public keys of the validators, rows of the state
  ValidatorIndex,    \* ValidatorIndex[v]: the index of v in the beacon chain
  ActivationEpochs,  \* the epochs in which the chain may activate a validator
  FarFuture,         \* FAR_FUTURE_EPOCH, the activation epoch before that
  MaxFaults,         \* bound on the failed calls
  MaxBoots           \* bound on the starts of the process

ASSUME LifecycleAssumption ==
  /\ Validator \subseteq Row
  /\ ValidatorIndex \in [Validator -> Nat]
  /\ \A u, v \in Validator : ValidatorIndex[u] = ValidatorIndex[v] => u = v
  /\ ActivationEpochs \subseteq Nat
  /\ FarFuture \in Nat
  /\ \A e \in ActivationEpochs : e < FarFuture
  /\ Bare \in Value
  /\ \A v \in Validator, e \in ActivationEpochs \cup {FarFuture} :
        WithMetadata(ValidatorIndex[v], e) \in Value
  /\ \A x \in Value : IndexOf[x] = SchemaKeys(x)
  /\ \A x, y \in Value : <<x, y>> \in InPlace => x.table = "duties"
  /\ {"NewServer", "validatorLifecycle"} \subseteq Caller
  /\ MaxFaults \in Nat
  /\ MaxBoots \in Nat

VARIABLES
  server,     \* how far NewServer has come in this process
  lifecycle,  \* the routine: control point, validators to ask for, rows to write
  shutdown,   \* shutdownCh is closed
  chain,      \* chain[v]: the activation epoch of v, or Unknown
  faults,     \* the number of failed calls
  boots       \* the number of starts

lifeVars == <<server, lifecycle, shutdown, chain, faults, boots>>
lifecycleVars == <<storeVars, lifeVars>>

\* The beacon node has no validator with this key.
Unknown == -1

Off == [pc |-> "off", todo |-> {}, updated |-> Nothing]

LifecycleTypeOK ==
  /\ StoreTypeOK
  /\ server \in {"starting", "writing", "running", "failed"}
  /\ lifecycle \in [pc : {"off", "read", "query", "upsert", "wait", "stopped"},
                    todo : SUBSET Validator, updated : Content]
  /\ shutdown \in BOOLEAN
  /\ chain \in [Validator -> ActivationEpochs \cup {FarFuture, Unknown}]
  /\ faults \in 0 .. MaxFaults
  /\ boots \in 0 .. MaxBoots

LifecycleInit ==
  /\ StoreInit
  /\ server = "starting"
  /\ lifecycle = Off
  /\ shutdown = FALSE
  /\ chain \in [Validator -> {Unknown, FarFuture}]
  /\ faults = 0
  /\ boots = 0

Fault == faults < MaxFaults /\ faults' = faults + 1

-----------------------------------------------------------------------------
(* The process                                                             *)

\* NewServer calls NewState with the file of the processes before.
Boot ==
  /\ boots < MaxBoots
  /\ boots' = boots + 1
  /\ OpenDB
  /\ UNCHANGED <<server, lifecycle, shutdown, chain, faults>>

LoadState == ReIndex /\ UNCHANGED lifeVars

\* validatorFromPrivKey: whatever the database has, the row is written again
\* without its metadata.
InitialRow(v) == Bare

\* NewServer upserts the validators of the configuration.
WriteKeys ==
  /\ server = "starting"
  /\ Begin("NewServer", [r \in Row |-> IF r \in Validator THEN InitialRow(r) ELSE Absent])
  /\ server' = "writing"
  /\ UNCHANGED <<lifecycle, shutdown, chain, faults, boots>>

\* NewServer goes on to Run, which starts the routine.
KeysWritten ==
  /\ txn.caller = "NewServer"
  /\ CommitMem
  /\ server' = "running"
  /\ lifecycle' = [Off EXCEPT !.pc = "read"]
  /\ UNCHANGED <<shutdown, chain, faults, boots>>

\* NewServer returns the error, and the program exits.
KeysFail ==
  /\ txn.caller = "NewServer"
  /\ WriteFails
  /\ Fault
  /\ server' = "failed"
  /\ UNCHANGED <<lifecycle, shutdown, chain, boots>>

\* The process is killed, or exits.
Exit ==
  /\ ProcessEnds
  /\ server' = "starting"
  /\ lifecycle' = Off
  /\ shutdown' = FALSE
  /\ UNCHANGED <<chain, faults, boots>>

\* Stop: the database is closed first, shutdownCh last.
StopState ==
  /\ server = "running"
  /\ CloseDB
  /\ UNCHANGED lifeVars

StopSignal ==
  /\ server = "running"
  /\ db = "closed"
  /\ ~shutdown
  /\ shutdown' = TRUE
  /\ UNCHANGED <<storeVars, server, lifecycle, chain, faults, boots>>

\* The loop of a write, and its first commit, for any caller.
WriteStep ==
  /\ (\E r \in Row : InsertRow(r) \/ PutRow(r)) \/ CommitDB
  /\ UNCHANGED lifeVars

-----------------------------------------------------------------------------
(* Queries of the state                                                    *)

Found(key) == {r \in Row : <<key, r>> \in index}

\* GetValidatorsPending.
Pending == Found(<<"pending", FALSE>>)

\* GetValidatorsActiveAt: the entries from epoch + 1 downwards.  A key is longer
\* than the bound it is compared with, so that those of epoch + 1 itself come
\* after the bound.
ActiveAt(epoch) ==
  IF epoch = 0 THEN Found(<<"activationEpoch", 0>>)
  ELSE UNION {Found(<<"activationEpoch", e>>) :
                 e \in {f \in ActivationEpochs \cup {FarFuture} : f < epoch + 1}}

\* GetValidatorByIndex: the first of these.
ByIndex(i) == Found(<<"index", i>>)

-----------------------------------------------------------------------------
(* validatorLifecycle                                                      *)

ReadPending ==
  /\ lifecycle.pc = "read"
  /\ lifecycle' = [pc |-> "query", todo |-> Pending, updated |-> Nothing]
  /\ UNCHANGED <<storeVars, server, shutdown, chain, faults, boots>>

\* Mutant of QueryOk: val is not copied, and the object that memdb holds gets
\* the metadata.
QueryOkNoCopy(v) ==
  /\ lifecycle.pc = "query"
  /\ v \in lifecycle.todo
  /\ chain[v] # Unknown
  /\ lifecycle' = [lifecycle EXCEPT !.todo = @ \ {v},
                     !.updated[v] = WithMetadata(ValidatorIndex[v], chain[v])]
  /\ mem' = [mem EXCEPT ![v] = WithMetadata(ValidatorIndex[v], chain[v])]
  /\ UNCHANGED <<db, disk, index, txn, server, shutdown, chain, faults, boots>>

\* The beacon node answers for v; a copy of the row gets the metadata.
QueryOk(v) ==
  /\ lifecycle.pc = "query"
  /\ v \in lifecycle.todo
  /\ chain[v] # Unknown
  /\ lifecycle' = [lifecycle EXCEPT !.todo = @ \ {v},
                     !.updated[v] = WithMetadata(ValidatorIndex[v], chain[v])]
  /\ UNCHANGED <<storeVars, server, shutdown, chain, faults, boots>>

\* The call fails, or the node does not know v: v stays pending.
QueryFails(v) ==
  /\ lifecycle.pc = "query"
  /\ v \in lifecycle.todo
  /\ IF chain[v] = Unknown THEN UNCHANGED faults ELSE Fault
  /\ lifecycle' = [lifecycle EXCEPT !.todo = @ \ {v}]
  /\ UNCHANGED <<storeVars, server, shutdown, chain, boots>>

\* UpsertValidator with the answers, be there none; it blocks while another
\* write holds the lock.
Register ==
  /\ lifecycle.pc = "query"
  /\ lifecycle.todo = {}
  /\ Begin("validatorLifecycle", lifecycle.updated)
  /\ lifecycle' = [lifecycle EXCEPT !.pc = "upsert"]
  /\ UNCHANGED <<server, shutdown, chain, faults, boots>>

Registered ==
  /\ txn.caller = "validatorLifecycle"
  /\ CommitMem
  /\ lifecycle' = [Off EXCEPT !.pc = "wait"]
  /\ UNCHANGED <<server, shutdown, chain, faults, boots>>

\* Mutant of RegisterFails: the routine gives up with the error.
RegisterFailsOnce ==
  /\ \/ /\ lifecycle.pc = "query" /\ lifecycle.todo = {} /\ db = "closed"
        /\ UNCHANGED <<storeVars, faults>>
     \/ txn.caller = "validatorLifecycle" /\ WriteFails /\ Fault
  /\ lifecycle' = [Off EXCEPT !.pc = "stopped"]
  /\ UNCHANGED <<server, shutdown, chain, boots>>

\* The error is not looked at: the condition tests the one of the query.
RegisterFails ==
  /\ \/ /\ lifecycle.pc = "query" /\ lifecycle.todo = {} /\ db = "closed"
        /\ UNCHANGED <<storeVars, faults>>
     \/ txn.caller = "validatorLifecycle" /\ WriteFails /\ Fault
  /\ lifecycle' = [Off EXCEPT !.pc = "wait"]
  /\ UNCHANGED <<server, shutdown, chain, boots>>

\* The next epoch comes.
NextRound ==
  /\ lifecycle.pc = "wait"
  /\ lifecycle' = [Off EXCEPT !.pc = "read"]
  /\ UNCHANGED <<storeVars, server, shutdown, chain, faults, boots>>

LifecycleStops ==
  /\ lifecycle.pc = "wait"
  /\ shutdown
  /\ lifecycle' = [Off EXCEPT !.pc = "stopped"]
  /\ UNCHANGED <<storeVars, server, shutdown, chain, faults, boots>>

-----------------------------------------------------------------------------
(* The beacon chain                                                        *)

\* A validator is deposited, with FAR_FUTURE_EPOCH, and activated later.
ChainMoves(v) ==
  /\ \/ chain[v] = Unknown /\ chain' = [chain EXCEPT ![v] = FarFuture]
     \/ chain[v] = FarFuture /\ \E e \in ActivationEpochs : chain' = [chain EXCEPT ![v] = e]
  /\ UNCHANGED <<storeVars, server, lifecycle, shutdown, faults, boots>>

-----------------------------------------------------------------------------

NewServerStep == LoadState \/ WriteKeys \/ KeysWritten

RoutineStep ==
  \/ ReadPending \/ Register \/ Registered \/ RegisterFails \/ NextRound \/ LifecycleStops
  \/ \E v \in Validator : QueryOk(v) \/ QueryFails(v)

LifecycleStep ==
  \/ Boot \/ NewServerStep \/ KeysFail \/ StopState \/ StopSignal
  \/ WriteStep
  \/ RoutineStep
  \/ \E v \in Validator : ChainMoves(v)

LifecycleNext == LifecycleStep \/ Exit

\* The goroutines are scheduled, and the calls they make return.
LifecycleFairness ==
  /\ WF_lifecycleVars(NewServerStep)
  /\ WF_lifecycleVars(WriteStep)
  /\ WF_lifecycleVars(RoutineStep)

LifecycleSpec == LifecycleInit /\ [][LifecycleNext]_lifecycleVars /\ LifecycleFairness

-----------------------------------------------------------------------------
(* Properties                                                              *)

Known(v) == mem[v] # Absent /\ mem[v].known

\* The queries of the state answer for the rows as they are: a validator is
\* pending until it has its metadata and never after, it is found by its own
\* index alone, and it is active from the epoch of its metadata on.  Metadata
\* is what the chain said when it was asked.
QueriesExact ==
  Serving =>
    /\ Pending = {v \in Validator : mem[v] # Absent /\ ~Known(v)}
    /\ \A e \in ActivationEpochs :
          ActiveAt(e) = {v \in Validator : Known(v) /\ mem[v].activationEpoch <= e}
    /\ \A v \in Validator : Known(v) =>
          /\ ByIndex(ValidatorIndex[v]) = {v}
          /\ mem[v].activationEpoch \in {chain[v], FarFuture}

\* "watch-duties ... find new validators": whoever the beacon node knows is
\* registered in the end, after failed calls and restarts, unless the process
\* ends or is being stopped; a restart that wiped the metadata makes it up.
EventuallyRegistered ==
  \A v \in Validator : chain[v] # Unknown /\ server = "running" ~> Known(v) \/ db # "open"

\* "pending is the index for validators that are not yet active on the
\* consensus": so a validator that becomes active is learnt to be so.
ActivationLearnt ==
  \A v \in Validator :
    chain[v] \in ActivationEpochs /\ server = "running" ~>
      \/ Known(v) /\ mem[v].activationEpoch = chain[v]
      \/ db # "open"
=============================================================================
