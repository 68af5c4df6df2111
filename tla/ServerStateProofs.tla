-------------------------- MODULE ServerStateProofs --------------------------
(***************************************************************************)
(* Proofs about the state of the validator with its users: what the rows   *)
(* hold, what the queries answer, and what the slashing checks refuse, for *)
(* all networks, duties, plans, failures and restarts.                     *)
(***************************************************************************)
EXTENDS MCServerState, StateStoreProofs, WellFoundedInduction

-----------------------------------------------------------------------------
(* What the rows hold                                                      *)

\* A validator has its key alone or metadata the chain has given at some time, a
\* duty is the one that was planned, with or without a result of its handler.
FitsRow(c, r, x) ==
  \/ x = Absent
  \/ r \in Validator /\ x = Bare
  \/ /\ r \in Validator
     /\ \E e \in {c[r], FarFuture} \ {Unknown} : x = WithMetadata(ValidatorIndex[r], e)
  \/ /\ r \in Duty
     /\ \E o \in Outcomes[r] \cup {NoResult} : x = DutyObject(Job[r], o)

\* The contents of row r, on disk, in memory and in the write under way.
Copies(r) == {disk[r], mem[r], txn.todo[r], txn.memTxn[r], txn.dbTxn[r]}

RowsFit ==
  /\ \A r \in Row : \A x \in Copies(r) : FitsRow(chain, r, x)
  /\ \A r \in Row : lifecycle.updated[r] # Absent => r \in Validator
  /\ \A r \in Row : FitsRow(chain, r, lifecycle.updated[r])
  /\ \A d \in Duty : FitsRow(chain, d, object[d])

LEMMA TxnTyped ==
  StoreInv => /\ disk \in Content /\ mem \in Content /\ index \in SUBSET (Key \X Row)
              /\ txn \in Transaction /\ txn.todo \in Content
              /\ txn.memTxn \in Content /\ txn.dbTxn \in Content
              /\ txn.index \in SUBSET (Key \X Row)
BY DEF StoreInv, StoreTypeOK, Transaction

\* The store invents nothing.
LEMMA CopiesKept ==
  ASSUME StoreInv, NEW s \in Row,
         \/ OpenDB \/ ReIndex \/ CloseDB \/ ProcessEnds \/ WriteFails \/ CommitDB \/ CommitMem
         \/ \E r \in Row : InsertRow(r) \/ PutRow(r)
  PROVE  \A x \in Copies(s)' : x \in Copies(s) \/ x = Absent
<1>0. /\ disk \in Content /\ mem \in Content /\ txn \in Transaction /\ txn.todo \in Content
      /\ txn.memTxn \in Content /\ txn.dbTxn \in Content
  BY TxnTyped
<1>1. CASE OpenDB \/ ReIndex \/ CloseDB
  BY <1>1 DEF OpenDB, ReIndex, CloseDB, Copies
<1>2. CASE ProcessEnds
  BY <1>2 DEF ProcessEnds, NoTxn, Nothing, Copies
<1>3. CASE WriteFails
  BY <1>3 DEF WriteFails, NoTxn, Nothing, Copies
<1>4. CASE CommitDB
  <2>1. /\ txn'.todo = txn.todo /\ txn'.memTxn = txn.memTxn /\ txn'.dbTxn = txn.dbTxn
        /\ mem' = mem
    BY <1>0, <1>4 DEF CommitDB, Transaction
  <2>2. disk'[s] = disk[s] \/ disk'[s] = txn.dbTxn[s]
    BY <1>0, <1>4, OverlayTyped DEF CommitDB
  <2> QED BY <2>1, <2>2 DEF Copies
<1>5. CASE CommitMem
  <2>1. disk' = disk /\ txn' = NoTxn
    BY <1>5 DEF CommitMem
  <2>2. mem'[s] = mem[s] \/ mem'[s] = txn.memTxn[s]
    BY <1>0, <1>5, OverlayTyped DEF CommitMem
  <2> QED BY <2>1, <2>2 DEF Copies, NoTxn, Nothing
<1>6. ASSUME NEW r \in Row, InsertRow(r) PROVE \A x \in Copies(s)' : x \in Copies(s) \/ x = Absent
  <2>1. /\ txn'.dbTxn = txn.dbTxn
        /\ txn'.todo = [txn.todo EXCEPT ![r] = Absent]
        /\ txn'.memTxn = [txn.memTxn EXCEPT ![r] = txn.todo[r]]
    BY <1>6, InsertRowEffect
  <2>2. disk' = disk /\ mem' = mem
    BY <1>6 DEF InsertRow
  <2>3. /\ txn'.todo[s] = Absent \/ txn'.todo[s] = txn.todo[s]
        /\ txn'.memTxn[s] = txn.memTxn[s] \/ txn'.memTxn[s] = txn.todo[s]
    BY <1>0, <2>1 DEF Content
  <2> QED BY <2>1, <2>2, <2>3 DEF Copies
<1>7. ASSUME NEW r \in Row, PutRow(r) PROVE \A x \in Copies(s)' : x \in Copies(s) \/ x = Absent
  <2>1. /\ txn'.todo = txn.todo /\ txn'.memTxn = txn.memTxn /\ disk' = disk /\ mem' = mem
        /\ txn'.dbTxn = [txn.dbTxn EXCEPT ![r] = txn.memTxn[r]]
    BY <1>0, <1>7 DEF PutRow, Transaction
  <2>2. txn'.dbTxn[s] = txn.dbTxn[s] \/ txn'.dbTxn[s] = txn.memTxn[s]
    BY <1>0, <2>1 DEF Content
  <2> QED BY <2>1, <2>2 DEF Copies
<1> QED BY <1>1, <1>2, <1>3, <1>4, <1>5, <1>6, <1>7

LEMMA CopiesBegun ==
  ASSUME StoreInv, NEW s \in Row, NEW c, NEW batch, Begin(c, batch)
  PROVE  \A x \in Copies(s)' : x \in Copies(s) \/ x = Absent \/ x = batch[s]
<1>1. /\ disk' = disk /\ mem' = mem /\ txn'.todo = batch
      /\ txn'.memTxn = Nothing /\ txn'.dbTxn = Nothing
  BY DEF Begin, NoTxn
<1> QED BY <1>1 DEF Copies, Nothing

LEMMA CopiesTurned ==
  ASSUME StoreInv, NEW s \in Row, NEW r \in Row, NEW v \in Value, NEW w \in Value, Complete(r, v, w)
  PROVE  \A x \in Copies(s)' : x \in Copies(s) \/ (s = r /\ x = w)
<1>0. /\ mem \in Content /\ txn.todo \in Content /\ txn.memTxn \in Content
  BY TxnTyped
<1>1. /\ txn'.dbTxn = txn.dbTxn
      /\ txn'.todo = [txn.todo EXCEPT ![r] = Turned(@, v, w)]
      /\ txn'.memTxn = [txn.memTxn EXCEPT ![r] = Turned(@, v, w)]
  BY CompleteEffect
<1>2. disk' = disk /\ mem' = [mem EXCEPT ![r] = Turned(@, v, w)]
  BY DEF Complete
<1>3. /\ mem'[s] = mem[s] \/ (s = r /\ mem'[s] = w)
      /\ txn'.todo[s] = txn.todo[s] \/ (s = r /\ txn'.todo[s] = w)
      /\ txn'.memTxn[s] = txn.memTxn[s] \/ (s = r /\ txn'.memTxn[s] = w)
  BY <1>0, <1>1, <1>2, TurnedTyped
<1> QED BY <1>1, <1>2, <1>3 DEF Copies

\* Steps of the store alone, and the others, leave the rows as they must be.
LEMMA SameRowsFit ==
  ASSUME StoreInv, RowsFit, chain' = chain,
         \/ UNCHANGED storeVars
         \/ OpenDB \/ ReIndex \/ CloseDB \/ ProcessEnds \/ WriteFails \/ CommitDB \/ CommitMem
         \/ \E r \in Row : InsertRow(r) \/ PutRow(r)
  PROVE  \A r \in Row : \A x \in Copies(r)' : FitsRow(chain', r, x)
<1>1. \A r \in Row : \A x \in Copies(r) : FitsRow(chain, r, x)
  BY DEF RowsFit
<1>2. \A r \in Row : FitsRow(chain, r, Absent)
  BY DEF FitsRow
<1>3. CASE UNCHANGED storeVars
  BY <1>1, <1>3 DEF storeVars, Copies
<1>4. CASE ~UNCHANGED storeVars
  <2>1. \A r \in Row : \A x \in Copies(r)' : x \in Copies(r) \/ x = Absent
    BY <1>4, CopiesKept
  <2> QED BY <1>1, <1>2, <2>1
<1> QED BY <1>3, <1>4

LEMMA BegunRowsFit ==
  ASSUME StoreInv, RowsFit, chain' = chain, NEW c, NEW batch, Begin(c, batch),
         \A r \in Row : FitsRow(chain, r, batch[r])
  PROVE  \A r \in Row : \A x \in Copies(r)' : FitsRow(chain', r, x)
<1>1. \A r \in Row : \A x \in Copies(r)' : x \in Copies(r) \/ x = Absent \/ x = batch[r]
  BY CopiesBegun
<1>2. \A r \in Row : FitsRow(chain, r, Absent)
  BY DEF FitsRow
<1>3. \A r \in Row : \A x \in Copies(r) : FitsRow(chain, r, x)
  BY DEF RowsFit
<1> QED BY <1>1, <1>2, <1>3

LEMMA ObjectsFit ==
  ASSUME RowsFit, NEW S PROVE \A r \in Row : r \in S \cap Duty \/ r \notin S => FitsRow(chain, r, Objects(S)[r])
BY DEF RowsFit, Objects, FitsRow

LEMMA LifecycleRowsFit ==
  ASSUME StoreInv, UserInv, RowsFit, LifecycleStep \/ Exit, object' = object \/ object' = [d \in Duty |-> Absent]
  PROVE  RowsFit'
<1> DEFINE Rows == \A r \in Row : \A x \in Copies(r)' : FitsRow(chain', r, x)
           Updates == /\ \A r \in Row : lifecycle'.updated[r] # Absent => r \in Validator
                      /\ \A r \in Row : FitsRow(chain', r, lifecycle'.updated[r])
<1>1. (chain' = chain) => \A d \in Duty : FitsRow(chain', d, object'[d])
  BY DEF RowsFit, FitsRow
<1>2. lifecycle' = lifecycle /\ chain' = chain => Updates
  BY DEF RowsFit
<1>3. \A p : lifecycle' = [Off EXCEPT !.pc = p] => Updates
  BY DEF Off, Nothing, FitsRow
<1>4. CASE Boot \/ LoadState \/ KeysFail \/ StopState \/ StopSignal \/ WriteStep
  <2>1. chain' = chain /\ lifecycle' = lifecycle
    BY <1>4 DEF Boot, LoadState, KeysFail, StopState, StopSignal, WriteStep, lifeVars
  <2>2. Rows
    BY <1>4, <2>1, SameRowsFit DEF Boot, LoadState, KeysFail, StopState, StopSignal, WriteStep
  <2> QED BY <1>1, <1>2, <2>1, <2>2 DEF RowsFit
<1>5. CASE KeysWritten \/ Registered \/ RegisterFails \/ NextRound \/ LifecycleStops \/ Exit
  <2>1. chain' = chain
    BY <1>5 DEF KeysWritten, Registered, RegisterFails, NextRound, LifecycleStops, Exit
  <2>2. \E p : lifecycle' = [Off EXCEPT !.pc = p]
    <3>1. Off = [Off EXCEPT !.pc = "off"]
      BY DEF Off
    <3> QED BY <1>5, <3>1 DEF KeysWritten, Registered, RegisterFails, NextRound, LifecycleStops, Exit
  <2>3. Rows
    BY <1>5, <2>1, SameRowsFit
       DEF KeysWritten, Registered, RegisterFails, NextRound, LifecycleStops, Exit
  <2> QED BY <1>1, <1>3, <2>1, <2>2, <2>3 DEF RowsFit
<1>6. CASE WriteKeys
  <2> DEFINE batch == [r \in Row |-> IF r \in Validator THEN InitialRow(r) ELSE Absent]
  <2>1. chain' = chain /\ lifecycle' = lifecycle /\ Begin("NewServer", batch)
    BY <1>6 DEF WriteKeys
  <2>2. \A r \in Row : FitsRow(chain, r, batch[r])
    BY DEF FitsRow, InitialRow
  <2> HIDE DEF batch
  <2>3. Rows
    BY <2>1, <2>2, BegunRowsFit
  <2> QED BY <1>1, <1>2, <2>1, <2>3 DEF RowsFit
<1>7. CASE ReadPending
  <2>1. chain' = chain /\ UNCHANGED storeVars /\ lifecycle'.updated = Nothing
    BY <1>7 DEF ReadPending
  <2>2. Rows
    BY <2>1, SameRowsFit
  <2>3. Updates
    BY <2>1 DEF Nothing, FitsRow
  <2> QED BY <1>1, <2>1, <2>2, <2>3 DEF RowsFit
<1>8. CASE Register
  <2>1. /\ chain' = chain /\ Begin("validatorLifecycle", lifecycle.updated)
        /\ lifecycle'.updated = lifecycle.updated
    BY <1>8 DEF Register, UserInv
  <2>2. Rows
    BY <2>1, BegunRowsFit DEF RowsFit
  <2>3. Updates
    BY <2>1 DEF RowsFit
  <2> QED BY <1>1, <2>1, <2>2, <2>3 DEF RowsFit
<1>9. ASSUME NEW v \in Validator, QueryOk(v) PROVE RowsFit'
  <2> DEFINE answer == WithMetadata(ValidatorIndex[v], chain[v])
  <2>1. chain' = chain /\ UNCHANGED storeVars /\ chain[v] # Unknown
    BY <1>9 DEF QueryOk
  <2>2. lifecycle'.updated = [lifecycle.updated EXCEPT ![v] = answer]
    BY <1>9 DEF QueryOk, UserInv
  <2>3. Rows
    BY <2>1, SameRowsFit
  <2>4. FitsRow(chain, v, answer)
    BY <2>1 DEF FitsRow
  <2> HIDE DEF answer
  <2>5. \A r \in Row : lifecycle'.updated[r] = IF r = v THEN answer ELSE lifecycle.updated[r]
    BY <2>2 DEF UserInv, Content
  <2>6. Updates
    BY <2>1, <2>4, <2>5 DEF RowsFit
  <2> QED BY <1>1, <2>1, <2>3, <2>6 DEF RowsFit
<1>10. ASSUME NEW v \in Validator, QueryFails(v) PROVE RowsFit'
  <2>1. chain' = chain /\ UNCHANGED storeVars /\ lifecycle'.updated = lifecycle.updated
    BY <1>10 DEF QueryFails, UserInv
  <2>2. Rows
    BY <2>1, SameRowsFit
  <2>3. Updates
    BY <2>1 DEF RowsFit
  <2> QED BY <1>1, <2>1, <2>2, <2>3 DEF RowsFit
<1>11. ASSUME NEW v \in Validator, ChainMoves(v) PROVE RowsFit'
  <2>1. UNCHANGED storeVars /\ lifecycle' = lifecycle
    BY <1>11 DEF ChainMoves
  <2>2. \A u \in Validator : chain'[u] = chain[u] \/ chain[u] \in {Unknown, FarFuture}
    BY <1>11 DEF ChainMoves, UserInv
  <2>3. \A r \in Row : \A x : FitsRow(chain, r, x) => FitsRow(chain', r, x)
    BY <2>2 DEF FitsRow
  <2>4. \A r \in Row : Copies(r)' = Copies(r)
    BY <2>1 DEF Copies, storeVars
  <2>5. Duty \subseteq Row /\ \A d \in Duty : FitsRow(chain', d, Absent)
    BY RecordsAssumption DEF FitsRow
  <2> QED BY <2>1, <2>3, <2>4, <2>5 DEF RowsFit
<1> QED
  BY <1>4, <1>5, <1>6, <1>7, <1>8, <1>9, <1>10, <1>11 DEF LifecycleStep, NewServerStep, RoutineStep

\* The validators are not touched by the duties.
LEMMA UserRowsFit ==
  ASSUME StoreInv, UserInv, RowsFit, UNCHANGED <<chain, lifecycle>>,
         \A r \in Row : \A x \in Copies(r)' : FitsRow(chain', r, x),
         \A d \in Duty : object'[d] = object[d] \/ \E o \in Outcomes[d] \cup {NoResult} :
                           object'[d] = DutyObject(Job[d], o)
  PROVE  RowsFit'
<1>1. \A d \in Duty : FitsRow(chain', d, object'[d])
  BY DEF RowsFit, FitsRow
<1> QED BY <1>1 DEF RowsFit

LEMMA RecordsRowsFit == ASSUME StoreInv, UserInv, RowsFit, RecordsNext PROVE RowsFit'
<1> DEFINE Rows == \A r \in Row : \A x \in Copies(r)' : FitsRow(chain', r, x)
<1>1. CASE LifecycleStep /\ object' = object
  BY <1>1, LifecycleRowsFit
<1>2. CASE DutiesExit
  BY <1>2, LifecycleRowsFit DEF DutiesExit
<1>3. ASSUME NEW P \in Plans, PlanStep(P) PROVE RowsFit'
  <2>1. P \subseteq Duty
    BY RecordsAssumption
  <2>2. CASE EnqueuePlan(P)
    <3>1. /\ UNCHANGED <<chain, lifecycle>> /\ UNCHANGED storeVars
          /\ \A d \in Duty : object'[d] = IF d \in P THEN DutyObject(Job[d], NoResult) ELSE object[d]
      BY <2>2 DEF EnqueuePlan, lifecycleVars, lifeVars
    <3>2. Rows
      BY <3>1, SameRowsFit
    <3> QED BY <3>1, <3>2, UserRowsFit
  <2>3. CASE SavePlan(P)
    <3>1. UNCHANGED <<chain, lifecycle>> /\ object' = object /\ Begin("handleNewEpoch", Objects(P))
      BY <2>3 DEF SavePlan, lifeVars
    <3>2. \A r \in Row : FitsRow(chain, r, Objects(P)[r])
      BY <2>1, ObjectsFit
    <3>3. Rows
      BY <3>1, <3>2, BegunRowsFit
    <3> QED BY <3>1, <3>3, UserRowsFit
  <2>4. CASE PlanSaved(P) \/ PlanFails(P)
    <3>1. UNCHANGED <<chain, lifecycle>> /\ object' = object
          /\ (CommitMem \/ WriteFails \/ UNCHANGED storeVars)
      BY <2>4 DEF PlanSaved, PlanFails, lifeVars
    <3>2. Rows
      BY <3>1, SameRowsFit
    <3> QED BY <3>1, <3>2, UserRowsFit
  <2> QED BY <1>3, <2>2, <2>3, <2>4 DEF PlanStep
<1>4. ASSUME NEW d \in Duty, ResultStep(d) PROVE RowsFit'
  <2>1. CASE Finish(d)
    <3>1. PICK o \in Outcomes[d] : /\ Complete(d, object[d], DutyObject(Job[d], o))
                                   /\ object' = [object EXCEPT ![d] = DutyObject(Job[d], o)]
      BY <2>1 DEF Finish
    <3> DEFINE w == DutyObject(Job[d], o)
    <3>2. d \in Row /\ object[d] \in Value /\ w \in Value
      BY <3>1, StoreAssumption, RecordsAssumption DEF Complete
    <3>3. FitsRow(chain, d, w)
      BY DEF FitsRow
    <3>4. UNCHANGED <<chain, lifecycle>>
      BY <2>1 DEF Finish, lifeVars
    <3>5. \A e \in Duty : object'[e] = object[e] \/ (e = d /\ object'[e] = w)
      BY <3>1 DEF UserInv
    <3> HIDE DEF w
    <3>6. \A r \in Row : \A x \in Copies(r)' : x \in Copies(r) \/ (r = d /\ x = w)
      BY <3>1, <3>2, CopiesTurned DEF w
    <3>7. Rows
      BY <3>3, <3>4, <3>6 DEF RowsFit
    <3> QED BY <3>4, <3>5, <3>7, UserRowsFit DEF w
  <2>2. CASE SaveResult(d)
    <3>1. UNCHANGED <<chain, lifecycle>> /\ object' = object /\ Begin(d, Objects({d}))
      BY <2>2 DEF SaveResult, lifeVars
    <3>2. \A r \in Row : FitsRow(chain, r, Objects({d})[r])
      BY ObjectsFit
    <3>3. Rows
      BY <3>1, <3>2, BegunRowsFit
    <3> QED BY <3>1, <3>3, UserRowsFit
  <2>3. CASE ResultSaved(d)
    <3>1. UNCHANGED <<chain, lifecycle>> /\ object' = object /\ CommitMem
      BY <2>3 DEF ResultSaved, lifeVars
    <3>2. Rows
      BY <3>1, SameRowsFit
    <3> QED BY <3>1, <3>2, UserRowsFit
  <2> QED BY <1>4, <2>1, <2>2, <2>3 DEF ResultStep
<1> QED BY <1>1, <1>2, <1>3, <1>4 DEF RecordsNext, RecordsStep

LEMMA RowsFitInit == SubsInit => RowsFit
BY DEF SubsInit, RecordsInit, LifecycleInit, StoreInit, Off, NoTxn, Nothing, RowsFit, Copies, FitsRow

LEMMA RowsFitStep == StoreInv /\ UserInv /\ RowsFit /\ [SubsNext]_allVars => RowsFit'
<1> SUFFICES ASSUME StoreInv, UserInv, RowsFit, [SubsNext]_allVars PROVE RowsFit'
  OBVIOUS
<1>1. CASE RecordsNext
  BY <1>1, RecordsRowsFit
<1>2. CASE UNCHANGED dutyVars
  BY <1>2 DEF dutyVars, lifecycleVars, storeVars, recordsVars, lifeVars, RowsFit, Copies
<1> QED
  BY <1>1, <1>2 DEF SubsNext, ServiceStep, List, Send, Woken, CloseService, allVars

-----------------------------------------------------------------------------
(* The queries                                                             *)

LEMMA KeysOfValidators ==
  ASSUME NEW v \in Validator, NEW e
  PROVE  /\ SchemaKeys(Bare) = {<<"pending", FALSE>>}
         /\ SchemaKeys(WithMetadata(ValidatorIndex[v], e)) =
              {<<"pending", TRUE>>, <<"index", ValidatorIndex[v]>>, <<"activationEpoch", e>>}
BY DEF SchemaKeys, ValidatorKeys, Bare, WithMetadata

LEMMA KeysOfDuties ==
  ASSUME NEW d \in Duty, NEW o
  PROVE  \A k \in SchemaKeys(DutyObject(Job[d], o)) :
           k[1] \in {"type", "block_proposer", "attest_proposer"}
BY DEF SchemaKeys, DutyKeys, SlashingKeys, DutyObject

\* An entry of an index is a key of the row it leads to.
LEMMA IndexSound ==
  ASSUME StoreInv, NEW k, NEW r \in Row, <<k, r>> \in index
  PROVE  mem[r] \in Value /\ k \in SchemaKeys(mem[r])
<1>1. mem[r] # Absent /\ k \in IndexOf[mem[r]]
  BY DEF StoreInv, IndexFits
<1>2. mem[r] \in Value
  BY <1>1, TxnTyped DEF Content
<1> QED BY <1>1, <1>2, LifecycleAssumption

LEMMA ValidatorRow ==
  ASSUME RowsFit, NEW v \in Validator, mem[v] # Absent
  PROVE  \/ mem[v] = Bare
         \/ \E e \in {chain[v], FarFuture} \ {Unknown} : mem[v] = WithMetadata(ValidatorIndex[v], e)
<1>1. FitsRow(chain, v, mem[v]) /\ v \notin Duty
  BY LifecycleAssumption, RecordsAssumption DEF RowsFit, Copies
<1> QED BY <1>1 DEF FitsRow

LEMMA DutyRow ==
  ASSUME RowsFit, NEW d \in Duty, mem[d] # Absent
  PROVE  \E o \in Outcomes[d] \cup {NoResult} : mem[d] = DutyObject(Job[d], o)
<1>1. FitsRow(chain, d, mem[d]) /\ d \notin Validator
  BY RecordsAssumption DEF RowsFit, Copies
<1> QED BY <1>1 DEF FitsRow

\* A row that is in the tables is of one of them.
LEMMA KnownRow == ASSUME RowsFit, NEW r \in Row, mem[r] # Absent PROVE r \in Validator \/ r \in Duty
BY DEF RowsFit, Copies, FitsRow

\* The keys of a validator, by its row.
LEMMA ValidatorRowKeys ==
  ASSUME RowsFit, NEW v \in Validator, mem[v] # Absent
  PROVE  /\ mem[v].known = FALSE => SchemaKeys(mem[v]) = {<<"pending", FALSE>>}
         /\ mem[v].known = TRUE =>
              /\ mem[v].activationEpoch \in {chain[v], FarFuture} \ {Unknown}
              /\ SchemaKeys(mem[v]) = {<<"pending", TRUE>>, <<"index", ValidatorIndex[v]>>,
                                       <<"activationEpoch", mem[v].activationEpoch>>}
         /\ mem[v].known = FALSE \/ mem[v].known = TRUE
         /\ \A k \in SchemaKeys(mem[v]) : k[1] \in {"pending", "index", "activationEpoch"}
<1> DEFINE Heads == \A k \in SchemaKeys(mem[v]) : k[1] \in {"pending", "index", "activationEpoch"}
<1>1. CASE mem[v] = Bare
  <2>1. mem[v].known = FALSE
    BY <1>1 DEF Bare
  <2>2. SchemaKeys(mem[v]) = {<<"pending", FALSE>>}
    BY <1>1, KeysOfValidators
  <2>3. Heads
    BY <2>2
  <2>4. mem[v].known # TRUE
    BY <2>1
  <2> QED BY <2>1, <2>2, <2>3, <2>4, Zenon
<1>2. ASSUME NEW e \in {chain[v], FarFuture} \ {Unknown}, mem[v] = WithMetadata(ValidatorIndex[v], e)
      PROVE  /\ mem[v].known = TRUE /\ mem[v].known # FALSE /\ mem[v].activationEpoch = e
             /\ Heads
             /\ SchemaKeys(mem[v]) = {<<"pending", TRUE>>, <<"index", ValidatorIndex[v]>>,
                                      <<"activationEpoch", e>>}
  <2>1. mem[v].known = TRUE /\ mem[v].activationEpoch = e
    BY <1>2 DEF WithMetadata
  <2>2. SchemaKeys(WithMetadata(ValidatorIndex[v], e)) =
          {<<"pending", TRUE>>, <<"index", ValidatorIndex[v]>>, <<"activationEpoch", e>>}
    BY KeysOfValidators
  <2>5. ASSUME NEW k \in SchemaKeys(mem[v]) PROVE k[1] \in {"pending", "index", "activationEpoch"}
    <3>1. \/ k = <<"pending", TRUE>> \/ k = <<"index", ValidatorIndex[v]>>
          \/ k = <<"activationEpoch", e>>
      BY <1>2, <2>2, <2>5
    <3>2. CASE k = <<"pending", TRUE>>
      <4>1. k[1] = "pending"
        BY <3>2
      <4> QED BY <4>1
    <3>3. CASE k = <<"index", ValidatorIndex[v]>>
      BY <3>3
    <3>4. CASE k = <<"activationEpoch", e>>
      BY <3>4
    <3> QED BY <3>1, <3>2, <3>3, <3>4
  <2>3. Heads
    BY <2>5
  <2>4. mem[v].known # FALSE
    BY <2>1
  <2> QED BY <1>2, <2>1, <2>2, <2>3, <2>4
<1>3. CASE \E e \in {chain[v], FarFuture} \ {Unknown} : mem[v] = WithMetadata(ValidatorIndex[v], e)
  BY <1>2, <1>3, Zenon
<1> QED BY <1>1, <1>3, ValidatorRow

\* Nobody changes the object of a validator once it is inserted, so that the
\* indexes have all its keys.
LEMMA IndexComplete ==
  ASSUME StoreInv, RowsFit, NEW v \in Validator, mem[v] # Absent, NEW k \in SchemaKeys(mem[v])
  PROVE  <<k, v>> \in index
<1>1. v \in Row
  BY LifecycleAssumption
<1>2. mem[v] \in Value
  BY <1>1, TxnTyped DEF StoreInv, Content
<1>3. PICK u \in Value : Older(u, mem[v]) /\ \A j \in IndexOf[u] : <<j, v>> \in index
  BY <1>1 DEF StoreInv, IndexFits
<1>4. CASE u = mem[v]
  BY <1>2, <1>3, <1>4, LifecycleAssumption
<1>5. CASE <<u, mem[v]>> \in InPlace
  <2>1. u.table = "duties"
    BY <1>2, <1>5, LifecycleAssumption
  <2>2. <<"type", u.kind>> \in SchemaKeys(u)
    BY <2>1 DEF SchemaKeys, DutyKeys
  <2>3. <<"type", u.kind>> \in SchemaKeys(mem[v])
    BY <1>2, <1>5, <2>2, StoreAssumption, LifecycleAssumption
  <2>4. \A j \in SchemaKeys(mem[v]) : j[1] \in {"pending", "index", "activationEpoch"}
    BY ValidatorRowKeys
  <2> QED BY <2>3, <2>4
<1> QED BY <1>3, <1>4, <1>5 DEF Older

\* The keys of the validators lead to validators.
LEMMA ValidatorEntry ==
  ASSUME StoreInv, RowsFit, NEW k, NEW r \in Row, <<k, r>> \in index,
         k[1] \in {"pending", "index", "activationEpoch"}
  PROVE  r \in Validator /\ mem[r] # Absent /\ k \in SchemaKeys(mem[r])
<1>1. mem[r] \in Value /\ k \in SchemaKeys(mem[r])
  BY IndexSound
<1>2. mem[r] # Absent
  BY <1>1, StoreAssumption
<1>3. r \notin Duty
  BY <1>1, <1>2, DutyRow, KeysOfDuties
<1> QED BY <1>1, <1>2, <1>3, KnownRow

LEMMA QueriesExactStep == StoreInv /\ UserInv /\ RowsFit => QueriesExact
<1> SUFFICES ASSUME StoreInv, UserInv, RowsFit PROVE QueriesExact
  OBVIOUS
<1>0. Validator \subseteq Row /\ FarFuture \in Nat /\ ActivationEpochs \subseteq Nat
  BY LifecycleAssumption
<1>1. ASSUME NEW v \in Validator, mem[v] # Absent
      PROVE  /\ ~Known(v) => mem[v].known = FALSE /\ SchemaKeys(mem[v]) = {<<"pending", FALSE>>}
             /\ Known(v) =>
                  /\ mem[v].activationEpoch \in {chain[v], FarFuture} \ {Unknown}
                  /\ SchemaKeys(mem[v]) = {<<"pending", TRUE>>, <<"index", ValidatorIndex[v]>>,
                                           <<"activationEpoch", mem[v].activationEpoch>>}
  BY <1>1, ValidatorRowKeys DEF Known
<1>2. \A v \in Validator : Known(v) => mem[v] # Absent
  BY DEF Known
<1>4. Pending = {v \in Validator : mem[v] # Absent /\ ~Known(v)}
  <2>1. ASSUME NEW r \in Row, <<<<"pending", FALSE>>, r>> \in index
        PROVE  r \in Validator /\ mem[r] # Absent /\ ~Known(r)
    <3>1. r \in Validator /\ mem[r] # Absent /\ <<"pending", FALSE>> \in SchemaKeys(mem[r])
      BY <2>1, ValidatorEntry
    <3>2. <<"pending", FALSE>> # <<"pending", TRUE>>
      OBVIOUS
    <3>3. <<"pending", FALSE>> \notin {<<"pending", TRUE>>, <<"index", ValidatorIndex[r]>>,
                                       <<"activationEpoch", mem[r].activationEpoch>>}
      BY <3>2
    <3> QED BY <1>1, <3>1, <3>3, Zenon
  <2>2. ASSUME NEW v \in Validator, mem[v] # Absent, ~Known(v)
        PROVE  <<<<"pending", FALSE>>, v>> \in index
    <3>1. <<"pending", FALSE>> \in SchemaKeys(mem[v])
      BY <1>1, <2>2
    <3> QED BY <2>2, <3>1, IndexComplete
  <2> QED BY <1>0, <2>1, <2>2 DEF Pending, Found
<1>5. ASSUME NEW a \in Nat, NEW r \in Row, <<<<"activationEpoch", a>>, r>> \in index
      PROVE  r \in Validator /\ Known(r) /\ mem[r].activationEpoch = a
  <2>1. r \in Validator /\ mem[r] # Absent /\ <<"activationEpoch", a>> \in SchemaKeys(mem[r])
    BY <1>5, ValidatorEntry
  <2>2. <<"activationEpoch", a>> \notin {<<"pending", FALSE>>}
    OBVIOUS
  <2>3. Known(r)
    BY <1>1, <2>1, <2>2, Zenon
  <2>4. <<"activationEpoch", a>> \in {<<"pending", TRUE>>, <<"index", ValidatorIndex[r]>>,
                                      <<"activationEpoch", mem[r].activationEpoch>>}
    BY <1>1, <2>1, <2>3, Zenon
  <2>5. a = mem[r].activationEpoch
    BY <2>4
  <2> QED BY <2>1, <2>3, <2>5
<1>6. ASSUME NEW v \in Validator, Known(v)
      PROVE  /\ mem[v].activationEpoch \in ActivationEpochs \cup {FarFuture}
             /\ mem[v].activationEpoch \in {chain[v], FarFuture}
             /\ <<<<"activationEpoch", mem[v].activationEpoch>>, v>> \in index
             /\ <<<<"index", ValidatorIndex[v]>>, v>> \in index
  <2>1. mem[v] # Absent
    BY <1>2, <1>6
  <2>2. mem[v].activationEpoch \in {chain[v], FarFuture} \ {Unknown}
    BY <1>1, <1>6, <2>1
  <2>3. /\ <<"activationEpoch", mem[v].activationEpoch>> \in SchemaKeys(mem[v])
        /\ <<"index", ValidatorIndex[v]>> \in SchemaKeys(mem[v])
    BY <1>1, <1>6, <2>1
  <2>4. /\ <<<<"activationEpoch", mem[v].activationEpoch>>, v>> \in index
        /\ <<<<"index", ValidatorIndex[v]>>, v>> \in index
    BY <2>1, <2>3, IndexComplete
  <2> QED BY <2>2, <2>4 DEF UserInv
<1>7. ASSUME NEW e \in ActivationEpochs
      PROVE  ActiveAt(e) = {v \in Validator : Known(v) /\ mem[v].activationEpoch <= e}
  <2>1. e \in Nat
    BY <1>0
  <2>2. ASSUME NEW r \in Row, NEW a \in Nat, a <= e, r \in Found(<<"activationEpoch", a>>)
        PROVE  r \in {v \in Validator : Known(v) /\ mem[v].activationEpoch <= e}
    BY <1>5, <2>2 DEF Found
  <2>3. ASSUME NEW v \in Validator, Known(v)
        PROVE  v \in Found(<<"activationEpoch", mem[v].activationEpoch>>)
    BY <1>0, <1>6, <2>3 DEF Found
  <2>4. CASE e = 0
    <3>1. ActiveAt(e) = Found(<<"activationEpoch", 0>>)
      BY <2>4 DEF ActiveAt
    <3>2. ASSUME NEW r \in ActiveAt(e)
          PROVE r \in {v \in Validator : Known(v) /\ mem[v].activationEpoch <= e}
      <4>1. r \in Row /\ 0 \in Nat /\ 0 <= e /\ r \in Found(<<"activationEpoch", 0>>)
        BY <2>4, <3>1, <3>2 DEF Found
      <4> QED BY <2>2, <4>1
    <3>3. ASSUME NEW v \in Validator, Known(v), mem[v].activationEpoch <= e PROVE v \in ActiveAt(e)
      <4>0. mem[v].activationEpoch \in ActivationEpochs \cup {FarFuture}
        BY <1>6, <3>3
      <4>3. mem[v].activationEpoch \in Nat
        BY <1>0, <4>0
      <4>1. mem[v].activationEpoch = 0
        BY <2>4, <3>3, <4>3
      <4> QED BY <2>3, <3>1, <3>3, <4>1
    <3> QED BY <3>2, <3>3
  <2>5. CASE e # 0
    <3>1. ActiveAt(e) = UNION {Found(<<"activationEpoch", f>>) :
                                 f \in {g \in ActivationEpochs \cup {FarFuture} : g < e + 1}}
      BY <2>5 DEF ActiveAt
    <3>2. ASSUME NEW r \in ActiveAt(e)
          PROVE r \in {v \in Validator : Known(v) /\ mem[v].activationEpoch <= e}
      <4>1. PICK f \in ActivationEpochs \cup {FarFuture} : f < e + 1 /\ r \in Found(<<"activationEpoch", f>>)
        BY <3>1, <3>2
      <4>2. r \in Row /\ f \in Nat /\ f <= e
        BY <1>0, <2>1, <4>1 DEF Found
      <4> QED BY <2>2, <4>1, <4>2
    <3>3. ASSUME NEW v \in Validator, Known(v), mem[v].activationEpoch <= e PROVE v \in ActiveAt(e)
      <4>0. mem[v].activationEpoch \in ActivationEpochs \cup {FarFuture}
        BY <1>6, <3>3
      <4>3. mem[v].activationEpoch \in Nat
        BY <1>0, <4>0
      <4>1. mem[v].activationEpoch < e + 1
        BY <2>1, <3>3, <4>3
      <4>2. v \in Found(<<"activationEpoch", mem[v].activationEpoch>>)
        BY <2>3, <3>3
      <4> QED BY <3>1, <4>0, <4>1, <4>2
    <3> QED BY <3>2, <3>3
  <2> QED BY <2>4, <2>5
<1>8. ASSUME NEW v \in Validator, Known(v) PROVE ByIndex(ValidatorIndex[v]) = {v}
  <2>1. ASSUME NEW r \in Row, <<<<"index", ValidatorIndex[v]>>, r>> \in index PROVE r = v
    <3>1. r \in Validator /\ mem[r] # Absent /\ <<"index", ValidatorIndex[v]>> \in SchemaKeys(mem[r])
      BY <2>1, ValidatorEntry
    <3>2. <<"index", ValidatorIndex[v]>> = <<"index", ValidatorIndex[r]>>
      <4>1. <<"index", ValidatorIndex[v]>> \notin {<<"pending", FALSE>>}
        OBVIOUS
      <4>2. <<"index", ValidatorIndex[v]>> \in {<<"pending", TRUE>>, <<"index", ValidatorIndex[r]>>,
                                                <<"activationEpoch", mem[r].activationEpoch>>}
        BY <1>1, <3>1, <4>1, Zenon
      <4> QED BY <4>2
    <3> QED BY <3>1, <3>2, LifecycleAssumption
  <2> QED BY <1>0, <1>6, <1>8, <2>1 DEF ByIndex, Found
<1> QED BY <1>4, <1>6, <1>7, <1>8 DEF QueriesExact

LEMMA RowsInvariant == SubsSpec => [](StoreInv /\ UserInv /\ RowsFit)
<1>1. SubsInit => StoreInit
  BY DEF SubsInit, RecordsInit, LifecycleInit
<1> QED
  BY <1>1, InitStoreInv, UserInvInit, RowsFitInit, StoreInvStep, UserStep, RowsFitStep, PTL DEF SubsSpec

\* Whatever the routines do meanwhile, each query of the state answers for the
\* rows as they are, for any validators and epochs.
THEOREM QueriesAnswer == SubsSpec => []QueriesExact
<1> QED BY RowsInvariant, QueriesExactStep, PTL

-----------------------------------------------------------------------------
(* What is recorded stays                                                  *)

HasResult(x) == x # Absent /\ x.result # NoResult

\* In these rows d has its result, and these indexes lead to it by all its keys.
Holds(ix, rows, d) == HasResult(rows[d]) /\ \A k \in IndexOf[rows[d]] : <<k, d>> \in ix

\* d is recorded, or its handler is just recording it.
Settled(d) == d \in recorded \/ txn.caller = d

\* A write never takes the result from a duty that is settled.
ResultsOnly ==
  \A d \in Duty : Settled(d) =>
    \A x \in {txn.todo[d], txn.memTxn[d], txn.dbTxn[d]} : x = Absent \/ HasResult(x)

\* The write of a handler contains its duty.
OwnDuty == \A d \in Duty : txn.caller = d => txn.todo[d] # Absent \/ txn.memTxn[d] # Absent

OnDisk == \A d \in recorded : HasResult(disk[d])

InMemory == Serving => \A d \in recorded : Holds(index, mem, d)

\* Of the rows as they will be when the write commits.
InWrite ==
  txn.pc # "none" =>
    \A d \in Duty :
      d \in recorded \/ (txn.caller = d /\ txn.memTxn[d] # Absent) =>
        Holds(txn.index, Overlay(mem, txn.memTxn), d)

RecordsKept == recorded \subseteq Duty /\ ResultsOnly /\ OwnDuty /\ OnDisk /\ InMemory /\ InWrite

LEMMA DutiesAreRows == Duty \subseteq Row /\ NoCaller \notin Duty
BY RecordsAssumption, StoreAssumption

LEMMA NoTxnKept == ASSUME txn' = NoTxn, recorded' = recorded PROVE (ResultsOnly /\ OwnDuty /\ InWrite)'
BY DutiesAreRows DEF NoTxn, Nothing, ResultsOnly, OwnDuty, InWrite

LEMMA OpenKept ==
  ASSUME StoreInv, RecordsKept, recorded' = recorded,
         OpenDB \/ ReIndex \/ CloseDB \/ ProcessEnds \/ WriteFails
  PROVE  RecordsKept'
<1>1. CASE OpenDB
  <2>1. txn = NoTxn /\ txn' = NoTxn /\ disk' = disk /\ ~Serving'
    BY <1>1 DEF OpenDB, StoreInv, NothingInMemory, Serving
  <2> QED BY <2>1, NoTxnKept DEF RecordsKept, OnDisk, InMemory
<1>2. CASE ReIndex
  <2>1. /\ txn' = NoTxn /\ disk' = disk /\ mem' = disk
        /\ index' = UNION {Entries(r, disk[r]) : r \in Row}
    BY <1>2 DEF ReIndex, StoreInv, NothingInMemory, Serving
  <2>2. ASSUME NEW d \in recorded PROVE Holds(index', mem', d)
    <3>1. d \in Row /\ HasResult(disk[d])
      BY DutiesAreRows DEF RecordsKept, OnDisk
    <3>2. \A k \in IndexOf[disk[d]] : <<k, d>> \in Entries(d, disk[d])
      BY <3>1 DEF Entries, HasResult
    <3>3. \A k \in IndexOf[disk[d]] : <<k, d>> \in index'
      BY <2>1, <3>1, <3>2
    <3> QED BY <2>1, <3>1, <3>3 DEF Holds
  <2> QED BY <2>1, <2>2, NoTxnKept DEF RecordsKept, OnDisk, InMemory, Holds
<1>3. CASE CloseDB
  <2>1. disk' = disk /\ mem' = mem /\ index' = index /\ txn' = txn /\ Serving
    BY <1>3 DEF CloseDB, Serving
  <2> QED
    BY <2>1 DEF RecordsKept, OnDisk, InMemory, Holds, ResultsOnly, Settled, OwnDuty, InWrite, Overlay
<1>4. CASE ProcessEnds
  <2>1. txn' = NoTxn /\ disk' = disk /\ ~Serving'
    BY <1>4 DEF ProcessEnds, Serving
  <2> QED BY <2>1, NoTxnKept DEF RecordsKept, OnDisk, InMemory
<1>5. CASE WriteFails
  <2>1. txn' = NoTxn /\ disk' = disk /\ mem' = mem /\ index' = index /\ db' = db
    BY <1>5 DEF WriteFails
  <2> QED BY <2>1, NoTxnKept DEF RecordsKept, OnDisk, InMemory, Holds, Serving
<1> QED BY <1>1, <1>2, <1>3, <1>4, <1>5

LEMMA BeginKept ==
  ASSUME StoreInv, RecordsKept, recorded' = recorded, NEW c, NEW batch, Begin(c, batch),
         \A d \in Duty : d \in recorded \/ d = c => batch[d] = Absent \/ HasResult(batch[d]),
         c \in Duty => batch[c] # Absent
  PROVE  RecordsKept'
<1>1. /\ txn'.pc = "writing" /\ txn'.caller = c /\ txn'.todo = batch
      /\ txn'.memTxn = Nothing /\ txn'.dbTxn = Nothing /\ txn'.index = index
      /\ db' = db /\ disk' = disk /\ mem' = mem /\ index' = index /\ Serving
  BY DEF Begin, NoTxn, Serving
<1>2. ResultsOnly' /\ OwnDuty'
  BY <1>1, DutiesAreRows DEF ResultsOnly, OwnDuty, Settled, Nothing
<1>3. OnDisk' /\ InMemory'
  BY <1>1 DEF RecordsKept, OnDisk, InMemory, Holds, Serving
<1>4. InWrite'
  <2>1. \A d \in Duty : Overlay(mem, Nothing)[d] = mem[d] /\ Nothing[d] = Absent
    BY DutiesAreRows DEF Overlay, Nothing
  <2> QED BY <1>1, <2>1 DEF RecordsKept, InMemory, InWrite, Holds
<1> QED BY <1>2, <1>3, <1>4 DEF RecordsKept

LEMMA InsertKept ==
  ASSUME StoreInv, RecordsKept, recorded' = recorded, NEW r \in Row, InsertRow(r)
  PROVE  RecordsKept'
<1>1. /\ txn.pc = "writing" /\ txn'.pc = "writing" /\ txn.todo[r] \in Value
      /\ txn'.caller = txn.caller /\ txn'.dbTxn = txn.dbTxn
      /\ txn'.todo = [txn.todo EXCEPT ![r] = Absent]
      /\ txn'.memTxn = [txn.memTxn EXCEPT ![r] = txn.todo[r]]
      /\ txn'.index = (txn.index \ Entries(r, mem[r])) \cup Entries(r, txn.todo[r])
  BY InsertRowEffect
<1>2. db' = db /\ disk' = disk /\ mem' = mem /\ index' = index
  BY DEF InsertRow
<1>3. \A s \in Row : /\ txn'.todo[s] = IF s = r THEN Absent ELSE txn.todo[s]
                     /\ txn'.memTxn[s] = IF s = r THEN txn.todo[r] ELSE txn.memTxn[s]
  BY <1>1, TxnTyped DEF Content
<1>4. OnDisk' /\ InMemory'
  BY <1>2 DEF RecordsKept, OnDisk, InMemory, Holds, Serving
<1>5. ResultsOnly'
  BY <1>1, <1>3, DutiesAreRows DEF RecordsKept, ResultsOnly, Settled
<1>6. OwnDuty'
  BY <1>1, <1>3, DutiesAreRows, StoreAssumption DEF RecordsKept, OwnDuty
<1>7. ASSUME NEW d \in Duty, d \in recorded \/ (txn.caller = d /\ txn'.memTxn[d] # Absent)
      PROVE  Holds(txn'.index, Overlay(mem, txn'.memTxn), d)
  <2>1. d \in Row /\ Overlay(mem, txn'.memTxn)[d] = IF txn'.memTxn[d] = Absent THEN mem[d] ELSE txn'.memTxn[d]
    BY DutiesAreRows DEF Overlay
  <2>2. Overlay(mem, txn.memTxn)[d] = IF txn.memTxn[d] = Absent THEN mem[d] ELSE txn.memTxn[d]
    BY <2>1 DEF Overlay
  <2>3. CASE d = r
    <3>1. Overlay(mem, txn'.memTxn)[d] = txn.todo[d]
      BY <1>1, <1>3, <2>1, <2>3, StoreAssumption
    <3>2. HasResult(txn.todo[d])
      BY <1>1, <1>7, <2>3, StoreAssumption DEF RecordsKept, ResultsOnly, Settled
    <3>3. \A k \in IndexOf[txn.todo[d]] : <<k, d>> \in Entries(r, txn.todo[r])
      BY <2>3, <3>2 DEF Entries, HasResult
    <3> QED BY <1>1, <3>1, <3>2, <3>3 DEF Holds
  <2>4. CASE d # r
    <3>1. Overlay(mem, txn'.memTxn)[d] = Overlay(mem, txn.memTxn)[d]
      BY <1>3, <2>1, <2>2, <2>4
    <3>2. Holds(txn.index, Overlay(mem, txn.memTxn), d)
      BY <1>1, <1>3, <1>7, <2>1, <2>4 DEF RecordsKept, InWrite
    <3>3. \A k : <<k, d>> \notin Entries(r, mem[r])
      BY <2>4 DEF Entries
    <3> QED BY <1>1, <3>1, <3>2, <3>3 DEF Holds
  <2> QED BY <2>3, <2>4
<1>8. InWrite'
  BY <1>1, <1>2, <1>7 DEF InWrite
<1> QED BY <1>4, <1>5, <1>6, <1>8 DEF RecordsKept

LEMMA PutKept ==
  ASSUME StoreInv, RecordsKept, recorded' = recorded, NEW r \in Row, PutRow(r)
  PROVE  RecordsKept'
<1>1. /\ txn'.pc = txn.pc /\ txn'.caller = txn.caller /\ txn'.todo = txn.todo
      /\ txn'.memTxn = txn.memTxn /\ txn'.index = txn.index
      /\ txn'.dbTxn = [txn.dbTxn EXCEPT ![r] = txn.memTxn[r]]
      /\ db' = db /\ disk' = disk /\ mem' = mem /\ index' = index
  BY TxnTyped DEF PutRow, Transaction
<1>2. \A s \in Row : txn'.dbTxn[s] = IF s = r THEN txn.memTxn[r] ELSE txn.dbTxn[s]
  BY <1>1, TxnTyped DEF Content
<1>3. ResultsOnly'
  BY <1>1, <1>2, DutiesAreRows DEF RecordsKept, ResultsOnly, Settled
<1> QED
  BY <1>1, <1>3 DEF RecordsKept, OwnDuty, OnDisk, InMemory, InWrite, Holds, Serving, Overlay

LEMMA CommitDBKept ==
  ASSUME StoreInv, RecordsKept, recorded' = recorded, CommitDB PROVE RecordsKept'
<1>1. /\ txn.pc = "writing" /\ txn'.caller = txn.caller /\ txn'.todo = txn.todo
      /\ txn'.memTxn = txn.memTxn /\ txn'.index = txn.index /\ txn'.dbTxn = txn.dbTxn
      /\ db' = db /\ mem' = mem /\ index' = index /\ disk' = Overlay(disk, txn.dbTxn)
  BY TxnTyped DEF CommitDB, Transaction
<1>2. OnDisk'
  BY <1>1, DutiesAreRows DEF Overlay, RecordsKept, OnDisk, ResultsOnly, Settled
<1> QED
  BY <1>1, <1>2 DEF RecordsKept, ResultsOnly, Settled, OwnDuty, InMemory, InWrite, Holds, Serving, Overlay

\* Memory takes over what the write holds; the duty of the caller may be recorded
\* from here on.
LEMMA CommitMemKept ==
  ASSUME StoreInv, RecordsKept, CommitMem,
         recorded' = recorded \/ (txn.caller \in Duty /\ recorded' = recorded \cup {txn.caller})
  PROVE  RecordsKept'
<1>1. /\ txn.pc = "committed" /\ txn' = NoTxn /\ db' = db /\ disk' = disk
      /\ mem' = Overlay(mem, txn.memTxn) /\ index' = txn.index
  BY DEF CommitMem
<1>2. recorded' \subseteq Duty /\ \A d \in recorded' : d \in recorded \/ (d \in Duty /\ txn.caller = d)
  BY DEF RecordsKept
<1>3. (ResultsOnly /\ OwnDuty /\ InWrite)'
  <2>1. \A d \in Duty : Nothing[d] = Absent
    BY DutiesAreRows DEF Nothing
  <2> QED BY <1>1, <2>1, DutiesAreRows DEF NoTxn, ResultsOnly, OwnDuty, InWrite
<1>4. ASSUME NEW d \in Duty, txn.caller = d
      PROVE  txn.memTxn[d] # Absent /\ HasResult(disk[d])
  <2>1. /\ d \in Row /\ txn.todo[d] = Absent /\ (txn.memTxn[d] # Absent => txn.dbTxn[d] # Absent)
        /\ (txn.dbTxn[d] # Absent => disk[d] = txn.dbTxn[d])
    BY <1>1, DutiesAreRows DEF StoreInv, TxnFits, Written, AllPut, Nothing, InWindow
  <2> QED BY <1>4, <2>1 DEF RecordsKept, OwnDuty, ResultsOnly, Settled
<1>5. OnDisk'
  BY <1>1, <1>2, <1>4 DEF RecordsKept, OnDisk
<1>6. ASSUME NEW d \in recorded' PROVE Holds(index', mem', d)
  BY <1>1, <1>2, <1>4 DEF RecordsKept, InWrite
<1> QED BY <1>2, <1>3, <1>5, <1>6 DEF RecordsKept, InMemory

LEMMA CompleteKept ==
  ASSUME StoreInv, RecordsKept, recorded' = recorded, NEW e \in Duty, ~Settled(e),
         NEW v \in Value, NEW w \in Value, Complete(e, v, w)
  PROVE  RecordsKept'
<1>0. e \in Row
  BY DutiesAreRows
<1>1. /\ txn'.pc = txn.pc /\ txn'.caller = txn.caller
      /\ txn'.dbTxn = txn.dbTxn /\ txn'.index = txn.index
      /\ txn'.todo = [txn.todo EXCEPT ![e] = Turned(@, v, w)]
      /\ txn'.memTxn = [txn.memTxn EXCEPT ![e] = Turned(@, v, w)]
  BY <1>0, CompleteEffect
<1>2. /\ db' = db /\ disk' = disk /\ index' = index
      /\ mem' = [mem EXCEPT ![e] = Turned(@, v, w)]
  BY DEF Complete
<1>3. \A s \in Row \ {e} : /\ txn'.todo[s] = txn.todo[s] /\ txn'.memTxn[s] = txn.memTxn[s]
                           /\ mem'[s] = mem[s]
  BY <1>1, <1>2, TxnTyped DEF Content
<1>4. \A d \in Duty : Settled(d)' <=> Settled(d)
  BY <1>1 DEF Settled
<1>5. ResultsOnly' /\ OwnDuty' /\ OnDisk'
  BY <1>1, <1>2, <1>3, <1>4, DutiesAreRows DEF RecordsKept, ResultsOnly, OwnDuty, OnDisk, Settled
<1>6. InMemory'
  BY <1>2, <1>3, DutiesAreRows DEF RecordsKept, InMemory, Serving, Holds, Settled
<1>7. ASSUME NEW d \in Duty, d \in recorded \/ (txn.caller = d /\ txn'.memTxn[d] # Absent)
      PROVE  /\ Overlay(mem', txn'.memTxn)[d] = Overlay(mem, txn.memTxn)[d]
             /\ d \in recorded \/ (txn.caller = d /\ txn.memTxn[d] # Absent)
  <2>1. d # e /\ d \in Row
    BY <1>7, DutiesAreRows DEF Settled
  <2> QED BY <1>3, <1>7, <2>1 DEF Overlay
<1>8. InWrite'
  BY <1>1, <1>7 DEF RecordsKept, InWrite, Holds
<1> QED BY <1>5, <1>6, <1>8 DEF RecordsKept

\* The duties of a plan that is not in the queue yet are fresh; a handler that has
\* returned has left its result in its object; and the object of a duty that is
\* settled changes no more.
HandlersFit ==
  /\ plan \in [Plans -> {"none", "enqueued", "saving", "saved", "failed", "lost"}]
  /\ handler \in [Duty -> {"none", "marked", "saving", "done"}]
  /\ \A P \in Plans : plan[P] = "none" => \A d \in P : object[d] = Absent /\ d \notin recorded
  /\ \A d \in Duty : handler[d] # "none" => HasResult(object[d])
  /\ \A d \in Duty : Settled(d) => object[d] = Absent \/ handler[d] # "none"
  /\ \A d \in Duty : txn.caller = d => handler[d] # "none"
  /\ server = "running" => Serving

\* Steps that are not of the handlers leave them alone.
LEMMA HandlersSame ==
  ASSUME HandlersFit, UNCHANGED recordsVars,
         \A d \in Duty : txn'.caller = d => txn.caller = d,
         server' = "running" => Serving'
  PROVE  HandlersFit'
BY DEF HandlersFit, recordsVars, Settled

LEMMA OtherCaller ==
  ASSUME NEW c \in {"NewServer", "validatorLifecycle", "handleNewEpoch", NoCaller}
  PROVE  c \notin Duty
BY RecordsAssumption, DutiesAreRows

LEMMA LifecycleKept ==
  ASSUME StoreInv, UserInv, RowsFit, RecordsKept, HandlersFit, LifecycleStep, UNCHANGED recordsVars
  PROVE  RecordsKept' /\ HandlersFit'
<1>0. recorded' = recorded
  BY DEF recordsVars
<1>1. txn \in Transaction /\ (txn.pc # "none" => Serving)
  BY TxnTyped DEF StoreInv, TxnFits
<1>2. CASE Boot \/ LoadState \/ StopState \/ KeysFail
  <2>1. OpenDB \/ ReIndex \/ CloseDB \/ WriteFails
    BY <1>2 DEF Boot, LoadState, StopState, KeysFail
  <2>2. txn' = txn \/ txn' = NoTxn
    BY <2>1 DEF OpenDB, ReIndex, CloseDB, WriteFails
  <2>3. \A d \in Duty : txn'.caller = d => txn.caller = d
    BY <2>2, DutiesAreRows DEF NoTxn
  <2>4. server' = "running" => Serving'
    BY <1>2 DEF Boot, LoadState, StopState, KeysFail, lifeVars, OpenDB, ReIndex, CloseDB,
                HandlersFit, Serving
  <2> QED BY <1>0, <2>1, <2>3, <2>4, OpenKept, HandlersSame
<1>3. CASE WriteStep
  <2>1. \/ CommitDB
        \/ \E r \in Row : InsertRow(r) \/ PutRow(r)
    BY <1>3 DEF WriteStep
  <2>2. db' = db /\ server' = server /\ txn'.caller = txn.caller
    BY <1>1, <1>3 DEF WriteStep, lifeVars, CommitDB, InsertRow, PutRow, Transaction
  <2>3. HandlersFit'
    BY <2>2, HandlersSame DEF HandlersFit, Serving
  <2> QED BY <1>0, <2>1, <2>3, CommitDBKept, InsertKept, PutKept
<1>4. CASE WriteKeys
  <2> DEFINE batch == [r \in Row |-> IF r \in Validator THEN InitialRow(r) ELSE Absent]
  <2>1. Begin("NewServer", batch) /\ server' = "writing"
    BY <1>4 DEF WriteKeys
  <2>2. \A d \in Duty : batch[d] = Absent
    BY DutiesAreRows, RecordsAssumption
  <2>3. "NewServer" \notin Duty
    BY OtherCaller
  <2>4. txn'.caller = "NewServer"
    BY <2>1 DEF Begin, NoTxn
  <2> HIDE DEF batch
  <2>5. RecordsKept'
    BY <1>0, <2>1, <2>2, <2>3, BeginKept
  <2>6. HandlersFit'
    BY <2>1, <2>3, <2>4, HandlersSame
  <2> QED BY <2>5, <2>6
<1>5. CASE Register
  <2>1. Begin("validatorLifecycle", lifecycle.updated) /\ server' = server
    BY <1>5 DEF Register
  <2>2. \A d \in Duty : lifecycle.updated[d] = Absent
    BY DutiesAreRows, RecordsAssumption DEF RowsFit
  <2>3. "validatorLifecycle" \notin Duty
    BY OtherCaller
  <2>4. txn'.caller = "validatorLifecycle" /\ db' = db
    BY <2>1 DEF Begin, NoTxn
  <2>5. RecordsKept'
    BY <1>0, <2>1, <2>2, <2>3, BeginKept
  <2>6. HandlersFit'
    BY <2>1, <2>3, <2>4, HandlersSame DEF HandlersFit, Serving
  <2> QED BY <2>5, <2>6
<1>6. CASE KeysWritten \/ Registered
  <2>1. CommitMem
    BY <1>6 DEF KeysWritten, Registered
  <2>2. txn' = NoTxn /\ Serving /\ db' = db
    BY <1>1, <2>1 DEF CommitMem
  <2>3. \A d \in Duty : txn'.caller = d => txn.caller = d
    BY <2>2, DutiesAreRows DEF NoTxn
  <2>4. HandlersFit'
    BY <2>2, <2>3, HandlersSame DEF Serving
  <2> QED BY <1>0, <2>1, <2>4, CommitMemKept
<1>7. CASE UNCHANGED storeVars /\ server' = server
  <2>1. HandlersFit'
    BY <1>7, HandlersSame DEF HandlersFit, storeVars, Serving
  <2>2. RecordsKept'
    BY <1>0, <1>7 DEF RecordsKept, storeVars, ResultsOnly, Settled, OwnDuty, OnDisk, InMemory,
                      InWrite, Holds, Serving, Overlay
  <2> QED BY <2>1, <2>2
<1>8. CASE RegisterFails
  <2>1. server' = server /\ (UNCHANGED storeVars \/ WriteFails)
    BY <1>8 DEF RegisterFails
  <2>2. CASE WriteFails
    <3>1. txn' = NoTxn /\ db' = db
      BY <2>2 DEF WriteFails
    <3>2. \A d \in Duty : txn'.caller = d => txn.caller = d
      BY <3>1, DutiesAreRows DEF NoTxn
    <3>3. HandlersFit'
      BY <2>1, <3>1, <3>2, HandlersSame DEF HandlersFit, Serving
    <3> QED BY <1>0, <2>2, <3>3, OpenKept
  <2> QED BY <1>7, <2>1, <2>2
<1>9. CASE StopSignal \/ ReadPending \/ NextRound \/ LifecycleStops
           \/ \E v \in Validator : QueryOk(v) \/ QueryFails(v) \/ ChainMoves(v)
  BY <1>7, <1>9 DEF StopSignal, ReadPending, NextRound, LifecycleStops, QueryOk, QueryFails, ChainMoves
<1> QED
  BY <1>2, <1>3, <1>4, <1>5, <1>6, <1>8, <1>9 DEF LifecycleStep, NewServerStep, RoutineStep

LEMMA PlanKept ==
  ASSUME StoreInv, UserInv, RecordsKept, HandlersFit, NEW P \in Plans, PlanStep(P)
  PROVE  RecordsKept' /\ HandlersFit'
<1>0. P \subseteq Duty /\ \A Q \in Plans : Q # P => Q \cap P = {}
  BY RecordsAssumption
<1>1. CASE EnqueuePlan(P)
  <2>1. /\ plan[P] = "none" /\ plan' = [plan EXCEPT ![P] = "enqueued"]
        /\ \A d \in Duty : object'[d] = IF d \in P THEN DutyObject(Job[d], NoResult) ELSE object[d]
        /\ UNCHANGED <<storeVars, server, handler, recorded>>
    BY <1>1 DEF EnqueuePlan, lifecycleVars, lifeVars
  <2>2. \A d \in P : handler[d] = "none" /\ ~Settled(d)
    BY <1>0, <2>1 DEF HandlersFit, HasResult, Settled
  <2>3. RecordsKept'
    BY <2>1 DEF RecordsKept, storeVars, ResultsOnly, Settled, OwnDuty, OnDisk, InMemory,
                InWrite, Holds, Serving, Overlay
  <2>4. \A Q \in Plans : plan'[Q] = "none" => Q # P /\ plan[Q] = "none"
    BY <2>1 DEF HandlersFit
  <2>5. \A Q \in Plans : plan'[Q] = "none" => \A d \in Q : object'[d] = Absent /\ d \notin recorded'
    <3>1. \A Q \in Plans : Q \subseteq Duty
      BY RecordsAssumption
    <3> QED BY <1>0, <2>1, <2>4, <3>1 DEF HandlersFit
  <2>6. plan' \in [Plans -> {"none", "enqueued", "saving", "saved", "failed", "lost"}]
    BY <2>1 DEF HandlersFit
  <2>7. /\ \A d \in Duty : handler'[d] # "none" => HasResult(object'[d])
        /\ \A d \in Duty : Settled(d)' => object'[d] = Absent \/ handler'[d] # "none"
    BY <2>1, <2>2 DEF HandlersFit, Settled, storeVars
  <2> QED BY <2>1, <2>3, <2>5, <2>6, <2>7 DEF HandlersFit, storeVars, Serving
<1>2. CASE SavePlan(P) \/ PlanSaved(P) \/ PlanFails(P)
  <2>1. /\ plan[P] # "none" /\ object' = object /\ handler' = handler /\ recorded' = recorded
        /\ server' = server
        /\ \E p \in {"saving", "saved", "failed"} : plan' = [plan EXCEPT ![P] = p]
    BY <1>2 DEF SavePlan, PlanSaved, PlanFails, lifeVars
  <2>2. /\ plan' \in [Plans -> {"none", "enqueued", "saving", "saved", "failed", "lost"}]
        /\ \A Q \in Plans : plan'[Q] = "none" => plan[Q] = "none"
    BY <2>1 DEF HandlersFit
  <2>3. (\A d \in Duty : txn'.caller = d => txn.caller = d) /\ db' = db => HandlersFit'
    BY <2>1, <2>2 DEF HandlersFit, Settled, Serving
  <2>4. CASE SavePlan(P)
    <3>1. Begin("handleNewEpoch", Objects(P)) /\ "handleNewEpoch" \notin Duty
      BY <2>4, OtherCaller DEF SavePlan
    <3>2. txn'.caller = "handleNewEpoch" /\ db' = db
      BY <3>1 DEF Begin, NoTxn
    <3>3. \A d \in Duty : d \in recorded => Objects(P)[d] = Absent \/ HasResult(Objects(P)[d])
      BY DutiesAreRows DEF Objects, HandlersFit, Settled
    <3>4. RecordsKept'
      BY <2>1, <3>1, <3>3, BeginKept
    <3> QED BY <2>3, <3>1, <3>2, <3>4
  <2>5. CASE PlanSaved(P)
    <3>1. CommitMem
      BY <2>5 DEF PlanSaved
    <3>2. txn' = NoTxn /\ db' = db
      BY <3>1 DEF CommitMem
    <3> QED BY <2>1, <2>3, <3>1, <3>2, CommitMemKept, DutiesAreRows DEF NoTxn
  <2>6. CASE PlanFails(P)
    <3>1. UNCHANGED storeVars \/ WriteFails
      BY <2>6 DEF PlanFails
    <3>2. CASE WriteFails
      <4>1. txn' = NoTxn /\ db' = db
        BY <3>2 DEF WriteFails
      <4> QED BY <2>1, <2>3, <3>2, <4>1, OpenKept, DutiesAreRows DEF NoTxn
    <3>3. CASE UNCHANGED storeVars
      <4>1. RecordsKept'
        BY <2>1, <3>3 DEF RecordsKept, storeVars, ResultsOnly, Settled, OwnDuty, OnDisk, InMemory,
                    InWrite, Holds, Serving, Overlay
      <4> QED BY <2>3, <3>3, <4>1 DEF storeVars
    <3> QED BY <3>1, <3>2, <3>3
  <2> QED BY <1>2, <2>4, <2>5, <2>6
<1> QED BY <1>1, <1>2 DEF PlanStep

LEMMA ResultKept ==
  ASSUME StoreInv, UserInv, RecordsKept, HandlersFit, NEW d \in Duty, ResultStep(d)
  PROVE  RecordsKept' /\ HandlersFit'
<1>1. CASE Finish(d)
  <2>1. PICK o \in Outcomes[d] : /\ Complete(d, object[d], DutyObject(Job[d], o))
                                 /\ object' = [object EXCEPT ![d] = DutyObject(Job[d], o)]
    BY <1>1 DEF Finish
  <2> DEFINE w == DutyObject(Job[d], o)
  <2>2. /\ handler[d] = "none" /\ object[d] # Absent /\ handler' = [handler EXCEPT ![d] = "marked"]
        /\ plan' = plan /\ recorded' = recorded /\ server' = server
    BY <1>1 DEF Finish, lifeVars
  <2>3. d \in Row /\ object[d] \in Value /\ w \in Value
    BY <2>1, StoreAssumption, RecordsAssumption DEF Complete
  <2>4. HasResult(w)
    BY <2>3, StoreAssumption, RecordsAssumption DEF HasResult, DutyObject
  <2> HIDE DEF w
  <2>5. ~Settled(d)
    BY <2>2 DEF HandlersFit
  <2>6. RecordsKept'
    BY <2>1, <2>2, <2>3, <2>5, CompleteKept DEF w
  <2>7. txn'.caller = txn.caller
    BY <2>1, <2>3, CompleteEffect DEF w
  <2>8. /\ \A e \in Duty : object'[e] = IF e = d THEN w ELSE object[e]
        /\ handler' \in [Duty -> {"none", "marked", "saving", "done"}]
        /\ \A e \in Duty : handler'[e] = IF e = d THEN "marked" ELSE handler[e]
    BY <2>1, <2>2 DEF UserInv, HandlersFit, w
  <2>9. \A P \in Plans : plan'[P] = "none" => \A e \in P : object'[e] = Absent /\ e \notin recorded'
    <3>1. \A P \in Plans : P \subseteq Duty
      BY RecordsAssumption
    <3> QED BY <2>2, <2>8, <3>1 DEF HandlersFit
  <2>10. db' = db
    BY <2>1 DEF Complete
  <2>11. HandlersFit'
    BY <2>2, <2>4, <2>7, <2>8, <2>9, <2>10 DEF HandlersFit, Settled, Serving
  <2> QED BY <2>6, <2>11
<1>2. CASE SaveResult(d)
  <2>1. /\ handler[d] = "marked" /\ Begin(d, Objects({d})) /\ handler' = [handler EXCEPT ![d] = "saving"]
        /\ plan' = plan /\ object' = object /\ recorded' = recorded /\ server' = server
    BY <1>2 DEF SaveResult, lifeVars
  <2>2. HasResult(object[d])
    BY <2>1 DEF HandlersFit
  <2>3. \A e \in Duty : Objects({d})[e] = IF e = d THEN object[d] ELSE Absent
    BY DutiesAreRows DEF Objects
  <2>4. RecordsKept'
    BY <2>1, <2>2, <2>3, BeginKept DEF HasResult
  <2>5. txn'.caller = d /\ db' = db
    BY <2>1 DEF Begin, NoTxn
  <2>6. /\ handler' \in [Duty -> {"none", "marked", "saving", "done"}]
        /\ \A e \in Duty : handler'[e] = IF e = d THEN "saving" ELSE handler[e]
    BY <2>1 DEF HandlersFit
  <2>7. HandlersFit'
    BY <2>1, <2>2, <2>5, <2>6 DEF HandlersFit, Settled, Serving
  <2> QED BY <2>4, <2>7
<1>3. CASE ResultSaved(d)
  <2>1. /\ txn.caller = d /\ CommitMem /\ handler' = [handler EXCEPT ![d] = "done"]
        /\ recorded' = recorded \cup {d} /\ plan' = plan /\ object' = object /\ server' = server
    BY <1>3 DEF ResultSaved, lifeVars
  <2>2. RecordsKept'
    BY <2>1, CommitMemKept
  <2>3. \A e \in Duty : txn'.caller # e
    BY <2>1, DutiesAreRows DEF CommitMem, NoTxn
  <2>4. handler[d] # "none" /\ HasResult(object[d]) /\ db' = db
    BY <2>1 DEF HandlersFit, CommitMem
  <2>5. /\ handler' \in [Duty -> {"none", "marked", "saving", "done"}]
        /\ \A e \in Duty : handler'[e] = IF e = d THEN "done" ELSE handler[e]
    BY <2>1 DEF HandlersFit
  <2>6. \A P \in Plans : plan'[P] = "none" => \A e \in P : object'[e] = Absent /\ e \notin recorded'
    BY <2>1, <2>4 DEF HandlersFit, HasResult
  <2>7. HandlersFit'
    BY <2>1, <2>3, <2>4, <2>5, <2>6 DEF HandlersFit, Settled, Serving
  <2> QED BY <2>2, <2>7
<1> QED BY <1>1, <1>2, <1>3 DEF ResultStep

LEMMA RecordsStepKept ==
  StoreInv /\ UserInv /\ RowsFit /\ RecordsKept /\ HandlersFit /\ [SubsNext]_allVars
    => RecordsKept' /\ HandlersFit'
<1> SUFFICES ASSUME StoreInv, UserInv, RowsFit, RecordsKept, HandlersFit, [SubsNext]_allVars
             PROVE  RecordsKept' /\ HandlersFit'
  OBVIOUS
<1>1. CASE UNCHANGED dutyVars
  BY <1>1 DEF dutyVars, lifecycleVars, storeVars, recordsVars, lifeVars, RecordsKept, ResultsOnly,
              Settled, OwnDuty, OnDisk, InMemory, InWrite, Holds, Serving, Overlay, HandlersFit
<1>2. CASE LifecycleStep /\ UNCHANGED recordsVars
  BY <1>2, LifecycleKept
<1>3. CASE DutiesExit
  <2>1. /\ ProcessEnds /\ server' = "starting" /\ recorded' = recorded
        /\ plan' = [P \in Plans |-> IF plan[P] = "none" THEN "none" ELSE "lost"]
        /\ object' = [d \in Duty |-> Absent] /\ handler' = [d \in Duty |-> "none"]
    BY <1>3 DEF DutiesExit, Exit
  <2>2. RecordsKept'
    BY <2>1, OpenKept
  <2>3. \A d \in Duty : txn'.caller # d
    BY <2>1, DutiesAreRows DEF ProcessEnds, NoTxn
  <2>4. \A P \in Plans : P \subseteq Duty
    BY RecordsAssumption
  <2>5. HandlersFit'
    BY <2>1, <2>3, <2>4 DEF HandlersFit, Settled
  <2> QED BY <2>2, <2>5
<1>4. CASE RecordsStep
  BY <1>4, PlanKept, ResultKept DEF RecordsStep
<1>5. CASE RecordsNext
  BY <1>2, <1>3, <1>4, <1>5 DEF RecordsNext, recordsVars
<1> QED
  BY <1>1, <1>5 DEF SubsNext, ServiceStep, List, Send, Woken, CloseService, allVars

LEMMA RecordsKeptInit == SubsInit => RecordsKept /\ HandlersFit
<1> SUFFICES ASSUME SubsInit PROVE RecordsKept /\ HandlersFit
  OBVIOUS
<1>1. /\ db = "down" /\ txn = NoTxn /\ server = "starting" /\ recorded = {}
      /\ plan = [P \in Plans |-> "none"] /\ object = [d \in Duty |-> Absent]
      /\ handler = [d \in Duty |-> "none"]
  BY DEF SubsInit, RecordsInit, LifecycleInit, StoreInit
<1>2. RecordsKept
  BY <1>1, DutiesAreRows DEF RecordsKept, NoTxn, Nothing, ResultsOnly, Settled, OwnDuty, OnDisk,
                             InMemory, InWrite, Serving
<1>3. \A P \in Plans : P \subseteq Duty
  BY RecordsAssumption
<1>4. \A d \in Duty : txn.caller # d
  BY <1>1, DutiesAreRows DEF NoTxn
<1> QED BY <1>1, <1>2, <1>3, <1>4 DEF HandlersFit, Settled

UsersInv == StoreInv /\ UserInv /\ RowsFit /\ RecordsKept /\ HandlersFit

LEMMA UsersInvariant == SubsInit /\ [][SubsNext]_allVars => []UsersInv
<1>1. SubsInit => UsersInv
  <2>1. SubsInit => StoreInit
    BY DEF SubsInit, RecordsInit, LifecycleInit
  <2> QED BY <2>1, InitStoreInv, UserInvInit, RowsFitInit, RecordsKeptInit DEF UsersInv
<1>2. UsersInv /\ [SubsNext]_allVars => UsersInv'
  BY StoreInvStep, UserStep, RowsFitStep, RecordsStepKept DEF UsersInv
<1> QED BY <1>1, <1>2, PTL

-----------------------------------------------------------------------------
(* The slashing checks                                                     *)

LEMMA Least == ASSUME NEW S, S \subseteq Nat, S # {} PROVE \E m \in S : \A k \in S : m <= k
<1>1. PICK m \in S : \A k \in S : ~(<<k, m>> \in OpToRel(<, Nat))
  BY WFMin, NatLessThanWellFounded, Zenon
<1>2. \A k \in S : ~(k < m)
  BY <1>1, Zenon DEF OpToRel
<1> QED BY <1>2

\* The keys of the slashing indexes, by the duty.
LEMMA KeysOfDuty ==
  ASSUME NEW d \in Duty, NEW o, NEW k \in SchemaKeys(DutyObject(Job[d], o))
  PROVE  \/ k = <<"type", Job[d].kind>>
         \/ /\ o # NoResult /\ Job[d].kind = "block-proposal"
            /\ k = <<"block_proposer", Job[d].validator, Job[d].slot>>
         \/ /\ o # NoResult /\ Job[d].kind = "attestation"
            /\ \/ k = <<"attest_proposer", Job[d].validator, "source", o[1]>>
               \/ k = <<"attest_proposer", Job[d].validator, "target", o[2]>>
<1> DEFINE x == DutyObject(Job[d], o)
<1>1. /\ x.table = "duties" /\ x.kind = Job[d].kind /\ x.validator = Job[d].validator
      /\ x.slot = Job[d].slot /\ x.result = o
  BY DEF DutyObject
<1> HIDE DEF x
<1>2. k = <<"type", x.kind>> \/ k \in SlashingKeys(x)
  BY <1>1 DEF SchemaKeys, DutyKeys, x
<1>3. k \in SlashingKeys(x) =>
        /\ x.result # NoResult
        /\ \/ x.kind = "block-proposal" /\ k = <<"block_proposer", x.validator, x.slot>>
           \/ /\ x.kind = "attestation"
              /\ \/ k = <<"attest_proposer", x.validator, "source", x.result[1]>>
                 \/ k = <<"attest_proposer", x.validator, "target", x.result[2]>>
  <2>1. CASE x.result = NoResult
    <3>1. SlashingKeys(x) = {}
      BY <2>1 DEF SlashingKeys
    <3> QED BY <3>1
  <2>2. CASE x.result # NoResult /\ x.kind = "block-proposal"
    <3>1. SlashingKeys(x) = {<<"block_proposer", x.validator, x.slot>>}
      BY <2>2 DEF SlashingKeys
    <3> QED BY <2>2, <3>1
  <2>3. CASE x.result # NoResult /\ x.kind = "attestation"
    <3>1. SlashingKeys(x) = {<<"attest_proposer", x.validator, "source", x.result[1]>>,
                             <<"attest_proposer", x.validator, "target", x.result[2]>>}
      BY <2>3 DEF SlashingKeys
    <3> QED BY <2>3, <3>1
  <2>4. CASE x.result # NoResult /\ x.kind \notin {"block-proposal", "attestation"}
    <3>1. SlashingKeys(x) = {}
      BY <2>4 DEF SlashingKeys
    <3> QED BY <3>1
  <2> QED BY <2>1, <2>2, <2>3, <2>4
<1> QED BY <1>1, <1>2, <1>3

LEMMA SlashingKeysOf ==
  ASSUME NEW d \in Duty, NEW o, o # NoResult
  PROVE  /\ Job[d].kind = "block-proposal" =>
              <<"block_proposer", Job[d].validator, Job[d].slot>> \in SchemaKeys(DutyObject(Job[d], o))
         /\ Job[d].kind = "attestation" =>
              /\ <<"attest_proposer", Job[d].validator, "source", o[1]>> \in SchemaKeys(DutyObject(Job[d], o))
              /\ <<"attest_proposer", Job[d].validator, "target", o[2]>> \in SchemaKeys(DutyObject(Job[d], o))
BY DEF SchemaKeys, DutyKeys, SlashingKeys, DutyObject

\* A duty in memory is the one that was planned, and the result of an attestation
\* is its two epochs.
LEMMA DutyFields ==
  ASSUME RowsFit, NEW d \in Duty, HasResult(mem[d])
  PROVE  /\ mem[d] = DutyObject(Job[d], mem[d].result) /\ mem[d].result # NoResult
         /\ mem[d].kind = Job[d].kind /\ mem[d].validator = Job[d].validator
         /\ mem[d].slot = Job[d].slot
         /\ Job[d].validator \in Nat /\ Job[d].slot \in Nat
         /\ Job[d].kind = "attestation" => mem[d].result[1] \in Nat /\ mem[d].result[2] \in Nat
<1>1. PICK o \in Outcomes[d] \cup {NoResult} : mem[d] = DutyObject(Job[d], o)
  BY DutyRow DEF HasResult
<1>2. /\ mem[d].result = o /\ mem[d].kind = Job[d].kind /\ mem[d].validator = Job[d].validator
      /\ mem[d].slot = Job[d].slot
  BY <1>1 DEF DutyObject
<1>3. o \in Outcomes[d] /\ o # NoResult
  BY <1>2 DEF HasResult
<1>4. Job[d].validator \in Nat /\ Job[d].slot \in Nat
  BY RecordsAssumption
<1>5. Job[d].kind = "attestation" => o[1] \in Nat /\ o[2] \in Nat
  BY <1>3, RecordsAssumption
<1> QED BY <1>1, <1>2, <1>3, <1>4, <1>5

\* The entries of the slashing indexes lead to duties that have a result.
LEMMA SlashingEntry ==
  ASSUME StoreInv, RowsFit, NEW e \in index, e[1][1] \in {"block_proposer", "attest_proposer"}
  PROVE  /\ e = <<e[1], e[2]>> /\ e[2] \in Duty /\ HasResult(mem[e[2]])
         /\ e[1][1] = "block_proposer" =>
              /\ Job[e[2]].kind = "block-proposal"
              /\ e[1] = <<"block_proposer", Job[e[2]].validator, Job[e[2]].slot>>
         /\ e[1][1] = "attest_proposer" =>
              /\ Job[e[2]].kind = "attestation"
              /\ \/ e[1] = <<"attest_proposer", Job[e[2]].validator, "source", mem[e[2]].result[1]>>
                 \/ e[1] = <<"attest_proposer", Job[e[2]].validator, "target", mem[e[2]].result[2]>>
<1> DEFINE k == e[1]
           d == e[2]
<1>1. e = <<k, d>> /\ d \in Row
  BY TxnTyped
<1>2. mem[d] \in Value /\ k \in SchemaKeys(mem[d])
  BY <1>1, IndexSound
<1>3. mem[d] # Absent
  BY <1>2, StoreAssumption
<1>4. d \notin Validator
  BY <1>2, <1>3, ValidatorRowKeys
<1>5. d \in Duty
  BY <1>1, <1>3, <1>4, KnownRow
<1>6. PICK o : mem[d] = DutyObject(Job[d], o)
  BY <1>3, <1>5, DutyRow
<1>7. mem[d].result = o
  BY <1>6 DEF DutyObject
<1> HIDE DEF k, d
<1>8. k[1] # "type"
  BY DEF k
<1>9. \/ k = <<"type", Job[d].kind>>
      \/ /\ o # NoResult /\ Job[d].kind = "block-proposal"
         /\ k = <<"block_proposer", Job[d].validator, Job[d].slot>>
      \/ /\ o # NoResult /\ Job[d].kind = "attestation"
         /\ \/ k = <<"attest_proposer", Job[d].validator, "source", o[1]>>
            \/ k = <<"attest_proposer", Job[d].validator, "target", o[2]>>
  BY <1>2, <1>5, <1>6, KeysOfDuty
<1>10. k # <<"type", Job[d].kind>>
  BY <1>8
<1>11. HasResult(mem[d])
  BY <1>3, <1>7, <1>9, <1>10 DEF HasResult
<1>12. k[1] = "block_proposer" => /\ Job[d].kind = "block-proposal"
                                  /\ k = <<"block_proposer", Job[d].validator, Job[d].slot>>
  BY <1>9, <1>10
<1>13. k[1] = "attest_proposer" =>
         /\ Job[d].kind = "attestation"
         /\ \/ k = <<"attest_proposer", Job[d].validator, "source", mem[d].result[1]>>
            \/ k = <<"attest_proposer", Job[d].validator, "target", mem[d].result[2]>>
  BY <1>7, <1>9, <1>10
<1> QED BY <1>1, <1>5, <1>11, <1>12, <1>13 DEF k, d

\* What is recorded is in memory with its result, and in the slashing indexes.
LEMMA RecordedEntries ==
  ASSUME UsersInv, Serving, NEW d \in recorded
  PROVE  /\ d \in Duty /\ d \in Row /\ HasResult(mem[d])
         /\ Job[d].kind = "block-proposal" =>
              <<<<"block_proposer", Job[d].validator, Job[d].slot>>, d>> \in index
         /\ Job[d].kind = "attestation" =>
              /\ <<<<"attest_proposer", Job[d].validator, "source", mem[d].result[1]>>, d>> \in index
              /\ <<<<"attest_proposer", Job[d].validator, "target", mem[d].result[2]>>, d>> \in index
<1>1. d \in Duty /\ d \in Row /\ HasResult(mem[d]) /\ \A k \in IndexOf[mem[d]] : <<k, d>> \in index
  BY DutiesAreRows DEF UsersInv, RecordsKept, InMemory, Holds
<1>2. mem[d] \in Value
  BY <1>1, TxnTyped DEF UsersInv, HasResult, Content
<1>3. \A k \in SchemaKeys(mem[d]) : <<k, d>> \in index
  BY <1>1, <1>2, LifecycleAssumption
<1>4. mem[d] = DutyObject(Job[d], mem[d].result) /\ mem[d].result # NoResult
  BY <1>1, DutyFields DEF UsersInv
<1> QED BY <1>1, <1>3, <1>4, SlashingKeysOf

LEMMA FirstOfSome == ASSUME NEW S, S # {} PROVE First(S) \in S
BY DEF First

\* The entries of the two indexes, in the form of their keys.
LEMMA BlockEntry ==
  ASSUME StoreInv, RowsFit, NEW e \in index, e[1][1] = "block_proposer"
  PROVE  \E v \in Nat, n \in Nat, r \in Row : e = <<<<"block_proposer", v, n>>, r>>
<1>1. /\ e = <<e[1], e[2]>> /\ e[2] \in Duty /\ HasResult(mem[e[2]])
      /\ e[1] = <<"block_proposer", Job[e[2]].validator, Job[e[2]].slot>>
  BY SlashingEntry
<1>2. Job[e[2]].validator \in Nat /\ Job[e[2]].slot \in Nat /\ e[2] \in Row
  BY <1>1, DutyFields, DutiesAreRows
<1> QED BY <1>1, <1>2

LEMMA AttestEntry ==
  ASSUME StoreInv, RowsFit, NEW e \in index, e[1][1] = "attest_proposer"
  PROVE  \E v \in Nat, name \in {"source", "target"}, n \in Nat, r \in Row :
           e = <<<<"attest_proposer", v, name, n>>, r>>
<1> DEFINE d == e[2]
<1>1. /\ e = <<e[1], d>> /\ d \in Duty /\ HasResult(mem[d]) /\ Job[d].kind = "attestation"
      /\ \/ e[1] = <<"attest_proposer", Job[d].validator, "source", mem[d].result[1]>>
         \/ e[1] = <<"attest_proposer", Job[d].validator, "target", mem[d].result[2]>>
  BY SlashingEntry
<1> HIDE DEF d
<1>2. /\ Job[d].validator \in Nat /\ mem[d].result[1] \in Nat /\ mem[d].result[2] \in Nat
      /\ d \in Row
  BY <1>1, DutyFields, DutiesAreRows
<1>3. CASE e[1] = <<"attest_proposer", Job[d].validator, "source", mem[d].result[1]>>
  BY <1>1, <1>2, <1>3
<1>4. CASE e[1] = <<"attest_proposer", Job[d].validator, "target", mem[d].result[2]>>
  BY <1>1, <1>2, <1>4
<1> QED BY <1>1, <1>3, <1>4

\* The scan from the key of a validator stops at its own lowest key, where it has
\* one, and the rows found are those of that key.
LEMMA LowestBlock ==
  ASSUME StoreInv, RowsFit, NEW val \in Nat, NEW s \in Nat, Found(<<"block_proposer", val, s>>) # {}
  PROVE  \E m \in Nat : /\ LowestProposal(val) = Found(<<"block_proposer", val, m>>)
                        /\ Found(<<"block_proposer", val, m>>) # {}
                        /\ \A n \in Nat : Found(<<"block_proposer", val, n>>) # {} => m <= n
<1> DEFINE At(n) == Found(<<"block_proposer", val, n>>)
           S == {n \in Nat : At(n) # {}}
<1>1. PICK m \in S : \A k \in S : m <= k
  BY Least
<1>2. m \in Nat /\ At(m) # {} /\ \A n \in Nat : At(n) # {} => m <= n
  BY <1>1
<1>3. PICK r0 \in Row : <<<<"block_proposer", val, m>>, r0>> \in index
  BY <1>2 DEF Found
<1>4. <<<<"block_proposer", val, m>>, r0>> \in FromBlock(val)
  BY <1>3 DEF FromBlock
<1>5. ASSUME NEW b \in FromBlock(val)
      PROVE  \E v \in Nat, n \in Nat, r \in Row :
               /\ b = <<<<"block_proposer", v, n>>, r>> /\ v >= val /\ (v = val => r \in At(n))
  <2>1. b \in index /\ b[1][1] = "block_proposer" /\ b[1][2] >= val
    BY DEF FromBlock
  <2>2. PICK v \in Nat, n \in Nat, r \in Row : b = <<<<"block_proposer", v, n>>, r>>
    BY <2>1, BlockEntry
  <2>3. v >= val /\ <<<<"block_proposer", v, n>>, r>> \in index
    BY <2>1, <2>2
  <2> QED BY <2>2, <2>3 DEF Found
<1>6. ASSUME NEW r \in At(m) PROVE r \in LowestProposal(val)
  <2> DEFINE a == <<<<"block_proposer", val, m>>, r>>
  <2>1. a \in FromBlock(val) /\ a[2] = r
    BY <1>6 DEF Found, FromBlock
  <2>2. ASSUME NEW b \in FromBlock(val) PROVE BlockKeyLeq(a[1], b[1])
    <3>1. PICK v \in Nat, n \in Nat, q \in Row :
            b = <<<<"block_proposer", v, n>>, q>> /\ v >= val /\ (v = val => q \in At(n))
      BY <1>5
    <3>2. v = val => m <= n
      BY <1>2, <3>1
    <3>3. BlockKeyLeq(<<"block_proposer", val, m>>, <<"block_proposer", v, n>>)
      BY <3>1, <3>2 DEF BlockKeyLeq
    <3> QED BY <3>1, <3>3
  <2> QED BY <2>1, <2>2 DEF LowestProposal
<1>7. ASSUME NEW r \in LowestProposal(val) PROVE r \in At(m)
  <2>1. PICK a \in FromBlock(val) :
          r = a[2] /\ BlockKeyLeq(a[1], <<"block_proposer", val, m>>)
    <3>1. PICK a \in FromBlock(val) : r = a[2] /\ \A b \in FromBlock(val) : BlockKeyLeq(a[1], b[1])
      BY <1>7 DEF LowestProposal
    <3> QED BY <1>4, <3>1
  <2>2. PICK v \in Nat, n \in Nat, q \in Row :
          a = <<<<"block_proposer", v, n>>, q>> /\ v >= val /\ (v = val => q \in At(n))
    BY <1>5
  <2>3. BlockKeyLeq(<<"block_proposer", v, n>>, <<"block_proposer", val, m>>)
    BY <2>1, <2>2
  <2>4. v = val /\ n <= m
    BY <1>2, <2>2, <2>3 DEF BlockKeyLeq
  <2>5. r \in At(n)
    BY <2>1, <2>2, <2>4
  <2>6. m <= n
    BY <1>2, <2>5
  <2>7. n = m
    BY <1>2, <2>4, <2>6
  <2> QED BY <2>5, <2>7
<1>8. LowestProposal(val) = At(m)
  BY <1>6, <1>7
<1> QED BY <1>2, <1>8

LEMMA LowestAttest ==
  ASSUME StoreInv, RowsFit, NEW val \in Nat, NEW name \in {"source", "target"}, NEW s \in Nat,
         Found(<<"attest_proposer", val, name, s>>) # {}
  PROVE  \E m \in Nat : /\ LowestAttestation(val, name) = Found(<<"attest_proposer", val, name, m>>)
                        /\ Found(<<"attest_proposer", val, name, m>>) # {}
                        /\ \A n \in Nat : Found(<<"attest_proposer", val, name, n>>) # {} => m <= n
<1> DEFINE At(n) == Found(<<"attest_proposer", val, name, n>>)
           S == {n \in Nat : At(n) # {}}
           From == FromAttest(val, name)
<1>1. PICK m \in S : \A k \in S : m <= k
  BY Least
<1>2. m \in Nat /\ At(m) # {} /\ \A n \in Nat : At(n) # {} => m <= n
  BY <1>1
<1>3. ASSUME NEW n \in Nat, NEW r \in At(n)
      PROVE  <<<<"attest_proposer", val, name, n>>, r>> \in From
  <2>1. <<<<"attest_proposer", val, name, n>>, r>> \in index
    BY <1>3 DEF Found
  <2>2. AttestKeyLeq(<<"attest_proposer", val, name, 0>>, <<"attest_proposer", val, name, n>>)
    BY DEF AttestKeyLeq
  <2> QED BY <2>1, <2>2 DEF FromAttest
<1>4. PICK r0 \in At(m) : TRUE
  BY <1>2
<1>5. ASSUME NEW b \in From
      PROVE  \E v \in Nat, title \in {"source", "target"}, n \in Nat, r \in Row :
               /\ b = <<<<"attest_proposer", v, title, n>>, r>> /\ v >= val
               /\ v = val => NameRank(name) <= NameRank(title)
               /\ v = val /\ title = name => r \in At(n)
  <2>1. /\ b \in index /\ b[1][1] = "attest_proposer"
        /\ AttestKeyLeq(<<"attest_proposer", val, name, 0>>, b[1])
    BY DEF FromAttest
  <2>2. PICK v \in Nat, title \in {"source", "target"}, n \in Nat, r \in Row :
          b = <<<<"attest_proposer", v, title, n>>, r>>
    BY <2>1, AttestEntry
  <2>3. AttestKeyLeq(<<"attest_proposer", val, name, 0>>, <<"attest_proposer", v, title, n>>)
    BY <2>1, <2>2
  <2>4. v >= val /\ (v = val => NameRank(name) <= NameRank(title))
    BY <2>3 DEF AttestKeyLeq, NameRank
  <2>5. <<<<"attest_proposer", v, title, n>>, r>> \in index
    BY <2>1, <2>2
  <2> QED BY <2>2, <2>4, <2>5 DEF Found
<1>6. ASSUME NEW r \in At(m) PROVE r \in LowestAttestation(val, name)
  <2> DEFINE a == <<<<"attest_proposer", val, name, m>>, r>>
  <2>1. a \in From /\ a[2] = r
    BY <1>2, <1>3, <1>6
  <2>2. ASSUME NEW b \in From PROVE AttestKeyLeq(a[1], b[1])
    <3>1. PICK v \in Nat, title \in {"source", "target"}, n \in Nat, q \in Row :
            /\ b = <<<<"attest_proposer", v, title, n>>, q>> /\ v >= val
            /\ v = val => NameRank(name) <= NameRank(title)
            /\ v = val /\ title = name => q \in At(n)
      BY <1>5
    <3>2. v = val /\ title = name => m <= n
      BY <1>2, <3>1
    <3>3. AttestKeyLeq(<<"attest_proposer", val, name, m>>, <<"attest_proposer", v, title, n>>)
      BY <3>1, <3>2 DEF AttestKeyLeq, NameRank
    <3> QED BY <3>1, <3>3
  <2> QED BY <2>1, <2>2 DEF LowestAttestation
<1>7. ASSUME NEW r \in LowestAttestation(val, name) PROVE r \in At(m)
  <2>1. PICK a \in From : r = a[2] /\ AttestKeyLeq(a[1], <<"attest_proposer", val, name, m>>)
    <3>1. PICK a \in From : r = a[2] /\ \A b \in From : AttestKeyLeq(a[1], b[1])
      BY <1>7 DEF LowestAttestation
    <3>2. <<<<"attest_proposer", val, name, m>>, r0>> \in From
      BY <1>2, <1>3, <1>4
    <3> QED BY <3>1, <3>2
  <2>2. PICK v \in Nat, title \in {"source", "target"}, n \in Nat, q \in Row :
          /\ a = <<<<"attest_proposer", v, title, n>>, q>> /\ v >= val
          /\ v = val => NameRank(name) <= NameRank(title)
          /\ v = val /\ title = name => q \in At(n)
    BY <1>5
  <2>3. AttestKeyLeq(<<"attest_proposer", v, title, n>>, <<"attest_proposer", val, name, m>>)
    BY <2>1, <2>2
  <2>4. v = val /\ title = name /\ n <= m
    BY <1>2, <2>2, <2>3 DEF AttestKeyLeq, NameRank
  <2>5. r \in At(n)
    BY <2>1, <2>2, <2>4
  <2>6. m <= n
    BY <1>2, <2>5
  <2>7. n = m
    BY <1>2, <2>4, <2>6
  <2> QED BY <2>5, <2>7
<1>8. LowestAttestation(val, name) = At(m)
  BY <1>6, <1>7
<1> QED BY <1>2, <1>8

\* The duties found by a key of an index are part of the history of the validator.
LEMMA FoundBlock ==
  ASSUME StoreInv, RowsFit, NEW val, NEW n, NEW d \in Found(<<"block_proposer", val, n>>)
  PROVE  /\ d \in History("block-proposal", val) /\ HasResult(mem[d]) /\ mem[d].slot = n
         /\ Job[d].kind = "block-proposal" /\ Job[d].validator = val /\ Job[d].slot = n
<1> DEFINE e == <<<<"block_proposer", val, n>>, d>>
<1>1. e \in index /\ e[1] = <<"block_proposer", val, n>> /\ e[2] = d
  BY DEF Found
<1>2. e[1][1] = "block_proposer"
  BY <1>1
<1> HIDE DEF e
<1>3. /\ d \in Duty /\ HasResult(mem[d]) /\ Job[d].kind = "block-proposal"
      /\ <<"block_proposer", val, n>> = <<"block_proposer", Job[d].validator, Job[d].slot>>
  BY <1>1, <1>2, SlashingEntry
<1> QED BY <1>3, DutyFields DEF History, HasResult

LEMMA FoundAttest ==
  ASSUME StoreInv, RowsFit, NEW val, NEW name \in {"source", "target"}, NEW n,
         NEW d \in Found(<<"attest_proposer", val, name, n>>)
  PROVE  /\ d \in History("attestation", val)
         /\ mem[d].result[1] \in Nat /\ mem[d].result[2] \in Nat
         /\ n = IF name = "source" THEN mem[d].result[1] ELSE mem[d].result[2]
<1> DEFINE e == <<<<"attest_proposer", val, name, n>>, d>>
<1>1. e \in index /\ e[1] = <<"attest_proposer", val, name, n>> /\ e[2] = d
  BY DEF Found
<1>2. e[1][1] = "attest_proposer" /\ e[1][1] # "block_proposer"
  BY <1>1
<1> HIDE DEF e
<1>3. /\ d \in Duty /\ HasResult(mem[d]) /\ Job[d].kind = "attestation"
      /\ \/ <<"attest_proposer", val, name, n>>
              = <<"attest_proposer", Job[d].validator, "source", mem[d].result[1]>>
         \/ <<"attest_proposer", val, name, n>>
              = <<"attest_proposer", Job[d].validator, "target", mem[d].result[2]>>
  BY <1>1, <1>2, SlashingEntry
<1>4. Job[d].validator = val /\ n = IF name = "source" THEN mem[d].result[1] ELSE mem[d].result[2]
  BY <1>3
<1> QED BY <1>3, <1>4, DutyFields DEF History, HasResult

\* What the records of a validator's blocks look like to the check.
LEMMA ToldBlock ==
  ASSUME UsersInv, Serving, NEW val, NEW d \in Recorded("block-proposal", val)
  PROVE  /\ d \in Duty /\ val \in Nat /\ Job[d].slot \in Nat
         /\ d \in Found(<<"block_proposer", val, Job[d].slot>>)
<1>1. d \in recorded /\ Job[d].kind = "block-proposal" /\ Job[d].validator = val
  BY DEF Recorded
<1>2. /\ d \in Duty /\ d \in Row /\ HasResult(mem[d])
      /\ <<<<"block_proposer", val, Job[d].slot>>, d>> \in index
  BY <1>1, RecordedEntries
<1>3. val \in Nat /\ Job[d].slot \in Nat
  BY <1>1, <1>2, DutyFields DEF UsersInv
<1> QED BY <1>2, <1>3 DEF Found

\* With a record of its own, the check compares with the lowest slot and with one
\* of the roots at the slot.
LEMMA BlockPasses ==
  ASSUME UsersInv, Serving, NEW val, Recorded("block-proposal", val) # {},
         NEW slot \in Nat, NEW root
  PROVE  \E m \in Nat :
           /\ \E d \in History("block-proposal", val) : Job[d].slot = m
           /\ \A d \in Recorded("block-proposal", val) : m <= Job[d].slot
           /\ SlashBlockCheck(val, slot, root) <=>
                /\ Found(<<"block_proposer", val, slot>>) # {} =>
                     Result(First(Found(<<"block_proposer", val, slot>>))) = BlockResult(root)
                /\ m < slot
<1> DEFINE At(n) == Found(<<"block_proposer", val, n>>)
<1>1. PICK e \in Recorded("block-proposal", val) : TRUE
  OBVIOUS
<1>2. val \in Nat /\ Job[e].slot \in Nat /\ At(Job[e].slot) # {}
  BY <1>1, ToldBlock
<1>3. StoreInv /\ RowsFit
  BY DEF UsersInv
<1>4. PICK m \in Nat : /\ LowestProposal(val) = At(m) /\ At(m) # {}
                       /\ \A n \in Nat : At(n) # {} => m <= n
  <2> HIDE DEF At
  <2> QED BY <1>2, <1>3, LowestBlock DEF At
<1>5. \A d \in Recorded("block-proposal", val) : m <= Job[d].slot
  BY <1>4, ToldBlock
<1>6. First(At(m)) \in History("block-proposal", val) /\ Job[First(At(m))].slot = m
      /\ mem[First(At(m))].slot = m
  BY <1>3, <1>4, FirstOfSome, FoundBlock
<1>7. SlashBlockCheck(val, slot, root)
        <=> (At(slot) # {} => Result(First(At(slot))) = BlockResult(root)) /\ m < slot
  <2>1. LowestProposal(val) # {} /\ mem[First(LowestProposal(val))].slot = m
    BY <1>4, <1>6
  <2> QED BY <2>1 DEF SlashBlockCheck
<1> QED BY <1>5, <1>6, <1>7

\* Without one, it finds the lowest of a validator that comes after.
LEMMA BlockScanGoesOn ==
  ASSUME StoreInv, RowsFit, NEW val \in Nat, History("block-proposal", val) = {},
         NEW slot \in Nat, NEW root, ~SlashBlockCheck(val, slot, root)
  PROVE  \E d \in After("block-proposal", val) : Job[d].slot >= slot
<1>1. Found(<<"block_proposer", val, slot>>) = {}
  BY FoundBlock
<1>2. LowestProposal(val) # {} /\ ~(mem[First(LowestProposal(val))].slot < slot)
  BY <1>1 DEF SlashBlockCheck
<1>3. PICK d \in LowestProposal(val) : ~(mem[d].slot < slot)
  BY <1>2, FirstOfSome
<1>4. PICK a \in FromBlock(val) : a[2] = d
  BY <1>3 DEF LowestProposal
<1>5. a \in index /\ a[1][1] = "block_proposer" /\ a[1][2] >= val
  BY <1>4 DEF FromBlock
<1>6. /\ d \in Duty /\ HasResult(mem[d]) /\ Job[d].kind = "block-proposal"
      /\ a[1] = <<"block_proposer", Job[d].validator, Job[d].slot>>
  BY <1>4, <1>5, SlashingEntry
<1>7. /\ mem[d].kind = "block-proposal" /\ mem[d].validator = Job[d].validator
      /\ mem[d].slot = Job[d].slot /\ mem[d].result # NoResult
      /\ Job[d].validator \in Nat /\ Job[d].slot \in Nat
  BY <1>6, DutyFields
<1>8. mem[d] # Absent
  BY <1>6 DEF HasResult
<1>9. Job[d].validator >= val
  BY <1>5, <1>6
<1>10. mem[d].validator # val
  BY <1>6, <1>7, <1>8 DEF History
<1>11. mem[d].validator > val
  BY <1>7, <1>9, <1>10
<1> QED BY <1>3, <1>6, <1>7, <1>8, <1>11 DEF After

LEMMA BlockCheckStep ==
  ASSUME UsersInv, NEW slots \in SUBSET Nat, NEW roots
  PROVE  BlockCheckExact(slots, roots)
<1> DEFINE Above(S, slot) == \E d \in S : Job[d].slot < slot
           At(S, slot) == {d \in S : Job[d].slot = slot}
           IsRoot(d, root) == Result(d) = BlockResult(root)
           Own(val) == History("block-proposal", val)
           Told(val) == Recorded("block-proposal", val)
<1>1. SUFFICES
        ASSUME server = "running", NEW val \in {Job[d].validator : d \in Duty},
               NEW slot \in slots, NEW root \in roots
        PROVE  /\ Above(Told(val), slot) /\ (\A d \in At(Own(val), slot) : IsRoot(d, root))
                    => SlashBlockCheck(val, slot, root)
               /\ Told(val) # {} /\ SlashBlockCheck(val, slot, root)
                    => /\ Above(Own(val), slot)
                       /\ At(Told(val), slot) # {} => \E d \in At(Own(val), slot) : IsRoot(d, root)
               /\ Own(val) = {} /\ ~SlashBlockCheck(val, slot, root)
                    => \E d \in After("block-proposal", val) : Job[d].slot >= slot
  BY Zenon DEF BlockCheckExact
<1>2. StoreInv /\ RowsFit /\ Serving
  BY <1>1 DEF UsersInv, HandlersFit, RecordsKept
<1>3. val \in Nat /\ slot \in Nat
  BY RecordsAssumption DEF RecordsAssumption
<1> DEFINE found == Found(<<"block_proposer", val, slot>>)
<1>4. found \subseteq At(Own(val), slot) /\ At(Told(val), slot) \subseteq found
  BY <1>2, FoundBlock, ToldBlock
<1>5. ASSUME Told(val) # {}
      PROVE  \E m \in Nat :
               /\ \E d \in Own(val) : Job[d].slot = m
               /\ \A d \in Told(val) : m <= Job[d].slot
               /\ SlashBlockCheck(val, slot, root) <=>
                    (found # {} => Result(First(found)) = BlockResult(root)) /\ m < slot
  BY <1>2, <1>3, <1>5, BlockPasses
<1>6. \A d \in Told(val) : Job[d].slot \in Nat
  BY <1>2, ToldBlock
<1>7. found # {} => First(found) \in found
  BY FirstOfSome
<1> HIDE DEF Own, Told, found
<1>8. ASSUME Above(Told(val), slot), \A d \in At(Own(val), slot) : IsRoot(d, root)
      PROVE  SlashBlockCheck(val, slot, root)
  <2>1. PICK c \in Told(val) : Job[c].slot < slot
    BY <1>8
  <2>2. PICK m \in Nat :
          /\ \A d \in Told(val) : m <= Job[d].slot
          /\ SlashBlockCheck(val, slot, root) <=>
               (found # {} => Result(First(found)) = BlockResult(root)) /\ m < slot
    BY <1>5, <2>1
  <2>3. m < slot
    BY <1>3, <1>6, <2>1, <2>2
  <2>4. found # {} => Result(First(found)) = BlockResult(root)
    BY <1>4, <1>7, <1>8
  <2> QED BY <2>2, <2>3, <2>4
<1>9. ASSUME Told(val) # {}, SlashBlockCheck(val, slot, root)
      PROVE  /\ Above(Own(val), slot)
             /\ At(Told(val), slot) # {} => \E d \in At(Own(val), slot) : IsRoot(d, root)
  <2>1. PICK m \in Nat :
          /\ \E d \in Own(val) : Job[d].slot = m
          /\ SlashBlockCheck(val, slot, root) <=>
               (found # {} => Result(First(found)) = BlockResult(root)) /\ m < slot
    BY <1>5, <1>9
  <2>2. m < slot /\ (found # {} => IsRoot(First(found), root))
    BY <1>9, <2>1
  <2> QED BY <1>4, <1>7, <2>1, <2>2
<1>10. ASSUME Own(val) = {}, ~SlashBlockCheck(val, slot, root)
       PROVE  \E d \in After("block-proposal", val) : Job[d].slot >= slot
  BY <1>2, <1>3, <1>10, BlockScanGoesOn DEF Own
<1> QED BY <1>8, <1>9, <1>10

\* A validator without a vote of its own is compared with those that come after.
LEMMA AttestScanGoesOn ==
  ASSUME StoreInv, RowsFit, NEW val \in Nat, History("attestation", val) = {},
         NEW name \in {"source", "target"}, NEW d \in LowestAttestation(val, name)
  PROVE  d \in After("attestation", val) /\ Result(d)[1] \in Nat /\ Result(d)[2] \in Nat
<1>1. PICK a \in FromAttest(val, name) : a[2] = d
  BY DEF LowestAttestation
<1>2. /\ a \in index /\ a[1][1] = "attest_proposer"
      /\ AttestKeyLeq(<<"attest_proposer", val, name, 0>>, a[1])
  BY <1>1 DEF FromAttest
<1>3. /\ d \in Duty /\ HasResult(mem[d]) /\ Job[d].kind = "attestation"
      /\ \/ a[1] = <<"attest_proposer", Job[d].validator, "source", mem[d].result[1]>>
         \/ a[1] = <<"attest_proposer", Job[d].validator, "target", mem[d].result[2]>>
  BY <1>1, <1>2, SlashingEntry
<1>4. a[1][2] = Job[d].validator
  BY <1>3
<1>5. /\ mem[d].kind = "attestation" /\ mem[d].validator = Job[d].validator
      /\ mem[d].result # NoResult /\ Job[d].validator \in Nat
      /\ mem[d].result[1] \in Nat /\ mem[d].result[2] \in Nat
  BY <1>3, DutyFields
<1>6. mem[d] # Absent
  BY <1>3 DEF HasResult
<1>7. Job[d].validator >= val
  BY <1>2, <1>4, <1>5 DEF AttestKeyLeq
<1>8. mem[d].validator # val
  BY <1>3, <1>5, <1>6 DEF History
<1>9. mem[d].validator > val
  BY <1>5, <1>7, <1>8
<1> QED BY <1>3, <1>5, <1>6, <1>9 DEF After, Result

LEMMA AttestCheckStep ==
  ASSUME UsersInv, NEW epochs \in SUBSET Nat PROVE AttestCheckExact(epochs)
<1> DEFINE Above(S, s, t) == (\E d \in S : Result(d)[1] <= s) /\ (\E d \in S : Result(d)[2] < t)
           Told(val) == Recorded("attestation", val)
           Own(val) == History("attestation", val)
<1>1. SUFFICES
        ASSUME server = "running", NEW val \in {Job[d].validator : d \in Duty},
               NEW s \in epochs, NEW t \in epochs
        PROVE  /\ Above(Told(val), s, t) => SlashAttestCheck(val, s, t)
               /\ Told(val) # {} /\ SlashAttestCheck(val, s, t) => Above(Own(val), s, t)
               /\ Own(val) = {} /\ ~SlashAttestCheck(val, s, t)
                    => \E d \in After("attestation", val) : s < Result(d)[1] \/ t <= Result(d)[2]
  BY Zenon DEF AttestCheckExact
<1> DEFINE own == Own(val)
           told == Told(val)
           At(name, n) == Found(<<"attest_proposer", val, name, n>>)
<1>2. StoreInv /\ RowsFit /\ Serving /\ recorded \subseteq Duty
  BY <1>1 DEF UsersInv, HandlersFit, RecordsKept
<1>3. ASSUME NEW d \in told
      PROVE  /\ d \in Duty /\ HasResult(mem[d]) /\ Job[d].kind = "attestation"
             /\ Job[d].validator = val /\ Result(d)[1] \in Nat /\ Result(d)[2] \in Nat
             /\ d \in At("source", Result(d)[1]) /\ d \in At("target", Result(d)[2])
  <2>1. d \in recorded /\ Job[d].kind = "attestation" /\ Job[d].validator = val
    BY <1>3 DEF Recorded
  <2>2. /\ d \in Duty /\ d \in Row /\ HasResult(mem[d])
        /\ <<<<"attest_proposer", val, "source", mem[d].result[1]>>, d>> \in index
        /\ <<<<"attest_proposer", val, "target", mem[d].result[2]>>, d>> \in index
    BY <1>2, <2>1, RecordedEntries
  <2>3. mem[d].result[1] \in Nat /\ mem[d].result[2] \in Nat
    BY <1>2, <2>1, <2>2, DutyFields
  <2> QED BY <2>1, <2>2, <2>3 DEF Found, Result
<1>4. val \in Nat /\ s \in Nat /\ t \in Nat
  BY RecordsAssumption DEF RecordsAssumption
<1>5. ASSUME NEW name \in {"source", "target"}, NEW n, NEW d \in At(name, n)
      PROVE  d \in own /\ n = IF name = "source" THEN Result(d)[1] ELSE Result(d)[2]
  BY <1>2, <1>5, FoundAttest DEF Result
<1>6. ASSUME NEW e \in told, NEW name \in {"source", "target"}
      PROVE  \E m \in Nat : /\ LowestAttestation(val, name) = At(name, m) /\ At(name, m) # {}
                            /\ \A n \in Nat : At(name, n) # {} => m <= n
  <2> DEFINE epoch == IF name = "source" THEN Result(e)[1] ELSE Result(e)[2]
  <2>1. At(name, epoch) # {} /\ epoch \in Nat
    BY <1>3
  <2> HIDE DEF At, epoch
  <2> QED BY <1>2, <1>4, <2>1, LowestAttest DEF At
<1> DEFINE Passes(ms, mt) ==
             /\ \E d \in own : Result(d)[1] = ms
             /\ \E d \in own : Result(d)[2] = mt
             /\ \A n \in Nat : At("source", n) # {} => ms <= n
             /\ \A n \in Nat : At("target", n) # {} => mt <= n
             /\ SlashAttestCheck(val, s, t) <=> s >= ms /\ t > mt
<1>7. ASSUME told # {} PROVE \E ms, mt \in Nat : Passes(ms, mt)
  <2>0. PICK e \in told : TRUE
    BY <1>7
  <2>1. PICK ms \in Nat : /\ LowestAttestation(val, "source") = At("source", ms)
                          /\ At("source", ms) # {}
                          /\ \A n \in Nat : At("source", n) # {} => ms <= n
    BY <1>6, <2>0
  <2>2. PICK mt \in Nat : /\ LowestAttestation(val, "target") = At("target", mt)
                          /\ At("target", mt) # {}
                          /\ \A n \in Nat : At("target", n) # {} => mt <= n
    BY <1>6, <2>0
  <2> DEFINE lowS == First(LowestAttestation(val, "source"))
             lowT == First(LowestAttestation(val, "target"))
  <2> HIDE DEF At
  <2>3. lowS \in own /\ Result(lowS)[1] = ms /\ lowT \in own /\ Result(lowT)[2] = mt
    <3>1. lowS \in At("source", ms) /\ lowT \in At("target", mt)
      BY <2>1, <2>2, FirstOfSome
    <3> QED BY <1>5, <3>1
  <2>4. SlashAttestCheck(val, s, t) <=> s >= ms /\ t > mt
    BY <2>1, <2>2, <2>3 DEF SlashAttestCheck
  <2> HIDE DEF own, lowS, lowT
  <2> QED BY <2>1, <2>2, <2>3, <2>4
<1> HIDE DEF At, own, told
<1>8. ASSUME Above(told, s, t) PROVE SlashAttestCheck(val, s, t)
  <2>1. PICK c \in told : Result(c)[1] <= s
    BY <1>8
  <2>2. PICK d \in told : Result(d)[2] < t
    BY <1>8
  <2>3. /\ Result(c)[1] \in Nat /\ At("source", Result(c)[1]) # {}
        /\ Result(d)[2] \in Nat /\ At("target", Result(d)[2]) # {}
    BY <1>3
  <2>4. PICK ms, mt \in Nat : Passes(ms, mt)
    BY <1>7, <2>1
  <2>5. ms <= Result(c)[1] /\ mt <= Result(d)[2]
    BY <2>3, <2>4
  <2> QED BY <1>4, <2>1, <2>2, <2>3, <2>4, <2>5
<1>9. ASSUME told # {}, SlashAttestCheck(val, s, t) PROVE Above(own, s, t)
  <2>1. PICK ms, mt \in Nat : Passes(ms, mt)
    BY <1>7, <1>9
  <2> QED BY <1>9, <2>1
<1>10. ASSUME own = {}, ~SlashAttestCheck(val, s, t)
       PROVE  \E d \in After("attestation", val) : s < Result(d)[1] \/ t <= Result(d)[2]
  <2> DEFINE Low(name) == LowestAttestation(val, name)
  <2>1. \/ Low("source") # {} /\ ~(s >= Result(First(Low("source")))[1])
        \/ Low("target") # {} /\ ~(t > Result(First(Low("target")))[2])
    BY <1>10 DEF SlashAttestCheck
  <2>2. ASSUME NEW name \in {"source", "target"}, NEW d \in Low(name)
        PROVE  d \in After("attestation", val) /\ Result(d)[1] \in Nat /\ Result(d)[2] \in Nat
    BY <1>2, <1>4, <1>10, AttestScanGoesOn DEF own
  <2>3. \A name \in {"source", "target"} : Low(name) # {} => First(Low(name)) \in Low(name)
    BY FirstOfSome
  <2> HIDE DEF Low
  <2>4. CASE Low("source") # {} /\ ~(s >= Result(First(Low("source")))[1])
    BY <1>4, <2>2, <2>3, <2>4
  <2>5. CASE Low("target") # {} /\ ~(t > Result(First(Low("target")))[2])
    BY <1>4, <2>2, <2>3, <2>5
  <2> QED BY <2>1, <2>4, <2>5
<1> QED BY <1>8, <1>9, <1>10 DEF own, told

\* SlashBlockCheck: once UpsertDuty has returned for a block, over all restarts,
\* the check refuses another block for the slot and any block that is not above
\* the lowest slot of the validator, and refuses nothing else, for all slots and
\* roots; a validator without a record is refused only what the record of a
\* validator after it explains.
THEOREM BlockCheckIsExact ==
  ASSUME NEW CONSTANT slots \in SUBSET Nat, NEW CONSTANT roots
  PROVE  SubsSpec => []BlockCheckExact(slots, roots)
<1>1. UsersInv => BlockCheckExact(slots, roots)
  BY BlockCheckStep
<1> QED BY <1>1, UsersInvariant, PTL DEF SubsSpec

\* In particular for the slots and roots the runs use.
THEOREM BlockChecksHold == SubsSpec => []BlockChecks
<1>1. 1 .. 3 \in SUBSET Nat
  OBVIOUS
<1>2. UsersInv => BlockChecks
  BY <1>1, BlockCheckStep DEF BlockChecks
<1> QED BY <1>2, UsersInvariant, PTL DEF SubsSpec

\* SlashAttestCheck: once UpsertDuty has returned for an attestation, over all
\* restarts, the check refuses a source below all that are recorded and a target
\* that is not above one of them, and nothing else, for all epochs; a validator
\* without a record is refused only what the votes of a validator after it explain.
THEOREM AttestCheckIsExact ==
  ASSUME NEW CONSTANT epochs \in SUBSET Nat PROVE SubsSpec => []AttestCheckExact(epochs)
<1>1. UsersInv => AttestCheckExact(epochs)
  BY AttestCheckStep
<1> QED BY <1>1, UsersInvariant, PTL DEF SubsSpec

\* In particular for the epochs the runs use.
THEOREM AttestChecksHold == SubsSpec => []AttestChecks
<1>1. 0 .. 3 \in SUBSET Nat
  OBVIOUS
<1>2. UsersInv => AttestChecks
  BY <1>1, AttestCheckStep DEF AttestChecks
<1> QED BY <1>2, UsersInvariant, PTL DEF SubsSpec
=============================================================================
