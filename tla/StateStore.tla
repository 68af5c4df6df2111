------------------------------ MODULE StateStore ------------------------------
(***************************************************************************)
(* The state of the validator (internal/server/state/state.go): tables     *)
(* kept twice, in boltdb on disk and in memdb with its secondary indexes.  *)
(*                                                                         *)
(* A write opens a memdb transaction, which holds the writer lock of       *)
(* memdb, and inside it a boltdb transaction; it inserts each object into  *)
(* the one and puts its encoding into the other; boltdb commits first and  *)
(* memdb second.  Readers see the committed tree of memdb only.            *)
(*                                                                         *)
(* memdb keeps pointers.  The owner of an object may change it after it    *)
(* was inserted, outside any transaction: the change is visible to readers *)
(* at once, but reaches the indexes and the disk only with the next write  *)
(* of the row.  UpsertDuties and UpsertValidator are the same code for two *)
(* tables; a row here is a row of either.                                  *)
(***************************************************************************)
EXTENDS Integers, FiniteSets

CONSTANTS
  Row,        \* the primary ids, of duties and of validators
  Value,      \* the contents an object can have
  Absent,     \* no row
  Key,        \* the values of the secondary indexes
  IndexOf,    \* IndexOf[v]: the values the indexers of the schema give for v
  InPlace,    \* the pairs <<v, w>> such that an owner turns an object from v to w
  Caller,     \* the goroutines that write
  NoCaller

ASSUME StoreAssumption ==
  /\ Absent \notin Value
  /\ IndexOf \in [Value -> SUBSET Key]
  /\ InPlace \subseteq Value \X Value
  /\ \A u, v, w \in Value : <<u, v>> \in InPlace /\ <<v, w>> \in InPlace => <<u, w>> \in InPlace
  /\ \A v, w \in Value : <<v, w>> \in InPlace => IndexOf[v] \subseteq IndexOf[w]
  /\ NoCaller \notin Caller

VARIABLES
  db,      \* the database: down with the process, opened but not yet
           \* reindexed, open, or closed
  disk,    \* the committed content of boltdb
  mem,     \* the objects in the committed tree of memdb
  index,   \* its secondary indexes: pairs <<key, row>>
  txn      \* the write under way

storeVars == <<db, disk, mem, index, txn>>

Content == [Row -> Value \cup {Absent}]

Nothing == [r \in Row |-> Absent]

NoTxn == [pc |-> "none", caller |-> NoCaller, todo |-> Nothing,
          memTxn |-> Nothing, dbTxn |-> Nothing, index |-> {}]

Transaction ==
  [pc : {"none", "writing", "committed"},
   caller : Caller \cup {NoCaller},
   todo : Content,        \* the objects still to be written
   memTxn : Content,      \* the objects inserted into memdb
   dbTxn : Content,       \* the encodings put into boltdb
   index : SUBSET (Key \X Row)]

StoreTypeOK ==
  /\ db \in {"down", "opened", "open", "closed"}
  /\ disk \in Content
  /\ mem \in Content
  /\ index \in SUBSET (Key \X Row)
  /\ txn \in Transaction

StoreInit ==
  /\ db = "down"
  /\ disk = Nothing
  /\ mem = Nothing
  /\ index = {}
  /\ txn = NoTxn

-----------------------------------------------------------------------------
(* NewState                                                                *)

\* bolt.Open, which locks the file, and the buckets.
OpenDB ==
  /\ db = "down"
  /\ db' = "opened"
  /\ UNCHANGED <<disk, mem, index, txn>>

Entries(r, v) == IF v = Absent THEN {} ELSE IndexOf[v] \X {r}

\* reIndex: every object of both buckets is read and inserted, one memdb
\* transaction for all.  (An unreadable record is a NewState that fails.)
ReIndex ==
  /\ db = "opened"
  /\ db' = "open"
  /\ mem' = disk
  /\ index' = UNION {Entries(r, disk[r]) : r \in Row}
  /\ UNCHANGED <<disk, txn>>

\* The process ends: what is not on disk is lost.
ProcessEnds ==
  /\ db # "down"
  /\ db' = "down"
  /\ mem' = Nothing
  /\ index' = {}
  /\ txn' = NoTxn
  /\ UNCHANGED disk

\* Close waits for the boltdb transaction.
CloseDB ==
  /\ db = "open"
  /\ txn.pc # "writing"
  /\ db' = "closed"
  /\ UNCHANGED <<disk, mem, index, txn>>

-----------------------------------------------------------------------------
(* UpsertDuties, UpsertValidator                                           *)

\* The two transactions begin; with the database closed the call fails here,
\* and nothing has happened.
Begin(c, batch) ==
  /\ db = "open"
  /\ txn.pc = "none"
  /\ txn' = [NoTxn EXCEPT !.pc = "writing", !.caller = c, !.todo = batch, !.index = index]
  /\ UNCHANGED <<db, disk, mem, index>>

\* Every object that was inserted was put as well: the loop does one after the
\* other.
AllPut == \A r \in Row : txn.memTxn[r] # Absent => txn.dbTxn[r] # Absent

\* Mutant of InsertRow: the entries of the object before stay.
InsertRowKeepsKeys(r) ==
  /\ txn.pc = "writing"
  /\ AllPut
  /\ txn.todo[r] # Absent
  /\ txn' = [txn EXCEPT !.todo[r] = Absent,
                        !.memTxn[r] = txn.todo[r],
                        !.index = @ \cup Entries(r, txn.todo[r])]
  /\ UNCHANGED <<db, disk, mem, index>>

\* Mutant of InsertRow: an object that is in the table already is not inserted
\* again.
InsertRowOnce(r) ==
  /\ txn.pc = "writing"
  /\ AllPut
  /\ txn.todo[r] # Absent
  /\ txn' = [txn EXCEPT !.todo[r] = Absent,
                        !.memTxn[r] = txn.todo[r],
                        !.index = IF mem[r] = txn.todo[r] THEN @
                                  ELSE (@ \ Entries(r, mem[r])) \cup Entries(r, txn.todo[r])]
  /\ UNCHANGED <<db, disk, mem, index>>

\* memTxn.Insert: the entries of the object that had the row before, with the
\* contents that object has now, make way for those of the new one.
InsertRow(r) ==
  /\ txn.pc = "writing"
  /\ AllPut
  /\ txn.todo[r] # Absent
  /\ txn' = [txn EXCEPT !.todo[r] = Absent,
                        !.memTxn[r] = txn.todo[r],
                        !.index = (@ \ Entries(r, mem[r])) \cup Entries(r, txn.todo[r])]
  /\ UNCHANGED <<db, disk, mem, index>>

\* Mutant of PutRow: a boltdb transaction for each object.
PutRowAlone(r) ==
  /\ txn.pc = "writing"
  /\ txn.memTxn[r] # Absent
  /\ txn.dbTxn[r] = Absent
  /\ txn' = [txn EXCEPT !.dbTxn[r] = txn.memTxn[r]]
  /\ disk' = [disk EXCEPT ![r] = txn.memTxn[r]]
  /\ UNCHANGED <<db, mem, index>>

\* dbPut: the object is encoded as it is by now.
PutRow(r) ==
  /\ txn.pc = "writing"
  /\ txn.memTxn[r] # Absent
  /\ txn.dbTxn[r] = Absent
  /\ txn' = [txn EXCEPT !.dbTxn[r] = txn.memTxn[r]]
  /\ UNCHANGED <<db, disk, mem, index>>

\* An insert, a put or the commit of boltdb fails: both transactions abort.
WriteFails ==
  /\ txn.pc = "writing"
  /\ txn' = NoTxn
  /\ UNCHANGED <<db, disk, mem, index>>

Overlay(base, top) == [r \in Row |-> IF top[r] = Absent THEN base[r] ELSE top[r]]

Written == txn.todo = Nothing /\ AllPut

\* The callback has returned nil: db.Update commits.
CommitDB ==
  /\ txn.pc = "writing"
  /\ Written
  /\ disk' = Overlay(disk, txn.dbTxn)
  /\ txn' = [txn EXCEPT !.pc = "committed"]
  /\ UNCHANGED <<db, mem, index>>

\* memTxn.Commit: readers see the rows, the watch channels close, and the
\* call returns nil.
CommitMem ==
  /\ txn.pc = "committed"
  /\ mem' = Overlay(mem, txn.memTxn)
  /\ index' = txn.index
  /\ txn' = NoTxn
  /\ UNCHANGED <<db, disk>>

-----------------------------------------------------------------------------
(* The owner of an object changes it                                       *)

Turned(x, v, w) == IF x = v THEN w ELSE x

\* The object of row r turns from v into w, wherever there is a pointer to it:
\* in the tree readers see, in the transaction, in the list still to be written.
Complete(r, v, w) ==
  /\ db \in {"open", "closed"}
  /\ <<v, w>> \in InPlace
  /\ mem' = [mem EXCEPT ![r] = Turned(@, v, w)]
  /\ txn' = [txn EXCEPT !.todo[r] = Turned(@, v, w), !.memTxn[r] = Turned(@, v, w)]
  /\ UNCHANGED <<db, disk, index>>

-----------------------------------------------------------------------------
(* What any callers may do with the state.                                 *)

StoreNext ==
  \/ OpenDB \/ ReIndex \/ CloseDB \/ ProcessEnds
  \/ \E c \in Caller, batch \in Content : Begin(c, batch)
  \/ \E r \in Row : InsertRow(r) \/ PutRow(r)
  \/ WriteFails \/ CommitDB \/ CommitMem
  \/ \E r \in Row, v, w \in Value : Complete(r, v, w)

StoreSpec == StoreInit /\ [][StoreNext]_storeVars

-----------------------------------------------------------------------------
(* Properties                                                              *)

\* v is w, or what its owner has made w from.
Older(v, w) == v = w \/ <<v, w>> \in InPlace

Serving == db \in {"open", "closed"}

\* The rows boltdb has committed and memdb has not.
InWindow(r) == txn.pc = "committed" /\ txn.dbTxn[r] # Absent

\* What readers see is what is on disk, except for the rows between the two
\* commits and for what the owner of an object has added to it since it was
\* encoded: an aborted write leaves no trace in either, a crash loses nothing a
\* reader has seen written, and a restart brings all of it back.
MemIsDisk == Serving => \A r \in Row : InWindow(r) \/ Older(disk[r], mem[r])

\* No index leads to an object that does not have the key, and every object is
\* found by the keys it had when it was last inserted.
IndexFits(ix, objects) ==
  /\ \A e \in ix : objects[e[2]] # Absent /\ e[1] \in IndexOf[objects[e[2]]]
  /\ \A r \in Row : objects[r] # Absent =>
        \E u \in Value : Older(u, objects[r]) /\ \A k \in IndexOf[u] : <<k, r>> \in ix

\* The two transactions agree.
TxnFits ==
  /\ txn.pc = "none" => txn = NoTxn
  /\ \A r \in Row :
       /\ txn.memTxn[r] # Absent => txn.todo[r] = Absent
       /\ txn.dbTxn[r] # Absent => txn.memTxn[r] # Absent /\ Older(txn.dbTxn[r], txn.memTxn[r])
  /\ txn.pc = "committed" => Written /\ \A r \in Row : InWindow(r) => disk[r] = txn.dbTxn[r]
  /\ txn.pc # "none" => Serving /\ IndexFits(txn.index, Overlay(mem, txn.memTxn))

NothingInMemory == ~Serving => mem = Nothing /\ txn = NoTxn

StoreInv ==
  /\ StoreTypeOK
  /\ MemIsDisk
  /\ IndexFits(index, mem)
  /\ TxnFits
  /\ NothingInMemory

-----------------------------------------------------------------------------
(* The state implements DurableStore.                                      *)

\* The content of the write under way, until it takes effect.
Requested(r) ==
  IF txn.pc # "writing" THEN Absent
  ELSE IF txn.dbTxn[r] # Absent THEN txn.dbTxn[r]
  ELSE IF txn.memTxn[r] # Absent THEN txn.memTxn[r] ELSE txn.todo[r]

Durable == INSTANCE DurableStore WITH rows <- disk, request <- [r \in Row |-> Requested(r)]

\* A write reaches the disk as a whole or not at all, at the commit of boltdb,
\* and nothing else changes the disk.
ImplementsDurableStore == Durable!Spec
=============================================================================
