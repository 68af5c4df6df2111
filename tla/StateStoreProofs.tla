--------------------------- MODULE StateStoreProofs ---------------------------
(***************************************************************************)
(* Proofs about the state of the validator, for all rows, contents,        *)
(* indexes and callers: StoreInv is inductive, the state implements        *)
(* DurableStore, and the routines of the server that write to the state    *)
(* are among these callers.                                                *)
(***************************************************************************)
EXTENDS Subscriptions, TLAPS

-----------------------------------------------------------------------------
(* The helpers                                                             *)

LEMMA OlderTransitive ==
  ASSUME NEW u \in Value \cup {Absent}, NEW v \in Value, NEW w \in Value,
         Older(u, v), <<v, w>> \in InPlace
  PROVE  Older(u, w)
<1>1. CASE u = v
  BY <1>1 DEF Older
<1>2. CASE u # v
  <2>1. <<u, v>> \in InPlace /\ u \in Value
    BY <1>2, StoreAssumption DEF Older
  <2> QED BY <2>1, StoreAssumption DEF Older
<1> QED BY <1>1, <1>2

LEMMA NothingTyped == Nothing \in Content /\ NoTxn \in Transaction
BY DEF Nothing, Content, NoTxn, Transaction

LEMMA OverlayTyped ==
  ASSUME NEW f \in Content, NEW g \in Content
  PROVE  /\ Overlay(f, g) \in Content
         /\ \A r \in Row : Overlay(f, g)[r] = IF g[r] = Absent THEN f[r] ELSE g[r]
BY DEF Overlay, Content

LEMMA EntriesTyped ==
  ASSUME NEW r \in Row, NEW v \in Value \cup {Absent}
  PROVE  /\ Entries(r, v) \in SUBSET (Key \X Row)
         /\ \A e \in Entries(r, v) : e[2] = r /\ v # Absent /\ e[1] \in IndexOf[v]
         /\ v # Absent => \A k \in IndexOf[v] : <<k, r>> \in Entries(r, v)
BY StoreAssumption DEF Entries

\* Whoever turns an object that readers see into one with more keys leaves the
\* indexes as good as they were.
LEMMA IndexFitsTurned ==
  ASSUME NEW ix \in SUBSET (Key \X Row), NEW f \in Content, NEW g \in Content,
         NEW r \in Row, NEW v \in Value, NEW w \in Value, <<v, w>> \in InPlace,
         IndexFits(ix, f),
         \A s \in Row : g[s] = f[s] \/ (f[s] = v /\ g[s] = w)
  PROVE  IndexFits(ix, g)
<1>1. ASSUME NEW e \in ix PROVE g[e[2]] # Absent /\ e[1] \in IndexOf[g[e[2]]]
  <2>1. e[2] \in Row
    OBVIOUS
  <2>2. f[e[2]] # Absent /\ e[1] \in IndexOf[f[e[2]]]
    BY DEF IndexFits
  <2> QED BY <2>1, <2>2, StoreAssumption
<1>2. ASSUME NEW s \in Row, g[s] # Absent
      PROVE \E u \in Value : Older(u, g[s]) /\ \A k \in IndexOf[u] : <<k, s>> \in ix
  <2>1. f[s] # Absent
    BY <1>2, StoreAssumption
  <2>2. PICK u \in Value : Older(u, f[s]) /\ \A k \in IndexOf[u] : <<k, s>> \in ix
    BY <2>1 DEF IndexFits
  <2>3. Older(u, g[s])
    BY <2>2, OlderTransitive
  <2> QED BY <2>2, <2>3
<1> QED BY <1>1, <1>2 DEF IndexFits

LEMMA IndexFitsSame ==
  ASSUME NEW ix, NEW f \in Content, NEW g \in Content, \A r \in Row : g[r] = f[r],
         IndexFits(ix, f)
  PROVE  IndexFits(ix, g)
<1>1. f = g
  BY DEF Content
<1> QED BY <1>1

-----------------------------------------------------------------------------
(* NewState, Close and the end of the process                              *)

THEOREM InitStoreInv == StoreInit => StoreInv
<1> SUFFICES ASSUME StoreInit PROVE StoreInv
  OBVIOUS
<1>1. StoreTypeOK
  BY NothingTyped DEF StoreInit, StoreTypeOK
<1>2. MemIsDisk /\ NothingInMemory
  BY DEF StoreInit, MemIsDisk, Serving, NothingInMemory
<1>3. IndexFits(index, mem)
  BY DEF StoreInit, IndexFits, Nothing
<1>4. TxnFits
  BY DEF StoreInit, TxnFits, NoTxn, Nothing
<1> QED BY <1>1, <1>2, <1>3, <1>4 DEF StoreInv

LEMMA OpenDBInv == ASSUME StoreInv, OpenDB PROVE StoreInv'
<1>1. db = "down" /\ db' = "opened" /\ disk' = disk /\ mem' = mem /\ index' = index /\ txn' = txn
  BY DEF OpenDB
<1>2. mem = Nothing /\ txn = NoTxn
  BY <1>1 DEF StoreInv, NothingInMemory, Serving
<1>3. StoreTypeOK'
  BY <1>1 DEF StoreInv, StoreTypeOK
<1>4. MemIsDisk' /\ NothingInMemory'
  BY <1>1, <1>2 DEF MemIsDisk, Serving, NothingInMemory, Nothing, NoTxn
<1>5. IndexFits(index, mem)'
  BY <1>1 DEF StoreInv, IndexFits, Older
<1>6. TxnFits'
  BY <1>1, <1>2 DEF TxnFits, NoTxn, Nothing
<1> QED BY <1>3, <1>4, <1>5, <1>6 DEF StoreInv

LEMMA ReIndexInv == ASSUME StoreInv, ReIndex PROVE StoreInv'
<1>1. /\ db = "opened" /\ db' = "open" /\ disk' = disk /\ mem' = disk /\ txn' = txn
      /\ index' = UNION {Entries(r, disk[r]) : r \in Row}
  BY DEF ReIndex
<1>2. txn = NoTxn /\ disk \in Content
  BY <1>1 DEF StoreInv, NothingInMemory, Serving, StoreTypeOK
<1>3. \A r \in Row : disk[r] \in Value \cup {Absent}
  BY <1>2 DEF Content
<1>4. index' \in SUBSET (Key \X Row)
  BY <1>1, <1>3, EntriesTyped
<1>5. StoreTypeOK'
  BY <1>1, <1>2, <1>4 DEF StoreInv, StoreTypeOK
<1>6. MemIsDisk' /\ NothingInMemory'
  BY <1>1 DEF MemIsDisk, Serving, NothingInMemory, Older
<1>7. IndexFits(index, mem)'
  <2>1. ASSUME NEW e \in index' PROVE disk[e[2]] # Absent /\ e[1] \in IndexOf[disk[e[2]]]
    <3>1. PICK r \in Row : e \in Entries(r, disk[r])
      BY <1>1, <2>1
    <3> QED BY <1>3, <3>1, EntriesTyped
  <2>2. ASSUME NEW r \in Row, disk[r] # Absent
        PROVE \E u \in Value : Older(u, disk[r]) /\ \A k \in IndexOf[u] : <<k, r>> \in index'
    <3>1. disk[r] \in Value
      BY <1>3, <2>2
    <3>2. \A k \in IndexOf[disk[r]] : <<k, r>> \in index'
      BY <1>1, <1>3, <2>2, EntriesTyped
    <3> QED BY <3>1, <3>2 DEF Older
  <2> QED BY <1>1, <2>1, <2>2 DEF IndexFits, Older
<1>8. TxnFits'
  BY <1>1, <1>2 DEF TxnFits, NoTxn, Nothing
<1> QED BY <1>5, <1>6, <1>7, <1>8 DEF StoreInv

LEMMA ProcessEndsInv == ASSUME StoreInv, ProcessEnds PROVE StoreInv'
<1>1. db' = "down" /\ mem' = Nothing /\ index' = {} /\ txn' = NoTxn /\ disk' = disk
  BY DEF ProcessEnds
<1>2. StoreTypeOK'
  BY <1>1, NothingTyped DEF StoreInv, StoreTypeOK
<1>3. MemIsDisk' /\ NothingInMemory'
  BY <1>1 DEF MemIsDisk, Serving, NothingInMemory, Nothing, NoTxn
<1>4. IndexFits(index, mem)'
  BY <1>1 DEF IndexFits, Nothing
<1>5. TxnFits'
  BY <1>1 DEF TxnFits, NoTxn, Nothing
<1> QED BY <1>2, <1>3, <1>4, <1>5 DEF StoreInv

LEMMA CloseDBInv == ASSUME StoreInv, CloseDB PROVE StoreInv'
<1>1. db = "open" /\ db' = "closed" /\ disk' = disk /\ mem' = mem /\ index' = index /\ txn' = txn
  BY DEF CloseDB
<1>2. StoreTypeOK' /\ NothingInMemory'
  BY <1>1 DEF StoreInv, StoreTypeOK, NothingInMemory, Serving
<1>3. MemIsDisk'
  BY <1>1 DEF StoreInv, MemIsDisk, Serving, InWindow, Older
<1>4. IndexFits(index, mem)'
  BY <1>1 DEF StoreInv, IndexFits, Older
<1>5. TxnFits'
  <2>1. txn.pc # "none" => IndexFits(txn.index, Overlay(mem, txn.memTxn))'
    BY <1>1 DEF StoreInv, TxnFits, IndexFits, Overlay, Older
  <2> QED BY <1>1, <2>1 DEF StoreInv, TxnFits, Serving, InWindow, Older, Written, AllPut, Nothing, NoTxn
<1> QED BY <1>2, <1>3, <1>4, <1>5 DEF StoreInv

-----------------------------------------------------------------------------
(* UpsertDuties, UpsertValidator                                           *)

LEMMA BeginInv ==
  ASSUME StoreInv, NEW c \in Caller, NEW batch \in Content, Begin(c, batch)
  PROVE  StoreInv'
<1>1. /\ db = "open" /\ txn.pc = "none"
      /\ db' = db /\ disk' = disk /\ mem' = mem /\ index' = index
      /\ txn' = [pc |-> "writing", caller |-> c, todo |-> batch,
                 memTxn |-> Nothing, dbTxn |-> Nothing, index |-> index]
  BY DEF Begin, NoTxn
<1>2. /\ txn'.pc = "writing" /\ txn'.todo = batch /\ txn'.memTxn = Nothing
      /\ txn'.dbTxn = Nothing /\ txn'.index = index
  BY <1>1
<1>3. StoreTypeOK'
  BY <1>1, NothingTyped DEF StoreInv, StoreTypeOK, Transaction
<1>4. MemIsDisk' /\ NothingInMemory'
  BY <1>1, <1>2 DEF StoreInv, MemIsDisk, Serving, NothingInMemory, InWindow, Older
<1>5. IndexFits(index, mem)'
  BY <1>1 DEF StoreInv, IndexFits, Older
<1>6. IndexFits(txn.index, Overlay(mem, txn.memTxn))'
  <2>1. mem \in Content /\ Nothing \in Content /\ \A r \in Row : Nothing[r] = Absent
    BY NothingTyped DEF StoreInv, StoreTypeOK, Nothing
  <2>2. /\ Overlay(mem, Nothing) \in Content
        /\ \A r \in Row : Overlay(mem, Nothing)[r] = mem[r]
    BY <2>1, OverlayTyped
  <2>3. IndexFits(index, Overlay(mem, Nothing))
    BY <2>1, <2>2, IndexFitsSame DEF StoreInv
  <2> QED BY <1>1, <1>2, <2>3 DEF IndexFits, Overlay, Older
<1>7. TxnFits'
  BY <1>1, <1>2, <1>6 DEF TxnFits, Nothing, Serving
<1> QED BY <1>3, <1>4, <1>5, <1>7 DEF StoreInv

\* What InsertRow does to the transaction, field by field.
LEMMA InsertRowEffect ==
  ASSUME StoreInv, NEW r \in Row, InsertRow(r)
  PROVE  /\ txn.pc = "writing" /\ txn'.pc = "writing"
         /\ txn.todo[r] \in Value /\ txn.memTxn[r] = Absent /\ txn.dbTxn[r] = Absent
         /\ txn'.caller = txn.caller /\ txn'.dbTxn = txn.dbTxn
         /\ txn'.todo = [txn.todo EXCEPT ![r] = Absent]
         /\ txn'.memTxn = [txn.memTxn EXCEPT ![r] = txn.todo[r]]
         /\ txn'.index = (txn.index \ Entries(r, mem[r])) \cup Entries(r, txn.todo[r])
         /\ txn' \in Transaction
<1>1. txn \in Transaction /\ mem \in Content
  BY DEF StoreInv, StoreTypeOK
<1>2. txn.pc = "writing" /\ txn.todo[r] # Absent
  BY DEF InsertRow
<1>3. txn.todo[r] \in Value /\ mem[r] \in Value \cup {Absent}
  BY <1>1, <1>2 DEF Transaction, Content
<1>4. txn.memTxn[r] = Absent /\ txn.dbTxn[r] = Absent
  BY <1>2 DEF StoreInv, TxnFits
<1>5. txn' = [pc |-> txn.pc, caller |-> txn.caller,
              todo |-> [txn.todo EXCEPT ![r] = Absent],
              memTxn |-> [txn.memTxn EXCEPT ![r] = txn.todo[r]],
              dbTxn |-> txn.dbTxn,
              index |-> (txn.index \ Entries(r, mem[r])) \cup Entries(r, txn.todo[r])]
  BY <1>1 DEF InsertRow, Transaction
<1>6. Entries(r, txn.todo[r]) \in SUBSET (Key \X Row)
  BY <1>3, EntriesTyped
<1>7. txn' \in Transaction
  BY <1>1, <1>3, <1>5, <1>6 DEF Transaction, Content
<1> QED BY <1>2, <1>3, <1>4, <1>5, <1>7

\* The row had no object in the transaction, so the index entries it had are
\* those of the object readers see, and all of them make way.
LEMMA InsertRowInv == ASSUME StoreInv, NEW r \in Row, InsertRow(r) PROVE StoreInv'
<1>1. /\ txn.pc = "writing" /\ txn'.pc = "writing"
      /\ txn.todo[r] \in Value /\ txn.memTxn[r] = Absent /\ txn.dbTxn[r] = Absent
      /\ txn'.dbTxn = txn.dbTxn
      /\ txn'.todo = [txn.todo EXCEPT ![r] = Absent]
      /\ txn'.memTxn = [txn.memTxn EXCEPT ![r] = txn.todo[r]]
      /\ txn'.index = (txn.index \ Entries(r, mem[r])) \cup Entries(r, txn.todo[r])
      /\ txn' \in Transaction
  BY InsertRowEffect
<1>2. db' = db /\ disk' = disk /\ mem' = mem /\ index' = index
  BY DEF InsertRow
<1>3. txn \in Transaction /\ mem \in Content
  BY DEF StoreInv, StoreTypeOK
<1>4. \A s \in Row : /\ txn'.todo[s] = IF s = r THEN Absent ELSE txn.todo[s]
                     /\ txn'.memTxn[s] = IF s = r THEN txn.todo[r] ELSE txn.memTxn[s]
  BY <1>1, <1>3 DEF Transaction, Content
<1>5. StoreTypeOK'
  BY <1>1, <1>2 DEF StoreInv, StoreTypeOK
<1>6. MemIsDisk' /\ NothingInMemory'
  BY <1>1, <1>2 DEF StoreInv, MemIsDisk, Serving, NothingInMemory, InWindow, Older, NoTxn
<1>7. IndexFits(index, mem)'
  BY <1>2 DEF StoreInv, IndexFits, Older
<1>8. IndexFits(txn.index, Overlay(mem, txn.memTxn))'
  <2> DEFINE f == Overlay(mem, txn.memTxn)
             g == Overlay(mem, txn'.memTxn)
  <2>1. f \in Content /\ \A s \in Row : f[s] = IF txn.memTxn[s] = Absent THEN mem[s] ELSE txn.memTxn[s]
    BY <1>3, OverlayTyped DEF Transaction
  <2>2. g \in Content /\ \A s \in Row : g[s] = IF txn'.memTxn[s] = Absent THEN mem[s] ELSE txn'.memTxn[s]
    BY <1>1, <1>3, OverlayTyped DEF Transaction
  <2>3. IndexFits(txn.index, f)
    BY <1>1 DEF StoreInv, TxnFits
  <2> HIDE DEF f, g
  <2>4. f[r] = mem[r] /\ g[r] = txn.todo[r] /\ \A s \in Row \ {r} : g[s] = f[s]
    BY <1>1, <1>4, <2>1, <2>2, StoreAssumption
  <2>5. txn.index \in SUBSET (Key \X Row) /\ mem[r] \in Value \cup {Absent}
    BY <1>3 DEF Transaction, Content
  <2>6. ASSUME NEW e \in txn'.index PROVE g[e[2]] # Absent /\ e[1] \in IndexOf[g[e[2]]]
    <3>1. CASE e \in Entries(r, txn.todo[r])
      BY <1>1, <2>4, <3>1, EntriesTyped, StoreAssumption
    <3>2. CASE e \in txn.index /\ e \notin Entries(r, mem[r])
      <4>1. f[e[2]] # Absent /\ e[1] \in IndexOf[f[e[2]]] /\ e[2] \in Row /\ e = <<e[1], e[2]>>
        BY <2>3, <2>5, <3>2 DEF IndexFits
      <4>2. e[2] # r
        BY <2>4, <2>5, <3>2, <4>1, EntriesTyped
      <4> QED BY <2>4, <4>1, <4>2
    <3> QED BY <1>1, <2>6, <3>1, <3>2
  <2>7. ASSUME NEW s \in Row, g[s] # Absent
        PROVE \E u \in Value : Older(u, g[s]) /\ \A k \in IndexOf[u] : <<k, s>> \in txn'.index
    <3>1. CASE s = r
      <4>1. \A k \in IndexOf[txn.todo[r]] : <<k, r>> \in txn'.index
        BY <1>1, EntriesTyped, StoreAssumption
      <4> QED BY <1>1, <2>4, <3>1, <4>1 DEF Older
    <3>2. CASE s # r
      <4>1. PICK u \in Value : Older(u, f[s]) /\ \A k \in IndexOf[u] : <<k, s>> \in txn.index
        BY <2>3, <2>4, <2>7, <3>2 DEF IndexFits
      <4>2. \A k : <<k, s>> \notin Entries(r, mem[r])
        BY <2>5, <3>2, EntriesTyped
      <4> QED BY <1>1, <2>4, <3>2, <4>1, <4>2
    <3> QED BY <3>1, <3>2
  <2>8. IndexFits(txn'.index, g)
    BY <2>6, <2>7 DEF IndexFits
  <2> QED BY <1>2, <2>8 DEF g, IndexFits, Overlay, Older
<1>9. TxnFits'
  BY <1>1, <1>2, <1>4, <1>8, StoreAssumption DEF StoreInv, TxnFits, Older, Serving
<1> QED BY <1>5, <1>6, <1>7, <1>9 DEF StoreInv

LEMMA PutRowInv == ASSUME StoreInv, NEW r \in Row, PutRow(r) PROVE StoreInv'
<1>1. /\ txn.pc = "writing" /\ txn.memTxn[r] # Absent
      /\ db' = db /\ disk' = disk /\ mem' = mem /\ index' = index
      /\ txn' = [txn EXCEPT !.dbTxn[r] = txn.memTxn[r]]
  BY DEF PutRow
<1>2. txn \in Transaction
  BY DEF StoreInv, StoreTypeOK
<1>3. txn' = [pc |-> txn.pc, caller |-> txn.caller, todo |-> txn.todo, memTxn |-> txn.memTxn,
              dbTxn |-> [txn.dbTxn EXCEPT ![r] = txn.memTxn[r]], index |-> txn.index]
  BY <1>1, <1>2 DEF Transaction
<1>4. /\ txn'.pc = "writing" /\ txn'.todo = txn.todo /\ txn'.memTxn = txn.memTxn
      /\ txn'.index = txn.index
      /\ \A s \in Row : txn'.dbTxn[s] = IF s = r THEN txn.memTxn[r] ELSE txn.dbTxn[s]
  BY <1>1, <1>2, <1>3 DEF Transaction, Content
<1>5. txn' \in Transaction
  BY <1>2, <1>3 DEF Transaction, Content
<1>6. StoreTypeOK'
  BY <1>1, <1>5 DEF StoreInv, StoreTypeOK
<1>7. MemIsDisk' /\ NothingInMemory'
  BY <1>1, <1>4 DEF StoreInv, MemIsDisk, Serving, NothingInMemory, InWindow, Older, NoTxn
<1>8. IndexFits(index, mem)'
  BY <1>1 DEF StoreInv, IndexFits, Older
<1>9. IndexFits(txn.index, Overlay(mem, txn.memTxn))'
  <2>1. IndexFits(txn.index, Overlay(mem, txn.memTxn))
    BY <1>1 DEF StoreInv, TxnFits
  <2>2. Overlay(mem, txn.memTxn)' = Overlay(mem, txn.memTxn)
    BY <1>1, <1>4 DEF Overlay
  <2>3. txn'.index = txn.index
    BY <1>1, <1>4
  <2> QED BY <2>1, <2>2, <2>3 DEF IndexFits, Older
<1>10. TxnFits'
  BY <1>1, <1>4, <1>9 DEF StoreInv, TxnFits, Older, Serving
<1> QED BY <1>6, <1>7, <1>8, <1>10 DEF StoreInv

LEMMA WriteFailsInv == ASSUME StoreInv, WriteFails PROVE StoreInv'
<1>1. /\ txn.pc = "writing" /\ txn' = NoTxn
      /\ db' = db /\ disk' = disk /\ mem' = mem /\ index' = index
  BY DEF WriteFails
<1>2. StoreTypeOK'
  BY <1>1, NothingTyped DEF StoreInv, StoreTypeOK
<1>3. MemIsDisk' /\ NothingInMemory'
  BY <1>1 DEF StoreInv, MemIsDisk, Serving, NothingInMemory, InWindow, Older, NoTxn
<1>4. IndexFits(index, mem)'
  BY <1>1 DEF StoreInv, IndexFits, Older
<1>5. TxnFits'
  BY <1>1 DEF TxnFits, NoTxn, Nothing
<1> QED BY <1>2, <1>3, <1>4, <1>5 DEF StoreInv

\* The rows that change on disk are those of the transaction, which is now
\* between its two commits.
LEMMA CommitDBInv == ASSUME StoreInv, CommitDB PROVE StoreInv'
<1>1. /\ txn.pc = "writing" /\ Written
      /\ disk' = Overlay(disk, txn.dbTxn)
      /\ db' = db /\ mem' = mem /\ index' = index
      /\ txn' = [txn EXCEPT !.pc = "committed"]
  BY DEF CommitDB
<1>2. txn \in Transaction /\ disk \in Content
  BY DEF StoreInv, StoreTypeOK
<1>3. /\ txn'.pc = "committed" /\ txn'.todo = txn.todo /\ txn'.memTxn = txn.memTxn
      /\ txn'.dbTxn = txn.dbTxn /\ txn'.index = txn.index /\ txn' \in Transaction
  BY <1>1, <1>2 DEF Transaction
<1>4. /\ disk' \in Content
      /\ \A s \in Row : disk'[s] = IF txn.dbTxn[s] = Absent THEN disk[s] ELSE txn.dbTxn[s]
  BY <1>1, <1>2, OverlayTyped DEF Transaction
<1>5. StoreTypeOK'
  BY <1>1, <1>3, <1>4 DEF StoreInv, StoreTypeOK
<1>6. NothingInMemory'
  BY <1>1 DEF StoreInv, TxnFits, NothingInMemory, Serving
<1>7. MemIsDisk'
  BY <1>1, <1>3, <1>4 DEF StoreInv, MemIsDisk, Serving, InWindow, Older
<1>8. IndexFits(index, mem)'
  BY <1>1 DEF StoreInv, IndexFits, Older
<1>9. IndexFits(txn.index, Overlay(mem, txn.memTxn))'
  <2>1. IndexFits(txn.index, Overlay(mem, txn.memTxn))
    BY <1>1 DEF StoreInv, TxnFits
  <2> QED BY <1>1, <1>3, <2>1 DEF IndexFits, Overlay, Older
<1>10. Written'
  BY <1>1, <1>3 DEF Written, AllPut, Nothing
<1>11. TxnFits'
  BY <1>1, <1>3, <1>4, <1>9, <1>10 DEF StoreInv, TxnFits, InWindow, Older, Serving
<1> QED BY <1>5, <1>6, <1>7, <1>8, <1>11 DEF StoreInv

\* The rows of the transaction become visible; each is the one on disk, or
\* what its owner has made of it since.
LEMMA CommitMemInv == ASSUME StoreInv, CommitMem PROVE StoreInv'
<1>1. /\ txn.pc = "committed" /\ mem' = Overlay(mem, txn.memTxn) /\ index' = txn.index
      /\ txn' = NoTxn /\ db' = db /\ disk' = disk
  BY DEF CommitMem
<1>2. txn \in Transaction /\ mem \in Content
  BY DEF StoreInv, StoreTypeOK
<1>3. /\ mem' \in Content
      /\ \A s \in Row : mem'[s] = IF txn.memTxn[s] = Absent THEN mem[s] ELSE txn.memTxn[s]
  BY <1>1, <1>2, OverlayTyped DEF Transaction
<1>4. StoreTypeOK'
  BY <1>1, <1>2, <1>3, NothingTyped DEF StoreInv, StoreTypeOK, Transaction
<1>5. Serving /\ \A s \in Row : txn.memTxn[s] # Absent <=> txn.dbTxn[s] # Absent
  BY <1>1 DEF StoreInv, TxnFits, Written, AllPut
<1>6. MemIsDisk' /\ NothingInMemory'
  <2>1. \A s \in Row : Older(disk[s], mem'[s])
    BY <1>1, <1>3, <1>5 DEF StoreInv, MemIsDisk, TxnFits, InWindow
  <2> QED BY <1>1, <1>5, <2>1 DEF MemIsDisk, NothingInMemory, Serving, Older
<1>7. IndexFits(index, mem)'
  <2>1. IndexFits(txn.index, Overlay(mem, txn.memTxn))
    BY <1>1 DEF StoreInv, TxnFits
  <2> QED BY <1>1, <2>1 DEF IndexFits, Older
<1>8. TxnFits'
  BY <1>1 DEF TxnFits, NoTxn, Nothing
<1> QED BY <1>4, <1>6, <1>7, <1>8 DEF StoreInv

-----------------------------------------------------------------------------
(* The owner of an object changes it                                       *)

LEMMA TurnedTyped ==
  ASSUME NEW f \in Content, NEW g, NEW r \in Row, NEW v \in Value, NEW w \in Value,
         g = [f EXCEPT ![r] = Turned(@, v, w)]
  PROVE  /\ g \in Content
         /\ \A s \in Row : g[s] = f[s] \/ (s = r /\ f[s] = v /\ g[s] = w)
         /\ \A s \in Row : f[s] = Absent <=> g[s] = Absent
BY StoreAssumption DEF Content, Turned

\* What Complete does to the transaction, field by field.
LEMMA CompleteEffect ==
  ASSUME StoreInv, NEW r \in Row, NEW v \in Value, NEW w \in Value, Complete(r, v, w)
  PROVE  /\ txn'.pc = txn.pc /\ txn'.caller = txn.caller
         /\ txn'.dbTxn = txn.dbTxn /\ txn'.index = txn.index
         /\ txn'.todo = [txn.todo EXCEPT ![r] = Turned(@, v, w)]
         /\ txn'.memTxn = [txn.memTxn EXCEPT ![r] = Turned(@, v, w)]
         /\ txn' \in Transaction
<1>1. txn \in Transaction
  BY DEF StoreInv, StoreTypeOK
<1>2. txn' = [pc |-> txn.pc, caller |-> txn.caller,
              todo |-> [txn.todo EXCEPT ![r] = Turned(@, v, w)],
              memTxn |-> [txn.memTxn EXCEPT ![r] = Turned(@, v, w)],
              dbTxn |-> txn.dbTxn, index |-> txn.index]
  BY <1>1 DEF Complete, Transaction
<1>3. txn'.todo \in Content /\ txn'.memTxn \in Content
  BY <1>1, <1>2, TurnedTyped DEF Transaction
<1>4. txn' \in Transaction
  BY <1>1, <1>2, <1>3 DEF Transaction
<1> QED BY <1>2, <1>4

\* An object only grows: it keeps its keys, and remains newer than what was
\* encoded from it.
LEMMA CompleteInv ==
  ASSUME StoreInv, NEW r \in Row, NEW v \in Value, NEW w \in Value, Complete(r, v, w)
  PROVE  StoreInv'
<1>1. /\ txn'.pc = txn.pc /\ txn'.caller = txn.caller
      /\ txn'.dbTxn = txn.dbTxn /\ txn'.index = txn.index
      /\ txn'.todo = [txn.todo EXCEPT ![r] = Turned(@, v, w)]
      /\ txn'.memTxn = [txn.memTxn EXCEPT ![r] = Turned(@, v, w)]
      /\ txn' \in Transaction
  BY CompleteEffect
<1>2. /\ Serving /\ <<v, w>> \in InPlace
      /\ mem' = [mem EXCEPT ![r] = Turned(@, v, w)]
      /\ db' = db /\ disk' = disk /\ index' = index
  BY DEF Complete, Serving
<1>3. txn \in Transaction /\ mem \in Content /\ disk \in Content /\ index \in SUBSET (Key \X Row)
  BY DEF StoreInv, StoreTypeOK
<1>4. /\ mem' \in Content
      /\ \A s \in Row : mem'[s] = mem[s] \/ (s = r /\ mem[s] = v /\ mem'[s] = w)
      /\ \A s \in Row : mem[s] = Absent <=> mem'[s] = Absent
  BY <1>2, <1>3, StoreAssumption DEF Content, Turned
<1>5. /\ txn'.memTxn \in Content
      /\ \A s \in Row : txn'.memTxn[s] = txn.memTxn[s]
                         \/ (s = r /\ txn.memTxn[s] = v /\ txn'.memTxn[s] = w)
      /\ \A s \in Row : txn.memTxn[s] = Absent <=> txn'.memTxn[s] = Absent
  BY <1>1, <1>3, TurnedTyped DEF Transaction
<1>6. /\ txn'.todo \in Content
      /\ \A s \in Row : txn.todo[s] = Absent <=> txn'.todo[s] = Absent
  BY <1>1, <1>3, TurnedTyped DEF Transaction
<1>7. StoreTypeOK'
  BY <1>1, <1>2, <1>4 DEF StoreInv, StoreTypeOK
<1>8. NothingInMemory'
  BY <1>2 DEF NothingInMemory, Serving
<1>9. MemIsDisk'
  <2>1. ASSUME NEW s \in Row PROVE (InWindow(s) \/ Older(disk[s], mem[s]))
    BY <1>2 DEF StoreInv, MemIsDisk
  <2>2. ASSUME NEW s \in Row, Older(disk[s], mem[s]) PROVE Older(disk[s], mem'[s])
    <3>1. disk[s] \in Value \cup {Absent}
      BY <1>3 DEF Content
    <3> QED BY <1>2, <1>4, <2>2, <3>1, OlderTransitive
  <2>3. \A s \in Row : InWindow(s)' <=> InWindow(s)
    BY <1>1 DEF InWindow
  <2> QED BY <1>2, <2>1, <2>2, <2>3 DEF MemIsDisk, Older
<1>10. IndexFits(index, mem)'
  <2>1. IndexFits(index, mem) /\ \A s \in Row : mem'[s] = mem[s] \/ (mem[s] = v /\ mem'[s] = w)
    BY <1>4 DEF StoreInv
  <2> DEFINE g == mem'
  <2>2. g \in Content /\ \A s \in Row : g[s] = mem[s] \/ (mem[s] = v /\ g[s] = w)
    BY <1>4, <2>1
  <2> HIDE DEF g
  <2>3. IndexFits(index, g)
    BY <1>2, <1>3, <2>1, <2>2, IndexFitsTurned
  <2> QED BY <1>2, <2>3 DEF g, IndexFits, Older
<1>11. ASSUME txn.pc # "none" PROVE IndexFits(txn.index, Overlay(mem, txn.memTxn))'
  <2> DEFINE f == Overlay(mem, txn.memTxn)
             g == Overlay(mem', txn'.memTxn)
  <2>1. f \in Content /\ \A s \in Row : f[s] = IF txn.memTxn[s] = Absent THEN mem[s] ELSE txn.memTxn[s]
    BY <1>3, OverlayTyped DEF Transaction
  <2>2. g \in Content /\ \A s \in Row : g[s] = IF txn'.memTxn[s] = Absent THEN mem'[s] ELSE txn'.memTxn[s]
    BY <1>4, <1>5, OverlayTyped
  <2>3. IndexFits(txn.index, f) /\ txn.index \in SUBSET (Key \X Row)
    BY <1>3, <1>11 DEF StoreInv, TxnFits, Transaction
  <2> HIDE DEF f, g
  <2>4. \A s \in Row : g[s] = f[s] \/ (f[s] = v /\ g[s] = w)
    BY <1>4, <1>5, <2>1, <2>2
  <2>5. IndexFits(txn.index, g)
    BY <1>2, <2>1, <2>2, <2>3, <2>4, IndexFitsTurned
  <2> QED BY <1>1, <2>5 DEF g, IndexFits, Overlay, Older
<1>12. ASSUME txn.pc = "none" PROVE txn' = NoTxn
  <2>1. txn = NoTxn
    BY <1>12 DEF StoreInv, TxnFits
  <2>2. txn'.todo = Nothing /\ txn'.memTxn = Nothing
    BY <1>1, <2>1, StoreAssumption DEF NoTxn, Nothing, Turned
  <2> QED BY <1>1, <2>1, <2>2 DEF NoTxn, Transaction
<1>13. ASSUME NEW s \in Row, txn'.dbTxn[s] # Absent
       PROVE txn'.memTxn[s] # Absent /\ Older(txn'.dbTxn[s], txn'.memTxn[s])
  <2>1. txn.memTxn[s] # Absent /\ Older(txn.dbTxn[s], txn.memTxn[s])
    BY <1>1, <1>13 DEF StoreInv, TxnFits
  <2>2. txn.dbTxn[s] \in Value \cup {Absent}
    BY <1>3 DEF Transaction, Content
  <2> QED BY <1>1, <1>2, <1>5, <2>1, <2>2, OlderTransitive
<1>14. ASSUME txn.pc = "committed" PROVE Written' /\ \A s \in Row : InWindow(s)' => disk'[s] = txn'.dbTxn[s]
  <2>1. txn.todo = Nothing /\ \A s \in Row : InWindow(s) => disk[s] = txn.dbTxn[s]
    BY <1>14 DEF StoreInv, TxnFits, Written
  <2>2. txn'.todo = Nothing
    BY <1>1, <2>1, StoreAssumption DEF Nothing, Turned
  <2>3. AllPut'
    BY <1>1, <1>5, <1>14 DEF StoreInv, TxnFits, Written, AllPut
  <2> QED BY <1>1, <1>2, <2>1, <2>2, <2>3 DEF Written, InWindow, Nothing
<1>15. TxnFits'
  <2>1. \A s \in Row : txn'.memTxn[s] # Absent => txn'.todo[s] = Absent
    BY <1>5, <1>6 DEF StoreInv, TxnFits
  <2>2. Serving'
    BY <1>2 DEF Serving
  <2>3. txn'.pc = "none" => txn' = NoTxn
    BY <1>1, <1>12
  <2>4. txn'.pc = "committed" => Written' /\ \A s \in Row : InWindow(s)' => disk'[s] = txn'.dbTxn[s]
    BY <1>1, <1>14
  <2>5. txn'.pc # "none" => IndexFits(txn.index, Overlay(mem, txn.memTxn))'
    BY <1>1, <1>11
  <2> QED BY <1>13, <2>1, <2>2, <2>3, <2>4, <2>5 DEF TxnFits, Older, NoTxn, Nothing
<1> QED BY <1>7, <1>8, <1>9, <1>10, <1>15 DEF StoreInv

-----------------------------------------------------------------------------
(* The theorems                                                            *)

LEMMA StutterInv == ASSUME StoreInv, UNCHANGED storeVars PROVE StoreInv'
<1>1. db' = db /\ disk' = disk /\ mem' = mem /\ index' = index /\ txn' = txn
  BY DEF storeVars
<1>2. StoreTypeOK' /\ NothingInMemory'
  BY <1>1 DEF StoreInv, StoreTypeOK, NothingInMemory, Serving
<1>3. MemIsDisk'
  BY <1>1 DEF StoreInv, MemIsDisk, Serving, InWindow, Older
<1>4. IndexFits(index, mem)'
  BY <1>1 DEF StoreInv, IndexFits, Older
<1>5. txn.pc # "none" => IndexFits(txn.index, Overlay(mem, txn.memTxn))'
  BY <1>1 DEF StoreInv, TxnFits, IndexFits, Overlay, Older
<1>6. TxnFits'
  BY <1>1, <1>5 DEF StoreInv, TxnFits, Serving, InWindow, Older, Written, AllPut, Nothing, NoTxn
<1> QED BY <1>2, <1>3, <1>4, <1>6 DEF StoreInv

LEMMA StoreInvStep == StoreInv /\ [StoreNext]_storeVars => StoreInv'
<1> SUFFICES ASSUME StoreInv, [StoreNext]_storeVars PROVE StoreInv'
  OBVIOUS
<1>1. CASE OpenDB
  BY <1>1, OpenDBInv
<1>2. CASE ReIndex
  BY <1>2, ReIndexInv
<1>3. CASE CloseDB
  BY <1>3, CloseDBInv
<1>4. CASE ProcessEnds
  BY <1>4, ProcessEndsInv
<1>5. ASSUME NEW c \in Caller, NEW batch \in Content, Begin(c, batch) PROVE StoreInv'
  BY <1>5, BeginInv
<1>6. ASSUME NEW r \in Row, InsertRow(r) PROVE StoreInv'
  BY <1>6, InsertRowInv
<1>7. ASSUME NEW r \in Row, PutRow(r) PROVE StoreInv'
  BY <1>7, PutRowInv
<1>8. CASE WriteFails
  BY <1>8, WriteFailsInv
<1>9. CASE CommitDB
  BY <1>9, CommitDBInv
<1>10. CASE CommitMem
  BY <1>10, CommitMemInv
<1>11. ASSUME NEW r \in Row, NEW v \in Value, NEW w \in Value, Complete(r, v, w) PROVE StoreInv'
  BY <1>11, CompleteInv
<1>12. CASE UNCHANGED storeVars
  BY <1>12, StutterInv
<1> QED
  BY <1>1, <1>2, <1>3, <1>4, <1>5, <1>6, <1>7, <1>8, <1>9, <1>10, <1>11, <1>12 DEF StoreNext

\* However writers, owners, failures, Close and the end of the process
\* interleave, memory, disk, indexes and the two transactions agree.
THEOREM StoreInvHolds == StoreSpec => []StoreInv
<1> QED BY InitStoreInv, StoreInvStep, PTL DEF StoreSpec

\* Readers see what is on disk, but for the rows between the two commits: a
\* restart brings back every write that returned.
THEOREM MemoryIsDisk == StoreSpec => []MemIsDisk
<1>1. StoreInv => MemIsDisk
  BY DEF StoreInv
<1> QED BY <1>1, StoreInvHolds, PTL

-----------------------------------------------------------------------------
(* The refinement                                                          *)

Requests == [r \in Row |-> Requested(r)]

LEMMA RequestsTyped == StoreInv => /\ Requests \in Content
                                   /\ \A r \in Row : Requests[r] = Requested(r)
<1> SUFFICES ASSUME StoreInv
             PROVE  Requests \in Content /\ \A r \in Row : Requests[r] = Requested(r)
  OBVIOUS
<1>1. txn.todo \in Content /\ txn.memTxn \in Content /\ txn.dbTxn \in Content
  BY DEF StoreInv, StoreTypeOK, Transaction
<1> QED BY <1>1 DEF Requests, Requested, Content

LEMMA NothingRequested == txn.pc # "writing" => Requests = Nothing
BY DEF Requests, Requested, Nothing

\* A step that leaves the disk and the requests alone is a stutter.
LEMMA SameRequests ==
  ASSUME disk' = disk, \A r \in Row : Requested(r)' = Requested(r)
  PROVE  Requests' = Requests
BY DEF Requests

LEMMA StoreStepRefines ==
  StoreInv /\ StoreInv' /\ [StoreNext]_storeVars => [Durable!Next]_<<disk, Requests>>
<1> SUFFICES ASSUME StoreInv, StoreInv', [StoreNext]_storeVars
             PROVE  Durable!Next \/ (disk' = disk /\ Requests' = Requests)
  OBVIOUS
<1> DEFINE Goal == Durable!Next \/ (disk' = disk /\ Requests' = Requests)
<1>1. /\ Requests \in Content /\ \A r \in Row : Requests[r] = Requested(r)
      /\ Requests' \in Content /\ \A r \in Row : Requests'[r] = Requested(r)'
  <2>1. (StoreInv => Requests \in Content /\ \A r \in Row : Requests[r] = Requested(r))'
    BY RequestsTyped, PTL
  <2> QED BY <2>1, RequestsTyped
<1>2. CASE txn' = txn /\ disk' = disk
  BY <1>2 DEF Requests, Requested
<1>3. CASE OpenDB \/ ReIndex \/ CloseDB \/ UNCHANGED storeVars
  BY <1>2, <1>3 DEF OpenDB, ReIndex, CloseDB, storeVars
<1>4. CASE disk' = disk /\ txn' = NoTxn
  <2>1. Requests' = Nothing
    BY <1>4 DEF Requests, Requested, Nothing, NoTxn
  <2> QED BY <1>4, <2>1 DEF Durable!Next, Durable!Refuse, Durable!Nothing, Nothing, Requests
<1>5. CASE ProcessEnds \/ WriteFails
  BY <1>4, <1>5 DEF ProcessEnds, WriteFails
<1>6. ASSUME NEW c \in Caller, NEW batch \in Content, Begin(c, batch) PROVE Goal
  <2>1. disk' = disk /\ Requests = Nothing
    BY <1>6, NothingRequested DEF Begin
  <2> QED BY <1>1, <2>1 DEF Durable!Next, Durable!Ask, Durable!Nothing, Nothing, Requests, Content
<1>7. ASSUME NEW r \in Row, InsertRow(r) PROVE Goal
  <2>1. disk' = disk
    BY <1>7 DEF InsertRow
  <2>2. \A s \in Row : Requested(s)' = Requested(s)
    <3>1. /\ txn.pc = "writing" /\ txn'.pc = "writing"
          /\ txn.memTxn[r] = Absent /\ txn.dbTxn[r] = Absent
          /\ txn'.dbTxn = txn.dbTxn
          /\ txn'.todo = [txn.todo EXCEPT ![r] = Absent]
          /\ txn'.memTxn = [txn.memTxn EXCEPT ![r] = txn.todo[r]]
          /\ txn.todo[r] \in Value
      BY <1>7, InsertRowEffect
    <3>2. txn.todo \in Content /\ txn.memTxn \in Content
      BY DEF StoreInv, StoreTypeOK, Transaction
    <3>3. \A s \in Row : /\ txn'.todo[s] = IF s = r THEN Absent ELSE txn.todo[s]
                         /\ txn'.memTxn[s] = IF s = r THEN txn.todo[r] ELSE txn.memTxn[s]
      BY <3>1, <3>2 DEF Content
    <3> QED BY <3>1, <3>3, StoreAssumption DEF Requested
  <2> QED BY <2>1, <2>2, SameRequests
<1>8. ASSUME NEW r \in Row, PutRow(r) PROVE Goal
  <2>1. disk' = disk
    BY <1>8 DEF PutRow
  <2>2. \A s \in Row : Requested(s)' = Requested(s)
    <3>1. txn \in Transaction
      BY DEF StoreInv, StoreTypeOK
    <3>2. /\ txn.pc = "writing" /\ txn'.pc = "writing"
          /\ txn.memTxn[r] # Absent /\ txn.dbTxn[r] = Absent
          /\ txn'.todo = txn.todo /\ txn'.memTxn = txn.memTxn
          /\ \A s \in Row : txn'.dbTxn[s] = IF s = r THEN txn.memTxn[r] ELSE txn.dbTxn[s]
      BY <1>8, <3>1 DEF PutRow, Transaction, Content
    <3> QED BY <3>2 DEF Requested
  <2> QED BY <2>1, <2>2, SameRequests
<1>9. CASE CommitDB
  <2>1. txn.pc = "writing" /\ Written /\ disk' = Overlay(disk, txn.dbTxn)
    BY <1>9 DEF CommitDB
  <2>2. \A s \in Row : Requests[s] = txn.dbTxn[s]
    BY <1>1, <2>1 DEF Requested, Written, AllPut, Nothing
  <2>3. disk' = Overlay(disk, Requests)
    BY <2>1, <2>2 DEF Overlay
  <2>4. txn'.pc # "writing"
    BY <1>9 DEF CommitDB, StoreInv, StoreTypeOK, Transaction
  <2>5. Requests' = Nothing
    BY <2>4 DEF Requests, Requested, Nothing
  <2> QED BY <2>3, <2>5 DEF Durable!Next, Durable!Apply, Durable!Overlay, Durable!Nothing, Overlay, Nothing, Requests
<1>10. CASE CommitMem
  <2>1. disk' = disk /\ txn.pc # "writing" /\ txn'.pc # "writing"
    BY <1>10 DEF CommitMem, NoTxn
  <2> QED BY <2>1 DEF Requests, Requested
<1>11. ASSUME NEW r \in Row, NEW v \in Value, NEW w \in Value, Complete(r, v, w) PROVE Goal
  <2>1. disk' = disk /\ <<v, w>> \in InPlace
    BY <1>11 DEF Complete
  <2>2. /\ txn'.pc = txn.pc /\ txn'.dbTxn = txn.dbTxn
        /\ txn'.todo = [txn.todo EXCEPT ![r] = Turned(@, v, w)]
        /\ txn'.memTxn = [txn.memTxn EXCEPT ![r] = Turned(@, v, w)]
    BY <1>11, CompleteEffect
  <2>3. txn.todo \in Content /\ txn.memTxn \in Content
    BY DEF StoreInv, StoreTypeOK, Transaction
  <2>4. /\ \A s \in Row : txn'.memTxn[s] = txn.memTxn[s] \/ (txn.memTxn[s] = v /\ txn'.memTxn[s] = w)
        /\ \A s \in Row : txn'.todo[s] = txn.todo[s] \/ (txn.todo[s] = v /\ txn'.todo[s] = w)
    BY <2>2, <2>3, TurnedTyped
  <2>5. \A s \in Row : Requested(s)' = Requested(s) \/ <<Requested(s), Requested(s)'>> \in InPlace
    BY <2>1, <2>2, <2>4, StoreAssumption DEF Requested
  <2> QED BY <1>1, <2>1, <2>5 DEF Durable!Next, Durable!Amend, Requests, Content
<1> QED
  BY <1>3, <1>5, <1>6, <1>7, <1>8, <1>9, <1>10, <1>11 DEF StoreNext, Goal

\* A write to the state reaches the disk as a whole or not at all, and nothing
\* but a write changes it: every step of the state is a step of DurableStore
\* or leaves the disk and the request alone.
THEOREM Refinement == StoreSpec => ImplementsDurableStore
<1>1. StoreInit => Durable!Init
  BY NothingRequested DEF StoreInit, Durable!Init, Durable!Nothing, Nothing, Requests, Requested, NoTxn
<1>2. StoreInv /\ StoreInv' /\ [StoreNext]_storeVars
        => [Durable!Next]_<<disk, [r \in Row |-> Requested(r)]>>
  BY StoreStepRefines DEF Requests
<1> QED BY <1>1, <1>2, StoreInvHolds, PTL DEF StoreSpec, ImplementsDurableStore, Durable!Spec

-----------------------------------------------------------------------------
(* The users of the state                                                  *)

\* What the users are about to write are rows of the state.
UserInv ==
  /\ lifecycle \in [pc : {"off", "read", "query", "upsert", "wait", "stopped"},
                    todo : SUBSET Row, updated : Content]
  /\ chain \in [Validator -> ActivationEpochs \cup {FarFuture, Unknown}]
  /\ object \in [Duty -> Value \cup {Absent}]

LEMMA UserInvInit == SubsInit => UserInv
BY NothingTyped DEF SubsInit, RecordsInit, LifecycleInit, UserInv, Off

LEMMA ObjectsTyped == ASSUME UserInv, NEW S PROVE S \subseteq Duty => Objects(S) \in Content
BY RecordsAssumption DEF UserInv, Objects, Content

LEMMA LifecycleUsesStore ==
  ASSUME UserInv, LifecycleStep PROVE StoreNext \/ UNCHANGED storeVars
<1> DEFINE Goal == StoreNext \/ UNCHANGED storeVars
<1>1. CASE Boot
  BY <1>1 DEF Boot, StoreNext
<1>2. CASE LoadState
  BY <1>2 DEF LoadState, StoreNext
<1>3. CASE WriteKeys
  <2>1. [r \in Row |-> IF r \in Validator THEN InitialRow(r) ELSE Absent] \in Content
    BY LifecycleAssumption DEF Content, InitialRow
  <2>2. "NewServer" \in Caller
    BY LifecycleAssumption
  <2> QED BY <1>3, <2>1, <2>2 DEF WriteKeys, StoreNext
<1>4. CASE KeysWritten \/ Registered
  BY <1>4 DEF KeysWritten, Registered, StoreNext
<1>5. CASE KeysFail \/ RegisterFails
  BY <1>5 DEF KeysFail, RegisterFails, StoreNext, storeVars
<1>6. CASE StopState
  BY <1>6 DEF StopState, StoreNext
<1>7. CASE StopSignal \/ ReadPending \/ NextRound \/ LifecycleStops
  BY <1>7 DEF StopSignal, ReadPending, NextRound, LifecycleStops
<1>8. CASE WriteStep
  BY <1>8 DEF WriteStep, StoreNext
<1>9. CASE Register
  <2>1. "validatorLifecycle" \in Caller /\ lifecycle.updated \in Content
    BY LifecycleAssumption DEF UserInv
  <2> QED BY <1>9, <2>1 DEF Register, StoreNext
<1>10. ASSUME NEW v \in Validator, QueryOk(v) \/ QueryFails(v) \/ ChainMoves(v) PROVE Goal
  BY <1>10 DEF QueryOk, QueryFails, ChainMoves
<1> QED
  BY <1>1, <1>2, <1>3, <1>4, <1>5, <1>6, <1>7, <1>8, <1>9, <1>10
     DEF LifecycleStep, NewServerStep, RoutineStep

LEMMA RecordsUseStore ==
  ASSUME UserInv, RecordsNext PROVE StoreNext \/ UNCHANGED storeVars
<1> DEFINE Goal == StoreNext \/ UNCHANGED storeVars
<1>1. ASSUME NEW P \in Plans, PlanStep(P) PROVE Goal
  <2>1. CASE EnqueuePlan(P)
    BY <2>1 DEF EnqueuePlan, lifecycleVars
  <2>2. CASE SavePlan(P)
    <3>1. "handleNewEpoch" \in Caller /\ Objects(P) \in Content
      BY ObjectsTyped, RecordsAssumption
    <3> QED BY <2>2, <3>1 DEF SavePlan, StoreNext
  <2>3. CASE PlanSaved(P) \/ PlanFails(P)
    BY <2>3 DEF PlanSaved, PlanFails, StoreNext
  <2> QED BY <1>1, <2>1, <2>2, <2>3 DEF PlanStep
<1>2. ASSUME NEW d \in Duty, ResultStep(d) PROVE Goal
  <2>1. d \in Row /\ d \in Caller
    BY RecordsAssumption
  <2>2. CASE Finish(d)
    <3>1. PICK o \in Outcomes[d] : Complete(d, object[d], DutyObject(Job[d], o))
      BY <2>2 DEF Finish
    <3>2. object[d] \in Value /\ DutyObject(Job[d], o) \in Value
      BY <3>1, StoreAssumption DEF Complete
    <3> QED BY <2>1, <3>1, <3>2 DEF StoreNext
  <2>3. CASE SaveResult(d)
    <3>1. Objects({d}) \in Content
      BY ObjectsTyped
    <3> QED BY <2>1, <2>3, <3>1 DEF SaveResult, StoreNext
  <2>4. CASE ResultSaved(d)
    BY <2>4 DEF ResultSaved, StoreNext
  <2> QED BY <1>2, <2>2, <2>3, <2>4 DEF ResultStep
<1>3. CASE DutiesExit
  BY <1>3 DEF DutiesExit, Exit, StoreNext
<1>4. CASE LifecycleStep
  BY <1>4, LifecycleUsesStore
<1> QED BY <1>1, <1>2, <1>3, <1>4 DEF RecordsNext, RecordsStep

LEMMA LifecycleKeepsUserInv ==
  ASSUME UserInv, LifecycleStep \/ Exit, object' = object PROVE UserInv'
<1>1. CASE lifecycle' = lifecycle /\ chain' = chain
  BY <1>1 DEF UserInv
<1>2. ASSUME NEW p \in {"off", "read", "query", "upsert", "wait", "stopped"},
             lifecycle' = [Off EXCEPT !.pc = p], chain' = chain
      PROVE  UserInv'
  BY <1>2, NothingTyped DEF UserInv, Off
<1>3. CASE Boot \/ LoadState \/ WriteKeys \/ KeysFail \/ StopState \/ StopSignal \/ WriteStep
  BY <1>1, <1>3 DEF Boot, LoadState, WriteKeys, KeysFail, StopState, StopSignal, WriteStep, lifeVars
<1>4. CASE KeysWritten \/ Registered \/ RegisterFails \/ NextRound \/ LifecycleStops \/ Exit
  <2>1. lifecycle' = Off => lifecycle' = [Off EXCEPT !.pc = "off"]
    BY DEF Off
  <2> QED
    BY <1>2, <1>4, <2>1 DEF KeysWritten, Registered, RegisterFails, NextRound, LifecycleStops, Exit
<1>5. CASE ReadPending
  <2>1. Pending \subseteq Row
    BY DEF Pending, Found
  <2> QED BY <1>5, <2>1, NothingTyped DEF ReadPending, UserInv
<1>6. CASE Register
  BY <1>6 DEF Register, UserInv
<1>7. ASSUME NEW v \in Validator, QueryOk(v) PROVE UserInv'
  <2> DEFINE answer == WithMetadata(ValidatorIndex[v], chain[v])
  <2>1. answer \in Value
    BY <1>7, LifecycleAssumption DEF QueryOk, UserInv
  <2>2. [lifecycle.updated EXCEPT ![v] = answer] \in Content
    BY <2>1 DEF UserInv, Content
  <2> HIDE DEF answer
  <2>3. lifecycle' = [lifecycle EXCEPT !.todo = @ \ {v}, !.updated = [@ EXCEPT ![v] = answer]]
    BY <1>7 DEF QueryOk, UserInv, answer
  <2>4. chain' = chain
    BY <1>7 DEF QueryOk
  <2> QED BY <2>2, <2>3, <2>4 DEF UserInv
<1>8. ASSUME NEW v \in Validator, QueryFails(v) PROVE UserInv'
  BY <1>8 DEF QueryFails, UserInv
<1>9. ASSUME NEW v \in Validator, ChainMoves(v) PROVE UserInv'
  BY <1>9 DEF ChainMoves, UserInv
<1> QED
  BY <1>3, <1>4, <1>5, <1>6, <1>7, <1>8, <1>9 DEF LifecycleStep, NewServerStep, RoutineStep

LEMMA RecordsKeepUserInv == ASSUME UserInv, RecordsNext PROVE UserInv'
<1>1. CASE lifeVars' = lifeVars /\ object' = object
  BY <1>1 DEF UserInv, lifeVars
<1>2. ASSUME NEW P \in Plans, PlanStep(P) PROVE UserInv'
  <2>1. CASE EnqueuePlan(P)
    BY <2>1, RecordsAssumption DEF EnqueuePlan, UserInv, lifecycleVars, lifeVars
  <2>2. CASE SavePlan(P) \/ PlanSaved(P) \/ PlanFails(P)
    BY <2>2 DEF SavePlan, PlanSaved, PlanFails, UserInv, lifeVars
  <2> QED BY <1>2, <2>1, <2>2 DEF PlanStep
<1>3. ASSUME NEW d \in Duty, ResultStep(d) PROVE UserInv'
  <2>1. CASE Finish(d)
    <3>1. PICK o \in Outcomes[d] :
             /\ <<object[d], DutyObject(Job[d], o)>> \in InPlace
             /\ object' = [object EXCEPT ![d] = DutyObject(Job[d], o)]
      BY <2>1 DEF Finish, Complete
    <3>2. DutyObject(Job[d], o) \in Value
      BY <3>1, StoreAssumption
    <3> QED BY <2>1, <3>1, <3>2 DEF Finish, UserInv, lifeVars
  <2>2. CASE SaveResult(d) \/ ResultSaved(d)
    BY <1>1, <2>2 DEF SaveResult, ResultSaved
  <2> QED BY <1>3, <2>1, <2>2 DEF ResultStep
<1>4. CASE DutiesExit
  <2>1. CASE Exit
    BY <1>4, NothingTyped DEF DutiesExit, Exit, UserInv, Off
  <2> QED BY <1>4, <2>1 DEF DutiesExit
<1>5. CASE LifecycleStep /\ object' = object
  BY <1>5, LifecycleKeepsUserInv
<1> QED BY <1>2, <1>3, <1>4, <1>5 DEF RecordsNext, RecordsStep

LEMMA UserStep ==
  UserInv /\ [SubsNext]_allVars => UserInv' /\ [StoreNext]_storeVars
<1> SUFFICES ASSUME UserInv, [SubsNext]_allVars PROVE UserInv' /\ [StoreNext]_storeVars
  OBVIOUS
<1>1. CASE RecordsNext
  BY <1>1, RecordsUseStore, RecordsKeepUserInv
<1>2. CASE UNCHANGED dutyVars
  BY <1>2 DEF dutyVars, lifecycleVars, recordsVars, lifeVars, UserInv
<1> QED
  BY <1>1, <1>2 DEF SubsNext, ServiceStep, List, Send, Woken, CloseService, allVars

\* NewServer, the lifecycle routine, the epoch handlers, the handlers of the
\* duties and Stop use the state as StoreSpec allows: what is proved of it
\* holds of the server, for all networks, plans, failures and restarts.
THEOREM ServerUsesStore == SubsSpec => StoreSpec
<1>1. SubsInit => StoreInit
  BY DEF SubsInit, RecordsInit, LifecycleInit
<1> QED BY <1>1, UserInvInit, UserStep, PTL DEF SubsSpec, StoreSpec

\* In particular the memory, the disk and the indexes of the running server
\* agree, whichever of its routines write.
THEOREM ServerKeepsStoreInv == SubsSpec => []StoreInv
<1> QED BY ServerUsesStore, StoreInvHolds, PTL
=============================================================================
