--------------------------- MODULE ComponentProofs ---------------------------
(***************************************************************************)
(* Proofs about the components that share no state with the others: the    *)
(* routine manager, for all routines and any number of starts; the end of  *)
(* the program, for all routines and however many signals are buffered;    *)
(* and the bit list, for lists of every length.                            *)
(***************************************************************************)
EXTENDS RoutineManager, Shutdown, BitList, SequenceTheorems, TLAPS

-----------------------------------------------------------------------------
(* The routine manager                                                     *)

States == {"none", "running", "returned", "closed"}

\* One goroutine goes to another state.
LEMMA GoroutineChanged ==
  ASSUME ManagerTypeOK, NEW r \in Routine, NEW s \in 1 .. MaxStarts, NEW x \in States,
         goroutine' = [goroutine EXCEPT ![r][s] = x]
  PROVE  /\ goroutine' \in [Routine -> [1 .. MaxStarts -> States]]
         /\ \A q \in Routine, t \in 1 .. MaxStarts :
              goroutine'[q][t] = IF q = r /\ t = s THEN x ELSE goroutine[q][t]
<1>1. goroutine \in [Routine -> [1 .. MaxStarts -> States]]
  BY DEF ManagerTypeOK, States
<1>2. [goroutine[r] EXCEPT ![s] = x] \in [1 .. MaxStarts -> States]
  BY <1>1
<1>3. goroutine' = [goroutine EXCEPT ![r] = [goroutine[r] EXCEPT ![s] = x]]
  OBVIOUS
<1>4. \A q \in Routine : goroutine'[q] = IF q = r THEN [goroutine[r] EXCEPT ![s] = x] ELSE goroutine[q]
  BY <1>1, <1>3
<1> QED BY <1>1, <1>2, <1>3, <1>4

LEMMA InitManagerInv == ManagerInit => ManagerInv
<1> SUFFICES ASSUME ManagerInit PROVE ManagerInv
  OBVIOUS
<1>1. ManagerTypeOK
  BY RoutineAssumption DEF ManagerInit, ManagerTypeOK
<1>2. Tracked
  BY DEF ManagerInit, Tracked
<1> QED BY <1>1, <1>2 DEF ManagerInit, ManagerInv, Cancelled

LEMMA AddInv == ASSUME ManagerInv, NEW r \in Routine, Add(r) PROVE ManagerInv'
BY DEF ManagerInv, Add, ManagerTypeOK, Tracked, Cancelled

\* The start that begins has no goroutine yet, and none of the starts before
\* has one that still runs.
LEMMA StartInv == ASSUME ManagerInv, Start PROVE ManagerInv'
<1>1. /\ owner = "idle" /\ owner' = "starting" /\ starts < MaxStarts /\ starts' = starts + 1
      /\ toStart' = routines /\ routines' = routines /\ instances' = instances
      /\ toWait' = toWait /\ cancelled' = cancelled /\ goroutine' = goroutine
  BY DEF Start
<1>2. ManagerTypeOK'
  BY <1>1, RoutineAssumption DEF ManagerInv, ManagerTypeOK
<1>3. \A r \in Routine : instances[r] = 0
  BY <1>1 DEF ManagerInv
<1>4. starts \in Nat /\ starts' \in 1 .. MaxStarts
  BY <1>1, RoutineAssumption DEF ManagerInv, ManagerTypeOK
<1>5. Tracked'
  BY <1>1 DEF ManagerInv, Tracked
<1>6. Cancelled'
  BY <1>1, <1>4 DEF ManagerInv, Cancelled
<1>7. \A r \in Routine, s \in 1 .. MaxStarts : s > starts' => goroutine'[r][s] = "none"
  BY <1>1, <1>4 DEF ManagerInv
<1>8. toWait' = {} /\ starts' > 0 /\ owner' = "starting"
  BY <1>1, <1>4 DEF ManagerInv
<1>9. \A r \in Routine : instances'[r] = 0
  BY <1>1, <1>3
<1> QED BY <1>2, <1>5, <1>6, <1>7, <1>8, <1>9 DEF ManagerInv
LEMMA StartRoutineInv == ASSUME ManagerInv, NEW r \in Routine, StartRoutine(r) PROVE ManagerInv'
<1>1. /\ owner = "starting" /\ r \in toStart /\ toStart' = toStart \ {r}
      /\ goroutine' = [goroutine EXCEPT ![r][starts] = "running"]
      /\ instances' = [instances EXCEPT ![r] = starts]
      /\ owner' = owner /\ routines' = routines /\ starts' = starts
      /\ toWait' = toWait /\ cancelled' = cancelled
  BY DEF StartRoutine
<1>2. ManagerTypeOK /\ starts \in 1 .. MaxStarts
  BY <1>1, RoutineAssumption DEF ManagerInv, ManagerTypeOK
<1>3. /\ goroutine' \in [Routine -> [1 .. MaxStarts -> States]]
      /\ \A q \in Routine, t \in 1 .. MaxStarts :
           goroutine'[q][t] = IF q = r /\ t = starts THEN "running" ELSE goroutine[q][t]
  <2>1. "running" \in States
    BY DEF States
  <2> QED BY <1>1, <1>2, <2>1, GoroutineChanged
<1>4. /\ instances' \in [Routine -> 0 .. MaxStarts]
      /\ \A q \in Routine : instances'[q] = IF q = r THEN starts ELSE instances[q]
  BY <1>1, <1>2 DEF ManagerTypeOK
<1>5. ManagerTypeOK'
  BY <1>1, <1>2, <1>3, <1>4 DEF ManagerTypeOK, States
<1>6. Tracked'
  BY <1>1, <1>2, <1>3, <1>4 DEF ManagerInv, Tracked
<1>7. Cancelled'
  BY <1>1 DEF ManagerInv, Cancelled
<1> QED BY <1>1, <1>2, <1>3, <1>4, <1>5, <1>6, <1>7 DEF ManagerInv

LEMMA StartReturnsInv == ASSUME ManagerInv, StartReturns PROVE ManagerInv'
BY DEF ManagerInv, StartReturns, ManagerTypeOK, Tracked, Cancelled

\* The routine r of start s goes from one state to another, but back to none.
LEMMA ProgressInv ==
  ASSUME ManagerInv, NEW r \in Routine, NEW s \in 1 .. MaxStarts,
         NEW x \in {"returned", "closed"},
         goroutine[r][s] \in {"running", "returned"},
         goroutine' = [goroutine EXCEPT ![r][s] = x],
         UNCHANGED <<owner, routines, starts, toStart, instances, toWait, cancelled>>
  PROVE  ManagerInv'
<1>0. /\ owner' = owner /\ routines' = routines /\ starts' = starts /\ toStart' = toStart
      /\ instances' = instances /\ toWait' = toWait /\ cancelled' = cancelled
  OBVIOUS
<1>1. /\ goroutine' \in [Routine -> [1 .. MaxStarts -> States]]
      /\ \A q \in Routine, t \in 1 .. MaxStarts :
           goroutine'[q][t] = IF q = r /\ t = s THEN x ELSE goroutine[q][t]
  <2>1. ManagerTypeOK /\ x \in States
    BY DEF ManagerInv, States
  <2> QED BY <2>1, GoroutineChanged
<1>2. ManagerTypeOK'
  BY <1>0, <1>1 DEF ManagerInv, ManagerTypeOK, States
<1>3. s = starts /\ starts \in 1 .. MaxStarts
  BY DEF ManagerInv, Tracked
<1>4. Tracked'
  <2>1. ASSUME NEW q \in Routine, NEW t \in 1 .. MaxStarts,
               goroutine'[q][t] \in {"running", "returned"}
        PROVE  goroutine[q][t] \in {"running", "returned"}
    BY <1>1, <2>1
  <2> QED BY <1>0, <2>1 DEF ManagerInv, Tracked
<1>5. Cancelled'
  BY <1>0 DEF ManagerInv, Cancelled
<1> QED BY <1>0, <1>1, <1>2, <1>3, <1>4, <1>5 DEF ManagerInv

LEMMA StopInv == ASSUME ManagerInv, Stop PROVE ManagerInv'
<1>1. /\ owner = "up" /\ owner' = "waiting" /\ cancelled' = cancelled \cup {starts}
      /\ toWait' = {r \in Routine : instances[r] # 0}
      /\ routines' = routines /\ starts' = starts /\ toStart' = toStart
      /\ instances' = instances /\ goroutine' = goroutine
  BY DEF Stop
<1>2. ManagerTypeOK /\ starts \in 1 .. MaxStarts
  BY <1>1, RoutineAssumption DEF ManagerInv, ManagerTypeOK
<1>3. ManagerTypeOK'
  BY <1>1, <1>2 DEF ManagerTypeOK
<1>4. Tracked'
  BY <1>1, <1>2 DEF ManagerInv, Tracked
<1>5. Cancelled'
  BY <1>1, <1>2 DEF ManagerInv, Cancelled
<1> QED BY <1>1, <1>2, <1>3, <1>4, <1>5 DEF ManagerInv

\* The one that was waited for has closed its channel, and it was the only one
\* of its name that could still run.
LEMMA WaitInv == ASSUME ManagerInv, NEW r \in Routine, Wait(r) PROVE ManagerInv'
<1>1. /\ owner = "waiting" /\ r \in toWait /\ goroutine[r][instances[r]] = "closed"
      /\ toWait' = toWait \ {r} /\ owner' = owner /\ routines' = routines
      /\ starts' = starts /\ toStart' = toStart /\ instances' = instances
      /\ cancelled' = cancelled /\ goroutine' = goroutine
  BY DEF Wait
<1>2. ManagerTypeOK'
  BY <1>1 DEF ManagerInv, ManagerTypeOK
<1>3. Tracked'
  BY <1>1 DEF ManagerInv, Tracked
<1>4. Cancelled'
  BY <1>1 DEF ManagerInv, Cancelled
<1> QED BY <1>1, <1>2, <1>3, <1>4 DEF ManagerInv

LEMMA StopReturnsInv == ASSUME ManagerInv, StopReturns PROVE ManagerInv'
<1>1. /\ owner = "waiting" /\ toWait = {} /\ owner' = "idle"
      /\ instances' = [r \in Routine |-> 0]
      /\ routines' = routines /\ starts' = starts /\ toStart' = toStart
      /\ toWait' = toWait /\ cancelled' = cancelled /\ goroutine' = goroutine
  BY DEF StopReturns
<1>2. ManagerTypeOK'
  BY <1>1, RoutineAssumption DEF ManagerInv, ManagerTypeOK
<1>3. Tracked'
  BY <1>1 DEF ManagerInv, Tracked
<1>4. Cancelled'
  BY <1>1 DEF ManagerInv, Cancelled
<1> QED BY <1>1, <1>2, <1>3, <1>4 DEF ManagerInv

LEMMA ManagerInvStep == ManagerInv /\ [ManagerNext]_managerVars => ManagerInv'
<1> SUFFICES ASSUME ManagerInv, [ManagerNext]_managerVars PROVE ManagerInv'
  OBVIOUS
<1>1. CASE Start
  BY <1>1, StartInv
<1>2. CASE StartReturns
  BY <1>2, StartReturnsInv
<1>3. CASE Stop
  BY <1>3, StopInv
<1>4. CASE StopReturns
  BY <1>4, StopReturnsInv
<1>5. ASSUME NEW r \in Routine, Add(r) PROVE ManagerInv'
  BY <1>5, AddInv
<1>6. ASSUME NEW r \in Routine, StartRoutine(r) PROVE ManagerInv'
  BY <1>6, StartRoutineInv
<1>7. ASSUME NEW r \in Routine, Wait(r) PROVE ManagerInv'
  BY <1>7, WaitInv
<1>8. ASSUME NEW r \in Routine, NEW s \in 1 .. MaxStarts, Return(r, s) PROVE ManagerInv'
  BY <1>8, ProgressInv DEF Return
<1>9. ASSUME NEW r \in Routine, NEW s \in 1 .. MaxStarts, CloseDone(r, s) PROVE ManagerInv'
  BY <1>9, ProgressInv DEF CloseDone
<1>10. CASE UNCHANGED managerVars
  BY <1>10 DEF managerVars, ManagerInv, ManagerTypeOK, Tracked, Cancelled
<1> QED
  BY <1>1, <1>2, <1>3, <1>4, <1>5, <1>6, <1>7, <1>8, <1>9, <1>10 DEF ManagerNext

\* When Stop returns, every goroutine of every start has ended and closed its
\* channel, whatever was added meanwhile and however often it was started.
THEOREM StopWaitsForAll == ManagerSpec => []StopWaits
<1>1. ManagerInv => StopWaits
  <2> SUFFICES ASSUME ManagerInv, owner = "idle" PROVE StopWaits
    BY DEF StopWaits
  <2>1. cancelled = 1 .. starts
    BY DEF ManagerInv, Cancelled
  <2>2. ASSUME NEW r \in Routine, NEW s \in 1 .. MaxStarts
        PROVE goroutine[r][s] \in {"none", "closed"}
    <3>1. goroutine[r][s] \notin {"running", "returned"}
      BY DEF ManagerInv, Tracked
    <3>2. goroutine \in [Routine -> [1 .. MaxStarts -> States]]
      BY DEF ManagerInv, ManagerTypeOK, States
    <3>3. goroutine[r] \in [1 .. MaxStarts -> States]
      BY <3>2
    <3>4. goroutine[r][s] \in States
      BY <3>3
    <3> QED BY <3>1, <3>4 DEF States
  <2> QED BY <2>1, <2>2 DEF StopWaits
<1> QED BY <1>1, InitManagerInv, ManagerInvStep, PTL DEF ManagerSpec

-----------------------------------------------------------------------------
(* The end of the program                                                  *)

\* How far Stop has come: after its first call the database is closed and no
\* handler is in a write, and none can begin one; after its last shutdownCh is
\* closed as well; and exit code 0 is only given when Stop has returned.
EndInv ==
  /\ stopper \in {"off", "state", "grpc", "signal", "returned", "closed"}
  /\ database \in {"open", "closed"}
  /\ stopper \in {"grpc", "signal", "returned", "closed"} => database = "closed"
  /\ database = "closed" => handler # "writing"
  /\ stopper \in {"returned", "closed"} => shutdownCh
  /\ exitCode = 0 => main = "gone" /\ stopper = "closed"
  /\ main = "serving" => stopper = "off"

LEMMA EndInvInit == ShutdownInit => EndInv
BY DEF ShutdownInit, EndInv, Running

LEMMA EndInvStep == EndInv /\ [ShutdownNext]_endVars => EndInv'
<1> SUFFICES ASSUME EndInv, [ShutdownNext]_endVars PROVE EndInv'
  OBVIOUS
<1>1. CASE Signal
  BY <1>1 DEF EndInv, Signal, Alive
<1>2. CASE Caught
  BY <1>2 DEF EndInv, Caught
<1>3. CASE TimerFires
  BY <1>3 DEF EndInv, TimerFires, Alive
<1>4. CASE Leave
  BY <1>4 DEF EndInv, Leave, Exits
<1>5. CASE CloseState
  BY <1>5 DEF EndInv, CloseState, Alive
<1>6. CASE StopGRPC
  BY <1>6 DEF EndInv, StopGRPC, Alive
<1>7. CASE CloseShutdownCh
  BY <1>7 DEF EndInv, CloseShutdownCh, Alive
<1>8. CASE CloseGracefulCh
  BY <1>8 DEF EndInv, CloseGracefulCh, Alive
<1>9. CASE Handle
  BY <1>9 DEF EndInv, Handle, Alive
<1>10. CASE Upsert
  BY <1>10 DEF EndInv, Upsert, Exits, Alive
<1>11. CASE Upserted
  BY <1>11 DEF EndInv, Upserted, Alive
<1>12. ASSUME NEW r \in Looping, Loops(r) PROVE EndInv'
  BY <1>12 DEF EndInv, Loops, Alive
<1>13. CASE UNCHANGED endVars
  BY <1>13 DEF EndInv, endVars
<1> QED
  BY <1>1, <1>2, <1>3, <1>4, <1>5, <1>6, <1>7, <1>8, <1>9, <1>10, <1>11, <1>12, <1>13
     DEF ShutdownNext

\* However signals, the time limit, Stop and the handlers interleave, the
\* program ends with exit code 0 only after the database is closed and
\* shutdownCh as well, and never inside a write.
THEOREM GracefulExitIsEarned == ShutdownSpec => []GracefulExit
<1>1. EndInv => GracefulExit
  BY DEF EndInv, GracefulExit
<1> QED BY <1>1, EndInvInit, EndInvStep, PTL DEF ShutdownSpec

-----------------------------------------------------------------------------
(* The bit list                                                            *)

LEMMA BitValues ==
  /\ Bit(0) = 1 /\ Bit(1) = 2 /\ Bit(2) = 4 /\ Bit(3) = 8 /\ Bit(4) = 16
  /\ Bit(5) = 32 /\ Bit(6) = 64 /\ Bit(7) = 128 /\ Bit(8) = 256
BY DEF Bit

\* A byte as its bits, least significant first.
Digits == [0 .. 7 -> 0 .. 1]

Number(f) ==
  f[0] + 2 * f[1] + 4 * f[2] + 8 * f[3] + 16 * f[4] + 32 * f[5] + 64 * f[6] + 128 * f[7]

LEMMA BitsOfNumber ==
  ASSUME NEW f \in Digits
  PROVE  /\ Number(f) \in 0 .. 255
         /\ \A j \in 0 .. 7 : HasBit(Number(f), j) <=> f[j] = 1
<1>1. /\ f[0] \in 0 .. 1 /\ f[1] \in 0 .. 1 /\ f[2] \in 0 .. 1 /\ f[3] \in 0 .. 1
      /\ f[4] \in 0 .. 1 /\ f[5] \in 0 .. 1 /\ f[6] \in 0 .. 1 /\ f[7] \in 0 .. 1
  BY DEF Digits
<1>2. Number(f) \in 0 .. 255
  BY <1>1 DEF Number
<1>3. ASSUME NEW j \in 0 .. 7 PROVE HasBit(Number(f), j) <=> f[j] = 1
  <2>0. CASE j = 0
    BY <1>1, <2>0, BitValues DEF HasBit, Number
  <2>1. CASE j = 1
    BY <1>1, <2>1, BitValues DEF HasBit, Number
  <2>2. CASE j = 2
    BY <1>1, <2>2, BitValues DEF HasBit, Number
  <2>3. CASE j = 3
    BY <1>1, <2>3, BitValues DEF HasBit, Number
  <2>4. CASE j = 4
    BY <1>1, <2>4, BitValues DEF HasBit, Number
  <2>5. CASE j = 5
    BY <1>1, <2>5, BitValues DEF HasBit, Number
  <2>6. CASE j = 6
    BY <1>1, <2>6, BitValues DEF HasBit, Number
  <2>7. CASE j = 7
    BY <1>1, <2>7, BitValues DEF HasBit, Number
  <2> QED BY <2>0, <2>1, <2>2, <2>3, <2>4, <2>5, <2>6, <2>7
<1> QED BY <1>2, <1>3

LEMMA DigitsOfByte ==
  ASSUME NEW b \in 0 .. 255 PROVE \E f \in Digits : Number(f) = b
<1> DEFINE f == [j \in 0 .. 7 |-> (b \div Bit(j)) % 2]
<1>1. /\ f[0] = b % 2 /\ f[1] = (b \div 2) % 2 /\ f[2] = (b \div 4) % 2 /\ f[3] = (b \div 8) % 2
      /\ f[4] = (b \div 16) % 2 /\ f[5] = (b \div 32) % 2 /\ f[6] = (b \div 64) % 2
      /\ f[7] = (b \div 128) % 2
  <2>1. \A j \in 0 .. 7 : f[j] = (b \div Bit(j)) % 2
    OBVIOUS
  <2>2. b \div 1 = b
    OBVIOUS
  <2> HIDE DEF f
  <2> QED BY <2>1, <2>2, BitValues
<1>2. f \in Digits
  <2>1. ASSUME NEW j \in 0 .. 7 PROVE f[j] \in 0 .. 1
    <3>1. j = 0 \/ j = 1 \/ j = 2 \/ j = 3 \/ j = 4 \/ j = 5 \/ j = 6 \/ j = 7
      OBVIOUS
    <3> HIDE DEF f
    <3> QED BY <1>1, <3>1
  <2> QED BY <2>1 DEF Digits
<1> HIDE DEF f
<1>3. Number(f) = b
  BY <1>1 DEF Number
<1> QED BY <1>2, <1>3

\* Setting or clearing a bit leaves the others as they are.
LEMMA OrBit ==
  ASSUME NEW b \in 0 .. 255, NEW k \in 0 .. 7
  PROVE  /\ Or(b, k) \in 0 .. 255
         /\ HasBit(Or(b, k), k)
         /\ \A j \in 0 .. 7 : j # k => (HasBit(Or(b, k), j) <=> HasBit(b, j))
<1>1. PICK f \in Digits : Number(f) = b
  BY DigitsOfByte
<1> DEFINE g == [f EXCEPT ![k] = 1]
<1>2. g \in Digits /\ g[k] = 1 /\ \A j \in 0 .. 7 : j # k => g[j] = f[j]
  BY DEF Digits
<1>3. Number(g) = Or(b, k)
  <2>1. HasBit(b, k) <=> f[k] = 1
    BY <1>1, BitsOfNumber
  <2>2. \A j \in 0 .. 7 : f[j] \in 0 .. 1
    BY DEF Digits
  <2>3. k = 0 \/ k = 1 \/ k = 2 \/ k = 3 \/ k = 4 \/ k = 5 \/ k = 6 \/ k = 7
    OBVIOUS
  <2> HIDE DEF g
  <2>4. CASE f[k] = 1
    <3>1. \A j \in 0 .. 7 : g[j] = f[j]
      BY <1>2, <2>4
    <3> QED BY <1>1, <2>1, <2>4, <3>1 DEF Number, Or
  <2>5. CASE f[k] = 0
    BY <1>1, <1>2, <2>1, <2>2, <2>3, <2>5, BitValues DEF Number, Or
  <2> QED BY <2>2, <2>4, <2>5
<1> HIDE DEF g
<1>4. /\ Number(g) \in 0 .. 255 /\ \A j \in 0 .. 7 : HasBit(Number(g), j) <=> g[j] = 1
      /\ \A j \in 0 .. 7 : HasBit(b, j) <=> f[j] = 1
  BY <1>1, <1>2, BitsOfNumber
<1> QED BY <1>2, <1>3, <1>4

LEMMA AndNotBit ==
  ASSUME NEW b \in 0 .. 255, NEW k \in 0 .. 7
  PROVE  /\ AndNot(b, k) \in 0 .. 255
         /\ ~HasBit(AndNot(b, k), k)
         /\ \A j \in 0 .. 7 : j # k => (HasBit(AndNot(b, k), j) <=> HasBit(b, j))
<1>1. PICK f \in Digits : Number(f) = b
  BY DigitsOfByte
<1> DEFINE g == [f EXCEPT ![k] = 0]
<1>2. g \in Digits /\ g[k] = 0 /\ \A j \in 0 .. 7 : j # k => g[j] = f[j]
  BY DEF Digits
<1>3. Number(g) = AndNot(b, k)
  <2>1. HasBit(b, k) <=> f[k] = 1
    BY <1>1, BitsOfNumber
  <2>2. \A j \in 0 .. 7 : f[j] \in 0 .. 1
    BY DEF Digits
  <2>3. k = 0 \/ k = 1 \/ k = 2 \/ k = 3 \/ k = 4 \/ k = 5 \/ k = 6 \/ k = 7
    OBVIOUS
  <2> HIDE DEF g
  <2>4. CASE f[k] = 0
    <3>1. \A j \in 0 .. 7 : g[j] = f[j]
      BY <1>2, <2>4
    <3> QED BY <1>1, <2>1, <2>4, <3>1 DEF Number, AndNot
  <2>5. CASE f[k] = 1
    BY <1>1, <1>2, <2>1, <2>2, <2>3, <2>5, BitValues DEF Number, AndNot
  <2> QED BY <2>2, <2>4, <2>5
<1> HIDE DEF g
<1>4. /\ Number(g) \in 0 .. 255 /\ \A j \in 0 .. 7 : HasBit(Number(g), j) <=> g[j] = 1
      /\ \A j \in 0 .. 7 : HasBit(b, j) <=> f[j] = 1
  BY <1>1, <1>2, BitsOfNumber
<1> QED BY <1>2, <1>3, <1>4

LEMMA PutBit ==
  ASSUME NEW b \in 0 .. 255, NEW k \in 0 .. 7, NEW val \in BOOLEAN
  PROVE  /\ Put(b, k, val) \in 0 .. 255
         /\ HasBit(Put(b, k, val), k) <=> val
         /\ \A j \in 0 .. 7 : j # k => (HasBit(Put(b, k, val), j) <=> HasBit(b, j))
<1>1. CASE val
  BY <1>1, OrBit DEF Put
<1>2. CASE ~val
  BY <1>2, AndNotBit DEF Put
<1> QED BY <1>1, <1>2

LEMMA HighestBit ==
  ASSUME NEW b \in 0 .. 255, NEW m \in 0 .. 7, HasBit(b, m),
         \A j \in m + 1 .. 7 : ~HasBit(b, j)
  PROVE  Len8(b) = m + 1
<1>1. m = 0 \/ m = 1 \/ m = 2 \/ m = 3 \/ m = 4 \/ m = 5 \/ m = 6 \/ m = 7
  OBVIOUS
<1>2. Bit(m) <= b /\ b < Bit(m + 1)
  <2>1. Bit(m) <= b
    BY <1>1, BitValues DEF HasBit
  <2>2. b < Bit(m + 1)
    <3>1. PICK f \in Digits : Number(f) = b
      BY DigitsOfByte
    <3>2. \A j \in 0 .. 7 : f[j] \in 0 .. 1 /\ (j > m => f[j] = 0)
      BY <3>1, BitsOfNumber DEF Digits
    <3> QED BY <1>1, <3>1, <3>2, BitValues DEF Number
  <2> QED BY <2>1, <2>2
<1>3. ASSUME NEW k \in 0 .. 8, b < Bit(k), k = 0 \/ b >= Bit(k - 1) PROVE k = m + 1
  <2>1. k = 0 \/ k = 1 \/ k = 2 \/ k = 3 \/ k = 4 \/ k = 5 \/ k = 6 \/ k = 7 \/ k = 8
    OBVIOUS
  <2> QED BY <1>1, <1>2, <1>3, <2>1, BitValues
<1>4. m + 1 \in 0 .. 8 /\ (m + 1) - 1 = m
  OBVIOUS
<1> QED BY <1>2, <1>3, <1>4 DEF Len8

LEMMA OneBit ==
  ASSUME NEW m \in 0 .. 7
  PROVE  /\ Bit(m) \in 0 .. 255 /\ 0 \in 0 .. 255
         /\ \A j \in 0 .. 7 : ~HasBit(0, j) /\ (HasBit(Bit(m), j) <=> j = m)
<1>1. m = 0 \/ m = 1 \/ m = 2 \/ m = 3 \/ m = 4 \/ m = 5 \/ m = 6 \/ m = 7
  OBVIOUS
<1>2. \A j \in 0 .. 7 : ~HasBit(0, j)
  <2>1. TAKE j \in 0 .. 7
  <2>2. j = 0 \/ j = 1 \/ j = 2 \/ j = 3 \/ j = 4 \/ j = 5 \/ j = 6 \/ j = 7
    OBVIOUS
  <2> QED BY <2>2, BitValues DEF HasBit
<1>3. Or(0, m) = Bit(m)
  BY <1>1, <1>2, BitValues DEF Or
<1>4. 0 \in 0 .. 255
  OBVIOUS
<1>5. /\ Or(0, m) \in 0 .. 255 /\ HasBit(Or(0, m), m)
      /\ \A j \in 0 .. 7 : j # m => (HasBit(Or(0, m), j) <=> HasBit(0, j))
  BY <1>4, OrBit
<1> QED BY <1>2, <1>3, <1>4, <1>5

\* The position of a bit: its byte, and its place there.
LEMMA Positions ==
  ASSUME NEW i \in Nat, NEW n \in Nat, i <= n
  PROVE  /\ i \div 8 + 1 \in 1 .. n \div 8 + 1 /\ i % 8 \in 0 .. 7
         /\ i < n => i \div 8 # n \div 8 \/ i % 8 < n % 8
         /\ i = 8 * (i \div 8) + (i % 8)
<1>1. i \div 8 \in Nat /\ n \div 8 \in Nat /\ i \div 8 <= n \div 8
  OBVIOUS
<1>2. i % 8 \in 0 .. 7
  OBVIOUS
<1>4. i = 8 * (i \div 8) + (i % 8)
  BY Z3
<1>3. i < n => i \div 8 # n \div 8 \/ i % 8 < n % 8
  OBVIOUS
<1>5. i \div 8 + 1 \in 1 .. n \div 8 + 1
  BY <1>1
<1> QED BY <1>2, <1>3, <1>4, <1>5, Zenon

\* The mark is the highest bit of the last byte, and each position holds what was
\* last written to it.
BitInv ==
  /\ size \in Nat
  /\ bytes \in [1 .. size \div 8 + 1 -> 0 .. 255]
  /\ HasBit(bytes[size \div 8 + 1], size % 8)
  /\ \A j \in (size % 8) + 1 .. 7 : ~HasBit(bytes[size \div 8 + 1], j)
  /\ \A i \in 0 .. size - 1 : HasBit(bytes[i \div 8 + 1], i % 8) <=> i \in bitsSet

LEMMA BitInvInit == BitInit => BitInv
<1> SUFFICES ASSUME BitInit PROVE BitInv
  OBVIOUS
<1>1. size \in Nat /\ bitsSet = {} /\ bytes = NewBitlist(size)
  BY BitListAssumption DEF BitInit
<1>2. size % 8 \in 0 .. 7
  BY <1>1
<1>3. /\ bytes \in [1 .. size \div 8 + 1 -> 0 .. 255]
      /\ \A p \in 1 .. size \div 8 + 1 :
           bytes[p] = IF p = size \div 8 + 1 THEN Bit(size % 8) ELSE 0
  BY <1>1, <1>2, OneBit DEF NewBitlist
<1>4. size \div 8 + 1 \in 1 .. size \div 8 + 1
  BY <1>1
<1>5. ASSUME NEW i \in 0 .. size - 1 PROVE ~HasBit(bytes[i \div 8 + 1], i % 8)
  <2>1. /\ i \div 8 + 1 \in 1 .. size \div 8 + 1 /\ i % 8 \in 0 .. 7
        /\ i \div 8 # size \div 8 \/ i % 8 < size % 8
    BY <1>1, Positions
  <2>2. CASE i \div 8 + 1 = size \div 8 + 1
    BY <1>1, <1>2, <1>3, <2>1, <2>2, OneBit
  <2>3. CASE i \div 8 + 1 # size \div 8 + 1
    BY <1>2, <1>3, <2>1, <2>3, OneBit
  <2> QED BY <2>2, <2>3
<1>6. HasBit(bytes[size \div 8 + 1], size % 8)
  BY <1>2, <1>3, <1>4, OneBit
<1>7. \A j \in (size % 8) + 1 .. 7 : ~HasBit(bytes[size \div 8 + 1], j)
  BY <1>2, <1>3, <1>4, OneBit
<1> QED BY <1>1, <1>3, <1>5, <1>6, <1>7 DEF BitInv

\* The length is read off the mark.
LEMMA LengthIsSize == BitInv => BitLen(bytes) = size /\ Len(bytes) = size \div 8 + 1
<1> SUFFICES ASSUME BitInv PROVE BitLen(bytes) = size /\ Len(bytes) = size \div 8 + 1
  OBVIOUS
<1>1. /\ size \in Nat /\ size \div 8 + 1 \in Nat /\ size % 8 \in 0 .. 7
      /\ bytes \in [1 .. size \div 8 + 1 -> 0 .. 255]
  BY DEF BitInv
<1>2. bytes \in Seq(0 .. 255)
  BY <1>1, SeqDef
<1>3. Len(bytes) \in Nat /\ 1 .. Len(bytes) = 1 .. size \div 8 + 1
  BY <1>1, <1>2, LenProperties
<1>4. Len(bytes) = size \div 8 + 1
  BY <1>1, <1>3
<1>5. Len8(bytes[Len(bytes)]) = (size % 8) + 1
  <2> DEFINE b == bytes[size \div 8 + 1]
  <2>1. b \in 0 .. 255
    BY <1>1
  <2>2. HasBit(b, size % 8) /\ \A j \in (size % 8) + 1 .. 7 : ~HasBit(b, j)
    BY DEF BitInv
  <2> HIDE DEF b
  <2>3. Len8(b) = (size % 8) + 1
    BY <1>1, <2>1, <2>2, HighestBit
  <2> QED BY <1>4, <2>3 DEF b
<1>6. bytes # <<>>
  BY <1>1, <1>4
<1> QED BY <1>1, <1>4, <1>5, <1>6, Positions DEF BitLen

LEMMA BitInvStep == BitInv /\ [BitNext]_bitVars => BitInv'
<1> SUFFICES ASSUME BitInv, [BitNext]_bitVars PROVE BitInv'
  OBVIOUS
<1> DEFINE q == size \div 8 + 1
<1>1. /\ size \in Nat /\ bytes \in [1 .. q -> 0 .. 255] /\ BitLen(bytes) = size
      /\ HasBit(bytes[q], size % 8) /\ \A j \in (size % 8) + 1 .. 7 : ~HasBit(bytes[q], j)
      /\ \A k \in 0 .. size - 1 : HasBit(bytes[k \div 8 + 1], k % 8) <=> k \in bitsSet
  BY LengthIsSize DEF BitInv
<1>2. CASE UNCHANGED bitVars
  BY <1>2 DEF bitVars, BitInv
<1>3. ASSUME NEW i \in 0 .. size + 1, NEW val \in BOOLEAN, SetBitAt(i, val) PROVE BitInv'
  <2>1. size' = size /\ i \in Nat
    BY <1>1, <1>3 DEF SetBitAt
  <2>2. \A k \in 0 .. size - 1 : k \in bitsSet' <=> IF k = i THEN val ELSE k \in bitsSet
    BY <1>3 DEF SetBitAt
  <2>3. CASE i >= size
    <3>1. bytes' = bytes
      BY <1>1, <1>3, <2>3 DEF SetBitAt
    <3>2. \A k \in 0 .. size - 1 : k \in bitsSet' <=> k \in bitsSet
      BY <1>1, <2>1, <2>2, <2>3
    <3> QED BY <1>1, <2>1, <3>1, <3>2 DEF BitInv
  <2>4. CASE i < size
    <3> DEFINE p == i \div 8 + 1
               new == Put(bytes[p], i % 8, val)
    <3>1. p \in 1 .. q /\ i % 8 \in 0 .. 7 /\ size % 8 \in 0 .. 7 /\ (p # q \/ i % 8 < size % 8)
      BY <1>1, <2>1, <2>4, Positions
    <3>2. bytes' = [bytes EXCEPT ![p] = new]
      BY <1>1, <1>3, <2>1, <2>4 DEF SetBitAt
    <3>3. /\ new \in 0 .. 255
          /\ HasBit(new, i % 8) <=> val
          /\ \A j \in 0 .. 7 : j # i % 8 => (HasBit(new, j) <=> HasBit(bytes[p], j))
      <4> DEFINE b == bytes[p]
                 h == i % 8
      <4>1. b \in 0 .. 255 /\ h \in 0 .. 7
        BY <1>1, <3>1
      <4> HIDE DEF b, h
      <4>2. /\ Put(b, h, val) \in 0 .. 255
            /\ HasBit(Put(b, h, val), h) <=> val
            /\ \A j \in 0 .. 7 : j # h => (HasBit(Put(b, h, val), j) <=> HasBit(b, j))
        BY <4>1, PutBit
      <4> QED BY <4>2 DEF b, h
    <3> HIDE DEF new
    <3>5. /\ bytes' \in [1 .. q -> 0 .. 255]
          /\ \A r \in 1 .. q : bytes'[r] = IF r = p THEN new ELSE bytes[r]
      BY <1>1, <3>1, <3>2, <3>3
    <3>6. /\ HasBit(bytes'[q], size % 8)
          /\ \A j \in (size % 8) + 1 .. 7 : ~HasBit(bytes'[q], j)
      <4>1. q \in 1 .. q /\ \A j \in size % 8 .. 7 : j \in 0 .. 7
        BY <1>1, <3>1
      <4> HIDE DEF p, q
      <4>2. CASE p # q
        BY <1>1, <3>5, <4>1, <4>2
      <4>3. CASE p = q
        <5>1. \A j \in size % 8 .. 7 : HasBit(bytes'[q], j) <=> HasBit(bytes[q], j)
          BY <3>1, <3>3, <3>5, <4>1, <4>3
        <5>2. size % 8 \in size % 8 .. 7 /\ \A j \in (size % 8) + 1 .. 7 : j \in size % 8 .. 7
          BY <3>1
        <5> QED BY <1>1, <5>1, <5>2
      <4> QED BY <4>2, <4>3
    <3>9. ASSUME NEW k \in 0 .. size - 1
          PROVE  HasBit(bytes'[k \div 8 + 1], k % 8) <=> k \in bitsSet'
      <4>1. k \div 8 + 1 \in 1 .. q /\ k % 8 \in 0 .. 7
        BY <1>1, Positions
      <4>3. CASE k = i
        BY <2>2, <3>1, <3>3, <3>5, <4>3
      <4>4. CASE k # i /\ k \div 8 + 1 = p
        <5>1. k % 8 # i % 8
          BY <1>1, <2>1, <4>4
        <5> QED BY <1>1, <2>2, <3>3, <3>5, <4>1, <4>4, <5>1
      <4>5. CASE k # i /\ k \div 8 + 1 # p
        BY <1>1, <2>2, <3>5, <4>1, <4>5
      <4> QED BY <4>3, <4>4, <4>5
    <3> QED BY <1>1, <2>1, <3>5, <3>6, <3>9 DEF BitInv
  <2> QED BY <1>1, <2>1, <2>3, <2>4
<1> QED BY <1>2, <1>3 DEF BitNext

\* For lists of every length and any writes, whatever the position: SetBitAt keeps
\* the length, and BitAt answers what was last written.
THEOREM BitListIsExact == BitSpec => []BitsExact
<1>1. BitInv => BitsExact
  <2> SUFFICES ASSUME BitInv PROVE BitsExact
    OBVIOUS
  <2>1. /\ size \in Nat /\ BitLen(bytes) = size /\ Len(bytes) = size \div 8 + 1
        /\ bytes \in [1 .. size \div 8 + 1 -> 0 .. 255]
    BY LengthIsSize DEF BitInv
  <2>2. ASSUME NEW i \in 0 .. size + 8 PROVE BitAt(bytes, i) <=> i < size /\ i \in bitsSet
    BY <2>1 DEF BitAt, BitInv
  <2> QED BY <2>1, <2>2 DEF BitsExact
<1> QED BY <1>1, BitInvInit, BitInvStep, PTL DEF BitSpec
=============================================================================
