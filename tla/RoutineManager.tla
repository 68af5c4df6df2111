--------------------------- MODULE RoutineManager ---------------------------
(***************************************************************************)
(* The routine manager (internal/routine/routine.go).  Its owner adds      *)
(* routines, starts them and stops them, in this order and possibly again; *)
(* each started routine runs in a goroutine until it returns, by itself or *)
(* because its context is cancelled.                                       *)
(***************************************************************************)
EXTENDS Integers

CONSTANTS
  Routine,    \* the names
  MaxStarts   \* bound on the calls of Start

ASSUME RoutineAssumption == MaxStarts \in Nat

VARIABLES
  owner,      \* "idle", "starting", "up" or "waiting" in Stop
  routines,   \* the names added
  starts,     \* the number of calls of Start
  toStart,    \* the names that the loop of Start has not come to
  instances,  \* instances[r]: the start whose goroutine is tracked, or 0
  toWait,     \* the names that the loop of Stop has not come to
  cancelled,  \* the starts whose context is cancelled
  goroutine   \* goroutine[r][s]: the routine r of start s

managerVars ==
  <<owner, routines, starts, toStart, instances, toWait, cancelled, goroutine>>

ManagerInit ==
  /\ owner = "idle"
  /\ routines = {}
  /\ starts = 0
  /\ toStart = {}
  /\ instances = [r \in Routine |-> 0]
  /\ toWait = {}
  /\ cancelled = {}
  /\ goroutine = [r \in Routine |-> [s \in 1 .. MaxStarts |-> "none"]]

Add(r) ==
  /\ owner \in {"idle", "up"}
  /\ routines' = routines \cup {r}
  /\ UNCHANGED <<owner, starts, toStart, instances, toWait, cancelled, goroutine>>

\* A context of its own for each start.
Start ==
  /\ owner = "idle"
  /\ starts < MaxStarts
  /\ owner' = "starting"
  /\ starts' = starts + 1
  /\ toStart' = routines
  /\ UNCHANGED <<routines, instances, toWait, cancelled, goroutine>>

\* go m.execute, and the tracker.
StartRoutine(r) ==
  /\ owner = "starting"
  /\ r \in toStart
  /\ toStart' = toStart \ {r}
  /\ goroutine' = [goroutine EXCEPT ![r][starts] = "running"]
  /\ instances' = [instances EXCEPT ![r] = starts]
  /\ UNCHANGED <<owner, routines, starts, toWait, cancelled>>

StartReturns ==
  /\ owner = "starting"
  /\ toStart = {}
  /\ owner' = "up"
  /\ UNCHANGED <<routines, starts, toStart, instances, toWait, cancelled, goroutine>>

\* The routine returns, with an error or without.
Return(r, s) ==
  /\ goroutine[r][s] = "running"
  /\ goroutine' = [goroutine EXCEPT ![r][s] = "returned"]
  /\ UNCHANGED <<owner, routines, starts, toStart, instances, toWait, cancelled>>

\* The deferred close of done, after the exit is logged.
CloseDone(r, s) ==
  /\ goroutine[r][s] = "returned"
  /\ goroutine' = [goroutine EXCEPT ![r][s] = "closed"]
  /\ UNCHANGED <<owner, routines, starts, toStart, instances, toWait, cancelled>>

\* Mutant of Stop: the instances are forgotten before they are waited for.
StopForgets ==
  /\ owner = "up"
  /\ owner' = "waiting"
  /\ cancelled' = cancelled \cup {starts}
  /\ instances' = [r \in Routine |-> 0]
  /\ toWait' = {}
  /\ UNCHANGED <<routines, starts, toStart, goroutine>>

\* cancelFn of the last start.
Stop ==
  /\ owner = "up"
  /\ owner' = "waiting"
  /\ cancelled' = cancelled \cup {starts}
  /\ toWait' = {r \in Routine : instances[r] # 0}
  /\ UNCHANGED <<routines, starts, toStart, instances, goroutine>>

\* instance.wait
Wait(r) ==
  /\ owner = "waiting"
  /\ r \in toWait
  /\ goroutine[r][instances[r]] = "closed"
  /\ toWait' = toWait \ {r}
  /\ UNCHANGED <<owner, routines, starts, toStart, instances, cancelled, goroutine>>

StopReturns ==
  /\ owner = "waiting"
  /\ toWait = {}
  /\ owner' = "idle"
  /\ instances' = [r \in Routine |-> 0]
  /\ UNCHANGED <<routines, starts, toStart, toWait, cancelled, goroutine>>

ManagerNext ==
  \/ Start \/ StartReturns \/ Stop \/ StopReturns
  \/ \E r \in Routine : Add(r) \/ StartRoutine(r) \/ Wait(r)
  \/ \E r \in Routine, s \in 1 .. MaxStarts : Return(r, s) \/ CloseDone(r, s)

ManagerSpec == ManagerInit /\ [][ManagerNext]_managerVars

-----------------------------------------------------------------------------
(* Properties                                                               *)

ManagerTypeOK ==
  /\ owner \in {"idle", "starting", "up", "waiting"}
  /\ routines \subseteq Routine
  /\ starts \in 0 .. MaxStarts
  /\ toStart \subseteq Routine
  /\ instances \in [Routine -> 0 .. MaxStarts]
  /\ toWait \subseteq Routine
  /\ cancelled \subseteq 1 .. MaxStarts
  /\ goroutine \in [Routine -> [1 .. MaxStarts -> {"none", "running", "returned", "closed"}]]

\* What is not yet waited for is tracked: the goroutines that run are those of
\* the tracked instances, of the last start, and while Stop waits, of the names
\* its loop has not come to.
Tracked ==
  \A r \in Routine, s \in 1 .. MaxStarts :
    goroutine[r][s] \in {"running", "returned"} =>
      /\ owner # "idle"
      /\ s = starts
      /\ instances[r] = s
      /\ owner = "waiting" => r \in toWait

\* The contexts that are cancelled are those of the starts that were stopped.
Cancelled == cancelled = 1 .. (IF owner \in {"idle", "waiting"} THEN starts ELSE starts - 1)

ManagerInv ==
  /\ ManagerTypeOK
  /\ Tracked
  /\ Cancelled
  /\ owner = "idle" => \A r \in Routine : instances[r] = 0
  /\ owner # "idle" => starts > 0
  /\ \A r \in Routine : instances[r] # 0 =>
        instances[r] = starts /\ goroutine[r][starts] # "none"
  /\ \A r \in Routine, s \in 1 .. MaxStarts : s > starts => goroutine[r][s] = "none"
  /\ owner # "starting" => toStart = {}
  /\ owner # "waiting" => toWait = {}

\* When Stop has returned, no routine of any start is left, not even in the
\* logging of its exit, and each was told to end by its own context.
StopWaits ==
  owner = "idle" =>
    /\ \A r \in Routine, s \in 1 .. MaxStarts : goroutine[r][s] \in {"none", "closed"}
    /\ cancelled = 1 .. starts
=============================================================================
