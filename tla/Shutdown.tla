------------------------------ MODULE Shutdown ------------------------------
(***************************************************************************)
(* The end of the program: handleSignals (internal/cmd/server/command.go)  *)
(* runs Server.Stop in a goroutine of its own and waits for it, for a      *)
(* second signal, or for ten seconds.  Stop waits for the write of the     *)
(* state that is under way, but for no handler and no routine: a handler   *)
(* that comes to its write after the database is closed panics.            *)
(***************************************************************************)
EXTENDS Integers

CONSTANTS
  Looping,      \* the routines that watch shutdownCh
  SignalBuffer  \* the signals signalCh holds; os/signal drops the others

ASSUME ShutdownAssumption == SignalBuffer \in Nat \ {0}

VARIABLES
  main,        \* handleSignals: "serving", "stopping", or "gone" with the process
  exitCode,    \* the exit code, or Running
  signals,     \* the signals in signalCh
  timer,       \* time.After: "off", "armed" or "fired"
  stopper,     \* the goroutine: the next call of Stop, "returned", or "closed"
               \* when it has closed gracefulCh
  database,    \* "open" or "closed"
  shutdownCh,  \* closed
  handler,     \* a handler of a duty: "idle", "working" or "writing"
  looping      \* the routines that have not returned

endVars ==
  <<main, exitCode, signals, timer, stopper, database, shutdownCh, handler, looping>>

Running == -1

ShutdownInit ==
  /\ main = "serving"
  /\ exitCode = Running
  /\ signals = 0
  /\ timer = "off"
  /\ stopper = "off"
  /\ database = "open"
  /\ shutdownCh = FALSE
  /\ handler = "idle"
  /\ looping = Looping

Alive == main # "gone"

Exits(c) == main' = "gone" /\ exitCode' = c

-----------------------------------------------------------------------------
(* handleSignals                                                            *)

Signal ==
  /\ Alive
  /\ signals < SignalBuffer
  /\ signals' = signals + 1
  /\ UNCHANGED <<main, exitCode, timer, stopper, database, shutdownCh, handler, looping>>

\* Mutant of Caught: no time limit.
CaughtForEver ==
  /\ main = "serving"
  /\ signals > 0
  /\ signals' = signals - 1
  /\ main' = "stopping"
  /\ stopper' = "state"
  /\ UNCHANGED <<exitCode, timer, database, shutdownCh, handler, looping>>

Caught ==
  /\ main = "serving"
  /\ signals > 0
  /\ signals' = signals - 1
  /\ main' = "stopping"
  /\ stopper' = "state"
  /\ timer' = "armed"
  /\ UNCHANGED <<exitCode, database, shutdownCh, handler, looping>>

TimerFires ==
  /\ Alive
  /\ timer = "armed"
  /\ timer' = "fired"
  /\ UNCHANGED <<main, exitCode, signals, stopper, database, shutdownCh, handler, looping>>

\* The select: a second signal, the time limit, or gracefulCh.
Leave ==
  /\ main = "stopping"
  /\ \/ signals > 0 /\ signals' = signals - 1 /\ Exits(1)
     \/ timer = "fired" /\ Exits(1) /\ UNCHANGED signals
     \/ stopper = "closed" /\ Exits(0) /\ UNCHANGED signals
  /\ UNCHANGED <<timer, stopper, database, shutdownCh, handler, looping>>

-----------------------------------------------------------------------------
(* Server.Stop                                                              *)

\* Mutant of CloseState: the database does not wait for the write.
CloseStateNow ==
  /\ Alive
  /\ stopper = "state"
  /\ database' = "closed"
  /\ stopper' = "grpc"
  /\ UNCHANGED <<main, exitCode, signals, timer, shutdownCh, handler, looping>>

CloseState ==
  /\ Alive
  /\ stopper = "state"
  /\ handler # "writing"
  /\ database' = "closed"
  /\ stopper' = "grpc"
  /\ UNCHANGED <<main, exitCode, signals, timer, shutdownCh, handler, looping>>

StopGRPC ==
  /\ Alive
  /\ stopper = "grpc"
  /\ stopper' = "signal"
  /\ UNCHANGED <<main, exitCode, signals, timer, database, shutdownCh, handler, looping>>

CloseShutdownCh ==
  /\ Alive
  /\ stopper = "signal"
  /\ shutdownCh' = TRUE
  /\ stopper' = "returned"
  /\ UNCHANGED <<main, exitCode, signals, timer, database, handler, looping>>

CloseGracefulCh ==
  /\ Alive
  /\ stopper = "returned"
  /\ stopper' = "closed"
  /\ UNCHANGED <<main, exitCode, signals, timer, database, shutdownCh, handler, looping>>

-----------------------------------------------------------------------------
(* The handlers and the routines                                            *)

Handle ==
  /\ Alive
  /\ handler = "idle"
  /\ handler' = "working"
  /\ UNCHANGED <<main, exitCode, signals, timer, stopper, database, shutdownCh, looping>>

\* UpsertDuty; with the database closed the handler panics, and the process
\* exits with code 2.
Upsert ==
  /\ Alive
  /\ handler = "working"
  /\ \/ database = "open" /\ handler' = "writing" /\ UNCHANGED <<main, exitCode>>
     \/ database = "closed" /\ Exits(2) /\ UNCHANGED handler
  /\ UNCHANGED <<signals, timer, stopper, database, shutdownCh, looping>>

Upserted ==
  /\ Alive
  /\ handler = "writing"
  /\ handler' = "idle"
  /\ UNCHANGED <<main, exitCode, signals, timer, stopper, database, shutdownCh, looping>>

\* watchDuties, validatorLifecycle and EmitStats return; runWorker never does.
Loops(r) ==
  /\ Alive
  /\ shutdownCh
  /\ looping' = looping \ {r}
  /\ UNCHANGED <<main, exitCode, signals, timer, stopper, database, shutdownCh, handler>>

ShutdownNext ==
  \/ Signal \/ Caught \/ TimerFires \/ Leave
  \/ CloseState \/ StopGRPC \/ CloseShutdownCh \/ CloseGracefulCh
  \/ Handle \/ Upsert \/ Upserted
  \/ \E r \in Looping : Loops(r)

\* The main goroutine is scheduled and time passes; nothing is said of Stop, of
\* the write it waits for, or of the handlers.
ShutdownFairness == WF_endVars(Caught) /\ WF_endVars(TimerFires) /\ WF_endVars(Leave)

ShutdownSpec == ShutdownInit /\ [][ShutdownNext]_endVars /\ ShutdownFairness

-----------------------------------------------------------------------------
(* Properties                                                               *)

\* Exit code 0 is earned: Stop has come to its end, and no write of the state
\* was cut off.  (With any other exit a write may be.)
GracefulExit ==
  exitCode = 0 => database = "closed" /\ shutdownCh /\ handler # "writing"

\* A signal ends the program, even when a write, or a connection, or the
\* database keeps Stop waiting for ever.
ExitsAfterSignal == signals > 0 ~> main = "gone"
=============================================================================
