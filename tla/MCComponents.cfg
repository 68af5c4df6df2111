SPECIFICATION MCSpec
CONSTANTS
  Node = {n1, n2, n3, n4, n5, n6}
  NoNode = NoNode
  Time = {0, 1, 2}
  Sizes = {0, 1, 7, 8, 9}
  Routine = {"r0", "r1"}
  MaxStarts = 2
  Looping = {"watch-duties", "validator-lifecycle", "emit-stats"}
  SignalBuffer = 4
INVARIANTS BitsExact StopWaits GracefulExit
PROPERTIES ImplementsDelaySet ExitsAfterSignal
CHECK_DEADLOCK FALSE
