---------------------------- MODULE MCComponents ----------------------------
(***************************************************************************)
(* The components that share no state with the others, checked in one run: *)
(* a behaviour is one of the delay heap, of the bit list, of the routine   *)
(* manager or of the end of the program, while the others stay as they     *)
(* are.                                                                    *)
(***************************************************************************)
EXTENDS DelayHeap, BitList, RoutineManager, Shutdown

VARIABLE focus

mcVars == <<heapVars, bitVars, managerVars, endVars, focus>>

MCInit ==
  /\ focus \in {"heap", "bits", "manager", "end"}
  /\ HeapInit
  /\ BitInit
  /\ focus # "bits" => size = CHOOSE n \in Sizes : TRUE
  /\ ManagerInit
  /\ ShutdownInit

MCNext ==
  /\ UNCHANGED focus
  /\ \/ focus = "heap" /\ HeapNext /\ UNCHANGED <<bitVars, managerVars, endVars>>
     \/ focus = "bits" /\ BitNext /\ UNCHANGED <<heapVars, managerVars, endVars>>
     \/ focus = "manager" /\ ManagerNext /\ UNCHANGED <<heapVars, bitVars, endVars>>
     \/ focus = "end" /\ ShutdownNext /\ UNCHANGED <<heapVars, bitVars, managerVars>>

\* The fairness of Shutdown.
MCSpec ==
  /\ MCInit
  /\ [][MCNext]_mcVars
  /\ WF_endVars(focus = "end" /\ Caught)
  /\ WF_endVars(focus = "end" /\ TimerFires)
  /\ WF_endVars(focus = "end" /\ Leave)
=============================================================================
