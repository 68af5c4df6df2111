------------------------------ MODULE DutyFlow ------------------------------
(***************************************************************************)
(* What the duty queue promises to the rest of the validator, with no      *)
(* locks, channels, timers or heaps: every duty that is handed over is     *)
(* started at most once and is finished at most once, and never starts     *)
(* before every duty it is blocked by has finished.                        *)
(***************************************************************************)

CONSTANTS Duty,       \* the identifiers of the duties
          BlockedBy   \* BlockedBy[d]: the duties that d has to wait for

VARIABLE phase        \* phase[d]: how far duty d has come

Phase == {"new", "pending", "running", "done"}

TypeOK == phase \in [Duty -> Phase]

Init == phase = [d \in Duty |-> "new"]

\* The scheduler hands over the duties of a plan.
Submit(S) ==
  /\ \A d \in S : phase[d] = "new"
  /\ phase' = [d \in Duty |-> IF d \in S THEN "pending" ELSE phase[d]]

\* The worker receives duty d: all the duties it waits for are done.
Start(d) ==
  /\ phase[d] = "pending"
  /\ \A e \in BlockedBy[d] : phase[e] = "done"
  /\ phase' = [phase EXCEPT ![d] = "running"]

\* The handler of duty d acknowledges it.
Finish(d) ==
  /\ phase[d] = "running"
  /\ phase' = [phase EXCEPT ![d] = "done"]

Next ==
  \/ \E S \in SUBSET Duty : Submit(S)
  \/ \E d \in Duty : Start(d) \/ Finish(d)

Spec == Init /\ [][Next]_phase
=============================================================================
