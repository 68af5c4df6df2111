----------------------------- MODULE DurableStore -----------------------------
(***************************************************************************)
(* What a write to the state of the validator promises, over all its       *)
(* restarts: the rows of a call are written all or none, only the rows of  *)
(* the call change, and nothing that was written is lost when the process  *)
(* ends.  The objects that are being written may still be completed by     *)
(* their owner while the call is under way.                                *)
(***************************************************************************)
CONSTANTS
  Row,        \* the ids of the rows
  Value,      \* what a row can hold
  Absent,     \* the content of a row that is not there
  InPlace     \* the pairs <<v, w>> such that an object may turn from v into w

VARIABLES
  rows,       \* rows[r]: the content of r
  request     \* request[r]: what the call under way writes to r

Nothing == [r \in Row |-> Absent]

Overlay(base, top) == [r \in Row |-> IF top[r] = Absent THEN base[r] ELSE top[r]]

Init == rows = Nothing /\ request = Nothing

\* A call is made.
Ask ==
  /\ request = Nothing
  /\ request' \in [Row -> Value \cup {Absent}]
  /\ UNCHANGED rows

\* The objects of the call are completed by their owners.
Amend ==
  /\ request' \in [Row -> Value \cup {Absent}]
  /\ \A r \in Row : request'[r] = request[r] \/ <<request[r], request'[r]>> \in InPlace
  /\ UNCHANGED rows

\* The call takes effect.
Apply ==
  /\ rows' = Overlay(rows, request)
  /\ request' = Nothing

\* The call fails, or the process ends before it takes effect.
Refuse == request' = Nothing /\ UNCHANGED rows

Next == Ask \/ Amend \/ Apply \/ Refuse

Spec == Init /\ [][Next]_<<rows, request>>
=============================================================================
