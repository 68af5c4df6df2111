----------------------------- MODULE DutyLedger -----------------------------
(***************************************************************************)
(* What the validator promises to the network and to its records, over     *)
(* all its processes: a process publishes a duty (a kind of message, by    *)
(* one validator, for one slot) at most once, and not at all if an earlier *)
(* process has published it, unless that was before the duty's time.  Only *)
(* what a process has published is in its records, and a record is never   *)
(* taken back.  What was published by a process that ended before it was   *)
(* recorded is lost to the records.                                        *)
(***************************************************************************)
EXTENDS Naturals

CONSTANTS Boot,   \* the processes, numbered from 1
          Duty

VARIABLES current,   \* the process that is running, or was the last one
          ledger,    \* ledger[p][d]: what became of duty d in process p
          early      \* early[p]: what p published before its time

Init ==
  /\ current = 1
  /\ ledger = [p \in Boot |-> [d \in Duty |-> "open"]]
  /\ early = [p \in Boot |-> {}]

Publish(d) ==
  /\ ledger[current][d] = "open"
  /\ \A p \in Boot : p # current /\ ledger[p][d] # "open" => d \in early[p]
  /\ ledger' = [ledger EXCEPT ![current][d] = "published"]
  /\ early' \in {early, [early EXCEPT ![current] = @ \cup {d}]}
  /\ UNCHANGED current

\* Every duty in S, which this process has published, moves to the given state.
Settle(S, state) ==
  /\ \A d \in S : ledger[current][d] = "published"
  /\ ledger' = [ledger EXCEPT ![current] = [d \in Duty |-> IF d \in S THEN state ELSE @[d]]]
  /\ UNCHANGED <<current, early>>

\* Several records may reach the disk together.
Record(S) == Settle(S, "recorded")

\* The process ends.
Lose == Settle({d \in Duty : ledger[current][d] = "published"}, "lost")

\* The next process begins, after the one before has ended.
Begin ==
  /\ current + 1 \in Boot
  /\ \A d \in Duty : ledger[current][d] # "published"
  /\ current' = current + 1
  /\ UNCHANGED <<ledger, early>>

Next == \/ \E d \in Duty : Publish(d)
        \/ \E S \in SUBSET Duty : Record(S)
        \/ Lose
        \/ Begin

Spec == Init /\ [][Next]_<<current, ledger, early>>
=============================================================================
