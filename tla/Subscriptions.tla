---------------------------- MODULE Subscriptions ----------------------------
(***************************************************************************)
(* The two subscription services (internal/server, sync_committee_         *)
(* subscription.go and sync_beacon_committee_subscription.go).  Each loops *)
(* over: list the duties together with a watch on them, tell the beacon    *)
(* node about those of its kind, wait until the duties change.             *)
(*                                                                         *)
(* The calls of their Run in setupRoutines are commented out; the tests    *)
(* run them.  Here they run whenever the server does.                      *)
(***************************************************************************)
EXTENDS DutyRecords

CONSTANTS
  Service,      \* the services
  ServiceKind   \* ServiceKind[k]: the kind of duties k subscribes for

ASSUME ServiceAssumption == ServiceKind \in [Service -> STRING]

VARIABLES
  loop,       \* loop[k]: control point of Run, the duties listed, and whether
              \* the watch channel of the listing is closed
  submitted   \* history: the duties in the calls of k

subsVars == <<loop, submitted>>
allVars == <<dutyVars, subsVars>>

Idle == [pc |-> "off", listed |-> {}, fired |-> FALSE]

SubsTypeOK ==
  /\ RecordsTypeOK
  /\ loop \in [Service -> [pc : {"off", "list", "send", "wait", "closed"},
                           listed : SUBSET Duty, fired : BOOLEAN]]
  /\ submitted \in [Service -> SUBSET Duty]

SubsInit ==
  /\ RecordsInit
  /\ loop = [k \in Service |-> Idle]
  /\ submitted = [k \in Service |-> {}]

\* DutiesList: a snapshot, and the watch channel of that snapshot.
List(k) ==
  /\ server = "running"
  /\ loop[k].pc \in {"off", "list"}
  /\ loop' = [loop EXCEPT ![k] =
       [pc |-> "send",
        listed |-> {d \in Duty : mem[d] # Absent /\ mem[d].kind = ServiceKind[k]},
        fired |-> FALSE]]
  /\ UNCHANGED <<dutyVars, submitted>>

\* One call for all of them, unless there are none.  An error is logged.
Send(k) ==
  /\ loop[k].pc = "send"
  /\ submitted' = [submitted EXCEPT ![k] = @ \cup loop[k].listed]
  /\ loop' = [loop EXCEPT ![k].pc = "wait", ![k].listed = {}]
  /\ UNCHANGED dutyVars

\* The watch channel is closed, be it since before the call.
Woken(k) ==
  /\ loop[k].pc = "wait"
  /\ loop[k].fired
  /\ loop' = [loop EXCEPT ![k].pc = "list"]
  /\ UNCHANGED <<dutyVars, submitted>>

\* Close, seen in the select.
CloseService(k) ==
  /\ loop[k].pc = "wait"
  /\ loop' = [loop EXCEPT ![k].pc = "closed"]
  /\ UNCHANGED <<dutyVars, submitted>>

\* A commit of memdb that wrote duties closes the watch channels of all the
\* listings made before; the end of the process ends the loops.
DutiesWritten ==
  /\ txn.pc = "committed"
  /\ txn'.pc = "none"
  /\ \E d \in Duty : txn.memTxn[d] # Absent

\* Mutant of Watch: a channel that closes while no goroutine waits is missed.
WatchParked ==
  loop' = [k \in Service |-> IF db' = "down" THEN Idle
              ELSE [loop[k] EXCEPT !.fired = @ \/ (DutiesWritten /\ loop[k].pc = "wait")]]

Watch ==
  loop' = [k \in Service |-> IF db' = "down" THEN Idle
              ELSE [loop[k] EXCEPT !.fired = @ \/ (DutiesWritten /\ loop[k].pc \in {"send", "wait"})]]

ServiceStep(k) == List(k) \/ Send(k) \/ Woken(k)

SubsNext ==
  \/ RecordsNext /\ Watch /\ UNCHANGED submitted
  \/ \E k \in Service : ServiceStep(k) \/ CloseService(k)

\* The services are scheduled, and the calls they make return.
SubsFairness == \A k \in Service : WF_allVars(ServiceStep(k))

SubsSpec == SubsInit /\ [][SubsNext]_allVars /\ SubsFairness

-----------------------------------------------------------------------------
(* Properties                                                              *)

\* "wait for the duties to change": every duty in the state is told to the
\* beacon node, in a call made after it was written, however the writes fall
\* between the listing, the call and the wait.
EveryDutySubmitted ==
  \A k \in Service, d \in Duty :
    server = "running" /\ mem[d] # Absent /\ mem[d].kind = ServiceKind[k] ~>
      d \in submitted[k] \/ server # "running" \/ loop[k].pc = "closed"
=============================================================================
