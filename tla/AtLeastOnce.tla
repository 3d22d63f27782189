----------------------------- MODULE AtLeastOnce -----------------------------
(***************************************************************************)
(* What the pipeline promises about one job, seen from outside: its        *)
(* message is handed out again and again until it is settled; each time is *)
(* worth one charge at most, which may come late, even after the message   *)
(* was settled; and it is settled as done only once a charge was made.     *)
(***************************************************************************)
EXTENDS Naturals

CONSTANT Jobs

VARIABLES
  attempts,  \* times the job was handed to a worker
  charges,   \* times its client was debited
  outcome    \* "open", "done" or "dead"

vars == <<attempts, charges, outcome>>

Init ==
  /\ attempts = [j \in Jobs |-> 0]
  /\ charges = [j \in Jobs |-> 0]
  /\ outcome = [j \in Jobs |-> "open"]

Attempt(j) ==
  /\ outcome[j] = "open"
  /\ attempts' = [attempts EXCEPT ![j] = @ + 1]
  /\ UNCHANGED <<charges, outcome>>

Charge(j) ==
  /\ charges[j] < attempts[j]
  /\ charges' = [charges EXCEPT ![j] = @ + 1]
  /\ UNCHANGED <<attempts, outcome>>

Settle(j, how) ==
  /\ outcome[j] = "open"
  /\ attempts[j] > 0
  /\ how = "done" => charges[j] > 0
  /\ outcome' = [outcome EXCEPT ![j] = how]
  /\ UNCHANGED <<attempts, charges>>

Next ==
  \E j \in Jobs : Attempt(j) \/ Charge(j) \/ Settle(j, "done") \/ Settle(j, "dead")

Spec == Init /\ [][Next]_vars
=============================================================================
