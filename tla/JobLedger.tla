------------------------------ MODULE JobLedger ------------------------------
(***************************************************************************)
(* What the API's two tables promise to one caller at a time per job: each *)
(* operation happens at once.  A completion turns a job that is not        *)
(* ANALYZED into one, with the report, the charge and no error message     *)
(* recorded together with the debit of its client, and only when the       *)
(* balance covers the charge.                                              *)
(***************************************************************************)
EXTENDS Integers

CONSTANTS Clients, Jobs, Existing, Reports, Errors, Tokens, Owner, Funds, Null

VARIABLES jobs, balance

vars == <<jobs, balance>>

ReceivedRow ==
  [status |-> "RECEIVED", err |-> Null, report |-> Null, tokens |-> 0]

Init ==
  /\ jobs = [j \in Jobs |-> IF j \in Existing THEN ReceivedRow ELSE Null]
  /\ balance = Funds

Create(j) ==
  /\ jobs[j] = Null
  /\ jobs' = [jobs EXCEPT ![j] = ReceivedRow]
  /\ UNCHANGED balance

SetStatus(j, status, err) ==
  /\ jobs[j] # Null
  /\ jobs' = [jobs EXCEPT ![j] = [@ EXCEPT !.status = status, !.err = err]]
  /\ UNCHANGED balance

Complete(j, report, tokens) ==
  /\ jobs[j] # Null
  /\ jobs[j].status # "ANALYZED"
  /\ tokens <= balance[Owner[j]]
  /\ jobs' = [jobs EXCEPT ![j] =
       [status |-> "ANALYZED", err |-> Null,
        report |-> report, tokens |-> tokens]]
  /\ balance' = [balance EXCEPT ![Owner[j]] = @ - tokens]

Next ==
  \E j \in Jobs :
    \/ Create(j)
    \/ \E status \in {"PROCESSING", "ERROR"}, err \in Errors \cup {Null} :
         SetStatus(j, status, err)
    \/ \E report \in Reports, tokens \in Tokens : Complete(j, report, tokens)

Spec == Init /\ [][Next]_vars
=============================================================================
