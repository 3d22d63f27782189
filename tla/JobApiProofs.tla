---------------------------- MODULE JobApiProofs ----------------------------
(***************************************************************************)
(* Theorems about JobApi for every number of clients, jobs and requests.   *)
(* The invariants the runs check are not inductive: CallInv ties where a   *)
(* request is to what it asked for and has loaded, LockInv says that a     *)
(* balance read under FOR UPDATE stays the current one, PaidInv follows an *)
(* ANALYZED row to whoever has seen it.                                    *)
(***************************************************************************)
EXTENDS JobApi, TLAPS

Uploading  == {"admitting", "storing"}
Completing == {"ignoring", "locking", "refusing", "debiting"}
Holding    == {"refusing", "debiting"}

CallInv ==
  \A r \in Requests :
    /\ pc[r] # "new" => call[r] \in Calls
    /\ pc[r] \in Uploading => call[r] \in Uploads
    /\ pc[r] = "patching" =>
         /\ call[r] \in Patches
         /\ call[r].status \in {"PROCESSING", "ERROR"}
    /\ pc[r] \in Completing => call[r] \in Completions
    /\ pc[r] \in Completing \cup {"patching"} =>
         seen[r] \in Row /\ jobs[call[r].job] \in Row
    /\ pc[r] = "debiting" => call[r].tokens <= cash[r]
    /\ reply[r] # Null => pc[r] = "done"

LockInv ==
  \A r \in Requests :
    /\ \A c \in Clients :
         writer[c] = r => pc[r] \in Holding /\ client(r) = c
    /\ pc[r] \in Holding =>
         writer[client(r)] = r /\ cash[r] = balance[client(r)]

PaidInv ==
  /\ \A j \in Jobs : jobs[j] # Null /\ jobs[j].status = "ANALYZED"
                       => debits[j] > 0
  /\ \A r \in Requests :
       /\ pc[r] = "ignoring" => debits[call[r].job] > 0
       /\ pc[r] = "committed" /\ call[r].kind = "complete"
            => debits[call[r].job] > 0
       /\ reply[r] = 200 /\ call[r].kind = "complete"
            => debits[call[r].job] > 0

TypeInv == TypeOK /\ CallInv

-----------------------------------------------------------------------------
(* The fields of the three kinds of call, and of a row. *)
LEMMA CallTypes ==
  /\ \A c \in Calls : c.job \in Jobs /\ Owner[c.job] \in Clients
  /\ \A c \in Completions : c.tokens \in Nat /\ c.kind = "complete"
  /\ \A c \in Patches : c.kind = "patch"
  /\ \A c \in Uploads : c.kind = "upload"
  /\ Uploads \subseteq Calls /\ Patches \subseteq Calls
  /\ Completions \subseteq Calls
  /\ \A c \in Calls :
       /\ c.kind = "upload" => c \in Uploads
       /\ c.kind = "patch" => c \in Patches
       /\ c.kind = "complete" => c \in Completions
BY OwnerAssumption, TokensAssumption
   DEF Calls, Uploads, Patches, Completions

(* What a flush writes is a row again. *)
LEMMA FlushType ==
  ASSUME NEW row \in Row, NEW loaded, NEW new \in Row
  PROVE  Flush(row, loaded, new) \in Row
BY DEF Flush, Row

LEMMA ReceivedIsRow == ReceivedRow \in Row
BY DEF ReceivedRow, Row, Status

(* The two rows the handlers build from the row they loaded. *)
LEMMA NewRows ==
  ASSUME NEW row \in Row
  PROVE  /\ \A c \in Patches : c.status \in {"PROCESSING", "ERROR"} =>
              [row EXCEPT !.status = c.status, !.err = c.err] \in Row
         /\ \A c \in Completions :
              [status |-> "ANALYZED", err |-> Null,
               report |-> c.report, tokens |-> c.tokens] \in Row
BY TokensAssumption DEF Row, Patches, Completions, Status

LEMMA TypeInit == Init => TypeInv
BY FundsAssumption, ExistingAssumption
   DEF Init, TypeInv, TypeOK, CallInv, Row, ReceivedRow, Labels, Uploading,
       Completing, Status

LEMMA TypeNext == TypeInv /\ [Next]_vars => TypeInv'
<1> SUFFICES ASSUME TypeInv, [Next]_vars PROVE TypeInv'
  OBVIOUS
<1> USE CallTypes, NullAssumption DEF TypeInv, TypeOK, CallInv, Goto, Respond, ReleaseLocks,
      Active, client, Labels, Uploading, Completing, database, locks, session, metrics, history
<1>1. ASSUME NEW r \in Requests, NEW j \in Jobs, ReceiveUpload(r, j) PROVE TypeInv'
  <2>1. [kind |-> "upload", job |-> j] \in Uploads
    BY DEF Uploads
  <2>2. balance[Owner[j]] \in Nat
    BY OwnerAssumption
  <2> QED
    BY <1>1, <2>1, <2>2 DEF ReceiveUpload
<1>2. ASSUME NEW r \in Requests, NEW c \in Patches \cup Completions, ReceiveInternal(r, c) PROVE TypeInv'
  BY <1>2 DEF ReceiveInternal
<1>3. ASSUME NEW r \in Requests, RefuseUpload(r) PROVE TypeInv'
  BY <1>3 DEF RefuseUpload
<1>4. ASSUME NEW r \in Requests, InsertReceived(r) PROVE TypeInv'
  BY <1>4 DEF InsertReceived
<1>5. ASSUME NEW r \in Requests, CommitUpload(r) PROVE TypeInv'
  BY <1>5, ReceivedIsRow DEF CommitUpload
<1>6. ASSUME NEW r \in Requests, JobNotFound(r) PROVE TypeInv'
  BY <1>6 DEF JobNotFound
<1>7. ASSUME NEW r \in Requests, InvalidPatch(r) PROVE TypeInv'
  BY <1>7 DEF InvalidPatch
<1>8. ASSUME NEW r \in Requests, LoadForPatch(r) PROVE TypeInv'
  <2>1. call[r] \in Patches
    BY <1>8 DEF LoadForPatch
  <2>2. call[r].status \in Status
    BY <1>8 DEF LoadForPatch, Status
  <2> QED
    BY <1>8, <2>1, <2>2 DEF LoadForPatch
<1>9. ASSUME NEW r \in Requests, CommitPatch(r) PROVE TypeInv'
  <2> DEFINE new == [seen[r] EXCEPT !.status = call[r].status,
                                    !.err = call[r].err]
  <2>1. /\ call[r] \in Patches /\ call[r].job \in Jobs
        /\ call[r].status \in {"PROCESSING", "ERROR"}
        /\ seen[r] \in Row /\ jobs[call[r].job] \in Row
    BY <1>9 DEF CommitPatch
  <2>2. new \in Row
    BY <2>1, NewRows
  <2>3. Flush(jobs[call[r].job], seen[r], new) \in Row
    BY <2>1, <2>2, FlushType
  <2>4. jobs' \in [Jobs -> Row \cup {Null}] /\ jobs'[call[r].job] \in Row
    BY <1>9, <2>1, <2>3 DEF CommitPatch
  <2>5. \A j \in Jobs : jobs[j] \in Row => jobs'[j] \in Row
    BY <1>9, <2>4 DEF CommitPatch
  <2>6. reopened' \in [Jobs -> Nat]
    BY <1>9 DEF CommitPatch
  <2>7. pc' = [pc EXCEPT ![r] = "committed"] /\ UNCHANGED <<call, seen, reply>>
    BY <1>9 DEF CommitPatch
  <2>8. TypeOK'
    BY <1>9, <2>4, <2>6, <2>7 DEF CommitPatch
  <2>9. CallInv'
    BY <1>9, <2>5, <2>7 DEF CommitPatch
  <2> QED
    BY <2>8, <2>9
<1>10. ASSUME NEW r \in Requests, LoadForCompletion(r) PROVE TypeInv'
  BY <1>10 DEF LoadForCompletion
<1>11. ASSUME NEW r \in Requests, CommitNothing(r) PROVE TypeInv'
  BY <1>11 DEF CommitNothing
<1>12. ASSUME NEW r \in Requests, LockClient(r) PROVE TypeInv'
  <2>1. /\ call[r] \in Completions /\ client(r) \in Clients
        /\ call[r].tokens \in Nat /\ balance[client(r)] \in Nat
    BY <1>12 DEF LockClient
  <2>2. ~ CannotPay(balance[client(r)], call[r].tokens)
          => call[r].tokens <= balance[client(r)]
    BY <2>1 DEF CannotPay
  <2>3. cash' = [cash EXCEPT ![r] = balance[client(r)]]
    BY <1>12 DEF LockClient
  <2>4. \/ pc' = [pc EXCEPT ![r] = "refusing"]
        \/ /\ pc' = [pc EXCEPT ![r] = "debiting"]
           /\ call[r].tokens <= balance[client(r)]
    BY <1>12, <2>2 DEF LockClient
  <2>5. TypeOK'
    BY <1>12, <2>1, <2>3, <2>4 DEF LockClient
  <2>6. CallInv'
    BY <1>12, <2>1, <2>3, <2>4 DEF LockClient
  <2> QED
    BY <2>5, <2>6
<1>13. ASSUME NEW r \in Requests, RefuseCompletion(r) PROVE TypeInv'
  BY <1>13 DEF RefuseCompletion
<1>14. ASSUME NEW r \in Requests, CommitCompletion(r) PROVE TypeInv'
  <2> DEFINE new == [status |-> "ANALYZED", err |-> Null,
                     report |-> call[r].report, tokens |-> call[r].tokens]
  <2>1. /\ call[r] \in Completions /\ call[r].job \in Jobs
        /\ seen[r] \in Row /\ jobs[call[r].job] \in Row
        /\ client(r) \in Clients
        /\ call[r].tokens \in Nat /\ cash[r] - call[r].tokens \in Nat
    BY <1>14 DEF CommitCompletion
  <2>2. Flush(jobs[call[r].job], seen[r], new) \in Row
    BY <2>1, NewRows, FlushType
  <2>3. jobs' \in [Jobs -> Row \cup {Null}] /\ jobs'[call[r].job] \in Row
    BY <1>14, <2>1, <2>2 DEF CommitCompletion, Analyzed
  <2>4. \A j \in Jobs : jobs[j] \in Row => jobs'[j] \in Row
    BY <1>14, <2>3 DEF CommitCompletion
  <2>5. /\ balance' \in [Clients -> Nat] /\ debited' \in [Clients -> Nat]
        /\ debits' \in [Jobs -> Nat]
    BY <1>14, <2>1 DEF CommitCompletion
  <2>6. /\ pc' = [pc EXCEPT ![r] = "committed"]
        /\ UNCHANGED <<call, seen, cash, reply>>
    BY <1>14 DEF CommitCompletion
  <2>7. TypeOK'
    BY <1>14, <2>3, <2>5, <2>6 DEF CommitCompletion
  <2>8. CallInv'
    BY <1>14, <2>4, <2>6 DEF CommitCompletion
  <2> QED
    BY <2>7, <2>8
<1>15. ASSUME NEW r \in Requests, AnswerUpload(r) PROVE TypeInv'
  BY <1>15 DEF AnswerUpload, Status
<1>16. ASSUME NEW r \in Requests, AnswerPatch(r) PROVE TypeInv'
  BY <1>16 DEF AnswerPatch
<1>17. ASSUME NEW r \in Requests, AnswerCompletion(r) PROVE TypeInv'
  <2>1. call[r] \in Completions /\ client(r) \in Clients
    BY <1>17 DEF AnswerCompletion
  <2> QED
    BY <1>17, <2>1 DEF AnswerCompletion, Status
<1>18. ASSUME NEW r \in Requests, Fail(r) PROVE TypeInv'
  BY <1>18 DEF Fail
<1>19. ASSUME Crash PROVE TypeInv'
  BY <1>19 DEF Crash
<1>20. CASE UNCHANGED vars
  BY <1>20 DEF vars
<1>21. ASSUME NEW r \in Requests, UpdateJob(r) PROVE TypeInv'
  BY <1>21 DEF UpdateJob
<1> QED
  BY <1>1, <1>2, <1>3, <1>4, <1>5, <1>6, <1>7, <1>8, <1>9, <1>10, <1>11, <1>12, <1>13, <1>14, <1>15, <1>16, <1>17, <1>18, <1>19, <1>20, <1>21 DEF Next, Proceed

LEMMA LockInit == Init => LockInv
BY NullAssumption DEF Init, LockInv, Holding

(* A request that holds a client row keeps the others from writing it. *)
LEMMA LockNext == TypeInv /\ LockInv /\ [Next]_vars => LockInv'
<1> SUFFICES ASSUME TypeInv, LockInv, [Next]_vars PROVE LockInv'
  OBVIOUS
<1> USE CallTypes, NullAssumption
    DEF TypeInv, TypeOK, CallInv, LockInv, Goto, Respond, ReleaseLocks,
        Active, client, Labels, Uploading, Completing, Holding, database,
        locks, session
<1>1. ASSUME NEW r \in Requests, NEW j \in Jobs, ReceiveUpload(r, j) PROVE LockInv'
  BY <1>1 DEF ReceiveUpload
<1>2. ASSUME NEW r \in Requests, NEW c \in Patches \cup Completions,
             ReceiveInternal(r, c) PROVE LockInv'
  BY <1>2 DEF ReceiveInternal
<1>3. ASSUME NEW r \in Requests, RefuseUpload(r) PROVE LockInv'
  BY <1>3 DEF RefuseUpload
<1>4. ASSUME NEW r \in Requests, InsertReceived(r) PROVE LockInv'
  BY <1>4 DEF InsertReceived
<1>5. ASSUME NEW r \in Requests, CommitUpload(r) PROVE LockInv'
  BY <1>5 DEF CommitUpload
<1>6. ASSUME NEW r \in Requests, JobNotFound(r) PROVE LockInv'
  BY <1>6 DEF JobNotFound
<1>7. ASSUME NEW r \in Requests, InvalidPatch(r) PROVE LockInv'
  BY <1>7 DEF InvalidPatch
<1>8. ASSUME NEW r \in Requests, LoadForPatch(r) PROVE LockInv'
  BY <1>8 DEF LoadForPatch
<1>9. ASSUME NEW r \in Requests, CommitPatch(r) PROVE LockInv'
  BY <1>9 DEF CommitPatch
<1>10. ASSUME NEW r \in Requests, LoadForCompletion(r) PROVE LockInv'
  BY <1>10 DEF LoadForCompletion
<1>11. ASSUME NEW r \in Requests, CommitNothing(r) PROVE LockInv'
  BY <1>11 DEF CommitNothing
<1>12. ASSUME NEW r \in Requests, LockClient(r) PROVE LockInv'
  BY <1>12 DEF LockClient, ClientRowFree
<1>13. ASSUME NEW r \in Requests, RefuseCompletion(r) PROVE LockInv'
  BY <1>13 DEF RefuseCompletion
<1>14. ASSUME NEW r \in Requests, CommitCompletion(r) PROVE LockInv'
  BY <1>14 DEF CommitCompletion
<1>15. ASSUME NEW r \in Requests, AnswerUpload(r) PROVE LockInv'
  BY <1>15 DEF AnswerUpload
<1>16. ASSUME NEW r \in Requests, AnswerPatch(r) PROVE LockInv'
  BY <1>16 DEF AnswerPatch
<1>17. ASSUME NEW r \in Requests, AnswerCompletion(r) PROVE LockInv'
  BY <1>17 DEF AnswerCompletion
<1>18. ASSUME NEW r \in Requests, Fail(r) PROVE LockInv'
  BY <1>18 DEF Fail
<1>19. ASSUME Crash PROVE LockInv'
  BY <1>19 DEF Crash
<1>20. CASE UNCHANGED vars
  BY <1>20 DEF vars
<1>21. ASSUME NEW r \in Requests, UpdateJob(r) PROVE LockInv'
  BY <1>21 DEF UpdateJob
<1> QED
  BY <1>1, <1>2, <1>3, <1>4, <1>5, <1>6, <1>7, <1>8, <1>9, <1>10, <1>11, <1>12, <1>13, <1>14, <1>15, <1>16, <1>17, <1>18, <1>19, <1>20, <1>21
     DEF Next, Proceed

-----------------------------------------------------------------------------
LEMMA PaidInit == Init => PaidInv
BY NullAssumption DEF Init, PaidInv, ReceivedRow

LEMMA PaidNext == TypeInv /\ PaidInv /\ [Next]_vars => PaidInv'
<1> SUFFICES ASSUME TypeInv, PaidInv, [Next]_vars PROVE PaidInv'
  OBVIOUS
<1> USE CallTypes, NullAssumption
    DEF TypeInv, TypeOK, CallInv, PaidInv, Goto, Respond, Active, Labels,
        Uploading, Completing, database, session, history
<1>1. ASSUME NEW r \in Requests, NEW j \in Jobs, ReceiveUpload(r, j) PROVE PaidInv'
  BY <1>1 DEF ReceiveUpload
<1>2. ASSUME NEW r \in Requests, NEW c \in Patches \cup Completions,
             ReceiveInternal(r, c) PROVE PaidInv'
  BY <1>2 DEF ReceiveInternal
<1>3. ASSUME NEW r \in Requests, RefuseUpload(r) PROVE PaidInv'
  BY <1>3 DEF RefuseUpload
<1>4. ASSUME NEW r \in Requests, InsertReceived(r) PROVE PaidInv'
  BY <1>4 DEF InsertReceived
<1>5. ASSUME NEW r \in Requests, CommitUpload(r) PROVE PaidInv'
  BY <1>5 DEF CommitUpload, ReceivedRow
<1>6. ASSUME NEW r \in Requests, JobNotFound(r) PROVE PaidInv'
  BY <1>6 DEF JobNotFound
<1>7. ASSUME NEW r \in Requests, InvalidPatch(r) PROVE PaidInv'
  BY <1>7 DEF InvalidPatch
<1>8. ASSUME NEW r \in Requests, LoadForPatch(r) PROVE PaidInv'
  BY <1>8 DEF LoadForPatch
<1>9. ASSUME NEW r \in Requests, CommitPatch(r) PROVE PaidInv'
  <2> DEFINE j == call[r].job
             new == [seen[r] EXCEPT !.status = call[r].status,
                                    !.err = call[r].err]
  <2>1. /\ j \in Jobs /\ jobs[j] \in Row /\ seen[r] \in Row
        /\ call[r].status # "ANALYZED"
    BY <1>9 DEF CommitPatch
  <2>2. new.status = call[r].status
    BY <2>1 DEF Row
  <2>3. Flush(jobs[j], seen[r], new).status = "ANALYZED"
          => jobs[j].status = "ANALYZED"
    BY <2>1, <2>2 DEF Flush
  <2>4. jobs' = [jobs EXCEPT ![j] = Flush(jobs[j], seen[r], new)]
    BY <1>9 DEF CommitPatch
  <2>5. \A i \in Jobs : jobs'[i] # Null /\ jobs'[i].status = "ANALYZED"
                         => debits[i] > 0
    BY <2>1, <2>3, <2>4
  <2> QED
    BY <1>9, <2>5 DEF CommitPatch
<1>10. ASSUME NEW r \in Requests, LoadForCompletion(r) PROVE PaidInv'
  BY <1>10 DEF LoadForCompletion, AlreadyAnalyzed
<1>11. ASSUME NEW r \in Requests, CommitNothing(r) PROVE PaidInv'
  BY <1>11 DEF CommitNothing
<1>12. ASSUME NEW r \in Requests, LockClient(r) PROVE PaidInv'
  BY <1>12 DEF LockClient
<1>13. ASSUME NEW r \in Requests, RefuseCompletion(r) PROVE PaidInv'
  BY <1>13 DEF RefuseCompletion
<1>14. ASSUME NEW r \in Requests, CommitCompletion(r) PROVE PaidInv'
  BY <1>14 DEF CommitCompletion
<1>15. ASSUME NEW r \in Requests, AnswerUpload(r) PROVE PaidInv'
  BY <1>15 DEF AnswerUpload
<1>16. ASSUME NEW r \in Requests, AnswerPatch(r) PROVE PaidInv'
  BY <1>16 DEF AnswerPatch
<1>17. ASSUME NEW r \in Requests, AnswerCompletion(r) PROVE PaidInv'
  BY <1>17 DEF AnswerCompletion
<1>18. ASSUME NEW r \in Requests, Fail(r) PROVE PaidInv'
  BY <1>18 DEF Fail
<1>19. ASSUME Crash PROVE PaidInv'
  BY <1>19 DEF Crash
<1>20. CASE UNCHANGED vars
  BY <1>20 DEF vars
<1>21. ASSUME NEW r \in Requests, UpdateJob(r) PROVE PaidInv'
  BY <1>21 DEF UpdateJob
<1> QED
  BY <1>1, <1>2, <1>3, <1>4, <1>5, <1>6, <1>7, <1>8, <1>9, <1>10, <1>11, <1>12, <1>13, <1>14, <1>15, <1>16, <1>17, <1>18, <1>19, <1>20, <1>21
     DEF Next, Proceed
-----------------------------------------------------------------------------
IInv == TypeInv /\ LockInv /\ PaidInv

LEMMA Inductive == Spec => []IInv
<1>1. Init => IInv
  BY TypeInit, LockInit, PaidInit DEF IInv
<1>2. IInv /\ [Next]_vars => IInv'
  BY TypeNext, LockNext, PaidNext DEF IInv
<1> QED
  BY <1>1, <1>2, PTL DEF Spec

(* Every variable keeps its type; in particular no balance is overdrawn.   *)
THEOREM TypeCorrect == Spec => []TypeOK
BY Inductive, PTL DEF IInv, TypeInv

(* A completion that was answered 200 is paid for.                         *)
THEOREM AcknowledgedIsPaidHolds == Spec => []AcknowledgedIsPaid
<1>1. IInv => AcknowledgedIsPaid
  BY DEF IInv, PaidInv, AcknowledgedIsPaid
<1> QED
  BY <1>1, Inductive, PTL

(* Tokens are conserved: every action but CommitCompletion leaves both     *)
(* terms alone, and that one subtracts from a balance read under the lock  *)
(* it still holds.                                                         *)
LEMMA ConservedNext ==
  IInv /\ BalanceConserved /\ [Next]_vars => BalanceConserved'
<1> SUFFICES ASSUME IInv, BalanceConserved, [Next]_vars
             PROVE  BalanceConserved'
  OBVIOUS
<1>1. CASE UNCHANGED <<balance, debited>>
  BY <1>1 DEF BalanceConserved
<1>2. ASSUME NEW r \in Requests, CommitCompletion(r)
      PROVE  BalanceConserved'
  <2> DEFINE n == call[r].tokens
  <2>1. /\ client(r) \in Clients /\ n \in Nat
        /\ balance \in [Clients -> Nat] /\ debited \in [Clients -> Nat]
    BY <1>2, CallTypes
       DEF IInv, TypeInv, TypeOK, CallInv, CommitCompletion, Completing, client
  <2>2. cash[r] = balance[client(r)]
    BY <1>2 DEF IInv, LockInv, CommitCompletion, Holding
  <2>3. /\ balance' = [balance EXCEPT ![client(r)] = balance[client(r)] - n]
        /\ debited' = [debited EXCEPT ![client(r)] = debited[client(r)] + n]
    BY <1>2, <2>2 DEF CommitCompletion
  <2> QED
    BY <2>1, <2>3 DEF BalanceConserved
<1>3. UNCHANGED <<balance, debited>> \/ \E r \in Requests : CommitCompletion(r)
  BY DEF Next, vars, Proceed, ReceiveUpload, RefuseUpload, InsertReceived,
         CommitUpload, ReceiveInternal, JobNotFound, InvalidPatch,
         LoadForPatch, UpdateJob, CommitPatch, LoadForCompletion, CommitNothing,
         LockClient, RefuseCompletion, AnswerUpload, AnswerPatch,
         AnswerCompletion, Fail, Crash, database, history
<1> QED
  BY <1>1, <1>2, <1>3

THEOREM BalanceConservedHolds == Spec => []BalanceConserved
<1>1. Init => BalanceConserved
  BY FundsAssumption DEF Init, BalanceConserved
<1> QED
  BY <1>1, ConservedNext, Inductive, PTL DEF Spec

-----------------------------------------------------------------------------
(* Who shares a client row is storing the diagram of its upload.           *)
ShareInv ==
  \A r \in Requests, c \in Clients : r \in keyShare[c] => pc[r] = "storing"

LEMMA ShareNext == TypeInv /\ ShareInv /\ [Next]_vars => ShareInv'
<1> SUFFICES ASSUME TypeInv, ShareInv, [Next]_vars PROVE ShareInv'
  OBVIOUS
<1> USE CallTypes
    DEF TypeInv, TypeOK, CallInv, ShareInv, Goto, Respond, ReleaseLocks,
        Active, client, Labels, Uploading, locks
<1>1. ASSUME NEW r \in Requests, InsertReceived(r) PROVE ShareInv'
  BY <1>1 DEF InsertReceived
<1>2. ASSUME NEW r \in Requests,
             \/ CommitUpload(r) \/ CommitPatch(r) \/ RefuseCompletion(r)
             \/ CommitCompletion(r) \/ Fail(r)
      PROVE  ShareInv'
  BY <1>2 DEF CommitUpload, CommitPatch, RefuseCompletion, CommitCompletion,
       Fail
<1>3. ASSUME UNCHANGED keyShare, NEW r \in Requests, pc[r] # "storing",
             NEW l, pc' = [pc EXCEPT ![r] = l]
      PROVE  ShareInv'
  BY <1>3
<1>4. ASSUME NEW r \in Requests,
             \/ \E j \in Jobs : ReceiveUpload(r, j)
             \/ \E c \in Patches \cup Completions : ReceiveInternal(r, c)
             \/ RefuseUpload(r) \/ JobNotFound(r) \/ InvalidPatch(r)
             \/ LoadForPatch(r) \/ LoadForCompletion(r)
             \/ CommitNothing(r) \/ LockClient(r) \/ AnswerUpload(r)
             \/ AnswerPatch(r) \/ AnswerCompletion(r)
      PROVE  /\ UNCHANGED keyShare /\ pc[r] # "storing"
             /\ \E l : pc' = [pc EXCEPT ![r] = l]
  BY <1>4 DEF ReceiveUpload, ReceiveInternal, RefuseUpload, JobNotFound,
       InvalidPatch, LoadForPatch, LoadForCompletion,
       CommitNothing, LockClient, AnswerUpload, AnswerPatch, AnswerCompletion
<1>5. ASSUME Crash PROVE ShareInv'
  BY <1>5 DEF Crash
<1>6. ASSUME UNCHANGED vars \/ \E r \in Requests : UpdateJob(r)
      PROVE  ShareInv'
  BY <1>6 DEF vars, UpdateJob
<1> HIDE DEF ShareInv
<1> QED
  BY <1>1, <1>2, <1>3, <1>4, <1>5, <1>6 DEF Next, Proceed

(* Who has updated a job row is about to commit a request about that job.  *)
Updating == {"patching", "debiting"}

UpdaterInv ==
  \A r \in Requests, j \in Jobs :
    updater[j] = r => pc[r] \in Updating /\ call[r].job = j

LEMMA UpdaterNext == TypeInv /\ UpdaterInv /\ [Next]_vars => UpdaterInv'
<1> SUFFICES ASSUME TypeInv, UpdaterInv, [Next]_vars PROVE UpdaterInv'
  OBVIOUS
<1>0. /\ pc \in [Requests -> Labels] /\ updater \in [Jobs -> Requests \cup {Null}]
      /\ call \in [Requests -> Calls \cup {Null}]
      /\ \A r \in Requests : r # Null
      /\ \A r \in Requests : pc[r] # "new" => call[r].job \in Jobs
  BY CallTypes, NullAssumption DEF TypeInv, TypeOK, CallInv
<1>1. ASSUME NEW r \in Requests, UpdateJob(r) PROVE UpdaterInv'
  BY <1>0, <1>1 DEF UpdateJob, UpdaterInv, Updating
<1>2. ASSUME NEW r \in Requests, UNCHANGED call, NEW l,
             pc' = [pc EXCEPT ![r] = l], ReleaseLocks(r)
      PROVE  UpdaterInv'
  BY <1>0, <1>2 DEF ReleaseLocks, UpdaterInv
<1>3. ASSUME NEW r \in Requests, UNCHANGED updater, pc[r] \notin Updating,
             NEW l, pc' = [pc EXCEPT ![r] = l],
             \A q \in Requests : q # r => call'[q] = call[q]
      PROVE  UpdaterInv'
  BY <1>0, <1>3 DEF UpdaterInv
<1>4. ASSUME NEW r \in Requests,
             \/ CommitUpload(r) \/ CommitPatch(r) \/ RefuseCompletion(r)
             \/ CommitCompletion(r) \/ Fail(r)
      PROVE  UpdaterInv'
  BY <1>2, <1>4 DEF CommitUpload, CommitPatch, RefuseCompletion,
       CommitCompletion, Fail, Goto, Respond
<1>5. ASSUME NEW r \in Requests,
             \/ \E j \in Jobs : ReceiveUpload(r, j)
             \/ \E c \in Patches \cup Completions : ReceiveInternal(r, c)
             \/ RefuseUpload(r) \/ InsertReceived(r) \/ JobNotFound(r)
             \/ InvalidPatch(r) \/ LoadForPatch(r) \/ LoadForCompletion(r)
             \/ CommitNothing(r) \/ LockClient(r) \/ AnswerUpload(r)
             \/ AnswerPatch(r) \/ AnswerCompletion(r)
      PROVE  /\ UNCHANGED updater /\ pc[r] \notin Updating
             /\ \E l : pc' = [pc EXCEPT ![r] = l]
             /\ \A q \in Requests : q # r => call'[q] = call[q]
  BY <1>0, <1>5 DEF ReceiveUpload, ReceiveInternal, RefuseUpload,
       InsertReceived, JobNotFound, InvalidPatch, LoadForPatch,
       LoadForCompletion, CommitNothing, LockClient, AnswerUpload,
       AnswerPatch, AnswerCompletion, Goto, Respond, Updating, locks
<1>6. ASSUME Crash PROVE UpdaterInv'
  BY <1>0, <1>6 DEF Crash, UpdaterInv
<1>7. CASE UNCHANGED vars
  BY <1>7 DEF vars, UpdaterInv
<1> QED
  BY <1>1, <1>3, <1>4, <1>5, <1>6, <1>7 DEF Next, Proceed

(* The order of the locks: who waits for a client row waits for requests   *)
(* that ask for none, who waits for a job row for one that asks for        *)
(* nothing.                                                                *)
LEMMA LockOrder ==
  ASSUME TypeInv, LockInv, ShareInv, UpdaterInv, NEW r \in Active,
         NEW q \in WaitsFor(r)
  PROVE  \/ /\ pc[r] \in {"locking", "admitting"}
            /\ pc[q] \in Holding \cup {"storing"}
         \/ /\ pc[r] \in Updating /\ pc[q] \in Updating
            /\ WaitsFor(q) = {}
<1>1. r \in Requests /\ client(r) \in Clients /\ call[r].job \in Jobs
  BY CallTypes DEF TypeInv, CallInv, Active, client
<1>2. q \in Requests
  BY DEF WaitsFor
<1>3. CASE \/ pc[r] = "locking"
              /\ q \in {writer[client(r)]} \cup keyShare[client(r)]
           \/ pc[r] = "admitting" /\ q = writer[client(r)]
  BY <1>1, <1>2, <1>3 DEF LockInv, ShareInv
<1>4. CASE pc[r] \in Updating /\ q = updater[call[r].job]
  <2>1. pc[q] \in Updating /\ call[q].job = call[r].job
    BY <1>1, <1>2, <1>4 DEF UpdaterInv
  <2>2. WaitsFor(q) = {}
    BY <1>4, <2>1 DEF WaitsFor, Updating
  <2> QED
    BY <1>4, <2>1, <2>2
<1> QED
  BY <1>3, <1>4 DEF WaitsFor, Updating

LEMMA OrderResolves ==
  TypeInv /\ LockInv /\ ShareInv /\ UpdaterInv => LocksResolve
<1> SUFFICES ASSUME TypeInv, LockInv, ShareInv, UpdaterInv PROVE LocksResolve
  OBVIOUS
<1>1. \A r \in Active : WaitsFor(r) \subseteq Active
  <2> SUFFICES ASSUME NEW r \in Active, NEW q \in WaitsFor(r)
               PROVE  q \in Active
    OBVIOUS
  <2> QED
    BY LockOrder DEF Active, WaitsFor, Holding, Updating
<1>2. ASSUME NEW rs \in SUBSET Active, rs # {}
      PROVE  \E r \in rs : WaitsFor(r) \cap rs = {}
  <2>1. CASE \E r \in rs : pc[r] \in Updating
    BY <2>1, LockOrder DEF Holding, Updating
  <2>2. CASE \A r \in rs : pc[r] \notin Updating
    <3>1. CASE \E r \in rs : pc[r] \notin {"locking", "admitting"}
      BY <2>2, <3>1, LockOrder
    <3>2. CASE \A r \in rs : pc[r] \in {"locking", "admitting"}
      BY <1>2, <2>2, <3>2, LockOrder DEF Holding, Updating
    <3> QED
      BY <3>1, <3>2
  <2> QED
    BY <2>1, <2>2
<1> QED
  BY <1>1, <1>2 DEF LocksResolve

(* For every number of requests, clients and jobs: a lock is held only by  *)
(* a request that is going on, and no requests wait for each other in a    *)
(* circle, although a completion asks for the row of its job while it      *)
(* holds the row of its client (create_received, complete_with_report,     *)
(* apply_status_patch, session.commit, the closing of the session).        *)
THEOREM LocksResolveHolds == Spec => []LocksResolve
<1>1. Init => ShareInv /\ UpdaterInv
  BY NullAssumption DEF Init, ShareInv, UpdaterInv
<1> QED
  BY <1>1, ShareNext, UpdaterNext, OrderResolves, Inductive, PTL
     DEF Spec, IInv

-----------------------------------------------------------------------------
(* What serialised requests add: the row a request has loaded is still the *)
(* row in the table when it commits.                                       *)
UploadInv ==
  /\ \A r, q \in Requests :
       r # q /\ call[r] \in Uploads /\ call[q] \in Uploads
         => call[r].job # call[q].job
  /\ \A r \in Requests :
       pc[r] \in Uploading => jobs[call[r].job] = Null

SerialInv ==
  /\ \A r, q \in Active :
       r # q /\ call[r] \notin Uploads /\ call[q] \notin Uploads
         => call[r].job # call[q].job
  /\ \A r \in Requests :
       /\ pc[r] \in Completing \cup {"patching"} =>
            seen[r] = jobs[call[r].job]
       /\ pc[r] \in {"locking", "refusing", "debiting"} =>
            seen[r].status # "ANALYZED"

LEMMA UploadInit == Init => UploadInv
BY NullAssumption, CallTypes DEF Init, UploadInv, Uploading

LEMMA UploadNext == TypeInv /\ UploadInv /\ [Next]_vars => UploadInv'
<1> SUFFICES ASSUME TypeInv, UploadInv, [Next]_vars PROVE UploadInv'
  OBVIOUS
<1> USE CallTypes, NullAssumption
    DEF TypeInv, TypeOK, CallInv, UploadInv, Goto, Respond, Active, Labels,
        Uploading, Completing, database, session
<1>1. ASSUME NEW r \in Requests, NEW j \in Jobs, ReceiveUpload(r, j) PROVE UploadInv'
  <2>1. \A q \in Requests : call[q] \in Uploads => call[q].job # j
    BY <1>1 DEF ReceiveUpload, Uploads
  <2> QED
    BY <1>1, <2>1 DEF ReceiveUpload
<1>2. ASSUME NEW r \in Requests, NEW c \in Patches \cup Completions,
             ReceiveInternal(r, c) PROVE UploadInv'
  <2>1. c \notin Uploads
    BY CallTypes
  <2> QED
    BY <1>2, <2>1 DEF ReceiveInternal
<1>3. ASSUME NEW r \in Requests, RefuseUpload(r) PROVE UploadInv'
  BY <1>3 DEF RefuseUpload
<1>4. ASSUME NEW r \in Requests, InsertReceived(r) PROVE UploadInv'
  BY <1>4 DEF InsertReceived
<1>5. ASSUME NEW r \in Requests, CommitUpload(r) PROVE UploadInv'
  BY <1>5 DEF CommitUpload
<1>6. ASSUME NEW r \in Requests, JobNotFound(r) PROVE UploadInv'
  BY <1>6 DEF JobNotFound
<1>7. ASSUME NEW r \in Requests, InvalidPatch(r) PROVE UploadInv'
  BY <1>7 DEF InvalidPatch
<1>8. ASSUME NEW r \in Requests, LoadForPatch(r) PROVE UploadInv'
  BY <1>8 DEF LoadForPatch
<1>9. ASSUME NEW r \in Requests, CommitPatch(r) PROVE UploadInv'
  BY <1>9 DEF CommitPatch
<1>10. ASSUME NEW r \in Requests, LoadForCompletion(r) PROVE UploadInv'
  BY <1>10 DEF LoadForCompletion
<1>11. ASSUME NEW r \in Requests, CommitNothing(r) PROVE UploadInv'
  BY <1>11 DEF CommitNothing
<1>12. ASSUME NEW r \in Requests, LockClient(r) PROVE UploadInv'
  BY <1>12 DEF LockClient
<1>13. ASSUME NEW r \in Requests, RefuseCompletion(r) PROVE UploadInv'
  BY <1>13 DEF RefuseCompletion
<1>14. ASSUME NEW r \in Requests, CommitCompletion(r) PROVE UploadInv'
  BY <1>14 DEF CommitCompletion
<1>15. ASSUME NEW r \in Requests, AnswerUpload(r) PROVE UploadInv'
  BY <1>15 DEF AnswerUpload
<1>16. ASSUME NEW r \in Requests, AnswerPatch(r) PROVE UploadInv'
  BY <1>16 DEF AnswerPatch
<1>17. ASSUME NEW r \in Requests, AnswerCompletion(r) PROVE UploadInv'
  BY <1>17 DEF AnswerCompletion
<1>18. ASSUME NEW r \in Requests, Fail(r) PROVE UploadInv'
  BY <1>18 DEF Fail
<1>19. ASSUME Crash PROVE UploadInv'
  BY <1>19 DEF Crash
<1>20. CASE UNCHANGED vars
  BY <1>20 DEF vars
<1>21. ASSUME NEW r \in Requests, UpdateJob(r) PROVE UploadInv'
  BY <1>21 DEF UpdateJob
<1> QED
  BY <1>1, <1>2, <1>3, <1>4, <1>5, <1>6, <1>7, <1>8, <1>9, <1>10, <1>11, <1>12, <1>13, <1>14, <1>15, <1>16, <1>17, <1>18, <1>19, <1>20, <1>21
     DEF Next, Proceed

LEMMA SerialInit == Init => SerialInv
BY DEF Init, SerialInv, Active, Completing

LEMMA SerialNext ==
  Serialised /\ TypeInv /\ UploadInv /\ SerialInv /\ [Next]_vars => SerialInv'
<1> SUFFICES ASSUME Serialised, TypeInv, UploadInv, SerialInv, [Next]_vars
             PROVE  SerialInv'
  OBVIOUS
<1> USE CallTypes, NullAssumption
    DEF TypeInv, TypeOK, CallInv, UploadInv, SerialInv, Goto, Respond, Active,
        Labels, Uploading, Completing, database, session
<1>1. ASSUME NEW r \in Requests, NEW j \in Jobs, ReceiveUpload(r, j) PROVE SerialInv'
  <2>1. [kind |-> "upload", job |-> j] \in Uploads
    BY DEF Uploads
  <2> QED
    BY <1>1, <2>1 DEF ReceiveUpload
<1>2. ASSUME NEW r \in Requests, NEW c \in Patches \cup Completions,
             ReceiveInternal(r, c) PROVE SerialInv'
  BY <1>2 DEF ReceiveInternal
<1>3. ASSUME NEW r \in Requests, RefuseUpload(r) PROVE SerialInv'
  BY <1>3 DEF RefuseUpload
<1>4. ASSUME NEW r \in Requests, InsertReceived(r) PROVE SerialInv'
  BY <1>4 DEF InsertReceived
<1>5. ASSUME NEW r \in Requests, CommitUpload(r) PROVE SerialInv'
  BY <1>5 DEF CommitUpload
<1>6. ASSUME NEW r \in Requests, JobNotFound(r) PROVE SerialInv'
  BY <1>6 DEF JobNotFound
<1>7. ASSUME NEW r \in Requests, InvalidPatch(r) PROVE SerialInv'
  BY <1>7 DEF InvalidPatch
<1>8. ASSUME NEW r \in Requests, LoadForPatch(r) PROVE SerialInv'
  BY <1>8 DEF LoadForPatch
<1>9. ASSUME NEW r \in Requests, CommitPatch(r) PROVE SerialInv'
  BY <1>9 DEF CommitPatch
<1>10. ASSUME NEW r \in Requests, LoadForCompletion(r) PROVE SerialInv'
  BY <1>10 DEF LoadForCompletion, AlreadyAnalyzed
<1>11. ASSUME NEW r \in Requests, CommitNothing(r) PROVE SerialInv'
  BY <1>11 DEF CommitNothing
<1>12. ASSUME NEW r \in Requests, LockClient(r) PROVE SerialInv'
  BY <1>12 DEF LockClient
<1>13. ASSUME NEW r \in Requests, RefuseCompletion(r) PROVE SerialInv'
  BY <1>13 DEF RefuseCompletion
<1>14. ASSUME NEW r \in Requests, CommitCompletion(r) PROVE SerialInv'
  <2>1. \A q \in Requests :
          q # r /\ pc[q] \in Completing \cup {"patching"}
            => call[q].job # call[r].job
    BY <1>14 DEF CommitCompletion
  <2>2. \A j \in Jobs : j # call[r].job => jobs'[j] = jobs[j]
    BY <1>14 DEF CommitCompletion
  <2>3. /\ pc' = [pc EXCEPT ![r] = "committed"]
        /\ UNCHANGED <<call, seen>>
    BY <1>14 DEF CommitCompletion
  <2>4. Active' = Active
    BY <1>14, <2>3 DEF CommitCompletion
  <2>5. \A q \in Requests : pc'[q] \in Completing \cup {"patching"} =>
          /\ q # r /\ pc'[q] = pc[q]
          /\ jobs'[call[q].job] = jobs[call[q].job]
    BY <2>1, <2>2, <2>3
  <2> QED
    BY <2>3, <2>4, <2>5
<1>15. ASSUME NEW r \in Requests, AnswerUpload(r) PROVE SerialInv'
  BY <1>15 DEF AnswerUpload
<1>16. ASSUME NEW r \in Requests, AnswerPatch(r) PROVE SerialInv'
  BY <1>16 DEF AnswerPatch
<1>17. ASSUME NEW r \in Requests, AnswerCompletion(r) PROVE SerialInv'
  BY <1>17 DEF AnswerCompletion
<1>18. ASSUME NEW r \in Requests, Fail(r) PROVE SerialInv'
  BY <1>18 DEF Fail
<1>19. ASSUME Crash PROVE SerialInv'
  BY <1>19 DEF Crash
<1>20. CASE UNCHANGED vars
  BY <1>20 DEF vars
<1>21. ASSUME NEW r \in Requests, UpdateJob(r) PROVE SerialInv'
  BY <1>21 DEF UpdateJob
<1> QED
  BY <1>1, <1>2, <1>3, <1>4, <1>5, <1>6, <1>7, <1>8, <1>9, <1>10, <1>11, <1>12, <1>13, <1>14, <1>15, <1>16, <1>17, <1>18, <1>19, <1>20, <1>21
     DEF Next, Proceed

(* The invariant that makes OneDebitPerOpening inductive. *)
OpeningInv == UploadInv /\ (Serialised => SerialInv)

LEMMA OpeningInductive == Spec => []OpeningInv
<1>1. Init => OpeningInv
  BY UploadInit, SerialInit DEF OpeningInv
<1>2. TypeInv /\ OpeningInv /\ [Next]_vars => OpeningInv'
  BY UploadNext, SerialNext, SerialisedAssumption DEF OpeningInv
<1> QED
  BY <1>1, <1>2, Inductive, PTL DEF Spec, IInv

(* The table row and the two counters, action by action. *)
LEMMA OneDebitNext ==
  TypeInv /\ OpeningInv /\ OneDebitPerOpening /\ [Next]_vars
    => OneDebitPerOpening'
<1> SUFFICES ASSUME TypeInv, OpeningInv, OneDebitPerOpening, [Next]_vars,
                    Serialised
             PROVE  OneDebitPerOpening'
  BY DEF OneDebitPerOpening
<1> USE CallTypes, NullAssumption
<1>1. CASE UNCHANGED <<jobs, debits, reopened>>
  BY <1>1 DEF OneDebitPerOpening
<1>2. ASSUME NEW r \in Requests, CommitUpload(r)
      PROVE  OneDebitPerOpening'
  <2>1. call[r].job \in Jobs /\ jobs[call[r].job] = Null
    BY <1>2 DEF CommitUpload, TypeInv, CallInv, OpeningInv, UploadInv,
                Uploading
  <2> QED
    BY <1>2, <2>1 DEF CommitUpload, ReceivedRow, OneDebitPerOpening, TypeInv,
                      TypeOK, history
<1>3. ASSUME NEW r \in Requests, CommitPatch(r)
      PROVE  OneDebitPerOpening'
  <2> DEFINE j == call[r].job
             new == [seen[r] EXCEPT !.status = call[r].status,
                                    !.err = call[r].err]
             row == Flush(jobs[j], seen[r], new)
  <2>1. /\ j \in Jobs /\ jobs[j] \in Row /\ seen[r] = jobs[j]
        /\ call[r] \in Patches /\ call[r].status \in {"PROCESSING", "ERROR"}
    BY <1>3 DEF CommitPatch, TypeInv, CallInv, OpeningInv, SerialInv,
                Completing
  <2>2. row.status = call[r].status
    BY <2>1 DEF Flush, Row
  <2>3. jobs' = [jobs EXCEPT ![j] = row]
    BY <1>3 DEF CommitPatch
  <2>4. row # Null
    <3>1. new \in Row
      BY <2>1, NewRows
    <3>2. row \in Row
      BY <2>1, <3>1, FlushType
    <3> QED
      BY <3>2
  <2>5. /\ debits' = debits
        /\ reopened' = [reopened EXCEPT ![j] =
             IF jobs[j].status = "ANALYZED" THEN @ + 1 ELSE @]
    BY <1>3, <2>1, <2>2 DEF CommitPatch
  <2> QED
    BY <2>1, <2>2, <2>3, <2>4, <2>5 DEF OneDebitPerOpening, TypeInv, TypeOK
<1>4. ASSUME NEW r \in Requests, CommitCompletion(r)
      PROVE  OneDebitPerOpening'
  <2> DEFINE j == call[r].job
             new == [status |-> "ANALYZED", err |-> Null,
                     report |-> call[r].report, tokens |-> call[r].tokens]
             row == Flush(jobs[j], seen[r], new)
  <2>1. /\ j \in Jobs /\ jobs[j] \in Row /\ seen[r] = jobs[j]
        /\ call[r] \in Completions /\ jobs[j].status # "ANALYZED"
    BY <1>4 DEF CommitCompletion, TypeInv, CallInv, OpeningInv, SerialInv,
                Completing
  <2>2. row \in Row
    BY <2>1, NewRows, FlushType
  <2>3. row.status = "ANALYZED"
    BY <2>1 DEF Flush, Row
  <2>4. /\ jobs' = [jobs EXCEPT ![j] = row]
        /\ debits' = [debits EXCEPT ![j] = @ + 1] /\ reopened' = reopened
    BY <1>4 DEF CommitCompletion, Analyzed
  <2> QED
    BY <2>1, <2>2, <2>3, <2>4 DEF OneDebitPerOpening, TypeInv, TypeOK
<1>5. \/ UNCHANGED <<jobs, debits, reopened>>
      \/ \E r \in Requests :
           CommitUpload(r) \/ CommitPatch(r) \/ CommitCompletion(r)
  BY DEF Next, vars, Proceed, ReceiveUpload, RefuseUpload, InsertReceived,
         ReceiveInternal, JobNotFound, InvalidPatch, LoadForPatch, UpdateJob,
         LoadForCompletion, CommitNothing, LockClient, RefuseCompletion,
         AnswerUpload, AnswerPatch, AnswerCompletion, Fail, Crash, database,
         history
<1> QED
  BY <1>1, <1>2, <1>3, <1>4, <1>5

(* While requests about one job do not overlap, a job is debited once for  *)
(* each time its row became ANALYZED.                                      *)
THEOREM OneDebitPerOpeningHolds == Spec => []OneDebitPerOpening
<1>1. Init => OneDebitPerOpening
  BY NullAssumption DEF Init, OneDebitPerOpening, ReceivedRow
<1> QED
  BY <1>1, OneDebitNext, OpeningInductive, Inductive, PTL DEF Spec, IInv
-----------------------------------------------------------------------------
(* A flush over the row that was loaded leaves the row the handler built.  *)
LEMMA FlushUnderNoChange ==
  ASSUME NEW row \in Row, NEW new \in Row
  PROVE  Flush(row, row, new) = new
BY DEF Flush, Row

LEMMA LedgerStep ==
  Serialised /\ IInv /\ OpeningInv /\ [Next]_vars
    => [Ledger!Next]_Ledger!vars
<1> SUFFICES ASSUME Serialised, IInv, OpeningInv, [Next]_vars
             PROVE  [Ledger!Next]_Ledger!vars
  OBVIOUS
<1> USE CallTypes
<1>1. CASE UNCHANGED <<jobs, balance>>
  BY <1>1 DEF Ledger!vars
<1>2. ASSUME NEW r \in Requests, CommitUpload(r)
      PROVE  Ledger!Next
  <2>1. call[r].job \in Jobs /\ jobs[call[r].job] = Null
    BY <1>2 DEF CommitUpload, IInv, TypeInv, CallInv, OpeningInv, UploadInv,
                Uploading
  <2>2. Ledger!Create(call[r].job)
    BY <1>2, <2>1 DEF CommitUpload, ReceivedRow, Ledger!Create,
                      Ledger!ReceivedRow
  <2> QED
    BY <2>1, <2>2 DEF Ledger!Next
<1>3. ASSUME NEW r \in Requests, CommitPatch(r)
      PROVE  Ledger!Next
  <2> DEFINE j == call[r].job
             new == [jobs[j] EXCEPT !.status = call[r].status,
                                    !.err = call[r].err]
  <2>1. /\ j \in Jobs /\ jobs[j] \in Row /\ seen[r] = jobs[j]
        /\ call[r] \in Patches /\ call[r].status \in {"PROCESSING", "ERROR"}
    BY <1>3 DEF CommitPatch, IInv, TypeInv, CallInv, OpeningInv, SerialInv,
                Completing
  <2>2. Flush(jobs[j], seen[r], new) = new
    BY <2>1, NewRows, FlushUnderNoChange
  <2>3. call[r].err \in Errors \cup {Null} /\ jobs[j] # Null
    BY <2>1, NullAssumption DEF Patches
  <2>4. jobs' = [jobs EXCEPT ![j] = new] /\ balance' = balance
    BY <1>3, <2>1, <2>2 DEF CommitPatch
  <2>5. Ledger!SetStatus(j, call[r].status, call[r].err)
    BY <2>3, <2>4 DEF Ledger!SetStatus
  <2> QED
    BY <2>1, <2>3, <2>5 DEF Ledger!Next
<1>4. ASSUME NEW r \in Requests, CommitCompletion(r)
      PROVE  Ledger!Next
  <2> DEFINE j == call[r].job
             new == [status |-> "ANALYZED", err |-> Null,
                     report |-> call[r].report, tokens |-> call[r].tokens]
  <2>1. /\ j \in Jobs /\ jobs[j] \in Row /\ seen[r] = jobs[j]
        /\ call[r] \in Completions /\ jobs[j].status # "ANALYZED"
        /\ call[r].tokens <= cash[r]
    BY <1>4 DEF CommitCompletion, IInv, TypeInv, CallInv, OpeningInv,
                SerialInv, Completing
  <2>2. cash[r] = balance[Owner[j]]
    BY <1>4 DEF CommitCompletion, IInv, LockInv, Holding, client
  <2>3. Flush(jobs[j], seen[r], new) =
          [status |-> "ANALYZED", err |-> Null,
           report |-> call[r].report, tokens |-> call[r].tokens]
    BY <2>1, NewRows, FlushUnderNoChange
  <2>4. /\ call[r].report \in Reports /\ call[r].tokens \in Tokens
        /\ jobs[j] # Null
    BY <2>1, NullAssumption DEF Completions
  <2>5. /\ jobs' = [jobs EXCEPT ![j] = Flush(jobs[j], seen[r], new)]
        /\ balance' = [balance EXCEPT ![Owner[j]] =
                         balance[Owner[j]] - call[r].tokens]
    BY <1>4, <2>1, <2>2 DEF CommitCompletion, Analyzed, client
  <2>6. Ledger!Complete(j, call[r].report, call[r].tokens)
    BY <2>1, <2>2, <2>3, <2>4, <2>5 DEF Ledger!Complete
  <2> QED
    BY <2>1, <2>4, <2>6 DEF Ledger!Next
<1>5. \/ UNCHANGED <<jobs, balance>>
      \/ \E r \in Requests :
           CommitUpload(r) \/ CommitPatch(r) \/ CommitCompletion(r)
  BY DEF Next, vars, Proceed, ReceiveUpload, RefuseUpload, InsertReceived,
         ReceiveInternal, JobNotFound, InvalidPatch, LoadForPatch, UpdateJob,
         LoadForCompletion, CommitNothing, LockClient, RefuseCompletion,
         AnswerUpload, AnswerPatch, AnswerCompletion, Fail, Crash, database
<1> QED
  BY <1>1, <1>2, <1>3, <1>4, <1>5

(* While requests about one job do not overlap, JobApi implements          *)
(* JobLedger: each handler is worth one atomic operation on the tables.    *)
THEOREM ActsAtomicallyHolds == Serialised => (Spec => ActsAtomically)
<1> SUFFICES ASSUME Serialised PROVE Spec => ActsAtomically
  OBVIOUS
<1>1. Init => Ledger!Init
  BY DEF Init, Ledger!Init, ReceivedRow, Ledger!ReceivedRow
<1>2. IInv /\ OpeningInv /\ [Next]_vars => [Ledger!Next]_Ledger!vars
  BY LedgerStep
<1> QED
  BY <1>1, <1>2, Inductive, OpeningInductive, PTL
     DEF Spec, ActsAtomically, Ledger!Spec
=============================================================================
