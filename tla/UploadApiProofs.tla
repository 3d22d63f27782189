--------------------------- MODULE UploadApiProofs ---------------------------
(***************************************************************************)
(* Theorems about UploadApi for every set of uploads.  StageInv is the     *)
(* invariant behind both: it says what each label of the handler has       *)
(* already put into which store, and that nothing is ever taken back.      *)
(***************************************************************************)
EXTENDS UploadApi, TLAPS

StageInv ==
  /\ sent \subseteq rows
  /\ rows \subseteq objects
  /\ \A r \in Uploads :
       /\ pc[r] = "saved" => r \in objects
       /\ pc[r] \in {"committed", "published"} => r \in rows
       /\ pc[r] = "published" => r \in sent \/ via[r] = "noop"
       /\ pc[r] # "done" => reply[r] = 0
       /\ reply[r] = 201 => r \in rows /\ (r \in sent \/ via[r] = "noop")

IInv == TypeOK /\ StageInv

LEMMA InitHolds == Init => IInv
BY MaxStartsAssumption DEF Init, IInv, TypeOK, StageInv

LEMMA StepHolds == IInv /\ [Next]_vars => IInv'
<1> SUFFICES ASSUME IInv, [Next]_vars PROVE IInv'
  OBVIOUS
<1> USE MaxStartsAssumption
    DEF IInv, TypeOK, StageInv, Goto, Respond, process, request, broker
<1>1. ASSUME Start PROVE IInv'
  BY <1>1 DEF Start
<1>2. ASSUME Crash PROVE IInv'
  BY <1>2 DEF Crash, Running
<1>3. ASSUME NEW r \in Uploads, Receive(r) PROVE IInv'
  BY <1>3 DEF Receive
<1>4. ASSUME NEW r \in Uploads, Refuse(r) PROVE IInv'
  BY <1>4 DEF Refuse, Refusals
<1>5. ASSUME NEW r \in Uploads, CreateReceived(r) PROVE IInv'
  BY <1>5 DEF CreateReceived
<1>6. ASSUME NEW r \in Uploads, SaveDiagram(r) PROVE IInv'
  BY <1>6 DEF SaveDiagram
<1>7. ASSUME NEW r \in Uploads, SaveFails(r) PROVE IInv'
  BY <1>7 DEF SaveFails
<1>8. ASSUME NEW r \in Uploads, Commit(r) PROVE IInv'
  BY <1>8 DEF Commit
<1>9. ASSUME NEW r \in Uploads, CommitFails(r) PROVE IInv'
  BY <1>9 DEF CommitFails
<1>10. ASSUME NEW r \in Uploads, Publish(r) PROVE IInv'
  BY <1>10 DEF Publish, Enqueue
<1>11. ASSUME NEW r \in Uploads, PublishFails(r) PROVE IInv'
  BY <1>11 DEF PublishFails, Enqueue
<1>12. ASSUME NEW r \in Uploads, Answer(r) PROVE IInv'
  BY <1>12 DEF Answer
<1>13. ASSUME NEW r \in Uploads, Take(r) PROVE IInv'
  BY <1>13 DEF Take
<1>14. ASSUME NEW r \in Uploads, CreateFails(r) PROVE IInv'
  BY <1>14 DEF CreateFails
<1>15. CASE UNCHANGED vars
  BY <1>15 DEF vars
<1> QED
  BY <1>1, <1>2, <1>3, <1>4, <1>5, <1>6, <1>7, <1>8, <1>9, <1>10, <1>11, <1>12,
     <1>13, <1>14, <1>15
  DEF Next, Handle

(* Every variable keeps its type. *)
THEOREM TypeCorrect == Spec => []TypeOK
<1>1. IInv => TypeOK
  BY DEF IInv
<1> QED
  BY <1>1, InitHolds, StepHolds, PTL DEF Spec

(* Whatever fails, the row and the diagram of a message the broker         *)
(* accepted are there.                                                     *)
THEOREM SentIsReadyHolds == Spec => []SentIsReady
<1>1. IInv => SentIsReady
  BY DEF IInv, StageInv, SentIsReady
<1> QED
  BY <1>1, InitHolds, StepHolds, PTL DEF Spec

(* A job reported as created is committed, and queued unless the process   *)
(* runs without a broker.                                                  *)
THEOREM CreatedIsSentHolds == Spec => []CreatedIsSent
<1>1. IInv => CreatedIsSent
  BY DEF IInv, StageInv, CreatedIsSent
<1> QED
  BY <1>1, InitHolds, StepHolds, PTL DEF Spec
=============================================================================
