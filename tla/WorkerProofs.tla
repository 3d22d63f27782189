---------------------------- MODULE WorkerProofs ----------------------------
(***************************************************************************)
(* Theorems about Worker for any number of workers, messages and faults.   *)
(* HandInv says what a worker's label implies about the message in its     *)
(* hands, and that its channel holds no other; with it each invariant is   *)
(* inductive.                                                              *)
(***************************************************************************)
EXTENDS Worker, TLAPS

Busy == {"patching", "analysing", "completing", "reporting", "acking",
         "rejecting"}

HandInv ==
  \A w \in Workers :
    /\ pc[w] \in Busy => message[w] \in Messages
    /\ pc[w] \in Busy \ {"rejecting"} => message[w] \notin Poison
    /\ unacked[w] # Null => pc[w] \in Busy /\ unacked[w] = message[w]
    /\ pc[w] \in {"completing", "acking"} => message[w] \in stored
    /\ pc[w] = "acking" => "COMPLETE" \in answered[message[w]]
    /\ pc[w] = "rejecting" =>
         message[w] \in Poison \/ "ERROR" \in asked[message[w]]

IInv ==
  /\ TypeOK
  /\ HandInv
  /\ EachMessageInOnePlace
  /\ AckedIsCompleted
  /\ DeadLetteredIsReported

LEMMA InitHolds == Init => IInv
BY PoisonAssumption, MaxFaultsAssumption, NullAssumption
   DEF Init, Phases, IInv, TypeOK, HandInv, EachMessageInOnePlace, AckedIsCompleted,
       DeadLetteredIsReported, Busy

LEMMA StepHolds == IInv /\ [Next]_vars => IInv'
<1> SUFFICES ASSUME IInv, [Next]_vars PROVE IInv'
  OBVIOUS
<1> USE PoisonAssumption, MaxFaultsAssumption, NullAssumption
    DEF IInv, TypeOK, HandInv, EachMessageInOnePlace, AckedIsCompleted,
        DeadLetteredIsReported, Busy, Calls, Goto, Note, Fail, Failing, Phases,
        Requeued, broker, effects
<1>1. ASSUME NEW w \in Workers, Start(w) PROVE IInv'
  BY <1>1 DEF Start
<1>2. ASSUME NEW w \in Workers, NEW m \in Messages, Deliver(w, m) PROVE IInv'
  BY <1>2 DEF Deliver
<1>3. ASSUME NEW w \in Workers, PatchProcessing(w) PROVE IInv'
  BY <1>3 DEF PatchProcessing
<1>4. ASSUME NEW w \in Workers, AnalysisFails(w) PROVE IInv'
  BY <1>4 DEF AnalysisFails
<1>5. ASSUME NEW w \in Workers, Analyse(w) PROVE IInv'
  BY <1>5 DEF Analyse
<1>6. ASSUME NEW w \in Workers, Complete(w) PROVE IInv'
  BY <1>6 DEF Complete
<1>7. ASSUME NEW w \in Workers, CallFails(w) PROVE IInv'
  BY <1>7 DEF CallFails
<1>8. ASSUME NEW w \in Workers, ReportError(w) PROVE IInv'
  BY <1>8 DEF ReportError
<1>9. ASSUME NEW w \in Workers, Ack(w) PROVE IInv'
  BY <1>9 DEF Ack
<1>10. ASSUME NEW w \in Workers, Reject(w) PROVE IInv'
  BY <1>10 DEF Reject
<1>11. ASSUME NEW w \in Workers, SettleFails(w) PROVE IInv'
  BY <1>11 DEF SettleFails
<1>12. ASSUME NEW w \in Workers, LoseChannel(w) PROVE IInv'
  BY <1>12 DEF LoseChannel
<1>13. ASSUME NEW w \in Workers, Crash(w) PROVE IInv'
  BY <1>13 DEF Crash
<1>14. CASE UNCHANGED vars
  BY <1>14 DEF vars
<1> QED
  BY <1>1, <1>2, <1>3, <1>4, <1>5, <1>6, <1>7, <1>8, <1>9, <1>10, <1>11, <1>12, <1>13, <1>14 DEF Next, Handle

(* Every variable keeps its type. *)
THEOREM TypeCorrect == Spec => []TypeOK
<1>1. IInv => TypeOK
  BY DEF IInv
<1> QED
  BY <1>1, InitHolds, StepHolds, PTL DEF Spec

(* No message is lost, held twice or settled twice. *)
THEOREM EachMessageInOnePlaceHolds == Spec => []EachMessageInOnePlace
<1>1. IInv => EachMessageInOnePlace
  BY DEF IInv
<1> QED
  BY <1>1, InitHolds, StepHolds, PTL DEF Spec

(* Only a job whose completion was answered 2xx, and whose report was      *)
(* stored, is acked (execute_diagram_job, consume_loop).                   *)
THEOREM AckedIsCompletedHolds == Spec => []AckedIsCompleted
<1>1. IInv => AckedIsCompleted
  BY DEF IInv
<1> QED
  BY <1>1, InitHolds, StepHolds, PTL DEF Spec

(* Only a job whose failure was reported is dead-lettered. *)
THEOREM DeadLetteredIsReportedHolds == Spec => []DeadLetteredIsReported
<1>1. IInv => DeadLetteredIsReported
  BY DEF IInv
<1> QED
  BY <1>1, InitHolds, StepHolds, PTL DEF Spec
=============================================================================
