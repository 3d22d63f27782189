--------------------------- MODULE PipelineProofs ---------------------------
(***************************************************************************)
(* The pipeline implements the two components it is made of, so that what  *)
(* was proved of each holds of the whole; and a client who is told         *)
(* ANALYZED never misses the report object.                                *)
(***************************************************************************)
EXTENDS Pipeline, TLAPS

-----------------------------------------------------------------------------
(* Each step of the pipeline is a step of Worker or changes none of its    *)
(* variables, with the jobs whose object exists for its stored messages.   *)
LEMMA WorkerStepHolds == [Next]_vars => [Work!Next]_(Work!vars)
<1> SUFFICES ASSUME [Next]_vars PROVE [Work!Next]_(Work!vars)
  OBVIOUS
<1> USE DEF Stored, work, vars
<1>1. ASSUME NEW w \in Workers, Send(w) PROVE [Work!Next]_(Work!vars)
  BY <1>1 DEF Send, Work!vars
<1>2. ASSUME NEW w \in Workers, Answered(w) PROVE [Work!Next]_(Work!vars)
  BY <1>2 DEF Answered, Work!Next, Work!Handle
<1>3. ASSUME NEW w \in Workers, TimesOut(w) PROVE [Work!Next]_(Work!vars)
  BY <1>3 DEF TimesOut, Work!Next, Work!Handle
<1>4. ASSUME NEW w \in Workers, Analyse(w) PROVE [Work!Next]_(Work!vars)
  BY <1>4 DEF Analyse, Work!Next, Work!Handle
<1>5. ASSUME NEW w \in Workers, AnalysisFails(w) PROVE [Work!Next]_(Work!vars)
  BY <1>5 DEF AnalysisFails, Work!Next, Work!Handle
<1>6. ASSUME NEW w \in Workers, WorkerAlone(w) PROVE [Work!Next]_(Work!vars)
  BY <1>6 DEF WorkerAlone, Work!Next, Work!Handle
<1>7. ASSUME NEW w \in Workers, NEW j \in Jobs, Deliver(w, j)
      PROVE [Work!Next]_(Work!vars)
  BY <1>7 DEF Deliver, Work!Next
<1>8. ASSUME ApiAlone PROVE [Work!Next]_(Work!vars)
  BY <1>8 DEF ApiAlone, Work!vars
<1>9. ASSUME NEW j \in Watched, Poll(j) \/ AskReport(j) \/ ReadReport(j)
      PROVE [Work!Next]_(Work!vars)
  BY <1>9 DEF Poll, AskReport, ReadReport, Work!vars
<1>10. CASE UNCHANGED vars
  BY <1>10 DEF Work!vars
<1> QED
  BY <1>1, <1>2, <1>3, <1>4, <1>5, <1>6, <1>7, <1>8, <1>9, <1>10
  DEF Next, WorkerStep

(* The pipeline implements Worker: what the model of the worker takes the  *)
(* API and the object store to do is what they do.                         *)
THEOREM ImplementsWorker == Spec => Work!Spec
<1>1. Init => Work!Init
  BY DEF Init, Stored, Work!Init
<1> QED
  BY <1>1, WorkerStepHolds, PTL DEF Spec, Work!Spec
-----------------------------------------------------------------------------
(* What a worker's label implies about its hands.  A worker that is about  *)
(* to complete a job has written the report.                               *)
HandLabels == {"down", "idle", "patching", "analysing", "completing",
               "reporting", "acking", "rejecting"}
Calling == {"patching", "analysing", "completing", "reporting"}

HandInv ==
  /\ step \in [Workers -> HandLabels]
  /\ message \in [Workers -> Jobs \cup {Null}]
  /\ draft \in [Workers -> Reports \cup {Null}]
  /\ object \in [Jobs -> Reports \cup {Null}]
  /\ \A w \in Workers :
       /\ step[w] \in Calling => message[w] \in Jobs
       /\ step[w] = "completing" =>
            draft[w] \in Reports /\ object[message[w]] # Null

(* What a request has asked for and loaded, by its label. *)
SeenBy == {"patching", "ignoring", "locking", "refusing", "debiting"}

CallInv ==
  /\ jobs \in [Jobs -> API!Row]
  /\ pc \in [Requests -> API!Labels]
  /\ call \in [Requests -> API!Calls \cup {Null}]
  /\ seen \in [Requests -> API!Row \cup {Null}]
  /\ \A r \in Requests :
       /\ pc[r] \notin {"admitting", "storing"}
       /\ pc[r] # "new" => call[r] \in API!Patches \cup API!Completions
       /\ pc[r] \in SeenBy => seen[r] \in API!Row
       /\ pc[r] = "patching" =>
            call[r] \in API!Patches /\ call[r].status \in {"PROCESSING", "ERROR"}
       /\ pc[r] \in SeenBy \ {"patching"} => call[r] \in API!Completions

(* Nobody can complete a job, have completed it or have loaded a completed *)
(* row of it before its report was written.                                *)
StoreInv ==
  /\ \A j \in Jobs : jobs[j].status = "ANALYZED" =>
       object[j] # Null /\ jobs[j].report # Null
  /\ \A r \in Requests :
       /\ pc[r] # "new" /\ call[r] \in API!Completions =>
            object[call[r].job] # Null
       /\ pc[r] \in SeenBy /\ seen[r].report # Null =>
            jobs[call[r].job].report # Null

ViewInv ==
  /\ view \in [Jobs -> {"polling", "ANALYZED", "ERROR", "reading", "200",
                         "409", "425"}]
  /\ \A j \in Jobs : view[j] = "reading" => object[j] # Null

IInv == HandInv /\ CallInv /\ StoreInv /\ ViewInv

(* A step as the API sees it.                                              *)
ApiStep ==
  \/ \E w \in Workers : \E body \in Bodies(w) :
       sent + 1 \in Requests /\ API!ReceiveInternal(sent + 1, body)
  \/ \E r \in Requests : API!Proceed(r) \/ API!Fail(r)
  \/ API!Crash
  \/ UNCHANGED api

(* A report object, once written, is overwritten but never removed.        *)
Kept == \A j \in Jobs : object[j] # Null => object'[j] # Null

LEMMA InitHolds == Init => IInv
BY NullAssumption
   DEF Init, IInv, HandInv, CallInv, StoreInv, ViewInv, HandLabels, Calling,
       SeenBy, Work!Init, API!Init, API!ReceivedRow, API!Row, API!Status,
       API!Labels

LEMMA HandNext == HandInv /\ [Next]_vars => HandInv' /\ Kept
<1> SUFFICES ASSUME HandInv, [Next]_vars PROVE HandInv' /\ Kept
  OBVIOUS
<1> USE NullAssumption
    DEF HandInv, HandLabels, Calling, Kept, Work!Goto, Work!Fail, work, vars
<1>1. ASSUME NEW w \in Workers, Send(w) PROVE HandInv' /\ Kept
  BY <1>1 DEF Send
<1>2. ASSUME NEW w \in Workers, Answered(w) PROVE HandInv' /\ Kept
  BY <1>2 DEF Answered, Work!PatchProcessing, Work!Complete, Work!CallFails,
              Work!ReportError, Work!broker
<1>3. ASSUME NEW w \in Workers, TimesOut(w) PROVE HandInv' /\ Kept
  BY <1>3 DEF TimesOut, Work!CallFails, Work!ReportError, Work!broker
<1>4. ASSUME NEW w \in Workers, Analyse(w) PROVE HandInv' /\ Kept
  BY <1>4 DEF Analyse, Write, Work!Analyse, Work!broker
<1>5. ASSUME NEW w \in Workers, AnalysisFails(w) PROVE HandInv' /\ Kept
  BY <1>5 DEF AnalysisFails, Write, Work!AnalysisFails, Work!broker
<1>6. ASSUME NEW w \in Workers, WorkerAlone(w) PROVE HandInv' /\ Kept
  BY <1>6 DEF WorkerAlone, Work!Start, Work!Ack, Work!Reject,
              Work!SettleFails, Work!LoseChannel, Work!Crash, Work!broker
<1>7. ASSUME NEW w \in Workers, NEW j \in Jobs, Deliver(w, j)
      PROVE HandInv' /\ Kept
  BY <1>7 DEF Deliver, Work!Deliver
<1>8. ASSUME ApiAlone PROVE HandInv' /\ Kept
  BY <1>8 DEF ApiAlone
<1>9. ASSUME NEW j \in Watched, Poll(j) \/ AskReport(j) \/ ReadReport(j)
      PROVE HandInv' /\ Kept
  BY <1>9 DEF Poll, AskReport, ReadReport
<1>10. CASE UNCHANGED vars
  BY <1>10
<1> QED
  BY <1>1, <1>2, <1>3, <1>4, <1>5, <1>6, <1>7, <1>8, <1>9, <1>10
  DEF Next, WorkerStep

LEMMA ApiStepHolds == [Next]_vars => ApiStep
<1> SUFFICES ASSUME [Next]_vars PROVE ApiStep
  OBVIOUS
<1> USE DEF ApiStep
<1>1. ASSUME NEW w \in Workers, Send(w) PROVE ApiStep
  BY <1>1 DEF Send
<1>2. ASSUME ApiAlone PROVE ApiStep
  BY <1>2 DEF ApiAlone
<1>3. ASSUME NEW w \in Workers,
             Answered(w) \/ TimesOut(w) \/ Analyse(w) \/ AnalysisFails(w)
             \/ WorkerAlone(w) \/ \E j \in Jobs : Deliver(w, j)
      PROVE ApiStep
  BY <1>3 DEF Answered, TimesOut, Analyse, AnalysisFails, WorkerAlone, Deliver
<1>4. ASSUME NEW j \in Watched, Poll(j) \/ AskReport(j) \/ ReadReport(j)
      PROVE ApiStep
  BY <1>4 DEF Poll, AskReport, ReadReport
<1>5. CASE UNCHANGED vars
  BY <1>5 DEF vars
<1> QED
  BY <1>1, <1>2, <1>3, <1>4, <1>5 DEF Next, WorkerStep

-----------------------------------------------------------------------------
(* The bodies the workers send are PATCHes and completions; a completion   *)
(* is of a job whose report was written.                                   *)
LEMMA BodiesAreCalls ==
  ASSUME HandInv, NEW w \in Workers, NEW body \in Bodies(w)
  PROVE  /\ body \in API!Patches \cup API!Completions
         /\ body \in API!Completions => object[body.job] # Null
BY DEF HandInv, Calling, Bodies, API!Patches, API!Completions

(* The fields of a call, and what it makes of the row it loaded.           *)
LEMMA CallTypes ==
  /\ \A c \in API!Patches : c.kind = "patch" /\ c.job \in Jobs
  /\ \A c \in API!Completions :
       /\ c.kind = "complete" /\ c.job \in Jobs /\ c.report \in Reports
       /\ c.tokens \in Nat
  /\ API!Patches \cup API!Completions \subseteq API!Calls
BY UsageAssumption DEF API!Patches, API!Completions, API!Calls

Patched(loaded, c) == [loaded EXCEPT !.status = c.status, !.err = c.err]

LEMMA PatchedRow ==
  ASSUME NEW row \in API!Row, NEW loaded \in API!Row, NEW c \in API!Patches,
         c.status \in {"PROCESSING", "ERROR"}
  PROVE  LET new == API!Flush(row, loaded, Patched(loaded, c)) IN
         /\ new \in API!Row
         /\ new.report = row.report
         /\ new.status = "ANALYZED" => row.status = "ANALYZED"
BY DEF API!Flush, API!Row, API!Status, API!Patches, Patched

LEMMA CompletedRow ==
  ASSUME NEW row \in API!Row, NEW loaded \in API!Row,
         NEW c \in API!Completions,
         loaded.report # Null => row.report # Null
  PROVE  LET new == API!Flush(row, loaded, API!Analyzed(loaded, c)) IN
         new \in API!Row /\ new.report # Null
<1>1. c.report \in Reports /\ c.report # Null /\ c.tokens \in Nat
  BY CallTypes, NullAssumption
<1>2. API!Analyzed(loaded, c).report = c.report
  BY DEF API!Analyzed
<1> QED
  BY <1>1, <1>2 DEF API!Flush, API!Analyzed, API!Row, API!Status

(* CallInv and StoreInv through each step of a request.                    *)
LEMMA ApiNext ==
  HandInv /\ CallInv /\ StoreInv /\ ApiStep /\ Kept => CallInv' /\ StoreInv'
<1> SUFFICES ASSUME HandInv, CallInv, StoreInv, ApiStep, Kept
             PROVE  CallInv' /\ StoreInv'
  OBVIOUS
<1> USE CallTypes
    DEF CallInv, StoreInv, Kept, SeenBy, API!Labels, API!Goto, API!Respond,
        API!database, API!session
<1>1. ASSUME NEW w \in Workers, NEW body \in Bodies(w), sent + 1 \in Requests,
             API!ReceiveInternal(sent + 1, body)
      PROVE  CallInv' /\ StoreInv'
  BY <1>1, BodiesAreCalls DEF API!ReceiveInternal
<1>2. ASSUME NEW r \in Requests, API!JobNotFound(r) PROVE CallInv' /\ StoreInv'
  BY <1>2 DEF API!JobNotFound
<1>3. ASSUME NEW r \in Requests, API!InvalidPatch(r) PROVE CallInv' /\ StoreInv'
  BY <1>3 DEF API!InvalidPatch
<1>4. ASSUME NEW r \in Requests, API!LoadForPatch(r) PROVE CallInv' /\ StoreInv'
  BY <1>4 DEF API!LoadForPatch
<1>5. ASSUME NEW r \in Requests, API!CommitPatch(r) PROVE CallInv' /\ StoreInv'
  <2> DEFINE j == call[r].job
  <2>1. PICK new : /\ jobs' = [jobs EXCEPT ![j] = new]
                   /\ new = API!Flush(jobs[j], seen[r],
                                      Patched(seen[r], call[r]))
    BY <1>5 DEF API!CommitPatch, Patched
  <2>2. /\ new \in API!Row /\ new.report = jobs[j].report
        /\ new.status = "ANALYZED" => jobs[j].status = "ANALYZED"
    <3>1. pc[r] = "patching"
      BY <1>5 DEF API!CommitPatch
    <3>2. call[r] \in API!Patches /\ call[r].status \in {"PROCESSING", "ERROR"}
      BY <3>1
    <3>3. seen[r] \in API!Row /\ jobs[j] \in API!Row
      BY <3>1, <3>2
    <3> HIDE DEF CallInv, StoreInv, j
    <3> QED
      BY <2>1, <3>2, <3>3, PatchedRow
  <2> HIDE DEF j
  <2>3. pc' = [pc EXCEPT ![r] = "committed"] /\ UNCHANGED <<call, seen>>
    BY <1>5 DEF API!CommitPatch
  <2>4. \A i \in Jobs : /\ jobs'[i] \in API!Row
                        /\ jobs'[i].report = jobs[i].report
                        /\ jobs'[i].status = "ANALYZED" => jobs[i].status = "ANALYZED"
    BY <2>1, <2>2
  <2>5. \A q \in Requests : pc'[q] # "new" => call[q].job \in Jobs
    BY <1>5, <2>3 DEF API!CommitPatch
  <2>6. CallInv'
    BY <1>5, <2>1, <2>3, <2>4 DEF API!CommitPatch
  <2>7. StoreInv'
    BY <1>5, <2>3, <2>4, <2>5 DEF API!CommitPatch
  <2> QED
    BY <2>6, <2>7
<1>6. ASSUME NEW r \in Requests, API!LoadForCompletion(r)
      PROVE  CallInv' /\ StoreInv'
  BY <1>6 DEF API!LoadForCompletion, API!Calls, API!Uploads
<1>7. ASSUME NEW r \in Requests, API!CommitNothing(r) PROVE CallInv' /\ StoreInv'
  BY <1>7 DEF API!CommitNothing
<1>8. ASSUME NEW r \in Requests, API!LockClient(r) PROVE CallInv' /\ StoreInv'
  BY <1>8 DEF API!LockClient
<1>9. ASSUME NEW r \in Requests, API!RefuseCompletion(r)
      PROVE  CallInv' /\ StoreInv'
  BY <1>9 DEF API!RefuseCompletion
<1>10. ASSUME NEW r \in Requests, API!CommitCompletion(r)
       PROVE  CallInv' /\ StoreInv'
  <2> DEFINE j == call[r].job
  <2>1. PICK new : /\ jobs' = [jobs EXCEPT ![j] = new]
                   /\ new = API!Flush(jobs[j], seen[r],
                                      API!Analyzed(seen[r], call[r]))
    BY <1>10 DEF API!CommitCompletion
  <2>2. /\ call[r] \in API!Completions /\ j \in Jobs /\ object[j] # Null
        /\ new \in API!Row /\ new.report # Null
    <3>1. /\ call[r] \in API!Completions /\ j \in Jobs /\ object[j] # Null
          /\ seen[r] \in API!Row /\ jobs[j] \in API!Row
          /\ seen[r].report # Null => jobs[j].report # Null
      BY <1>10 DEF API!CommitCompletion
    <3> QED
      BY <2>1, <3>1, CompletedRow
  <2> HIDE DEF j
  <2>3. pc' = [pc EXCEPT ![r] = "committed"] /\ UNCHANGED <<call, seen>>
    BY <1>10 DEF API!CommitCompletion
  <2>4. \A i \in Jobs : /\ jobs'[i] \in API!Row
                        /\ jobs[i].report # Null => jobs'[i].report # Null
    BY <2>1, <2>2
  <2>5. \A q \in Requests : pc'[q] # "new" => call[q].job \in Jobs
    BY <1>10, <2>3 DEF API!CommitCompletion
  <2>6. CallInv'
    BY <1>10, <2>1, <2>3, <2>4 DEF API!CommitCompletion
  <2>7. StoreInv'
    BY <1>10, <2>1, <2>2, <2>3, <2>4, <2>5 DEF API!CommitCompletion
  <2> QED
    BY <2>6, <2>7
<1>11. ASSUME NEW r \in Requests, API!AnswerPatch(r) \/ API!AnswerCompletion(r)
       PROVE  CallInv' /\ StoreInv'
  BY <1>11 DEF API!AnswerPatch, API!AnswerCompletion
<1>12. ASSUME NEW r \in Requests, API!Fail(r) PROVE CallInv' /\ StoreInv'
  BY <1>12 DEF API!Fail, API!Active
<1>13. ASSUME NEW r \in Requests,
              \/ API!RefuseUpload(r) \/ API!InsertReceived(r)
              \/ API!CommitUpload(r) \/ API!AnswerUpload(r)
       PROVE  FALSE
  BY <1>13 DEF API!RefuseUpload, API!InsertReceived, API!CommitUpload,
               API!AnswerUpload
<1>14. ASSUME API!Crash PROVE CallInv' /\ StoreInv'
  BY <1>14 DEF API!Crash, API!Active
<1>15. ASSUME NEW r \in Requests, API!UpdateJob(r) PROVE CallInv' /\ StoreInv'
  BY <1>15 DEF API!UpdateJob
<1>16. CASE UNCHANGED api
  BY <1>16 DEF api
<1> QED
  BY <1>1, <1>2, <1>3, <1>4, <1>5, <1>6, <1>7, <1>8, <1>9, <1>10, <1>11, <1>12,
     <1>13, <1>14, <1>15, <1>16
  DEF ApiStep, API!Proceed

LEMMA EarlyAnswers ==
  ASSUME NEW row, row.status \in API!Status
  PROVE  /\ EarlyAnswer(row) \in {"404", "409", "425", "reading"}
         /\ EarlyAnswer(row) = "reading" => row.status = "ANALYZED"
         /\ EarlyAnswer(row) = "404" =>
              row.status = "ANALYZED" /\ row.report = Null
<1>1. CASE row.status = "ERROR"
  BY <1>1 DEF EarlyAnswer
<1>2. CASE row.status \in {"RECEIVED", "PROCESSING"}
  BY <1>2 DEF EarlyAnswer
<1>3. CASE row.status = "ANALYZED" /\ row.report = Null
  BY <1>3 DEF EarlyAnswer
<1>4. CASE row.status = "ANALYZED" /\ row.report # Null
  BY <1>4 DEF EarlyAnswer
<1> QED
  BY <1>1, <1>2, <1>3, <1>4 DEF API!Status

LEMMA ViewNext ==
  HandInv /\ CallInv /\ StoreInv /\ ViewInv /\ [Next]_vars /\ Kept => ViewInv'
<1> SUFFICES ASSUME HandInv, CallInv, StoreInv, ViewInv, [Next]_vars, Kept
             PROVE  ViewInv'
  OBVIOUS
<1> USE WatchedAssumption DEF ViewInv, Kept
<1>1. ASSUME NEW j \in Watched, Poll(j) PROVE ViewInv'
  BY <1>1 DEF Poll
<1>2. ASSUME NEW j \in Watched, AskReport(j) PROVE ViewInv'
  <2>1. jobs[j].status \in API!Status /\ j \in Jobs
    BY DEF CallInv, API!Row
  <2>2. jobs[j].status = "ANALYZED" => object[j] # Null /\ jobs[j].report # Null
    BY <2>1 DEF StoreInv
  <2>3. /\ EarlyAnswer(jobs[j]) \in {"409", "425", "reading"}
        /\ EarlyAnswer(jobs[j]) = "reading" => jobs[j].status = "ANALYZED"
    BY <2>1, <2>2, EarlyAnswers
  <2> QED
    BY <1>2, <2>1, <2>2, <2>3 DEF AskReport
<1>3. ASSUME NEW j \in Watched, ReadReport(j) PROVE ViewInv'
  BY <1>3 DEF ReadReport
<1>4. ASSUME UNCHANGED view PROVE ViewInv'
  BY <1>4
<1>5. ASSUME NEW w \in Workers,
             WorkerStep(w) \/ TimesOut(w) \/ WorkerAlone(w)
             \/ \E j \in Jobs : Deliver(w, j)
      PROVE UNCHANGED view
  BY <1>5 DEF WorkerStep, Send, Answered, Analyse, AnalysisFails, TimesOut,
              WorkerAlone, Deliver, owner
<1>6. ASSUME ApiAlone \/ UNCHANGED vars PROVE UNCHANGED view
  BY <1>6 DEF ApiAlone, vars, owner
<1> QED
  BY <1>1, <1>2, <1>3, <1>4, <1>5, <1>6 DEF Next

LEMMA StepHolds == IInv /\ [Next]_vars => IInv'
BY HandNext, ApiStepHolds, ApiNext, ViewNext DEF IInv

(* The report of an ANALYZED job is in the object store, and no client who *)
(* saw the row ANALYZED misses it, for every number of workers, jobs,      *)
(* faults and outages (execute_diagram_job writes before it completes).    *)
THEOREM AnalyzedHasReportHolds == Spec => []AnalyzedHasReport
<1>1. IInv => AnalyzedHasReport
  BY DEF IInv, StoreInv, ViewInv, AnalyzedHasReport
<1> QED
  BY <1>1, InitHolds, StepHolds, PTL DEF Spec

(* The pipeline implements JobApi: the workers send nothing but what       *)
(* JobApi expects of them, and nobody else touches the API's state.        *)
THEOREM ImplementsJobApi == Spec => API!Spec
<1>1. Init => API!Init
  BY DEF Init
<1>2. IInv /\ [Next]_vars => [API!Next]_(API!vars)
  BY ApiStepHolds, BodiesAreCalls DEF ApiStep, IInv, API!Next, API!vars, api
<1> QED
  BY <1>1, <1>2, InitHolds, StepHolds, PTL DEF Spec, API!Spec
=============================================================================
