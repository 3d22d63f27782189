------------------------ MODULE PipelineChargeProofs ------------------------
(***************************************************************************)
(* The pipeline implements AtLeastOnce for every number of workers, jobs,  *)
(* faults and outages.  The argument counts: what a job was charged, the   *)
(* completions of it the API may still charge and the workers that may     *)
(* still send one are together no more than its deliveries (CountInv).     *)
(***************************************************************************)
EXTENDS PipelineProofs, FiniteSetTheorems

(* Completions of job j that may still debit its client. *)
Owed(j) ==
  {r \in Requests : /\ pc[r] \in {"loading", "locking", "debiting"}
                    /\ call[r] \in API!Completions
                    /\ call[r].job = j}

(* Workers that may still send a completion of job j. *)
Ahead(j) ==
  {w \in Workers : /\ message[w] = j
                   /\ \/ step[w] \in {"patching", "analysing"}
                      \/ step[w] = "completing" /\ waiting[w] = Null}

CountInv ==
  /\ deliveries \in [Jobs -> Nat]
  /\ \A j \in Jobs :
       debits[j] + Cardinality(Owed(j)) + Cardinality(Ahead(j)) <= deliveries[j]

(* A completion that found or made its job ANALYZED follows a debit.       *)
PaidInv ==
  /\ debits \in [Jobs -> Nat]
  /\ reply \in [Requests -> Nat \cup {Null}]
  /\ \A j \in Jobs : jobs[j].status = "ANALYZED" => debits[j] > 0
  /\ \A r \in Requests :
       /\ reply[r] # Null => pc[r] = "done"
       /\ (\/ pc[r] \in {"ignoring", "committed"} \/ reply[r] = 200)
          /\ call[r] \in API!Completions => debits[call[r].job] > 0

(* A worker waits for the request it sent, and acks what was paid.         *)
WaitInv ==
  /\ waiting \in [Workers -> Requests \cup {Null}]
  /\ \A w \in Workers :
       /\ waiting[w] # Null =>
            /\ step[w] \in {"patching", "completing", "reporting"}
            /\ pc[waiting[w]] # "new"
            /\ step[w] = "completing" =>
                 /\ call[waiting[w]] \in API!Completions
                 /\ call[waiting[w]].job = message[w]
       /\ step[w] \in {"acking", "rejecting"} => message[w] \in Jobs
       /\ step[w] = "acking" => debits[message[w]] > 0

(* A message is in one place, and only in the queue if never delivered.    *)
PlaceInv ==
  /\ ready \subseteq Jobs
  /\ unacked \in [Workers -> Jobs \cup {Null}]
  /\ acked \cap dlq = {}
  /\ ready \cap (acked \cup dlq) = {}
  /\ \A w \in Workers :
       unacked[w] # Null => unacked[w] \notin ready \cup acked \cup dlq
  /\ \A w, v \in Workers :
       unacked[w] = unacked[v] /\ w # v => unacked[w] = Null
  /\ \A j \in Jobs : deliveries[j] > 0 \/ j \in ready

-----------------------------------------------------------------------------
LEMMA RequestsFinite == IsFiniteSet(Requests) /\ Requests \subseteq Nat
<1>1. Cardinality(Jobs) \in Nat
  BY FiniteAssumption, FS_CardinalityType
<1>2. 3 * (Cardinality(Jobs) + MaxFaults) \in Int
  BY <1>1, MaxFaultsAssumption
<1> QED
  BY <1>2, FS_Interval DEF Requests

(* What a step of the API does to the completions it may still charge: at  *)
(* most one more, received; at most one fewer, charged.                    *)
LEMMA PaidNext ==
  HandInv /\ CallInv /\ PaidInv /\ ApiStep => PaidInv'
<1> SUFFICES ASSUME HandInv, CallInv, PaidInv, ApiStep PROVE PaidInv'
  OBVIOUS
<1> USE CallTypes, RequestsFinite, NullAssumption
    DEF CallInv, PaidInv, SeenBy, API!Labels, API!Goto, API!Respond,
        API!database, API!session, API!history
<1>1. ASSUME NEW w \in Workers, NEW body \in Bodies(w), sent + 1 \in Requests,
             API!ReceiveInternal(sent + 1, body)
      PROVE  PaidInv'
  BY <1>1, BodiesAreCalls DEF API!ReceiveInternal
<1>2. ASSUME NEW r \in Requests, API!JobNotFound(r) \/ API!InvalidPatch(r)
      PROVE  PaidInv'
  BY <1>2 DEF API!JobNotFound, API!InvalidPatch
<1>3. ASSUME NEW r \in Requests, API!LoadForPatch(r) PROVE PaidInv'
  BY <1>3 DEF API!LoadForPatch
<1>4. ASSUME NEW r \in Requests, API!CommitPatch(r) PROVE PaidInv'
  <2>1. PICK new : /\ jobs' = [jobs EXCEPT ![call[r].job] = new]
                   /\ new = API!Flush(jobs[call[r].job], seen[r],
                                      Patched(seen[r], call[r]))
    BY <1>4 DEF API!CommitPatch, Patched
  <2>2. /\ pc[r] = "patching" /\ pc' = [pc EXCEPT ![r] = "committed"]
        /\ UNCHANGED <<call, reply, debits>>
    BY <1>4 DEF API!CommitPatch
  <2>3. /\ call[r] \in API!Patches /\ call[r].status \in {"PROCESSING", "ERROR"}
        /\ call[r] \notin API!Completions
    BY <2>2
  <2>4. seen[r] \in API!Row /\ jobs[call[r].job] \in API!Row
    BY <2>2, <2>3
  <2>5. new.status = "ANALYZED" => jobs[call[r].job].status = "ANALYZED"
    <3> HIDE DEF CallInv, PaidInv
    <3> QED
      BY <2>1, <2>3, <2>4, PatchedRow
  <2>6. \A j \in Jobs : jobs'[j].status = "ANALYZED" => debits[j] > 0
    BY <2>1, <2>3, <2>5
  <2> QED
    BY <2>2, <2>3, <2>6
<1>5. ASSUME NEW r \in Requests, API!LoadForCompletion(r) PROVE PaidInv'
  <2>1. call[r] \in API!Completions /\ call[r].job \in Jobs
    BY <1>5 DEF API!LoadForCompletion
  <2> QED
    BY <1>5, <2>1 DEF API!LoadForCompletion, API!AlreadyAnalyzed
<1>6. ASSUME NEW r \in Requests,
             \/ API!CommitNothing(r) \/ API!LockClient(r)
             \/ API!RefuseCompletion(r)
      PROVE  PaidInv'
  <2>1. CASE API!CommitNothing(r)
    BY <2>1 DEF API!CommitNothing
  <2>2. CASE API!LockClient(r)
    <3>1. /\ pc[r] = "locking" /\ UNCHANGED <<jobs, call, reply, debits>>
          /\ \/ pc' = [pc EXCEPT ![r] = "refusing"]
             \/ pc' = [pc EXCEPT ![r] = "debiting"]
      BY <2>2 DEF API!LockClient
    <3> QED
      BY <3>1
  <2>3. CASE API!RefuseCompletion(r)
    BY <2>3 DEF API!RefuseCompletion
  <2> QED
    BY <1>6, <2>1, <2>2, <2>3
<1>7. ASSUME NEW r \in Requests, API!CommitCompletion(r) PROVE PaidInv'
  <2>1. /\ pc[r] = "debiting" /\ pc' = [pc EXCEPT ![r] = "committed"]
        /\ UNCHANGED <<call, reply>>
        /\ debits' = [debits EXCEPT ![call[r].job] = @ + 1]
        /\ \E new : jobs' = [jobs EXCEPT ![call[r].job] = new]
    BY <1>7 DEF API!CommitCompletion
  <2> QED
    BY <2>1
<1>8. ASSUME NEW r \in Requests, API!AnswerPatch(r) \/ API!AnswerCompletion(r)
      PROVE  PaidInv'
  BY <1>8 DEF API!AnswerPatch, API!AnswerCompletion
<1>9. ASSUME NEW r \in Requests, API!Fail(r) PROVE PaidInv'
  BY <1>9 DEF API!Fail, API!Active
<1>10. ASSUME NEW r \in Requests,
              \/ API!RefuseUpload(r) \/ API!InsertReceived(r)
              \/ API!CommitUpload(r) \/ API!AnswerUpload(r)
       PROVE  FALSE
  BY <1>10 DEF API!RefuseUpload, API!InsertReceived, API!CommitUpload,
               API!AnswerUpload
<1>11. ASSUME API!Crash PROVE PaidInv'
  <2>1. \A r \in Requests :
          \/ pc'[r] = pc[r] /\ pc[r] \in {"new", "done"} /\ reply'[r] = reply[r]
          \/ pc'[r] = "done" /\ reply'[r] = 500
    BY <1>11 DEF API!Crash, API!Active
  <2>2. UNCHANGED <<jobs, call, debits>>
    BY <1>11 DEF API!Crash
  <2>3. reply' \in [Requests -> Nat \cup {Null}]
    BY <1>11 DEF API!Crash
  <2> QED
    BY <2>1, <2>2, <2>3
<1>12. ASSUME NEW r \in Requests, API!UpdateJob(r) PROVE PaidInv'
  BY <1>12 DEF API!UpdateJob
<1>13. CASE UNCHANGED api
  BY <1>13 DEF api
<1> QED
  BY <1>1, <1>2, <1>3, <1>4, <1>5, <1>6, <1>7, <1>8, <1>9, <1>10, <1>11, <1>12,
     <1>13
  DEF ApiStep, API!Proceed

(* A request once received keeps its call, and debits are never undone.    *)
Grows ==
  /\ \A r \in Requests : pc[r] # "new" => pc'[r] # "new" /\ call'[r] = call[r]
  /\ \A j \in Jobs : debits[j] > 0 => debits'[j] > 0

LEMMA ApiGrows == HandInv /\ CallInv /\ PaidInv /\ ApiStep => Grows
<1> SUFFICES ASSUME HandInv, CallInv, PaidInv, ApiStep PROVE Grows
  OBVIOUS
<1> USE CallTypes
    DEF CallInv, PaidInv, Grows, API!Labels, API!Goto, API!Respond, API!history
<1>1. ASSUME NEW w \in Workers, NEW body \in Bodies(w), sent + 1 \in Requests,
             API!ReceiveInternal(sent + 1, body)
      PROVE  Grows
  BY <1>1 DEF API!ReceiveInternal
<1>2. ASSUME NEW r \in Requests, API!Proceed(r) \/ API!Fail(r),
             ~ API!CommitCompletion(r)
      PROVE  Grows
  <2>1. /\ UNCHANGED <<call, debits>>
        /\ \E l \in API!Labels \ {"new"} : pc' = [pc EXCEPT ![r] = l]
    BY <1>2 DEF API!Proceed, API!JobNotFound, API!InvalidPatch,
         API!LoadForPatch, API!UpdateJob, API!CommitPatch,
         API!LoadForCompletion,
         API!CommitNothing, API!LockClient, API!RefuseCompletion,
         API!AnswerPatch, API!AnswerCompletion, API!Fail, API!RefuseUpload,
         API!InsertReceived, API!CommitUpload, API!AnswerUpload
  <2> QED
    BY <2>1
<1>3. ASSUME NEW r \in Requests, API!CommitCompletion(r) PROVE Grows
  <2>1. /\ pc' = [pc EXCEPT ![r] = "committed"] /\ UNCHANGED call
        /\ debits' = [debits EXCEPT ![call[r].job] = @ + 1]
    BY <1>3 DEF API!CommitCompletion
  <2> QED
    BY <2>1
<1>4. ASSUME API!Crash PROVE Grows
  BY <1>4 DEF API!Crash, API!Active
<1>5. CASE UNCHANGED api
  BY <1>5 DEF api
<1> QED
  BY <1>1, <1>2, <1>3, <1>4, <1>5 DEF ApiStep

-----------------------------------------------------------------------------
LEMMA WaitNext ==
  HandInv /\ CallInv /\ PaidInv /\ WaitInv /\ [Next]_vars /\ Grows => WaitInv'
<1> SUFFICES ASSUME HandInv, CallInv, PaidInv, WaitInv, [Next]_vars, Grows
             PROVE  WaitInv'
  OBVIOUS
<1> USE NullAssumption
    DEF HandInv, HandLabels, Calling, WaitInv, Grows, Work!Goto, Work!Fail,
        Work!broker, work, api
<1>1. ASSUME NEW w \in Workers, Send(w) PROVE WaitInv'
  <2>1. PICK body \in Bodies(w) :
          sent + 1 \in Requests /\ API!ReceiveInternal(sent + 1, body)
    BY <1>1 DEF Send
  <2>2. /\ step[w] \in {"patching", "completing", "reporting"}
        /\ step[w] = "completing" =>
             body \in API!Completions /\ body.job = message[w]
    BY <2>1 DEF Bodies, API!Completions
  <2>3. /\ pc'[sent + 1] = "loading" /\ call'[sent + 1] = body
        /\ UNCHANGED debits
    BY <2>1 DEF API!ReceiveInternal, API!Goto, API!history, CallInv
  <2>4. waiting' = [waiting EXCEPT ![w] = sent + 1] /\ UNCHANGED <<step, message>>
    BY <1>1 DEF Send
  <2> QED
    BY <2>1, <2>2, <2>3, <2>4
<1>2. ASSUME NEW w \in Workers, Answered(w) PROVE WaitInv'
  <2>1. /\ UNCHANGED <<pc, call, debits, message>>
        /\ waiting' = [waiting EXCEPT ![w] = Null]
        /\ waiting[w] # Null
    BY <1>2 DEF Answered, Work!PatchProcessing, Work!Complete, Work!CallFails,
                Work!ReportError
  <2>2. \/ step[w] = "patching" /\ step' = [step EXCEPT ![w] = "analysing"]
        \/ /\ step[w] = "completing" /\ step' = [step EXCEPT ![w] = "acking"]
           /\ reply[waiting[w]] = 200
        \/ step' = [step EXCEPT ![w] = "reporting"]
        \/ step[w] = "reporting" /\ step' = [step EXCEPT ![w] = "rejecting"]
    BY <1>2 DEF Answered, Succeeded, Work!PatchProcessing, Work!Complete,
                Work!CallFails, Work!ReportError
  <2>3. step'[w] = "acking" => debits[message[w]] > 0
    BY <2>1, <2>2 DEF PaidInv
  <2> QED
    BY <2>1, <2>2, <2>3
<1>3. ASSUME NEW w \in Workers, TimesOut(w) PROVE WaitInv'
  BY <1>3 DEF TimesOut, Work!CallFails, Work!ReportError
<1>4. ASSUME NEW w \in Workers, Analyse(w) \/ AnalysisFails(w) PROVE WaitInv'
  BY <1>4 DEF Analyse, AnalysisFails, Work!Analyse, Work!AnalysisFails
<1>5. ASSUME NEW w \in Workers, WorkerAlone(w) PROVE WaitInv'
  BY <1>5 DEF WorkerAlone, Work!Start, Work!Ack, Work!Reject,
              Work!SettleFails, Work!LoseChannel, Work!Crash
<1>6. ASSUME NEW w \in Workers, NEW j \in Jobs, Deliver(w, j) PROVE WaitInv'
  BY <1>6 DEF Deliver, Work!Deliver
<1>7. ASSUME ApiAlone PROVE WaitInv'
  BY <1>7 DEF ApiAlone
<1>8. ASSUME NEW j \in Watched, Poll(j) \/ AskReport(j) \/ ReadReport(j)
      PROVE WaitInv'
  BY <1>8 DEF Poll, AskReport, ReadReport
<1>9. CASE UNCHANGED vars
  BY <1>9 DEF vars
<1> QED
  BY <1>1, <1>2, <1>3, <1>4, <1>5, <1>6, <1>7, <1>8, <1>9 DEF Next, WorkerStep

LEMMA PlaceNext ==
  WaitInv /\ PlaceInv /\ deliveries \in [Jobs -> Nat] /\ [Next]_vars
    => PlaceInv' /\ (deliveries \in [Jobs -> Nat])'
<1> DEFINE Placed == PlaceInv /\ deliveries \in [Jobs -> Nat]
<1> SUFFICES ASSUME WaitInv, Placed, [Next]_vars PROVE Placed'
  OBVIOUS
<1> USE NullAssumption DEF PlaceInv, Work!broker, Work!Requeued, work, past
<1>1. ASSUME NEW w \in Workers, WorkerStep(w) \/ TimesOut(w) PROVE Placed'
  <2>1. UNCHANGED <<ready, unacked, acked, dlq, deliveries>>
    BY <1>1 DEF WorkerStep, Send, Answered, Analyse, AnalysisFails, TimesOut,
         Work!PatchProcessing, Work!Complete, Work!CallFails,
         Work!ReportError, Work!Analyse, Work!AnalysisFails
  <2> QED
    BY <2>1
<1>2. ASSUME NEW w \in Workers, WorkerAlone(w) PROVE Placed'
  <2>1. UNCHANGED deliveries
    BY <1>2 DEF WorkerAlone
  <2>2. CASE Work!Start(w) \/ Work!SettleFails(w)
    BY <2>1, <2>2 DEF Work!Start, Work!SettleFails
  <2>3. CASE Work!Ack(w)
    <3>1. message[w] \in Jobs /\ message[w] # Null /\ unacked[w] = message[w]
      BY <2>3 DEF Work!Ack, WaitInv
    <3> QED
      BY <2>1, <2>3, <3>1 DEF Work!Ack
  <2>4. CASE Work!Reject(w)
    <3>1. message[w] \in Jobs /\ message[w] # Null /\ unacked[w] = message[w]
      BY <2>4 DEF Work!Reject, WaitInv
    <3> QED
      BY <2>1, <2>4, <3>1 DEF Work!Reject
  <2>5. CASE Work!LoseChannel(w)
    BY <2>1, <2>5 DEF Work!LoseChannel
  <2>6. CASE Work!Crash(w)
    BY <2>1, <2>6 DEF Work!Crash
  <2> QED
    BY <1>2, <2>2, <2>3, <2>4, <2>5, <2>6 DEF WorkerAlone
<1>3. ASSUME NEW w \in Workers, NEW j \in Jobs, Deliver(w, j) PROVE Placed'
  BY <1>3 DEF Deliver, Work!Deliver
<1>4. ASSUME ApiAlone PROVE Placed'
  BY <1>4 DEF ApiAlone
<1>5. ASSUME NEW j \in Watched, Poll(j) \/ AskReport(j) \/ ReadReport(j)
      PROVE Placed'
  BY <1>5 DEF Poll, AskReport, ReadReport
<1>6. CASE UNCHANGED vars
  BY <1>6 DEF vars
<1> QED
  BY <1>1, <1>2, <1>3, <1>4, <1>5, <1>6 DEF Next

-----------------------------------------------------------------------------
LEMMA SetsFinite ==
  ASSUME NEW j
  PROVE  /\ IsFiniteSet(Owed(j)) /\ Cardinality(Owed(j)) \in Nat
         /\ IsFiniteSet(Ahead(j)) /\ Cardinality(Ahead(j)) \in Nat
<1>1. Owed(j) \subseteq Requests /\ Ahead(j) \subseteq Workers
  BY DEF Owed, Ahead
<1> QED
  BY <1>1, RequestsFinite, FiniteAssumption, FS_Subset, FS_CardinalityType

(* What a step of the API other than a receipt does to the counts.         *)
LEMMA OwedNext ==
  ASSUME HandInv, CallInv, PaidInv, NEW j \in Jobs,
         \/ \E r \in Requests : API!Proceed(r) \/ API!Fail(r)
         \/ API!Crash
         \/ UNCHANGED api
  PROVE  \/ Owed(j)' \subseteq Owed(j) /\ debits'[j] = debits[j]
         \/ \E r \in Owed(j) :
              /\ Owed(j)' \subseteq Owed(j) \ {r}
              /\ debits' = [debits EXCEPT ![j] = @ + 1]
<1> DEFINE Kind == \/ Owed(j)' \subseteq Owed(j) /\ debits'[j] = debits[j]
                   \/ \E r \in Owed(j) :
                        /\ Owed(j)' \subseteq Owed(j) \ {r}
                        /\ debits' = [debits EXCEPT ![j] = @ + 1]
<1> USE CallTypes
    DEF CallInv, PaidInv, SeenBy, Owed, API!Labels, API!Goto, API!Respond,
        API!history
<1>1. ASSUME NEW r \in Requests, API!Proceed(r) \/ API!Fail(r),
             ~ API!CommitCompletion(r)
      PROVE  Kind
  <2>1. /\ UNCHANGED <<call, debits>>
        /\ \E l \in API!Labels : pc' = [pc EXCEPT ![r] = l]
        /\ pc'[r] \in {"loading", "locking", "debiting"} =>
             pc[r] \in {"loading", "locking", "debiting"}
    BY <1>1 DEF API!Proceed, API!JobNotFound, API!InvalidPatch,
         API!LoadForPatch, API!UpdateJob, API!CommitPatch,
         API!LoadForCompletion,
         API!CommitNothing, API!LockClient, API!RefuseCompletion,
         API!AnswerPatch, API!AnswerCompletion, API!Fail, API!RefuseUpload,
         API!InsertReceived, API!CommitUpload, API!AnswerUpload
  <2> QED
    BY <2>1
<1>2. ASSUME NEW r \in Requests, API!CommitCompletion(r) PROVE Kind
  <2>1. /\ pc[r] = "debiting" /\ pc' = [pc EXCEPT ![r] = "committed"]
        /\ UNCHANGED call
        /\ debits' = [debits EXCEPT ![call[r].job] = @ + 1]
    BY <1>2 DEF API!CommitCompletion
  <2>2. CASE call[r].job = j
    <3>1. r \in Owed(j) /\ Owed(j)' \subseteq Owed(j) \ {r}
      BY <2>1, <2>2
    <3> QED
      BY <2>1, <2>2, <3>1
  <2>3. CASE call[r].job # j
    BY <2>1, <2>3
  <2> QED
    BY <2>2, <2>3
<1>3. ASSUME API!Crash PROVE Kind
  BY <1>3 DEF API!Crash, API!Active
<1>4. CASE UNCHANGED api
  BY <1>4 DEF api
<1> QED
  BY <1>1, <1>2, <1>3, <1>4

(* Whom a step of the workers adds to those who may still complete job j.  *)
LEMMA AheadNext ==
  ASSUME HandInv, WaitInv, NEW j \in Jobs, [Next]_vars,
         \A w \in Workers : ~ Deliver(w, j)
  PROVE  Ahead(j)' \subseteq Ahead(j)
<1> USE NullAssumption
    DEF HandInv, HandLabels, WaitInv, Ahead, Work!Goto, Work!Fail,
        Work!broker, work
<1>1. ASSUME NEW w \in Workers, Send(w) PROVE Ahead(j)' \subseteq Ahead(j)
  BY <1>1 DEF Send
<1>2. ASSUME NEW w \in Workers, Answered(w) PROVE Ahead(j)' \subseteq Ahead(j)
  BY <1>2 DEF Answered, Work!PatchProcessing, Work!Complete, Work!CallFails,
              Work!ReportError
<1>3. ASSUME NEW w \in Workers, TimesOut(w) PROVE Ahead(j)' \subseteq Ahead(j)
  BY <1>3 DEF TimesOut, Work!CallFails, Work!ReportError
<1>4. ASSUME NEW w \in Workers, Analyse(w) \/ AnalysisFails(w)
      PROVE  Ahead(j)' \subseteq Ahead(j)
  BY <1>4 DEF Analyse, AnalysisFails, Work!Analyse, Work!AnalysisFails
<1>5. ASSUME NEW w \in Workers, WorkerAlone(w)
      PROVE  Ahead(j)' \subseteq Ahead(j)
  BY <1>5 DEF WorkerAlone, Work!Start, Work!Ack, Work!Reject,
              Work!SettleFails, Work!LoseChannel, Work!Crash
<1>6. ASSUME NEW w \in Workers, NEW i \in Jobs \ {j}, Deliver(w, i)
      PROVE  Ahead(j)' \subseteq Ahead(j)
  BY <1>6 DEF Deliver, Work!Deliver
<1>7. ASSUME ApiAlone PROVE Ahead(j)' \subseteq Ahead(j)
  BY <1>7 DEF ApiAlone
<1>8. ASSUME NEW i \in Watched, Poll(i) \/ AskReport(i) \/ ReadReport(i)
      PROVE  Ahead(j)' \subseteq Ahead(j)
  BY <1>8 DEF Poll, AskReport, ReadReport
<1>9. CASE UNCHANGED vars
  BY <1>9 DEF vars
<1> QED
  BY <1>1, <1>2, <1>3, <1>4, <1>5, <1>6, <1>7, <1>8, <1>9 DEF Next, WorkerStep

(* The bounds the counting rests on, for one element more or fewer.        *)
LEMMA OneMore ==
  ASSUME NEW S, NEW T, NEW x, IsFiniteSet(S), T \subseteq S \cup {x}
  PROVE  Cardinality(T) \in Nat /\ Cardinality(T) <= Cardinality(S) + 1
<1>1. /\ IsFiniteSet(S \cup {x}) /\ Cardinality(S) \in Nat
      /\ Cardinality(S \cup {x}) <= Cardinality(S) + 1
  <2>1. Cardinality(S) \in Nat
    BY FS_CardinalityType
  <2>2. /\ IsFiniteSet(S \cup {x})
        /\ Cardinality(S \cup {x})
             = IF x \in S THEN Cardinality(S) ELSE Cardinality(S) + 1
    BY FS_AddElement
  <2> QED
    BY <2>1, <2>2
<1>2. IsFiniteSet(T) /\ Cardinality(T) <= Cardinality(S \cup {x})
  BY <1>1, FS_Subset
<1>3. Cardinality(T) \in Nat /\ Cardinality(S \cup {x}) \in Nat
  BY <1>1, <1>2, FS_CardinalityType
<1> QED
  BY <1>1, <1>2, <1>3

LEMMA OneFewer ==
  ASSUME NEW S, NEW T, NEW x \in S, IsFiniteSet(S), T \subseteq S \ {x}
  PROVE  Cardinality(T) \in Nat /\ Cardinality(T) <= Cardinality(S) - 1
<1>1. IsFiniteSet(S \ {x}) /\ Cardinality(S \ {x}) = Cardinality(S) - 1
  BY FS_RemoveElement
<1>2. IsFiniteSet(T) /\ Cardinality(T) <= Cardinality(S \ {x})
  BY <1>1, FS_Subset
<1> QED
  BY <1>1, <1>2, FS_CardinalityType

LEMMA CountNext ==
  HandInv /\ CallInv /\ PaidInv /\ WaitInv /\ CountInv /\ [Next]_vars
    => (\A j \in Jobs : debits[j] + Cardinality(Owed(j)) + Cardinality(Ahead(j))
                          <= deliveries[j])'
<1> SUFFICES ASSUME HandInv, CallInv, PaidInv, WaitInv, CountInv, [Next]_vars,
                    NEW j \in Jobs
             PROVE  debits'[j] + Cardinality(Owed(j)') + Cardinality(Ahead(j)')
                      <= deliveries'[j]
  OBVIOUS
<1>1. /\ debits[j] \in Nat /\ deliveries[j] \in Nat
      /\ debits[j] + Cardinality(Owed(j)) + Cardinality(Ahead(j)) <= deliveries[j]
  BY DEF PaidInv, CountInv
<1>2. /\ IsFiniteSet(Owed(j)) /\ Cardinality(Owed(j)) \in Nat
      /\ IsFiniteSet(Ahead(j)) /\ Cardinality(Ahead(j)) \in Nat
  BY SetsFinite
<1>3. CASE \E w \in Workers : Deliver(w, j)
  <2>1. PICK w \in Workers : Deliver(w, j)
    BY <1>3
  <2>2. Owed(j)' = Owed(j) /\ debits' = debits
    BY <2>1 DEF Deliver, api, Owed
  <2>3. Ahead(j)' \subseteq Ahead(j) \cup {w}
    BY <2>1 DEF Deliver, Work!Deliver, Work!Goto, Ahead, HandInv
  <2>4. Cardinality(Ahead(j)') \in Nat
        /\ Cardinality(Ahead(j)') <= Cardinality(Ahead(j)) + 1
    BY <1>2, <2>3, OneMore
  <2>5. deliveries'[j] = deliveries[j] + 1
    BY <2>1 DEF Deliver, CountInv
  <2> QED
    BY <1>1, <1>2, <2>2, <2>4, <2>5
<1>4. CASE \A w \in Workers : ~ Deliver(w, j)
  <2>1. Ahead(j)' \subseteq Ahead(j)
    BY <1>4, AheadNext
  <2>2. /\ Cardinality(Ahead(j)') \in Nat
        /\ Cardinality(Ahead(j)') <= Cardinality(Ahead(j))
    BY <1>2, <2>1, FS_Subset, FS_CardinalityType
  <2>3. deliveries'[j] = deliveries[j]
    BY <1>4 DEF Next, WorkerStep, Send, Answered, Analyse, AnalysisFails,
         TimesOut, WorkerAlone, Deliver, ApiAlone, Poll, AskReport, ReadReport,
         CountInv, past, vars
  <2>4. CASE \E w \in Workers : Send(w)
    <3>1. PICK w \in Workers : Send(w)
      BY <2>4
    <3>2. PICK body \in Bodies(w) :
            sent + 1 \in Requests /\ API!ReceiveInternal(sent + 1, body)
      BY <3>1 DEF Send
    <3>3. /\ call' = [call EXCEPT ![sent + 1] = body] /\ UNCHANGED debits
          /\ pc' = [pc EXCEPT ![sent + 1] = "loading"]
      BY <3>2 DEF API!ReceiveInternal, API!Goto, API!history
    <3>4. CASE body \in API!Completions /\ body.job = j
      <4>1. step[w] = "completing" /\ message[w] = j /\ waiting[w] = Null
        BY <3>1, <3>4 DEF Send, Bodies, API!Completions
      <4>2. waiting' = [waiting EXCEPT ![w] = sent + 1] /\ UNCHANGED step
        BY <3>1 DEF Send, work
      <4>3. sent + 1 # Null
        BY <3>2, RequestsFinite, NullAssumption
      <4>4. w \in Ahead(j) /\ Ahead(j)' \subseteq Ahead(j) \ {w}
        BY <2>1, <4>1, <4>2, <4>3 DEF Ahead, WaitInv
      <4>5. Cardinality(Ahead(j)') <= Cardinality(Ahead(j)) - 1
        BY <1>2, <4>4, OneFewer
      <4>6. Owed(j)' \subseteq Owed(j) \cup {sent + 1}
        BY <3>3 DEF Owed, CallInv
      <4>7. /\ Cardinality(Owed(j)') \in Nat
            /\ Cardinality(Owed(j)') <= Cardinality(Owed(j)) + 1
        BY <1>2, <4>6, OneMore
      <4> QED
        BY <1>1, <1>2, <2>2, <2>3, <3>3, <4>5, <4>7
    <3>5. CASE ~ (body \in API!Completions /\ body.job = j)
      <4>1. Owed(j)' \subseteq Owed(j)
        BY <3>2, <3>3, <3>5 DEF Owed, CallInv
      <4>2. /\ Cardinality(Owed(j)') \in Nat
            /\ Cardinality(Owed(j)') <= Cardinality(Owed(j))
        BY <1>2, <4>1, FS_Subset, FS_CardinalityType
      <4> QED
        BY <1>1, <1>2, <2>2, <2>3, <3>3, <4>2
    <3> QED
      BY <3>4, <3>5
  <2>5. CASE ~ \E w \in Workers : Send(w)
    <3>1. \/ \E r \in Requests : API!Proceed(r) \/ API!Fail(r)
          \/ API!Crash
          \/ UNCHANGED api
      BY <2>5 DEF Next, WorkerStep, Answered, Analyse, AnalysisFails, TimesOut,
           WorkerAlone, Deliver, ApiAlone, Poll, AskReport, ReadReport, vars
    <3>2. CASE Owed(j)' \subseteq Owed(j) /\ debits'[j] = debits[j]
      <4>1. /\ Cardinality(Owed(j)') \in Nat
            /\ Cardinality(Owed(j)') <= Cardinality(Owed(j))
        BY <1>2, <3>2, FS_Subset, FS_CardinalityType
      <4> QED
        BY <1>1, <1>2, <2>2, <2>3, <3>2, <4>1
    <3>3. ASSUME NEW r \in Owed(j), Owed(j)' \subseteq Owed(j) \ {r},
                 debits' = [debits EXCEPT ![j] = @ + 1]
          PROVE  debits'[j] + Cardinality(Owed(j)') + Cardinality(Ahead(j)')
                   <= deliveries'[j]
      <4>1. /\ Cardinality(Owed(j)') \in Nat
            /\ Cardinality(Owed(j)') <= Cardinality(Owed(j)) - 1
        BY <1>2, <3>3, OneFewer
      <4>2. debits'[j] = debits[j] + 1
        BY <3>3 DEF PaidInv
      <4> QED
        BY <1>1, <1>2, <2>2, <2>3, <4>1, <4>2
    <3> QED
      BY <3>1, <3>2, <3>3, OwedNext
  <2> QED
    BY <2>4, <2>5
<1> QED
  BY <1>3, <1>4

ChargeInv == IInv /\ PaidInv /\ WaitInv /\ PlaceInv /\ CountInv

LEMMA ChargeInitHolds == Init => ChargeInv
<1> SUFFICES ASSUME Init PROVE ChargeInv
  OBVIOUS
<1> USE NullAssumption DEF Init, Work!Init, API!Init, API!ReceivedRow
<1>1. PaidInv /\ WaitInv /\ PlaceInv
  BY DEF PaidInv, WaitInv, PlaceInv
<1>2. ASSUME NEW j \in Jobs
      PROVE  debits[j] + Cardinality(Owed(j)) + Cardinality(Ahead(j))
               <= deliveries[j]
  <2>1. Owed(j) = {} /\ Ahead(j) = {}
    BY DEF Owed, Ahead
  <2> QED
    BY <2>1, FS_EmptySet
<1> QED
  BY <1>1, <1>2, InitHolds DEF ChargeInv, CountInv

LEMMA ChargeStepHolds == ChargeInv /\ [Next]_vars => ChargeInv'
<1> SUFFICES ASSUME ChargeInv, [Next]_vars PROVE ChargeInv'
  OBVIOUS
<1>1. IInv' /\ ApiStep
  BY StepHolds, ApiStepHolds DEF ChargeInv
<1>2. PaidInv' /\ Grows
  BY <1>1, PaidNext, ApiGrows DEF ChargeInv, IInv
<1>3. WaitInv'
  BY <1>2, WaitNext DEF ChargeInv, IInv
<1>4. PlaceInv' /\ (deliveries \in [Jobs -> Nat])'
  BY PlaceNext DEF ChargeInv, CountInv
<1>5. CountInv'
  BY <1>4, CountNext DEF ChargeInv, IInv, CountInv
<1> QED
  BY <1>1, <1>2, <1>3, <1>4, <1>5 DEF ChargeInv

-----------------------------------------------------------------------------
LEMMA OnlyCompletionsDebit ==
  ApiStep => UNCHANGED debits \/ \E r \in Requests : API!CommitCompletion(r)
BY DEF ApiStep, api, API!Proceed, API!JobNotFound, API!InvalidPatch,
       API!LoadForPatch, API!UpdateJob, API!CommitPatch,
         API!LoadForCompletion,
       API!CommitNothing, API!LockClient, API!RefuseCompletion,
       API!AnswerPatch, API!AnswerCompletion, API!Fail, API!RefuseUpload,
       API!InsertReceived, API!CommitUpload, API!AnswerUpload, API!Crash,
       API!ReceiveInternal, API!history

(* A debit, by itself, is a charge that some delivery was for.             *)
LEMMA DebitIsCharge ==
  ASSUME ChargeInv, NEW r \in Requests, API!CommitCompletion(r),
         UNCHANGED <<deliveries, acked, dlq>>
  PROVE  Promise!Next
<1> DEFINE j == call[r].job
<1>1. /\ pc[r] = "debiting"
      /\ debits' = [debits EXCEPT ![j] = @ + 1]
  BY DEF API!CommitCompletion
<1>2. call[r] \in API!Completions /\ j \in Jobs
  BY <1>1, CallTypes DEF ChargeInv, IInv, CallInv, SeenBy
<1>3. r \in Owed(j)
  BY <1>1, <1>2 DEF Owed
<1>4. Cardinality(Owed(j)) > 0
  BY <1>3, SetsFinite, FS_EmptySet
<1>5. debits[j] < deliveries[j]
  <2>1. /\ debits[j] \in Nat /\ deliveries[j] \in Nat
        /\ debits[j] + Cardinality(Owed(j)) + Cardinality(Ahead(j)) <= deliveries[j]
    BY <1>2 DEF ChargeInv, PaidInv, CountInv
  <2> QED
    BY <2>1, <1>4, SetsFinite
<1>6. Promise!Charge(j)
  BY <1>1, <1>5 DEF Promise!Charge
<1> QED
  BY <1>2, <1>6 DEF Promise!Next

LEMMA StepIsPromised ==
  ChargeInv /\ [Next]_vars => [Promise!Next]_(Promise!vars)
<1> SUFFICES ASSUME ChargeInv, [Next]_vars
             PROVE  [Promise!Next]_(Promise!vars)
  OBVIOUS
<1> DEFINE Outcome == [j \in Jobs |-> IF j \in acked THEN "done"
                                     ELSE IF j \in dlq THEN "dead" ELSE "open"]
<1>1. ASSUME NEW w \in Workers, NEW j \in Jobs, Deliver(w, j)
      PROVE  Promise!Next
  <2>1. j \in ready /\ UNCHANGED <<debits, acked, dlq>>
        /\ deliveries' = [deliveries EXCEPT ![j] = @ + 1]
    BY <1>1 DEF Deliver, Work!Deliver, api
  <2>2. Outcome[j] = "open"
    BY <2>1 DEF ChargeInv, PlaceInv
  <2>3. Promise!Attempt(j)
    BY <2>1, <2>2 DEF Promise!Attempt
  <2> QED
    BY <2>3 DEF Promise!Next
<1>2. ASSUME NEW w \in Workers, Work!Ack(w), UNCHANGED <<debits, deliveries>>
      PROVE  Promise!Next
  <2> DEFINE j == message[w]
  <2>1. /\ j \in Jobs /\ debits[j] > 0 /\ unacked[w] = j
        /\ acked' = acked \cup {j} /\ UNCHANGED dlq
    BY <1>2 DEF Work!Ack, ChargeInv, WaitInv
  <2>2. j \notin ready \cup acked \cup dlq
    BY <2>1, NullAssumption DEF ChargeInv, PlaceInv
  <2>3. Outcome[j] = "open" /\ deliveries[j] > 0
    BY <2>1, <2>2 DEF ChargeInv, PlaceInv
  <2>4. Outcome' = [Outcome EXCEPT ![j] = "done"]
    BY <2>1, <2>2
  <2>5. Promise!Settle(j, "done")
    BY <1>2, <2>1, <2>3, <2>4 DEF Promise!Settle
  <2> QED
    BY <2>1, <2>5 DEF Promise!Next
<1>3. ASSUME NEW w \in Workers, Work!Reject(w), UNCHANGED <<debits, deliveries>>
      PROVE  Promise!Next
  <2> DEFINE j == message[w]
  <2>1. /\ j \in Jobs /\ unacked[w] = j
        /\ dlq' = dlq \cup {j} /\ UNCHANGED acked
    BY <1>3 DEF Work!Reject, ChargeInv, WaitInv
  <2>2. j \notin ready \cup acked \cup dlq
    BY <2>1, NullAssumption DEF ChargeInv, PlaceInv
  <2>3. Outcome[j] = "open" /\ deliveries[j] > 0
    BY <2>1, <2>2 DEF ChargeInv, PlaceInv
  <2>4. Outcome' = [Outcome EXCEPT ![j] = "dead"]
    BY <2>1, <2>2
  <2>5. Promise!Settle(j, "dead")
    BY <1>3, <2>1, <2>3, <2>4 DEF Promise!Settle
  <2> QED
    BY <2>1, <2>5 DEF Promise!Next
<1>4. ASSUME UNCHANGED <<deliveries, debits, acked, dlq>>
      PROVE  [Promise!Next]_(Promise!vars)
  BY <1>4 DEF Promise!vars
<1>5. ASSUME NEW w \in Workers, WorkerAlone(w)
      PROVE  [Promise!Next]_(Promise!vars)
  <2>1. UNCHANGED <<debits, deliveries>>
    BY <1>5 DEF WorkerAlone, api, past
  <2>2. Work!Ack(w) \/ Work!Reject(w) \/ UNCHANGED <<acked, dlq>>
    BY <1>5 DEF WorkerAlone, Work!Start, Work!SettleFails, Work!LoseChannel,
                Work!Crash, Work!Requeued, Work!broker
  <2> QED
    BY <1>2, <1>3, <1>4, <2>1, <2>2
<1>6. ASSUME UNCHANGED <<deliveries, acked, dlq>>
      PROVE  [Promise!Next]_(Promise!vars)
  BY <1>4, <1>6, ApiStepHolds, OnlyCompletionsDebit, DebitIsCharge
<1>7. ASSUME NEW w \in Workers, WorkerStep(w) \/ TimesOut(w)
      PROVE  UNCHANGED <<deliveries, acked, dlq>>
  BY <1>7 DEF WorkerStep, Send, Answered, Analyse, AnalysisFails, TimesOut,
       Work!PatchProcessing, Work!Complete, Work!CallFails, Work!ReportError,
       Work!Analyse, Work!AnalysisFails, Work!broker, work, past
<1>8. ASSUME \/ ApiAlone
             \/ \E j \in Watched : Poll(j) \/ AskReport(j) \/ ReadReport(j)
             \/ UNCHANGED vars
      PROVE  UNCHANGED <<deliveries, acked, dlq>>
  BY <1>8 DEF ApiAlone, Poll, AskReport, ReadReport, work, past, vars
<1> QED
  BY <1>1, <1>5, <1>6, <1>7, <1>8 DEF Next

(* Each delivery of a job is worth one debit of its client at most, an     *)
(* acked job was debited, and a settled one is not delivered again: the    *)
(* pipeline implements AtLeastOnce (consume_loop, execute_diagram_job and  *)
(* complete_with_report together).                                         *)
THEOREM ChargedAtLeastOnceHolds == Spec => ChargedAtLeastOnce
<1>1. Init => Promise!Init
  BY DEF Init, Work!Init, API!Init, Promise!Init
<1> QED
  BY <1>1, ChargeInitHolds, ChargeStepHolds, StepIsPromised, PTL
  DEF Spec, ChargedAtLeastOnce, Promise!Spec
=============================================================================
