------------------------- MODULE PipelineExactProofs -------------------------
(***************************************************************************)
(* While neither two executions of a job nor two requests about it         *)
(* overlap, a redelivery does it no harm, for every number of workers,     *)
(* jobs, faults and outages.  The invariant says of such a job that the    *)
(* one request in service has the current row and the current report, and  *)
(* that the one worker on it knows what became of its last request.        *)
(***************************************************************************)
EXTENDS PipelineChargeProofs

Analyzed(j) == jobs[j].status = "ANALYZED"

(* The one request about j and the one worker on it. *)
AloneInv(j) ==
  /\ \A q, r \in InService(j) : q = r
  /\ \A v, w \in Executing(j) : v = w

(* What the request in service knows of the row and the object. *)
Serves(r, j) ==
  /\ pc[r] \in SeenBy => seen[r] = jobs[j]
  /\ pc[r] \in {"locking", "refusing", "debiting"} => ~ Analyzed(j)
  /\ pc[r] = "ignoring" => Analyzed(j)
  /\ pc[r] = "committed" =>
       jobs[j].status = IF call[r].kind = "complete" THEN "ANALYZED"
                                                     ELSE call[r].status
  /\ call[r] \in API!Completions =>
       call[r].report = object[j] /\ call[r].tokens = Usage[object[j]]

ServedInv(j) == \A r \in InService(j) : Serves(r, j)

(* What the worker on j knows of the row, the object and its request. *)
Knows(w, j) ==
  /\ waiting[w] # Null =>
       InService(j) \subseteq {waiting[w]} /\ call[waiting[w]].job = j
  /\ waiting[w] # Null /\ step[w] = "patching" =>
       /\ call[waiting[w]].kind = "patch"
       /\ call[waiting[w]].status = "PROCESSING"
  /\ waiting[w] # Null /\ reply[waiting[w]] = 200 =>
       /\ step[w] = "patching" => ~ Analyzed(j)
       /\ step[w] = "completing" => Analyzed(j)
  /\ step[w] = "analysing" => InService(j) = {} /\ ~ Analyzed(j)
  /\ step[w] = "completing" => object[j] = draft[w]
  /\ step[w] = "completing" /\ waiting[w] = Null =>
       InService(j) = {} /\ ~ Analyzed(j)
  /\ step[w] = "acking" => InService(j) = {} /\ Analyzed(j)

ExecutedInv(j) == \A w \in Executing(j) : Knows(w, j)

(* What is left of an acked job. *)
SettledInv(j) ==
  j \in acked => Executing(j) = {} /\ InService(j) = {} /\ Analyzed(j)

(* The row, the debits and the object of j agree. *)
ExactInv(j) ==
  /\ debits[j] = reopened[j] + (IF Analyzed(j) THEN 1 ELSE 0)
  /\ Analyzed(j) => jobs[j].report = object[j]
                    /\ jobs[j].tokens = Usage[object[j]]

Undisturbed(j) ==
  AloneInv(j) /\ ServedInv(j) /\ ExecutedInv(j) /\ SettledInv(j) /\ ExactInv(j)

UndisturbedInv ==
  /\ reopened \in [Jobs -> Nat]
  /\ \A j \in Jobs \ overlapped : Undisturbed(j)

-----------------------------------------------------------------------------
(* A step that touches nothing of job j leaves j undisturbed.              *)
LEMMA Frame ==
  ASSUME NEW j \in Jobs, Undisturbed(j),
         jobs'[j] = jobs[j], object'[j] = object[j],
         debits'[j] = debits[j], reopened'[j] = reopened[j],
         j \in acked' => j \in acked,
         InService(j)' = InService(j), Executing(j)' = Executing(j),
         \A r \in InService(j) :
           pc'[r] = pc[r] /\ call'[r] = call[r] /\ seen'[r] = seen[r],
         \A w \in Executing(j) :
           /\ step'[w] = step[w] /\ waiting'[w] = waiting[w]
           /\ draft'[w] = draft[w]
           /\ waiting[w] # Null =>
                /\ call'[waiting[w]] = call[waiting[w]]
                /\ reply'[waiting[w]] = reply[waiting[w]]
  PROVE  Undisturbed(j)'
<1>1. AloneInv(j)'
  BY DEF Undisturbed, AloneInv
<1>2. Analyzed(j)' = Analyzed(j)
  BY DEF Analyzed
<1>3. ServedInv(j)'
  BY <1>2 DEF Undisturbed, ServedInv, Serves
<1>4. ExecutedInv(j)'
  BY <1>2 DEF Undisturbed, ExecutedInv, Knows
<1>5. SettledInv(j)' /\ ExactInv(j)'
  BY <1>2 DEF Undisturbed, SettledInv, ExactInv
<1> QED
  BY <1>1, <1>3, <1>4, <1>5 DEF Undisturbed

(* A request of another job, by whichever step.                            *)
LEMMA StepElsewhere ==
  ASSUME HandInv, CallInv, PaidInv, WaitInv, UndisturbedInv,
         NEW j \in Jobs \ overlapped, NEW r \in Requests,
         API!Proceed(r) \/ API!Fail(r), call[r].job # j,
         UNCHANGED <<work, object, draft, waiting>>
  PROVE  Undisturbed(j)'
<1>1. /\ UNCHANGED call
      /\ \E l \in API!Labels \ {"new"} : pc' = [pc EXCEPT ![r] = l]
      /\ pc[r] \notin {"new", "done"}
      /\ \A q \in Requests \ {r} : seen'[q] = seen[q] /\ reply'[q] = reply[q]
      /\ jobs'[j] = jobs[j] /\ debits'[j] = debits[j] /\ reopened'[j] = reopened[j]
  BY DEF API!Proceed, API!JobNotFound, API!InvalidPatch,
       API!LoadForPatch, API!UpdateJob, API!CommitPatch,
       API!LoadForCompletion,
       API!CommitNothing, API!LockClient, API!RefuseCompletion,
       API!CommitCompletion,
       API!AnswerPatch, API!AnswerCompletion, API!Fail, API!RefuseUpload,
       API!InsertReceived, API!CommitUpload, API!AnswerUpload,
       API!Active, API!Labels, API!Goto, API!Respond, API!history, API!database,
       API!session, CallInv, PaidInv, UndisturbedInv
<1>2. InService(j)' = InService(j) /\ Executing(j)' = Executing(j)
  BY <1>1 DEF InService, Executing, API!Active, work, CallInv
<1>3. \A w \in Executing(j) : waiting[w] # Null => waiting[w] \in Requests \ {r}
  BY DEF UndisturbedInv, Undisturbed, ExecutedInv, Knows, Executing, WaitInv
<1> QED
  BY <1>1, <1>2, <1>3, Frame
  DEF UndisturbedInv, InService, Executing, API!Active, work, CallInv

(* A step of the one request about j: what is left to show of it.          *)
LEMMA Here ==
  ASSUME WaitInv, PaidInv, CallInv,
         NEW j \in Jobs, Undisturbed(j), NEW r \in InService(j), NEW l,
         l # "new", pc' = [pc EXCEPT ![r] = l],
         UNCHANGED <<call, object, acked, draft, waiting, step, message>>,
         reply'[r] = 200 /\ call[r].kind = "patch"
           /\ call[r].status = "PROCESSING" => ~ Analyzed(j)',
         reply'[r] = 200 /\ call[r] \in API!Completions => Analyzed(j)',
         l # "done" => Serves(r, j)',
         ExactInv(j)'
  PROVE  Undisturbed(j)'
<1>1. /\ InService(j) = {r} /\ j \notin acked
      /\ Executing(j)' = Executing(j)
      /\ r \in Requests /\ call[r].job = j
  BY DEF Undisturbed, AloneInv, SettledInv, Executing, InService, API!Active
<1>2. InService(j)' \subseteq {r} /\ (l = "done" => InService(j)' = {})
  BY <1>1 DEF InService, API!Active, CallInv
<1>3. AloneInv(j)'
  BY <1>1, <1>2 DEF AloneInv, Undisturbed
<1>4. ServedInv(j)'
  BY <1>2 DEF ServedInv
<1>5. ASSUME NEW w \in Executing(j)
      PROVE  /\ step[w] \notin {"analysing", "acking"}
             /\ ~ (step[w] = "completing" /\ waiting[w] = Null)
             /\ waiting[w] # Null => waiting[w] = r
  BY <1>1 DEF Undisturbed, ExecutedInv, Knows
<1>6. ExecutedInv(j)'
  BY <1>1, <1>2, <1>5 DEF ExecutedInv, Knows, Undisturbed, WaitInv, Executing
<1>7. SettledInv(j)'
  BY <1>1 DEF SettledInv
<1> QED
  BY <1>3, <1>4, <1>6, <1>7 DEF Undisturbed

LEMMA StepHere ==
  ASSUME HandInv, CallInv, PaidInv, WaitInv, UndisturbedInv,
         NEW j \in Jobs \ overlapped, NEW r \in Requests,
         API!Proceed(r) \/ API!Fail(r), call[r].job = j,
         UNCHANGED <<work, object, draft, waiting>>
  PROVE  Undisturbed(j)'
<1>1. pc[r] \notin {"new", "done"}
  BY DEF API!Proceed, API!JobNotFound, API!InvalidPatch,
       API!LoadForPatch, API!UpdateJob, API!CommitPatch,
       API!LoadForCompletion,
       API!CommitNothing, API!LockClient, API!RefuseCompletion,
       API!CommitCompletion,
       API!AnswerPatch, API!AnswerCompletion, API!Fail, API!RefuseUpload,
       API!InsertReceived, API!CommitUpload, API!AnswerUpload,
       API!Active, API!Labels
<1>2. r \in InService(j) /\ Undisturbed(j) /\ Serves(r, j) /\ ExactInv(j)
  BY <1>1 DEF InService, API!Active, UndisturbedInv, Undisturbed, ServedInv
<1>3. /\ call[r] \in API!Patches \cup API!Completions
      /\ call[r] \in API!Patches => call[r].kind = "patch"
      /\ call[r] \in API!Completions => call[r].kind = "complete"
      /\ jobs[j] \in API!Row /\ reply[r] = Null /\ Null # 200
  BY <1>1, CallTypes, NullAssumption DEF CallInv, PaidInv
<1>4. UNCHANGED <<acked, step, message>>
  BY DEF work
<1> DEFINE Ready(l) ==
      /\ l # "new" /\ pc' = [pc EXCEPT ![r] = l] /\ UNCHANGED call
      /\ reply'[r] = 200 /\ call[r].kind = "patch"
           /\ call[r].status = "PROCESSING" => ~ Analyzed(j)'
      /\ reply'[r] = 200 /\ call[r] \in API!Completions => Analyzed(j)'
      /\ l # "done" => Serves(r, j)'
      /\ ExactInv(j)'
<1>5. ASSUME NEW l, Ready(l) PROVE Undisturbed(j)'
  BY <1>2, <1>4, <1>5, Here
<1> HIDE DEF Ready
<1>6. ASSUME UNCHANGED <<jobs, debits, reopened>> PROVE ExactInv(j)' /\ Analyzed(j)' = Analyzed(j)
  BY <1>2, <1>6 DEF ExactInv, Analyzed
<1>7. CASE API!JobNotFound(r) \/ API!InvalidPatch(r) \/ API!RefuseCompletion(r)
           \/ API!Fail(r)
  <2>1. /\ pc' = [pc EXCEPT ![r] = "done"] /\ UNCHANGED <<call, jobs, debits, reopened>>
        /\ \E s \in {400, 402, 404, 500} : reply' = [reply EXCEPT ![r] = s]
    BY <1>7 DEF API!JobNotFound, API!InvalidPatch, API!RefuseCompletion,
         API!Fail, API!Goto, API!Respond, API!database, API!history
  <2>2. reply'[r] # 200
    BY <2>1 DEF PaidInv
  <2>3. ExactInv(j)'
    BY <1>6, <2>1
  <2>4. Ready("done")
    BY <2>1, <2>2, <2>3 DEF Ready
  <2> QED
    BY <1>5, <2>4
<1>8. CASE API!LoadForPatch(r) \/ API!LoadForCompletion(r)
  <2>1. /\ UNCHANGED <<call, reply, jobs, debits, reopened>>
        /\ seen' = [seen EXCEPT ![r] = jobs[j]]
        /\ \/ pc' = [pc EXCEPT ![r] = "patching"]
           \/ pc' = [pc EXCEPT ![r] = "ignoring"] /\ Analyzed(j)
           \/ pc' = [pc EXCEPT ![r] = "locking"] /\ ~ Analyzed(j)
    BY <1>8 DEF API!LoadForPatch, API!LoadForCompletion, API!AlreadyAnalyzed,
         API!Goto, API!database, API!history, Analyzed
  <2>2. seen'[r] = jobs[j] /\ reply'[r] # 200
    BY <1>3, <2>1 DEF CallInv
  <2> DEFINE L == {"patching", "ignoring", "locking"}
  <2>3. PICK l \in L : /\ pc' = [pc EXCEPT ![r] = l]
                       /\ l = "ignoring" => Analyzed(j)
                       /\ l = "locking" => ~ Analyzed(j)
    BY <2>1
  <2>4. Serves(r, j)'
    BY <1>2, <1>6, <2>1, <2>2, <2>3 DEF Serves, CallInv
  <2> QED
    BY <1>5, <1>6, <2>1, <2>2, <2>3, <2>4 DEF Ready
<1>9. CASE API!LockClient(r)
  <2>1. /\ UNCHANGED <<call, reply, jobs, debits, reopened, seen>>
        /\ pc[r] = "locking"
        /\ \E l \in {"refusing", "debiting"} : pc' = [pc EXCEPT ![r] = l]
    BY <1>9 DEF API!LockClient, API!Goto, API!database, API!history
  <2>2. PICK l \in {"refusing", "debiting"} : pc' = [pc EXCEPT ![r] = l]
    BY <2>1
  <2>3. Serves(r, j)'
    BY <1>2, <1>6, <2>1, <2>2 DEF Serves, CallInv, SeenBy
  <2> QED
    BY <1>3, <1>5, <1>6, <2>1, <2>2, <2>3 DEF Ready
<1>10. CASE API!CommitNothing(r)
  <2>1. /\ UNCHANGED <<call, reply, jobs, debits, reopened, seen>>
        /\ pc[r] = "ignoring" /\ pc' = [pc EXCEPT ![r] = "committed"]
    BY <1>10 DEF API!CommitNothing, API!Goto, API!database, API!history,
         API!session
  <2>2. call[r].kind = "complete"
    BY <1>3, <2>1 DEF CallInv, SeenBy
  <2>3. Serves(r, j)'
    BY <1>2, <1>6, <2>1, <2>2 DEF Serves, CallInv, SeenBy, Analyzed
  <2> QED
    BY <1>3, <1>5, <1>6, <2>1, <2>3 DEF Ready
<1>11. CASE API!CommitPatch(r)
  <2>1. PICK new : /\ jobs' = [jobs EXCEPT ![j] = new]
                   /\ new = API!Flush(jobs[j], seen[r],
                                      Patched(seen[r], call[r]))
                   /\ reopened' = [reopened EXCEPT ![j] =
                        IF jobs[j].status = "ANALYZED" /\ new.status # "ANALYZED"
                        THEN @ + 1 ELSE @]
    BY <1>11 DEF API!CommitPatch, Patched
  <2>2. /\ UNCHANGED <<call, reply, debits, seen>>
        /\ pc[r] = "patching" /\ pc' = [pc EXCEPT ![r] = "committed"]
    BY <1>11 DEF API!CommitPatch, API!Goto, API!session
  <2>3. /\ call[r] \in API!Patches /\ call[r].status \in {"PROCESSING", "ERROR"}
        /\ seen[r] = jobs[j]
    BY <1>2, <2>2 DEF CallInv, Serves, SeenBy
  <2>4. new.status = call[r].status
    BY <1>3, <2>1, <2>3 DEF API!Flush, Patched, API!Row
  <2>5. jobs'[j].status = call[r].status /\ ~ Analyzed(j)'
    BY <2>1, <2>3, <2>4 DEF Analyzed, CallInv
  <2>6. reopened'[j] = reopened[j] + (IF Analyzed(j) THEN 1 ELSE 0)
    BY <2>1, <2>3, <2>4 DEF Analyzed, UndisturbedInv
  <2>7. ExactInv(j)'
    BY <1>2, <2>2, <2>5, <2>6 DEF ExactInv, UndisturbedInv, PaidInv
  <2>8. Serves(r, j)'
    BY <1>3, <2>2, <2>3, <2>5 DEF Serves, CallInv, SeenBy,
         API!Patches, API!Completions
  <2> QED
    BY <1>3, <1>5, <2>2, <2>7, <2>8 DEF Ready
<1>12. CASE API!CommitCompletion(r)
  <2>1. PICK new : /\ jobs' = [jobs EXCEPT ![j] = new]
                   /\ new = API!Flush(jobs[j], seen[r],
                                      API!Analyzed(seen[r], call[r]))
    BY <1>12 DEF API!CommitCompletion
  <2>2. /\ UNCHANGED <<call, reply, reopened, seen>>
        /\ debits' = [debits EXCEPT ![j] = @ + 1]
        /\ pc[r] = "debiting" /\ pc' = [pc EXCEPT ![r] = "committed"]
    BY <1>12 DEF API!CommitCompletion, API!Goto, API!session
  <2>3. /\ call[r] \in API!Completions /\ call[r].kind = "complete"
        /\ seen[r] = jobs[j] /\ ~ Analyzed(j)
        /\ call[r].report = object[j] /\ call[r].tokens = Usage[object[j]]
    BY <1>2, <1>3, <2>2 DEF CallInv, Serves, SeenBy
  <2>4. /\ new.status = "ANALYZED" /\ new.report = call[r].report
        /\ new.tokens = call[r].tokens
    BY <2>1, <2>3 DEF API!Flush, API!Analyzed
  <2>5. jobs'[j] = new /\ Analyzed(j)'
    BY <2>1, <2>4 DEF Analyzed, CallInv
  <2>6. ExactInv(j)'
    BY <1>2, <2>2, <2>3, <2>4, <2>5 DEF ExactInv, UndisturbedInv, PaidInv
  <2>7. Serves(r, j)'
    BY <2>2, <2>3, <2>4, <2>5 DEF Serves, CallInv, SeenBy
  <2> QED
    BY <1>3, <1>5, <2>2, <2>6, <2>7 DEF Ready
<1>13. CASE API!AnswerPatch(r) \/ API!AnswerCompletion(r)
  <2>1. /\ UNCHANGED <<call, jobs, debits, reopened>>
        /\ pc[r] = "committed" /\ pc' = [pc EXCEPT ![r] = "done"]
    BY <1>13 DEF API!AnswerPatch, API!AnswerCompletion, API!Goto, API!Respond,
         API!database, API!history
  <2>2. /\ call[r].kind = "patch" /\ call[r].status = "PROCESSING" => ~ Analyzed(j)
        /\ call[r] \in API!Completions => Analyzed(j)
    BY <1>2, <1>3, <2>1 DEF Serves, Analyzed
  <2> QED
    BY <1>5, <1>6, <2>1, <2>2 DEF Ready
<1>14. CASE API!UpdateJob(r)
  <2>1. UNCHANGED <<call, reply, jobs, debits, reopened, seen, pc>>
    BY <1>14 DEF API!UpdateJob, API!database, API!history, API!session
  <2>2. pc' = [pc EXCEPT ![r] = pc[r]] /\ pc[r] # "new"
    BY <1>1, <2>1 DEF CallInv
  <2>3. Serves(r, j)'
    BY <1>2, <1>6, <2>1 DEF Serves
  <2> QED
    BY <1>3, <1>5, <1>6, <2>1, <2>2, <2>3 DEF Ready
<1>15. CASE \/ API!RefuseUpload(r) \/ API!InsertReceived(r)
            \/ API!CommitUpload(r) \/ API!AnswerUpload(r)
  BY <1>3, <1>15 DEF API!RefuseUpload, API!InsertReceived, API!CommitUpload,
       API!AnswerUpload, CallInv
<1> QED
  BY <1>7, <1>8, <1>9, <1>10, <1>11, <1>12, <1>13, <1>14, <1>15
  DEF API!Proceed

(* The API dies: whoever waits is answered 500, and no row changes.        *)
LEMMA CrashKeeps ==
  ASSUME CallInv, PaidInv, WaitInv, UndisturbedInv,
         NEW j \in Jobs \ overlapped, API!Crash,
         UNCHANGED <<work, object, draft, waiting>>
  PROVE  Undisturbed(j)'
<1>1. /\ UNCHANGED <<jobs, call, debits, reopened>>
      /\ \A r \in Requests : pc'[r] \in {"new", "done"}
      /\ \A r \in Requests : reply'[r] = 200 => reply[r] = 200
  BY DEF API!Crash, API!Active, API!database, API!history
<1>2. InService(j)' = {} /\ Executing(j)' = Executing(j)
  BY <1>1 DEF InService, API!Active, Executing, work
<1>3. Analyzed(j)' = Analyzed(j) /\ Undisturbed(j)
  BY <1>1 DEF Analyzed, UndisturbedInv
<1>4. AloneInv(j)' /\ ServedInv(j)'
  BY <1>2, <1>3 DEF AloneInv, ServedInv, Undisturbed
<1>5. ASSUME NEW w \in Executing(j) PROVE Knows(w, j)'
  <2>1. Knows(w, j) /\ w \in Workers
    BY <1>3 DEF Undisturbed, ExecutedInv, Executing
  <2>2. waiting[w] # Null => waiting[w] \in Requests
    BY <2>1 DEF WaitInv
  <2> QED
    BY <1>1, <1>2, <1>3, <2>1, <2>2 DEF Knows, work
<1>6. ExecutedInv(j)' /\ SettledInv(j)' /\ ExactInv(j)'
  BY <1>1, <1>2, <1>3, <1>5 DEF ExecutedInv, SettledInv, ExactInv, Undisturbed, work
<1> QED
  BY <1>4, <1>6 DEF Undisturbed

LEMMA ReopenedNext ==
  ASSUME HandInv, CallInv, reopened \in [Jobs -> Nat], ApiStep
  PROVE  reopened' \in [Jobs -> Nat]
<1> USE DEF API!history
<1>1. ASSUME NEW r \in Requests, API!CommitPatch(r) PROVE reopened' \in [Jobs -> Nat]
  <2>1. \E b : reopened' = [reopened EXCEPT ![call[r].job] =
                              IF b THEN @ + 1 ELSE @]
    BY <1>1 DEF API!CommitPatch
  <2>2. \/ reopened' = [reopened EXCEPT ![call[r].job] = @ + 1]
        \/ reopened' = [reopened EXCEPT ![call[r].job] = @]
    BY <2>1
  <2> QED
    BY <2>2
<1>2. ASSUME NEW r \in Requests, API!Proceed(r) \/ API!Fail(r), ~ API!CommitPatch(r)
      PROVE  UNCHANGED reopened
  BY <1>2 DEF API!Proceed, API!JobNotFound, API!InvalidPatch,
       API!LoadForPatch, API!UpdateJob, API!LoadForCompletion,
       API!CommitNothing, API!LockClient, API!RefuseCompletion, API!CommitCompletion,
       API!AnswerPatch, API!AnswerCompletion, API!Fail, API!RefuseUpload,
       API!InsertReceived, API!CommitUpload, API!AnswerUpload
<1>3. ASSUME API!Crash \/ UNCHANGED api
             \/ \E w \in Workers : \E body \in Bodies(w) :
                  API!ReceiveInternal(sent + 1, body)
      PROVE  UNCHANGED reopened
  BY <1>3 DEF API!Crash, API!ReceiveInternal, api
<1> QED
  BY <1>1, <1>2, <1>3 DEF ApiStep

-----------------------------------------------------------------------------
(* A step of a worker that does nothing with job j, before or after.       *)
LEMMA WorkerElsewhere ==
  ASSUME NEW w \in Workers, NEW j \in Jobs, Undisturbed(j),
         UNCHANGED <<jobs, pc, call, seen, reply, debits, reopened>>,
         w \notin Executing(j), w \notin Executing(j)',
         \A v \in Workers \ {w} :
           /\ step'[v] = step[v] /\ message'[v] = message[v]
           /\ waiting'[v] = waiting[v] /\ draft'[v] = draft[v],
         object'[j] = object[j], j \in acked' => j \in acked
  PROVE  Undisturbed(j)'
<1>1. InService(j)' = InService(j)
  BY DEF InService, API!Active
<1>2. Executing(j)' = Executing(j)
  BY DEF Executing
<1>3. \A v \in Executing(j) : v \in Workers \ {w}
  BY DEF Executing
<1> QED
  BY <1>1, <1>2, <1>3, Frame

(* A step of the worker on job j that changes nothing of the API.          *)
LEMMA WorkerHere ==
  ASSUME NEW j \in Jobs, Undisturbed(j), NEW w \in Executing(j),
         UNCHANGED <<jobs, pc, call, seen, reply, debits, reopened>>,
         \A v \in Workers \ {w} : step'[v] = step[v] /\ message'[v] = message[v],
         message'[w] = message[w],
         object'[j] = object[j] \/ (InService(j) = {} /\ ~ Analyzed(j)),
         step'[w] \in {"idle", "down"} \/ Knows(w, j)',
         acked' = acked
           \/ (step'[w] = "idle" /\ InService(j) = {} /\ Analyzed(j))
  PROVE  Undisturbed(j)'
<1>1. InService(j)' = InService(j) /\ Analyzed(j)' = Analyzed(j)
  BY DEF InService, API!Active, Analyzed
<1>2. /\ Executing(j)' \subseteq {w}
      /\ step'[w] \in {"idle", "down"} => Executing(j)' = {}
  BY DEF Executing, Undisturbed, AloneInv
<1>3. AloneInv(j)' /\ ExecutedInv(j)'
  BY <1>1, <1>2 DEF AloneInv, ExecutedInv, Undisturbed
<1>4. ServedInv(j)' /\ ExactInv(j)'
  BY <1>1 DEF ServedInv, Serves, ExactInv, Undisturbed
<1>5. SettledInv(j)'
  BY <1>1, <1>2 DEF SettledInv, Undisturbed
<1> QED
  BY <1>3, <1>4, <1>5 DEF Undisturbed

(* The hypotheses under which a step of the pipeline is looked at.         *)
Before == HandInv /\ CallInv /\ PaidInv /\ WaitInv /\ PlaceInv /\ UndisturbedInv

LEMMA AnsweredKeeps ==
  ASSUME Before, NEW w \in Workers, Answered(w) \/ TimesOut(w),
         NEW j \in Jobs \ overlapped
  PROVE  Undisturbed(j)'
<1>1. /\ UNCHANGED <<jobs, pc, call, seen, reply, debits, reopened, object,
                     draft, message, acked>>
      /\ waiting[w] # Null /\ waiting' = [waiting EXCEPT ![w] = Null]
      /\ step[w] \in {"patching", "completing", "reporting"}
      /\ \E l \in {"analysing", "acking", "reporting", "rejecting"} :
           /\ step' = [step EXCEPT ![w] = l]
           /\ l \in {"analysing", "acking"} => reply[waiting[w]] = 200
           /\ l = "analysing" => step[w] = "patching"
           /\ l = "acking" => step[w] = "completing"
  BY DEF Answered, TimesOut, Succeeded, Work!PatchProcessing, Work!Complete,
       Work!CallFails, Work!ReportError, Work!Fail, Work!Goto, Work!broker, api
<1>2. /\ Undisturbed(j) /\ step \in [Workers -> HandLabels]
      /\ waiting \in [Workers -> Requests \cup {Null}]
  BY DEF Before, UndisturbedInv, HandInv, WaitInv
<1>3. CASE message[w] # j
  BY <1>1, <1>2, <1>3, WorkerElsewhere DEF Executing
<1>4. CASE message[w] = j
  <2>1. w \in Executing(j)
    BY <1>1, <1>4 DEF Executing
  <2>2. Knows(w, j)
    BY <1>2, <2>1 DEF Undisturbed, ExecutedInv
  <2>3. reply[waiting[w]] = 200 => InService(j) = {}
    BY <1>1, <1>2, <2>2, NullAssumption
    DEF Before, PaidInv, Knows, InService, API!Active
  <2>4. Knows(w, j)'
    BY <1>1, <1>2, <2>2, <2>3
    DEF Knows, InService, API!Active, Analyzed, HandLabels
  <2> QED
    BY <1>1, <1>2, <2>1, <2>4, WorkerHere
<1> QED
  BY <1>3, <1>4

LEMMA AnalysisKeeps ==
  ASSUME Before, NEW w \in Workers, Analyse(w) \/ AnalysisFails(w),
         NEW j \in Jobs \ overlapped
  PROVE  Undisturbed(j)'
<1>1. /\ UNCHANGED <<jobs, pc, call, seen, reply, debits, reopened, waiting,
                     message, acked>>
      /\ step[w] = "analysing"
      /\ \A v \in Workers \ {w} : draft'[v] = draft[v]
      /\ \A i \in Jobs \ {message[w]} : object'[i] = object[i]
      /\ \/ /\ step' = [step EXCEPT ![w] = "completing"]
            /\ object'[message[w]] = draft'[w]
         \/ step' = [step EXCEPT ![w] = "reporting"]
  BY DEF Before, HandInv, Calling, Analyse, AnalysisFails, Write, Work!Analyse,
       Work!AnalysisFails, Work!Fail, Work!Goto, Work!broker, api
<1>2. /\ Undisturbed(j) /\ step \in [Workers -> HandLabels]
      /\ waiting[w] = Null
  BY <1>1 DEF Before, UndisturbedInv, HandInv, WaitInv
<1>3. CASE message[w] # j
  BY <1>1, <1>2, <1>3, WorkerElsewhere DEF Executing
<1>4. CASE message[w] = j
  <2>1. w \in Executing(j)
    BY <1>1, <1>4 DEF Executing
  <2>2. InService(j) = {} /\ ~ Analyzed(j)
    BY <1>1, <1>2, <2>1 DEF Undisturbed, ExecutedInv, Knows
  <2>3. Knows(w, j)'
    BY <1>1, <1>2, <1>4, <2>2 DEF Knows, InService, API!Active, Analyzed
  <2> QED
    BY <1>1, <1>2, <2>1, <2>2, <2>3, WorkerHere
<1> QED
  BY <1>3, <1>4

LEMMA AloneKeeps ==
  ASSUME Before, NEW w \in Workers, WorkerAlone(w), NEW j \in Jobs \ overlapped
  PROVE  Undisturbed(j)'
<1>1. /\ UNCHANGED <<jobs, pc, call, seen, reply, debits, reopened, object,
                     draft, message>>
      /\ \A v \in Workers \ {w} : waiting'[v] = waiting[v]
      /\ step'[w] # "down" => waiting'[w] = waiting[w]
      /\ \/ UNCHANGED <<step, acked>>
         \/ UNCHANGED acked /\ step' = [step EXCEPT ![w] = "idle"]
         \/ UNCHANGED acked /\ step' = [step EXCEPT ![w] = "down"]
         \/ /\ step[w] = "acking" /\ acked' = acked \cup {message[w]}
            /\ step' = [step EXCEPT ![w] = "idle"]
  BY DEF Before, WaitInv, WorkerAlone, Work!Start, Work!Ack, Work!Reject,
       Work!SettleFails, Work!LoseChannel, Work!Crash, Work!Requeued, Work!Goto,
       Work!broker, Work!effects, api
<1>2. Undisturbed(j) /\ step \in [Workers -> HandLabels]
  BY DEF Before, UndisturbedInv, HandInv
<1>3. CASE w \notin Executing(j)
  <2>1. w \notin Executing(j)'
    BY <1>1, <1>2, <1>3 DEF Executing
  <2>2. j \in acked' => j \in acked
    BY <1>1, <1>3 DEF Executing
  <2> QED
    BY <1>1, <1>2, <1>3, <2>1, <2>2, WorkerElsewhere
<1>4. CASE w \in Executing(j)
  <2>1. Knows(w, j) /\ message[w] = j /\ step[w] \notin {"idle", "down"}
    BY <1>2, <1>4 DEF Undisturbed, ExecutedInv, Executing
  <2>2. \/ acked' = acked
        \/ step'[w] = "idle" /\ InService(j) = {} /\ Analyzed(j)
    BY <1>1, <1>2, <2>1 DEF Knows
  <2>3. step'[w] \in {"idle", "down"} \/ Knows(w, j)'
    BY <1>1, <1>2, <2>1 DEF Knows, InService, API!Active, Analyzed
  <2>4. \A v \in Workers \ {w} : step'[v] = step[v] /\ message'[v] = message[v]
    BY <1>1, <1>2
  <2> QED
    BY <1>1, <1>2, <1>4, <2>2, <2>3, <2>4, WorkerHere
<1> QED
  BY <1>3, <1>4

(* A delivery that overlaps nothing finds the job at rest.                 *)
LEMMA DeliverKeeps ==
  ASSUME Before, NEW w \in Workers, NEW i \in Jobs, Deliver(w, i),
         NEW j \in Jobs \ overlapped'
  PROVE  Undisturbed(j)'
<1>1. /\ UNCHANGED <<jobs, pc, call, seen, reply, debits, reopened, object,
                     draft, waiting, acked>>
      /\ step[w] = "idle" /\ step' = [step EXCEPT ![w] = "patching"]
      /\ message' = [message EXCEPT ![w] = i] /\ i \in ready
      /\ j \notin overlapped
      /\ i = j => InService(j) = {} /\ Executing(j) = {}
  BY DEF Deliver, Work!Deliver, Work!Goto, Work!effects, api
<1>2. /\ Undisturbed(j) /\ step \in [Workers -> HandLabels]
      /\ message \in [Workers -> Jobs \cup {Null}]
      /\ waiting[w] = Null /\ i \notin acked
  BY <1>1 DEF Before, UndisturbedInv, HandInv, WaitInv, PlaceInv
<1>3. CASE i # j
  <2>1. w \notin Executing(j) /\ w \notin Executing(j)'
    BY <1>1, <1>2, <1>3 DEF Executing
  <2> QED
    BY <1>1, <1>2, <2>1, WorkerElsewhere
<1>4. CASE i = j
  <2>1. /\ InService(j)' = {} /\ Executing(j)' \subseteq {w}
        /\ Analyzed(j)' = Analyzed(j)
    BY <1>1, <1>2, <1>4 DEF InService, API!Active, Executing, Analyzed
  <2>2. Knows(w, j)'
    BY <1>1, <1>2, <2>1 DEF Knows
  <2>3. AloneInv(j)' /\ ServedInv(j)' /\ ExecutedInv(j)'
    BY <2>1, <2>2 DEF AloneInv, ServedInv, ExecutedInv
  <2>4. SettledInv(j)' /\ ExactInv(j)'
    BY <1>1, <1>2, <1>4, <2>1 DEF SettledInv, ExactInv, Undisturbed
  <2> QED
    BY <2>3, <2>4 DEF Undisturbed
<1> QED
  BY <1>3, <1>4

(* A worker that sends a call while nothing of its job is in service has   *)
(* the only request about it.                                              *)
LEMMA SendKeeps ==
  ASSUME Before, NEW w \in Workers, Send(w), NEW j \in Jobs \ overlapped'
  PROVE  Undisturbed(j)'
<1> DEFINE r == sent + 1
<1>1. PICK body \in Bodies(w) : API!ReceiveInternal(r, body)
  BY DEF Send
<1>2. /\ UNCHANGED <<jobs, seen, reply, debits, reopened, object, draft, step,
                     message, acked>>
      /\ waiting[w] = Null /\ waiting' = [waiting EXCEPT ![w] = r]
      /\ pc[r] = "new" /\ pc' = [pc EXCEPT ![r] = "loading"]
      /\ call' = [call EXCEPT ![r] = body]
      /\ r \in Requests /\ j \notin overlapped
      /\ message[w] = j => InService(j) = {}
  BY <1>1 DEF Send, API!ReceiveInternal, API!Goto, API!database, API!session,
       API!history, work
<1> HIDE DEF r
<1>3. /\ Undisturbed(j) /\ reply[r] = Null
      /\ pc \in [Requests -> API!Labels]
      /\ call \in [Requests -> API!Calls \cup {Null}]
      /\ waiting \in [Workers -> Requests \cup {Null}]
      /\ \A v \in Workers : waiting[v] # r
  BY <1>2, NullAssumption, RequestsFinite
  DEF Before, UndisturbedInv, PaidInv, CallInv, WaitInv
<1>4. /\ body.job = message[w]
      /\ step[w] \in {"patching", "completing", "reporting"}
      /\ step[w] = "patching" =>
           body.kind = "patch" /\ body.status = "PROCESSING"
      /\ body \in API!Completions =>
           /\ step[w] = "completing" /\ body.report = draft[w]
           /\ body.tokens = Usage[draft[w]]
  BY DEF Bodies, API!Completions
<1>5. CASE message[w] # j
  <2>1. InService(j)' = InService(j) /\ Executing(j)' = Executing(j)
    BY <1>2, <1>3, <1>4, <1>5 DEF InService, API!Active, Executing
  <2>2. \A q \in InService(j) : q # r
    BY <1>2 DEF InService, API!Active
  <2>3. \A v \in Executing(j) : v \in Workers \ {w}
    BY <1>5 DEF Executing
  <2> QED
    BY <1>2, <1>3, <2>1, <2>2, <2>3, Frame
<1>6. CASE message[w] = j
  <2>1. w \in Executing(j) /\ Executing(j)' = Executing(j)
    BY <1>2, <1>4, <1>6 DEF Executing
  <2>2. InService(j)' \subseteq {r} /\ Analyzed(j)' = Analyzed(j)
    BY <1>2, <1>3, <1>6 DEF InService, API!Active, Analyzed
  <2>3. AloneInv(j)'
    BY <1>3, <2>1, <2>2 DEF AloneInv, Undisturbed
  <2>4. step[w] = "completing" => object[j] = draft[w]
    BY <1>3, <2>1 DEF Undisturbed, ExecutedInv, Knows
  <2>5. call'[r] = body /\ pc'[r] = "loading" /\ waiting'[w] = r
    BY <1>2, <1>3
  <2>6. ServedInv(j)'
    BY <1>2, <1>4, <2>2, <2>4, <2>5 DEF ServedInv, Serves, SeenBy
  <2>7. Knows(w, j)'
    BY <1>2, <1>3, <1>4, <1>6, <2>2, <2>4, <2>5, NullAssumption DEF Knows
  <2>8. ExecutedInv(j)'
    BY <1>3, <2>1, <2>7 DEF ExecutedInv, Undisturbed, AloneInv
  <2>9. SettledInv(j)' /\ ExactInv(j)'
    BY <1>2, <1>3, <2>1, <2>2 DEF SettledInv, ExactInv, Undisturbed
  <2> QED
    BY <2>3, <2>6, <2>8, <2>9 DEF Undisturbed
<1> QED
  BY <1>5, <1>6

(* Steps of the API.                                                       *)
LEMMA ServiceKeeps ==
  ASSUME Before, ApiAlone, NEW j \in Jobs \ overlapped
  PROVE  Undisturbed(j)'
<1>1. UNCHANGED <<work, object, draft, waiting>>
  BY DEF ApiAlone
<1>2. CASE API!Crash
  BY <1>1, <1>2, CrashKeeps DEF Before
<1>3. ASSUME NEW r \in Requests, API!Proceed(r) \/ API!Fail(r)
      PROVE  Undisturbed(j)'
  BY <1>1, <1>3, StepHere, StepElsewhere DEF Before
<1> QED
  BY <1>2, <1>3 DEF ApiAlone

LEMMA UndisturbedNext == Before /\ [Next]_vars => UndisturbedInv'
<1> SUFFICES ASSUME Before, [Next]_vars PROVE UndisturbedInv'
  OBVIOUS
<1>1. reopened' \in [Jobs -> Nat]
  BY ApiStepHolds, ReopenedNext DEF Before, UndisturbedInv
<1>2. SUFFICES ASSUME NEW j \in Jobs \ overlapped' PROVE Undisturbed(j)'
  BY <1>1 DEF UndisturbedInv
<1>3. ASSUME NEW w \in Workers, Send(w) PROVE Undisturbed(j)'
  BY <1>3, SendKeeps
<1>4. ASSUME NEW w \in Workers, Answered(w) \/ TimesOut(w)
      PROVE  Undisturbed(j)'
  BY <1>4, AnsweredKeeps DEF Answered, TimesOut, past
<1>5. ASSUME NEW w \in Workers, Analyse(w) \/ AnalysisFails(w)
      PROVE  Undisturbed(j)'
  BY <1>5, AnalysisKeeps DEF Analyse, AnalysisFails, past
<1>6. ASSUME NEW w \in Workers, WorkerAlone(w) PROVE Undisturbed(j)'
  BY <1>6, AloneKeeps DEF WorkerAlone, past
<1>7. ASSUME NEW w \in Workers, NEW i \in Jobs, Deliver(w, i)
      PROVE  Undisturbed(j)'
  BY <1>7, DeliverKeeps
<1>8. CASE ApiAlone
  BY <1>8, ServiceKeeps DEF ApiAlone, past
<1>9. ASSUME \/ UNCHANGED vars
             \/ \E i \in Watched : Poll(i) \/ AskReport(i) \/ ReadReport(i)
      PROVE  Undisturbed(j)'
  <2>1. UNCHANGED <<api, work, object, draft, waiting, past>>
    BY <1>9 DEF vars, Poll, AskReport, ReadReport
  <2>2. Undisturbed(j)
    BY <2>1 DEF Before, UndisturbedInv, past
  <2>3. InService(j)' = InService(j) /\ Executing(j)' = Executing(j)
    BY <2>1 DEF InService, API!Active, Executing, api, work
  <2> QED
    BY <2>1, <2>2, <2>3, Frame DEF api, work
<1> QED
  BY <1>3, <1>4, <1>5, <1>6, <1>7, <1>8, <1>9 DEF Next, WorkerStep

LEMMA UndisturbedInit == Init => UndisturbedInv
<1> SUFFICES ASSUME Init PROVE UndisturbedInv
  OBVIOUS
<1>1. /\ reopened = [j \in Jobs |-> 0] /\ debits = [j \in Jobs |-> 0]
      /\ \A j \in Jobs : jobs[j].status = "RECEIVED"
      /\ \A r \in Requests : pc[r] = "new"
      /\ \A w \in Workers : step[w] = "down"
      /\ acked = {}
  BY DEF Init, API!Init, API!ReceivedRow, Work!Init
<1>2. ASSUME NEW j \in Jobs PROVE Undisturbed(j)
  <2>1. InService(j) = {} /\ Executing(j) = {} /\ ~ Analyzed(j)
    BY <1>1 DEF InService, API!Active, Executing, Analyzed
  <2> QED
    BY <1>1, <2>1
    DEF Undisturbed, AloneInv, ServedInv, ExecutedInv, SettledInv, ExactInv
<1> QED
  BY <1>1, <1>2 DEF UndisturbedInv

(* As long as neither executions of a job nor requests about it overlap,   *)
(* each debit of it is its row becoming ANALYZED, the row agrees with the  *)
(* stored object and an acked message left its job ANALYZED, for every     *)
(* number of workers, jobs, faults and outages (execute_diagram_job's      *)
(* order of calls, and the tests of complete_with_report).                 *)
THEOREM UndisturbedJobIsExactHolds == Spec => []UndisturbedJobIsExact
<1> DEFINE Inv == ChargeInv /\ UndisturbedInv
<1>1. Init => Inv
  BY ChargeInitHolds, UndisturbedInit
<1>2. Inv /\ [Next]_vars => Inv'
  BY ChargeStepHolds, UndisturbedNext DEF Before, ChargeInv, IInv
<1>3. Inv => UndisturbedJobIsExact
  BY DEF UndisturbedInv, Undisturbed, ExactInv, SettledInv, Analyzed,
         UndisturbedJobIsExact
<1> QED
  BY <1>1, <1>2, <1>3, PTL DEF Spec
=============================================================================
