------------------------------ MODULE Pipeline ------------------------------
(***************************************************************************)
(* The whole life of a job whose message is in the queue: the workers      *)
(* (module Worker) run it and call the API (module JobApi), the report     *)
(* goes through the object store, and the client who owns the job polls    *)
(* the API for its status and fetches the report.                          *)
(*                                                                         *)
(* A call of a worker is a request of its own in JobApi: it outlives the   *)
(* worker's patience and the worker, and its reply decides which step the  *)
(* worker takes.  The object of a job's report is written under a key made *)
(* from the job alone, so a second execution overwrites it.                *)
(***************************************************************************)
EXTENDS Integers, FiniteSets

CONSTANTS
  Clients, Jobs, Reports, Owner, Funds, Null,  \* as in JobApi
  Usage,       \* tokens the model reported for the analysis behind a report
  Errors,      \* messages of exceptions
  Workers,     \* worker processes
  Watched,     \* jobs whose owner polls for the report
  MaxFaults,   \* bound on worker crashes and lost channels
  MaxOutages   \* bound on timeouts, failed requests and API crashes

ASSUME UsageAssumption == Usage \in [Reports -> Nat]
ASSUME OwnerAssumption == Owner \in [Jobs -> Clients]
ASSUME FundsAssumption == Funds \in [Clients -> Nat]
ASSUME WatchedAssumption == Watched \subseteq Jobs
ASSUME MaxOutagesAssumption == MaxOutages \in Nat
ASSUME FiniteAssumption == IsFiniteSet(Jobs) /\ IsFiniteSet(Workers)
ASSUME MaxFaultsAssumption == MaxFaults \in Nat
ASSUME NullAssumption ==
  Null \notin Jobs /\ Null \notin Reports /\ Null \notin Nat

(* Three calls for each delivery: PROCESSING, COMPLETE and ERROR.          *)
Requests == 1..3 * (Cardinality(Jobs) + MaxFaults)

VARIABLES
  \* of the API: see JobApi
  jobs, balance, writer, keyShare, updater, pc, call, seen, cash, reply,
  counted, consumed, debited, debits, reopened,
  \* of the workers and the broker: see Worker, whose pc is step here
  ready, unacked, acked, dlq, step, message, phase, asked, answered, faults,
  \* of what is between them
  object,      \* content of the report object of each job
  draft,       \* the report each worker has in hand
  waiting,     \* the request each worker waits for
  sent,        \* requests sent so far
  outages,     \* timeouts, failed requests and API crashes so far
  view,        \* how far the owner of each job got
  got,         \* the report each owner was served
  deliveries,  \* history: times each message was delivered
  overlapped   \* history: jobs two executions or requests of which overlapped

Stored == {j \in Jobs : object[j] # Null}

API == INSTANCE JobApi WITH
  Existing <- Jobs, Tokens <- {Usage[d] : d \in Reports}, MinEstimate <- 0,
  Serialised <- FALSE

Work == INSTANCE Worker WITH
  Messages <- Jobs, Poison <- {}, pc <- step, stored <- Stored

api == <<jobs, balance, writer, keyShare, updater, pc, call, seen, cash,
         reply, counted, consumed, debited, debits, reopened>>
work == <<ready, unacked, acked, dlq, step, message, phase, asked, answered,
          faults>>
owner == <<view, got>>
past == <<deliveries, overlapped>>
vars == <<api, work, object, draft, waiting, sent, outages, owner, past>>

Init ==
  /\ object = [j \in Jobs |-> Null]
  /\ API!Init
  /\ Work!Init
  /\ draft = [w \in Workers |-> Null]
  /\ waiting = [w \in Workers |-> Null]
  /\ sent = 0
  /\ outages = 0
  /\ view = [j \in Jobs |-> "polling"]
  /\ got = [j \in Jobs |-> Null]
  /\ deliveries = [j \in Jobs |-> 0]
  /\ overlapped = {}

(* Requests about job j that the API is serving, whoever waits for them.   *)
InService(j) == {r \in API!Active : call[r].job = j}

(* Workers in the middle of job j. *)
Executing(j) == {w \in Workers : message[w] = j /\ step[w] \notin {"idle", "down"}}

-----------------------------------------------------------------------------
(* The three calls of InternalApiClient. *)
Bodies(w) ==
  CASE step[w] = "patching" ->
         {[kind |-> "patch", job |-> message[w], status |-> "PROCESSING",
           err |-> Null]}
    [] step[w] = "completing" ->
         {[kind |-> "complete", job |-> message[w],
           tokens |-> Usage[draft[w]], report |-> draft[w]]}
    [] step[w] = "reporting" ->
         {[kind |-> "patch", job |-> message[w], status |-> "ERROR",
           err |-> e] : e \in Errors}
    [] OTHER -> {}

(* A worker sends its next call. *)
Send(w) ==
  /\ waiting[w] = Null
  /\ sent + 1 \in Requests
  /\ \E body \in Bodies(w) : API!ReceiveInternal(sent + 1, body)
  /\ sent' = sent + 1
  /\ waiting' = [waiting EXCEPT ![w] = sent + 1]
  /\ overlapped' = overlapped \cup
       {j \in {message[w]} : InService(j) # {}}
  /\ UNCHANGED <<work, object, draft, outages, owner, deliveries>>

(* Mutant of Succeeded: raise_for_status is not called. *)
AnyReply(r) == TRUE

(* raise_for_status lets a 2xx pass. *)
Succeeded(r) == reply[r] = 200

(* The reply arrives: the worker goes on, or takes it for a failure; a     *)
(* failed PATCH ERROR is logged and forgotten.                             *)
Answered(w) ==
  LET r == waiting[w] IN
  /\ r # Null
  /\ reply[r] # Null
  /\ UNCHANGED object
  /\ \/ Succeeded(r) /\ (Work!PatchProcessing(w) \/ Work!Complete(w))
     \/ ~ Succeeded(r) /\ Work!CallFails(w)
     \/ Work!ReportError(w) /\ (answered' # answered => Succeeded(r))
  /\ waiting' = [waiting EXCEPT ![w] = Null]
  /\ UNCHANGED <<api, draft, sent, outages, owner, past>>

(* httpx gives up after 120 seconds; the request is served all the same.   *)
TimesOut(w) ==
  /\ outages < MaxOutages
  /\ waiting[w] # Null
  /\ reply[waiting[w]] = Null
  /\ UNCHANGED object
  /\ \/ Work!CallFails(w)
     \/ Work!ReportError(w) /\ answered' = answered
  /\ waiting' = [waiting EXCEPT ![w] = Null]
  /\ outages' = outages + 1
  /\ UNCHANGED <<api, draft, sent, owner, past>>

-----------------------------------------------------------------------------
(* Mutant of Write: an object that is there is not replaced. *)
WriteOnce(j, d) ==
  object' = [object EXCEPT ![j] = IF @ = Null THEN d ELSE @]

(* write_report_bytes: reports/<job_id>.json, whatever it held before. *)
Write(j, d) == object' = [object EXCEPT ![j] = d]

(* Mutant of Analyse: a report that could not be written is only logged.   *)
AnalyseUnwritten(w) ==
  /\ step[w] = "analysing"
  /\ step' = [step EXCEPT ![w] = "completing"]
  /\ \E d \in Reports : draft' = [draft EXCEPT ![w] = d]
  /\ UNCHANGED <<api, ready, unacked, acked, dlq, message, phase, asked,
                 answered, faults, object, waiting, sent, outages, owner, past>>

(* The model answers with some report or other, which is stored.           *)
Analyse(w) ==
  /\ step[w] = "analysing"
  /\ \E d \in Reports :
       Write(message[w], d) /\ draft' = [draft EXCEPT ![w] = d]
  /\ Work!Analyse(w)
  /\ UNCHANGED <<api, waiting, sent, outages, owner, past>>

AnalysisFails(w) ==
  /\ step[w] = "analysing"
  /\ UNCHANGED object \/ \E d \in Reports : Write(message[w], d)
  /\ Work!AnalysisFails(w)
  /\ UNCHANGED <<api, draft, waiting, sent, outages, owner, past>>

Deliver(w, j) ==
  /\ UNCHANGED object
  /\ Work!Deliver(w, j)
  /\ deliveries' = [deliveries EXCEPT ![j] = @ + 1]
  /\ overlapped' = overlapped \cup
       {i \in {j} : InService(i) # {} \/ Executing(i) # {}}
  /\ UNCHANGED <<api, draft, waiting, sent, outages, owner>>

(* The steps that touch neither the API nor the report.  A process that    *)
(* dies drops its connection; the request it made goes on.                 *)
WorkerAlone(w) ==
  /\ UNCHANGED object
  /\ \/ Work!Start(w) \/ Work!Ack(w) \/ Work!Reject(w) \/ Work!SettleFails(w)
     \/ Work!LoseChannel(w) \/ Work!Crash(w)
  /\ waiting' = [waiting EXCEPT ![w] = IF step'[w] = "down" THEN Null ELSE @]
  /\ UNCHANGED <<api, draft, sent, outages, owner, past>>

-----------------------------------------------------------------------------
ApiAlone ==
  /\ \/ \E r \in Requests : API!Proceed(r) /\ UNCHANGED outages
     \/ /\ outages < MaxOutages
        /\ (\E r \in Requests : API!Fail(r)) \/ API!Crash
        /\ outages' = outages + 1
  /\ UNCHANGED <<work, object, draft, waiting, sent, owner, past>>

-----------------------------------------------------------------------------
(* GET /v1/analysis-jobs/{id}, until it says ANALYZED or ERROR. *)
Poll(j) ==
  /\ view[j] = "polling"
  /\ jobs[j].status \in {"ANALYZED", "ERROR"}
  /\ view' = [view EXCEPT ![j] = jobs[j].status]
  /\ UNCHANGED <<api, work, object, draft, waiting, sent, outages, got, past>>

(* What GET .../report answers from the row of the job alone. *)
EarlyAnswer(row) ==
  CASE row.status = "ERROR" -> "409"
    [] row.status \in {"RECEIVED", "PROCESSING"} -> "425"
    [] row.status = "ANALYZED" /\ row.report = Null -> "404"
    [] row.status = "ANALYZED" /\ row.report # Null -> "reading"

(* GET /v1/analysis-jobs/{id}/report of a client who was told ANALYZED.    *)
AskReport(j) ==
  /\ view[j] = "ANALYZED"
  /\ view' = [view EXCEPT ![j] = EarlyAnswer(jobs[j])]
  /\ UNCHANGED <<api, work, object, draft, waiting, sent, outages, got, past>>

(* Nothing holds the row while the object is fetched; a key that is not    *)
(* there raises S3Error, which nobody catches.                             *)
ReadReport(j) ==
  /\ view[j] = "reading"
  /\ view' = [view EXCEPT ![j] = IF object[j] = Null THEN "500" ELSE "200"]
  /\ got' = [got EXCEPT ![j] = object[j]]
  /\ UNCHANGED <<api, work, object, draft, waiting, sent, outages, past>>

WorkerStep(w) ==
  \/ Send(w) \/ Answered(w) \/ Analyse(w) \/ AnalysisFails(w)

Next ==
  \/ \E w \in Workers :
       \/ WorkerStep(w) \/ TimesOut(w) \/ WorkerAlone(w)
       \/ \E j \in Jobs : Deliver(w, j)
  \/ ApiAlone
  \/ \E j \in Watched : Poll(j) \/ AskReport(j) \/ ReadReport(j)

Spec == Init /\ [][Next]_vars

(* The API serves what it received, a call ends if only by its timeout,    *)
(* and workers run and are started again: see JobApi and Worker.           *)
FairSpec ==
  /\ Spec
  /\ \A r \in Requests : WF_vars(API!Proceed(r) /\ ApiAlone)
  /\ \A w \in Workers :
       /\ WF_vars(WorkerStep(w))
       /\ WF_vars(WorkerAlone(w) /\ faults' = faults)
       /\ WF_vars(\E j \in Jobs : Deliver(w, j))

-----------------------------------------------------------------------------
(* Every variable has its type; each instance's invariant among them.      *)
TypeOK ==
  /\ API!TypeOK
  /\ Work!TypeOK
  /\ object \in [Jobs -> Reports \cup {Null}]
  /\ draft \in [Workers -> Reports \cup {Null}]
  /\ waiting \in [Workers -> Requests \cup {Null}]
  /\ sent \in 0..Cardinality(Requests)
  /\ outages \in 0..MaxOutages
  /\ view \in [Jobs -> {"polling", "ANALYZED", "ERROR", "reading",
                        "200", "404", "409", "425", "500"}]
  /\ got \in [Jobs -> Reports \cup {Null}]
  /\ deliveries \in [Jobs -> Nat]
  /\ overlapped \subseteq Jobs

(* Whatever crashes, times out or overlaps, the client is debited at most  *)
(* once for each delivery of the job's message, at least once before the   *)
(* message is acked, and a settled message is never delivered again        *)
(* (execute_diagram_job sends one completion; consume_loop acks after a    *)
(* 2xx only): the composition implements AtLeastOnce.                      *)
Promise == INSTANCE AtLeastOnce WITH
  attempts <- deliveries, charges <- debits,
  outcome <- [j \in Jobs |-> IF j \in acked THEN "done"
                             ELSE IF j \in dlq THEN "dead" ELSE "open"]
ChargedAtLeastOnce == Promise!Spec

(* The report of an ANALYZED job is in the object store, so a client whose *)
(* request saw the row ANALYZED is served a report and neither 404 nor     *)
(* 500, even if the job is reopened before the object is read              *)
(* (get_analysis_report, load_report_for_api).                             *)
AnalyzedHasReport ==
  \A j \in Jobs :
    /\ jobs[j].status = "ANALYZED" => object[j] # Null
    /\ view[j] \notin {"404", "500"}

(* A redelivery alone does no harm: as long as no two executions of a job  *)
(* and no two requests about it overlapped, each debit of it is its row    *)
(* becoming ANALYZED, the row of an ANALYZED job has the checksum and the  *)
(* charge of the very object in the store, and a message that was acked    *)
(* left its job ANALYZED.                                                  *)
UndisturbedJobIsExact ==
  \A j \in Jobs \ overlapped :
    LET analyzed == jobs[j].status = "ANALYZED" IN
    /\ debits[j] = reopened[j] + (IF analyzed THEN 1 ELSE 0)
    /\ analyzed => jobs[j].report = object[j] /\ jobs[j].tokens = Usage[object[j]]
    /\ j \in acked => analyzed

(* Calls received about any of the jobs js. *)
CallsAbout(js) == {r \in Requests : pc[r] # "new" /\ call[r].job \in js}

(* Work is done again only because a worker died or lost its channel, and  *)
(* then once: nothing retries a call or requeues a message by itself, so   *)
(* whatever times out or fails in the API, a job costs its client no more  *)
(* debits than it has runs, and every run no more than three calls         *)
(* (execute_diagram_job, consume_loop's reject without requeue).           *)
NothingIsRetried ==
  /\ \A js \in SUBSET Jobs :
       Cardinality(CallsAbout(js)) <= 3 * (Cardinality(js) + faults)
  /\ \A j \in Jobs : debits[j] <= 1 + faults

(* Every message is settled in the end, although the worker waits for an   *)
(* API whose requests wait for each other's locks.                         *)
EveryMessageSettled == Work!EveryMessageSettled

(* README, data flow, step 9: "when `ANALYZED`, `GET                       *)
(* /v1/analysis-jobs/{id}/report` for JSON": a client who was told         *)
(* ANALYZED is not refused the report.                                     *)
ReportAfterAnalyzed == \A j \in Jobs : view[j] \notin {"409", "425"}
=============================================================================
