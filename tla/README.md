# TLA+ models of the diagram-analysis service

This directory models the service in `src/`: an HTTP API that accepts
architecture diagrams and charges tokens for them, a worker that analyses each
diagram with an LLM, and the PostgreSQL, MinIO and RabbitMQ they share. TLC
checks the models on small instances; TLAPS proves the main safety properties
for every value of the constants.

## 1. The system

    client --POST--> API --row--> PostgreSQL
                      |--diagram-> MinIO <--diagram, report-- worker
                      `--message-> RabbitMQ ----------------> worker
                     API <--PATCH PROCESSING | completion | PATCH ERROR-- worker

| component | state it keeps | operations | interacts with |
|---|---|---|---|
| API, job transactions (`internal_router`, `application/jobs`, `repositories/jobs`) | tables `clients` and `analysis_jobs`; one SQLAlchemy session, with its cached rows and its locks, per request | upload (insert, set diagram), PATCH status, completion (debit and record) | PostgreSQL; called by clients and the worker |
| API, upload effects (`public_router`, `application/jobs`, adapters, `main`) | the publisher chosen at start-up | validate, store the diagram, commit, publish | MinIO, RabbitMQ |
| worker loop (`main`, `execute_diagram_job`, `fsm`, `internal_api`) | the message in its hands, the phase of its state machine | take, PATCH PROCESSING, analyse, store, complete, report ERROR, ack, reject | RabbitMQ, MinIO, the API, the LLM |
| LLM analyzer (`ai_analyzer`) | attempt number, tokens used so far | call, retry by the kind of failure, fall back | the LLM provider |
| a job from queue to report (all of the above together) | the report object; calls in flight; deliveries | - | workers and API through HTTP, a polling client |
| public reads (`public_router`) | none | job, report, balance | PostgreSQL, MinIO |
| authentication, contracts, domain policies | none | bearer lookup, request validation, admission rules | - |
| metrics, logging, gateway, dashboards | counters | record, route | - |

What is hard, and what makes each part correct:

* **Transactions.** Requests run concurrently at READ COMMITTED. The job row is
  read without a lock, and its UPDATE locks it only from the flush at the head of
  `session.commit` to the COMMIT; the client row is locked while a completion
  debits it (FOR UPDATE) and while an upload stores its diagram (FOR KEY SHARE, by
  the foreign key). A completion asks for the job row while it holds the client row.
  Correct means: no token is lost or invented, an acknowledged completion was paid,
  a job is charged once each time it is really completed, the handlers act as if each
  were atomic, locks are waited for in no circle, and nobody waits for ever.
* **Upload.** One request writes three stores without a common transaction and
  may die between any two. Correct means: a message never outruns what it
  names, and a 201 never hides a message that was refused.
* **Worker.** Deliveries are at least once: blocking work stops heartbeats, the
  broker redelivers, the process dies between the completion and its ack. Correct
  means: a message is never lost or held twice, is acked only after its
  completion, is dead-lettered only after the failure was reported, and is
  always settled.
* **Analyzer.** Every kind of answer has its own path through the retry loop.
  Correct means: it ends, charges the usage of the answer it returns and of no
  other, sleeps only for rate limits, and falls back instead of failing.
* **The whole life of a job.** A call outlives the patience of the worker that
  sent it and the worker itself; a redelivered message may run beside an earlier
  execution; both write one report object, both complete, and the client may be
  reading meanwhile. Correct means: a bounded number of charges, at least one
  before the ack, a report for whoever saw ANALYZED, and no harm at all from a
  redelivery that overlaps nothing.

`PROJECT.json` lists every hazard found, at its line, with the properties aimed
at it or the reason there is none.

## 2. Modules

| module | models | role |
|---|---|---|
| `JobApi` | the three transactions at the grain of awaits and SQL statements | detailed specification |
| `JobLedger` | the same three operations, each in one step | what `JobApi` implements |
| `UploadApi` | an upload across row, object and message | specification |
| `Worker` | the consumer loop and `execute_diagram_job` | specification |
| `Analyzer` | `run_real_analysis` | specification |
| `Pipeline` | workers, API, report objects and a polling client together, by `INSTANCE` of `JobApi` and `Worker` | composition |
| `AtLeastOnce` | what happens to a job seen from outside | what `Pipeline` implements |
| `MC*` | small instances, symmetry | constants for TLC |
| `*Proofs` | inductive invariants and theorems | TLAPS |

### JobApi

`pc[r]` is where request `r` is in its handler, `call[r]` its body. One action is
what the handler does between two awaits at which another request can run.
`seen[r]` is the job row as the session loaded it, `cash[r]` the client's balance
as the session loaded it: the model's account of the identity map. `Flush` is the
unit of work's UPDATE: only the columns that differ from the loaded row are
written, onto whatever row is there now. That is where overlapping handlers mix.

| action | code |
|---|---|
| `ReceiveUpload`, `RefuseUpload` | authentication reads the client; `require_minimum_balance_for_upload` judges that reading |
| `InsertReceived` | the flushed INSERT, whose foreign key takes FOR KEY SHARE on the client |
| `CommitUpload`, `AnswerUpload` | `set_diagram`, commit; the counter and the 201 |
| `ReceiveInternal`, `JobNotFound`, `InvalidPatch` | the two internal endpoints up to their early answers |
| `LoadForPatch`, `CommitPatch`, `AnswerPatch` | `apply_status_patch`, the COMMIT, the 200 |
| `UpdateJob` | the flush of `session.commit`: the UPDATE of the job row by a PATCH or a completion, which locks the row until the COMMIT |
| `LoadForCompletion` | the job is loaded and its status tested, before any lock |
| `CommitNothing` | the early return for a job already ANALYZED |
| `LockClient` | SELECT ... FOR UPDATE of the client, then `Client.debited` |
| `RefuseCompletion`, `CommitCompletion`, `AnswerCompletion` | 402 after a rollback; the COMMIT; counters and the 200 |
| `Fail`, `Crash` | any error at any await (also after a commit took effect); death of the process |

`writer`, `keyShare` and `updater` are the row locks: who holds a client row FOR UPDATE,
who shares it, who has updated a job row and not committed. What an UPDATE writes appears
with its COMMIT, in one step; the row cannot change between the two, since the lock is held.

The history variables `debited`, `debits` and `reopened` exist for the
properties only. `Serialised` is a premise rather than code: with TRUE, a request
about a job is received only when no other about it is in progress. Nothing in
the code enforces it; it names the condition under which the atomic reading is
true, and every other concurrency (other jobs of the same client, uploads,
failures) remains.

### UploadApi

One request walks checking, created, saved, committed, published. Each external
call has a success and a failure action, and a failure may or may not have taken
effect (`SaveFails`, `CommitFails`, `PublishFails`; a failing INSERT, `CreateFails`, has none). `Start` picks the publisher
as `lifespan` does; `Crash` ends the process with its requests. `sent` is a
history of the messages RabbitMQ accepted. Locks and money are not repeated here.

### Worker

`ready`, `unacked`, `acked` and `dlq` are the broker; `pc`, `message` and `phase`
the worker. An action is one external call of `execute_diagram_job` or one
settlement of the loop. `asked` and `answered` record which API calls were sent
for a job and which were confirmed. `CallFails` covers 4xx, 5xx and the client's
timeout. `LoseChannel` is the broker giving up on a worker whose event loop is
blocked; the worker continues, and finds out when it settles (`SettleFails`), which
ends the process. `Poison` messages are bodies that do not parse.

### Analyzer

`script` holds the answers the provider will give, one per attempt the loop may
make: their kind, as far as the loop tells kinds apart, the usage they report and
how long they take. `slept` holds the seconds slept after each attempt. `Accept`, `Escape` and the four `Retry*` are the branches of an
attempt (`Call`), `GiveUp` the return after the loop. Because the script is fixed at
the start, `Verdict` can say without a loop what the result has to be.

### Pipeline

`API == INSTANCE JobApi` and `Work == INSTANCE Worker` keep their own variables
(the worker's `pc` is called `step` here), and each action of `Pipeline` joins an
action of one or both with what is between them: `waiting[w]`, the request a worker
waits for; `draft[w]`, the report in its hands; `object[j]`, the report object;
`view` and `got`, the client. Every call is a fresh request of `JobApi`, never
serialised with others.

| action | code |
|---|---|
| `Send` | the three calls of `InternalApiClient`; the body is built from the message and the report in hand |
| `Answered` | `raise_for_status` decides between the next step and the failure path; what a failed PATCH ERROR raises is logged |
| `TimesOut` | httpx gives up after 120 s; the request it made is still served |
| `Analyse`, `AnalysisFails` | some report or other is written to `reports/<job_id>.json`, over what was there |
| `Deliver` | `Worker`'s, with the histories below |
| `WorkerAlone` | start, settlement, lost channel, crash; a dying process drops its connection but not its request |
| `ApiAlone` | `JobApi`'s own steps, failures and crash |
| `Poll`, `AskReport`, `ReadReport` | `GET` of the job until ANALYZED or ERROR; `GET .../report` answers from the row (409, 425, 404) or goes on to fetch the object (200, or 500 for a key that is not there), with no lock in between |

`deliveries` counts the deliveries of each message; `overlapped` is the set of jobs
of which a message was delivered, or a call sent, while another execution or request
of the same job was in progress. Both are histories. A job starts with its row
RECEIVED and its message queued, which is where `UploadApi` ends. A request lost on its
way to the API is an outage like one that failed before its first statement.

## 3. Runs

| run | properties | bounds | shows |
|---|---|---|---|
| `JobApi_concurrent` | `TypeOK`, `BalanceConserved`, `AcknowledgedIsPaid`, `LocksResolve`, `EveryRequestAnswered` | 3 requests, 2 jobs (one not yet created), 1 client with 5 tokens, charges 2 and 6 | three requests are the least with which two overlap while a third changes what both read; a holder of each lock, a completion that holds one and waits for another while a third request waits for it, and a charge that is refused |
| `JobApi_serialised` | `OneDebitPerOpening`, `ActsAtomically` | 3 requests, 3 jobs, 2 clients, charges 2 and 3 | complete, reopen, complete again needs three requests on one job |
| `UploadApi_safety` | `TypeOK`, `SentIsReady`, `CreatedIsSent` | 3 uploads, 2 starts | a crash, a restart with the other publisher |
| `Analyzer_loop` | `TypeOK`, `ReturnsVerdict`, `BacksOffExponentially`, `Terminates` | `max_retries` from -1 to 2, 8 replies | no attempt, one, several; each branch first, in the middle and last |
| `Worker_faults` | `TypeOK`, `EachMessageInOnePlace`, `AckedIsCompleted`, `DeadLetteredIsReported`, `EveryMessageSettled` | 2 workers, 3 messages, 2 faults | a message redelivered to another worker while the first still works on it, and again to the first; two messages in hand at once |
| `Pipeline_faults` | `TypeOK`, `UndisturbedJobIsExact`, `NothingIsRetried`, `ChargedAtLeastOnce` | 1 job, 2 workers, 2 reports costing 1 and 2, 3 tokens, 1 fault, 1 outage; 3.2 million states | the message runs twice, beside or after itself, with different reports; a call is given up, fails or dies with the API; one execution can be paid after the other or not; a fault is the only thing that adds calls or debits |
| `Pipeline_reads` | `AnalyzedHasReport`, `EveryMessageSettled` | the same with a polling owner, 1 fault, no outage; 0.3 million states | the job is reopened, and its object overwritten, before, between and after the client's requests; no worker waits for ever on the API's locks |

`MaxStarts`, `MaxFaults` and `MaxOutages` bound how often the environment acts; the
requests of `Pipeline` are three for each delivery the faults allow, and
`RequestsSufficeHolds` proves that they never run out; every other bound is a set of constants. One fault is enough for one
redelivery, with which executions can overlap; the proofs below need no bound.
Requests and uploads are interchangeable, and so are the workers of `Pipeline_faults`;
runs that state only safety use that symmetry, no run with a liveness property does.
Deadlock is not checked: every model stops when its requests or messages are used up.

Five runs show the code disagreeing with what the repository says of it, each by
a counterexample:

| run | property | disagreement |
|---|---|---|
| `JobApi_metric` | `ConsumedIsDebited` | the "tokens debited" counter also counts completions that debited nothing |
| `UploadApi_noop` | `CreatedIsTaken` | an API started without its broker answers 201 and drops the message |
| `Analyzer_output` | `InvalidOutputFallsBack` | JSON that is not an object raises instead of falling back |
| `Worker_error` | `EveryJobConcluded` | when reporting ERROR fails as well, the job stays PROCESSING |
| `Pipeline_report` | `ReportAfterAnalyzed` | a client that was told ANALYZED is refused the report, because a redelivery reopened the job |

Three more observations are not runs, because no property of several steps says
more than the line itself. The timeout passed to the model is the constant 6000000 of
`execute_diagram_job` and not `AI_TIMEOUT_SECONDS`, which `src/README.md:344` documents.
An upload is admitted on the balance read when its client is authenticated, before the
handler reads the file; `BalanceConserved` holds all
the same, since the debit tests the balance again under the lock. Executions that
overlap can charge a job twice, leave an acked job PROCESSING, or leave a row whose
checksum is not that of the object: `UndisturbedJobIsExact` says that it takes such an
overlap, `ChargedAtLeastOnce` how many charges there can be.

### Fairness

* `JobApi`: weak fairness of `Proceed(r)` for each request. The event loop resumes
  what is ready, and PostgreSQL grants a free lock. Requests are finitely many
  here, so weak fairness suffices for a waiting one; with endless competition it
  would rest on PostgreSQL's lock queue. `Fail` and `Crash` are never required.
* `UploadApi`: weak fairness of each request's handler and of the worker taking a
  message. A restart of the API is not required.
* `Analyzer`: weak fairness of the loop. A call that never returns is a delay
  beyond the timeout, which the client cuts.
* `Worker`: weak fairness of starting, taking and handling. Calls end at the latest
  by their 120 s timeout. That a stopped worker is started again is an assumption about
  its operator: the compose file sets no restart policy.
* `Pipeline`: weak fairness of each request of the API, and of each worker's own
  steps, its starting and settling, and its taking a message, for the same reasons.
  A worker that waits does so for a request that proceeds; crashes, outages, lost
  channels and the client's polling are never required.

## 4. Proofs

All theorems hold for every value of the constants that satisfies the named
`ASSUME`s (sets of tokens and funds are natural numbers, `Owner` is a function from
jobs to clients, `Null` is none of the values it stands in for, and so on).

* **JobApiProofs.** `TypeInv` adds to `TypeOK` what each label implies about the
  request's call and rows. `LockInv` says who holds a client row: exactly the
  completions between the lock and the commit hold it for writing, inserted uploads
  share it, and a holder's `cash` is the current balance. This is the fact that makes
  the debit's read-modify-write safe; without it neither `balance \in Nat` nor
  `BalanceConserved` is inductive, since `CommitCompletion` writes a value computed
  from an earlier read. `PaidInv` says a completion past its test found, or made, a
  debit. From these: `TypeCorrect`, `BalanceConservedHolds`, `AcknowledgedIsPaidHolds`.
  `ShareInv` says that whoever shares a client row is storing its diagram, `UpdaterInv` that
  whoever has updated a job row is at its COMMIT. From these and `LockInv`, every wait
  is for a request that is going on and goes from a lower to a higher rank: an upload or
  completion asking for a client row, then a completion with the client row asking for the job
  row, then one that has updated the job row and asks for nothing (`LockOrder`,
  `OrderResolves`). So no requests wait in a circle, which with the first
  half is `LocksResolveHolds`: the locks neither leak nor deadlock. It is the safety half
  of `EveryRequestAnswered`.
  `SerialInv` says that with `Serialised` a loaded job row is still the stored one and `UploadInv`
  that an upload's job does not exist before its commit; with them
  `OneDebitPerOpeningHolds` and `ActsAtomicallyHolds`, the step simulation of `JobLedger`,
  follow.
* **UploadApiProofs.** An invariant of what each label has already done gives
  `SentIsReadyHolds` and `CreatedIsSentHolds`.
* **WorkerProofs.** `HandInv` says what each label implies about the message in hand, and
  that a channel holds no other message; with it `EachMessageInOnePlaceHolds`,
  `AckedIsCompletedHolds` and `DeadLetteredIsReportedHolds` are inductive.
* **AnalyzerProofs.** No reply so far was decisive (`Undecided`); so the reply that ends
  the loop is the first decisive one, and `ReturnsVerdictHolds`, for any number of
  retries. `SleptInv` says that the attempts behind the loop slept what their answers call
  for and those ahead not at all, which gives `BacksOffExponentiallyHolds` and, with the
  range of the exponents, `TypeCorrect`.
* **PipelineProofs.** Each step of the pipeline is a step of `Worker` or leaves its
  variables alone (`ImplementsWorker`), and a step of `JobApi` or leaves its variables
  alone (`ImplementsJobApi`, which needs the invariant that a worker's message, draft
  and call are of the right type). `StoreInv` says that nobody can have sent a
  completion of a job, nor loaded a completed row of it, before its object was written; objects
  are never removed, so `AnalyzedHasReportHolds` follows, whatever reopens the job while
  the client reads (`ViewInv`).
* **PipelineChargeProofs.** `ChargedAtLeastOnceHolds`, the refinement of `AtLeastOnce`. A bound on
  the debits is not inductive by itself; what is conserved is a count (`CountInv`): the debits of
  a job, the completions of it the API may still charge (`Owed`) and the workers that
  may still send one (`Ahead`) are together no more than its deliveries. `PaidInv` (a 200 to a
  completion follows a debit) and `WaitInv` (a worker that completes waits for a completion of its
  own job) give the charge before the ack; `PlaceInv`, a message is in one place, that a
  settled message is not delivered again.
* **PipelineExactProofs.** `UndisturbedJobIsExactHolds`. For a job whose executions and
  requests never overlapped, `UndisturbedInv` says there is at most one request in service and one
  worker on it (`AloneInv`); that the request has loaded the current row and carries the
  current report (`ServedInv`); and that the worker knows what became of its last
  request (`ExecutedInv`): a 200 to PATCH PROCESSING leaves the row not ANALYZED, so the report
  it then writes cannot belie the row, and a 200 to a completion leaves it ANALYZED. `Frame` shows
  that a step about other jobs disturbs nothing, `StepHere` and the `...Keeps` lemmas
  that a step about this one does not.

* **PipelineBoundProofs.** `NothingIsRetriedHolds`. A bound on the calls received is not
  inductive by itself, since a message in the queue is worth three more. What never grows
  without a fault is a sum (`SpentInv`, for every set of jobs): the calls received about
  the jobs, the calls PROCESSING, COMPLETE and ERROR that workers on them may still
  send (`ToStart`, `ToComplete`, `ToReport`), and three for each of their messages in the
  queue. A delivery turns three of the queue into one of each, a call moves
  one from the worker to the API, giving up on a call only loses one; a crash or a lost
  channel puts a message back, for which its fault pays. `RunsInv` bounds the deliveries
  in the same way, and with `CountInv` the debits. Applied to all the jobs, with
  `SentInv` (the requests received are the first sent), the sum shows `RequestsSufficeHolds`:
  the bound on the model's requests cuts off no behaviour. `TypeCorrect` types the
  whole composition, with `UpdaterType` for the job rows' locks; `BankInv`, which says of the pipeline's completions what `LockInv` says
  in `JobApiProofs`, gives that no balance becomes negative. `SpentInv`, `RunsInv`,
  `SentInv`, `BankInv` and `RequestsSuffice` were model-checked before they were proved, with one
  job and two workers, and with two jobs and one worker.

Every safety invariant the runs check and both refinements are proved. Only
model-checked are the liveness properties (`EveryRequestAnswered`, `EveryMessageSettled`,
`Terminates`): fairness and ENABLED are beyond the prover. The properties of the five
runs above that end in a counterexample are false, and not proved either.

## 5. Not modelled

The upload is not part of `Pipeline`: `UploadApi` and `JobApi` have it, and joining it
would multiply the states without a new interaction, since a job is not touched by
anyone before its message is queued. An outage of the store while the API reads, and the race of
the API and a worker to make the bucket at start-up, end in a 500 and in a process that
does not start. `GET token-balance` returns the row loaded to authenticate its
request. Authentication's hash comparison, prompt building and PDF conversion (pure functions),
metrics other than the token and status counters, logging, migrations, gateway,
dashboards and CI have no state the properties could be about. Timing is
modelled only where a duration decides a branch (the LLM timeout).

## 6. Plan

What was planned is built: the components, their composition, the read path and the
proofs. What could still be added:

1. `Pipeline` with two jobs of one client, as a run: the proofs cover it, TLC would need
   a reduction of the requests' interleavings.
2. The upload inside `Pipeline`, so that jobs appear while others are run; it would need the
   proofs of `PipelineProofs` to cover `JobApi`'s upload actions, which they exclude now.
3. `JobApi` under a lock queue instead of weak fairness for each request.
