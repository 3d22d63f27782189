------------------------------ MODULE UploadApi ------------------------------
(***************************************************************************)
(* POST /v1/analysis-jobs across the three stores it writes: the job row   *)
(* in PostgreSQL, the diagram in the object store and the message in       *)
(* RabbitMQ.  No transaction spans them, the API process may die between   *)
(* any two steps, and whether it publishes at all was decided when it      *)
(* started.  Locks and balances are in JobApi.                             *)
(***************************************************************************)
EXTENDS Naturals

CONSTANTS
  Uploads,   \* upload requests, each naming the job it creates
  MaxStarts  \* bound on the starts of the API process

ASSUME MaxStartsAssumption == MaxStarts \in Nat

VARIABLES
  publisher,  \* app.state.message_publisher: "rabbit", "noop", or "down"
              \* while no API process runs
  starts,     \* how often the process was started
  pc,         \* where each request is in its handler
  reply,      \* HTTP status of the answer; 0: none yet
  via,        \* the publisher a request was served with
  rows,       \* jobs with a committed row, RECEIVED with its diagram path
  objects,    \* jobs whose diagram is in the bucket
  queue,      \* jobs with a message in the main queue
  sent,       \* history: jobs whose message RabbitMQ accepted
  taken,      \* jobs whose message the worker received
  received    \* analysis_jobs_total{status="RECEIVED"}

process == <<publisher, starts>>
request == <<pc, reply, via>>
broker  == <<queue, sent, taken>>
vars == <<publisher, starts, pc, reply, via, rows, objects, queue, sent,
          taken, received>>

Refusals == {400, 401, 402, 413, 415}
Running == {r \in Uploads : pc[r] \notin {"new", "done"}}

Init ==
  /\ publisher = "down"
  /\ starts = 0
  /\ pc = [r \in Uploads |-> "new"]
  /\ reply = [r \in Uploads |-> 0]
  /\ via = [r \in Uploads |-> "none"]
  /\ rows = {}
  /\ objects = {}
  /\ queue = {}
  /\ sent = {}
  /\ taken = {}
  /\ received = 0

Goto(r, l) == pc' = [pc EXCEPT ![r] = l]
Respond(r, s) == Goto(r, "done") /\ reply' = [reply EXCEPT ![r] = s]

(* lifespan: a broker that cannot be reached at startup is replaced, for   *)
(* the life of the process, by a publisher that drops what it is given.    *)
Start ==
  /\ publisher = "down"
  /\ starts < MaxStarts
  /\ starts' = starts + 1
  /\ publisher' \in {"rabbit", "noop"}
  /\ received' = 0
  /\ UNCHANGED <<request, rows, objects, broker>>

(* Open transactions are rolled back; the callers see a broken connection. *)
Crash ==
  /\ publisher # "down"
  /\ publisher' = "down"
  /\ pc' = [r \in Uploads |-> IF r \in Running THEN "done" ELSE pc[r]]
  /\ reply' = [r \in Uploads |-> IF r \in Running THEN 500 ELSE reply[r]]
  /\ UNCHANGED <<starts, via, rows, objects, broker, received>>

-----------------------------------------------------------------------------
(* Dependencies are resolved: the publisher is wrapped for this request.   *)
Receive(r) ==
  /\ pc[r] = "new"
  /\ publisher # "down"
  /\ via' = [via EXCEPT ![r] = publisher]
  /\ Goto(r, "checking")
  /\ UNCHANGED <<process, reply, rows, objects, broker, received>>

(* No or unknown bearer, no file name, a media type or a size the policy   *)
(* does not allow, a balance under the estimate.                           *)
Refuse(r) ==
  /\ pc[r] = "checking"
  /\ \E code \in Refusals : Respond(r, code)
  /\ UNCHANGED <<process, via, rows, objects, broker, received>>

(* create_received: INSERT and flush, visible to this session only. *)
CreateReceived(r) ==
  /\ pc[r] = "checking"
  /\ Goto(r, "created")
  /\ UNCHANGED <<process, reply, via, rows, objects, broker, received>>

(* The INSERT raises; nothing has been written yet.                        *)
CreateFails(r) ==
  /\ pc[r] = "checking"
  /\ Respond(r, 500)
  /\ UNCHANGED <<process, via, rows, objects, broker, received>>

SaveDiagram(r) ==
  /\ pc[r] = "created"
  /\ objects' = objects \cup {r}
  /\ Goto(r, "saved")
  /\ UNCHANGED <<process, reply, via, rows, broker, received>>

(* The put raises, whether or not the object was written. *)
SaveFails(r) ==
  /\ pc[r] = "created"
  /\ objects' \in {objects, objects \cup {r}}
  /\ Respond(r, 500)
  /\ UNCHANGED <<process, via, rows, broker, received>>

(* Mutant of Commit: the commit is forgotten. *)
NoCommit(r) ==
  /\ pc[r] = "saved"
  /\ Goto(r, "committed")
  /\ UNCHANGED <<process, reply, via, rows, objects, broker, received>>

(* set_diagram and commit. *)
Commit(r) ==
  /\ pc[r] = "saved"
  /\ rows' = rows \cup {r}
  /\ Goto(r, "committed")
  /\ UNCHANGED <<process, reply, via, objects, broker, received>>

(* The commit raises, whether or not PostgreSQL had applied it. *)
CommitFails(r) ==
  /\ pc[r] = "saved"
  /\ rows' \in {rows, rows \cup {r}}
  /\ Respond(r, 500)
  /\ UNCHANGED <<process, via, objects, broker, received>>

(* Mutant of Enqueue: the message carries another identifier. *)
EnqueueOther(r) == queue' = queue \cup {0} /\ sent' = sent \cup {r}

Enqueue(r) == queue' = queue \cup {r} /\ sent' = sent \cup {r}

Publish(r) ==
  /\ pc[r] = "committed"
  /\ \/ via[r] = "rabbit" /\ Enqueue(r)
     \/ via[r] = "noop" /\ UNCHANGED <<queue, sent>>
  /\ Goto(r, "published")
  /\ UNCHANGED <<process, reply, via, rows, objects, taken, received>>

(* Mutant of PublishFails: the error is swallowed. *)
PublishErrorIgnored(r) ==
  /\ pc[r] = "committed"
  /\ via[r] = "rabbit"
  /\ Goto(r, "published")
  /\ UNCHANGED <<process, reply, via, rows, objects, broker, received>>

(* The publish raises, whether or not the broker had accepted the message; *)
(* the row stays committed.                                                *)
PublishFails(r) ==
  /\ pc[r] = "committed"
  /\ via[r] = "rabbit"
  /\ \/ UNCHANGED <<queue, sent>>
     \/ Enqueue(r)
  /\ Respond(r, 503)
  /\ UNCHANGED <<process, via, rows, objects, taken, received>>

Answer(r) ==
  /\ pc[r] = "published"
  /\ received' = received + 1
  /\ Respond(r, 201)
  /\ UNCHANGED <<process, via, rows, objects, broker>>

(* The worker receives the message of a job. *)
Take(r) ==
  /\ r \in queue
  /\ queue' = queue \ {r}
  /\ taken' = taken \cup {r}
  /\ UNCHANGED <<process, request, rows, objects, sent, received>>

Handle(r) ==
  \/ Refuse(r) \/ CreateReceived(r) \/ CreateFails(r)
  \/ SaveDiagram(r) \/ SaveFails(r) \/ Commit(r) \/ CommitFails(r)
  \/ Publish(r) \/ PublishFails(r) \/ Answer(r)

Next ==
  \/ Start
  \/ Crash
  \/ \E r \in Uploads : Receive(r) \/ Handle(r) \/ Take(r)

Spec == Init /\ [][Next]_vars

(* The event loop serves every request, and the worker every message.      *)
FairSpec ==
  /\ Spec
  /\ \A r \in Uploads : WF_vars(Handle(r)) /\ WF_vars(Take(r))

-----------------------------------------------------------------------------
(* Every variable has its type. *)
TypeOK ==
  /\ publisher \in {"down", "rabbit", "noop"}
  /\ starts \in 0..MaxStarts
  /\ pc \in [Uploads -> {"new", "checking", "created", "saved", "committed",
                         "published", "done"}]
  /\ reply \in [Uploads -> {0, 201, 500, 503} \cup Refusals]
  /\ via \in [Uploads -> {"none", "rabbit", "noop"}]
  /\ rows \subseteq Uploads /\ objects \subseteq Uploads
  /\ queue \subseteq Uploads /\ sent \subseteq Uploads
  /\ taken \subseteq Uploads
  /\ received \in Nat

(* When a message reaches the worker, whatever became of the request that  *)
(* sent it, the row its first PATCH needs is committed and the diagram it  *)
(* will read is stored (the order store, commit, publish in                *)
(* create_analysis_job).                                                   *)
SentIsReady == \A r \in sent : r \in rows /\ r \in objects

(* A job whose message was never accepted was not reported as created,     *)
(* unless the process had started without a broker (MessagingFailedError   *)
(* becomes 503).                                                           *)
CreatedIsSent ==
  \A r \in Uploads : reply[r] = 201 => r \in rows /\ (r \in sent \/ via[r] = "noop")

(* README: "Processing is asynchronous (queue + worker). Poll until        *)
(* ANALYZED or ERROR": a job answered 201 is eventually taken by the       *)
(* worker.                                                                 *)
CreatedIsTaken == \A r \in Uploads : reply[r] = 201 ~> r \in taken
=============================================================================
