------------------------------- MODULE Worker -------------------------------
(***************************************************************************)
(* The worker processes: consume_loop, which takes one message at a time   *)
(* and settles it, and execute_diagram_job, which runs it through the      *)
(* pipeline.  The API is here only as a call that is answered or not;      *)
(* whether an unanswered call took effect does not matter to the worker.   *)
(*                                                                         *)
(* Reading the diagram, analysing it and writing the report block the      *)
(* event loop, so the broker may give up on the connection meanwhile: it   *)
(* then offers the message to another worker, and settling it on the dead  *)
(* channel raises out of the loop and ends the process.                    *)
(***************************************************************************)
EXTENDS Naturals

CONSTANTS
  Workers,    \* worker processes
  Messages,   \* messages the API published, one per job
  Poison,     \* bodies that are no AnalyzeDiagramJobV1 with a UUID
  MaxFaults,  \* bound on crashes and lost channels
  Null        \* no message

ASSUME PoisonAssumption == Poison \subseteq Messages
ASSUME MaxFaultsAssumption == MaxFaults \in Nat
ASSUME NullAssumption == Null \notin Messages

Calls == {"PROCESSING", "COMPLETE", "ERROR"}

(* JobStateMachine: the phases, and what fail() makes of one. *)
Phases == {"PENDING", "PROCESSING", "COMPLETED", "FAILED"}
Failing(p) == IF p = "COMPLETED" THEN p ELSE "FAILED"

VARIABLES
  ready,     \* messages in the main queue
  unacked,   \* the message each worker's channel has been delivered
  acked,     \* messages settled by an ack
  dlq,       \* messages in the dead-letter queue
  pc,        \* where each worker is; "down": no process
  message,   \* the message in hand
  phase,     \* JobStateMachine.phase
  asked,     \* history: API calls made for each message
  answered,  \* history: API calls answered 2xx
  stored,    \* messages whose report object was written
  faults     \* crashes and lost channels so far

broker == <<ready, unacked, acked, dlq>>
effects == <<asked, answered, stored>>
vars == <<ready, unacked, acked, dlq, pc, message, phase, asked, answered,
          stored, faults>>

Init ==
  /\ ready = Messages
  /\ unacked = [w \in Workers |-> Null]
  /\ acked = {}
  /\ dlq = {}
  /\ pc = [w \in Workers |-> "down"]
  /\ message = [w \in Workers |-> Null]
  /\ phase = [w \in Workers |-> "PENDING"]
  /\ asked = [m \in Messages |-> {}]
  /\ answered = [m \in Messages |-> {}]
  /\ stored = {}
  /\ faults = 0

Goto(w, l) == pc' = [pc EXCEPT ![w] = l]
Note(calls, w, call) == [calls EXCEPT ![message[w]] = @ \cup {call}]

(* Somebody starts the process: bucket, connection, prefetch 1, topology.  *)
Start(w) ==
  /\ pc[w] = "down"
  /\ Goto(w, "idle")
  /\ UNCHANGED <<broker, message, phase, effects, faults>>

(* Mutant of Deliver: the consumer does not acknowledge (no_ack).          *)
DeliverAndForget(w, m) ==
  /\ pc[w] = "idle"
  /\ m \in ready
  /\ ready' = ready \ {m}
  /\ message' = [message EXCEPT ![w] = m]
  /\ phase' = [phase EXCEPT ![w] = IF m \in Poison THEN "PENDING"
                                                   ELSE "PROCESSING"]
  /\ Goto(w, IF m \in Poison THEN "rejecting" ELSE "patching")
  /\ UNCHANGED <<unacked, acked, dlq, effects, faults>>

(* A message arrives and is parsed; a body that does not parse has no job  *)
(* to report on and is rejected.                                           *)
Deliver(w, m) ==
  /\ pc[w] = "idle"
  /\ m \in ready
  /\ ready' = ready \ {m}
  /\ unacked' = [unacked EXCEPT ![w] = m]
  /\ message' = [message EXCEPT ![w] = m]
  /\ phase' = [phase EXCEPT ![w] = IF m \in Poison THEN "PENDING"
                                                   ELSE "PROCESSING"]
  /\ Goto(w, IF m \in Poison THEN "rejecting" ELSE "patching")
  /\ UNCHANGED <<acked, dlq, effects, faults>>

(* Mutant of Fail: the failure is not reported to the API. *)
FailSilently(w) ==
  /\ Goto(w, "rejecting")
  /\ phase' = [phase EXCEPT ![w] = "FAILED"]

(* The except clause of execute_diagram_job, up to its PATCH. *)
Fail(w) ==
  /\ Goto(w, "reporting")
  /\ phase' = [phase EXCEPT ![w] = Failing(@)]

-----------------------------------------------------------------------------
(* execute_diagram_job *)
PatchProcessing(w) ==
  /\ pc[w] = "patching"
  /\ asked' = Note(asked, w, "PROCESSING")
  /\ answered' = Note(answered, w, "PROCESSING")
  /\ Goto(w, "analysing")
  /\ UNCHANGED <<broker, message, phase, stored, faults>>

(* No diagram path, no diagram, a PDF that cannot be read, output the      *)
(* analyser does not catch, or an object store that fails, with or without *)
(* the report written.                                                     *)
AnalysisFails(w) ==
  /\ pc[w] = "analysing"
  /\ stored' \in {stored, stored \cup {message[w]}}
  /\ Fail(w)
  /\ UNCHANGED <<broker, message, asked, answered, faults>>

(* The diagram is read, analysed, and its report written. *)
Analyse(w) ==
  /\ pc[w] = "analysing"
  /\ stored' = stored \cup {message[w]}
  /\ Goto(w, "completing")
  /\ UNCHANGED <<broker, message, phase, asked, answered, faults>>

Complete(w) ==
  /\ pc[w] = "completing"
  /\ asked' = Note(asked, w, "COMPLETE")
  /\ answered' = Note(answered, w, "COMPLETE")
  /\ phase' = [phase EXCEPT ![w] = "COMPLETED"]
  /\ Goto(w, "acking")
  /\ UNCHANGED <<broker, message, stored, faults>>

(* Mutant of CallFails: completion errors are swallowed. *)
CompletionErrorIgnored(w) ==
  /\ pc[w] \in {"patching", "completing"}
  /\ asked' = Note(asked, w, IF pc[w] = "patching" THEN "PROCESSING"
                                                   ELSE "COMPLETE")
  /\ IF pc[w] = "patching" THEN Fail(w) ELSE Goto(w, "acking") /\ phase' = phase
  /\ UNCHANGED <<broker, message, answered, stored, faults>>

(* The API answers 4xx or 5xx, or not within 120 seconds. *)
CallFails(w) ==
  /\ pc[w] \in {"patching", "completing"}
  /\ asked' = Note(asked, w, IF pc[w] = "patching" THEN "PROCESSING"
                                                   ELSE "COMPLETE")
  /\ Fail(w)
  /\ UNCHANGED <<broker, message, answered, stored, faults>>

(* Mutant of ReportError: the phase of the worker's own state machine is   *)
(* sent where the API's status belongs.                                    *)
ReportPhase(w) ==
  /\ pc[w] = "reporting"
  /\ asked' = Note(asked, w, phase[w])
  /\ Goto(w, "rejecting")
  /\ UNCHANGED <<broker, message, phase, answered, stored, faults>>

(* PATCH ERROR; that it may fail is only logged. *)
ReportError(w) ==
  /\ pc[w] = "reporting"
  /\ asked' = Note(asked, w, "ERROR")
  /\ answered' \in {answered, Note(answered, w, "ERROR")}
  /\ Goto(w, "rejecting")
  /\ UNCHANGED <<broker, message, phase, stored, faults>>

-----------------------------------------------------------------------------
(* consume_loop settles the message; on a channel that is gone, that       *)
(* raises, and the process ends.                                           *)
Ack(w) ==
  /\ pc[w] = "acking"
  /\ unacked[w] = message[w]
  /\ unacked' = [unacked EXCEPT ![w] = Null]
  /\ acked' = acked \cup {message[w]}
  /\ Goto(w, "idle")
  /\ UNCHANGED <<ready, dlq, message, phase, effects, faults>>

(* Mutant of Reject: requeue=True. *)
Requeue(w) ==
  /\ pc[w] = "rejecting"
  /\ unacked[w] = message[w]
  /\ unacked' = [unacked EXCEPT ![w] = Null]
  /\ ready' = ready \cup {message[w]}
  /\ Goto(w, "idle")
  /\ UNCHANGED <<acked, dlq, message, phase, effects, faults>>

(* reject(requeue=False): the queue's dead-letter exchange takes it. *)
Reject(w) ==
  /\ pc[w] = "rejecting"
  /\ unacked[w] = message[w]
  /\ unacked' = [unacked EXCEPT ![w] = Null]
  /\ dlq' = dlq \cup {message[w]}
  /\ Goto(w, "idle")
  /\ UNCHANGED <<ready, acked, message, phase, effects, faults>>

SettleFails(w) ==
  /\ pc[w] \in {"acking", "rejecting"}
  /\ unacked[w] # message[w]
  /\ Goto(w, "down")
  /\ UNCHANGED <<broker, message, phase, effects, faults>>

(* The broker closes a channel and queues its message again. *)
Requeued(w) ==
  /\ ready' = ready \cup ({unacked[w]} \ {Null})
  /\ unacked' = [unacked EXCEPT ![w] = Null]
  /\ UNCHANGED <<acked, dlq>>

LoseChannel(w) ==
  /\ faults < MaxFaults
  /\ unacked[w] # Null
  /\ Requeued(w)
  /\ faults' = faults + 1
  /\ UNCHANGED <<pc, message, phase, effects>>

Crash(w) ==
  /\ faults < MaxFaults
  /\ pc[w] # "down"
  /\ Requeued(w)
  /\ Goto(w, "down")
  /\ faults' = faults + 1
  /\ UNCHANGED <<message, phase, effects>>

Handle(w) ==
  \/ PatchProcessing(w) \/ AnalysisFails(w) \/ Analyse(w) \/ Complete(w)
  \/ CallFails(w) \/ ReportError(w)
  \/ Ack(w) \/ Reject(w) \/ SettleFails(w)

Next ==
  \E w \in Workers :
    \/ Start(w)
    \/ \E m \in Messages : Deliver(w, m)
    \/ Handle(w)
    \/ LoseChannel(w)
    \/ Crash(w)

Spec == Init /\ [][Next]_vars

(* A running worker takes what is in the queue and goes on with what it    *)
(* has; every call ends, if only by its timeout.  That a dead worker is    *)
(* started again is up to whoever operates it: the compose file sets no    *)
(* restart policy.                                                         *)
FairSpec ==
  /\ Spec
  /\ \A w \in Workers :
       /\ WF_vars(Start(w))
       /\ WF_vars(Handle(w))
       /\ WF_vars(\E m \in Messages : Deliver(w, m))

-----------------------------------------------------------------------------
(* Every variable has its type. *)
TypeOK ==
  /\ ready \subseteq Messages /\ acked \subseteq Messages
  /\ dlq \subseteq Messages /\ stored \subseteq Messages
  /\ unacked \in [Workers -> Messages \cup {Null}]
  /\ pc \in [Workers -> {"down", "idle", "patching", "analysing",
                         "completing", "reporting", "acking", "rejecting"}]
  /\ message \in [Workers -> Messages \cup {Null}]
  /\ phase \in [Workers -> Phases]
  /\ asked \in [Messages -> SUBSET Calls]
  /\ answered \in [Messages -> SUBSET Calls]
  /\ faults \in 0..MaxFaults

(* However workers crash and channels drop, a message is in one place: the *)
(* queue, one worker's hands, done, or the dead-letter queue; none is lost *)
(* and none settled twice (prefetch 1, explicit ack and reject).           *)
EachMessageInOnePlace ==
  /\ ready \cap acked = {} /\ ready \cap dlq = {} /\ acked \cap dlq = {}
  /\ \A m \in Messages :
       m \in ready \cup acked \cup dlq <=> \A w \in Workers : unacked[w] # m
  /\ \A v, w \in Workers : unacked[v] = unacked[w] /\ v # w => unacked[v] = Null

(* A message leaves the queue for good as a success only if the API        *)
(* answered its completion, after the report was stored.                   *)
AckedIsCompleted ==
  \A m \in acked : "COMPLETE" \in answered[m] /\ m \in stored

(* A dead-lettered job was reported: the worker sent PATCH ERROR for it,   *)
(* unless the body named no job.                                           *)
DeadLetteredIsReported ==
  \A m \in dlq \ Poison : "ERROR" \in asked[m]

(* Every message is settled in the end. *)
EveryMessageSettled == \A m \in Messages : <>(m \in acked \cup dlq)

(* README: "Poll until ANALYZED or ERROR": for every job that reaches the   *)
(* worker, the API confirms one or the other in the end.                   *)
EveryJobConcluded ==
  \A m \in Messages \ Poison : <>(answered[m] \cap {"COMPLETE", "ERROR"} # {})
=============================================================================
