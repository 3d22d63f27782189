------------------------ MODULE PipelineBoundProofs ------------------------
(***************************************************************************)
(* What bounds the work of the pipeline, for every number of workers,      *)
(* jobs, faults and outages.  The argument counts again: the calls about a *)
(* set of jobs, the calls their workers may still make and three for each  *)
(* of their messages in the queue are together no more than three for each *)
(* job and each fault (SpentInv).  The types of the variables come with    *)
(* it, since no counter leaves its range.                                  *)
(***************************************************************************)
EXTENDS PipelineChargeProofs

Holding == {"refusing", "debiting"}

(* Who holds a client row has its current balance, and can pay when it     *)
(* debits; nobody uploads here, so nobody shares a row.                    *)
HoldsRow(r) ==
  /\ \A c \in Clients :
       writer[c] = r => pc[r] \in Holding /\ API!client(r) = c
  /\ pc[r] \in Holding =>
       writer[API!client(r)] = r /\ cash[r] = balance[API!client(r)]
  /\ pc[r] = "debiting" => call[r].tokens <= cash[r]

BankInv ==
  /\ balance \in [Clients -> Nat]
  /\ cash \in [Requests -> Nat]
  /\ writer \in [Clients -> Requests \cup {Null}]
  /\ keyShare = [c \in Clients |-> {}]
  /\ \A r \in Requests : HoldsRow(r)

CounterInv ==
  /\ reply \in [Requests -> {Null, 200, 201, 400, 402, 404, 500}]
  /\ counted \in [API!Status -> Nat]
  /\ consumed \in [Clients -> Nat]
  /\ debited \in [Clients -> Nat]
  /\ reopened \in [Jobs -> Nat]

UpdaterType == updater \in [Jobs -> Requests \cup {Null}]

(* A request that a step leaves alone still holds what it held, and one    *)
(* that is past its transaction holds nothing.                             *)
LEMMA StillHolds ==
  ASSUME NEW r \in Requests, HoldsRow(r),
         pc'[r] = pc[r], call'[r] = call[r], cash'[r] = cash[r],
         \A c \in Clients : writer'[c] = r <=> writer[c] = r,
         pc[r] \in Holding =>
           /\ API!client(r) \in Clients
           /\ balance'[API!client(r)] = balance[API!client(r)]
  PROVE  HoldsRow(r)'
BY DEF HoldsRow, API!client

LEMMA HoldsNothing ==
  ASSUME NEW r \in Requests, pc'[r] \notin Holding,
         \A c \in Clients : writer'[c] # r
  PROVE  HoldsRow(r)'
BY DEF HoldsRow, Holding

LEMMA BankNext == CallInv /\ HandInv /\ BankInv /\ ApiStep => BankInv'
<1> SUFFICES ASSUME CallInv, HandInv, BankInv, ApiStep PROVE BankInv'
  OBVIOUS
<1>0. /\ pc \in [Requests -> API!Labels]
      /\ call \in [Requests -> API!Calls \cup {Null}]
      /\ \A r \in Requests :
           /\ pc[r] \notin {"admitting", "storing"}
           /\ pc[r] # "new" => API!client(r) \in Clients
           /\ pc[r] \in {"locking", "debiting"} => call[r].tokens \in Nat
           /\ pc[r] \notin Holding => \A c \in Clients : writer[c] # r
  BY CallTypes, OwnerAssumption
  DEF CallInv, SeenBy, API!client, BankInv, HoldsRow
<1>a. /\ balance \in [Clients -> Nat] /\ cash \in [Requests -> Nat]
      /\ writer \in [Clients -> Requests \cup {Null}]
      /\ keyShare = [c \in Clients |-> {}]
      /\ \A r \in Requests : HoldsRow(r) /\ r # Null
  BY RequestsFinite, NullAssumption DEF BankInv
(* One request moves on between labels that hold nothing. *)
<1>1. ASSUME NEW r \in Requests, pc[r] \notin Holding,
             UNCHANGED <<balance, writer, keyShare, cash>>,
             NEW l \in API!Labels \ Holding, pc' = [pc EXCEPT ![r] = l],
             \A q \in Requests : q # r => call'[q] = call[q]
      PROVE  BankInv'
  <2>1. ASSUME NEW q \in Requests PROVE HoldsRow(q)'
    <3>1. CASE q = r
      BY <1>0, <1>1, <3>1, HoldsNothing
    <3>2. CASE q # r
      <4>1. /\ pc'[q] = pc[q] /\ call'[q] = call[q] /\ cash'[q] = cash[q]
            /\ pc[q] \in Holding => API!client(q) \in Clients
        BY <1>0, <1>1, <3>2 DEF Holding
      <4> QED
        BY <1>a, <1>1, <4>1, StillHolds
    <3> QED
      BY <3>1, <3>2
  <2> QED
    BY <1>a, <1>1, <2>1 DEF BankInv
<1>2. ASSUME NEW w \in Workers, NEW body \in Bodies(w), sent + 1 \in Requests,
             API!ReceiveInternal(sent + 1, body)
      PROVE  BankInv'
  <2>1. /\ UNCHANGED <<balance, writer, keyShare, cash>>
        /\ pc[sent + 1] \notin Holding
        /\ pc' = [pc EXCEPT ![sent + 1] = "loading"]
        /\ \A q \in Requests : q # sent + 1 => call'[q] = call[q]
    BY <1>0, <1>2 DEF API!ReceiveInternal, API!Goto, API!database, API!locks,
         API!session, Holding
  <2>2. "loading" \in API!Labels \ Holding
    BY DEF API!Labels, Holding
  <2> QED
    BY <1>1, <1>2, <2>1, <2>2
<1>3. ASSUME NEW r \in Requests,
             \/ API!JobNotFound(r) \/ API!InvalidPatch(r)
             \/ API!LoadForPatch(r) \/ API!LoadForCompletion(r)
             \/ API!CommitNothing(r)
             \/ API!AnswerPatch(r) \/ API!AnswerCompletion(r)
      PROVE  BankInv'
  <2>1. /\ UNCHANGED <<balance, writer, keyShare, cash, call>>
        /\ pc[r] \notin Holding
        /\ \E l \in API!Labels \ Holding : pc' = [pc EXCEPT ![r] = l]
    BY <1>3 DEF API!JobNotFound, API!InvalidPatch, API!LoadForPatch,
         API!LoadForCompletion, API!CommitNothing,
         API!AnswerPatch, API!AnswerCompletion, API!Goto, API!Respond,
         API!Labels, API!database, API!locks, API!session, Holding
  <2> QED
    BY <1>1, <2>1
<1>4. ASSUME NEW r \in Requests, API!LockClient(r) PROVE BankInv'
  <2> DEFINE c == API!client(r)
  <2>1. pc[r] = "locking"
    BY <1>4 DEF API!LockClient
  <2>2. c \in Clients /\ call[r].tokens \in Nat /\ balance[c] \in Nat
    BY <1>0, <1>a, <2>1
  <2>3. /\ UNCHANGED <<balance, keyShare, call>> /\ writer[c] = Null
        /\ writer' = [writer EXCEPT ![c] = r]
        /\ cash' = [cash EXCEPT ![r] = balance[c]]
    BY <1>4 DEF API!LockClient, API!ClientRowFree, API!database
  <2>4. \/ pc' = [pc EXCEPT ![r] = "refusing"]
        \/ /\ pc' = [pc EXCEPT ![r] = "debiting"]
           /\ ~ API!CannotPay(balance[c], call[r].tokens)
    BY <1>4 DEF API!LockClient, API!Goto
  <2>5. ~ API!CannotPay(balance[c], call[r].tokens)
          => call[r].tokens <= balance[c]
    BY <2>2 DEF API!CannotPay
  <2>6. HoldsRow(r)'
    <3>1. c' = c
      BY <2>3 DEF API!client
    <3>2. writer'[c] = r /\ \A d \in Clients : writer'[d] = r => d = c
      BY <1>0, <1>a, <2>1, <2>2, <2>3 DEF Holding
    <3>3. cash'[r] = balance'[c] /\ pc'[r] \in Holding
      BY <1>0, <1>a, <2>3, <2>4 DEF Holding
    <3>4. pc'[r] = "debiting" => call'[r].tokens <= cash'[r]
      BY <1>0, <1>a, <2>3, <2>4, <2>5
    <3> QED
      BY <3>1, <3>2, <3>3, <3>4 DEF HoldsRow
  <2>7. ASSUME NEW q \in Requests, q # r PROVE HoldsRow(q)'
    <3>1. /\ pc'[q] = pc[q] /\ call'[q] = call[q] /\ cash'[q] = cash[q]
          /\ \A d \in Clients : writer'[d] = q <=> writer[d] = q
      BY <1>0, <1>a, <2>2, <2>3, <2>4, <2>7
    <3>2. pc[q] \in Holding => API!client(q) \in Clients
      BY <1>0 DEF Holding
    <3> QED
      BY <1>a, <2>3, <3>1, <3>2, StillHolds
  <2>8. /\ writer' \in [Clients -> Requests \cup {Null}]
        /\ cash' \in [Requests -> Nat]
    BY <1>a, <2>2, <2>3
  <2> QED
    BY <1>a, <2>3, <2>6, <2>7, <2>8 DEF BankInv
(* The transaction of one request ends, and with it what it held. *)
<1>5. ASSUME NEW r \in Requests, UNCHANGED <<cash, call>>, API!ReleaseLocks(r),
             NEW l \in API!Labels \ Holding, pc' = [pc EXCEPT ![r] = l],
             balance' \in [Clients -> Nat],
             \A q \in Requests : q # r /\ pc[q] \in Holding =>
               balance'[API!client(q)] = balance[API!client(q)]
      PROVE  BankInv'
  <2>1. /\ writer' = [c \in Clients |-> IF writer[c] = r THEN Null ELSE writer[c]]
        /\ keyShare' = [c \in Clients |-> keyShare[c] \ {r}]
    BY <1>5 DEF API!ReleaseLocks
  <2>2. /\ writer' \in [Clients -> Requests \cup {Null}]
        /\ keyShare' = [c \in Clients |-> {}]
    BY <1>a, <2>1
  <2>3. HoldsRow(r)'
    <3>1. pc'[r] \notin Holding /\ \A c \in Clients : writer'[c] # r
      BY <1>0, <1>a, <1>5, <2>1
    <3> QED
      BY <3>1, HoldsNothing
  <2>4. ASSUME NEW q \in Requests, q # r PROVE HoldsRow(q)'
    <3>1. /\ pc'[q] = pc[q] /\ call'[q] = call[q] /\ cash'[q] = cash[q]
          /\ \A c \in Clients : writer'[c] = q <=> writer[c] = q
      BY <1>0, <1>a, <1>5, <2>1, <2>4
    <3>2. pc[q] \in Holding =>
            /\ API!client(q) \in Clients
            /\ balance'[API!client(q)] = balance[API!client(q)]
      BY <1>0, <1>5, <2>4 DEF Holding
    <3> QED
      BY <1>a, <3>1, <3>2, StillHolds
  <2> QED
    BY <1>a, <1>5, <2>2, <2>3, <2>4 DEF BankInv
<1>6. ASSUME NEW r \in Requests, API!RefuseCompletion(r) \/ API!Fail(r)
      PROVE  BankInv'
  <2>1. /\ UNCHANGED <<balance, cash, call>> /\ API!ReleaseLocks(r)
        /\ pc' = [pc EXCEPT ![r] = "done"]
    BY <1>6 DEF API!RefuseCompletion, API!Fail, API!Respond, API!Goto,
         API!database, API!session
  <2>2. "done" \in API!Labels \ Holding
    BY DEF API!Labels, Holding
  <2> QED
    BY <1>a, <1>5, <2>1, <2>2
<1>7. ASSUME NEW r \in Requests, API!CommitPatch(r) PROVE BankInv'
  <2>1. /\ UNCHANGED <<balance, cash, call>> /\ API!ReleaseLocks(r)
        /\ pc' = [pc EXCEPT ![r] = "committed"]
    BY <1>7 DEF API!CommitPatch, API!Goto, API!session
  <2>2. "committed" \in API!Labels \ Holding
    BY DEF API!Labels, Holding
  <2> QED
    BY <1>a, <1>5, <2>1, <2>2
<1>8. ASSUME NEW r \in Requests, API!CommitCompletion(r) PROVE BankInv'
  <2> DEFINE c == API!client(r)
  <2>1. /\ pc[r] = "debiting" /\ pc' = [pc EXCEPT ![r] = "committed"]
        /\ UNCHANGED <<cash, call>> /\ API!ReleaseLocks(r)
        /\ balance' = [balance EXCEPT ![c] = cash[r] - call[r].tokens]
    BY <1>8 DEF API!CommitCompletion, API!Goto, API!session
  <2>2. /\ c \in Clients /\ call[r].tokens \in Nat /\ cash[r] \in Nat
        /\ writer[c] = r /\ call[r].tokens <= cash[r]
    BY <1>0, <1>a, <2>1 DEF HoldsRow, Holding
  <2>3. balance' \in [Clients -> Nat]
    BY <1>a, <2>1, <2>2
  <2>4. ASSUME NEW q \in Requests, q # r, pc[q] \in Holding
        PROVE  balance'[API!client(q)] = balance[API!client(q)]
    <3>1. writer[API!client(q)] = q /\ API!client(q) \in Clients
      BY <1>0, <1>a, <2>4 DEF HoldsRow, Holding
    <3>2. API!client(q) # c
      BY <2>2, <2>4, <3>1
    <3> QED
      BY <1>a, <2>1, <3>1, <3>2
  <2>5. "committed" \in API!Labels \ Holding
    BY DEF API!Labels, Holding
  <2> QED
    BY <1>5, <2>1, <2>3, <2>4, <2>5
<1>9. ASSUME NEW r \in Requests,
             \/ API!RefuseUpload(r) \/ API!InsertReceived(r)
             \/ API!CommitUpload(r) \/ API!AnswerUpload(r)
      PROVE  FALSE
  BY <1>9, CallTypes
  DEF CallInv, API!RefuseUpload, API!InsertReceived, API!CommitUpload,
      API!AnswerUpload
<1>10. ASSUME API!Crash PROVE BankInv'
  <2>1. /\ UNCHANGED <<balance, cash, call>>
        /\ writer' = [c \in Clients |-> Null]
        /\ keyShare' = [c \in Clients |-> {}]
        /\ \A r \in Requests : pc'[r] \notin Holding
    BY <1>10 DEF API!Crash, API!Active, API!database, API!session, Holding
  <2>2. \A r \in Requests : HoldsRow(r)'
    BY <1>a, <2>1, HoldsNothing
  <2> QED
    BY <1>a, <2>1, <2>2 DEF BankInv
<1>11. CASE \/ UNCHANGED api
            \/ \E r \in Requests : API!UpdateJob(r)
  <2>1. UNCHANGED <<balance, cash, writer, keyShare, pc, call>>
    BY <1>11 DEF api, API!UpdateJob, API!database, API!session
  <2>2. \A r \in Requests : HoldsRow(r)'
    BY <1>0, <1>a, <2>1, StillHolds DEF Holding
  <2> QED
    BY <1>a, <2>1, <2>2 DEF BankInv
<1> QED
  BY <1>2, <1>3, <1>4, <1>6, <1>7, <1>8, <1>9, <1>10, <1>11
  DEF ApiStep, API!Proceed

LEMMA CounterNext == CallInv /\ CounterInv /\ ApiStep => CounterInv'
<1> SUFFICES ASSUME CallInv, CounterInv, ApiStep PROVE CounterInv'
  OBVIOUS
<1> USE CallTypes, OwnerAssumption
    DEF CallInv, CounterInv, SeenBy, API!Labels, API!Status, API!Respond,
        API!client, API!metrics, API!history
<1>1. ASSUME UNCHANGED <<reply, counted, consumed, debited, reopened>>
      PROVE  CounterInv'
  BY <1>1
<1>2. ASSUME NEW r \in Requests,
             \/ API!JobNotFound(r) \/ API!InvalidPatch(r)
             \/ API!RefuseCompletion(r) \/ API!AnswerPatch(r) \/ API!Fail(r)
      PROVE  CounterInv'
  BY <1>2 DEF API!JobNotFound, API!InvalidPatch, API!RefuseCompletion,
       API!AnswerPatch, API!Fail
<1>3. ASSUME NEW r \in Requests, API!LoadForPatch(r) PROVE CounterInv'
  BY <1>3 DEF API!LoadForPatch
<1>4. ASSUME NEW r \in Requests, API!CommitPatch(r) PROVE CounterInv'
  <2>1. \/ reopened' = reopened
        \/ reopened' = [reopened EXCEPT ![call[r].job] = @ + 1]
    BY <1>4 DEF API!CommitPatch
  <2> QED
    BY <1>4, <2>1 DEF API!CommitPatch
<1>5. ASSUME NEW r \in Requests, API!CommitCompletion(r) PROVE CounterInv'
  <2>1. call[r].tokens \in Nat
    BY <1>5 DEF API!CommitCompletion
  <2> QED
    BY <1>5, <2>1 DEF API!CommitCompletion
<1>6. ASSUME NEW r \in Requests, API!AnswerCompletion(r) PROVE CounterInv'
  <2>1. call[r].tokens \in Nat
    BY <1>6 DEF API!AnswerCompletion, API!Patches
  <2> QED
    BY <1>6, <2>1 DEF API!AnswerCompletion
<1>7. ASSUME NEW r \in Requests,
             \/ API!LoadForCompletion(r) \/ API!CommitNothing(r)
             \/ API!LockClient(r)
      PROVE  CounterInv'
  BY <1>7 DEF API!LoadForCompletion, API!CommitNothing, API!LockClient
<1>8. ASSUME NEW r \in Requests,
             \/ API!RefuseUpload(r) \/ API!InsertReceived(r)
             \/ API!CommitUpload(r) \/ API!AnswerUpload(r)
      PROVE  FALSE
  BY <1>8 DEF API!RefuseUpload, API!InsertReceived, API!CommitUpload,
              API!AnswerUpload
<1>9. ASSUME API!Crash PROVE CounterInv'
  BY <1>9 DEF API!Crash
<1>10. ASSUME NEW w \in Workers, NEW body \in Bodies(w), sent + 1 \in Requests,
              API!ReceiveInternal(sent + 1, body)
       PROVE  CounterInv'
  BY <1>10 DEF API!ReceiveInternal
<1>11. ASSUME NEW r \in Requests, API!UpdateJob(r) PROVE CounterInv'
  BY <1>11 DEF API!UpdateJob
<1>12. CASE UNCHANGED api
  BY <1>12 DEF api
<1> QED
  BY <1>2, <1>3, <1>4, <1>5, <1>6, <1>7, <1>8, <1>9, <1>10, <1>11, <1>12
  DEF ApiStep, API!Proceed

LEMMA UpdaterTypeNext == CallInv /\ UpdaterType /\ ApiStep => UpdaterType'
<1> SUFFICES ASSUME CallInv, UpdaterType, ApiStep PROVE UpdaterType'
  OBVIOUS
<1> USE DEF UpdaterType
<1>1. ASSUME NEW r \in Requests, API!ReleaseLocks(r) PROVE UpdaterType'
  BY <1>1 DEF API!ReleaseLocks
<1>2. ASSUME NEW r \in Requests, API!UpdateJob(r) PROVE UpdaterType'
  BY <1>2 DEF API!UpdateJob
<1>3. ASSUME NEW r \in Requests, API!Proceed(r) \/ API!Fail(r)
      PROVE  API!UpdateJob(r) \/ API!ReleaseLocks(r) \/ UNCHANGED updater
  BY <1>3 DEF API!Proceed, API!JobNotFound, API!InvalidPatch,
       API!LoadForPatch, API!CommitPatch, API!LoadForCompletion,
       API!CommitNothing, API!LockClient, API!RefuseCompletion,
       API!CommitCompletion, API!AnswerPatch, API!AnswerCompletion,
       API!Fail, API!RefuseUpload, API!InsertReceived, API!CommitUpload,
       API!AnswerUpload, API!locks
<1>4. ASSUME API!Crash PROVE UpdaterType'
  BY <1>4 DEF API!Crash
<1>5. ASSUME \/ UNCHANGED api
             \/ \E w \in Workers : \E body \in Bodies(w) :
                  API!ReceiveInternal(sent + 1, body)
      PROVE  UNCHANGED updater
  BY <1>5 DEF api, API!ReceiveInternal, API!locks
<1> QED
  BY <1>1, <1>2, <1>3, <1>4, <1>5 DEF ApiStep

-----------------------------------------------------------------------------
(* The types of the other variables that no earlier invariant has given.   *)
WorkInv ==
  /\ acked \subseteq Jobs /\ dlq \subseteq Jobs
  /\ phase \in [Workers -> Work!Phases]
  /\ asked \in [Jobs -> SUBSET Work!Calls]
  /\ answered \in [Jobs -> SUBSET Work!Calls]
  /\ faults \in 0..MaxFaults

(* The steps of a worker that are its own: a channel that is closed counts *)
(* as a fault and puts its message back; nothing else fills the queue.     *)
Faulty(w) ==
  /\ faults < MaxFaults /\ faults' = faults + 1
  /\ ready' = ready \cup ({unacked[w]} \ {Null})

LEMMA AloneIsFaulty ==
  ASSUME NEW w \in Workers, WorkerAlone(w)
  PROVE  UNCHANGED <<faults, ready>> \/ Faulty(w)
<1>1. CASE \/ Work!Start(w) \/ Work!Ack(w) \/ Work!Reject(w)
           \/ Work!SettleFails(w)
  BY <1>1 DEF Work!Start, Work!Ack, Work!Reject, Work!SettleFails, Work!broker
<1>2. CASE Work!LoseChannel(w)
  BY <1>2 DEF Work!LoseChannel, Work!Requeued, Faulty
<1>3. CASE Work!Crash(w)
  BY <1>3 DEF Work!Crash, Work!Requeued, Faulty
<1> QED
  BY <1>1, <1>2, <1>3 DEF WorkerAlone

LEMMA WorkNext ==
  HandInv /\ WaitInv /\ WorkInv /\ [Next]_vars => WorkInv'
<1> SUFFICES ASSUME HandInv, WaitInv, WorkInv, [Next]_vars PROVE WorkInv'
  OBVIOUS
<1> USE MaxFaultsAssumption
    DEF HandInv, HandLabels, Calling, WaitInv, WorkInv, Work!Phases,
        Work!Calls, Work!Fail, Work!Failing, Work!Note, Work!broker,
        Work!Requeued, work
<1>1. ASSUME NEW w \in Workers, Send(w) PROVE WorkInv'
  BY <1>1 DEF Send
<1>2. ASSUME NEW w \in Workers,
             \/ Work!PatchProcessing(w) \/ Work!Complete(w)
             \/ Work!CallFails(w) \/ Work!ReportError(w)
      PROVE  WorkInv'
  BY <1>2 DEF Work!PatchProcessing, Work!Complete, Work!CallFails,
              Work!ReportError
<1>3. ASSUME NEW w \in Workers, Answered(w) \/ TimesOut(w) PROVE WorkInv'
  BY <1>2, <1>3 DEF Answered, TimesOut
<1>4. ASSUME NEW w \in Workers, Analyse(w) \/ AnalysisFails(w) PROVE WorkInv'
  BY <1>4 DEF Analyse, AnalysisFails, Work!Analyse, Work!AnalysisFails
<1>5. ASSUME NEW w \in Workers, WorkerAlone(w) PROVE WorkInv'
  <2>1. UNCHANGED <<phase, asked, answered>>
    BY <1>5 DEF WorkerAlone, Work!Start, Work!Ack, Work!Reject,
                Work!SettleFails, Work!LoseChannel, Work!Crash, Work!effects
  <2>2. acked' \subseteq Jobs /\ dlq' \subseteq Jobs
    BY <1>5 DEF WorkerAlone, Work!Start, Work!Ack, Work!Reject,
                Work!SettleFails, Work!LoseChannel, Work!Crash
  <2>3. faults' = faults \/ (faults < MaxFaults /\ faults' = faults + 1)
    BY <1>5, AloneIsFaulty DEF Faulty
  <2> QED
    BY <2>1, <2>2, <2>3
<1>6. ASSUME NEW w \in Workers, NEW j \in Jobs, Deliver(w, j) PROVE WorkInv'
  <2>1. /\ UNCHANGED <<acked, dlq, asked, answered, faults>>
        /\ phase' = [phase EXCEPT ![w] = "PROCESSING"]
    BY <1>6 DEF Deliver, Work!Deliver, Work!effects
  <2> QED
    BY <2>1
<1>7. ASSUME ApiAlone PROVE WorkInv'
  BY <1>7 DEF ApiAlone
<1>8. ASSUME NEW j \in Watched, Poll(j) \/ AskReport(j) \/ ReadReport(j)
      PROVE  WorkInv'
  BY <1>8 DEF Poll, AskReport, ReadReport
<1>9. CASE UNCHANGED vars
  BY <1>9 DEF vars
<1> QED
  BY <1>1, <1>3, <1>4, <1>5, <1>6, <1>7, <1>8, <1>9 DEF Next, WorkerStep

PastInv ==
  /\ outages \in 0..MaxOutages
  /\ got \in [Jobs -> Reports \cup {Null}]
  /\ overlapped \subseteq Jobs

LEMMA PastNext == HandInv /\ PastInv /\ [Next]_vars => PastInv'
<1> SUFFICES ASSUME HandInv, PastInv, [Next]_vars PROVE PastInv'
  OBVIOUS
<1> USE MaxOutagesAssumption, WatchedAssumption
    DEF HandInv, Calling, PastInv, owner, past
<1>1. ASSUME NEW w \in Workers, Send(w) PROVE PastInv'
  <2>1. message[w] \in Jobs
    BY <1>1 DEF Send, Bodies
  <2> QED
    BY <1>1, <2>1 DEF Send
<1>2. ASSUME NEW w \in Workers,
             \/ Answered(w) \/ Analyse(w) \/ AnalysisFails(w)
             \/ WorkerAlone(w)
      PROVE  PastInv'
  BY <1>2 DEF Answered, Analyse, AnalysisFails, WorkerAlone
<1>3. ASSUME NEW w \in Workers, TimesOut(w) PROVE PastInv'
  BY <1>3 DEF TimesOut
<1>4. ASSUME NEW w \in Workers, NEW j \in Jobs, Deliver(w, j) PROVE PastInv'
  BY <1>4 DEF Deliver
<1>5. ASSUME ApiAlone PROVE PastInv'
  BY <1>5 DEF ApiAlone
<1>6. ASSUME NEW j \in Watched, Poll(j) \/ AskReport(j) \/ ReadReport(j)
      PROVE  PastInv'
  BY <1>6 DEF Poll, AskReport, ReadReport
<1>7. CASE UNCHANGED vars
  BY <1>7 DEF vars
<1> QED
  BY <1>1, <1>2, <1>3, <1>4, <1>5, <1>6, <1>7 DEF Next, WorkerStep

-----------------------------------------------------------------------------
(* Requests are sent one after the other, so the ones received so far are  *)
(* the first sent.                                                         *)
SentInv ==
  /\ sent \in 0..Cardinality(Requests)
  /\ \A r \in Requests : pc[r] = "new" <=> r > sent

LEMMA RequestsCount ==
  /\ Cardinality(Jobs) \in Nat
  /\ Cardinality(Requests) = 3 * (Cardinality(Jobs) + MaxFaults)
  /\ Cardinality(Requests) \in Nat
  /\ Requests = 1..Cardinality(Requests)
<1> DEFINE n == 3 * (Cardinality(Jobs) + MaxFaults)
<1>1. Cardinality(Jobs) \in Nat
  BY FiniteAssumption, FS_CardinalityType
<1>2. n \in Nat
  BY <1>1, MaxFaultsAssumption
<1> HIDE DEF n
<1>3. Cardinality(1..n) = n
  BY <1>2, FS_Interval
<1> QED
  BY <1>1, <1>2, <1>3 DEF n, Requests

(* What a step of the API other than a receipt does to the labels.         *)
LEMMA Received ==
  ASSUME CallInv,
         \/ \E r \in Requests : API!Proceed(r) \/ API!Fail(r)
         \/ API!Crash
         \/ UNCHANGED api
  PROVE  /\ UNCHANGED call
         /\ \A r \in Requests : pc'[r] = "new" <=> pc[r] = "new"
<1> DEFINE Kind == /\ UNCHANGED call
                   /\ \A r \in Requests : pc'[r] = "new" <=> pc[r] = "new"
<1> USE DEF CallInv, API!Labels, API!Goto, API!Respond
<1>1. ASSUME NEW r \in Requests, API!Proceed(r) \/ API!Fail(r),
             ~ API!UpdateJob(r)
      PROVE  Kind
  <2>1. /\ UNCHANGED call /\ pc[r] # "new"
        /\ \E l \in API!Labels \ {"new"} : pc' = [pc EXCEPT ![r] = l]
    BY <1>1 DEF API!Proceed, API!JobNotFound, API!InvalidPatch,
         API!LoadForPatch, API!CommitPatch, API!LoadForCompletion,
         API!CommitNothing, API!LockClient, API!RefuseCompletion,
         API!CommitCompletion, API!AnswerPatch, API!AnswerCompletion,
         API!Fail, API!Active, API!RefuseUpload, API!InsertReceived,
         API!CommitUpload, API!AnswerUpload, API!session
  <2> QED
    BY <2>1
<1>2. ASSUME API!Crash PROVE Kind
  BY <1>2 DEF API!Crash, API!Active
<1>3. ASSUME UNCHANGED api \/ \E r \in Requests : API!UpdateJob(r) PROVE Kind
  BY <1>3 DEF api, API!UpdateJob
<1> QED
  BY <1>1, <1>2, <1>3

(* Which steps the API takes when no worker sends a call. *)
LEMMA OnlySendsCall ==
  ASSUME [Next]_vars, \A w \in Workers : ~ Send(w)
  PROVE  /\ UNCHANGED sent
         /\ \/ \E r \in Requests : API!Proceed(r) \/ API!Fail(r)
            \/ API!Crash
            \/ UNCHANGED api
BY DEF Next, WorkerStep, Answered, Analyse, AnalysisFails, TimesOut,
       WorkerAlone, Deliver, ApiAlone, Poll, AskReport, ReadReport, vars

LEMMA SentNext == CallInv /\ SentInv /\ [Next]_vars => SentInv'
<1> SUFFICES ASSUME CallInv, SentInv, [Next]_vars PROVE SentInv'
  OBVIOUS
<1>1. ASSUME NEW w \in Workers, Send(w) PROVE SentInv'
  <2>1. /\ sent + 1 \in Requests /\ sent' = sent + 1
        /\ pc' = [pc EXCEPT ![sent + 1] = "loading"]
    BY <1>1 DEF Send, API!ReceiveInternal, API!Goto
  <2>2. sent' \in 0..Cardinality(Requests)
    BY <2>1, RequestsCount DEF SentInv
  <2>3. \A r \in Requests : pc'[r] = "new" <=> r > sent'
    BY <2>1, RequestsFinite DEF SentInv, CallInv
  <2> QED
    BY <2>2, <2>3 DEF SentInv
<1>2. CASE \A w \in Workers : ~ Send(w)
  BY <1>2, OnlySendsCall, Received DEF SentInv
<1> QED
  BY <1>1, <1>2

-----------------------------------------------------------------------------
(* A message is delivered once, and once more for each fault. *)
RunsInv ==
  \A j \in Jobs : deliveries[j] + (IF j \in ready THEN 1 ELSE 0) <= 1 + faults

(* What a step does to the queue and the faults. *)
QueueStep ==
  \/ UNCHANGED <<ready, deliveries, faults>>
  \/ \E w \in Workers : Faulty(w) /\ UNCHANGED deliveries
  \/ \E w \in Workers, j \in Jobs :
       /\ Deliver(w, j)
       /\ j \in ready /\ ready' = ready \ {j}
       /\ deliveries' = [deliveries EXCEPT ![j] = @ + 1]
       /\ UNCHANGED faults

LEMMA QueueStepHolds == [Next]_vars => QueueStep
<1> SUFFICES ASSUME [Next]_vars PROVE QueueStep
  OBVIOUS
<1> USE DEF Work!broker, work, past
<1>1. ASSUME NEW w \in Workers, WorkerStep(w) \/ TimesOut(w) PROVE QueueStep
  <2>1. UNCHANGED <<ready, deliveries, faults>>
    BY <1>1 DEF WorkerStep, Send, Answered, Analyse, AnalysisFails, TimesOut,
         Work!PatchProcessing, Work!Complete, Work!CallFails,
         Work!ReportError, Work!Analyse, Work!AnalysisFails
  <2> QED
    BY <2>1 DEF QueueStep
<1>2. ASSUME NEW w \in Workers, WorkerAlone(w) PROVE QueueStep
  <2>1. UNCHANGED deliveries
    BY <1>2 DEF WorkerAlone
  <2> QED
    BY <1>2, <2>1, AloneIsFaulty DEF QueueStep
<1>3. ASSUME NEW w \in Workers, NEW j \in Jobs, Deliver(w, j) PROVE QueueStep
  BY <1>3 DEF Deliver, Work!Deliver, QueueStep
<1>4. ASSUME ApiAlone \/ UNCHANGED vars PROVE QueueStep
  BY <1>4 DEF ApiAlone, vars, QueueStep
<1>5. ASSUME NEW j \in Watched, Poll(j) \/ AskReport(j) \/ ReadReport(j)
      PROVE  QueueStep
  BY <1>5 DEF Poll, AskReport, ReadReport, QueueStep
<1> QED
  BY <1>1, <1>2, <1>3, <1>4, <1>5 DEF Next

LEMMA RunsNext ==
  faults \in Nat /\ deliveries \in [Jobs -> Nat] /\ RunsInv /\ QueueStep
    => RunsInv'
<1> SUFFICES ASSUME faults \in Nat, deliveries \in [Jobs -> Nat], RunsInv,
                    QueueStep, NEW j \in Jobs
             PROVE  deliveries'[j] + (IF j \in ready' THEN 1 ELSE 0)
                      <= 1 + faults'
  BY DEF RunsInv
<1>1. /\ deliveries[j] \in Nat
      /\ deliveries[j] + (IF j \in ready THEN 1 ELSE 0) <= 1 + faults
  BY DEF RunsInv
<1>2. CASE UNCHANGED <<ready, deliveries, faults>>
  BY <1>1, <1>2
<1>3. CASE \E w \in Workers : Faulty(w) /\ UNCHANGED deliveries
  BY <1>1, <1>3 DEF Faulty
<1>4. ASSUME NEW i \in Jobs, i \in ready, ready' = ready \ {i},
             deliveries' = [deliveries EXCEPT ![i] = @ + 1], UNCHANGED faults
      PROVE  deliveries'[j] + (IF j \in ready' THEN 1 ELSE 0) <= 1 + faults'
  BY <1>1, <1>4
<1> QED
  BY <1>2, <1>3, <1>4 DEF QueueStep

-----------------------------------------------------------------------------
(* Workers on the jobs js that may still send the call PROCESSING,         *)
(* COMPLETE and ERROR of the execution they are in.                        *)
ToStart(js) ==
  {w \in Workers : /\ message[w] \in js
                   /\ step[w] = "patching" /\ waiting[w] = Null}
ToComplete(js) ==
  {w \in Workers : /\ message[w] \in js
                   /\ \/ step[w] \in {"patching", "analysing"}
                      \/ step[w] = "completing" /\ waiting[w] = Null}
ToReport(js) ==
  {w \in Workers : /\ message[w] \in js
                   /\ \/ step[w] \in {"patching", "analysing", "completing"}
                      \/ step[w] = "reporting" /\ waiting[w] = Null}

Spent(js) ==
  Cardinality(CallsAbout(js)) + Cardinality(ToStart(js))
    + Cardinality(ToComplete(js)) + Cardinality(ToReport(js))
    + 3 * Cardinality(ready \cap js)

SpentInv == \A js \in SUBSET Jobs : Spent(js) <= 3 * (Cardinality(js) + faults)

(* With a call in hand, the worker is in one of the three sets, and the    *)
(* next request is there to be sent.                                       *)
RequestsSuffice ==
  \A w \in Workers :
    waiting[w] = Null /\ Bodies(w) # {}
      => sent + 1 \in Requests /\ pc[sent + 1] = "new"

LEMMA NoMore ==
  ASSUME NEW S, NEW T, IsFiniteSet(S), T \subseteq S
  PROVE  Cardinality(T) \in Nat /\ Cardinality(T) <= Cardinality(S)
BY FS_Subset, FS_CardinalityType

LEMMA ToDoFinite ==
  ASSUME NEW js \in SUBSET Jobs
  PROVE  /\ IsFiniteSet(CallsAbout(js)) /\ Cardinality(CallsAbout(js)) \in Nat
         /\ IsFiniteSet(ToStart(js)) /\ Cardinality(ToStart(js)) \in Nat
         /\ IsFiniteSet(ToComplete(js)) /\ Cardinality(ToComplete(js)) \in Nat
         /\ IsFiniteSet(ToReport(js)) /\ Cardinality(ToReport(js)) \in Nat
         /\ IsFiniteSet(ready \cap js) /\ Cardinality(ready \cap js) \in Nat
         /\ Cardinality(js) \in Nat
<1>1. /\ CallsAbout(js) \subseteq Requests /\ ToStart(js) \subseteq Workers
      /\ ToComplete(js) \subseteq Workers /\ ToReport(js) \subseteq Workers
      /\ ready \cap js \subseteq Jobs
  BY DEF CallsAbout, ToStart, ToComplete, ToReport
<1> QED
  BY <1>1, RequestsFinite, FiniteAssumption, FS_Subset, FS_CardinalityType

(* Only a delivery gives a worker calls to make about the jobs js. *)
Fewer(js) ==
  /\ ToStart(js)' \subseteq ToStart(js)
  /\ ToComplete(js)' \subseteq ToComplete(js)
  /\ ToReport(js)' \subseteq ToReport(js)

LEMMA ToDoNext ==
  ASSUME HandInv, WaitInv, NEW js \in SUBSET Jobs, [Next]_vars,
         \A w \in Workers, j \in js : ~ Deliver(w, j)
  PROVE  Fewer(js)
<1> USE NullAssumption
    DEF HandInv, HandLabels, WaitInv, Fewer, ToStart, ToComplete, ToReport,
        Work!Goto, Work!Fail, Work!broker, work
<1>1. ASSUME NEW w \in Workers, Send(w) PROVE Fewer(js)
  BY <1>1 DEF Send
<1>2. ASSUME NEW w \in Workers, Answered(w) PROVE Fewer(js)
  BY <1>2 DEF Answered, Work!PatchProcessing, Work!Complete, Work!CallFails,
              Work!ReportError
<1>3. ASSUME NEW w \in Workers, TimesOut(w) PROVE Fewer(js)
  BY <1>3 DEF TimesOut, Work!CallFails, Work!ReportError
<1>4. ASSUME NEW w \in Workers, Analyse(w) \/ AnalysisFails(w) PROVE Fewer(js)
  BY <1>4 DEF Analyse, AnalysisFails, Work!Analyse, Work!AnalysisFails
<1>5. ASSUME NEW w \in Workers, WorkerAlone(w) PROVE Fewer(js)
  BY <1>5 DEF WorkerAlone, Work!Start, Work!Ack, Work!Reject,
              Work!SettleFails, Work!LoseChannel, Work!Crash
<1>6. ASSUME NEW w \in Workers, NEW i \in Jobs \ js, Deliver(w, i)
      PROVE  Fewer(js)
  BY <1>6 DEF Deliver, Work!Deliver
<1>7. ASSUME ApiAlone PROVE Fewer(js)
  BY <1>7 DEF ApiAlone
<1>8. ASSUME NEW i \in Watched, Poll(i) \/ AskReport(i) \/ ReadReport(i)
      PROVE  Fewer(js)
  BY <1>8 DEF Poll, AskReport, ReadReport
<1>9. CASE UNCHANGED vars
  BY <1>9 DEF vars
<1> QED
  BY <1>1, <1>2, <1>3, <1>4, <1>5, <1>6, <1>7, <1>8, <1>9 DEF Next, WorkerStep

(* A call that is sent leaves the set it was in. *)
LEMMA SendSpends ==
  ASSUME HandInv, CallInv, WaitInv, NEW js \in SUBSET Jobs, Fewer(js),
         NEW w \in Workers, Send(w)
  PROVE  \/ CallsAbout(js)' \subseteq CallsAbout(js)
         \/ /\ CallsAbout(js)' \subseteq CallsAbout(js) \cup {sent + 1}
            /\ \/ w \in ToStart(js) /\ ToStart(js)' \subseteq ToStart(js) \ {w}
               \/ /\ w \in ToComplete(js)
                  /\ ToComplete(js)' \subseteq ToComplete(js) \ {w}
               \/ w \in ToReport(js) /\ ToReport(js)' \subseteq ToReport(js) \ {w}
<1>1. PICK body \in Bodies(w) :
        sent + 1 \in Requests /\ API!ReceiveInternal(sent + 1, body)
  BY DEF Send
<1>2. /\ call' = [call EXCEPT ![sent + 1] = body]
      /\ pc' = [pc EXCEPT ![sent + 1] = "loading"]
  BY <1>1 DEF API!ReceiveInternal, API!Goto
<1>3. /\ body.job = message[w] /\ waiting[w] = Null
      /\ step[w] \in {"patching", "completing", "reporting"}
  BY <1>1 DEF Send, Bodies
<1>4. /\ waiting' = [waiting EXCEPT ![w] = sent + 1]
      /\ UNCHANGED <<step, message>>
      /\ sent + 1 # Null
  BY <1>1, RequestsFinite, NullAssumption DEF Send, work
<1>5. CASE message[w] \notin js
  <2>1. CallsAbout(js)' \subseteq CallsAbout(js)
    BY <1>1, <1>2, <1>3, <1>5 DEF CallsAbout, CallInv
  <2> QED
    BY <2>1
<1>6. CASE message[w] \in js
  <2>1. CallsAbout(js)' \subseteq CallsAbout(js) \cup {sent + 1}
    BY <1>1, <1>2 DEF CallsAbout, CallInv
  <2>2. CASE step[w] = "patching"
    <3>1. w \in ToStart(js) /\ ToStart(js)' \subseteq ToStart(js) \ {w}
      BY <1>3, <1>4, <1>6, <2>2 DEF ToStart, WaitInv
    <3> QED
      BY <2>1, <3>1
  <2>3. CASE step[w] = "completing"
    <3>1. /\ w \in ToComplete(js)
          /\ ToComplete(js)' \subseteq ToComplete(js) \ {w}
      BY <1>3, <1>4, <1>6, <2>3 DEF ToComplete, WaitInv
    <3> QED
      BY <2>1, <3>1
  <2>4. CASE step[w] = "reporting"
    <3>1. w \in ToReport(js) /\ ToReport(js)' \subseteq ToReport(js) \ {w}
      BY <1>3, <1>4, <1>6, <2>4 DEF ToReport, WaitInv
    <3> QED
      BY <2>1, <3>1
  <2> QED
    BY <1>3, <2>2, <2>3, <2>4
<1> QED
  BY <1>5, <1>6

(* The sum of Spent for one set of jobs, by what the step is. *)
LEMMA SpentNext ==
  ASSUME HandInv, CallInv, WaitInv, SpentInv, faults \in Nat, [Next]_vars,
         NEW js \in SUBSET Jobs
  PROVE  Spent(js)' <= 3 * (Cardinality(js) + faults')
<1> DEFINE calls == Cardinality(CallsAbout(js))
           start == Cardinality(ToStart(js))
           done  == Cardinality(ToComplete(js))
           error == Cardinality(ToReport(js))
           queue == Cardinality(ready \cap js)
           size  == Cardinality(js)
<1>1. /\ calls \in Nat /\ start \in Nat /\ done \in Nat /\ error \in Nat
      /\ queue \in Nat /\ size \in Nat
  BY ToDoFinite
<1>2. calls + start + done + error + 3 * queue <= 3 * (size + faults)
  BY DEF SpentInv, Spent
<1>3. QueueStep
  BY QueueStepHolds
<1>4. CASE \E w \in Workers, j \in js : Deliver(w, j)
  <2>1. PICK w \in Workers, j \in js : Deliver(w, j)
    BY <1>4
  <2>2. /\ j \in ready /\ ready' = ready \ {j}
        /\ UNCHANGED <<faults, waiting>> /\ UNCHANGED api
        /\ message' = [message EXCEPT ![w] = j]
        /\ step' = [step EXCEPT ![w] = "patching"]
    BY <2>1 DEF Deliver, Work!Deliver, Work!Goto
  <2>3. /\ ToStart(js)' \subseteq ToStart(js) \cup {w}
        /\ ToComplete(js)' \subseteq ToComplete(js) \cup {w}
        /\ ToReport(js)' \subseteq ToReport(js) \cup {w}
    BY <2>2 DEF ToStart, ToComplete, ToReport, HandInv
  <2>4. CallsAbout(js)' = CallsAbout(js)
    BY <2>2 DEF CallsAbout, api
  <2>5. /\ start' \in Nat /\ start' <= start + 1
        /\ done' \in Nat /\ done' <= done + 1
        /\ error' \in Nat /\ error' <= error + 1
    BY <2>3, ToDoFinite, OneMore
  <2>6. queue' \in Nat /\ queue' <= queue - 1
    <3>1. j \in ready \cap js /\ ready' \cap js \subseteq (ready \cap js) \ {j}
      BY <2>2
    <3> QED
      BY <3>1, ToDoFinite, OneFewer
  <2>7. calls' = calls /\ faults' = faults
    BY <2>2, <2>4
  <2>8. calls' + start' + done' + error' + 3 * queue' <= 3 * (size + faults')
    BY <1>1, <1>2, <2>5, <2>6, <2>7
  <2> QED
    BY <2>8 DEF Spent, calls, start, done, error, queue, size
<1>5. CASE \A w \in Workers, j \in js : ~ Deliver(w, j)
  <2>1. Fewer(js)
    BY <1>5, ToDoNext
  <2>2. /\ start' \in Nat /\ start' <= start
        /\ done' \in Nat /\ done' <= done
        /\ error' \in Nat /\ error' <= error
    BY <2>1, ToDoFinite, NoMore DEF Fewer
  <2>3. /\ faults' \in Nat /\ queue' \in Nat
        /\ queue' - faults' <= queue - faults
    <3>1. CASE UNCHANGED faults /\ ready' \cap js \subseteq ready \cap js
      <4>1. queue' \in Nat /\ queue' <= queue
        BY <3>1, ToDoFinite, NoMore
      <4> QED
        BY <1>1, <3>1, <4>1
    <3>2. CASE \E w \in Workers : Faulty(w)
      <4>1. PICK w \in Workers : Faulty(w)
        BY <3>2
      <4>2. ready' \cap js \subseteq (ready \cap js) \cup {unacked[w]}
            /\ faults' = faults + 1
        BY <4>1 DEF Faulty
      <4>3. queue' \in Nat /\ queue' <= queue + 1
        BY <4>2, ToDoFinite, OneMore
      <4> QED
        BY <1>1, <4>2, <4>3
    <3>3. \/ UNCHANGED faults /\ ready' \cap js \subseteq ready \cap js
          \/ \E w \in Workers : Faulty(w)
      BY <1>3 DEF QueueStep
    <3> QED
      BY <3>1, <3>2, <3>3
  <2>4. CASE \E w \in Workers : Send(w)
    <3>1. PICK w \in Workers : Send(w)
      BY <2>4
    <3>2. UNCHANGED <<ready, faults>>
      BY <3>1 DEF Send, work
    <3>3. queue' = queue /\ faults' = faults
      BY <3>2
    <3>4. CASE CallsAbout(js)' \subseteq CallsAbout(js)
      <4>1. calls' \in Nat /\ calls' <= calls
        BY <3>4, ToDoFinite, NoMore
      <4>2. calls' + start' + done' + error' + 3 * queue' <= 3 * (size + faults')
        BY <1>1, <1>2, <2>2, <3>3, <4>1
      <4> QED
        BY <4>2 DEF Spent, calls, start, done, error, queue, size
    <3>5. CASE ~ (CallsAbout(js)' \subseteq CallsAbout(js))
      <4>1. calls' \in Nat /\ calls' <= calls + 1
        BY <2>1, <3>1, <3>5, SendSpends, ToDoFinite, OneMore
      <4>2. start' <= start - 1 \/ done' <= done - 1 \/ error' <= error - 1
        BY <2>1, <3>1, <3>5, SendSpends, ToDoFinite, OneFewer
      <4>3. calls' + start' + done' + error' + 3 * queue' <= 3 * (size + faults')
        BY <1>1, <1>2, <2>2, <3>3, <4>1, <4>2
      <4> QED
        BY <4>3 DEF Spent, calls, start, done, error, queue, size
    <3> QED
      BY <3>4, <3>5
  <2>5. CASE \A w \in Workers : ~ Send(w)
    <3>1. CallsAbout(js)' = CallsAbout(js)
      BY <2>5, OnlySendsCall, Received DEF CallsAbout
    <3>2. calls' = calls
      BY <3>1
    <3>3. calls' + start' + done' + error' + 3 * queue' <= 3 * (size + faults')
      BY <1>1, <1>2, <2>2, <2>3, <3>2
    <3> QED
      BY <3>3 DEF Spent, calls, start, done, error, queue, size
  <2> QED
    BY <2>4, <2>5
<1> QED
  BY <1>4, <1>5

-----------------------------------------------------------------------------
BoundInv ==
  /\ ChargeInv /\ BankInv /\ CounterInv /\ UpdaterType
  /\ WorkInv /\ PastInv /\ SentInv /\ RunsInv /\ SpentInv

LEMMA BoundInit == Init => BoundInv
<1> SUFFICES ASSUME Init PROVE BoundInv
  OBVIOUS
<1> USE NullAssumption DEF Init, Work!Init, API!Init
<1>1. ChargeInv
  BY ChargeInitHolds
<1>2. BankInv /\ CounterInv /\ UpdaterType
  <2>1. ASSUME NEW r \in Requests PROVE HoldsRow(r)
    <3>1. pc[r] \notin Holding /\ r # Null /\ \A c \in Clients : writer[c] = Null
      BY RequestsFinite DEF Holding
    <3> QED
      BY <3>1 DEF HoldsRow, Holding
  <2>2. BankInv
    BY <2>1, FundsAssumption, RequestsFinite DEF BankInv
  <2>3. CounterInv
    BY FundsAssumption DEF CounterInv, API!Status
  <2>4. UpdaterType
    BY DEF UpdaterType
  <2> QED
    BY <2>2, <2>3, <2>4
<1>3. WorkInv /\ PastInv
  BY MaxFaultsAssumption, MaxOutagesAssumption
  DEF WorkInv, PastInv, Work!Phases
<1>4. SentInv
  <2>1. Cardinality(Requests) \in Nat
    BY RequestsCount
  <2>2. \A r \in Requests : r > 0
    BY RequestsCount
  <2> QED
    BY <2>1, <2>2 DEF SentInv
<1>5. RunsInv
  BY DEF RunsInv
<1>6. SpentInv
  <2> SUFFICES ASSUME NEW js \in SUBSET Jobs
               PROVE  Spent(js) <= 3 * (Cardinality(js) + faults)
    BY DEF SpentInv
  <2>1. /\ CallsAbout(js) = {} /\ ToStart(js) = {} /\ ToComplete(js) = {}
        /\ ToReport(js) = {} /\ ready \cap js = js
    BY DEF CallsAbout, ToStart, ToComplete, ToReport
  <2>2. /\ Cardinality(CallsAbout(js)) = 0 /\ Cardinality(ToStart(js)) = 0
        /\ Cardinality(ToComplete(js)) = 0 /\ Cardinality(ToReport(js)) = 0
        /\ Cardinality(ready \cap js) = Cardinality(js)
    BY <2>1, FS_EmptySet
  <2>3. Cardinality(js) \in Nat /\ faults = 0
    BY ToDoFinite
  <2> QED
    BY <2>2, <2>3 DEF Spent
<1> QED
  BY <1>1, <1>2, <1>3, <1>4, <1>5, <1>6 DEF BoundInv

LEMMA BoundStep == BoundInv /\ [Next]_vars => BoundInv'
<1> SUFFICES ASSUME BoundInv, [Next]_vars PROVE BoundInv'
  OBVIOUS
<1>1. ChargeInv'
  BY ChargeStepHolds DEF BoundInv
<1>2. /\ HandInv /\ CallInv /\ WaitInv
      /\ deliveries \in [Jobs -> Nat] /\ faults \in Nat
  BY MaxFaultsAssumption DEF BoundInv, ChargeInv, IInv, CountInv, WorkInv
<1>3. BankInv' /\ CounterInv' /\ UpdaterType'
  BY <1>2, ApiStepHolds, BankNext, CounterNext, UpdaterTypeNext DEF BoundInv
<1>4. WorkInv' /\ PastInv' /\ SentInv'
  BY <1>2, WorkNext, PastNext, SentNext DEF BoundInv
<1>5. RunsInv'
  BY <1>2, QueueStepHolds, RunsNext DEF BoundInv
<1>6. SpentInv'
  <2>1. \A js \in SUBSET Jobs : Spent(js)' <= 3 * (Cardinality(js) + faults')
    BY <1>2, SpentNext DEF BoundInv
  <2> QED
    BY <2>1 DEF SpentInv
<1> QED
  BY <1>1, <1>3, <1>4, <1>5, <1>6 DEF BoundInv

LEMMA BoundInductive == Spec => []BoundInv
BY BoundInit, BoundStep, PTL DEF Spec

(* Every variable of the pipeline, those of its two components included,   *)
(* keeps its type: in particular no client's balance becomes negative,     *)
(* whatever two workers' completions of one job do to each other.          *)
THEOREM TypeCorrect == Spec => []TypeOK
<1>1. BoundInv => TypeOK
  <2> SUFFICES ASSUME BoundInv PROVE TypeOK
    OBVIOUS
  <2>1. API!TypeOK
    BY DEF BoundInv, ChargeInv, IInv, CallInv, PaidInv, BankInv, CounterInv,
           UpdaterType, API!TypeOK
  <2>2. Work!TypeOK
    BY DEF BoundInv, ChargeInv, IInv, HandInv, HandLabels, PlaceInv, WorkInv,
           Work!TypeOK, Stored
  <2>3. view \in [Jobs -> {"polling", "ANALYZED", "ERROR", "reading",
                           "200", "404", "409", "425", "500"}]
    BY DEF BoundInv, ChargeInv, IInv, ViewInv
  <2> QED
    BY <2>1, <2>2, <2>3
    DEF BoundInv, ChargeInv, IInv, HandInv, WaitInv, CountInv, SentInv,
        PastInv, TypeOK
<1> QED
  BY <1>1, BoundInductive, PTL

(* Nothing is done again by itself, whatever the number of workers, jobs,  *)
(* faults and outages: three calls for each run of a job, a run for each   *)
(* message and each fault, a debit for each run at most                    *)
(* (execute_diagram_job, consume_loop's reject without requeue).           *)
THEOREM NothingIsRetriedHolds == Spec => []NothingIsRetried
<1>1. BoundInv => NothingIsRetried
  <2> SUFFICES ASSUME BoundInv PROVE NothingIsRetried
    OBVIOUS
  <2>1. faults \in Nat
    BY MaxFaultsAssumption DEF BoundInv, WorkInv
  <2>2. ASSUME NEW js \in SUBSET Jobs
        PROVE  Cardinality(CallsAbout(js)) <= 3 * (Cardinality(js) + faults)
    <3>1. Spent(js) <= 3 * (Cardinality(js) + faults)
      BY DEF BoundInv, SpentInv
    <3> QED
      BY <2>1, <3>1, ToDoFinite DEF Spent
  <2>3. ASSUME NEW j \in Jobs
        PROVE  debits[j] <= 1 + faults
    <3>1. /\ debits[j] \in Nat /\ deliveries[j] \in Nat
          /\ debits[j] + Cardinality(Owed(j)) + Cardinality(Ahead(j))
               <= deliveries[j]
          /\ deliveries[j] + (IF j \in ready THEN 1 ELSE 0) <= 1 + faults
      BY DEF BoundInv, ChargeInv, PaidInv, CountInv, RunsInv
    <3> QED
      BY <2>1, <3>1, SetsFinite
  <2> QED
    BY <2>2, <2>3 DEF NothingIsRetried
<1> QED
  BY <1>1, BoundInductive, PTL

(* The bound on the model's requests keeps no worker from its next call:   *)
(* it cuts off no behaviour of the pipeline.                               *)
THEOREM RequestsSufficeHolds == Spec => []RequestsSuffice
<1>1. BoundInv => RequestsSuffice
  <2> SUFFICES ASSUME BoundInv, NEW w \in Workers,
                      waiting[w] = Null, Bodies(w) # {}
               PROVE  sent + 1 \in Requests /\ pc[sent + 1] = "new"
    BY DEF RequestsSuffice
  <2>1. /\ HandInv /\ CallInv /\ SentInv
        /\ faults \in Nat /\ faults <= MaxFaults
    BY MaxFaultsAssumption DEF BoundInv, ChargeInv, IInv, WorkInv
  <2>2. w \in ToStart(Jobs) \cup ToComplete(Jobs) \cup ToReport(Jobs)
    <3>1. step[w] \in {"patching", "completing", "reporting"}
      BY DEF Bodies
    <3> QED
      BY <2>1, <3>1 DEF HandInv, Calling, ToStart, ToComplete, ToReport
  <2> DEFINE start == Cardinality(ToStart(Jobs))
             done  == Cardinality(ToComplete(Jobs))
             error == Cardinality(ToReport(Jobs))
             queue == Cardinality(ready \cap Jobs)
  <2>3. /\ start \in Nat /\ done \in Nat /\ error \in Nat /\ queue \in Nat
        /\ Cardinality(Jobs) \in Nat /\ sent \in Nat
    <3>1. sent \in Nat
      BY <2>1, RequestsCount DEF SentInv
    <3> QED
      BY <3>1, ToDoFinite
  <2>4. start # 0 \/ done # 0 \/ error # 0
    BY <2>2, ToDoFinite, FS_EmptySet
  <2>5. Cardinality(CallsAbout(Jobs)) = sent
    <3>1. CallsAbout(Jobs) = 1..sent
      BY <2>1, CallTypes, RequestsCount DEF CallsAbout, CallInv, SentInv
    <3> QED
      BY <2>3, <3>1, FS_Interval
  <2>6. sent + start + done + error + 3 * queue
          <= 3 * (Cardinality(Jobs) + faults)
    BY <2>5 DEF BoundInv, SpentInv, Spent
  <2>7. sent + 1 <= 3 * (Cardinality(Jobs) + MaxFaults)
    <3>1. start + done + error >= 1
      BY <2>3, <2>4
    <3> HIDE DEF start, done, error, queue
    <3>2. sent + 1 <= 3 * (Cardinality(Jobs) + faults)
      BY <2>1, <2>3, <2>6, <3>1
    <3> QED
      BY <2>1, <2>3, <3>2, MaxFaultsAssumption
  <2> QED
    BY <2>1, <2>3, <2>7, RequestsCount DEF SentInv
<1> QED
  BY <1>1, BoundInductive, PTL
=============================================================================
