------------------------------- MODULE JobApi -------------------------------
(***************************************************************************)
(* The API's transactions on PostgreSQL: the internal handlers the worker  *)
(* calls (PATCH a job, POST its completion) and the database side of an    *)
(* upload, as they interleave.  Every request has a session of its own at  *)
(* READ COMMITTED, so an action is what a handler does between two awaits, *)
(* and a commit makes its writes visible at once.                          *)
(*                                                                         *)
(* A job row is read without a lock and written back column by column      *)
(* (SQLAlchemy updates only the columns whose value changed since the      *)
(* load); the UPDATE, which session.commit sends before its COMMIT, locks  *)
(* it until then.  The client row is locked twice: FOR UPDATE by a         *)
(* completion, and FOR KEY SHARE by the foreign key check of an uploaded   *)
(* job's INSERT; the two exclude each other.                               *)
(***************************************************************************)
EXTENDS Integers, FiniteSets

CONSTANTS
  Clients,      \* rows of table clients
  Jobs,         \* job identifiers (uuid4)
  Existing,     \* jobs already in the database when the API starts
  Requests,     \* HTTP requests; each is received and answered at most once
  Reports,      \* reports by checksum (the path is a function of the job)
  Errors,       \* values of error_message
  Tokens,       \* values of tokens_used a completion may carry
  Owner,        \* client_id of each job
  Funds,        \* token_balance each client is seeded with
  MinEstimate,  \* settings.min_tokens_estimate
  Serialised,   \* TRUE: at most one request at a time is about the same job
  Null          \* NULL, and "no such thing"

ASSUME TokensAssumption == Tokens \subseteq Nat
ASSUME ExistingAssumption == Existing \subseteq Jobs
ASSUME OwnerAssumption == Owner \in [Jobs -> Clients]
ASSUME FundsAssumption == Funds \in [Clients -> Nat]
ASSUME EstimateAssumption == MinEstimate \in Nat
ASSUME SerialisedAssumption == Serialised \in BOOLEAN

Status == {"RECEIVED", "PROCESSING", "ANALYZED", "ERROR"}

Row == [status : Status, err : Errors \cup {Null},
        report : Reports \cup {Null}, tokens : Nat]

ReceivedRow ==
  [status |-> "RECEIVED", err |-> Null, report |-> Null, tokens |-> 0]

(* The bodies of the two internal endpoints, and an upload of a new job.   *)
(* "ANALYZED" stands for every status a PATCH refuses.                     *)
Uploads == [kind : {"upload"}, job : Jobs]
Patches == [kind : {"patch"}, job : Jobs,
            status : {"PROCESSING", "ERROR", "ANALYZED"},
            err : Errors \cup {Null}]
Completions == [kind : {"complete"}, job : Jobs,
                tokens : Tokens, report : Reports]
Calls == Uploads \cup Patches \cup Completions

(* Null is none of the values it stands in for. *)
ASSUME NullAssumption ==
  /\ Null \notin Errors /\ Null \notin Reports /\ Null \notin Requests
  /\ Null \notin Nat /\ Null \notin Row /\ Null \notin Calls

VARIABLES
  jobs,      \* committed rows of analysis_jobs; Null: no such row
  balance,   \* committed clients.token_balance
  writer,    \* who holds the client row FOR UPDATE
  keyShare,  \* who holds it FOR KEY SHARE
  updater,   \* who has updated the job row and not committed yet
  pc,        \* where each request is in its handler
  call,      \* what each request asks for
  seen,      \* the job row as its session loaded it
  cash,      \* the client's balance as its session loaded it
  reply,     \* HTTP status of the answer
  counted,   \* analysis_jobs_total, by label
  consumed,  \* ai_tokens_consumed_total, by client
  debited,   \* history: tokens taken from each client
  debits,    \* history: completions of each job that debited its client
  reopened   \* history: PATCHes that overwrote an ANALYZED row

database == <<jobs, balance>>
locks    == <<writer, keyShare, updater>>
session  == <<seen, cash>>
metrics  == <<counted, consumed>>
history  == <<debited, debits, reopened>>
vars == <<jobs, balance, writer, keyShare, updater, pc, call, seen, cash,
          reply, counted, consumed, debited, debits, reopened>>

Active == {r \in Requests : pc[r] \notin {"new", "done"}}
client(r) == Owner[call[r].job]

Init ==
  /\ jobs = [j \in Jobs |-> IF j \in Existing THEN ReceivedRow ELSE Null]
  /\ balance = Funds
  /\ writer = [c \in Clients |-> Null]
  /\ keyShare = [c \in Clients |-> {}]
  /\ updater = [j \in Jobs |-> Null]
  /\ pc = [r \in Requests |-> "new"]
  /\ call = [r \in Requests |-> Null]
  /\ seen = [r \in Requests |-> Null]
  /\ cash = [r \in Requests |-> 0]
  /\ reply = [r \in Requests |-> Null]
  /\ counted = [s \in Status |-> 0]
  /\ consumed = [c \in Clients |-> 0]
  /\ debited = [c \in Clients |-> 0]
  /\ debits = [j \in Jobs |-> 0]
  /\ reopened = [j \in Jobs |-> 0]

Goto(r, l) == pc' = [pc EXCEPT ![r] = l]
Respond(r, s) == Goto(r, "done") /\ reply' = [reply EXCEPT ![r] = s]

(* Mutant of ReleaseLocks: a session that is never closed. *)
KeepLocks(r) == UNCHANGED locks

(* End of the transaction of r, whatever its outcome. *)
ReleaseLocks(r) ==
  /\ writer' = [c \in Clients |-> IF writer[c] = r THEN Null ELSE writer[c]]
  /\ keyShare' = [c \in Clients |-> keyShare[c] \ {r}]
  /\ updater' = [j \in Jobs |-> IF updater[j] = r THEN Null ELSE updater[j]]

(* Mutant of ClientRowFree: the client is read without FOR UPDATE. *)
NoRowLock(c) == TRUE

(* Nobody's lock stands in the way of SELECT ... FOR UPDATE. *)
ClientRowFree(c) == writer[c] = Null /\ keyShare[c] = {}

(* Mutant of CannotPay: debited without its test. *)
AlwaysPays(funds, tokens) == FALSE

(* Client.debited raises InsufficientTokensError. *)
CannotPay(funds, tokens) == funds < tokens

(* Mutants of AlreadyAnalyzed: a job in ERROR is taken for completed too;  *)
(* no test at all.                                                         *)
AlreadyTerminal(row) == row.status \in {"ANALYZED", "ERROR"}
NeverAnalyzed(row) == FALSE

(* The early return of complete_with_report. *)
AlreadyAnalyzed(row) == row.status = "ANALYZED"

(* The UPDATE a flush sends: the columns that differ from the loaded row.  *)
Flush(row, loaded, new) ==
  [status |-> IF new.status # loaded.status THEN new.status ELSE row.status,
   err    |-> IF new.err    # loaded.err    THEN new.err    ELSE row.err,
   report |-> IF new.report # loaded.report THEN new.report ELSE row.report,
   tokens |-> IF new.tokens # loaded.tokens THEN new.tokens ELSE row.tokens]

-----------------------------------------------------------------------------
(* POST /v1/analysis-jobs: the balance is read when the client is          *)
(* authenticated, before the handler starts; the id of the job is a fresh  *)
(* uuid.                                                                   *)
ReceiveUpload(r, j) ==
  /\ pc[r] = "new"
  /\ jobs[j] = Null
  /\ \A q \in Requests : call[q] \notin [kind : {"upload"}, job : {j}]
  /\ call' = [call EXCEPT ![r] = [kind |-> "upload", job |-> j]]
  /\ cash' = [cash EXCEPT ![r] = balance[Owner[j]]]
  /\ Goto(r, "admitting")
  /\ UNCHANGED <<database, locks, seen, reply, metrics, history>>

RefuseUpload(r) ==
  /\ pc[r] = "admitting"
  /\ cash[r] < MinEstimate
  /\ Respond(r, 402)
  /\ UNCHANGED <<database, locks, call, session, metrics, history>>

(* create_received: the flushed INSERT, whose foreign key locks the client *)
InsertReceived(r) ==
  /\ pc[r] = "admitting"
  /\ cash[r] >= MinEstimate
  /\ writer[client(r)] = Null
  /\ keyShare' = [keyShare EXCEPT ![client(r)] = @ \cup {r}]
  /\ Goto(r, "storing")
  /\ UNCHANGED <<database, writer, updater, call, session, reply, metrics,
                 history>>

(* The diagram is stored, then set_diagram and commit. *)
CommitUpload(r) ==
  /\ pc[r] = "storing"
  /\ jobs' = [jobs EXCEPT ![call[r].job] = ReceivedRow]
  /\ ReleaseLocks(r)
  /\ Goto(r, "committed")
  /\ UNCHANGED <<balance, call, session, reply, metrics, history>>

-----------------------------------------------------------------------------
(* PATCH /internal/v1/analysis-jobs/{id} and POST .../{id}/completion      *)
ReceiveInternal(r, c) ==
  /\ pc[r] = "new"
  /\ Serialised => \A q \in Active : call[q].job # c.job
  /\ call' = [call EXCEPT ![r] = c]
  /\ Goto(r, "loading")
  /\ UNCHANGED <<database, locks, session, reply, metrics, history>>

JobNotFound(r) ==
  /\ pc[r] = "loading"
  /\ jobs[call[r].job] = Null
  /\ Respond(r, 404)
  /\ UNCHANGED <<database, locks, call, session, metrics, history>>

InvalidPatch(r) ==
  /\ pc[r] = "loading"
  /\ jobs[call[r].job] # Null
  /\ call[r].kind = "patch"
  /\ call[r].status \notin {"PROCESSING", "ERROR"}
  /\ Respond(r, 400)
  /\ UNCHANGED <<database, locks, call, session, metrics, history>>

(* apply_status_patch: no lock, no look at the status it overwrites; the   *)
(* metric counts before the commit.                                        *)
LoadForPatch(r) ==
  /\ pc[r] = "loading"
  /\ jobs[call[r].job] # Null
  /\ call[r].kind = "patch"
  /\ call[r].status \in {"PROCESSING", "ERROR"}
  /\ seen' = [seen EXCEPT ![r] = jobs[call[r].job]]
  /\ counted' = [counted EXCEPT ![call[r].status] = @ + 1]
  /\ Goto(r, "patching")
  /\ UNCHANGED <<database, locks, call, cash, reply, consumed, history>>

(* The flush at the head of session.commit: UPDATE of the job row.  What   *)
(* it writes shows with the COMMIT, the next round trip; the row cannot    *)
(* change in between.                                                      *)
UpdateJob(r) ==
  LET j == call[r].job IN
  /\ pc[r] \in {"patching", "debiting"}
  /\ updater[j] = Null
  /\ updater' = [updater EXCEPT ![j] = r]
  /\ UNCHANGED <<database, writer, keyShare, pc, call, session, reply,
                 metrics, history>>

CommitPatch(r) ==
  LET j == call[r].job
      new == [seen[r] EXCEPT !.status = call[r].status, !.err = call[r].err]
      row == Flush(jobs[j], seen[r], new)
  IN
  /\ pc[r] = "patching"
  /\ updater[j] = r
  /\ jobs' = [jobs EXCEPT ![j] = row]
  /\ reopened' = [reopened EXCEPT ![j] =
       IF jobs[j].status = "ANALYZED" /\ row.status # "ANALYZED"
       THEN @ + 1 ELSE @]
  /\ ReleaseLocks(r)
  /\ Goto(r, "committed")
  /\ UNCHANGED <<balance, call, session, reply, metrics, debited, debits>>

(* complete_with_report: the row is loaded, and its status tested, before  *)
(* any lock is taken.                                                      *)
LoadForCompletion(r) ==
  LET row == jobs[call[r].job] IN
  /\ pc[r] = "loading"
  /\ row # Null
  /\ call[r].kind = "complete"
  /\ seen' = [seen EXCEPT ![r] = row]
  /\ Goto(r, IF AlreadyAnalyzed(row) THEN "ignoring" ELSE "locking")
  /\ UNCHANGED <<database, locks, call, cash, reply, metrics, history>>

(* A completion of a job seen ANALYZED commits nothing. *)
CommitNothing(r) ==
  /\ pc[r] = "ignoring"
  /\ Goto(r, "committed")
  /\ UNCHANGED <<database, locks, call, session, reply, metrics, history>>

(* Mutant of LockClient: the client is read FOR KEY SHARE before it is   *)
(* read FOR UPDATE.                                                        *)
UpgradeLock(r) ==
  LET c == client(r) IN
  /\ pc[r] = "locking"
  /\ writer[c] = Null
  /\ \/ /\ r \notin keyShare[c]
        /\ keyShare' = [keyShare EXCEPT ![c] = @ \cup {r}]
        /\ UNCHANGED <<writer, cash, pc>>
     \/ /\ keyShare[c] = {r}
        /\ writer' = [writer EXCEPT ![c] = r]
        /\ cash' = [cash EXCEPT ![r] = balance[c]]
        /\ Goto(r, IF CannotPay(balance[c], call[r].tokens)
                   THEN "refusing" ELSE "debiting")
        /\ UNCHANGED keyShare
  /\ UNCHANGED <<database, updater, call, seen, reply, metrics, history>>

(* SELECT ... FOR UPDATE, then Client.debited. *)
LockClient(r) ==
  LET c == client(r) IN
  /\ pc[r] = "locking"
  /\ ClientRowFree(c)
  /\ writer' = [writer EXCEPT ![c] = r]
  /\ cash' = [cash EXCEPT ![r] = balance[c]]
  /\ Goto(r, IF CannotPay(balance[c], call[r].tokens)
             THEN "refusing" ELSE "debiting")
  /\ UNCHANGED <<database, keyShare, updater, call, seen, reply, metrics,
                 history>>

(* Mutant of Analyzed: the message of an earlier failure is left in place. *)
AnalyzedKeepingError(row, c) ==
  [status |-> "ANALYZED", err |-> row.err,
   report |-> c.report, tokens |-> c.tokens]

(* The loaded row as complete_with_report leaves it. *)
Analyzed(row, c) ==
  [status |-> "ANALYZED", err |-> Null,
   report |-> c.report, tokens |-> c.tokens]

(* InsufficientTokensError: rollback, then 402. *)
RefuseCompletion(r) ==
  /\ pc[r] = "refusing"
  /\ ReleaseLocks(r)
  /\ Respond(r, 402)
  /\ UNCHANGED <<database, call, session, metrics, history>>

CommitCompletion(r) ==
  LET j == call[r].job IN
  /\ pc[r] = "debiting"
  /\ updater[j] = r
  /\ jobs' = [jobs EXCEPT ![j] =
                 Flush(jobs[j], seen[r], Analyzed(seen[r], call[r]))]
  /\ balance' = [balance EXCEPT ![client(r)] = cash[r] - call[r].tokens]
  /\ ReleaseLocks(r)
  /\ debited' = [debited EXCEPT ![client(r)] = @ + call[r].tokens]
  /\ debits' = [debits EXCEPT ![j] = @ + 1]
  /\ Goto(r, "committed")
  /\ UNCHANGED <<call, session, reply, metrics, reopened>>

-----------------------------------------------------------------------------
(* The rest of a handler after its commit, and the answer. *)
AnswerUpload(r) ==
  /\ pc[r] = "committed"
  /\ call[r].kind = "upload"
  /\ counted' = [counted EXCEPT !["RECEIVED"] = @ + 1]
  /\ Respond(r, 201)
  /\ UNCHANGED <<database, locks, call, session, consumed, history>>

AnswerPatch(r) ==
  /\ pc[r] = "committed"
  /\ call[r].kind = "patch"
  /\ Respond(r, 200)
  /\ UNCHANGED <<database, locks, call, session, metrics, history>>

AnswerCompletion(r) ==
  /\ pc[r] = "committed"
  /\ call[r].kind = "complete"
  /\ consumed' = [consumed EXCEPT ![client(r)] = @ + call[r].tokens]
  /\ counted' = [counted EXCEPT !["ANALYZED"] = @ + 1]
  /\ Respond(r, 200)
  /\ UNCHANGED <<database, locks, call, session, history>>

(* A statement, a commit, the object store or the broker fails, or the     *)
(* connection breaks after a commit took effect: the session is closed,    *)
(* what it had not committed is rolled back, and the caller sees a 5xx.    *)
Fail(r) ==
  /\ r \in Active
  /\ ReleaseLocks(r)
  /\ Respond(r, 500)
  /\ UNCHANGED <<database, call, session, metrics, history>>

(* The API process dies with every request it was serving; its counters    *)
(* live in the process.                                                    *)
Crash ==
  /\ Active # {}
  /\ writer' = [c \in Clients |-> Null]
  /\ keyShare' = [c \in Clients |-> {}]
  /\ updater' = [j \in Jobs |-> Null]
  /\ pc' = [r \in Requests |-> IF r \in Active THEN "done" ELSE pc[r]]
  /\ reply' = [r \in Requests |-> IF r \in Active THEN 500 ELSE reply[r]]
  /\ counted' = [s \in Status |-> 0]
  /\ consumed' = [c \in Clients |-> 0]
  /\ UNCHANGED <<database, call, session, history>>

(* What a request does on its own once it has been received. *)
Proceed(r) ==
  \/ RefuseUpload(r)      \/ InsertReceived(r)   \/ CommitUpload(r)
  \/ JobNotFound(r)       \/ InvalidPatch(r)
  \/ LoadForPatch(r)      \/ UpdateJob(r)        \/ CommitPatch(r)
  \/ LoadForCompletion(r) \/ CommitNothing(r)
  \/ LockClient(r)        \/ RefuseCompletion(r) \/ CommitCompletion(r)
  \/ AnswerUpload(r)      \/ AnswerPatch(r)      \/ AnswerCompletion(r)

Next ==
  \/ \E r \in Requests, j \in Jobs : ReceiveUpload(r, j)
  \/ \E r \in Requests, c \in Patches \cup Completions : ReceiveInternal(r, c)
  \/ \E r \in Requests : Proceed(r)
  \/ \E r \in Requests : Fail(r)
  \/ Crash

Spec == Init /\ [][Next]_vars

(* The event loop and PostgreSQL serve every request; requests are finite  *)
(* in number, so a lock that is always released is eventually free.        *)
FairSpec == Spec /\ \A r \in Requests : WF_vars(Proceed(r))

-----------------------------------------------------------------------------
Labels == {"new", "admitting", "storing", "loading", "patching", "ignoring",
           "locking", "refusing", "debiting", "committed", "done"}

(* Every variable has its type; balances and counters are never negative.  *)
TypeOK ==
  /\ jobs \in [Jobs -> Row \cup {Null}]
  /\ balance \in [Clients -> Nat]
  /\ writer \in [Clients -> Requests \cup {Null}]
  /\ keyShare \in [Clients -> SUBSET Requests]
  /\ updater \in [Jobs -> Requests \cup {Null}]
  /\ pc \in [Requests -> Labels]
  /\ call \in [Requests -> Calls \cup {Null}]
  /\ seen \in [Requests -> Row \cup {Null}]
  /\ cash \in [Requests -> Nat]
  /\ reply \in [Requests -> {Null, 200, 201, 400, 402, 404, 500}]
  /\ counted \in [Status -> Nat]
  /\ consumed \in [Clients -> Nat]
  /\ debited \in [Clients -> Nat]
  /\ debits \in [Jobs -> Nat]
  /\ reopened \in [Jobs -> Nat]

(* No token is lost or made up, however completions of one client's jobs   *)
(* interleave: what is left and what was debited add up to the seeded      *)
(* balance (complete_with_report, the FOR UPDATE read of the client).      *)
BalanceConserved == \A c \in Clients : balance[c] + debited[c] = Funds[c]

(* A completion answered 200 has been paid for, by its own debit or by an  *)
(* earlier one of the same job, whatever failed in between.                *)
AcknowledgedIsPaid ==
  \A r \in Requests :
    reply[r] = 200 /\ call[r].kind = "complete" => debits[call[r].job] > 0

(* Whose transactions keep r from its next statement: an upload's INSERT   *)
(* waits for a completion, a completion's SELECT ... FOR UPDATE for both,  *)
(* and every UPDATE of a job row for the one before it.                    *)
WaitsFor(r) ==
  {q \in Requests \ {r} :
     \/ pc[r] = "locking" /\ q \in {writer[client(r)]} \cup keyShare[client(r)]
     \/ pc[r] = "admitting" /\ q = writer[client(r)]
     \/ pc[r] \in {"patching", "debiting"} /\ q = updater[call[r].job]}

(* A completion asks for the job row while it holds the client row, and    *)
(* may wait for a PATCH there while others wait for it; yet whoever waits, *)
(* waits for a request that is going on, and no requests wait for each     *)
(* other in a circle: of any of them, one waits for none of them           *)
(* (create_received, complete_with_report, apply_status_patch, the flush   *)
(* and the COMMIT of session.commit, the closing of the session).          *)
LocksResolve ==
  /\ \A r \in Active : WaitsFor(r) \subseteq Active
  /\ \A rs \in (SUBSET Active) \ {{}} : \E r \in rs : WaitsFor(r) \cap rs = {}

(* While requests about one job do not overlap, each debit of the job is   *)
(* its row becoming ANALYZED: a second debit takes a PATCH that reopened   *)
(* the row in between (the status test at the head of                      *)
(* complete_with_report).                                                  *)
OneDebitPerOpening ==
  Serialised =>
    \A j \in Jobs :
      debits[j] = reopened[j] +
        (IF jobs[j] # Null /\ jobs[j].status = "ANALYZED" THEN 1 ELSE 0)

(* While requests about one job do not overlap, the handlers' steps are    *)
(* worth one atomic operation each, whatever requests about other jobs of  *)
(* the same client do meanwhile and whatever fails: JobApi implements      *)
(* JobLedger.                                                              *)
Ledger == INSTANCE JobLedger
ActsAtomically == Ledger!Spec

(* Every request that was received is answered: nobody waits forever for   *)
(* a client's row lock.                                                    *)
EveryRequestAnswered ==
  \A r \in Requests : pc[r] # "new" ~> pc[r] = "done"

(* metrics.py describes ai_tokens_consumed_total as the "Tokens debited    *)
(* after successful analysis": it never exceeds what was debited.          *)
ConsumedIsDebited == \A c \in Clients : consumed[c] <= debited[c]
=============================================================================
