------------------------------ MODULE Analyzer ------------------------------
(***************************************************************************)
(* run_real_analysis: the calls to the language model, what is retried,    *)
(* what is charged and when the fallback report is returned.  The model's  *)
(* replies are chosen up front, one for each attempt the loop may make, so *)
(* that what the loop returns can be compared with what the whole          *)
(* sequence of replies calls for.                                          *)
(***************************************************************************)
EXTENDS Integers, Sequences, FiniteSetsExt

CONSTANTS
  Replies,  \* what the model may do: [kind, usage, delay]
  Retries   \* values of settings.ai_max_retries

(* "notObject" stands for every reply whose handling raises something the  *)
(* loop does not catch: JSON that is not an object, model_metadata that is *)
(* null, a response without choices.                                       *)
Kinds == {"report", "notJson", "badSchema", "notObject",
          "rateLimit", "apiError"}

ASSUME RepliesAssumption ==
  \A a \in Replies : a.kind \in Kinds /\ a.usage \in Nat /\ a.delay \in Nat
ASSUME RetriesAssumption == Retries \subseteq Int

VARIABLES
  max_retries,  \* settings.ai_max_retries
  script,       \* the replies, by attempt
  readable,     \* whether the diagram converts to images
  pc,           \* "preparing", "calling", "returned" or "raised"
  attempt,      \* attempts made
  slept,        \* seconds spent in time.sleep after each attempt
  result        \* the report and its tokens_used

input == <<max_retries, script, readable>>
vars == <<max_retries, script, readable, pc, attempt, slept, result>>

NoResult == [report |-> "none", tokens |-> 0]
Fallback == [report |-> "fallback", tokens |-> 0]
Attempts == IF max_retries + 1 > 0 THEN max_retries + 1 ELSE 0

Init ==
  /\ max_retries \in Retries
  /\ script \in [1..Attempts -> Replies]
  /\ readable \in BOOLEAN
  /\ pc = "preparing"
  /\ attempt = 0
  /\ slept = [i \in 1..Attempts |-> 0]
  /\ result = NoResult

(* The timeout execute_diagram_job passes, in seconds. *)
timeout == 6000000

TimesOut(a) == a.delay >= timeout
reply == script[attempt + 1]

(* Mutant of Retry: a failed attempt counts twice. *)
RetryTwice(wait) ==
  /\ attempt' = attempt + 2
  /\ slept' = [slept EXCEPT ![attempt + 1] = @ + wait]
  /\ UNCHANGED <<pc, result>>

Retry(wait) ==
  /\ attempt' = attempt + 1
  /\ slept' = [slept EXCEPT ![attempt + 1] = @ + wait]
  /\ UNCHANGED <<pc, result>>

(* Images are made before the loop; an unreadable PDF raises. *)
Prepare ==
  /\ pc = "preparing"
  /\ pc' = IF readable THEN "calling" ELSE "raised"
  /\ UNCHANGED <<input, attempt, slept, result>>

(* Mutant of Usage: the report is charged whatever the model reported. *)
UsageUnknown(a) == 0

(* response.usage.total_tokens of this response, not of earlier ones. *)
Usage(a) == a.usage

Accept ==
  /\ ~ TimesOut(reply)
  /\ reply.kind = "report"
  /\ pc' = "returned"
  /\ result' = [report |-> "model", tokens |-> Usage(reply)]
  /\ UNCHANGED <<attempt, slept>>

(* AttributeError, TypeError or IndexError leave the loop and the function *)
Escape ==
  /\ ~ TimesOut(reply)
  /\ reply.kind = "notObject"
  /\ pc' = "raised"
  /\ UNCHANGED <<attempt, slept, result>>

(* Mutant of Backoff: RateLimitError is caught as the APIError it is. *)
NoBackoff(n) == 0

Backoff(n) == 2^n

RetryRateLimit ==
  /\ ~ TimesOut(reply)
  /\ reply.kind = "rateLimit"
  /\ Retry(Backoff(attempt))

(* Mutant of RetryTimeout: a timeout is retried without counting. *)
RetryTimeoutForever == TimesOut(reply) /\ UNCHANGED <<pc, attempt, slept, result>>

RetryTimeout == TimesOut(reply) /\ Retry(0)

RetryInvalid ==
  /\ ~ TimesOut(reply)
  /\ reply.kind \in {"notJson", "badSchema"}
  /\ Retry(0)

RetryApiError ==
  /\ ~ TimesOut(reply)
  /\ reply.kind = "apiError"
  /\ Retry(0)

Call ==
  /\ pc = "calling"
  /\ attempt < Attempts
  /\ \/ Accept \/ Escape \/ RetryRateLimit \/ RetryTimeout
     \/ RetryInvalid \/ RetryApiError
  /\ UNCHANGED input

GiveUp ==
  /\ pc = "calling"
  /\ attempt = Attempts
  /\ pc' = "returned"
  /\ result' = Fallback
  /\ UNCHANGED <<input, attempt, slept>>

Next == Prepare \/ Call \/ GiveUp

Spec == Init /\ [][Next]_vars
FairSpec == Spec /\ WF_vars(Next)

-----------------------------------------------------------------------------
Done == pc \in {"returned", "raised"}

(* What a sequence of replies calls for, read off it without a loop: the   *)
(* first reply that is no reason to retry decides; with none, the fallback *)
(* report free of charge.                                                  *)
Decisive(a) == ~ TimesOut(a) /\ a.kind \in {"report", "notObject"}
Deciding == {i \in 1..Attempts : Decisive(script[i])}
Failed == {i \in 1..Attempts : \A k \in Deciding : i < k}
Verdict ==
  IF Deciding = {} THEN Fallback
  ELSE LET a == script[Min(Deciding)] IN
       IF a.kind = "report" THEN [report |-> "model", tokens |-> a.usage]
       ELSE NoResult

(* Every variable has its type. *)
TypeOK ==
  /\ pc \in {"preparing", "calling", "returned", "raised"}
  /\ attempt \in 0..Attempts
  /\ slept \in [1..Attempts -> {0} \cup {2^n : n \in 0..max_retries}]
  /\ result \in [report : {"none", "model", "fallback"}, tokens : Nat]

(* The loop returns, and charges, what the replies call for: the first     *)
(* valid report with the usage of its own response, and the fallback only  *)
(* after every attempt failed (the except clauses and the return after the *)
(* loop of run_real_analysis).                                             *)
ReturnsVerdict == Done /\ readable => result = Verdict

(* Rate limits, and nothing else, are waited for, 2^attempt seconds each,  *)
(* also after the last attempt, and none of them twice.                    *)
RateLimited == {i \in Failed : script[i].kind = "rateLimit"
                                /\ ~ TimesOut(script[i])}
BacksOffExponentially ==
  Done /\ readable =>
    slept = [i \in 1..Attempts |-> IF i \in RateLimited THEN 2^(i - 1) ELSE 0]

(* An analysis ends, whatever the model does. *)
Terminates == <>Done

(* README: "Invalid output after all attempts returns a fallback report    *)
(* instead of breaking the job": when the diagram could be read, output of *)
(* the model never makes the analysis raise.                               *)
InvalidOutputFallsBack == readable => pc # "raised"
=============================================================================
