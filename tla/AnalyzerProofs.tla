--------------------------- MODULE AnalyzerProofs ---------------------------
(***************************************************************************)
(* What run_real_analysis returns and how long it sleeps, for every        *)
(* setting of ai_max_retries and every sequence of replies.  The invariant *)
(* is the loop's: no reply so far was decisive, and each attempt so far    *)
(* that was rate limited was followed by its own delay.                    *)
(***************************************************************************)
EXTENDS Analyzer, TLAPS

Undecided == \A i \in 1..attempt : ~ Decisive(script[i])

IInv ==
  /\ max_retries \in Int
  /\ script \in [1..Attempts -> Replies]
  /\ pc \in {"preparing", "calling", "returned", "raised"}
  /\ attempt \in 0..Attempts
  /\ Undecided
  /\ ~ Done => result = NoResult
  /\ ReturnsVerdict

LEMMA AttemptsType == max_retries \in Int => Attempts \in Nat
BY DEF Attempts

(* The reply that ends the loop is the first decisive one.                 *)
LEMMA FirstDecides ==
  ASSUME Attempts \in Nat, attempt \in 0..Attempts, attempt < Attempts,
         Undecided, Decisive(reply)
  PROVE  Deciding # {} /\ Min(Deciding) = attempt + 1
<1>1. /\ attempt + 1 \in Deciding
      /\ \A i \in Deciding : i \in Nat /\ attempt + 1 <= i
  BY DEF Deciding, Undecided, reply
<1>2. Min(Deciding) \in Deciding /\ \A i \in Deciding : Min(Deciding) <= i
  BY <1>1 DEF Min
<1> QED
  BY <1>1, <1>2

LEMMA StepHolds == IInv /\ [Next]_vars => IInv'
<1> SUFFICES ASSUME IInv, [Next]_vars PROVE IInv'
  OBVIOUS
<1>1. Attempts \in Nat
  BY AttemptsType DEF IInv
<1>2. CASE Prepare
  BY <1>2 DEF Prepare, IInv, Undecided, Done, ReturnsVerdict, Attempts, input,
              Decisive, Verdict, Deciding, TimesOut
<1>3. CASE Call
  <2>1. /\ pc = "calling" /\ attempt < Attempts
        /\ UNCHANGED <<max_retries, script, readable, Attempts, Verdict>>
        /\ result = NoResult /\ attempt + 1 \in 1..Attempts
    BY <1>1, <1>3 DEF Call, IInv, Done, input, Attempts, Verdict, Deciding,
                      Decisive, TimesOut
  <2>2. CASE Accept \/ Escape
    <3>1. Decisive(reply) /\ UNCHANGED attempt
      BY <2>2 DEF Accept, Escape, Decisive
    <3>2. Deciding # {} /\ script[Min(Deciding)] = reply
      BY <1>1, <2>1, <3>1, FirstDecides DEF IInv, reply
    <3>3. result' = Verdict /\ pc' \in {"returned", "raised"}
      BY <2>1, <2>2, <3>2 DEF Accept, Escape, Verdict, Usage
    <3> QED
      BY <2>1, <3>1, <3>3
      DEF IInv, Undecided, Done, ReturnsVerdict, Attempts, Decisive, TimesOut
  <2>3. CASE RetryRateLimit \/ RetryTimeout \/ RetryInvalid \/ RetryApiError
    <3>1. /\ ~ Decisive(reply)
          /\ attempt' = attempt + 1 /\ UNCHANGED <<pc, result>>
      BY <2>3 DEF RetryRateLimit, RetryTimeout, RetryInvalid, RetryApiError,
                  Retry, Decisive
    <3>2. Undecided'
      BY <1>1, <2>1, <3>1 DEF IInv, Undecided, reply, Decisive, TimesOut
    <3> QED
      BY <1>1, <2>1, <3>1, <3>2 DEF IInv, Done, ReturnsVerdict, Attempts
  <2> QED
    BY <1>3, <2>2, <2>3 DEF Call
<1>4. CASE GiveUp
  <2>1. Deciding = {}
    BY <1>1, <1>4 DEF GiveUp, IInv, Undecided, Deciding
  <2>2. Verdict' = Verdict
    BY <1>4 DEF GiveUp, input, Attempts, Verdict, Deciding, Decisive, TimesOut
  <2> QED
    BY <1>4, <2>1, <2>2 DEF GiveUp, IInv, Undecided, Done, ReturnsVerdict,
         Attempts, input, Verdict, Decisive, TimesOut
<1>5. CASE UNCHANGED vars
  BY <1>5 DEF vars, IInv, Undecided, Done, ReturnsVerdict, Attempts, Verdict,
              Deciding, Decisive, TimesOut
<1> QED
  BY <1>2, <1>3, <1>4, <1>5 DEF Next

-----------------------------------------------------------------------------
(* The loop slept after the rate limited attempts so far, and no other. *)
Limited(i) == script[i].kind = "rateLimit" /\ ~ TimesOut(script[i])

SleptInv ==
  /\ slept \in [1..Attempts -> {0} \cup {2^n : n \in 0..max_retries}]
  /\ result \in [report : {"none", "model", "fallback"}, tokens : Nat]
  /\ \A i \in 1..Attempts :
       slept[i] = IF i <= attempt /\ Limited(i) THEN 2^(i - 1) ELSE 0
  /\ Done /\ readable => Failed = 1..attempt

LEMMA SleptNext == IInv /\ SleptInv /\ [Next]_vars => SleptInv'
<1> SUFFICES ASSUME IInv, SleptInv, [Next]_vars PROVE SleptInv'
  OBVIOUS
<1>1. Attempts \in Nat /\ (Attempts > 0 => max_retries = Attempts - 1)
  BY AttemptsType DEF IInv, Attempts
<1>2. ASSUME UNCHANGED <<max_retries, script, readable>>
      PROVE  /\ UNCHANGED <<Attempts, Deciding, Failed>>
             /\ \A i : Limited(i)' = Limited(i)
  BY <1>2 DEF Attempts, Deciding, Failed, Decisive, Limited, TimesOut
<1>3. CASE Prepare
  BY <1>2, <1>3 DEF Prepare, SleptInv, Done, input
<1>4. CASE Call
  <2>1. /\ attempt + 1 \in 1..Attempts /\ attempt \in Nat /\ pc = "calling"
        /\ reply \in Replies
    BY <1>1, <1>4 DEF Call, IInv, reply
  <2>2. UNCHANGED <<max_retries, script, readable>>
    BY <1>4 DEF Call, input
  <2>3. CASE Accept \/ Escape
    <3>1. Decisive(reply) /\ UNCHANGED <<attempt, slept>>
      BY <2>3 DEF Accept, Escape, Decisive
    <3>2. attempt + 1 \in Deciding /\ \A i \in Deciding : attempt + 1 <= i
      BY <1>1, <2>1, <3>1 DEF IInv, Deciding, Undecided, reply
    <3>3. Failed = 1..attempt
      BY <1>1, <2>1, <3>2 DEF Failed, Deciding
    <3>4. result' \in [report : {"none", "model", "fallback"}, tokens : Nat]
      BY <2>1, <2>3, RepliesAssumption DEF Accept, Escape, Usage, SleptInv
    <3> QED
      BY <1>2, <2>2, <3>1, <3>3, <3>4 DEF SleptInv
  <2>4. CASE RetryRateLimit \/ RetryTimeout \/ RetryInvalid \/ RetryApiError
    <3> DEFINE delay == IF Limited(attempt + 1) THEN 2^attempt ELSE 0
    <3>1. /\ attempt' = attempt + 1 /\ UNCHANGED <<pc, result>>
          /\ slept' = [slept EXCEPT ![attempt + 1] = @ + delay]
      BY <2>4 DEF RetryRateLimit, RetryTimeout, RetryInvalid, RetryApiError,
                  Retry, Backoff, Limited, reply
    <3>2. slept[attempt + 1] = 0
      BY <2>1 DEF SleptInv
    <3>3. /\ delay \in {0} \cup {2^n : n \in 0..max_retries}
          /\ 0 + delay = delay
      BY <1>1, <2>1
    <3> HIDE DEF delay
    <3>4. slept' = [slept EXCEPT ![attempt + 1] = delay]
      BY <3>1, <3>2, <3>3
    <3>5. slept' \in [1..Attempts -> {0} \cup {2^n : n \in 0..max_retries}]
      BY <3>3, <3>4 DEF SleptInv
    <3>6. ASSUME NEW i \in 1..Attempts
          PROVE  slept'[i] = IF i <= attempt' /\ Limited(i) THEN 2^(i - 1) ELSE 0
      <4>1. CASE i = attempt + 1
        BY <2>1, <3>1, <3>4, <4>1 DEF SleptInv, delay
      <4>2. CASE i # attempt + 1
        BY <2>1, <3>1, <3>4, <4>2 DEF SleptInv
      <4> QED
        BY <4>1, <4>2
    <3> QED
      BY <1>2, <2>1, <2>2, <3>1, <3>5, <3>6 DEF SleptInv, Done
  <2> QED
    BY <1>4, <2>3, <2>4 DEF Call
<1>5. CASE GiveUp
  <2>1. Deciding = {}
    BY <1>1, <1>5 DEF GiveUp, IInv, Undecided, Deciding
  <2>2. Failed = 1..attempt
    BY <1>5, <2>1 DEF GiveUp, Failed
  <2> QED
    BY <1>2, <1>5, <2>2 DEF GiveUp, SleptInv, Fallback, input
<1>6. CASE UNCHANGED vars
  BY <1>2, <1>6 DEF vars, SleptInv, Done
<1> QED
  BY <1>3, <1>4, <1>5, <1>6 DEF Next

LEMMA InvariantHolds == Spec => [](IInv /\ SleptInv)
<1>1. Init => IInv
  BY RetriesAssumption DEF Init, IInv, Undecided, Done, ReturnsVerdict, Attempts
<1>2. Init => SleptInv
  BY RetriesAssumption DEF Init, SleptInv, Done, Attempts, NoResult
<1> QED
  BY <1>1, <1>2, StepHolds, SleptNext, PTL DEF Spec

(* Every variable has its type; in particular no attempt is made beyond    *)
(* the configured ones, and no delay is longer than the last one's.        *)
THEOREM TypeCorrect == Spec => []TypeOK
<1>1. IInv /\ SleptInv => TypeOK
  BY DEF IInv, SleptInv, TypeOK
<1> QED
  BY <1>1, InvariantHolds, PTL

(* The loop returns, and charges, what the replies call for, however many  *)
(* retries are configured (run_real_analysis).                             *)
THEOREM ReturnsVerdictHolds == Spec => []ReturnsVerdict
<1>1. IInv => ReturnsVerdict
  BY DEF IInv
<1> QED
  BY <1>1, InvariantHolds, PTL

(* The loop slept 2^attempt seconds after each rate limited attempt before *)
(* the deciding one, the last included, and after no other                 *)
(* (run_real_analysis, except RateLimitError).                             *)
THEOREM BacksOffExponentiallyHolds == Spec => []BacksOffExponentially
<1>1. IInv /\ SleptInv => BacksOffExponentially
  <2> SUFFICES ASSUME IInv, SleptInv, Done, readable
               PROVE  slept = [i \in 1..Attempts |->
                                 IF i \in RateLimited THEN 2^(i - 1) ELSE 0]
    BY DEF BacksOffExponentially
  <2>1. \A i \in 1..Attempts : i \in RateLimited <=> i <= attempt /\ Limited(i)
    BY AttemptsType DEF IInv, SleptInv, RateLimited, Limited
  <2> QED
    BY <2>1 DEF SleptInv
<1> QED
  BY <1>1, InvariantHolds, PTL
=============================================================================
