------------------------------ MODULE LLMGateway ------------------------------
(***************************************************************************)
(* The gateway to the language model (src/evaluation/llm_gateway.py) of    *)
(* one API process: circuit breaker, token bucket, semaphore, retries.     *)
(*                                                                         *)
(* The callers are tasks of one event loop.  A task gives way to others    *)
(* where it waits: for a token, for the semaphore, for a reply, for the    *)
(* end of a backoff.  The breaker's lock is never held across an await, so *)
(* check, record_success and record_failure are part of the task's step.   *)
(* A reply is produced by a thread; wait_for gives the reply up after the  *)
(* timeout, but nothing stops the thread.                                  *)
(***************************************************************************)
EXTENDS Naturals, FiniteSets

CONSTANTS
  Calls,               \* the callers, each wanting one answer from the model
  failure_threshold,   \* failed calls that open the breaker
  max_retries,         \* attempts of one call
  concurrency_limit    \* permits of the semaphore

ASSUME GatewayAssumption ==
  /\ IsFiniteSet(Calls)
  /\ failure_threshold \in Nat \ {0}
  /\ max_retries \in Nat \ {0}
  /\ concurrency_limit \in Nat \ {0}

VARIABLES
  state,           \* of the breaker
  failure_count,
  recovered,       \* recovery_timeout has passed since last_failure_time
  pc,              \* where each call is
  attempt,         \* the number of attempts each call has begun
  abandoned        \* how many threads still wait for a reply nobody awaits

breakerVars == <<state, failure_count, recovered>>
vars == <<breakerVars, pc, attempt, abandoned>>

CircuitState == {"closed", "open", "half_open"}
Places == {"new", "refused", "limiter", "semaphore", "calling", "backoff", "succeeded", "failed"}

\* The calls between async with self._semaphore and its end.
Inside == {c \in Calls : pc[c] \in {"calling", "backoff"}}

Goto(c, place) == pc' = [pc EXCEPT ![c] = place]

Init ==
  /\ state = "closed"
  /\ failure_count = 0
  /\ recovered = FALSE
  /\ pc = [c \in Calls |-> "new"]
  /\ attempt = [c \in Calls |-> 0]
  /\ abandoned = 0

-------------------------------------------------------------------------------
(* The circuit breaker. *)

\* MUTANT: the probe's success closes the breaker but keeps the count.
record_success_CountKept ==
  /\ state' = "closed"
  /\ UNCHANGED <<failure_count, recovered>>

\* A success closes the breaker whatever its state was.
record_success ==
  /\ failure_count' = 0
  /\ state' = "closed"
  /\ UNCHANGED recovered

\* A failed probe opens the breaker, and so does the failure that reaches the threshold.
record_failure ==
  /\ failure_count' = failure_count + 1
  /\ recovered' = FALSE
  /\ state' = IF state = "half_open" \/ failure_count + 1 >= failure_threshold
              THEN "open" ELSE state

\* MUTANT: an open breaker never lets a probe through.
check_NeverHalfOpen(c) ==
  /\ pc[c] = "new"
  /\ \/ state # "open" /\ Goto(c, "limiter")
     \/ state = "open" /\ Goto(c, "refused")
  /\ UNCHANGED <<breakerVars, attempt, abandoned>>

\* complete begins with the breaker: refused while it is open, admitted otherwise, and the
\* first caller after the recovery timeout half-opens it.
check(c) ==
  /\ pc[c] = "new"
  /\ \/ state # "open" /\ Goto(c, "limiter") /\ UNCHANGED state
     \/ state = "open" /\ recovered /\ Goto(c, "limiter") /\ state' = "half_open"
     \/ state = "open" /\ ~recovered /\ Goto(c, "refused") /\ UNCHANGED state
  /\ UNCHANGED <<failure_count, recovered, attempt, abandoned>>

\* time.monotonic() - last_failure_time reaches recovery_timeout.
RecoveryTimeoutPasses ==
  /\ state = "open"
  /\ ~recovered
  /\ recovered' = TRUE
  /\ UNCHANGED <<state, failure_count, pc, attempt, abandoned>>

-------------------------------------------------------------------------------
(* complete and _call_with_retry. *)

\* The token bucket has a token for c.
acquire_token(c) ==
  /\ pc[c] = "limiter"
  /\ Goto(c, "semaphore")
  /\ UNCHANGED <<breakerVars, attempt, abandoned>>

\* The semaphore has a permit for c, and the first attempt begins at once.  The breaker is not
\* asked again.
enter_semaphore(c) ==
  /\ pc[c] = "semaphore"
  /\ Cardinality(Inside) < concurrency_limit
  /\ Goto(c, "calling")
  /\ attempt' = [attempt EXCEPT ![c] = 1]
  /\ UNCHANGED <<breakerVars, abandoned>>

AttemptSucceeds(c) ==
  /\ pc[c] = "calling"
  /\ record_success
  /\ Goto(c, "succeeded")
  /\ UNCHANGED <<attempt, abandoned>>

\* MUTANT: every failed attempt counts as a failed call.
RetryOrGiveUp_EachCounted(c) ==
  /\ record_failure
  /\ Goto(c, IF attempt[c] < max_retries THEN "backoff" ELSE "failed")

\* MUTANT: the retries stop one attempt too late.
RetryOrGiveUp_OneMore(c) ==
  \/ attempt[c] <= max_retries /\ Goto(c, "backoff") /\ UNCHANGED breakerVars
  \/ attempt[c] > max_retries /\ Goto(c, "failed") /\ record_failure

\* The last attempt's failure is the call's, and only that is told to the breaker.
RetryOrGiveUp(c) ==
  \/ attempt[c] < max_retries /\ Goto(c, "backoff") /\ UNCHANGED breakerVars
  \/ attempt[c] >= max_retries /\ Goto(c, "failed") /\ record_failure

\* The thread raised, or answered with an empty text.
AttemptFails(c) ==
  /\ pc[c] = "calling"
  /\ RetryOrGiveUp(c)
  /\ UNCHANGED <<attempt, abandoned>>

\* MUTANT: the attempt waits for its thread however long that takes.
AttemptTimesOut_Never(c) == FALSE /\ UNCHANGED vars

\* wait_for gives up.  The thread may be running, and then it goes on.
AttemptTimesOut(c) ==
  /\ pc[c] = "calling"
  /\ RetryOrGiveUp(c)
  /\ abandoned' \in {abandoned, abandoned + 1}
  /\ UNCHANGED attempt

\* The wait of tenacity is over.  The permit was kept, and no new token is taken.
BackoffEnds(c) ==
  /\ pc[c] = "backoff"
  /\ Goto(c, "calling")
  /\ attempt' = [attempt EXCEPT ![c] = @ + 1]
  /\ UNCHANGED <<breakerVars, abandoned>>

\* A thread whose reply was given up gets it after all, or an error.
AbandonedThreadEnds ==
  /\ abandoned > 0
  /\ abandoned' = abandoned - 1
  /\ UNCHANGED <<breakerVars, pc, attempt>>

\* A caller that was refused wants an answer again: the next chunk to grade, the next query.
ComesBack(c) ==
  /\ pc[c] = "refused"
  /\ Goto(c, "new")
  /\ UNCHANGED <<breakerVars, attempt, abandoned>>

-------------------------------------------------------------------------------
Next ==
  \/ \E c \in Calls : \/ check(c) \/ acquire_token(c) \/ enter_semaphore(c)
                      \/ AttemptSucceeds(c) \/ AttemptFails(c) \/ AttemptTimesOut(c)
                      \/ BackoffEnds(c) \/ ComesBack(c)
  \/ RecoveryTimeoutPasses
  \/ AbandonedThreadEnds

Spec == Init /\ [][Next]_vars

\* The event loop runs ready tasks, the clock fires timeouts, backoffs and the recovery, and
\* the bucket drains.  No reply need ever come, and no refused caller need come back.
Fairness ==
  /\ \A c \in Calls : /\ WF_vars(check(c))
                      /\ WF_vars(acquire_token(c))
                      /\ WF_vars(enter_semaphore(c))
                      /\ WF_vars(AttemptTimesOut(c))
                      /\ WF_vars(BackoffEnds(c))
  /\ WF_vars(RecoveryTimeoutPasses)

FairSpec == Spec /\ Fairness

-------------------------------------------------------------------------------
(* Properties. *)

\* Every variable stays in its domain; no call makes more attempts than max_retries.
TypeOK ==
  /\ state \in CircuitState
  /\ failure_count \in Nat
  /\ recovered \in BOOLEAN
  /\ pc \in [Calls -> Places]
  /\ attempt \in [Calls -> 0..max_retries]
  /\ abandoned \in Nat

\* The count and the state never contradict each other, although success and failure of calls
\* admitted in any earlier state are recorded in any order: record_failure does not look at
\* the count in half_open, and record_success does not look at the state.
CountMatchesState == state = "closed" <=> failure_count < failure_threshold

Failed == {c \in Calls : pc[c] = "failed"}

\* Callers are refused only for failures of whole calls: the breaker is not closed only if at
\* least failure_threshold calls have used up their attempts, however many attempts failed.
OpensForFailedCalls == state # "closed" => Cardinality(Failed) >= failure_threshold

\* A call that is under way ends, although its replies may never come: timeouts and the attempt
\* limit end it, and that frees the permits that others wait for.
EveryCallEnds ==
  \A c \in Calls : pc[c] = "limiter" ~> pc[c] \in {"succeeded", "failed"}

\* A caller that keeps coming back is not refused for ever: late failures move
\* last_failure_time, but only so many calls are left to fail.
NotRefusedForEver == \A c \in Calls : <>[](pc[c] # "new")
===============================================================================
