--------------------------- MODULE LLMGatewayProofs ---------------------------
(***************************************************************************)
(* Proofs about LLMGateway for any number of callers, any threshold, any   *)
(* number of retries and any number of permits.                            *)
(*                                                                         *)
(* CountMatchesState is not inductive alone only because of the types.     *)
(* OpensForFailedCalls needs to know where the count comes from: every     *)
(* failure counted since the last success is that of another call.         *)
(***************************************************************************)
EXTENDS LLMGateway, FiniteSetTheorems, TLAPS

\* A call that backs off has an attempt left.
AttemptLeft == \A c \in Calls : pc[c] = "backoff" => attempt[c] < max_retries

\* Each failure the breaker counts is that of another failed call.
CountIsOfFailedCalls == failure_count <= Cardinality(Failed)

GatewayInv == TypeOK /\ AttemptLeft /\ CountMatchesState /\ CountIsOfFailedCalls

-------------------------------------------------------------------------------

\* The breaker's two records keep its types.
LEMMA RecordsTyped ==
  ASSUME TypeOK, record_success \/ record_failure
  PROVE  state' \in CircuitState /\ failure_count' \in Nat /\ recovered' \in BOOLEAN
<1>1. CASE record_success
  <2>1. state' \in CircuitState
    BY <1>1 DEF record_success, CircuitState
  <2>2. failure_count' \in Nat /\ recovered' \in BOOLEAN
    BY <1>1, SMT DEF record_success, TypeOK
  <2> QED
    BY <2>1, <2>2
<1>2. CASE record_failure
  <2>1. state' \in CircuitState
    BY <1>2 DEF record_failure, TypeOK, CircuitState
  <2>2. failure_count' \in Nat
    BY <1>2 DEF record_failure, TypeOK
  <2>3. recovered' \in BOOLEAN
    BY <1>2, Zenon DEF record_failure
  <2> QED
    BY <2>1, <2>2, <2>3
<1> QED
  BY <1>1, <1>2

\* So does a failed attempt, which backs off only with an attempt left.
LEMMA FailedAttemptTyped ==
  ASSUME TypeOK, AttemptLeft, NEW c \in Calls, RetryOrGiveUp(c), UNCHANGED attempt
  PROVE  /\ state' \in CircuitState /\ failure_count' \in Nat /\ recovered' \in BOOLEAN
         /\ pc' \in [Calls -> Places] /\ attempt' \in [Calls -> 0..max_retries]
         /\ AttemptLeft'
<1>1. CASE attempt[c] < max_retries /\ Goto(c, "backoff") /\ UNCHANGED breakerVars
  BY <1>1 DEF TypeOK, AttemptLeft, Goto, breakerVars, Places
<1>2. CASE attempt[c] >= max_retries /\ Goto(c, "failed") /\ record_failure
  <2>1. state' \in CircuitState /\ failure_count' \in Nat /\ recovered' \in BOOLEAN
    BY <1>2, RecordsTyped
  <2>2. pc' \in [Calls -> Places] /\ attempt' \in [Calls -> 0..max_retries]
    BY <1>2 DEF TypeOK, Goto, Places
  <2>3. AttemptLeft'
    BY <1>2 DEF TypeOK, AttemptLeft, Goto
  <2> QED
    BY <2>1, <2>2, <2>3
<1> QED
  BY <1>1, <1>2 DEF RetryOrGiveUp

\* Every step of a caller, of the clock and of an abandoned thread keeps the types.
LEMMA GatewayTypesNext ==
  ASSUME TypeOK, AttemptLeft, [Next]_vars
  PROVE  TypeOK' /\ AttemptLeft'
<1> USE GatewayAssumption DEF GatewayAssumption
<1>1. ASSUME NEW c \in Calls, check(c) PROVE TypeOK' /\ AttemptLeft'
  BY <1>1 DEF check, TypeOK, AttemptLeft, CircuitState, Places, Goto
<1>2. ASSUME NEW c \in Calls, acquire_token(c) PROVE TypeOK' /\ AttemptLeft'
  BY <1>2 DEF acquire_token, breakerVars, TypeOK, AttemptLeft, Places, Goto
<1>3. ASSUME NEW c \in Calls, enter_semaphore(c) PROVE TypeOK' /\ AttemptLeft'
  <2>1. 1 \in 0..max_retries
    OBVIOUS
  <2> QED
    BY <1>3, <2>1 DEF enter_semaphore, breakerVars, TypeOK, AttemptLeft, Places, Goto
<1>4. ASSUME NEW c \in Calls, AttemptSucceeds(c) PROVE TypeOK' /\ AttemptLeft'
  BY <1>4, RecordsTyped DEF AttemptSucceeds, TypeOK, AttemptLeft, Places, Goto
<1>5. ASSUME NEW c \in Calls, AttemptFails(c) PROVE TypeOK' /\ AttemptLeft'
  BY <1>5, FailedAttemptTyped DEF AttemptFails, TypeOK
<1>6. ASSUME NEW c \in Calls, AttemptTimesOut(c) PROVE TypeOK' /\ AttemptLeft'
  <2>1. abandoned' \in Nat
    BY <1>6, SMT DEF AttemptTimesOut, TypeOK
  <2> QED
    BY <1>6, <2>1, FailedAttemptTyped DEF AttemptTimesOut, TypeOK
<1>7. ASSUME NEW c \in Calls, BackoffEnds(c) PROVE TypeOK' /\ AttemptLeft'
  <2>1. attempt[c] + 1 \in 0..max_retries
    BY <1>7 DEF BackoffEnds, TypeOK, AttemptLeft
  <2> QED
    BY <1>7, <2>1 DEF BackoffEnds, breakerVars, TypeOK, AttemptLeft, Places, Goto
<1>8. ASSUME NEW c \in Calls, ComesBack(c) PROVE TypeOK' /\ AttemptLeft'
  BY <1>8 DEF ComesBack, breakerVars, TypeOK, AttemptLeft, Places, Goto
<1>9. CASE RecoveryTimeoutPasses
  BY <1>9 DEF RecoveryTimeoutPasses, TypeOK, AttemptLeft
<1>10. CASE AbandonedThreadEnds
  <2>1. abandoned' \in Nat
    BY <1>10, SMT DEF AbandonedThreadEnds, TypeOK
  <2> QED
    BY <1>10, <2>1 DEF AbandonedThreadEnds, breakerVars, TypeOK, AttemptLeft
<1>11. CASE UNCHANGED vars
  BY <1>11 DEF vars, breakerVars, TypeOK, AttemptLeft
<1> QED
  BY <1>1, <1>2, <1>3, <1>4, <1>5, <1>6, <1>7, <1>8, <1>9, <1>10, <1>11 DEF Next

-------------------------------------------------------------------------------
(* The count. *)

\* What a step does to the breaker: nothing, a success, the admission of the probe, or the
\* failure of a call that is then added to the failed ones.
LEMMA BreakerSteps ==
  ASSUME TypeOK, [Next]_vars
  PROVE  \/ /\ \/ UNCHANGED <<state, failure_count>>
               \/ record_success
               \/ state = "open" /\ state' = "half_open" /\ UNCHANGED failure_count
            /\ Failed' = Failed
         \/ \E c \in Calls \ Failed : record_failure /\ Failed' = Failed \cup {c}
<1> DEFINE Spared == /\ \/ UNCHANGED <<state, failure_count>>
                        \/ record_success
                        \/ state = "open" /\ state' = "half_open" /\ UNCHANGED failure_count
                     /\ Failed' = Failed
           Counted == \E c \in Calls \ Failed : record_failure /\ Failed' = Failed \cup {c}
<1> SUFFICES Spared \/ Counted
  OBVIOUS
<1> USE DEF Failed, TypeOK, Goto, breakerVars
<1>1. ASSUME NEW c \in Calls, check(c) PROVE Spared
  BY <1>1 DEF check
<1>2. ASSUME NEW c \in Calls, acquire_token(c) PROVE Spared
  BY <1>2 DEF acquire_token
<1>3. ASSUME NEW c \in Calls, enter_semaphore(c) PROVE Spared
  BY <1>3 DEF enter_semaphore
<1>4. ASSUME NEW c \in Calls, AttemptSucceeds(c) PROVE Spared
  BY <1>4 DEF AttemptSucceeds
<1>5. ASSUME NEW c \in Calls, pc[c] = "calling", RetryOrGiveUp(c) PROVE Spared \/ Counted
  <2>1. CASE Goto(c, "backoff") /\ UNCHANGED breakerVars
    BY <1>5, <2>1
  <2>2. CASE Goto(c, "failed") /\ record_failure
    <3>1. c \in Calls \ Failed /\ Failed' = Failed \cup {c}
      BY <1>5, <2>2
    <3> QED
      BY <2>2, <3>1
  <2> QED
    BY <1>5, <2>1, <2>2 DEF RetryOrGiveUp
<1>6. ASSUME NEW c \in Calls, BackoffEnds(c) PROVE Spared
  BY <1>6 DEF BackoffEnds
<1>7. ASSUME NEW c \in Calls, ComesBack(c) PROVE Spared
  BY <1>7 DEF ComesBack
<1>8. CASE RecoveryTimeoutPasses \/ AbandonedThreadEnds
  BY <1>8 DEF RecoveryTimeoutPasses, AbandonedThreadEnds
<1>9. CASE UNCHANGED vars
  BY <1>9 DEF vars
<1> QED
  BY <1>1, <1>2, <1>3, <1>4, <1>5, <1>6, <1>7, <1>8, <1>9
     DEF Next, AttemptFails, AttemptTimesOut

\* The failed calls are finitely many, and so they can be counted.
LEMMA FailedFinite == IsFiniteSet(Failed) /\ Cardinality(Failed) \in Nat
BY GatewayAssumption, FS_Subset, FS_CardinalityType DEF GatewayAssumption, Failed

\* GatewayInv holds initially: the breaker is closed and has counted nothing.
LEMMA GatewayInvInit == Init => GatewayInv
<1> SUFFICES ASSUME Init PROVE GatewayInv
  OBVIOUS
<1>1. TypeOK
  <2>1. attempt \in [Calls -> 0..max_retries]
    BY GatewayAssumption DEF Init, GatewayAssumption
  <2> QED
    BY <2>1 DEF Init, TypeOK, CircuitState, Places
<1>2. AttemptLeft
  BY DEF Init, AttemptLeft
<1>3. CountMatchesState
  BY GatewayAssumption DEF Init, CountMatchesState, GatewayAssumption
<1>4. CountIsOfFailedCalls
  BY FailedFinite DEF Init, CountIsOfFailedCalls
<1> QED
  BY <1>1, <1>2, <1>3, <1>4 DEF GatewayInv

\* Every step keeps GatewayInv.  A failure while half open is the case to look at: it opens the
\* breaker without a look at the count, which must have reached the threshold before.
LEMMA GatewayInvNext ==
  ASSUME GatewayInv, [Next]_vars
  PROVE  GatewayInv'
<1> USE DEF GatewayInv
<1>1. TypeOK' /\ AttemptLeft'
  BY GatewayTypesNext
<1>2. CASE /\ \/ UNCHANGED <<state, failure_count>>
              \/ record_success
              \/ state = "open" /\ state' = "half_open" /\ UNCHANGED failure_count
           /\ Failed' = Failed
  <2>1. CountMatchesState'
    BY <1>2, GatewayAssumption
       DEF record_success, CountMatchesState, TypeOK, GatewayAssumption
  <2>2. CountIsOfFailedCalls'
    BY <1>2, FailedFinite DEF record_success, CountIsOfFailedCalls
  <2> QED
    BY <1>1, <2>1, <2>2
<1>3. ASSUME NEW c \in Calls \ Failed, record_failure, Failed' = Failed \cup {c}
      PROVE  GatewayInv'
  <2>1. CountMatchesState'
    BY <1>3, GatewayAssumption
       DEF record_failure, CountMatchesState, TypeOK, CircuitState, GatewayAssumption
  <2>2. Cardinality(Failed \cup {c}) = Cardinality(Failed) + 1
    BY FailedFinite, FS_AddElement
  <2>3. CountIsOfFailedCalls'
    BY <1>3, <2>2, FailedFinite DEF record_failure, CountIsOfFailedCalls, TypeOK
  <2> QED
    BY <1>1, <2>1, <2>3
<1> QED
  BY <1>2, <1>3, BreakerSteps

\* GatewayInv is an invariant of the gateway.
THEOREM GatewayInvariant == Spec => []GatewayInv
<1>1. GatewayInv /\ [Next]_vars => GatewayInv'
  BY GatewayInvNext
<1> QED
  BY <1>1, GatewayInvInit, PTL DEF Spec

-------------------------------------------------------------------------------
(* What follows from it. *)

\* The types of the gateway's variables, and the attempt limit (TypeOK).
THEOREM GatewayTypes == Spec => []TypeOK
<1>1. GatewayInv => TypeOK
  BY DEF GatewayInv
<1> QED
  BY <1>1, GatewayInvariant, PTL

\* The breaker is closed exactly while its count is below the threshold, in whatever order the
\* outcomes of calls admitted earlier are recorded (CountMatchesState).
THEOREM GatewayCountMatchesState == Spec => []CountMatchesState
<1>1. GatewayInv => CountMatchesState
  BY DEF GatewayInv
<1> QED
  BY <1>1, GatewayInvariant, PTL

\* Callers are refused only after failure_threshold calls have failed for good
\* (OpensForFailedCalls).
THEOREM GatewayOpensForFailedCalls == Spec => []OpensForFailedCalls
<1>1. GatewayInv => OpensForFailedCalls
  BY FailedFinite, GatewayAssumption
     DEF GatewayInv, TypeOK, CountMatchesState, CountIsOfFailedCalls, OpensForFailedCalls,
         GatewayAssumption
<1> QED
  BY <1>1, GatewayInvariant, PTL
===============================================================================
