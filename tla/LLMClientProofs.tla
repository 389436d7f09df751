--------------------------- MODULE LLMClientProofs ---------------------------
(***************************************************************************)
(* The circuit breaker of internal/llm is never stuck and is closed exactly *)
(* while there is reason to, for any number of callers, any threshold and  *)
(* any retry limit.  The two facts need each other: recordResult leaves the *)
(* half-open state on every result only because a breaker that is not      *)
(* closed has reached its threshold.                                       *)
(***************************************************************************)
EXTENDS LLMClient, TLAPS

(* The inductive invariant, checked by TLC part by part.                   *)
BreakerInv == TypeOK /\ OpenIffTooManyFailures /\ HalfOpenHasProbe

(* Every breaker starts closed with no failures.                           *)
LEMMA BreakerInit == Init => BreakerInv
BY LLMAssumption DEF Init, BreakerInv, TypeOK, OpenIffTooManyFailures,
   HalfOpenHasProbe, Clients

(* A step that leaves the breakers alone and ends no probe preserves the   *)
(* invariant.                                                              *)
LEMMA BreakerUntouched ==
  ASSUME BreakerInv, TypeOK',
         UNCHANGED <<circuit, halfOpenInFlight, consecutiveFails>>,
         \A c \in Callers, b \in Clients : Probing(c, b) => Probing(c, b)'
  PROVE  BreakerInv'
<1>1. OpenIffTooManyFailures'
  BY DEF BreakerInv, OpenIffTooManyFailures
<1>2. HalfOpenHasProbe'
  <2> SUFFICES ASSUME NEW b \in Clients, circuit[b] = "half-open"
               PROVE  halfOpenInFlight[b] /\ \E c \in Callers : Probing(c, b)'
    BY DEF HalfOpenHasProbe
  <2>1. halfOpenInFlight[b] /\ \E c \in Callers : Probing(c, b)
    BY DEF BreakerInv, HalfOpenHasProbe
  <2> QED BY <2>1
<1> QED BY <1>1, <1>2 DEF BreakerInv

(* allowRequest and the callers' own steps.                                *)
LEMMA RequestStep ==
  ASSUME BreakerInv, NEW c \in Callers,
         Complete(c) \/ AllowClosed(c) \/ AllowProbe(c) \/ RefuseOpen(c)
           \/ RefuseHalfOpen(c) \/ Retry(c)
  PROVE  BreakerInv'
<1>1. CASE Complete(c)
  <2>1. TypeOK'
    BY <1>1 DEF BreakerInv, TypeOK, Complete, breaker, Clients
  <2>2. \A e \in Callers, d \in Clients : Probing(e, d) => Probing(e, d)'
    BY <1>1 DEF BreakerInv, TypeOK, Complete, Probing
  <2> QED BY <1>1, <2>1, <2>2, BreakerUntouched DEF Complete, breaker
<1>2. CASE AllowClosed(c)
  <2>1. TypeOK'
    BY <1>2 DEF BreakerInv, TypeOK, AllowClosed, Send
  <2>2. \A e \in Callers, d \in Clients : Probing(e, d) => Probing(e, d)'
    BY <1>2 DEF BreakerInv, TypeOK, AllowClosed, Send, Probing
  <2> QED BY <1>2, <2>1, <2>2, BreakerUntouched DEF AllowClosed, Send
<1>3. CASE AllowProbe(c)
  <2>0. PICK b \in Clients : b = on[c]
    BY DEF BreakerInv, TypeOK
  <2>1. /\ circuit' = [circuit EXCEPT ![b] = "half-open"]
        /\ halfOpenInFlight' = [halfOpenInFlight EXCEPT ![b] = TRUE]
        /\ circuit[b] # "closed" /\ UNCHANGED <<on, consecutiveFails>>
    BY <1>3, <2>0 DEF AllowProbe, Send
  <2>2. TypeOK'
    BY <1>3, <2>1 DEF BreakerInv, TypeOK, AllowProbe, Send
  <2>3. OpenIffTooManyFailures'
    BY <2>1 DEF BreakerInv, TypeOK, OpenIffTooManyFailures
  <2>4. halfOpenInFlight'[b] /\ Probing(c, b)'
    BY <1>3, <2>0, <2>1 DEF BreakerInv, TypeOK, Probing, AllowProbe, Send
  <2>5. ASSUME NEW d \in Clients \ {b}, circuit'[d] = "half-open"
        PROVE  halfOpenInFlight'[d] /\ \E e \in Callers : Probing(e, d)'
    <3>1. circuit[d] = "half-open" /\ halfOpenInFlight'[d] = halfOpenInFlight[d]
      BY <1>3, <2>1, <2>5 DEF BreakerInv, TypeOK, AllowProbe
    <3>2. PICK e \in Callers : Probing(e, d)
      BY <3>1 DEF BreakerInv, HalfOpenHasProbe
    <3>3. Probing(e, d)'
      BY <1>3, <3>2 DEF Probing, AllowProbe, Send, BreakerInv, TypeOK
    <3> QED BY <3>1, <3>3 DEF BreakerInv, HalfOpenHasProbe
  <2>6. HalfOpenHasProbe'
    BY <2>4, <2>5 DEF HalfOpenHasProbe
  <2> QED BY <2>2, <2>3, <2>6 DEF BreakerInv
<1>4. CASE RefuseOpen(c)
  <2>1. TypeOK'
    <3>1. CASE HasFallback /\ on[c] = "primary"
      BY <1>4, <3>1 DEF BreakerInv, TypeOK, RefuseOpen, breaker, Clients
    <3>2. CASE ~(HasFallback /\ on[c] = "primary")
      <4>1. Return(c, "refused") /\ UNCHANGED <<on, breaker, healthy>>
        BY <1>4, <3>2 DEF RefuseOpen
      <4> QED BY <4>1, LLMAssumption DEF BreakerInv, TypeOK, Return, breaker
    <3> QED BY <3>1, <3>2
  <2>2. \A e \in Callers, d \in Clients : Probing(e, d) => Probing(e, d)'
    <3>1. CASE HasFallback /\ on[c] = "primary"
      BY <1>4, <3>1 DEF BreakerInv, TypeOK, RefuseOpen, Probing
    <3>2. CASE ~(HasFallback /\ on[c] = "primary")
      BY <1>4, <3>2 DEF BreakerInv, TypeOK, RefuseOpen, Return, Probing
    <3> QED BY <3>1, <3>2
  <2> QED BY <1>4, <2>1, <2>2, BreakerUntouched DEF RefuseOpen, breaker
<1>5. CASE RefuseHalfOpen(c)
  <2>1. TypeOK'
    BY <1>5, LLMAssumption DEF BreakerInv, TypeOK, RefuseHalfOpen, Return, breaker
  <2>2. \A e \in Callers, d \in Clients : Probing(e, d) => Probing(e, d)'
    BY <1>5 DEF BreakerInv, TypeOK, RefuseHalfOpen, Return, Probing
  <2> QED BY <1>5, <2>1, <2>2, BreakerUntouched DEF RefuseHalfOpen, breaker
<1>6. CASE Retry(c)
  <2>1. TypeOK'
    BY <1>6, LLMAssumption DEF BreakerInv, TypeOK, Retry, breaker
  <2>2. \A e \in Callers, d \in Clients : Probing(e, d) => Probing(e, d)'
    BY <1>6 DEF BreakerInv, TypeOK, Retry, Probing
  <2> QED BY <1>6, <2>1, <2>2, BreakerUntouched DEF Retry, breaker
<1> QED BY <1>1, <1>2, <1>3, <1>4, <1>5, <1>6

(* recordResult: whoever reports, the breaker is not half-open afterwards. *)
LEMMA ResultStep ==
  ASSUME BreakerInv, NEW c \in Callers, Succeed(c) \/ GiveUp(c)
  PROVE  BreakerInv'
<1> DEFINE b == on[c]
<1>0. b \in Clients /\ consecutiveFails[b] \in 0 .. Threshold
  BY DEF BreakerInv, TypeOK
<1>1. /\ circuit'[b] # "half-open"
      /\ circuit'[b] # "closed" <=> consecutiveFails'[b] = Threshold
      /\ TypeOK'
      /\ \A d \in Clients \ {b} : /\ circuit'[d] = circuit[d]
                                  /\ consecutiveFails'[d] = consecutiveFails[d]
                                  /\ halfOpenInFlight'[d] = halfOpenInFlight[d]
  <2>1. CASE Succeed(c)
    BY <2>1, <1>0, LLMAssumption DEF BreakerInv, TypeOK, Succeed, RecordSuccess, Return
  <2>2. CASE GiveUp(c)
    <3> DEFINE fails == IF consecutiveFails[b] < Threshold
                        THEN consecutiveFails[b] + 1 ELSE Threshold
    <3>1. /\ consecutiveFails' = [consecutiveFails EXCEPT ![b] = fails]
          /\ circuit' = IF fails >= Threshold
                        THEN [circuit EXCEPT ![b] = "open"] ELSE circuit
          /\ halfOpenInFlight' = [halfOpenInFlight EXCEPT ![b] = FALSE]
          /\ cooled' = [cooled EXCEPT ![b] = FALSE]
      BY <2>2 DEF GiveUp, RecordFailure
    <3>2. fails \in 0 .. Threshold /\ (fails >= Threshold <=> fails = Threshold)
      BY <1>0, LLMAssumption
    <3>3. circuit[b] # "closed" => fails = Threshold
      BY <1>0, LLMAssumption DEF BreakerInv, OpenIffTooManyFailures
    <3>4. TypeOK'
      <4>1. /\ consecutiveFails' \in [Clients -> 0 .. Threshold]
            /\ circuit' \in [Clients -> {"closed", "open", "half-open"}]
            /\ halfOpenInFlight' \in [Clients -> BOOLEAN]
            /\ cooled' \in [Clients -> BOOLEAN]
        BY <3>1, <3>2, <1>0 DEF BreakerInv, TypeOK
      <4> QED BY <2>2, <4>1, LLMAssumption DEF BreakerInv, TypeOK, GiveUp, Return
    <3> HIDE DEF fails
    <3> QED BY <3>1, <3>2, <3>3, <3>4, <1>0 DEF BreakerInv, TypeOK
  <2> QED BY <2>1, <2>2
<1>2. OpenIffTooManyFailures'
  BY <1>0, <1>1 DEF BreakerInv, OpenIffTooManyFailures
<1>3. ASSUME NEW d \in Clients, circuit'[d] = "half-open"
      PROVE  halfOpenInFlight'[d] /\ \E e \in Callers : Probing(e, d)'
  <2>1. d # b /\ circuit[d] = "half-open" /\ halfOpenInFlight'[d] = halfOpenInFlight[d]
    BY <1>1, <1>3
  <2>2. PICK e \in Callers : Probing(e, d)
    BY <2>1 DEF BreakerInv, HalfOpenHasProbe
  <2>3. e # c
    BY <2>1, <2>2 DEF Probing
  <2>4. Probing(e, d)'
    BY <2>2, <2>3 DEF Probing, Succeed, GiveUp, Return, BreakerInv, TypeOK
  <2> QED BY <2>1, <2>4 DEF BreakerInv, HalfOpenHasProbe
<1>4. HalfOpenHasProbe'
  BY <1>3 DEF HalfOpenHasProbe
<1> QED BY <1>1, <1>2, <1>4 DEF BreakerInv

(* Every step preserves the invariant.                                     *)
LEMMA BreakerNext == BreakerInv /\ [Next]_vars => BreakerInv'
<1> SUFFICES ASSUME BreakerInv, [Next]_vars PROVE BreakerInv'
  OBVIOUS
<1>1. CASE \E c \in Callers : Complete(c) \/ Step(c)
  BY <1>1, RequestStep, ResultStep DEF Step
<1>2. CASE \E b \in Clients : ResetTimeoutPasses(b)
  <2>1. TypeOK'
    BY <1>2 DEF BreakerInv, TypeOK, ResetTimeoutPasses, request
  <2> QED BY <1>2, <2>1, BreakerUntouched DEF ResetTimeoutPasses, request, Probing
<1>3. CASE \E b \in Clients : ProviderChanges(b)
  <2>1. TypeOK'
    BY <1>3 DEF BreakerInv, TypeOK, ProviderChanges, breaker, request
  <2> QED BY <1>3, <2>1, BreakerUntouched DEF ProviderChanges, breaker, request, Probing
<1>4. CASE UNCHANGED vars
  <2>1. TypeOK'
    BY <1>4 DEF BreakerInv, TypeOK, vars, breaker, request
  <2> QED BY <1>4, <2>1, BreakerUntouched DEF vars, breaker, request, Probing
<1> QED BY <1>1, <1>2, <1>3, <1>4 DEF Next

(* The inductive invariant holds of every behaviour.                       *)
THEOREM BreakerInvariance == Spec => []BreakerInv
BY BreakerInit, BreakerNext, PTL DEF Spec

(* The client's state keeps its types.                                     *)
THEOREM LLMTypeCorrect == Spec => []TypeOK
BY BreakerInvariance, PTL DEF BreakerInv

(* A half-open breaker always has the probe in flight that will move it on *)
(* (allowRequest, recordResult).                                           *)
THEOREM HalfOpenHasProbeHolds == Spec => []HalfOpenHasProbe
BY BreakerInvariance, PTL DEF BreakerInv

(* A breaker is closed exactly while fewer than Threshold failures have    *)
(* been recorded since the last success (recordResult).                    *)
THEOREM OpenIffTooManyFailuresHolds == Spec => []OpenIffTooManyFailures
BY BreakerInvariance, PTL DEF BreakerInv
=============================================================================
