------------------------------ MODULE LLMClient ------------------------------
(***************************************************************************)
(* The LLM client of internal/llm: a FallbackClient over two clients, each *)
(* a circuit breaker around a provider that is called with retries.        *)
(* Several goroutines share one client.  Of time only what the breaker     *)
(* compares is kept: whether more than resetTimeout has passed since       *)
(* lastFailure.  consecutiveFails is only compared with the threshold, so  *)
(* it stays at the threshold once it is there.                             *)
(***************************************************************************)
EXTENDS Naturals

CONSTANTS
  Callers,      \* goroutines that call Complete
  Threshold,    \* failureThreshold, after its default of 5 is applied
  MaxRetries,   \* Retry.MaxRetries, after its default of 3 is applied
  HasFallback   \* whether Config.Fallback is set

Clients == {"primary", "fallback"}

ASSUME LLMAssumption ==
  /\ Threshold \in Nat \ {0} /\ MaxRetries \in Nat
  /\ HasFallback \in BOOLEAN

VARIABLES
  circuit,          \* state of each breaker
  halfOpenInFlight, \* halfOpenInFlight of each breaker
  consecutiveFails, \* consecutiveFails of each breaker, up to Threshold
  cooled,           \* resetTimeout has passed since lastFailure
  at,               \* where each caller is: idle, gate, sending
  on,               \* the client it calls
  attempt,          \* retries made for its request
  probe,            \* its request was admitted by a breaker that was not closed
  outcome,          \* what its last call returned
  healthy           \* whether each provider answers every request

breaker == <<circuit, halfOpenInFlight, consecutiveFails, cooled>>
request == <<at, on, attempt, probe, outcome>>
vars == <<breaker, request, healthy>>

Init ==
  /\ circuit = [b \in Clients |-> "closed"]
  /\ halfOpenInFlight = [b \in Clients |-> FALSE]
  /\ consecutiveFails = [b \in Clients |-> 0]
  /\ cooled = [b \in Clients |-> TRUE]
  /\ at = [c \in Callers |-> "idle"]
  /\ on = [c \in Callers |-> "primary"]
  /\ attempt = [c \in Callers |-> 0]
  /\ probe = [c \in Callers |-> FALSE]
  /\ outcome = [c \in Callers |-> "none"]
  /\ healthy \in [Clients -> BOOLEAN]
-----------------------------------------------------------------------------
(* FallbackClient.Complete starts with the primary client.                 *)
Complete(c) ==
  /\ at[c] = "idle"
  /\ at' = [at EXCEPT ![c] = "gate"]
  /\ on' = [on EXCEPT ![c] = "primary"]
  /\ outcome' = [outcome EXCEPT ![c] = "none"]
  /\ UNCHANGED <<breaker, attempt, probe, healthy>>

Return(c, result) ==
  /\ at' = [at EXCEPT ![c] = "idle"]
  /\ outcome' = [outcome EXCEPT ![c] = result]
  /\ attempt' = [attempt EXCEPT ![c] = 0]
  /\ probe' = [probe EXCEPT ![c] = FALSE]

Send(c) ==
  /\ at' = [at EXCEPT ![c] = "sending"]
  /\ UNCHANGED <<on, attempt, outcome, consecutiveFails, cooled, healthy>>

(* allowRequest returns nil: the circuit is closed ...                     *)
AllowClosed(c) ==
  /\ at[c] = "gate" /\ circuit[on[c]] = "closed"
  /\ Send(c)
  /\ UNCHANGED <<circuit, halfOpenInFlight, probe>>

(* ... or it becomes, or is, half-open and no probe is in flight.          *)
AllowProbe(c) ==
  LET b == on[c] IN
  /\ at[c] = "gate"
  /\ circuit[b] # "closed"
  /\ IF circuit[b] = "open" THEN cooled[b] ELSE ~halfOpenInFlight[b]
  /\ circuit' = [circuit EXCEPT ![b] = "half-open"]
  /\ halfOpenInFlight' = [halfOpenInFlight EXCEPT ![b] = TRUE]
  /\ probe' = [probe EXCEPT ![c] = TRUE]
  /\ Send(c)

(* allowRequest returns ErrCircuitBreakerOpen: only this error of the       *)
(* primary client sends the request to the fallback.                       *)
RefuseOpen(c) ==
  /\ at[c] = "gate" /\ circuit[on[c]] = "open" /\ ~cooled[on[c]]
  /\ IF HasFallback /\ on[c] = "primary"
     THEN /\ on' = [on EXCEPT ![c] = "fallback"]
          /\ UNCHANGED <<at, attempt, probe, outcome>>
     ELSE Return(c, "refused") /\ UNCHANGED on
  /\ UNCHANGED <<breaker, healthy>>

RefuseHalfOpen(c) ==
  /\ at[c] = "gate" /\ circuit[on[c]] = "half-open" /\ halfOpenInFlight[on[c]]
  /\ Return(c, "refused")
  /\ UNCHANGED <<on, breaker, healthy>>
-----------------------------------------------------------------------------
(* Mutant: the count of failures is not reset.                             *)
RecordSuccessKeepsCount(b) ==
  /\ circuit' = [circuit EXCEPT ![b] = "closed"]
  /\ halfOpenInFlight' = [halfOpenInFlight EXCEPT ![b] = FALSE]
  /\ UNCHANGED <<consecutiveFails, cooled>>

(* Mutant: only a closed circuit is left closed.                           *)
RecordSuccessKeepsState(b) ==
  /\ consecutiveFails' = [consecutiveFails EXCEPT ![b] = 0]
  /\ halfOpenInFlight' = [halfOpenInFlight EXCEPT ![b] = FALSE]
  /\ UNCHANGED <<circuit, cooled>>

(* recordResult(nil).                                                      *)
RecordSuccess(b) ==
  /\ circuit' = [circuit EXCEPT ![b] = "closed"]
  /\ consecutiveFails' = [consecutiveFails EXCEPT ![b] = 0]
  /\ halfOpenInFlight' = [halfOpenInFlight EXCEPT ![b] = FALSE]
  /\ UNCHANGED cooled

(* Mutant: a failed probe leaves the circuit half-open.                    *)
RecordFailureKeepsHalfOpen(b) ==
  LET fails == IF consecutiveFails[b] < Threshold THEN consecutiveFails[b] + 1
                                                  ELSE Threshold
  IN /\ consecutiveFails' = [consecutiveFails EXCEPT ![b] = fails]
     /\ cooled' = [cooled EXCEPT ![b] = FALSE]
     /\ halfOpenInFlight' = [halfOpenInFlight EXCEPT ![b] = FALSE]
     /\ circuit' = IF fails >= Threshold /\ circuit[b] = "closed"
                   THEN [circuit EXCEPT ![b] = "open"] ELSE circuit

(* recordResult(err).                                                      *)
RecordFailure(b) ==
  LET fails == IF consecutiveFails[b] < Threshold THEN consecutiveFails[b] + 1
                                                  ELSE Threshold
  IN /\ consecutiveFails' = [consecutiveFails EXCEPT ![b] = fails]
     /\ cooled' = [cooled EXCEPT ![b] = FALSE]
     /\ halfOpenInFlight' = [halfOpenInFlight EXCEPT ![b] = FALSE]
     /\ circuit' = IF fails >= Threshold
                   THEN [circuit EXCEPT ![b] = "open"] ELSE circuit

(* executeWithRetry: an attempt succeeds, ...                              *)
Succeed(c) ==
  /\ at[c] = "sending"
  /\ RecordSuccess(on[c]) /\ Return(c, "ok")
  /\ UNCHANGED <<on, healthy>>

(* Mutant: one retry too many.                                             *)
RetryOnceMore(c) ==
  /\ at[c] = "sending" /\ ~healthy[on[c]] /\ attempt[c] <= MaxRetries
  /\ attempt' = [attempt EXCEPT ![c] = @ + 1]
  /\ UNCHANGED <<breaker, at, on, probe, outcome, healthy>>

(* Mutant: the count of attempts starts over.                              *)
RetryForever(c) ==
  /\ at[c] = "sending" /\ ~healthy[on[c]]
  /\ attempt' = [attempt EXCEPT ![c] = (@ + 1) % (MaxRetries + 1)]
  /\ UNCHANGED <<breaker, at, on, probe, outcome, healthy>>

(* ... fails and is tried again, ...                                       *)
Retry(c) ==
  /\ at[c] = "sending" /\ ~healthy[on[c]] /\ attempt[c] < MaxRetries
  /\ attempt' = [attempt EXCEPT ![c] = @ + 1]
  /\ UNCHANGED <<breaker, at, on, probe, outcome, healthy>>

(* ... or is the last one: retries exhausted, an error that is not retried, *)
(* or a context cancelled during the wait.                                 *)
GiveUp(c) ==
  /\ at[c] = "sending" /\ ~healthy[on[c]]
  /\ RecordFailure(on[c]) /\ Return(c, "error")
  /\ UNCHANGED <<on, healthy>>
-----------------------------------------------------------------------------
ResetTimeoutPasses(b) ==
  /\ ~cooled[b] /\ cooled' = [cooled EXCEPT ![b] = TRUE]
  /\ UNCHANGED <<circuit, halfOpenInFlight, consecutiveFails, request, healthy>>

ProviderChanges(b) ==
  /\ healthy' = [healthy EXCEPT ![b] = ~@]
  /\ UNCHANGED <<breaker, request>>

Step(c) == \/ AllowClosed(c) \/ AllowProbe(c) \/ RefuseOpen(c) \/ RefuseHalfOpen(c)
           \/ Succeed(c) \/ Retry(c) \/ GiveUp(c)

Next ==
  \/ \E c \in Callers : Complete(c) \/ Step(c)
  \/ \E b \in Clients : ResetTimeoutPasses(b) \/ ProviderChanges(b)

(* Timeout bounds every attempt, so a request does not hang; time passes;  *)
(* and the reconcile loops that call the client call it again.             *)
Fairness ==
  /\ \A c \in Callers : WF_vars(Step(c)) /\ WF_vars(Complete(c))
  /\ \A b \in Clients : WF_vars(ResetTimeoutPasses(b))

Spec == Init /\ [][Next]_vars /\ Fairness
-----------------------------------------------------------------------------
TypeOK ==
  /\ circuit \in [Clients -> {"closed", "open", "half-open"}]
  /\ halfOpenInFlight \in [Clients -> BOOLEAN]
  /\ consecutiveFails \in [Clients -> 0 .. Threshold]
  /\ cooled \in [Clients -> BOOLEAN]
  /\ at \in [Callers -> {"idle", "gate", "sending"}]
  /\ on \in [Callers -> Clients]
  /\ attempt \in [Callers -> 0 .. MaxRetries]
  /\ probe \in [Callers -> BOOLEAN]
  /\ outcome \in [Callers -> {"none", "ok", "error", "refused"}]
  /\ healthy \in [Clients -> BOOLEAN]

Probing(c, b) == at[c] = "sending" /\ on[c] = b /\ probe[c]

(* A half-open breaker is never stuck: the request whose result will move  *)
(* it on is in flight, however late the results of older requests arrive   *)
(* (recordResult clears halfOpenInFlight whoever reports).                 *)
HalfOpenHasProbe ==
  \A b \in Clients :
    circuit[b] = "half-open" => halfOpenInFlight[b] /\ \E c \in Callers : Probing(c, b)

(* The breaker is closed exactly while fewer than Threshold failures have  *)
(* been recorded since the last success, also when results of requests     *)
(* admitted earlier arrive in another state.                               *)
OpenIffTooManyFailures ==
  \A b \in Clients : circuit[b] # "closed" <=> consecutiveFails[b] = Threshold

(* Only one probe is in flight at a time                                   *)
(* (TestCircuitBreakerHalfOpenAllowsOnlyOneInFlightProbe).                 *)
OnlyOneInFlightProbe ==
  \A b \in Clients, c, d \in Callers : Probing(c, b) /\ Probing(d, b) => c = d

(* Complete returns to its caller, through retries, refusals and fallback. *)
EveryCallReturns ==
  \A c \in Callers : at[c] # "idle" ~> at[c] = "idle"

(* Once the primary provider answers every request again, its breaker does *)
(* not keep refusing: probes and late results together close it for good.  *)
BreakerRecovers ==
  <>[]healthy["primary"] => <>[](circuit["primary"] = "closed")
=============================================================================
