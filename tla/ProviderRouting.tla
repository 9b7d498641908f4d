-------------------------- MODULE ProviderRouting --------------------------
(***************************************************************************)
(* Requests routed to the providers of the compute bridge:                 *)
(* ProviderRouterService, ProviderHealthService and CircuitBreakerService  *)
(* (src/src/compute-bridge/router/), and the executions of                 *)
(* MultiProviderOrchestrationService, which share the breakers.            *)
(*                                                                         *)
(* A request selects a provider that is registered, healthy and not behind *)
(* an open breaker, waits for it, and tries again after an error.  Health  *)
(* checks run beside the requests and write the same metrics.  A request   *)
(* keeps the provider of its last attempt: when no provider can be         *)
(* selected, the error is recorded against that one.  An execution asks    *)
(* the breaker once, before its first attempt, records the outcome of the  *)
(* last one, and knows nothing of health.                                  *)
(***************************************************************************)
EXTENDS Integers, FiniteSets

CONSTANTS
    Providers,
    NoProvider,
    Requests,             \* requests in flight at once (the bound)
    Executions,           \* orchestrated executions at once (the bound)
    MaxRetries,           \* maxRetries of a request
    FailureThreshold,     \* of the breaker
    SuccessThreshold,     \* of the breaker
    UnhealthyThreshold    \* failureThreshold of the health service

VARIABLES
    health,     \* status, consecutiveFailures and activeConnections
    breaker,    \* state, failureCount, successCount, nextAttemptTime passed
    request,    \* the requests in flight
    execution,  \* the provider each orchestrated execution is trying
    down,       \* the providers that fail their health checks
    sound       \* history: the providers that never fail any more

vars == <<health, breaker, request, execution, down, sound>>

Upto(n, max) == IF n > max THEN max ELSE n

(* Bound: the counters stop counting where no comparison tells values      *)
(* apart. *)
Health == [status : {"UNKNOWN", "HEALTHY", "DEGRADED", "UNHEALTHY"},
           failures : 0..UnhealthyThreshold, connections : 0..Cardinality(Requests)]

Breaker == [state : {"CLOSED", "OPEN", "HALF_OPEN"}, failures : 0..FailureThreshold,
            successes : 0..SuccessThreshold, due : BOOLEAN]

Idle == [pc |-> "idle", provider |-> NoProvider, attempt |-> 0]

TypeOK ==
    /\ health \in [Providers -> Health]
    /\ breaker \in [Providers -> Breaker]
    /\ request \in [Requests -> [pc : {"idle", "select", "check", "run"},
                                 provider : Providers \cup {NoProvider}, attempt : 0..MaxRetries]]
    /\ execution \in [Executions -> Providers \cup {NoProvider}]
    /\ down \subseteq Providers
    /\ sound \subseteq Providers

-----------------------------------------------------------------------------
(* ProviderHealthService *)

WithFailure(h) ==
    LET n == Upto(h.failures + 1, UnhealthyThreshold) IN
    [h EXCEPT !.failures = n,
              !.status = IF n >= UnhealthyThreshold THEN "UNHEALTHY"
                         ELSE IF @ = "HEALTHY" THEN "DEGRADED" ELSE @]

Disconnected(h) == [h EXCEPT !.connections = IF @ = 0 THEN 0 ELSE @ - 1]

(* recordRequestSuccess *)
WithSuccess(h) ==
    [Disconnected(h) EXCEPT !.failures = 0,
                            !.status = IF @ = "UNHEALTHY" THEN "DEGRADED" ELSE @]

(* Mutant of Checked: a degraded provider stays degraded. *)
CheckedUnlessDegraded(h, good) ==
    IF ~good THEN WithFailure(h)
    ELSE [h EXCEPT !.failures = 0, !.status = IF @ = "UNHEALTHY" THEN "HEALTHY" ELSE @]

(* updateHealthMetrics: a good check makes an unhealthy or degraded        *)
(* provider healthy, and leaves one that was never judged as it is. *)
Checked(h, good) ==
    IF ~good THEN WithFailure(h)
    ELSE [h EXCEPT !.failures = 0,
                   !.status = IF @ \in {"UNHEALTHY", "DEGRADED"} THEN "HEALTHY" ELSE @]

HealthCheck(p) ==
    /\ health' = [health EXCEPT ![p] = Checked(@, p \notin down)]
    /\ UNCHANGED <<breaker, request, execution, down, sound>>

-----------------------------------------------------------------------------
(* CircuitBreakerService.  The configuration is not read: thresholds and   *)
(* backoff are fixed, and a failure while open puts the next attempt off. *)

Admits(b) == b.state # "OPEN" \/ b.due

(* canExecute: asking an open breaker whose time has come half opens it. *)
Asked(b) ==
    IF b.state = "OPEN" /\ b.due THEN [b EXCEPT !.state = "HALF_OPEN", !.successes = 0] ELSE b

Opened(b) == [b EXCEPT !.state = "OPEN", !.successes = 0, !.due = FALSE]

Closed(b) == [b EXCEPT !.state = "CLOSED", !.failures = 0, !.successes = 0]

(* recordSuccess; successCount is read in the half open state only. *)
RecordSuccess(b) ==
    CASE b.state = "CLOSED" -> [b EXCEPT !.failures = 0]
      [] b.state = "HALF_OPEN" ->
            IF b.successes + 1 >= SuccessThreshold THEN Closed(b)
            ELSE [b EXCEPT !.successes = @ + 1]
      [] b.state = "OPEN" -> b

(* recordFailure *)
RecordFailure(b) ==
    LET c == [b EXCEPT !.failures = Upto(@ + 1, FailureThreshold)] IN
    CASE b.state = "CLOSED" -> IF c.failures >= FailureThreshold THEN Opened(c) ELSE c
      [] b.state = "HALF_OPEN" -> Opened(c)
      [] b.state = "OPEN" -> [c EXCEPT !.due = FALSE]

RecoveryTimeout(p) ==
    /\ breaker[p].state = "OPEN" /\ ~breaker[p].due
    /\ breaker' = [breaker EXCEPT ![p].due = TRUE]
    /\ UNCHANGED <<health, request, execution, down, sound>>

ResetCircuitBreaker(p) ==
    /\ breaker' = [breaker EXCEPT ![p] = Closed(@)]
    /\ UNCHANGED <<health, request, execution, down, sound>>

-----------------------------------------------------------------------------
(* ProviderRouterService *)

Candidates == {p \in Providers : health[p].status = "HEALTHY" /\ Admits(breaker[p])}

Begin(r) ==
    /\ request[r].pc = "idle"
    /\ request' = [request EXCEPT ![r] = [Idle EXCEPT !.pc = "select"]]
    /\ UNCHANGED <<health, breaker, execution, down, sound>>

(* An error: it is recorded against the provider the request holds, which  *)
(* is that of an earlier attempt if none was selected in this one. *)
Fail(r, h, b) ==
    LET p == request[r].provider  n == request[r].attempt + 1 IN
    /\ IF p = NoProvider THEN health' = h /\ breaker' = b
       ELSE /\ health' = [h EXCEPT ![p] = WithFailure(Disconnected(@))]
            /\ breaker' = [b EXCEPT ![p] = RecordFailure(@)]
    /\ request' = [request EXCEPT ![r] =
                      IF n = MaxRetries THEN Idle ELSE [@ EXCEPT !.pc = "select", !.attempt = n]]

AllAsked == [p \in Providers |-> Asked(breaker[p])]

(* Mutant of Select: a provider that cannot be used is counted too. *)
SelectCountingAll(r) ==
    /\ request[r].pc = "select"
    /\ \/ /\ Candidates = {}
          /\ Fail(r, [p \in Providers |->
                        [health[p] EXCEPT !.connections = Upto(@ + 1, Cardinality(Requests))]], AllAsked)
       \/ \E p \in Candidates :
          /\ breaker' = AllAsked
          /\ health' = [health EXCEPT ![p].connections = Upto(@ + 1, Cardinality(Requests))]
          /\ request' = [request EXCEPT ![r].pc = "check", ![r].provider = p]
    /\ UNCHANGED <<execution, down, sound>>

(* selectProvider: every breaker is asked, the strategy picks one of the   *)
(* candidates; an error if there is none. *)
Select(r) ==
    /\ request[r].pc = "select"
    /\ \/ Candidates = {} /\ Fail(r, health, AllAsked)
       \/ \E p \in Candidates :
          /\ breaker' = AllAsked
          /\ health' = [health EXCEPT ![p].connections = Upto(@ + 1, Cardinality(Requests))]
          /\ request' = [request EXCEPT ![r].pc = "check", ![r].provider = p]
    /\ UNCHANGED <<execution, down, sound>>

(* The breaker is asked again when the answer of selectProvider arrives. *)
Check(r) ==
    /\ request[r].pc = "check"
    /\ LET p == request[r].provider IN
         IF Admits(breaker[p])
         THEN /\ breaker' = [breaker EXCEPT ![p] = Asked(@)]
              /\ request' = [request EXCEPT ![r].pc = "run"]
              /\ UNCHANGED health
         ELSE Fail(r, health, breaker)
    /\ UNCHANGED <<execution, down, sound>>

RunSucceeds(r) ==
    /\ request[r].pc = "run"
    /\ LET p == request[r].provider IN
         /\ health' = [health EXCEPT ![p] = WithSuccess(@)]
         /\ breaker' = [breaker EXCEPT ![p] = RecordSuccess(@)]
    /\ request' = [request EXCEPT ![r] = Idle]
    /\ UNCHANGED <<execution, down, sound>>

RunFails(r) ==
    /\ request[r].pc = "run" /\ request[r].provider \notin sound
    /\ Fail(r, health, breaker)
    /\ UNCHANGED <<execution, down, sound>>

-----------------------------------------------------------------------------
(* MultiProviderOrchestrationService.executeWithProvider.  Attempts that   *)
(* fail before the last one write nothing. *)

Execute(x, p) ==
    /\ execution[x] = NoProvider
    /\ Admits(breaker[p])
    /\ breaker' = [breaker EXCEPT ![p] = Asked(@)]
    /\ execution' = [execution EXCEPT ![x] = p]
    /\ UNCHANGED <<health, request, down, sound>>

Executed(x) ==
    /\ execution[x] # NoProvider
    /\ LET p == execution[x] IN
         \/ breaker' = [breaker EXCEPT ![p] = RecordSuccess(@)]
         \/ p \notin sound /\ breaker' = [breaker EXCEPT ![p] = RecordFailure(@)]
    /\ execution' = [execution EXCEPT ![x] = NoProvider]
    /\ UNCHANGED <<health, request, down, sound>>

-----------------------------------------------------------------------------
(* Outside: a provider stops or starts answering, or is sound for good. *)
Flip(p) ==
    /\ p \notin sound
    /\ down' = IF p \in down THEN down \ {p} ELSE down \cup {p}
    /\ UNCHANGED <<health, breaker, request, execution, sound>>

Heal(p) ==
    /\ sound' = sound \cup {p}
    /\ down' = down \ {p}
    /\ UNCHANGED <<health, breaker, request, execution>>

-----------------------------------------------------------------------------
(* registerProvider has been called for every provider. *)
Init ==
    /\ health = [p \in Providers |-> [status |-> "UNKNOWN", failures |-> 0, connections |-> 0]]
    /\ breaker = [p \in Providers |->
                    [state |-> "CLOSED", failures |-> 0, successes |-> 0, due |-> FALSE]]
    /\ request = [r \in Requests |-> Idle]
    /\ execution = [x \in Executions |-> NoProvider]
    /\ down = {} /\ sound = {}

Run(r) == Select(r) \/ Check(r) \/ RunSucceeds(r) \/ RunFails(r)

Next ==
    \/ \E r \in Requests : Begin(r) \/ Run(r)
    \/ \E x \in Executions : Executed(x) \/ \E p \in Providers : Execute(x, p)
    \/ \E p \in Providers :
          HealthCheck(p) \/ RecoveryTimeout(p) \/ ResetCircuitBreaker(p) \/ Flip(p) \/ Heal(p)

Spec == Init /\ [][Next]_vars

-----------------------------------------------------------------------------
InFlight(p) == {r \in Requests : request[r].pc \in {"check", "run"} /\ request[r].provider = p}

(* Requests, errors of requests that reached no provider, orchestrated     *)
(* executions and health checks write the same counters.                   *)
(* activeConnections never counts a request that has ended (a leak would   *)
(* turn the least-connections strategy away from the provider for good), a *)
(* closed breaker is always below its failure threshold, and a half open   *)
(* one below its success threshold.                                        *)
CountersAreBounded ==
    \A p \in Providers :
        /\ health[p].connections <= Cardinality(InFlight(p))
        /\ breaker[p].state = "CLOSED" => breaker[p].failures < FailureThreshold
        /\ breaker[p].state = "HALF_OPEN" => breaker[p].successes < SuccessThreshold

Usable(p) == health[p].status = "HEALTHY" /\ Admits(breaker[p])

(* A provider that has been judged once and is sound from some moment on   *)
(* becomes a candidate again, whatever requests and checks were under way; *)
(* one that was never judged does not. *)
Recovering(p) == p \in sound /\ health[p].status # "UNKNOWN"

Recovers == \A p \in Providers : Recovering(p) ~> Usable(p)

(* The comment at HealthProbeConfig.successThreshold: consecutive          *)
(* successes mark a provider healthy. *)
SoundIsHealthy == \A p \in Providers : p \in sound ~> health[p].status = "HEALTHY"

(* Health checks and the breaker's clock go on, and requests that have     *)
(* begun go on; nobody has to begin one. *)
Progress == (\E r \in Requests : Run(r)) \/ (\E x \in Executions : Executed(x))

Fairness ==
    /\ \A p \in Providers : WF_vars(HealthCheck(p)) /\ WF_vars(RecoveryTimeout(p))
    /\ WF_vars(Progress)

FairSpec == Spec /\ Fairness

-----------------------------------------------------------------------------
(* Why the counters are bounded: a request that was given a provider still *)
(* has it, and one that goes on has an attempt left. *)

RequestsGoOn ==
    \A r \in Requests :
        /\ request[r].pc \in {"check", "run"} => request[r].provider # NoProvider
        /\ request[r].attempt < MaxRetries

RoutingInv == CountersAreBounded /\ RequestsGoOn

=============================================================================
