---------------------------- MODULE CircuitBreaker ----------------------------
(***************************************************************************)
(* The circuit breaker in front of the VPSie API                           *)
(* (src/pkg/vpsie/client/circuitbreaker.go).  Goroutines of the two        *)
(* controllers and of the rebalancer share one breaker.  A call holds the  *)
(* mutex in beforeCall and in afterCall, and not while the request runs,   *)
(* so each of the two is one action and the state may change in between.   *)
(*                                                                         *)
(* Only transport errors are failures: an HTTP error status is a success   *)
(* (client.go doRequest).  The counters that only feed GetStats and the    *)
(* metrics are left out, and so is Reset, which only tests call.           *)
(***************************************************************************)
EXTENDS Integers, FiniteSets, Sequences

CONSTANTS
  Callers,              \* goroutines that call the API
  FailureThreshold,
  SuccessThreshold,
  MaxHalfOpenRequests,
  WindowSize,           \* SlidingWindowSize, 0: no window
  FailureRate           \* how many failures in the window make up
                        \* FailureRateThreshold, 0: disabled

ASSUME ConfigAssumption ==
  /\ IsFiniteSet(Callers)
  /\ FailureThreshold \in Nat \ {0} /\ SuccessThreshold \in Nat \ {0}
  /\ MaxHalfOpenRequests \in Nat \ {0}
  /\ WindowSize \in Nat /\ FailureRate \in 0..WindowSize

VARIABLES
  state,
  failureCount,      \* saturates at FailureThreshold, above which only the
                     \* failure rate decides
  successCount,      \* saturates at SuccessThreshold; read when half-open
  halfOpenRequests,
  elapsed,           \* has Timeout passed since lastStateChange?
  slidingWindow,     \* TRUE: a success
  windowIndex,
  call,              \* how each caller's request was admitted
  uncounted,         \* history: requests that ended in this half-open period
                     \* without having been counted when they began
  run                \* history: the results recorded since the state changed,
                     \* back to the last one that differs

vars == <<state, failureCount, successCount, halfOpenRequests, elapsed,
          slidingWindow, windowIndex, call, uncounted, run>>

States == {"closed", "open", "half-open"}

\* "counted" and "opener" belong to the current half-open period, "earlier"
\* requests began before the last change of state.
Admissions == {"idle", "normal", "counted", "opener", "earlier"}

Run == [result : {"none", "success", "failure"}, length : Nat]
NoRun == [result |-> "none", length |-> 0]

TypeOK ==
  /\ state \in States
  /\ failureCount \in 0..FailureThreshold
  /\ successCount \in 0..SuccessThreshold
  /\ halfOpenRequests \in Int /\ halfOpenRequests <= MaxHalfOpenRequests
  /\ elapsed \in BOOLEAN
  /\ slidingWindow \in [0..(WindowSize - 1) -> BOOLEAN]
  /\ windowIndex \in Nat /\ (WindowSize > 0 => windowIndex < WindowSize)
  /\ call \in [Callers -> Admissions]
  /\ uncounted \in Nat
  /\ run \in Run

Init ==
  /\ state = "closed"
  /\ failureCount = 0 /\ successCount = 0 /\ halfOpenRequests = 0
  /\ elapsed = FALSE
  /\ slidingWindow = [i \in 0..(WindowSize - 1) |-> TRUE]
  /\ windowIndex = 0
  /\ call = [c \in Callers |-> "idle"]
  /\ uncounted = 0
  /\ run = NoRun

-----------------------------------------------------------------------------

\* Mutant of TransitionTo: the half-open counter is not reset.
TransitionToMutant(newState, c, admission) ==
  /\ state' = newState
  /\ failureCount' = 0 /\ successCount' = 0
  /\ halfOpenRequests' =
       IF state = "half-open" THEN halfOpenRequests - 1 ELSE halfOpenRequests
  /\ elapsed' = FALSE
  /\ call' = [d \in Callers |-> IF d = c THEN admission
                                ELSE IF call[d] = "idle" THEN "idle"
                                ELSE "earlier"]
  /\ uncounted' = 0 /\ run' = NoRun

\* Every change of state starts all the counters afresh.  The requests under
\* way become requests of an earlier period, except c, which causes the change.
TransitionTo(newState, c, admission) ==
  /\ state' = newState
  /\ failureCount' = 0 /\ successCount' = 0 /\ halfOpenRequests' = 0
  /\ elapsed' = FALSE
  /\ call' = [d \in Callers |-> IF d = c THEN admission
                                ELSE IF call[d] = "idle" THEN "idle"
                                ELSE "earlier"]
  /\ uncounted' = 0 /\ run' = NoRun

\* The timeout of the open state runs out.
Elapse ==
  /\ state = "open" /\ ~ elapsed
  /\ elapsed' = TRUE
  /\ UNCHANGED <<state, failureCount, successCount, halfOpenRequests,
                 slidingWindow, windowIndex, call, uncounted, run>>

\* Mutant of BeforeCall: one request too many in the half-open state.
BeforeCallMutant(c) ==
  /\ call[c] = "idle"
  /\ \/ /\ state = "closed"
        /\ call' = [call EXCEPT ![c] = "normal"]
        /\ UNCHANGED <<state, failureCount, successCount, halfOpenRequests,
                       elapsed, uncounted, run>>
     \/ /\ state = "open" /\ elapsed
        /\ TransitionTo("half-open", c, "opener")
     \/ /\ state = "half-open" /\ halfOpenRequests <= MaxHalfOpenRequests
        /\ halfOpenRequests' = halfOpenRequests + 1
        /\ call' = [call EXCEPT ![c] = "counted"]
        /\ UNCHANGED <<state, failureCount, successCount, elapsed, uncounted,
                       run>>
  /\ UNCHANGED <<slidingWindow, windowIndex>>

\* beforeCall, where it lets the request through.  The request that finds the
\* timeout elapsed opens the half-open period and is not counted.
BeforeCall(c) ==
  /\ call[c] = "idle"
  /\ \/ /\ state = "closed"
        /\ call' = [call EXCEPT ![c] = "normal"]
        /\ UNCHANGED <<state, failureCount, successCount, halfOpenRequests,
                       elapsed, uncounted, run>>
     \/ /\ state = "open" /\ elapsed
        /\ TransitionTo("half-open", c, "opener")
     \/ /\ state = "half-open" /\ halfOpenRequests < MaxHalfOpenRequests
        /\ halfOpenRequests' = halfOpenRequests + 1
        /\ call' = [call EXCEPT ![c] = "counted"]
        /\ UNCHANGED <<state, failureCount, successCount, elapsed, uncounted,
                       run>>
  /\ UNCHANGED <<slidingWindow, windowIndex>>

\* beforeCall, where it returns ErrCircuitOpen.
Reject(c) ==
  /\ call[c] = "idle"
  /\ \/ state = "open" /\ ~ elapsed
     \/ state = "half-open" /\ halfOpenRequests >= MaxHalfOpenRequests
  /\ UNCHANGED vars

\* afterCall keeps the result in the window, whatever the state.
Slide(success) ==
  IF WindowSize > 0
  THEN /\ slidingWindow' = [slidingWindow EXCEPT ![windowIndex] = success]
       /\ windowIndex' = (windowIndex + 1) % WindowSize
  ELSE UNCHANGED <<slidingWindow, windowIndex>>

RateReached(window) ==
  \/ FailureRate = 0
  \/ Cardinality({i \in DOMAIN window : ~ window[i]}) >= FailureRate

Saturated(n, bound) == IF n > bound THEN bound ELSE n

Extend(result, bound) ==
  [result |-> result,
   length |-> IF run.result = result THEN Saturated(run.length + 1, bound) ELSE 1]

\* A result in the closed state.
ClosedFailure(c) ==
  LET opens == /\ failureCount + 1 >= FailureThreshold
               /\ RateReached(slidingWindow')
  IN  \/ opens /\ TransitionTo("open", c, "idle")
      \/ /\ ~ opens
         /\ failureCount' = Saturated(failureCount + 1, FailureThreshold)
         /\ successCount' = 0
         /\ run' = Extend("failure", FailureThreshold)
         /\ call' = [call EXCEPT ![c] = "idle"]
         /\ UNCHANGED <<state, halfOpenRequests, elapsed, uncounted>>

\* Mutant of ClosedSuccess: a success does not end a run of failures.
ClosedSuccessMutant(c) ==
  /\ successCount' = Saturated(successCount + 1, SuccessThreshold)
  /\ run' = Extend("success", SuccessThreshold)
  /\ call' = [call EXCEPT ![c] = "idle"]
  /\ UNCHANGED <<state, failureCount, halfOpenRequests, elapsed, uncounted>>

ClosedSuccess(c) ==
  /\ failureCount' = 0
  /\ successCount' = Saturated(successCount + 1, SuccessThreshold)
  /\ run' = Extend("success", SuccessThreshold)
  /\ call' = [call EXCEPT ![c] = "idle"]
  /\ UNCHANGED <<state, halfOpenRequests, elapsed, uncounted>>

\* Mutant of HalfOpenSuccess: only a failure is taken off the counter.
HalfOpenSuccessMutant(c) ==
  IF successCount + 1 >= SuccessThreshold
  THEN TransitionTo("closed", c, "idle")
  ELSE /\ failureCount' = 0
       /\ successCount' = successCount + 1
       /\ uncounted' = IF call[c] = "counted" THEN uncounted ELSE uncounted + 1
       /\ run' = Extend("success", SuccessThreshold)
       /\ call' = [call EXCEPT ![c] = "idle"]
       /\ UNCHANGED <<state, halfOpenRequests, elapsed>>

\* A result in the half-open state: any request that ends is taken off the
\* counter, also one that was never counted.
HalfOpenSuccess(c) ==
  IF successCount + 1 >= SuccessThreshold
  THEN TransitionTo("closed", c, "idle")
  ELSE /\ failureCount' = 0
       /\ successCount' = successCount + 1
       /\ halfOpenRequests' = halfOpenRequests - 1
       /\ uncounted' = IF call[c] = "counted" THEN uncounted ELSE uncounted + 1
       /\ run' = Extend("success", SuccessThreshold)
       /\ call' = [call EXCEPT ![c] = "idle"]
       /\ UNCHANGED <<state, elapsed>>

AfterCall(c) ==
  /\ call[c] # "idle"
  /\ \/ /\ Slide(TRUE)
        /\ \/ state = "closed" /\ ClosedSuccess(c)
           \/ state = "half-open" /\ HalfOpenSuccess(c)
     \/ /\ Slide(FALSE)
        /\ \/ state = "closed" /\ ClosedFailure(c)
           \/ state = "half-open" /\ TransitionTo("open", c, "idle")
     \/ /\ state = "open" /\ \E success \in BOOLEAN : Slide(success)
        /\ call' = [call EXCEPT ![c] = "idle"]
        /\ UNCHANGED <<state, failureCount, successCount, halfOpenRequests,
                       elapsed, uncounted, run>>

Next == Elapse \/ \E c \in Callers : BeforeCall(c) \/ Reject(c) \/ AfterCall(c)

Spec == Init /\ [][Next]_vars

\* Timers run out, the HTTP client's timeout ends every request, and the
\* reconcilers never stop polling the API.
Fairness ==
  /\ WF_vars(Elapse)
  /\ \A c \in Callers : WF_vars(BeforeCall(c)) /\ WF_vars(AfterCall(c))

FairSpec == Spec /\ Fairness

-----------------------------------------------------------------------------
(* Safety.                                                                 *)

Counted == {c \in Callers : call[c] = "counted"}

\* What halfOpenRequests stands for: the counted requests under way, less the
\* requests of other periods that ended and took themselves off the counter
\* (beforeCall, afterCall).  The limit is thus exceeded by just those.
HalfOpenAccounting ==
  /\ state = "half-open" => halfOpenRequests = Cardinality(Counted) - uncounted
  /\ state # "half-open" => halfOpenRequests = 0 /\ Counted = {}

\* The breaker opens only after FailureThreshold failures in a row, and closes
\* only after SuccessThreshold successes in a row, that were recorded since it
\* changed its state: no count survives a change (afterCall, transitionTo).
\* One result less is on the record, the last one makes the step.
ThresholdsMet ==
  [][/\ state = "closed" /\ state' = "open"
          => \/ FailureThreshold = 1
             \/ run.result = "failure" /\ run.length >= FailureThreshold - 1
     /\ state = "half-open" /\ state' = "closed"
          => \/ SuccessThreshold = 1
             \/ run.result = "success" /\ run.length >= SuccessThreshold - 1]_vars

-----------------------------------------------------------------------------
(* Liveness.                                                               *)

\* An open breaker is tried again and a half-open period ends: rejected callers
\* do not wait for a timeout that starts again and again, or for a counter that
\* no request under way will take down (beforeCall, afterCall).
BreakerMovesOn == \A s \in {"open", "half-open"} : state = s ~> state # s

=============================================================================
