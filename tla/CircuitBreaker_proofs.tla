------------------------ MODULE CircuitBreaker_proofs ------------------------
(***************************************************************************)
(* Proofs about CircuitBreaker, for every number of callers and every      *)
(* configuration.                                                          *)
(***************************************************************************)
EXTENDS CircuitBreaker, FiniteSetTheorems, TLAPS

-----------------------------------------------------------------------------
(* Type correctness.                                                       *)

LEMMA SaturatedType ==
  ASSUME NEW n \in Nat, NEW bound \in Nat
  PROVE  Saturated(n, bound) \in 0..bound
BY DEF Saturated

LEMMA ExtendType ==
  ASSUME TypeOK, NEW result \in {"success", "failure"}, NEW bound \in Nat
  PROVE  Extend(result, bound) \in Run
<1>1. run.length + 1 \in Nat
  BY DEF TypeOK, Run
<1>2. Saturated(run.length + 1, bound) \in Nat
  BY <1>1 DEF Saturated
<1> DEFINE length ==
      IF run.result = result THEN Saturated(run.length + 1, bound) ELSE 1
<1>3. length \in Nat
  BY <1>2
<1>4. [result |-> result, length |-> length] \in Run
  BY <1>3 DEF Run
<1> QED BY <1>4 DEF Extend

LEMMA NoRunType == NoRun \in Run
BY DEF NoRun, Run

LEMMA SlideType ==
  ASSUME TypeOK, NEW success \in BOOLEAN, Slide(success)
  PROVE  /\ slidingWindow' \in [0..(WindowSize - 1) -> BOOLEAN]
         /\ windowIndex' \in Nat /\ (WindowSize > 0 => windowIndex' < WindowSize)
BY ConfigAssumption DEF TypeOK, Slide

\* What a change of state leaves of the types.
LEMMA TransitionToType ==
  ASSUME TypeOK, NEW newState \in States, NEW c \in Callers,
         NEW admission \in Admissions, TransitionTo(newState, c, admission)
  PROVE  /\ state' \in States
         /\ failureCount' \in 0..FailureThreshold
         /\ successCount' \in 0..SuccessThreshold
         /\ halfOpenRequests' \in Int
         /\ halfOpenRequests' <= MaxHalfOpenRequests
         /\ elapsed' \in BOOLEAN
         /\ call' \in [Callers -> Admissions]
         /\ uncounted' \in Nat
         /\ run' \in Run
<1>1. call' \in [Callers -> Admissions]
  BY DEF TypeOK, TransitionTo, Admissions
<1>2. /\ state' = newState /\ elapsed' = FALSE
      /\ failureCount' = 0 /\ successCount' = 0 /\ halfOpenRequests' = 0
      /\ uncounted' = 0 /\ run' = NoRun
  BY DEF TransitionTo
<1>3. /\ 0 \in 0..FailureThreshold /\ 0 \in 0..SuccessThreshold
      /\ 0 <= MaxHalfOpenRequests
  BY ConfigAssumption
<1>4. state' \in States /\ elapsed' \in BOOLEAN
  BY <1>2
<1>5. run' \in Run
  BY <1>2, NoRunType
<1>6. /\ failureCount' \in 0..FailureThreshold
      /\ successCount' \in 0..SuccessThreshold
      /\ halfOpenRequests' \in Int /\ uncounted' \in Nat
      /\ halfOpenRequests' <= MaxHalfOpenRequests
  BY <1>2, <1>3
<1> QED BY <1>1, <1>4, <1>5, <1>6

\* A result in the closed or half-open state keeps the types.
LEMMA ResultType ==
  ASSUME TypeOK, NEW c \in Callers,
         \/ ClosedSuccess(c) \/ ClosedFailure(c)
         \/ state = "half-open" /\ HalfOpenSuccess(c)
         \/ TransitionTo("open", c, "idle")
  PROVE  /\ state' \in States
         /\ failureCount' \in 0..FailureThreshold
         /\ successCount' \in 0..SuccessThreshold
         /\ halfOpenRequests' \in Int
         /\ halfOpenRequests' <= MaxHalfOpenRequests
         /\ elapsed' \in BOOLEAN
         /\ call' \in [Callers -> Admissions]
         /\ uncounted' \in Nat
         /\ run' \in Run
<1>1. CASE TransitionTo("open", c, "idle")
  BY <1>1, TransitionToType DEF States, Admissions
<1>2. CASE TransitionTo("closed", c, "idle")
  BY <1>2, TransitionToType DEF States, Admissions
<1>3. CASE ClosedSuccess(c)
  <2>1. run' \in Run
    BY <1>3, ExtendType, ConfigAssumption DEF ClosedSuccess
  <2>2. successCount' \in 0..SuccessThreshold
    BY <1>3, SaturatedType, ConfigAssumption DEF ClosedSuccess, TypeOK
  <2> QED BY <1>3, <2>1, <2>2, ConfigAssumption DEF ClosedSuccess, TypeOK, Admissions
<1>4. CASE ClosedFailure(c) /\ ~ TransitionTo("open", c, "idle")
  <2>1. run' \in Run
    BY <1>4, ExtendType, ConfigAssumption DEF ClosedFailure
  <2>2. failureCount' \in 0..FailureThreshold
    BY <1>4, SaturatedType, ConfigAssumption DEF ClosedFailure, TypeOK
  <2> QED BY <1>4, <2>1, <2>2, ConfigAssumption DEF ClosedFailure, TypeOK, Admissions
<1>5. CASE HalfOpenSuccess(c) /\ ~ TransitionTo("closed", c, "idle")
  <2>1. run' \in Run
    BY <1>5, ExtendType, ConfigAssumption DEF HalfOpenSuccess
  <2> QED BY <1>5, <2>1, ConfigAssumption
          DEF HalfOpenSuccess, TypeOK, Admissions
<1> QED BY <1>1, <1>2, <1>3, <1>4, <1>5

LEMMA TypeStep == TypeOK /\ [Next]_vars => TypeOK'
<1> SUFFICES ASSUME TypeOK, [Next]_vars PROVE TypeOK' OBVIOUS
<1>1. CASE Elapse
  BY <1>1 DEF Elapse, TypeOK
<1>2. ASSUME NEW c \in Callers, BeforeCall(c) PROVE TypeOK'
  <2>1. CASE TransitionTo("half-open", c, "opener")
    BY <1>2, <2>1, TransitionToType DEF BeforeCall, States, Admissions, TypeOK
  <2>2. CASE ~ TransitionTo("half-open", c, "opener")
    BY <1>2, <2>2, ConfigAssumption DEF BeforeCall, TypeOK, Admissions
  <2> QED BY <2>1, <2>2
<1>3. ASSUME NEW c \in Callers, Reject(c) PROVE TypeOK'
  BY <1>3 DEF Reject, vars, TypeOK
<1>4. ASSUME NEW c \in Callers, AfterCall(c) PROVE TypeOK'
  <2>1. PICK success \in BOOLEAN : Slide(success)
    BY <1>4 DEF AfterCall
  <2>2. /\ slidingWindow' \in [0..(WindowSize - 1) -> BOOLEAN]
        /\ windowIndex' \in Nat
        /\ WindowSize > 0 => windowIndex' < WindowSize
    BY <2>1, SlideType
  <2>3. CASE state = "open"
    BY <1>4, <2>2, <2>3 DEF AfterCall, TypeOK, Admissions
  <2>4. CASE state # "open"
    <3>1. \/ ClosedSuccess(c) \/ ClosedFailure(c)
          \/ state = "half-open" /\ HalfOpenSuccess(c)
          \/ TransitionTo("open", c, "idle")
      BY <1>4, <2>4 DEF AfterCall
    <3> QED BY <3>1, <2>2, ResultType DEF TypeOK
  <2> QED BY <2>3, <2>4
<1>5. CASE UNCHANGED vars
  BY <1>5 DEF vars, TypeOK
<1> QED BY <1>1, <1>2, <1>3, <1>4, <1>5 DEF Next

LEMMA InitType == Init => TypeOK
<1> SUFFICES ASSUME Init PROVE TypeOK OBVIOUS
<1>1. /\ 0 \in 0..FailureThreshold /\ 0 \in 0..SuccessThreshold
      /\ 0 <= MaxHalfOpenRequests
      /\ WindowSize > 0 => 0 < WindowSize
  BY ConfigAssumption
<1>2. /\ slidingWindow \in [0..(WindowSize - 1) -> BOOLEAN]
      /\ call \in [Callers -> Admissions]
  BY DEF Init, Admissions
<1>3. run \in Run
  BY NoRunType DEF Init
<1>4. /\ failureCount \in 0..FailureThreshold
      /\ successCount \in 0..SuccessThreshold
      /\ halfOpenRequests \in Int /\ halfOpenRequests <= MaxHalfOpenRequests
      /\ uncounted \in Nat
      /\ windowIndex \in Nat /\ (WindowSize > 0 => windowIndex < WindowSize)
  BY <1>1 DEF Init
<1>5. state \in States /\ elapsed \in BOOLEAN
  BY DEF Init, States
<1> QED BY <1>2, <1>3, <1>4, <1>5 DEF TypeOK

\* The counters keep within their limits: at most MaxHalfOpenRequests requests
\* are counted in the half-open state, and each counter within its threshold.
THEOREM TypeCorrect == Spec => []TypeOK
<1> QED BY InitType, TypeStep, PTL DEF Spec

-----------------------------------------------------------------------------
(* The half-open counter.                                                  *)

LEMMA CountedFinite ==
  IsFiniteSet(Counted) /\ Cardinality(Counted) \in Nat
<1>1. IsFiniteSet(Counted)
  BY ConfigAssumption, FS_Subset DEF Counted
<1> QED BY <1>1, FS_CardinalityType

\* A change of state leaves no counted request.
LEMMA TransitionToCounted ==
  ASSUME TypeOK, NEW newState, NEW c \in Callers,
         NEW admission \in Admissions \ {"counted"},
         TransitionTo(newState, c, admission)
  PROVE  Counted' = {} /\ halfOpenRequests' = 0 /\ uncounted' = 0
BY DEF TransitionTo, Counted

LEMMA AccountingStep ==
  TypeOK /\ HalfOpenAccounting /\ [Next]_vars => HalfOpenAccounting'
<1> SUFFICES ASSUME TypeOK, HalfOpenAccounting, [Next]_vars
             PROVE  HalfOpenAccounting'
  OBVIOUS
\* A change of state.
<1>1. ASSUME NEW c \in Callers, NEW newState,
             NEW admission \in Admissions \ {"counted"},
             TransitionTo(newState, c, admission)
      PROVE  HalfOpenAccounting'
  BY <1>1, TransitionToCounted, FS_EmptySet DEF HalfOpenAccounting
\* No state change and no counted request before or after.
<1>2. ASSUME state # "half-open", NEW c \in Callers,
             UNCHANGED <<state, halfOpenRequests>>,
             \/ call' = [call EXCEPT ![c] = "normal"]
             \/ call' = [call EXCEPT ![c] = "idle"]
      PROVE  HalfOpenAccounting'
  <2>1. Counted' \subseteq Counted
    BY <1>2 DEF Counted, TypeOK
  <2> QED BY <1>2, <2>1 DEF HalfOpenAccounting
<1>3. CASE Elapse
  BY <1>3 DEF Elapse, HalfOpenAccounting, Counted
<1>4. ASSUME NEW c \in Callers, BeforeCall(c) PROVE HalfOpenAccounting'
  <2>1. CASE state = "closed"
    BY <1>2, <1>4, <2>1 DEF BeforeCall
  <2>2. CASE state = "open"
    BY <1>1, <1>4, <2>2 DEF BeforeCall, Admissions
  <2>3. CASE state = "half-open"
    <3>1. Counted' = Counted \cup {c} /\ c \notin Counted
      BY <1>4, <2>3 DEF BeforeCall, Counted, TypeOK
    <3>2. Cardinality(Counted') = Cardinality(Counted) + 1
      BY <3>1, CountedFinite, FS_AddElement
    <3>3. Cardinality(Counted) \in Nat /\ halfOpenRequests \in Int
          /\ uncounted \in Nat
      BY CountedFinite DEF TypeOK
    <3> QED BY <1>4, <2>3, <3>2, <3>3 DEF BeforeCall, HalfOpenAccounting
  <2> QED BY <1>4, <2>1, <2>2, <2>3 DEF BeforeCall
<1>5. ASSUME NEW c \in Callers, Reject(c) PROVE HalfOpenAccounting'
  BY <1>5 DEF Reject, vars, HalfOpenAccounting, Counted
<1>6. ASSUME NEW c \in Callers, AfterCall(c) PROVE HalfOpenAccounting'
  <2>1. CASE TransitionTo("open", c, "idle") \/ TransitionTo("closed", c, "idle")
    BY <1>1, <2>1 DEF Admissions
  <2>2. CASE state # "half-open" /\ ~ TransitionTo("open", c, "idle")
    BY <1>2, <1>6, <2>2 DEF AfterCall, ClosedSuccess, ClosedFailure
  <2>3. CASE state = "half-open" /\ ~ TransitionTo("open", c, "idle")
             /\ ~ TransitionTo("closed", c, "idle")
    <3>1. /\ state' = "half-open"
          /\ halfOpenRequests' = halfOpenRequests - 1
          /\ uncounted' = IF call[c] = "counted" THEN uncounted
                                                 ELSE uncounted + 1
          /\ call' = [call EXCEPT ![c] = "idle"]
      BY <1>6, <2>3 DEF AfterCall, HalfOpenSuccess
    <3>2. Counted' = Counted \ {c} /\ (c \in Counted <=> call[c] = "counted")
      BY <3>1 DEF Counted, TypeOK
    <3>3. Cardinality(Counted') = IF c \in Counted THEN Cardinality(Counted) - 1
                                                   ELSE Cardinality(Counted)
      BY <3>2, CountedFinite, FS_RemoveElement
    <3>4. Cardinality(Counted) \in Nat /\ halfOpenRequests \in Int
          /\ uncounted \in Nat
      BY CountedFinite DEF TypeOK
    <3> QED BY <2>3, <3>1, <3>2, <3>3, <3>4 DEF HalfOpenAccounting
  <2> QED BY <2>1, <2>2, <2>3
<1>7. CASE UNCHANGED vars
  BY <1>7 DEF vars, HalfOpenAccounting, Counted
<1> QED BY <1>3, <1>4, <1>5, <1>6, <1>7 DEF Next

\* The half-open counter is the number of counted requests under way, less the
\* requests that took themselves off without having been counted.
THEOREM HalfOpenCounter == Spec => []HalfOpenAccounting
<1>1. Init => HalfOpenAccounting
  BY DEF Init, HalfOpenAccounting, Counted
<1>2. Init => TypeOK
  BY InitType
<1>3. (TypeOK /\ HalfOpenAccounting) /\ [Next]_vars
         => (TypeOK /\ HalfOpenAccounting)'
  BY TypeStep, AccountingStep
<1> QED BY <1>1, <1>2, <1>3, PTL DEF Spec

\* The limit on half-open requests from both sides.  Those admitted at once exceed it
\* by no more than the requests of other periods that have ended since; and nobody is
\* rejected while there is room: the limit is reached only by requests that are under
\* way, and whose end takes the counter down again (beforeCall, afterCall).
HalfOpenLimit ==
  state = "half-open" =>
    /\ Cardinality(Counted) <= MaxHalfOpenRequests + uncounted
    /\ halfOpenRequests >= MaxHalfOpenRequests
         => Cardinality(Counted) >= MaxHalfOpenRequests

\* For any number of callers and any limit; in particular a half-open breaker that
\* waits for nobody lets a call through, on which BreakerMovesOn rests.
THEOREM HalfOpenAdmission ==
  Spec => [](HalfOpenLimit
             /\ (state = "half-open" /\ Counted = {}
                   => halfOpenRequests < MaxHalfOpenRequests))
<1>1. ASSUME TypeOK, HalfOpenAccounting, state = "half-open"
      PROVE  /\ halfOpenRequests = Cardinality(Counted) - uncounted
             /\ halfOpenRequests <= MaxHalfOpenRequests
             /\ {Cardinality(Counted), uncounted, MaxHalfOpenRequests} \subseteq Nat
  BY <1>1, CountedFinite, ConfigAssumption DEF TypeOK, HalfOpenAccounting
<1>2. TypeOK /\ HalfOpenAccounting => HalfOpenLimit
  BY <1>1 DEF HalfOpenLimit
<1>3. TypeOK /\ HalfOpenAccounting
        => (state = "half-open" /\ Counted = {}
              => halfOpenRequests < MaxHalfOpenRequests)
  <2> SUFFICES ASSUME TypeOK, HalfOpenAccounting, state = "half-open", Counted = {}
               PROVE  halfOpenRequests < MaxHalfOpenRequests
    OBVIOUS
  <2>1. Cardinality(Counted) = 0
    BY FS_EmptySet
  <2> QED
    BY <1>1, <2>1, ConfigAssumption
<1> QED
  BY <1>2, <1>3, TypeCorrect, HalfOpenCounter, PTL

-----------------------------------------------------------------------------
(* The thresholds.                                                         *)

\* The counters that decide are the lengths of runs of equal results.
Streaks ==
  /\ state = "closed"
       => failureCount = IF run.result = "failure" THEN run.length ELSE 0
  /\ state = "half-open"
       => successCount = IF run.result = "success" THEN run.length ELSE 0

LEMMA StreaksStep == TypeOK /\ Streaks /\ [Next]_vars => Streaks'
<1> SUFFICES ASSUME TypeOK, Streaks, [Next]_vars PROVE Streaks' OBVIOUS
<1>1. ASSUME NEW c, NEW newState, NEW admission,
             TransitionTo(newState, c, admission)
      PROVE  Streaks'
  BY <1>1 DEF TransitionTo, NoRun, Streaks
<1>2. ASSUME UNCHANGED <<state, failureCount, successCount, run>>
      PROVE  Streaks'
  BY <1>2 DEF Streaks
<1>3. CASE Elapse
  BY <1>2, <1>3 DEF Elapse
<1>4. ASSUME NEW c \in Callers, BeforeCall(c) PROVE Streaks'
  BY <1>1, <1>2, <1>4 DEF BeforeCall
<1>5. ASSUME NEW c \in Callers, Reject(c) PROVE Streaks'
  BY <1>2, <1>5 DEF Reject, vars
<1>6. ASSUME NEW c \in Callers, AfterCall(c) PROVE Streaks'
  <2>1. CASE state = "closed" /\ ClosedSuccess(c)
    BY <2>1 DEF ClosedSuccess, Extend, Streaks
  <2>2. CASE state = "closed" /\ ClosedFailure(c)
    <3>1. CASE TransitionTo("open", c, "idle")
      BY <1>1, <3>1
    <3>2. CASE ~ TransitionTo("open", c, "idle")
      <4>1. /\ state' = "closed"
            /\ failureCount' = Saturated(failureCount + 1, FailureThreshold)
            /\ run' = Extend("failure", FailureThreshold)
        BY <2>2, <3>2 DEF ClosedFailure
      <4>2. run'.result = "failure"
            /\ run'.length = IF run.result = "failure"
                             THEN Saturated(run.length + 1, FailureThreshold)
                             ELSE 1
        BY <4>1 DEF Extend
      <4>3. Saturated(1, FailureThreshold) = 1
        BY ConfigAssumption DEF Saturated
      <4> QED BY <2>2, <4>1, <4>2, <4>3 DEF Streaks
    <3> QED BY <3>1, <3>2
  <2>3. CASE state = "half-open" /\ HalfOpenSuccess(c)
    <3>1. CASE TransitionTo("closed", c, "idle")
      BY <1>1, <3>1
    <3>2. CASE ~ TransitionTo("closed", c, "idle")
      <4>1. /\ state' = "half-open" /\ successCount + 1 < SuccessThreshold
            /\ successCount' = successCount + 1
            /\ run' = Extend("success", SuccessThreshold)
        BY <2>3, <3>2, ConfigAssumption DEF HalfOpenSuccess, TypeOK
      <4>2. run'.result = "success"
            /\ run'.length = IF run.result = "success"
                             THEN Saturated(run.length + 1, SuccessThreshold)
                             ELSE 1
        BY <4>1 DEF Extend
      <4> QED BY <2>3, <4>1, <4>2, ConfigAssumption DEF Streaks, Saturated, TypeOK
    <3> QED BY <3>1, <3>2
  <2>4. CASE state = "half-open" /\ TransitionTo("open", c, "idle")
    BY <1>1, <2>4
  <2>5. CASE state = "open"
    BY <1>2, <1>6, <2>5 DEF AfterCall
  <2> QED BY <1>6, <2>1, <2>2, <2>3, <2>4, <2>5 DEF AfterCall
<1>7. CASE UNCHANGED vars
  BY <1>2, <1>7 DEF vars
<1> QED BY <1>3, <1>4, <1>5, <1>6, <1>7 DEF Next

LEMMA ThresholdsStep ==
  ASSUME TypeOK, Streaks, [Next]_vars
  PROVE  /\ state = "closed" /\ state' = "open"
              => \/ FailureThreshold = 1
                 \/ /\ run.result = "failure"
                    /\ run.length >= FailureThreshold - 1
         /\ state = "half-open" /\ state' = "closed"
              => \/ SuccessThreshold = 1
                 \/ /\ run.result = "success"
                    /\ run.length >= SuccessThreshold - 1
<1>1. CASE state = "closed" /\ state' = "open"
  <2>1. failureCount + 1 >= FailureThreshold
    BY <1>1 DEF Next, vars, Elapse, BeforeCall, Reject, AfterCall,
                ClosedSuccess, ClosedFailure
  <2> QED BY <1>1, <2>1, ConfigAssumption DEF Streaks, TypeOK, Run
<1>2. CASE state = "half-open" /\ state' = "closed"
  <2>1. successCount + 1 >= SuccessThreshold
    BY <1>2 DEF Next, vars, Elapse, BeforeCall, Reject, AfterCall,
                HalfOpenSuccess, TransitionTo
  <2> QED BY <1>2, <2>1, ConfigAssumption DEF Streaks, TypeOK, Run
<1> QED BY <1>1, <1>2

\* The breaker opens and closes only on as many equal results in a row as its
\* configuration says, however the requests of the callers interleave.
THEOREM OpensAndClosesOnStreaks == Spec => ThresholdsMet
<1>1. Init => TypeOK /\ Streaks
  BY InitType DEF Init, NoRun, Streaks
<1>2. TypeOK /\ Streaks /\ [Next]_vars => (TypeOK /\ Streaks)'
  BY TypeStep, StreaksStep
<1>3. TypeOK /\ Streaks /\ [Next]_vars
        => [/\ state = "closed" /\ state' = "open"
                => \/ FailureThreshold = 1
                   \/ /\ run.result = "failure"
                      /\ run.length >= FailureThreshold - 1
            /\ state = "half-open" /\ state' = "closed"
                => \/ SuccessThreshold = 1
                   \/ /\ run.result = "success"
                      /\ run.length >= SuccessThreshold - 1]_vars
  BY ThresholdsStep
<1> QED BY <1>1, <1>2, <1>3, PTL DEF Spec, ThresholdsMet
=============================================================================
