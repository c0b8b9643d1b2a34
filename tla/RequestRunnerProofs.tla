-------------------------- MODULE RequestRunnerProofs --------------------------
(***************************************************************************)
(* Proofs that every logical request keeps the safety properties of        *)
(* RequestRunner, for all policies, timeouts, server delays and buffer     *)
(* sizes.                                                                  *)
(*                                                                         *)
(* Order: typing lemmas; TypeStep; the step classes FailStep, EndingStep   *)
(* and StepCases, so that later inductions have one case per kind of step; *)
(* one step lemma per group of invariants; the invariant Inv; the theorems.*)
(***************************************************************************)
EXTENDS RequestRunner, TLAPS

(* Every error the actions build is a value of the error type.              *)
LEMMA PlainErrorType ==
    ASSUME NEW kind \in ErrorKinds, NEW detail \in ErrorDetails
    PROVE  PlainError(kind, detail) \in LlmError
BY DEF PlainError, LlmError

(* A Timeout of any stage is an error value.                                *)
LEMMA TimeoutErrorType ==
    ASSUME NEW stage \in TimeoutStages, NEW overall \in BOOLEAN
    PROVE  TimeoutError(stage, overall) \in LlmError
BY DEF TimeoutError, PlainError, LlmError, ErrorKinds, ErrorDetails

(* A failure status is an error value, with or without a Retry-After.       *)
LEMMA HttpStatusErrorType ==
    ASSUME NEW class \in StatusClasses, NEW retry_after \in Nat \cup {None}
    PROVE  HttpStatusError(class, retry_after) \in LlmError
BY Zenon DEF HttpStatusError, PlainError, LlmError, ErrorKinds, ErrorDetails

(* The errors that depend on no state.                                      *)
LEMMA ConstantErrors ==
    /\ Cancelled \in LlmError
    /\ \A detail \in ErrorDetails, kind \in ErrorKinds : PlainError(kind, detail) \in LlmError
    /\ \A stage \in TimeoutStages, overall \in BOOLEAN :
        TimeoutError(stage, overall) \in LlmError
BY PlainErrorType, TimeoutErrorType DEF Cancelled, ErrorKinds, ErrorDetails

(* What a preflight or an interrupted await raises is an error value.       *)
LEMMA StageErrorTypes ==
    ASSUME TypeOK, NEW stage \in TimeoutStages
    PROVE  /\ PreflightErrors \subseteq LlmError
           /\ InnerDeadline \subseteq LlmError
           /\ StageErrors(stage) \subseteq LlmError
BY Zenon, ConstantErrors DEF TypeOK, PreflightErrors, InnerDeadline, StageErrors, TimeoutStages

(* An attempt that fails leaves every variable well typed.                  *)
LEMMA FailType ==
    ASSUME TypeOK, NEW e \in LlmError, Fail(e),
           attempt' \in Nat, requests' \in Nat, buffered' \in 0 .. MaxBuffered,
           event_seen' \in BOOLEAN
    PROVE  TypeOK'
BY Zenon DEF TypeOK, Fail, EndStage, Awaits, Steps, call, waits, state, observer

(* Recording lifecycle events keeps the counts natural numbers.             *)
LEMMA EmitType ==
    ASSUME TypeOK, NEW kinds, Emit(kinds)
    PROVE  emitted' \in [EventKinds -> Nat]
BY DEF TypeOK, Emit

(* Ending the request leaves every variable well typed.                     *)
LEMMA FinishType ==
    ASSUME TypeOK, NEW e, NEW kinds, Finish(e, kinds), err' \in LlmError,
           stop_reason' \in StopReasons
    PROVE  TypeOK'
<1>1. emitted' \in [EventKinds -> Nat]
    BY EmitType DEF Finish
<1>2. outcome' \in Outcomes
    BY DEF Finish, TerminalKind, Outcomes
<1>3. QED
    BY Zenon, <1>1, <1>2 DEF TypeOK, Finish, EndStage, MarkTerminal, Awaits, Steps, call,
       attempts, waits, Progress

(* A control can only tighten the client's policy.                          *)
LEMMA TightenType ==
    ASSUME NEW client \in Policy, NEW control \in Policy
    PROVE  /\ TightenWith(client, control) \in Policy
           /\ TightenWith(client, control).max_attempts <= client.max_attempts
           /\ TightenWith(client, control).max_total_wait <= client.max_total_wait
<1>1. ASSUME NEW p \in Policy
      PROVE  /\ TightenRetry(p, control) \in Policy
             /\ TightenRetry(p, control).max_attempts <= p.max_attempts
             /\ TightenRetry(p, control).max_total_wait = p.max_total_wait
  <2>1. /\ MinOf(p.max_attempts, control.max_attempts) \in 1..MAX_ATTEMPTS_HARD_LIMIT
        /\ MinOf(p.max_attempts, control.max_attempts) <= p.max_attempts
        /\ MaxOf(p.minimum_attempt_budget, control.minimum_attempt_budget) \in Nat \ {0}
    BY DEF Policy, MinOf, MaxOf, MAX_ATTEMPTS_HARD_LIMIT
  <2> QED BY Zenon, <2>1 DEF TightenRetry, Policy
<1>2. ASSUME NEW p \in Policy
      PROVE  /\ TightenTimeout(p, control) \in Policy
             /\ TightenTimeout(p, control).max_attempts = p.max_attempts
             /\ TightenTimeout(p, control).max_total_wait = p.max_total_wait
  <2>1. \A field \in {"credential", "response_header", "first_event", "idle_stream"} :
            MinOf(p[field], control[field]) \in Nat \ {0}
    BY DEF Policy, MinOf
  <2> QED BY Zenon, <2>1 DEF TightenTimeout, Policy
<1>3. ASSUME NEW p \in Policy
      PROVE  /\ TightenWait(p, control) \in Policy
             /\ TightenWait(p, control).max_attempts = p.max_attempts
             /\ TightenWait(p, control).max_total_wait <= p.max_total_wait
  <2>1. /\ MaxOf(p.base_delay, control.base_delay) \in Nat \ {0}
        /\ \A field \in {"max_delay", "server_delay_cap", "max_total_wait"} :
               MinOf(p[field], control[field]) \in Nat \ {0}
        /\ MinOf(p.max_total_wait, control.max_total_wait) <= p.max_total_wait
    BY DEF Policy, MinOf, MaxOf
  <2> QED BY Zenon, <2>1 DEF TightenWait, Policy
<1>4. QED
    BY <1>1, <1>2, <1>3 DEF TightenWith

(* Whatever the random sample, a retry delay is a duration.                 *)
LEMMA EffectiveDelayType ==
    ASSUME NEW p \in Policy, NEW index, NEW server_delay \in Nat \cup {None},
           NEW d \in EffectiveDelays(p, index, server_delay)
    PROVE  d \in Nat
<1>1. PICK c \in 0 .. ClientDelayCap(p, index) : d = EffectiveDelay(p, c, server_delay)
    BY DEF EffectiveDelays
<1>2. c \in Nat
    OBVIOUS
<1>3. p.server_delay_cap \in Nat
    BY DEF Policy
<1>4. QED
    BY <1>1, <1>2, <1>3 DEF EffectiveDelay, MinOf, MaxOf

(* retry_stop_reason always reports one of the declared reasons.            *)
LEMMA StopReasonType ==
    ASSUME NEW e, NEW d, NEW n, NEW p, NEW r, NEW safe
    PROVE  RetryStopReason(e, d, n, p, r, safe) \in StopReasons
BY DEF RetryStopReason, StopReasons

(* Every step keeps every variable in its type.                             *)
LEMMA TypeStep == TypeOK /\ [Next]_vars => TypeOK'
<1> SUFFICES ASSUME TypeOK, [Next]_vars PROVE TypeOK'
    OBVIOUS
<1> USE DEF Awaits, Steps, call, clock, attempts, waits, state, observer
<1>1. CASE StartRejected
    <2>1. PICK e : err' = e /\ Finish(e, {})
        BY <1>1 DEF StartRejected
    <2>2. err' \in LlmError
        BY Zenon, <1>1, ConstantErrors DEF StartRejected, TimeoutStages, ErrorKinds, ErrorDetails
    <2>3. QED
        BY <1>1, <2>1, <2>2, FinishType DEF StartRejected, TypeOK
<1>2. CASE StartAccepted
    <2>1. policy' \in Policy
        BY <1>2, TightenType, PolicyAssumption DEF StartAccepted
    <2>2. remaining' \in Nat \cup {None}
        BY <1>2, TimeAssumption DEF StartAccepted
    <2>3. replay_safe' \in BOOLEAN
        BY <1>2 DEF StartAccepted, ReplaySafe
    <2>4. QED
        BY <1>2, <2>1, <2>2, <2>3 DEF StartAccepted, TypeOK
<1>3. CASE AttemptRejected
    <2>1. err' \in LlmError
        BY <1>3, StageErrorTypes, ConstantErrors
        DEF AttemptRejected, TimeoutStages, ErrorKinds, ErrorDetails
    <2>2. emitted' \in [EventKinds -> Nat]
        BY <1>3, EmitType DEF AttemptRejected, BeginAttempt
    <2>3. QED
        BY <1>3, <2>1, <2>2 DEF AttemptRejected, BeginAttempt, TypeOK, Progress
<1>4. CASE AttemptOpened
    <2>1. policy.credential \in Nat
        BY DEF TypeOK, Policy
    <2>2. stage_left' \in Nat /\ overall_limited' \in BOOLEAN
        BY <1>4, <2>1 DEF AttemptOpened, StartStage, TypeOK
    <2>3. emitted' \in [EventKinds -> Nat]
        BY <1>4, EmitType DEF AttemptOpened, BeginAttempt
    <2>4. QED
        BY <1>4, <2>2, <2>3 DEF AttemptOpened, BeginAttempt, StartStage, TypeOK, Progress
<1>5. CASE CredentialInterrupted
    <2>1. PICK e \in LlmError : Fail(e)
        BY <1>5, StageErrorTypes, ConstantErrors
        DEF CredentialInterrupted, TimeoutStages, ErrorKinds, ErrorDetails
    <2>2. QED
        BY <1>5, <2>1, FailType, BufferAssumption DEF CredentialInterrupted, TypeOK
<1>6. CASE SendRejected
    <2>1. PICK e \in LlmError : Fail(e)
        BY <1>6, StageErrorTypes, ConstantErrors
        DEF SendRejected, TimeoutStages, ErrorKinds, ErrorDetails
    <2>2. QED
        BY <1>6, <2>1, FailType, BufferAssumption DEF SendRejected, TypeOK
<1>7. CASE Send
    <2>1. policy.response_header \in Nat
        BY DEF TypeOK, Policy
    <2>2. stage_left' \in Nat /\ overall_limited' \in BOOLEAN
        BY <1>7, <2>1 DEF Send, StartStage, TypeOK
    <2>3. QED
        BY <1>7, <2>2 DEF Send, StartStage, TypeOK
<1>8. CASE HeaderInterrupted
    <2>1. PICK e \in LlmError : Fail(e)
        BY <1>8, StageErrorTypes, ConstantErrors
        DEF HeaderInterrupted, TimeoutStages, ErrorKinds, ErrorDetails
    <2>2. QED
        BY <1>8, <2>1, FailType, BufferAssumption DEF HeaderInterrupted, TypeOK
<1>9. CASE ErrorBodyInterrupted
    <2>1. PICK e \in LlmError : Fail(e)
        BY <1>9, StageErrorTypes, ConstantErrors
        DEF ErrorBodyInterrupted, TimeoutStages, ErrorKinds, ErrorDetails
    <2>2. QED
        BY <1>9, <2>1, FailType, BufferAssumption DEF ErrorBodyInterrupted, TypeOK
<1>10. CASE StopRetrying
    <2>1. stop_reason' \in StopReasons
        BY <1>10, StopReasonType DEF StopRetrying, StopReasons
    <2>2. QED
        BY <1>10, <2>1, FinishType DEF StopRetrying, TypeOK
<1>11. CASE WaitRefused
    <2>1. stop_reason' \in StopReasons
        BY <1>11, StopReasonType DEF WaitRefused, StopReasons
    <2>2. QED
        BY <1>11, <2>1, FinishType DEF WaitRefused, TypeOK
<1>12. CASE ScheduleRetry
    <2>1. err.retry_after \in Nat \cup {None} /\ policy \in Policy
        BY DEF TypeOK, LlmError
    <2>2. delay' \in Nat /\ wait_left' \in Nat
        BY Zenon, <1>12, <2>1, EffectiveDelayType DEF ScheduleRetry, Waits
    <2>3. emitted' \in [EventKinds -> Nat]
        BY <1>12, EmitType DEF ScheduleRetry
    <2>4. QED
        BY <1>12, <2>2, <2>3 DEF ScheduleRetry, TypeOK
<1>13. CASE WaitInterrupted
    <2>1. PICK e \in PreflightErrors : err' = e /\ Finish(e, {})
        BY <1>13 DEF WaitInterrupted
    <2>2. err' \in LlmError
        BY <2>1, StageErrorTypes DEF TimeoutStages
    <2>3. QED
        BY <1>13, <2>1, <2>2, FinishType DEF WaitInterrupted, TypeOK
<1>14. CASE WaitElapsed
    BY <1>14 DEF WaitElapsed, TypeOK
<1>15. CASE StreamDeadlinePassed
    <2>1. PICK e \in LlmError : Fail(e)
        BY Zenon, <1>15, StageErrorTypes, ConstantErrors
        DEF StreamDeadlinePassed, TimeoutStages, ErrorKinds, ErrorDetails
    <2>2. QED
        BY <1>15, <2>1, FailType, BufferAssumption DEF StreamDeadlinePassed, TypeOK
<1>16. CASE AwaitEvent
    <2>1. policy.idle_stream \in Nat /\ policy.first_event \in Nat
        BY DEF TypeOK, Policy
    <2>2. stage_left' \in Nat /\ overall_limited' \in BOOLEAN
        BY <1>16, <2>1 DEF AwaitEvent, StartStage, TypeOK
    <2>3. QED
        BY <1>16, <2>2 DEF AwaitEvent, StartStage, TypeOK
<1>17. CASE StreamInterrupted
    <2>1. PICK e \in LlmError : Fail(e)
        BY <1>17, StageErrorTypes, ConstantErrors
        DEF StreamInterrupted, TimeoutStages, ErrorKinds, ErrorDetails
    <2>2. QED
        BY <1>17, <2>1, FailType, BufferAssumption DEF StreamInterrupted, TypeOK
<1>18. CASE CredentialFailed
    <2>1. PICK e \in LlmError : Fail(e)
        BY <1>18, StageErrorTypes, ConstantErrors
        DEF CredentialFailed, TimeoutStages, ErrorKinds, ErrorDetails
    <2>2. QED
        BY <1>18, <2>1, FailType, BufferAssumption DEF CredentialFailed, TypeOK
<1>19. CASE CredentialResolved
    BY Zenon, <1>19 DEF CredentialResolved, EndStage, TypeOK
<1>20. CASE HeaderFailed
    <2>1. PICK e \in LlmError : Fail(e)
        BY Zenon, <1>20, StageErrorTypes, ConstantErrors
        DEF HeaderFailed, TimeoutStages, ErrorKinds, ErrorDetails
    <2>2. QED
        BY <1>20, <2>1, FailType, BufferAssumption DEF HeaderFailed, TypeOK
<1>21. CASE ErrorStatusReceived
    <2>1. err' \in LlmError
        BY <1>21, HttpStatusErrorType, TimeAssumption DEF ErrorStatusReceived
    <2>2. QED
        BY Zenon, <1>21, <2>1 DEF ErrorStatusReceived, EndStage, TypeOK
<1>22. CASE StreamOpened
    <2>1. buffered' \in 0 .. MaxBuffered
        BY <1>22, BufferAssumption DEF StreamOpened
    <2>2. pc' \in Awaits \cup Steps
        BY <1>22 DEF StreamOpened
    <2>3. QED
        BY Zenon, <1>22, <2>1, <2>2 DEF StreamOpened, EndStage, TypeOK
<1>23. CASE ErrorBodyRead
    BY <1>23, FailType DEF ErrorBodyRead, TypeOK
<1>24. CASE ErrorBodyFailed
    <2>1. PICK e \in LlmError : Fail(e)
        BY Zenon, <1>24, StageErrorTypes, ConstantErrors
        DEF ErrorBodyFailed, TimeoutStages, ErrorKinds, ErrorDetails
    <2>2. QED
        BY <1>24, <2>1, FailType, BufferAssumption DEF ErrorBodyFailed, TypeOK
<1>25. CASE EventDelivered
    <2>1. buffered' \in 0 .. MaxBuffered
        BY <1>25, BufferAssumption DEF EventDelivered, NextEvent, TypeOK
    <2>2. progress' \in Progress
        BY <1>25 DEF EventDelivered, TypeOK, Progress
    <2>3. QED
        BY Zenon, <1>25, <2>1, <2>2 DEF EventDelivered, NextEvent, EndStage, TypeOK
<1>26. CASE DoneDelivered
    <2>1. emitted' \in [EventKinds -> Nat]
        BY <1>26, EmitType DEF DoneDelivered
    <2>2. buffered' \in 0 .. MaxBuffered
        BY <1>26, BufferAssumption DEF DoneDelivered, NextEvent, TypeOK
    <2>3. progress' \in Progress /\ outcome' \in Outcomes
        BY <1>26 DEF DoneDelivered, Progress, Outcomes
    <2>4. QED
        BY Zenon, <1>26, <2>1, <2>2, <2>3 DEF DoneDelivered, NextEvent, EndStage, TypeOK
<1>27. CASE DecodeFailed
    <2>1. PICK e \in LlmError : Fail(e)
        BY <1>27, StageErrorTypes, ConstantErrors
        DEF DecodeFailed, TimeoutStages, ErrorKinds, ErrorDetails
    <2>2. QED
        BY <1>27, <2>1, FailType, BufferAssumption DEF DecodeFailed, TypeOK
<1>28. CASE BodyFailed
    <2>1. PICK e \in LlmError : Fail(e)
        BY Zenon, <1>28, StageErrorTypes, ConstantErrors
        DEF BodyFailed, TimeoutStages, ErrorKinds, ErrorDetails
    <2>2. QED
        BY <1>28, <2>1, FailType, BufferAssumption DEF BodyFailed, TypeOK
<1>29. CASE Poll
    BY <1>29 DEF Poll, TypeOK
<1>30. CASE Cancel
    BY <1>30 DEF Cancel, TypeOK
<1>31. CASE DropStream
    <2>1. emitted' \in [EventKinds -> Nat]
        BY <1>31, EmitType DEF DropStream, TypeOK
    <2>2. progress' \in Progress /\ outcome' \in Outcomes
        BY <1>31 DEF DropStream, MarkTerminal, TypeOK, Progress, Outcomes
    <2>3. terminal' \in BOOLEAN /\ delivered' \in BOOLEAN /\ cancelled' \in BOOLEAN
        BY Zenon, <1>31 DEF DropStream, MarkTerminal, TypeOK
    <2>4. QED
        BY Zenon, <1>31, <2>1, <2>2, <2>3 DEF DropStream, EndStage, TypeOK
<1>32. CASE DropStartup
    BY Zenon, <1>32 DEF DropStartup, EndStage, TypeOK, Outcomes
<1>33. CASE Tick
    BY <1>33 DEF Tick, Elapse, TypeOK
<1>34. CASE UNCHANGED vars
    BY <1>34 DEF vars, TypeOK
<1>35. QED
    BY Zenon, <1>1, <1>2, <1>3, <1>4, <1>5, <1>6, <1>7, <1>8, <1>9, <1>10, <1>11, <1>12, <1>13,
       <1>14, <1>15, <1>16, <1>17, <1>18, <1>19, <1>20, <1>21, <1>22, <1>23, <1>24, <1>25,
       <1>26, <1>27, <1>28, <1>29, <1>30, <1>31, <1>32, <1>33, <1>34
        DEF Next, SdkStep, ProviderStep, CallerStep, Ended

-----------------------------------------------------------------------------
(* The actions by what they do to an attempt and to the request.            *)

FailStep ==
    \/ CredentialInterrupted \/ CredentialFailed \/ SendRejected
    \/ HeaderInterrupted \/ HeaderFailed
    \/ ErrorBodyRead \/ ErrorBodyInterrupted \/ ErrorBodyFailed
    \/ StreamDeadlinePassed \/ StreamInterrupted \/ DecodeFailed \/ BodyFailed

(* What all failing steps have in common: only the error is recorded; the   *)
(* delivery boundary, the observer and the overall budget are untouched.    *)
LEMMA FailStepFacts ==
    ASSUME FailStep
    PROVE  /\ pc \in {"credential", "send", "header", "errorBody", "next", "streaming"}
           /\ pc' = "failed"
           /\ UNCHANGED <<handed, alive, call, cancelled, attempt, requests, waits, state,
                          observer, remaining>>
           /\ stage_left' = 0 /\ wait_left' = 0
BY Zenon DEF FailStep, CredentialInterrupted, CredentialFailed, SendRejected, HeaderInterrupted,
       HeaderFailed, ErrorBodyRead, ErrorBodyInterrupted, ErrorBodyFailed,
       StreamDeadlinePassed, StreamInterrupted, DecodeFailed, BodyFailed, Fail, EndStage, attempts

EndingStep == StartRejected \/ StopRetrying \/ WaitRefused \/ WaitInterrupted

(* What all steps that end the request in an error have in common: the      *)
(* request becomes terminal and exactly one closing event is recorded.      *)
LEMMA EndingStepFacts ==
    ASSUME EndingStep
    PROVE  /\ pc \in {"start", "failed", "waiting"}
           /\ pc' = "ended"
           /\ UNCHANGED <<handed, alive, call, cancelled, attempts, waits, delivered, remaining>>
           /\ terminal' = TRUE /\ progress' = "Terminal"
           /\ outcome' \in {"Failed", "Cancelled", "TimedOut"}
           /\ Emit(IF pc = "failed" THEN {"AttemptFailed", "RetryExhausted", "Closing"}
                   ELSE {"Closing"})
<1> USE DEF Finish, EndStage, MarkTerminal, TerminalKind
<1>1. CASE StartRejected
    <2>1. PICK e : Finish(e, {})
        BY <1>1 DEF StartRejected
    <2>2. {} \cup {"Closing"} = {"Closing"}
        OBVIOUS
    <2>3. QED
        BY <1>1, <2>1, <2>2 DEF StartRejected
<1>2. CASE WaitInterrupted
    <2>1. PICK e : Finish(e, {})
        BY <1>2 DEF WaitInterrupted
    <2>2. {} \cup {"Closing"} = {"Closing"}
        OBVIOUS
    <2>3. QED
        BY <1>2, <2>1, <2>2 DEF WaitInterrupted
<1>3. CASE StopRetrying \/ WaitRefused
    <2>1. pc = "failed" /\ Finish(err, {"AttemptFailed", "RetryExhausted"})
        BY <1>3 DEF StopRetrying, WaitRefused
    <2>2. {"AttemptFailed", "RetryExhausted"} \cup {"Closing"}
            = {"AttemptFailed", "RetryExhausted", "Closing"}
        OBVIOUS
    <2>3. QED
        BY <2>1, <2>2
<1>4. QED
    BY Zenon, <1>1, <1>2, <1>3 DEF EndingStep

(* Every step is one of these.                                              *)
LEMMA StepCases ==
    ASSUME [Next]_vars
    PROVE  \/ FailStep \/ EndingStep \/ StartAccepted \/ AttemptRejected \/ AttemptOpened
           \/ CredentialResolved \/ Send \/ ErrorStatusReceived \/ StreamOpened
           \/ ScheduleRetry \/ WaitElapsed \/ AwaitEvent \/ EventDelivered \/ DoneDelivered
           \/ Poll \/ Cancel \/ DropStream \/ DropStartup \/ Tick \/ UNCHANGED vars
BY DEF Next, SdkStep, ProviderStep, CallerStep, Ended, FailStep, EndingStep

-----------------------------------------------------------------------------
(* The phases and the attempt bound are preserved together: the bound rests *)
(* on where an attempt may be opened, the phases on the retry decision.     *)
LEMMA PhaseStep ==
    ASSUME TypeOK, PhaseInvariant, BoundedAttempts, [Next]_vars
    PROVE  PhaseInvariant' /\ BoundedAttempts'
<1>0. /\ policy.max_attempts \in Nat /\ policy.max_attempts > 0
      /\ ClientPolicy.max_attempts \in Nat
    BY PolicyAssumption DEF TypeOK, Policy, MAX_ATTEMPTS_HARD_LIMIT
<1> USE <1>0
        DEF TypeOK, PhaseInvariant, BoundedAttempts, call, clock, attempts, waits, state,
            observer
<1>1. CASE FailStep
    BY <1>1, FailStepFacts
<1>2. CASE EndingStep
    BY <1>2, EndingStepFacts
<1>3. CASE StartAccepted
    <2>1. /\ policy'.max_attempts \in Nat /\ policy'.max_attempts > 0
          /\ policy'.max_attempts <= ClientPolicy.max_attempts
        BY <1>3, TightenType, PolicyAssumption
        DEF StartAccepted, Policy, MAX_ATTEMPTS_HARD_LIMIT
    <2>2. QED
        BY <1>3, <2>1 DEF StartAccepted
<1>4. CASE AttemptRejected
    BY <1>4 DEF AttemptRejected, BeginAttempt
<1>5. CASE AttemptOpened
    BY <1>5 DEF AttemptOpened, BeginAttempt, StartStage
<1>6. CASE CredentialResolved
    BY <1>6 DEF CredentialResolved, EndStage
<1>7. CASE Send
    BY <1>7 DEF Send, StartStage
<1>8. CASE ErrorStatusReceived
    BY <1>8 DEF ErrorStatusReceived, EndStage
<1>9. CASE StreamOpened
    BY <1>9 DEF StreamOpened, EndStage
<1>10. CASE ScheduleRetry
    BY <1>10 DEF ScheduleRetry, Retry, DecideRetry
<1>11. CASE WaitElapsed
    BY <1>11 DEF WaitElapsed
<1>12. CASE AwaitEvent
    BY <1>12 DEF AwaitEvent, StartStage
<1>13. CASE EventDelivered
    BY <1>13 DEF EventDelivered, NextEvent, EndStage
<1>14. CASE DoneDelivered
    BY <1>14 DEF DoneDelivered, NextEvent, EndStage
<1>15. CASE Poll
    BY <1>15 DEF Poll
<1>16. CASE Cancel
    BY <1>16 DEF Cancel
<1>17. CASE DropStream
    BY <1>17 DEF DropStream, MarkTerminal, EndStage
<1>18. CASE DropStartup
    BY <1>18 DEF DropStartup, EndStage
<1>19. CASE Tick
    BY <1>19 DEF Tick, Elapse
<1>20. CASE UNCHANGED vars
    BY <1>20 DEF vars
<1>21. QED
    BY Zenon, <1>1, <1>2, <1>3, <1>4, <1>5, <1>6, <1>7, <1>8, <1>9, <1>10, <1>11, <1>12, <1>13,
       <1>14, <1>15, <1>16, <1>17, <1>18, <1>19, <1>20, StepCases

(* Waiting: the total-wait cap and the budget kept for the next attempt.    *)
LEMMA WaitStep ==
    ASSUME TypeOK, TypeOK', PhaseInvariant, BoundedWaiting, WaitKeepsBudget, [Next]_vars
    PROVE  BoundedWaiting' /\ WaitKeepsBudget'
<1>0. /\ policy.max_total_wait \in Nat /\ policy.minimum_attempt_budget \in Nat
      /\ ClientPolicy.max_total_wait \in Nat
    BY PolicyAssumption DEF TypeOK, Policy
<1> USE <1>0, NoneAssumption
        DEF TypeOK, BoundedWaiting, WaitKeepsBudget, call, clock, attempts, waits, state,
            observer
<1>1. CASE FailStep
    BY <1>1, FailStepFacts
<1>2. CASE EndingStep
    BY <1>2, EndingStepFacts
<1>3. CASE StartAccepted
    <2>1. total_waited + delay = 0
        BY <1>3 DEF StartAccepted, PhaseInvariant
    <2>2. /\ policy'.max_total_wait \in Nat
          /\ policy'.max_total_wait <= ClientPolicy.max_total_wait
        BY <1>3, TightenType, PolicyAssumption DEF StartAccepted, Policy
    <2>3. QED
        BY <1>3, <2>1, <2>2 DEF StartAccepted
<1>4. CASE AttemptRejected
    BY <1>4 DEF AttemptRejected, BeginAttempt
<1>5. CASE AttemptOpened
    BY <1>5 DEF AttemptOpened, BeginAttempt, StartStage
<1>6. CASE CredentialResolved
    BY <1>6 DEF CredentialResolved, EndStage
<1>7. CASE Send
    BY <1>7 DEF Send, StartStage
<1>8. CASE ErrorStatusReceived
    BY <1>8 DEF ErrorStatusReceived, EndStage
<1>9. CASE StreamOpened
    BY <1>9 DEF StreamOpened, EndStage
<1>10. CASE ScheduleRetry
    BY <1>10 DEF ScheduleRetry, WaitFits
<1>11. CASE WaitElapsed
    BY <1>11 DEF WaitElapsed
<1>12. CASE AwaitEvent
    BY <1>12 DEF AwaitEvent, StartStage
<1>13. CASE EventDelivered
    BY <1>13 DEF EventDelivered, NextEvent, EndStage
<1>14. CASE DoneDelivered
    BY <1>14 DEF DoneDelivered, NextEvent, EndStage
<1>15. CASE Poll
    BY <1>15 DEF Poll
<1>16. CASE Cancel
    BY <1>16 DEF Cancel
<1>17. CASE DropStream
    BY <1>17 DEF DropStream, MarkTerminal, EndStage
<1>18. CASE DropStartup
    BY <1>18 DEF DropStartup, EndStage
<1>19. CASE Tick
    BY <1>19 DEF Tick, Elapse
<1>20. CASE UNCHANGED vars
    BY <1>20 DEF vars
<1>21. QED
    BY Zenon, <1>1, <1>2, <1>3, <1>4, <1>5, <1>6, <1>7, <1>8, <1>9, <1>10, <1>11, <1>12, <1>13,
       <1>14, <1>15, <1>16, <1>17, <1>18, <1>19, <1>20, StepCases

(* A stage starts within the overall budget.                                *)
LEMMA StartStageClamps ==
    ASSUME TypeOK, NEW limit \in Nat, StartStage(limit)
    PROVE  remaining' # None
            => stage_left' <= remaining' /\ (overall_limited' => stage_left' = remaining')
<1> DEFINE overall == remaining # None /\ remaining <= limit
<1>1. /\ overall_limited' = overall
      /\ stage_left' = IF overall THEN remaining ELSE limit
      /\ remaining' = remaining
    BY Zenon DEF StartStage
<1>2. CASE overall
    <2>1. stage_left' = remaining' /\ remaining \in Nat
        BY <1>1, <1>2 DEF TypeOK
    <2>2. QED
        BY <2>1, <1>1
<1>3. CASE ~overall
    <2>1. ~overall_limited' /\ stage_left' = limit
        BY Zenon, <1>1, <1>3
    <2>2. remaining' # None => limit <= remaining'
        BY <1>1, <1>3 DEF TypeOK
    <2>3. QED
        BY <2>1, <2>2
<1>4. QED
    BY <1>2, <1>3

(* The limit of an await and the overall budget run down together.          *)
LEMMA ClockStep ==
    ASSUME TypeOK, TypeOK', StageClamped, [Next]_vars
    PROVE  StageClamped'
<1>0. /\ policy.credential \in Nat /\ policy.response_header \in Nat
      /\ policy.first_event \in Nat /\ policy.idle_stream \in Nat
    BY DEF TypeOK, Policy
<1> USE <1>0, NoneAssumption
        DEF TypeOK, StageClamped, call, clock, attempts, waits, state, observer
<1>1. CASE FailStep
    BY <1>1, FailStepFacts
<1>2. CASE EndingStep
    BY <1>2, EndingStepFacts
<1>3. CASE StartAccepted
    BY <1>3 DEF StartAccepted
<1>4. CASE AttemptRejected
    BY <1>4 DEF AttemptRejected, BeginAttempt
<1>5. CASE AttemptOpened
    BY <1>5, StartStageClamps DEF AttemptOpened
<1>6. CASE CredentialResolved
    BY <1>6 DEF CredentialResolved, EndStage
<1>7. CASE Send
    BY <1>7, StartStageClamps DEF Send
<1>8. CASE ErrorStatusReceived
    BY <1>8 DEF ErrorStatusReceived, EndStage
<1>9. CASE StreamOpened
    BY <1>9 DEF StreamOpened, EndStage
<1>10. CASE ScheduleRetry
    BY <1>10 DEF ScheduleRetry
<1>11. CASE WaitElapsed
    BY <1>11 DEF WaitElapsed
<1>12. CASE AwaitEvent
    BY <1>12, StartStageClamps DEF AwaitEvent
<1>13. CASE EventDelivered
    BY <1>13 DEF EventDelivered, NextEvent, EndStage
<1>14. CASE DoneDelivered
    BY <1>14 DEF DoneDelivered, NextEvent, EndStage
<1>15. CASE Poll
    BY <1>15 DEF Poll
<1>16. CASE Cancel
    BY <1>16 DEF Cancel
<1>17. CASE DropStream
    BY <1>17 DEF DropStream, MarkTerminal, EndStage
<1>18. CASE DropStartup
    BY <1>18 DEF DropStartup, EndStage
<1>19. CASE Tick
    BY <1>19 DEF Tick, Elapse
<1>20. CASE UNCHANGED vars
    BY <1>20 DEF vars
<1>21. QED
    BY Zenon, <1>1, <1>2, <1>3, <1>4, <1>5, <1>6, <1>7, <1>8, <1>9, <1>10, <1>11, <1>12, <1>13,
       <1>14, <1>15, <1>16, <1>17, <1>18, <1>19, <1>20, StepCases

(* What one Emit adds to the counts.                                        *)
LEMMA EmitCounts ==
    ASSUME TypeOK, NEW kinds, Emit(kinds), NEW k \in EventKinds
    PROVE  emitted'[k] = IF k \in kinds THEN emitted[k] + 1 ELSE emitted[k]
BY DEF TypeOK, Emit

(* Every step keeps the lifecycle event counts consistent.                  *)
LEMMA AccountingStep ==
    ASSUME TypeOK, PhaseInvariant, AttemptAccounting, OneClosingEvent, [Next]_vars
    PROVE  AttemptAccounting' /\ OneClosingEvent'
<1>0. \A k \in EventKinds : emitted[k] \in Nat
    BY DEF TypeOK
<1> USE <1>0, EmitCounts
        DEF PhaseInvariant, AttemptAccounting, OneClosingEvent, EventKinds, call, clock,
            attempts, waits, state, observer
<1>1. CASE FailStep
    BY <1>1, FailStepFacts
<1>2. CASE EndingStep
    BY <1>2, EndingStepFacts
<1>3. CASE StartAccepted
    BY <1>3 DEF StartAccepted
<1>4. CASE AttemptRejected
    BY <1>4 DEF AttemptRejected, BeginAttempt
<1>5. CASE AttemptOpened
    BY <1>5 DEF AttemptOpened, BeginAttempt, StartStage
<1>6. CASE CredentialResolved
    BY <1>6 DEF CredentialResolved, EndStage
<1>7. CASE Send
    BY <1>7 DEF Send, StartStage
<1>8. CASE ErrorStatusReceived
    BY <1>8 DEF ErrorStatusReceived, EndStage
<1>9. CASE StreamOpened
    BY <1>9 DEF StreamOpened, EndStage
<1>10. CASE ScheduleRetry
    BY <1>10 DEF ScheduleRetry
<1>11. CASE WaitElapsed
    BY <1>11 DEF WaitElapsed
<1>12. CASE AwaitEvent
    BY <1>12 DEF AwaitEvent, StartStage
<1>13. CASE EventDelivered
    BY <1>13 DEF EventDelivered, NextEvent, EndStage
<1>14. CASE DoneDelivered
    BY <1>14 DEF DoneDelivered, NextEvent, EndStage
<1>15. CASE Poll
    BY <1>15 DEF Poll
<1>16. CASE Cancel
    BY <1>16 DEF Cancel
<1>17. CASE DropStream
    BY <1>17 DEF DropStream, MarkTerminal, EndStage
<1>18. CASE DropStartup
    BY <1>18 DEF DropStartup, EndStage, Awaits
<1>19. CASE Tick
    BY <1>19 DEF Tick, Elapse
<1>20. CASE UNCHANGED vars
    BY <1>20 DEF vars
<1>21. QED
    BY Zenon, <1>1, <1>2, <1>3, <1>4, <1>5, <1>6, <1>7, <1>8, <1>9, <1>10, <1>11, <1>12, <1>13,
       <1>14, <1>15, <1>16, <1>17, <1>18, <1>19, <1>20, StepCases

-----------------------------------------------------------------------------
(* The inductive invariant.                                                 *)
Inv ==
    /\ TypeOK /\ PhaseInvariant /\ BoundedAttempts /\ BoundedWaiting /\ WaitKeepsBudget
    /\ StageClamped /\ AttemptAccounting /\ OneClosingEvent

(* The initial state satisfies it.                                          *)
LEMMA InvInit == Init => Inv
<1> SUFFICES ASSUME Init PROVE Inv
    OBVIOUS
<1>0. /\ ClientPolicy.max_attempts \in 1 .. MAX_ATTEMPTS_HARD_LIMIT
      /\ ClientPolicy.max_total_wait \in Nat
    BY PolicyAssumption DEF Policy
<1>1. TypeOK
    <2>1. err \in LlmError /\ emitted \in [EventKinds -> Nat] /\ buffered \in 0 .. MaxBuffered
        BY BufferAssumption, ConstantErrors DEF Init, ErrorKinds, ErrorDetails
    <2>2. QED
        BY Zenon, <2>1, PolicyAssumption
        DEF Init, TypeOK, Awaits, Steps, Progress, StopReasons, Outcomes
<1>2. PhaseInvariant /\ BoundedAttempts /\ BoundedWaiting
    BY <1>0
        DEF Init, PhaseInvariant, BoundedAttempts, BoundedWaiting, MAX_ATTEMPTS_HARD_LIMIT
<1>3. WaitKeepsBudget /\ StageClamped /\ AttemptAccounting /\ OneClosingEvent
    BY
        DEF Init, WaitKeepsBudget, StageClamped, AttemptAccounting, OneClosingEvent,
            EventKinds
<1>4. QED
    BY <1>1, <1>2, <1>3 DEF Inv

(* Every step preserves it.                                                 *)
LEMMA InvStep == Inv /\ [Next]_vars => Inv'
BY TypeStep, PhaseStep, WaitStep, ClockStep, AccountingStep DEF Inv

(* Every state of every request satisfies the invariant, whatever the       *)
(* policies, timeouts, server delays and buffering.                         *)
THEOREM RunnerInvariant == Spec => []Inv
BY InvInit, InvStep, PTL DEF Spec

(* The state keeps its types.                                               *)
THEOREM TypeCorrect == Spec => []TypeOK
<1>1. Inv => TypeOK
    BY DEF Inv
<1>2. QED
    BY <1>1, RunnerInvariant, PTL

(* Where the future stands agrees with the execution state.                 *)
THEOREM PhasesAgree == Spec => []PhaseInvariant
<1>1. Inv => PhaseInvariant
    BY DEF Inv
<1>2. QED
    BY <1>1, RunnerInvariant, PTL

(* retry_after_failure never exceeds the attempt limit of the client.       *)
THEOREM AttemptsAreBounded == Spec => []BoundedAttempts
<1>1. Inv => BoundedAttempts
    BY DEF Inv
<1>2. QED
    BY <1>1, RunnerInvariant, PTL

(* The retry waits together stay within the total-wait cap, and a sleeping  *)
(* retry keeps the budget of the attempt it sleeps for.                     *)
THEOREM RetryWaitsFit == Spec => []WaitsFit
<1>1. Inv => WaitsFit
    BY DEF Inv, WaitsFit
<1>2. QED
    BY <1>1, RunnerInvariant, PTL

(* No stage limit outlasts the overall deadline.                            *)
THEOREM StagesAreClamped == Spec => []StageClamped
<1>1. Inv => StageClamped
    BY DEF Inv
<1>2. QED
    BY <1>1, RunnerInvariant, PTL

(* The lifecycle events of the attempts add up, and a request has one       *)
(* closing event.                                                           *)
THEOREM EventsAreAccounted == Spec => []EventsAddUp
<1>1. Inv => EventsAddUp
    BY DEF Inv, EventsAddUp
<1>2. QED
    BY <1>1, RunnerInvariant, PTL
=============================================================================
