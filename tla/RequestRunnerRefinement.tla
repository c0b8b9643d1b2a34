----------------------- MODULE RequestRunnerRefinement -----------------------
(***************************************************************************)
(* What a step of a logical request never does, and the refinement of      *)
(* LogicalRequest, from the inductive invariant of RequestRunnerProofs.    *)
(***************************************************************************)
EXTENDS RequestRunnerProofs

(* After a delivery no step opens or sends an attempt.                      *)
LEMMA DeliveryStep ==
    ASSUME TypeOK, PhaseInvariant, [Next]_vars
    PROVE  delivered => UNCHANGED <<attempt, requests>>
<1> USE DEF PhaseInvariant, call, clock, attempts, waits, state, observer
<1>1. CASE FailStep
    BY <1>1, FailStepFacts
<1>2. CASE EndingStep
    BY <1>2, EndingStepFacts
<1>3. CASE StartAccepted
    BY <1>3 DEF StartAccepted
<1>4. CASE AttemptRejected
    BY <1>4 DEF AttemptRejected, BeginAttempt
<1>5. CASE AttemptOpened
    BY <1>5 DEF AttemptOpened, BeginAttempt, StartStage
<1>6. CASE CredentialResolved
    BY <1>6 DEF CredentialResolved, EndStage
<1>7. CASE Send
    BY <1>7 DEF Send, StartStage
<1>8. CASE ErrorStatusReceived
    BY <1>8 DEF ErrorStatusReceived, EndStage
<1>9. CASE StreamOpened
    BY <1>9 DEF StreamOpened, EndStage
<1>10. CASE ScheduleRetry
    BY <1>10 DEF ScheduleRetry
<1>11. CASE WaitElapsed
    BY <1>11 DEF WaitElapsed
<1>12. CASE AwaitEvent
    BY <1>12 DEF AwaitEvent, StartStage
<1>13. CASE EventDelivered
    BY <1>13 DEF EventDelivered, NextEvent, EndStage
<1>14. CASE DoneDelivered
    BY <1>14 DEF DoneDelivered, NextEvent, EndStage
<1>15. CASE Poll
    BY <1>15 DEF Poll
<1>16. CASE Cancel
    BY <1>16 DEF Cancel
<1>17. CASE DropStream
    BY <1>17 DEF DropStream, MarkTerminal, EndStage
<1>18. CASE DropStartup
    BY <1>18 DEF DropStartup, EndStage
<1>19. CASE Tick
    BY <1>19 DEF Tick, Elapse
<1>20. CASE UNCHANGED vars
    BY <1>20 DEF vars
<1>21. QED
    BY Zenon, <1>1, <1>2, <1>3, <1>4, <1>5, <1>6, <1>7, <1>8, <1>9, <1>10, <1>11, <1>12, <1>13,
       <1>14, <1>15, <1>16, <1>17, <1>18, <1>19, <1>20, StepCases

(* No attempt is opened and nothing is sent after the first delivered event.*)
THEOREM NoRetryAfterDelivery == Spec => DeliveryClosesRetry
<1>1. TypeOK /\ PhaseInvariant /\ [Next]_vars => [delivered => UNCHANGED <<attempt, requests>>]_vars
    BY DeliveryStep
<1>2. QED
    BY <1>1, TypeCorrect, PhasesAgree, PTL DEF Spec, DeliveryClosesRetry

(* A step that sends does so for a live request only.                       *)
LEMMA SendStep ==
    ASSUME TypeOK, PhaseInvariant, [Next]_vars
    PROVE  requests' # requests => ~cancelled /\ remaining # 0 /\ alive /\ ~terminal
<1> USE DEF PhaseInvariant, call, clock, attempts, waits, state, observer
<1>1. CASE FailStep
    BY <1>1, FailStepFacts
<1>2. CASE EndingStep
    BY <1>2, EndingStepFacts
<1>3. CASE StartAccepted
    BY <1>3 DEF StartAccepted
<1>4. CASE AttemptRejected
    BY <1>4 DEF AttemptRejected, BeginAttempt
<1>5. CASE AttemptOpened
    BY <1>5 DEF AttemptOpened, BeginAttempt, StartStage
<1>6. CASE CredentialResolved
    BY <1>6 DEF CredentialResolved, EndStage
<1>7. CASE Send
    BY Zenon, <1>7 DEF Send, StartStage, PreflightErrors
<1>8. CASE ErrorStatusReceived
    BY <1>8 DEF ErrorStatusReceived, EndStage
<1>9. CASE StreamOpened
    BY <1>9 DEF StreamOpened, EndStage
<1>10. CASE ScheduleRetry
    BY <1>10 DEF ScheduleRetry
<1>11. CASE WaitElapsed
    BY <1>11 DEF WaitElapsed
<1>12. CASE AwaitEvent
    BY <1>12 DEF AwaitEvent, StartStage
<1>13. CASE EventDelivered
    BY <1>13 DEF EventDelivered, NextEvent, EndStage
<1>14. CASE DoneDelivered
    BY <1>14 DEF DoneDelivered, NextEvent, EndStage
<1>15. CASE Poll
    BY <1>15 DEF Poll
<1>16. CASE Cancel
    BY <1>16 DEF Cancel
<1>17. CASE DropStream
    BY <1>17 DEF DropStream, MarkTerminal, EndStage
<1>18. CASE DropStartup
    BY <1>18 DEF DropStartup, EndStage
<1>19. CASE Tick
    BY <1>19 DEF Tick, Elapse
<1>20. CASE UNCHANGED vars
    BY <1>20 DEF vars
<1>21. QED
    BY Zenon, <1>1, <1>2, <1>3, <1>4, <1>5, <1>6, <1>7, <1>8, <1>9, <1>10, <1>11, <1>12, <1>13,
       <1>14, <1>15, <1>16, <1>17, <1>18, <1>19, <1>20, StepCases

(* A cancelled, expired, dropped or finished request sends nothing.         *)
THEOREM NothingSentLate == Spec => SendsOnlyWhileLive
<1>1. TypeOK /\ PhaseInvariant /\ [Next]_vars
        => [requests' # requests => ~cancelled /\ remaining # 0 /\ alive /\ ~terminal]_vars
    BY SendStep
<1>2. QED
    BY <1>1, TypeCorrect, PhasesAgree, PTL DEF Spec, SendsOnlyWhileLive

(* No step moves the execution state back.                                  *)
LEMMA ProgressStep ==
    ASSUME TypeOK, PhaseInvariant, [Next]_vars
    PROVE  ProgressRank(progress) <= ProgressRank(progress')
<1> USE
        DEF TypeOK, Progress, PhaseInvariant, ProgressRank, call, clock, attempts, waits,
            state, observer
<1>1. CASE FailStep
    BY <1>1, FailStepFacts
<1>2. CASE EndingStep
    BY <1>2, EndingStepFacts
<1>3. CASE StartAccepted
    BY <1>3 DEF StartAccepted
<1>4. CASE AttemptRejected
    BY <1>4 DEF AttemptRejected, BeginAttempt
<1>5. CASE AttemptOpened
    BY <1>5 DEF AttemptOpened, BeginAttempt, StartStage
<1>6. CASE CredentialResolved
    BY <1>6 DEF CredentialResolved, EndStage
<1>7. CASE Send
    BY <1>7 DEF Send, StartStage
<1>8. CASE ErrorStatusReceived
    BY <1>8 DEF ErrorStatusReceived, EndStage
<1>9. CASE StreamOpened
    BY <1>9 DEF StreamOpened, EndStage
<1>10. CASE ScheduleRetry
    BY <1>10 DEF ScheduleRetry
<1>11. CASE WaitElapsed
    BY <1>11 DEF WaitElapsed
<1>12. CASE AwaitEvent
    BY <1>12 DEF AwaitEvent, StartStage
<1>13. CASE EventDelivered
    BY <1>13 DEF EventDelivered, NextEvent, EndStage
<1>14. CASE DoneDelivered
    BY <1>14 DEF DoneDelivered, NextEvent, EndStage
<1>15. CASE Poll
    BY <1>15 DEF Poll
<1>16. CASE Cancel
    BY <1>16 DEF Cancel
<1>17. CASE DropStream
    BY <1>17 DEF DropStream, MarkTerminal, EndStage
<1>18. CASE DropStartup
    BY <1>18 DEF DropStartup, EndStage
<1>19. CASE Tick
    BY <1>19 DEF Tick, Elapse
<1>20. CASE UNCHANGED vars
    BY <1>20 DEF vars
<1>21. QED
    BY Zenon, <1>1, <1>2, <1>3, <1>4, <1>5, <1>6, <1>7, <1>8, <1>9, <1>10, <1>11, <1>12, <1>13,
       <1>14, <1>15, <1>16, <1>17, <1>18, <1>19, <1>20, StepCases

(* RequestExecutionState never moves back.                                  *)
THEOREM ProgressMovesForward == Spec => ProgressMonotone
<1>1. TypeOK /\ PhaseInvariant /\ [Next]_vars => [ProgressRank(progress) <= ProgressRank(progress')]_vars
    BY ProgressStep
<1>2. QED
    BY <1>1, TypeCorrect, PhasesAgree, PTL DEF Spec, ProgressMonotone

-----------------------------------------------------------------------------
(* Refinement.                                                              *)

(* An initial state of the runner is one of the logical request.            *)
LEMMA LogicalInit == Init => Logical!Init
BY DEF Init, Logical!Init, EventKinds

(* Every step of the runner is a step of the logical request, or leaves it  *)
(* unchanged.                                                               *)
LEMMA LogicalStep ==
    ASSUME Inv, [Next]_vars
    PROVE  [Logical!Next]_(Logical!vars)
<1>0. /\ TypeOK
      /\ requests \in Nat /\ attempt \in Nat
      /\ ClientPolicy.max_attempts \in Nat /\ policy.max_attempts \in Nat
      /\ \A k \in EventKinds : emitted[k] \in Nat
    BY PolicyAssumption DEF Inv, TypeOK, Policy, MAX_ATTEMPTS_HARD_LIMIT
<1> USE <1>0, EmitCounts
        DEF Inv, PhaseInvariant, BoundedAttempts, EventKinds, Logical!vars, call, clock,
            attempts, waits, state, observer
<1>1. CASE FailStep
    BY <1>1, FailStepFacts
<1>2. CASE EndingStep
    BY <1>2, EndingStepFacts DEF Logical!Next, Logical!Close
<1>3. CASE StartAccepted
    BY <1>3 DEF StartAccepted
<1>4. CASE AttemptRejected
    BY <1>4 DEF AttemptRejected, BeginAttempt
<1>5. CASE AttemptOpened
    BY <1>5 DEF AttemptOpened, BeginAttempt, StartStage
<1>6. CASE CredentialResolved
    BY <1>6 DEF CredentialResolved, EndStage
<1>7. CASE Send
    BY <1>7 DEF Send, StartStage, Logical!Next, Logical!Send
<1>8. CASE ErrorStatusReceived
    BY <1>8 DEF ErrorStatusReceived, EndStage
<1>9. CASE StreamOpened
    BY <1>9 DEF StreamOpened, EndStage
<1>10. CASE ScheduleRetry
    BY <1>10 DEF ScheduleRetry
<1>11. CASE WaitElapsed
    BY <1>11 DEF WaitElapsed
<1>12. CASE AwaitEvent
    BY <1>12 DEF AwaitEvent, StartStage
<1>13. CASE EventDelivered
    BY Zenon, <1>13 DEF EventDelivered, NextEvent, EndStage, Logical!Next, Logical!Deliver
<1>14. CASE DoneDelivered
    BY <1>14 DEF DoneDelivered, NextEvent, EndStage, Logical!Next, Logical!Complete
<1>15. CASE Poll
    BY <1>15 DEF Poll
<1>16. CASE Cancel
    BY <1>16 DEF Cancel
<1>17. CASE DropStream
    BY <1>17 DEF DropStream, MarkTerminal, EndStage, Logical!Next, Logical!Close, Awaits
<1>18. CASE DropStartup
    BY <1>18 DEF DropStartup, EndStage, Logical!Next, Logical!Abandon, Awaits
<1>19. CASE Tick
    BY <1>19 DEF Tick, Elapse
<1>20. CASE UNCHANGED vars
    BY <1>20 DEF vars
<1>21. QED
    BY Zenon, <1>1, <1>2, <1>3, <1>4, <1>5, <1>6, <1>7, <1>8, <1>9, <1>10, <1>11, <1>12, <1>13,
       <1>14, <1>15, <1>16, <1>17, <1>18, <1>19, <1>20, StepCases

(* The runner, the executor and the stream implement one logical request.   *)
THEOREM RunnerImplementsLogical == Spec => ImplementsLogicalRequest
<1>1. Inv /\ [Next]_vars => [Logical!Next]_(Logical!vars)
    BY LogicalStep
<1>2. QED
    BY <1>1, LogicalInit, RunnerInvariant, PTL
        DEF Spec, ImplementsLogicalRequest, Logical!Spec
=============================================================================
