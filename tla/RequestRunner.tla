----------------------------- MODULE RequestRunner -----------------------------
(***************************************************************************)
(* One logical request: LlmClient::stream_with_control, the RequestRunner  *)
(* that opens attempts and retries them, the AttemptExecutor that runs one *)
(* HTTP attempt, and the AssistantStream the caller polls and drops.       *)
(*                                                                         *)
(* The SDK side is one future that only moves while it is polled.  Around  *)
(* it run three things it does not control: the clock (Tick), the caller   *)
(* (Cancel from any thread, Poll, Drop) and the provider, reached through  *)
(* the transport.  A step that the code runs without an await between two  *)
(* clock reads or token reads is one action.                               *)
(*                                                                         *)
(* Time is what is left: remaining is the overall budget as                *)
(* RequestLifecycle::remaining computes it, stage_left the effective limit *)
(* of the await in progress, wait_left the retry sleep.  A timer may fire  *)
(* late, so an answer may still win after its limit is reached;            *)
(* cancellation is read exactly.                                           *)
(***************************************************************************)
EXTENDS RetryPolicy

CONSTANTS
    ClientPolicy,     \* the LlmClient's policy
    Controls,         \* policies a RequestControl may carry
    Timeouts,         \* GenerationOptions timeouts; None: no overall deadline
    ServerDelays,     \* Retry-After values; None: absent or invalid
    MaxBuffered       \* bound: events one body chunk can hold

ASSUME PolicyAssumption == ClientPolicy \in Policy /\ Controls \subseteq Policy
ASSUME TimeAssumption ==
    Timeouts \subseteq Nat \cup {None} /\ ServerDelays \subseteq Nat \cup {None}
ASSUME BufferAssumption == MaxBuffered \in Nat

VARIABLES
    pc,               \* where the future is suspended, or the step it runs next
    handed,           \* stream_with_control returned its AssistantStream
    alive,            \* the future or the AssistantStream has not been dropped
    policy,           \* the tightened policies of this call
    replay_safe,      \* ResolvedIdempotency::replay_safe
    remaining,        \* overall budget left, None without a deadline
    cancelled,        \* the token shared by RequestControl, runner and transport
    attempt,          \* number of the current attempt, 0 before the first
    requests,         \* calls of Transport::execute
    stage_left,       \* time to the effective deadline of the current await
    overall_limited,  \* that deadline is the overall one
    buffered,         \* events decoded or decodable from bytes already read
    event_seen,       \* ActiveAttempt.event_seen
    err,              \* error of the last failed attempt, or about to be raised
    delay,            \* effective_delay of the planned wait
    wait_left,        \* what is left of it
    total_waited,     \* RequestRunner.total_waited
    delivered,        \* RequestExecutionState.delivered
    terminal,         \* RequestExecutionState.terminal
    progress,         \* RequestExecutionState.progress
    emitted,          \* lifecycle events recorded so far, by kind
    stop_reason,      \* reason of the last RetryExhausted
    outcome           \* how the request ended

call     == <<policy, replay_safe>>
clock    == <<remaining, stage_left, overall_limited, wait_left>>
attempts == <<attempt, requests, buffered, event_seen>>
waits    == <<delay, total_waited>>
state    == <<delivered, terminal, progress>>
observer == <<emitted, stop_reason, outcome>>
vars     == <<pc, handed, alive, call, cancelled, clock, attempts, err, waits,
              state, observer>>

Progress == {"Planned", "Attempting", "Streaming", "Terminal"}
EventKinds ==
    {"AttemptStarted", "AttemptFailed", "RetryScheduled", "RetryExhausted", "Closing"}
Outcomes == {"none", "Completed", "Failed", "Cancelled", "TimedOut", "Abandoned"}
StopReasons ==
    {"none", "DeliveryBoundaryClosed", "AttemptsExhausted", "DeadlineInsufficient",
     "ReplayUnsafe", "NonRetryable"}

(* The awaits: the only places where the caller can drop the future.        *)
Awaits == {"credential", "header", "errorBody", "waiting", "streaming"}
Steps  == {"start", "opening", "send", "failed", "ready", "next", "ended"}

TypeOK ==
    /\ pc \in Awaits \cup Steps
    /\ handed \in BOOLEAN /\ alive \in BOOLEAN
    /\ policy \in Policy /\ replay_safe \in BOOLEAN
    /\ remaining \in Nat \cup {None} /\ cancelled \in BOOLEAN
    /\ attempt \in Nat /\ requests \in Nat
    /\ stage_left \in Nat /\ overall_limited \in BOOLEAN
    /\ buffered \in 0 .. MaxBuffered /\ event_seen \in BOOLEAN
    /\ err \in LlmError
    /\ delay \in Nat /\ wait_left \in Nat /\ total_waited \in Nat
    /\ delivered \in BOOLEAN /\ terminal \in BOOLEAN /\ progress \in Progress
    /\ emitted \in [EventKinds -> Nat]
    /\ stop_reason \in StopReasons
    /\ outcome \in Outcomes

Init ==
    /\ pc = "start" /\ handed = FALSE /\ alive = TRUE
    /\ policy = ClientPolicy /\ replay_safe = FALSE
    /\ remaining = None /\ cancelled = FALSE
    /\ stage_left = 0 /\ overall_limited = FALSE /\ wait_left = 0
    /\ attempt = 0 /\ requests = 0 /\ buffered = 0 /\ event_seen = FALSE
    /\ err = PlainError("Rejected", "none")
    /\ delay = 0 /\ total_waited = 0
    /\ delivered = FALSE /\ terminal = FALSE /\ progress = "Planned"
    /\ emitted = [k \in EventKinds |-> 0]
    /\ stop_reason = "none" /\ outcome = "none"

-----------------------------------------------------------------------------
(* Building blocks.                                                         *)

Emit(kinds) ==
    emitted' = [k \in EventKinds |-> emitted[k] + (IF k \in kinds THEN 1 ELSE 0)]

(* lifecycle_preflight: cancellation first, then the overall deadline.      *)
PreflightErrors ==
    IF cancelled THEN {Cancelled}
    ELSE IF remaining = 0 THEN {TimeoutError("Overall", TRUE)} ELSE {}

(* Mutant: the stage limit is not clamped by the overall deadline.          *)
StartStageUnclamped(limit) ==
    /\ overall_limited' = FALSE
    /\ stage_left' = limit
    /\ UNCHANGED <<remaining, wait_left>>

(* The limit an await starts with: the stage's, or the overall one if that  *)
(* comes no later.                                                          *)
StartStage(limit) ==
    LET overall == remaining # None /\ remaining <= limit
    IN  /\ overall_limited' = overall
        /\ stage_left' = IF overall THEN remaining ELSE limit
        /\ UNCHANGED <<remaining, wait_left>>

EndStage ==
    /\ stage_left' = 0 /\ overall_limited' = FALSE /\ wait_left' = 0
    /\ UNCHANGED remaining

(* What interrupts await_with_stage and await_stream_with_stage.            *)
StageErrors(stage) ==
    IF cancelled THEN {Cancelled}
    ELSE IF stage_left = 0 THEN {TimeoutError(stage, overall_limited)} ELSE {}

(* The overall deadline as code below an await sees it, when it sees it     *)
(* before the await itself does.                                            *)
InnerDeadline == IF remaining = 0 THEN {TimeoutError("Overall", TRUE)} ELSE {}

MarkTerminal ==
    terminal' = TRUE /\ progress' = "Terminal" /\ UNCHANGED delivered

(* The attempt ends in e; retry_after_failure runs next.                    *)
Fail(e) ==
    /\ pc' = "failed"
    /\ err' = e
    /\ EndStage
    /\ UNCHANGED <<handed, alive, call, cancelled, waits, state, observer>>

(* emit_terminal_error: the event that closes a request ending in e.        *)
TerminalKind(e) ==
    CASE e.kind = "Cancelled" -> "Cancelled"
      [] e.kind = "Timeout" -> "TimedOut"
      [] OTHER -> "Failed"

(* The request ends in e: stream_with_control returns it, or the stream     *)
(* yields it as its last item.                                              *)
Finish(e, kinds) ==
    /\ pc' = "ended"
    /\ MarkTerminal
    /\ outcome' = TerminalKind(e)
    /\ Emit(kinds \cup {"Closing"})
    /\ EndStage
    /\ UNCHANGED <<handed, alive, call, cancelled, attempts, waits>>

-----------------------------------------------------------------------------
(* stream_with_control and start_stream up to the first attempt.  The       *)
(* deadline is fixed here, once.  Both preflights of this stretch (in       *)
(* start_stream and in RequestRunner::start) end the request the same way.  *)

StartRejected ==
    /\ pc = "start"
    /\ \E timeout \in Timeouts :
        \E e \in {PlainError("Rejected", "none")}
                 \cup (IF cancelled THEN {Cancelled} ELSE {})
                 \cup (IF ~cancelled /\ timeout = 0
                       THEN {TimeoutError("Overall", TRUE)} ELSE {}) :
            err' = e /\ Finish(e, {})
    /\ UNCHANGED stop_reason

StartAccepted ==
    /\ pc = "start"
    /\ ~cancelled
    /\ \E timeout \in Timeouts \ {0} : remaining' = timeout
    /\ \E control \in Controls \cup {ClientPolicy} :
        policy' = TightenWith(ClientPolicy, control)
    /\ \E capability \in {"Supported", "Unsupported", "Unknown"}, requested \in BOOLEAN :
        /\ ~IdempotencyRefused(capability, requested)
        /\ replay_safe' = ReplaySafe(capability, requested, policy')
    /\ pc' = "opening"
    /\ UNCHANGED <<handed, alive, cancelled, stage_left, overall_limited, wait_left,
                   attempts, err, waits, state, observer>>

-----------------------------------------------------------------------------
(* open_attempt and AttemptExecutor::execute.                               *)

BeginAttempt ==
    /\ attempt' = attempt + 1
    /\ progress' = IF terminal THEN progress ELSE "Attempting"
    /\ UNCHANGED <<delivered, terminal>>
    /\ Emit({"AttemptStarted"})
    /\ UNCHANGED <<stop_reason, outcome>>

(* Preflight or endpoint resolution fails before any await.                 *)
AttemptRejected ==
    /\ pc = "opening"
    /\ BeginAttempt
    /\ pc' = "failed"
    /\ err' \in IF PreflightErrors = {} THEN {PlainError("Rejected", "none")}
                ELSE PreflightErrors
    /\ UNCHANGED <<handed, alive, call, cancelled, clock, requests, buffered,
                   event_seen, waits>>

AttemptOpened ==
    /\ pc = "opening"
    /\ PreflightErrors = {}
    /\ BeginAttempt
    /\ StartStage(policy.credential)
    /\ pc' = "credential"
    /\ UNCHANGED <<handed, alive, call, cancelled, requests, buffered, event_seen,
                   err, waits>>

CredentialInterrupted ==
    /\ pc = "credential"
    /\ \E e \in StageErrors("Credential") : Fail(e)
    /\ UNCHANGED attempts

CredentialFailed ==
    /\ pc = "credential"
    /\ ~cancelled
    /\ \E e \in {PlainError("Credential", "Timeout"), PlainError("Credential", "Invalid"),
                 PlainError("Rejected", "none")} \cup InnerDeadline : Fail(e)
    /\ UNCHANGED attempts

CredentialResolved ==
    /\ pc = "credential"
    /\ ~cancelled
    /\ pc' = "send"
    /\ EndStage
    /\ UNCHANGED <<handed, alive, call, cancelled, attempts, err, waits, state, observer>>

(* Mutant: the header stage relies on the preflight of the credential stage.*)
SendUnchecked ==
    /\ pc = "send"
    /\ requests' = requests + 1
    /\ StartStage(policy.response_header)
    /\ pc' = "header"
    /\ UNCHANGED <<handed, alive, call, cancelled, attempt, buffered, event_seen, err,
                   waits, state, observer>>

(* The second await of execute has its own preflight, so a request whose    *)
(* credential came too late is not sent.                                    *)
SendRejected ==
    /\ pc = "send"
    /\ \E e \in PreflightErrors : Fail(e)
    /\ UNCHANGED attempts

Send ==
    /\ pc = "send"
    /\ PreflightErrors = {}
    /\ requests' = requests + 1
    /\ StartStage(policy.response_header)
    /\ pc' = "header"
    /\ UNCHANGED <<handed, alive, call, cancelled, attempt, buffered, event_seen, err,
                   waits, state, observer>>

HeaderInterrupted ==
    /\ pc = "header"
    /\ \E e \in StageErrors("ResponseHeader") : Fail(e)
    /\ UNCHANGED attempts

(* map_start_error, the response header limits and the content-type check.  *)
HeaderFailed ==
    /\ pc = "header"
    /\ ~cancelled
    /\ \E e \in {PlainError("Transport", stage) : stage \in {"Connect", "Tls", "Body", "Http"}}
                \cup {TimeoutError(stage, FALSE) : stage \in {"Connect", "ResponseHeader"}}
                \cup {PlainError("Protocol", "No")}
                \cup InnerDeadline : Fail(e)
    /\ UNCHANGED attempts

(* A non-success status: err holds what reading the body will raise.  The   *)
(* read has no stage limit of its own.                                      *)
ErrorStatusReceived ==
    /\ pc = "header"
    /\ ~cancelled
    /\ pc' = "errorBody"
    /\ \E class \in StatusClasses, retry_after \in ServerDelays :
        err' = HttpStatusError(class, retry_after)
    /\ EndStage
    /\ UNCHANGED <<handed, alive, call, cancelled, attempts, waits, state, observer>>

ErrorBodyRead ==
    /\ pc = "errorBody"
    /\ ~cancelled
    /\ Fail(err)
    /\ UNCHANGED attempts

(* Mutant: the error body is read without the deadline.                     *)
ErrorBodyIgnoresDeadline ==
    /\ pc = "errorBody"
    /\ cancelled /\ Fail(Cancelled)
    /\ UNCHANGED attempts

(* The body stream observes the token and the overall deadline itself.      *)
ErrorBodyInterrupted ==
    /\ pc = "errorBody"
    /\ \E e \in PreflightErrors : Fail(e)
    /\ UNCHANGED attempts

ErrorBodyFailed ==
    /\ pc = "errorBody"
    /\ ~cancelled
    /\ \E e \in {PlainError("Transport", "Body"), TimeoutError("UnknownTransport", FALSE)} :
        Fail(e)
    /\ UNCHANGED attempts

(* A success status: the first one hands the stream to the caller, a later  *)
(* one continues the poll that is waiting for an event.                     *)
StreamOpened ==
    /\ pc = "header"
    /\ ~cancelled
    /\ pc' = IF handed THEN "next" ELSE "ready"
    /\ handed' = TRUE
    /\ event_seen' = FALSE
    /\ buffered' = 0
    /\ EndStage
    /\ UNCHANGED <<alive, call, cancelled, attempt, requests, err, waits, state, observer>>

-----------------------------------------------------------------------------
(* retry_after_failure.                                                     *)

Retry == DecideRetry(err, delivered, attempt, policy, remaining, replay_safe)

Waits == EffectiveDelays(policy, attempt - 1, err.retry_after)

StopRetrying ==
    /\ pc = "failed"
    /\ ~Retry
    /\ stop_reason' = RetryStopReason(err, delivered, attempt, policy, remaining, replay_safe)
    /\ Finish(err, {"AttemptFailed", "RetryExhausted"})
    /\ UNCHANGED err

WaitRefused ==
    /\ pc = "failed"
    /\ Retry
    /\ \E d \in Waits : ~WaitFits(policy, d, total_waited, remaining)
    /\ stop_reason' = "DeadlineInsufficient"
    /\ Finish(err, {"AttemptFailed", "RetryExhausted"})
    /\ UNCHANGED err

ScheduleRetry ==
    /\ pc = "failed"
    /\ Retry
    /\ \E d \in Waits :
        /\ WaitFits(policy, d, total_waited, remaining)
        /\ delay' = d /\ wait_left' = d
    /\ Emit({"AttemptFailed", "RetryScheduled"})
    /\ pc' = "waiting"
    /\ UNCHANGED <<handed, alive, call, cancelled, remaining, stage_left, overall_limited,
                   attempts, err, total_waited, state, stop_reason, outcome>>

(* An interrupted wait ends the request in the wait's own error.            *)
WaitInterrupted ==
    /\ pc = "waiting"
    /\ \E e \in PreflightErrors : err' = e /\ Finish(e, {})
    /\ UNCHANGED stop_reason

WaitElapsed ==
    /\ pc = "waiting"
    /\ ~cancelled
    /\ wait_left = 0
    /\ total_waited' = total_waited + delay
    /\ delay' = 0
    /\ pc' = "opening"
    /\ UNCHANGED <<handed, alive, call, cancelled, clock, attempts, err, state, observer>>

-----------------------------------------------------------------------------
(* poll_active_attempt and AssistantStream::poll_next.                      *)

(* await_stream_with_stage reads only the deadline before it suspends.      *)
StreamDeadlinePassed ==
    /\ pc = "next"
    /\ remaining = 0
    /\ Fail(TimeoutError("Overall", TRUE))
    /\ buffered' = 0
    /\ UNCHANGED <<attempt, requests, event_seen>>

AwaitEvent ==
    /\ pc = "next"
    /\ remaining # 0
    /\ StartStage(IF event_seen THEN policy.idle_stream ELSE policy.first_event)
    /\ pc' = "streaming"
    /\ UNCHANGED <<handed, alive, call, cancelled, attempts, err, waits, state, observer>>

(* The stream is polled before the token: bytes already read still yield    *)
(* their events, but no more bytes are read once the token is cancelled.    *)
NextEvent ==
    /\ pc = "streaming"
    /\ \/ buffered > 0 /\ buffered' = buffered - 1
       \/ buffered = 0 /\ ~cancelled /\ buffered' \in 0 .. MaxBuffered
    /\ event_seen' = TRUE
    /\ delivered' = TRUE
    /\ EndStage
    /\ UNCHANGED <<alive, handed, call, cancelled, attempt, requests, err, waits>>

EventDelivered ==
    /\ NextEvent
    /\ pc' = "ready"
    /\ progress' = IF terminal THEN progress ELSE "Streaming"
    /\ UNCHANGED <<terminal, observer>>

DoneDelivered ==
    /\ NextEvent
    /\ pc' = "ended"
    /\ terminal' = TRUE /\ progress' = "Terminal"
    /\ outcome' = "Completed"
    /\ Emit({"Closing"})
    /\ UNCHANGED stop_reason

StreamInterrupted ==
    /\ pc = "streaming"
    /\ \E e \in StageErrors(IF event_seen THEN "IdleStream" ELSE "FirstEvent") : Fail(e)
    /\ buffered' = 0
    /\ UNCHANGED <<attempt, requests, event_seen>>

(* The decoder or the protocol machine rejects bytes already read, or read  *)
(* just now.                                                                *)
DecodeFailed ==
    /\ pc = "streaming"
    /\ buffered > 0 \/ ~cancelled
    /\ \E e \in {PlainError("Protocol", "Maybe"), PlainError("Protocol", "No"),
                 PlainError("Rejected", "none")} : Fail(e)
    /\ buffered' = 0
    /\ UNCHANGED <<attempt, requests, event_seen>>

(* The body ends too early, fails, or sees the deadline itself.             *)
BodyFailed ==
    /\ pc = "streaming"
    /\ buffered = 0 /\ ~cancelled
    /\ \E e \in {PlainError("TruncatedStream", "none"), PlainError("Transport", "Body"),
                 TimeoutError("UnknownTransport", FALSE)} \cup InnerDeadline : Fail(e)
    /\ UNCHANGED attempts

-----------------------------------------------------------------------------
(* The caller and the clock.                                                *)

Poll ==
    /\ pc = "ready"
    /\ alive
    /\ pc' = "next"
    /\ UNCHANGED <<handed, alive, call, cancelled, clock, attempts, err, waits, state, observer>>

Cancel ==
    /\ ~cancelled
    /\ cancelled' = TRUE
    /\ UNCHANGED <<pc, handed, alive, call, clock, attempts, err, waits, state, observer>>

(* Mutant: the drop handler cancels a finished request once more.           *)
DropStreamAlwaysCancels ==
    /\ handed /\ alive
    /\ pc \in Awaits \cup {"ready", "ended"}
    /\ alive' = FALSE
    /\ MarkTerminal
    /\ cancelled' = TRUE
    /\ outcome' = "Cancelled"
    /\ Emit({"Closing"})
    /\ pc' = "ended"
    /\ EndStage
    /\ UNCHANGED <<handed, call, attempts, err, waits, stop_reason>>

(* Drop for AssistantStream.                                                *)
DropStream ==
    /\ handed /\ alive
    /\ pc \in Awaits \cup {"ready", "ended"}
    /\ alive' = FALSE
    /\ IF pc # "ended" /\ ~terminal
       THEN /\ MarkTerminal
            /\ cancelled' = TRUE
            /\ outcome' = "Cancelled"
            /\ Emit({"Closing"})
       ELSE UNCHANGED <<cancelled, state, outcome, emitted>>
    /\ pc' = "ended"
    /\ EndStage
    /\ UNCHANGED <<handed, call, attempts, err, waits, stop_reason>>

(* Dropping the future of stream_with_control itself runs no handler.       *)
DropStartup ==
    /\ ~handed /\ alive
    /\ pc \in Awaits
    /\ alive' = FALSE
    /\ pc' = "ended"
    /\ outcome' = "Abandoned"
    /\ EndStage
    /\ UNCHANGED <<handed, call, cancelled, attempts, err, waits, state, emitted, stop_reason>>

Elapse(left) == IF left \in Nat /\ left > 0 THEN left - 1 ELSE left

Tick ==
    /\ (remaining \in Nat /\ remaining > 0) \/ stage_left > 0 \/ wait_left > 0
    /\ remaining' = Elapse(remaining)
    /\ stage_left' = Elapse(stage_left)
    /\ wait_left' = Elapse(wait_left)
    /\ UNCHANGED <<pc, handed, alive, call, cancelled, overall_limited, attempts, err, waits,
                   state, observer>>

(* An ended request stays as it is.                                         *)
Ended == pc = "ended" /\ UNCHANGED vars

-----------------------------------------------------------------------------
(* Steps the future takes on its own once it is polled.                     *)
SdkStep ==
    \/ StartRejected \/ StartAccepted
    \/ AttemptRejected \/ AttemptOpened
    \/ CredentialInterrupted \/ SendRejected \/ Send
    \/ HeaderInterrupted \/ ErrorBodyInterrupted
    \/ StopRetrying \/ WaitRefused \/ ScheduleRetry \/ WaitInterrupted \/ WaitElapsed
    \/ StreamDeadlinePassed \/ AwaitEvent \/ StreamInterrupted

(* Steps that take the provider, the network or the credential source.      *)
ProviderStep ==
    \/ CredentialFailed \/ CredentialResolved
    \/ HeaderFailed \/ ErrorStatusReceived \/ StreamOpened
    \/ ErrorBodyRead \/ ErrorBodyFailed
    \/ EventDelivered \/ DoneDelivered \/ DecodeFailed \/ BodyFailed

CallerStep == Poll \/ Cancel \/ DropStream \/ DropStartup

Next == SdkStep \/ ProviderStep \/ CallerStep \/ Tick \/ Ended

Spec == Init /\ [][Next]_vars

(* The runtime polls a woken future, the caller keeps polling its stream,   *)
(* and time passes.  Nothing is assumed of the provider.                    *)
Fairness == WF_vars(SdkStep) /\ WF_vars(Poll) /\ WF_vars(Tick)

FairSpec == Spec /\ Fairness

-----------------------------------------------------------------------------
(* Safety.                                                                  *)

(* Where the future stands says what has happened: nothing was delivered    *)
(* while an attempt is being opened, a request under way has been counted,  *)
(* the caller holds the stream before it can poll it, and the state shared  *)
(* through RequestExecutionState agrees.                                    *)
PhaseInvariant ==
    /\ pc = "ended" <=> outcome # "none"
    /\ pc # "ended" => alive /\ ~terminal
    /\ pc = "start" => attempt = 0 /\ ~handed /\ total_waited = 0 /\ delay = 0
    /\ attempt = 0 => pc \in {"start", "opening", "ended"} /\ ~handed
    /\ pc \in {"opening", "waiting"} => attempt < policy.max_attempts
    /\ pc \in {"credential", "send"} => requests < attempt
    /\ pc \in {"header", "errorBody", "ready", "next", "streaming"} => requests > 0
    /\ pc \in {"ready", "next", "streaming"} => handed
    /\ pc \notin {"ready", "next", "streaming", "failed", "ended"} => ~delivered
    /\ delivered => handed
    /\ ~terminal => progress \in IF delivered THEN {"Streaming"} ELSE {"Planned", "Attempting"}

(* RequestControl may only tighten the client's policies, and no path of    *)
(* retry_after_failure opens or sends more attempts than they allow.        *)
BoundedAttempts ==
    /\ requests <= attempt
    /\ attempt <= policy.max_attempts
    /\ policy.max_attempts <= ClientPolicy.max_attempts

(* The waits of all retries together, the one in progress included, stay    *)
(* within the total-wait cap of the call and of the client.                 *)
BoundedWaiting ==
    /\ total_waited + delay <= policy.max_total_wait
    /\ policy.max_total_wait <= ClientPolicy.max_total_wait

(* Every wait is clamped by the one overall deadline: as long as a retry    *)
(* sleeps, the budget still holds the rest of the sleep and a minimum next  *)
(* attempt.                                                                 *)
WaitKeepsBudget ==
    pc = "waiting" /\ wait_left > 0 /\ remaining # None
        => remaining >= wait_left + policy.minimum_attempt_budget

(* No retry sleeps longer than the total-wait cap and the deadline allow    *)
(* (calculate_retry_wait).                                                  *)
WaitsFit == BoundedWaiting /\ WaitKeepsBudget

(* Every stage limit is clamped by the same deadline, and a timeout is      *)
(* marked overall_limited only when it is that deadline which runs out.     *)
StageClamped ==
    pc \in {"credential", "header", "streaming"} /\ remaining # None
        => /\ stage_left <= remaining
           /\ overall_limited => stage_left = remaining

(* What an observer sees adds up: every attempt is announced, every failed  *)
(* one leads to exactly one of RetryScheduled and RetryExhausted, and only  *)
(* a scheduled retry opens another attempt.                                 *)
AttemptAccounting ==
    /\ emitted["AttemptStarted"] = attempt
    /\ emitted["AttemptFailed"] = emitted["RetryScheduled"] + emitted["RetryExhausted"]
    /\ \/ attempt = emitted["RetryScheduled"]
                     + (IF pc \in {"start", "opening", "waiting"} THEN 0 ELSE 1)
       \/ pc = "ended" /\ attempt = emitted["RetryScheduled"]

(* One request, one closing event (RequestCompleted, RequestFailed,         *)
(* RequestCancelled or RequestTimedOut), whichever of a late error, Done,   *)
(* cancellation and drop comes last.  Only a startup future that is dropped *)
(* closes without one.                                                      *)
OneClosingEvent ==
    /\ emitted["Closing"] = IF pc = "ended" /\ outcome # "Abandoned" THEN 1 ELSE 0
    /\ terminal <=> emitted["Closing"] = 1

(* The lifecycle events of a request add up, whatever ends it               *)
(* (retry_after_failure, emit_terminal_error, the stream's drop handler).   *)
EventsAddUp == AttemptAccounting /\ OneClosingEvent

(* Once the caller holds an event, no attempt is opened and nothing is sent *)
(* again.                                                                   *)
DeliveryClosesRetry == [][delivered => UNCHANGED <<attempt, requests>>]_vars

(* Nothing is sent for a request that is cancelled, out of time, dropped or *)
(* over.                                                                    *)
SendsOnlyWhileLive ==
    [][requests' # requests
        => ~cancelled /\ remaining # 0 /\ alive /\ ~terminal]_vars

ProgressRank(p) ==
    CASE p = "Planned" -> 0 [] p = "Attempting" -> 1
      [] p = "Streaming" -> 2 [] p = "Terminal" -> 3

(* RequestExecutionState only moves forward, although begin_attempt stores  *)
(* Attempting without looking at the progress made.                         *)
ProgressMonotone == [][ProgressRank(progress) <= ProgressRank(progress')]_vars

(* The runner, the executor and the stream together keep the promises of    *)
(* one logical request.                                                     *)
Logical ==
    INSTANCE LogicalRequest
    WITH MaxAttempts <- ClientPolicy.max_attempts, sent <- requests,
         seen <- delivered, closings <- emitted["Closing"], status <- outcome

ImplementsLogicalRequest == Logical!Spec

-----------------------------------------------------------------------------
(* Liveness, for a caller that keeps polling.                               *)

(* A request with an overall deadline ends, whatever the provider does.     *)
DeadlineEnds == remaining # None ~> pc = "ended"

(* A cancelled request ends.                                                *)
CancelEnds == cancelled ~> pc = "ended"

(* Without a deadline too, no await with a stage limit and no retry wait    *)
(* lasts for ever.                                                          *)
StagesEnd == \A a \in Awaits \ {"errorBody"} : pc = a ~> pc # a

(* Nothing hangs: the three together (await_with_stage, read_body_limited,  *)
(* poll_active_attempt).                                                    *)
RequestsEnd == DeadlineEnds /\ CancelEnds /\ StagesEnd

=============================================================================
