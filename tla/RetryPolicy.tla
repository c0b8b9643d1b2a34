------------------------------ MODULE RetryPolicy ------------------------------
(***************************************************************************)
(* The pure part of the reliability layer: the errors an attempt can end   *)
(* in, the request policies and how one call may tighten them, the retry   *)
(* decision, and the bounded full-jitter wait before the next attempt.     *)
(*                                                                         *)
(* Durations are natural numbers of clock units.  An absent Option is the  *)
(* constant None.  A retry index stays below the hard limit of eight       *)
(* attempts, so the 32-bit saturation of the backoff multiplier is never   *)
(* reached and the multiplier is the plain power of two.                   *)
(***************************************************************************)
EXTENDS Integers

CONSTANT None

ASSUME NoneAssumption == None \notin Int

MAX_ATTEMPTS_HARD_LIMIT == 8

MinOf(a, b) == IF a <= b THEN a ELSE b

MaxOf(a, b) == IF a <= b THEN b ELSE a

-----------------------------------------------------------------------------
(* Errors.  detail is what the retry decision looks at inside the error: a  *)
(* transport stage, a timeout stage, a status class or a retriable hint.    *)

TimeoutStages ==
    {"Credential", "Connect", "ResponseHeader", "FirstEvent", "IdleStream",
     "Overall", "UnknownTransport"}

(* 408, 429, 502 to 504, and every other failure status.                    *)
StatusClasses == {"RequestTimeout", "TooManyRequests", "BadGateway", "OtherStatus"}

ErrorDetails ==
    TimeoutStages \cup StatusClasses
        \cup {"none", "Tls", "Body", "Http", "Timeout", "Invalid", "Maybe", "No"}

ErrorKinds ==
    {"Cancelled", "Timeout", "Transport", "Credential", "HttpStatus", "Protocol",
     "TruncatedStream", "Rejected"}

LlmError ==
    [kind            : ErrorKinds,
     detail          : ErrorDetails,
     overall_limited : BOOLEAN,
     retry_after     : Nat \cup {None}]

PlainError(kind, detail) ==
    [kind |-> kind, detail |-> detail,
     overall_limited |-> FALSE, retry_after |-> None]

Cancelled == PlainError("Cancelled", "none")

TimeoutError(stage, overall_limited) ==
    [PlainError("Timeout", stage) EXCEPT !.overall_limited = overall_limited]

HttpStatusError(class, retry_after) ==
    [PlainError("HttpStatus", class) EXCEPT !.retry_after = retry_after]

-----------------------------------------------------------------------------
(* Policies: TimeoutPolicy, RetryPolicy and RetryWaitPolicy in one record.  *)

Policy ==
    [max_attempts           : 1 .. MAX_ATTEMPTS_HARD_LIMIT,
     minimum_attempt_budget : Nat \ {0},
     credential             : Nat \ {0},
     response_header        : Nat \ {0},
     first_event            : Nat \ {0},
     idle_stream            : Nat \ {0},
     base_delay             : Nat \ {0},
     max_delay              : Nat \ {0},
     server_delay_cap       : Nat \ {0},
     max_total_wait         : Nat \ {0}]

(* The tighten_with of each of the three: a control lowers limits and       *)
(* raises minima.                                                           *)
TightenRetry(policy, control) ==
    [policy EXCEPT
        !.max_attempts           = MinOf(@, control.max_attempts),
        !.minimum_attempt_budget = MaxOf(@, control.minimum_attempt_budget)]

TightenTimeout(policy, control) ==
    [policy EXCEPT
        !.credential      = MinOf(@, control.credential),
        !.response_header = MinOf(@, control.response_header),
        !.first_event     = MinOf(@, control.first_event),
        !.idle_stream     = MinOf(@, control.idle_stream)]

TightenWait(policy, control) ==
    [policy EXCEPT
        !.base_delay       = MaxOf(@, control.base_delay),
        !.max_delay        = MinOf(@, control.max_delay),
        !.server_delay_cap = MinOf(@, control.server_delay_cap),
        !.max_total_wait   = MinOf(@, control.max_total_wait)]

(* What one call runs under: the client's policy, tightened by the control. *)
TightenWith(client, control) ==
    TightenWait(TightenTimeout(TightenRetry(client, control), control), control)

(* ResolvedIdempotency::resolve.  A key asked for (requested) from a        *)
(* provider not known to support keys is an error; otherwise a key is there *)
(* when it was asked for, or when retries are on and the provider supports  *)
(* keys.  A request with a key is the only one that is safe to replay.      *)
IdempotencyRefused(capability, requested) ==
    requested /\ capability # "Supported"

ReplaySafe(capability, requested, policy) ==
    capability = "Supported" /\ (requested \/ policy.max_attempts > 1)

-----------------------------------------------------------------------------
(* decide_retry: which errors may be retried at all ...                     *)
Retriable(error, replay_safe) ==
    \/ error.kind = "Transport" /\ error.detail = "Connect"
    \/ error.kind = "Transport" /\ error.detail = "Body" /\ replay_safe
    \/ /\ error.kind = "Timeout"
       /\ error.detail \in {"Connect", "ResponseHeader", "FirstEvent"}
       /\ ~error.overall_limited
    \/ error.kind = "Credential" /\ error.detail = "Timeout"
    \/ error.kind = "HttpStatus" /\ error.detail = "TooManyRequests"
    \/ error.kind = "HttpStatus" /\ error.detail \in {"RequestTimeout", "BadGateway"} /\ replay_safe
    \/ error.kind = "Protocol" /\ error.detail = "Maybe" /\ replay_safe
    \/ error.kind = "TruncatedStream" /\ replay_safe

BelowBudget(remaining, policy) ==
    remaining # None /\ remaining < policy.minimum_attempt_budget

(* Mutant: the delivery boundary is not consulted.                          *)
DecideRetryAfterDelivery(error, delivered, attempt, policy, remaining, replay_safe) ==
    /\ attempt < policy.max_attempts
    /\ ~BelowBudget(remaining, policy)
    /\ Retriable(error, replay_safe)

(* ... and whether this one is.                                             *)
DecideRetry(error, delivered, attempt, policy, remaining, replay_safe) ==
    /\ ~delivered
    /\ attempt < policy.max_attempts
    /\ ~BelowBudget(remaining, policy)
    /\ Retriable(error, replay_safe)

RequiresReplaySafety(error) ==
    \/ error.kind = "Transport" /\ error.detail = "Body"
    \/ error.kind = "HttpStatus" /\ error.detail \in {"RequestTimeout", "BadGateway"}
    \/ error.kind = "TruncatedStream"

(* The reason reported when the decision is not to retry.                   *)
RetryStopReason(error, delivered, attempt, policy, remaining, replay_safe) ==
    CASE delivered -> "DeliveryBoundaryClosed"
      [] ~delivered /\ attempt >= policy.max_attempts -> "AttemptsExhausted"
      [] /\ ~delivered /\ attempt < policy.max_attempts
         /\ BelowBudget(remaining, policy) -> "DeadlineInsufficient"
      [] OTHER -> IF ~replay_safe /\ RequiresReplaySafety(error)
                  THEN "ReplayUnsafe" ELSE "NonRetryable"

-----------------------------------------------------------------------------
(* calculate_retry_wait: the delays a random sample can select ...          *)
ClientDelayCap(policy, retry_index) ==
    MinOf(policy.base_delay * 2 ^ retry_index, policy.max_delay)

EffectiveDelay(policy, client_delay, server_delay) ==
    MinOf(MaxOf(client_delay, IF server_delay = None THEN 0
                              ELSE MinOf(server_delay, policy.server_delay_cap)),
          policy.server_delay_cap)

EffectiveDelays(policy, retry_index, server_delay) ==
    {EffectiveDelay(policy, client_delay, server_delay) :
        client_delay \in 0 .. ClientDelayCap(policy, retry_index)}

(* Mutant: earlier waits are forgotten.                                     *)
WaitFitsAlone(policy, delay, total_waited, remaining) ==
    /\ delay <= policy.max_total_wait
    /\ remaining # None => delay + policy.minimum_attempt_budget <= remaining

(* ... and the two bounds a selected delay has to meet.                     *)
WaitFits(policy, delay, total_waited, remaining) ==
    /\ total_waited + delay <= policy.max_total_wait
    /\ remaining # None => delay + policy.minimum_attempt_budget <= remaining

=============================================================================
