# TLA+ specifications of philo

philo is a streaming Rust SDK for LLM providers. These modules follow a request
through it: how a provider runtime is put together, how a request is planned and
encoded, how it is sent, retried and cancelled, and how the response becomes
events and a message. They are checked with TLC on small instances and, for the
parts marked so below, with TLAPS for every value of the constants. Paths are
relative to the repository root.

Contents: [the system](#the-system), [modules](#modules), [runs](#runs),
[bounds](#bounds), [fairness](#fairness), [proofs](#proofs), [what the checks
found](#what-the-checks-found), [what is not modelled](#what-is-not-modelled).

## The system

A `ProviderRuntime` is built once, from a shipped profile, from layered
configuration, or from a definition kept in the shared `ProviderRegistry`. A
caller then builds a `GenerateRequest` and calls `LlmClient::stream` or
`complete`. The planner normalises the history, validates the request against the
capabilities and limits of the runtime and encodes it for its protocol. The
`RequestRunner` opens attempts: each resolves a credential, sends one HTTP
request, and turns the response body into assistant events, which the caller polls
from an `AssistantStream`. A failed attempt may be retried until the first event
has been delivered.

```
 registry, profiles, configuration ── ProviderRuntime ── CallPlanner ── encoder
                                            │                │
 caller ── AssistantStream ── RequestRunner ── AttemptExecutor ── Transport
                 │                 │                 │               │
          event collector    retry policy,     credential cache   body bytes
                             waits, deadline                         │
                                            response machine ── SSE decoder
```

### Inventory

| Part | State | Operations | What is hard, and what makes it right |
|---|---|---|---|
| Client entry and caller stream (`client/lifecycle.rs`) | stream, runner, token | start, poll, cancel, drop | Drop, cancellation, `Done` and a late error race; exactly one closing event |
| Request runner (`execution/request_runner.rs`) | attempt count, total wait, delivery flag | open an attempt, decide and wait for a retry, poll the active attempt | No replay after delivery; bounded attempts and waits; one deadline for everything |
| Attempt executor (`execution/executor.rs`) | none between attempts | credential, header and error-body awaits | Each await has its own limit and preflight; a late credential must not be sent |
| Reliability policies (`execution/reliability/*.rs`) | policies, execution state | decide, tighten, compute the wait, mark | Bounds compare with the right value; progress never moves back |
| Lifecycle awaits (`transport/mod.rs`, `transport/reqwest.rs`) | token, deadline | await with a stage limit, bounded body read | Earliest of stage limit and deadline; cancellation first |
| Credential cache (`provider/auth/cache.rs`, `dynamic.rs`) | credentials, in-flight refreshes | look up, join, refresh, store, notify | Single flight; no lost wake-up; dropped refreshers; expiry while fetching |
| SSE decoder (`transport/sse.rs`) | line, event and limit counters | poll, process a byte, finish a line, dispatch, end | Chunks cut anywhere; limits exact; a yielding poll wakes itself |
| Response stream driver (`protocol/response_stream.rs`) | queued events, terminal flag | poll | Order; queued events before an error; a yielding poll wakes itself |
| OpenAI machine (`protocol/openai_chat/response/`) | identity, blocks, tool calls, finish, usage | accept, finish | Interleaved tool-call fragments, chunks after the finish reason, terminal rules |
| Anthropic machine (`protocol/anthropic_messages/response/`) | phase, blocks, usage | one operation per SSE event type, finish | Phase order, block lifecycle, cumulative usage |
| Structured terminal (`protocol/structured_terminal.rs`) | text so far | validate at the end | A success only for complete, valid output |
| Event collector (`domain/event.rs`) | blocks, usage, phase | accept, finish | Accepts what both machines emit, refuses what is out of order |
| Usage and cost (`domain/usage.rs`) | counters | merge, sum, price | Overflow, missing parts, repeated reports |
| History normalisation (`domain/history/`) | pending calls, id mapping, text count | one pass over the messages | Calls and results pair up once under the ids that are sent; a second pass changes nothing |
| Request validation, tools (`domain/request.rs`, `tools.rs`, ...) | none | validate before and after normalisation | Checks of three stages agree; unsupported options are refused |
| Schema (`domain/schema/`) | budgets | compile, validate | Reference expansion ends within its budget |
| Planner and call plan (`execution/planner.rs`, `plan/`) | none | resolve, normalise, validate, encode, scan | The facts of a call describe the body that is sent |
| Request encoders, protocol options (`protocol/*/request.rs`, `protocol_options/`) | none | encode | Roles alternate; raw fields never replace typed ones |
| Provider registry and factory (`provider/registry.rs`, `factory.rs`) | map behind a lock | register, replace, remove, look up, build | Concurrent calls are atomic; a resolver may call the registry |
| Provider definition, runtime, profiles (`provider/`) | immutable | build | Contracts hold under the capabilities a model runs with; what builds can send |
| Model catalog (`provider/catalog/`) | immutable | merge | The last layer that knows a fact decides; limits only tighten |
| Endpoints, headers, static auth (`provider/endpoint`, `headers`, `auth`) | none | resolve | A credential goes only to its destination; a header stays with its owner |
| Rate limits (`provider/rate_limit.rs`) | none | parse | Malformed values are ignored |
| Idempotency (`provider/idempotency.rs`) | none | resolve | Only a request with a key is replay safe |
| Observability (`observability/`) | observer | emit | One closing event; attempts and retries add up |
| Errors, protected names (`error.rs`, `protected.rs`) | none | classify | Retriable hints |
| `philo-config` | layered values | merge, validate, build | Order of precedence, provenance, official products stay official |
| `philo-presets` | static data | build | Bindings and catalogs of the presets |

The hazards these parts are exposed to are listed in `PROJECT.json`, each at its
line with the properties that would catch it; two that no property covers say
why.

## Modules

| Module | Models | State and actions |
|---|---|---|
| `RetryPolicy` | `retry.rs`, `wait.rs`, `timeout.rs`, `idempotency.rs`, the error classes of `error.rs` | No state: policies and how a control tightens each of the three (`TightenRetry`, `TightenTimeout`, `TightenWait`), `DecideRetry`, the possible waits and `WaitFits` |
| `RequestRunner` | `client/lifecycle.rs`, `request_runner.rs`, `executor.rs`, `transport/mod.rs` and the transport's part in it | One request. `pc` is the await the future is suspended in or the step it runs next; an action is what runs between two reads of the clock or of the token |
| `LogicalRequest` | what a logical request promises | HTTP requests sent, whether the caller has seen an event, closing events, status |
| `RequestRunnerProofs`, `RequestRunnerRefinement` | | proofs about `RequestRunner`: the invariant; action properties and refinement |
| `CredentialCache` | `cache.rs` and the fetch closure of `dynamic.rs` | Many calls of `get_or_refresh`; what runs under the mutex is one action; a `Notify` is named by the call that signals it |
| `CredentialCacheProofs` | | proofs about `CredentialCache` |
| `SseDecoder` | `transport/sse.rs` | The decoder's fields in the record `dec`; one action per turn of the loop of `poll_next`; the upstream chooses chunks, errors, end and pending |
| `StructuredTerminal` | `structured_terminal.rs`, `structured.rs` | A record: format, text so far, whether it was validated; `PushAnswerText` and the validation before `Done` |
| `UsageDetails` | `domain/usage.rs`, both `usage.rs` of the protocols | Counters that may be unknown, checked addition within `MaxCount`, the details a wire report becomes, monotonic snapshots |
| `Collector` | `Collector` of `domain/event.rs` | A record; `CollectorAccept` has one definition per event kind, `CollectorFinish` is the final check of `complete` |
| `MachineSteps` | | how `?` chains the steps of one `accept`: the first failure ends it |
| `ResponseStream` | `protocol/response_stream.rs` and the loop of `complete` | One action per way through `poll_next`; the machine is a constant operator; the upstream yields any wire event, fails, ends or stays pending; beside the caller's items, `collector` and `outcome` follow `complete` |
| `OpenAiMachine`, `AnthropicMachine` | the `response/` directories of the two protocols | A record with the machine's fields; `accept` and `finish` as operators, one per handler |
| `OpenAiResponse`, `AnthropicResponse` | | `ResponseStream` with one machine, and the properties of the whole: wire against delivered items against collected message |
| `Answers` | | Ordered checks: an answer is `Ok` or the first failure, as `?` chains them |
| `Conversation` | `domain/message.rs`, `domain/content.rs` | Messages, parts and results as records; which images a constructor admits |
| `Capabilities` | `provider/capability.rs`, `CapabilityStatus` | Three-valued declarations of provider and model, the shipped profiles, `Apply` |
| `RequestValidation` | `domain/request.rs`, `domain/tools.rs` | The checks before and after normalisation, in their order |
| `History` | `domain/history/` | One action per turn of the loops of `normalize_history`: parts of a message, tool calls, results; `Resubmit` feeds the output back |
| `RequestEncoding` | `protocol/*/request.rs`, `anthropic_messages/history.rs`, `tool_wire.rs`, `protocol_options/raw.rs` | Which fields, turns and blocks a body has, and what the encoders refuse |
| `RequestPlanner` | `execution/planner.rs`, `protocol/preparation.rs` | `History` inside `CallPlanner::plan`: one action per stage, each with its error path |
| `HeaderPipeline` | `provider/headers.rs`, `headers/dynamic.rs`, `protected.rs` | Layers of operations in priority order, the policy, the trace |
| `Endpoint` | `provider/endpoint/` | URLs as records, templates, the dot segments `Url::set_path` removes, query plans, network policy, credential bindings |
| `Catalog` | `provider/catalog/` | Entries as functions of the fields they know, the merge with its provenance and the source of the entry |
| `ProviderDefinition` | `provider/definition.rs`, `profile.rs`, `runtime.rs`, `protocol_contract/` | The checks of building a definition and a runtime, and the policy of a call |
| `Presets` | `provider/profiles/`, `philo-presets` | The shipped profiles as drafts |
| `ProviderConfig` | `philo-config` | Sources and their permissions, `merge_layers`, the official inputs |
| `ProviderRegistry` | `provider/registry.rs`, `factory.rs` | Callers that run programs of calls. A build takes the read guard, copies, releases it, runs the resolver, compiles; the resolver's own calls are the program of a hosted caller |
| `ProviderRegistryProofs` | | proofs about `ProviderRegistry` |
| `ProviderClient` | `runtime.rs`, `executor.rs` | The registry together with profiles, catalogs, configuration, and attempts that resolve endpoint, credential, dynamic headers and final headers |
| `MC*` | | constants for TLC |

Abstractions. *Time* is what is left: the overall budget, the limit of the current
await and the retry sleep are natural numbers that tick down together. A timer may
fire late, so an answer can still win after its limit is reached; the token is
read exactly. *Errors* keep the kind and the one detail that `decide_retry` and
the closing event look at. *Events* of a response are counted in `RequestRunner`,
not inspected. *Random jitter* is every delay from zero to its cap. *Credentials*
are the time they have left. In `SseDecoder` a *byte* is a member of a small set
in which a field name or a text counts as one byte. In the response modules a
*text* is a sequence of pieces, each counting one byte, and which texts are JSON,
objects, too deep or instances of the schema are constants. A *wire event* is the
record the deserialiser would build, or `malformed`; the text of an object-valued
tool argument stands for its serialisation. In the planner a *text* is its length
and whether it is blank, an *identifier* a model value with its filtered and
hashed form (functions that satisfy `IdAssumption`), and a *body* is the set of
its fields and the sequence of its turns. In the provider modules a *URL* is a
record, a *header value* the layer that wrote it, and a *definition* is named by
its draft. The *registry*'s write sections call nothing outside it, so each is one
step; none can panic, so the lock is never poisoned.

The future of `stream_with_control` and the `AssistantStream` it returns are one
variable `alive` with `handed` telling them apart: dropping the first runs no
handler, dropping the second cancels the token and records the closing event.

Operators named `...Unchecked`, `...Unclamped`, `...OffByOne` and the like, next
to the definition they deviate from, are plausible bugs. Each one is caught by the
property `PROJECT.json` lists with it.

## Runs

| Run | Shows |
|---|---|
| `request` | Three attempts, tightened and loosened policies, cancellation, drops and late timers: waits fit, stage limits are clamped, events add up, nothing is sent late, the runner implements `LogicalRequest`, and a request that is polled ends by its deadline, its token or its stage limits |
| `cache_safety` | Single flight and necessary refreshes under drops on a multi-threaded runtime |
| `cache_liveness` | Without drops, on one thread, every call is answered |
| `cache_lost_wakeup`, `cache_leaked_refresh` | two ways the cache leaves its callers waiting (violations) |
| `sse_decoder` | Short inputs over line ends, colons and data fields in every chunking, and field lines over several events: events, errors and retained bytes match the reference, and no poll forgets to wake its task |
| `openai_response` | Two tool calls whose fragments interleave with each other and with text, and a third call above the limit; text, refusals, formats, finish reasons and usage: the message is what the wire sent, `Done` comes only after a complete valid answer, and the collector refuses nothing but usage that grew |
| `response_driver` | Every fall of polls between arrivals, with a budget of one event: the caller gets what the machine emitted, and is never stranded |
| `anthropic_response` | Blocks of every kind opened, filled and closed in any order, cumulative usage, stop reasons: the same properties for the other machine |
| `anthropic_empty_tool` | a stream the machine ends with `Done` and the collector of `complete` refuses (violation) |
| `request_planner` | Every short history and a table of options against five targets: what is sent has its calls and results paired under the ids on the wire, keeps the text limit, alternates roles, uses only what the target supports, passes the encoder's own checks, is described by its facts, and is left alone when it is submitted again |
| `provider` | Concurrent callers and a resolver on one registry, every definition with every deployment, every profile with every credential, catalogs and configuration layers, and attempts on the runtimes that result: calls are atomic and return, credentials and headers stay where they belong, limits, contracts, catalog facts and configuration come from the layer that decides them, and a runtime that builds can send |

Run one with `tlc -config <cfg> <module>`; the pairs are in `PROJECT.json`. The
`request` run and the response runs check deadlock (an ended request stutters
explicitly). The others do not: when every call has been answered, the stream has
ended or the programs have run, they have stopped for good. `CallsReturn` says
that no caller of the registry stops in the middle of a call.

Several properties are the conjunction of named ones: `WaitsFit` of
`BoundedWaiting` and `WaitKeepsBudget`, `EventsAddUp` of `AttemptAccounting` and
`OneClosingEvent`, `RequestsEnd` of `DeadlineEnds`, `CancelEnds` and `StagesEnd`.
What is proved and implied by a property of a run has no run of its own (see
[proofs](#proofs)).

## Bounds

* `request`: three attempts, because a third shows that waits add up and that the
  second retry is bounded by what the first used. Durations of one to three units
  let a stage run out before, with and after the deadline. One control asks for
  more than the client allows. `MaxBuffered` is 1: one event that was already read
  when cancellation arrives is the case that differs.
* `cache_*`: three calls for one key (refresher, waiter, latecomer) and, for
  safety, one for another key. A lifetime of two with a window of one makes a
  credential fresh, merely valid and expired.
* `sse_decoder`: two feeds. Five bytes of line ends, colons and data fields hold
  an event ended by CRLF twice, or one event and the start of the next. Eight
  bytes of field lines hold two events with an id before the first, or more fields
  than the limit of two. The limits (four bytes a line, seven an event, five a
  chunk) are met exactly and exceeded. A poll handles two bytes and two chunks, so
  it yields inside chunks and between them.
* `openai_response`: three feeds. Seven wire events are two tool calls in two
  fragments each, text, a finish reason and the end marker. Ids that arrive late
  or collide, arguments sent as an object and a chunk with two fragments are all
  in the set; limits are two calls, three bytes a call and four altogether, so
  both byte limits are met and exceeded. Six events are three calls, one above the
  limit, in any order and two of them in one chunk. Five events are identity or usage, two
  texts, a finish reason and the marker, for three formats. The structured limit
  is two bytes.
* `response_driver`: five events and a budget of one, so that every poll that
  emits nothing yields.
* `anthropic_response`: four feeds. Nine events are the three of the message and
  two overlapping blocks. Eight are enough for a thinking block with text and
  signature beside a redacted or an unsupported one. Eleven, one above the event
  limit, are two text blocks filled in turns and a tool call beside them: an answer
  that is valid in the order of arrival, in the order of the blocks, or in both.
  Seven carry three usage reports, with counters up to four, so that the sum of
  the input counters overflows.
* `request_planner`: every history of up to three of nineteen messages, which hold
  calls whose ids collide after sanitising, results in any order, parts every
  target treats differently and empty or blank content; longer conversations where
  two results, a fifth message or a signature that is not UTF-8 matter; and each option alone and in the
  combinations a check depends on. `MaxPasses` is 2: the output is submitted once
  more. Limits are a few units, met and exceeded. The targets are two of each
  protocol that differ in capabilities and in what they do with unsupported
  content, and an OpenAI-compatible one whose profile keeps thinking.
* `provider`: two threads with two or three calls each and a resolver with two,
  enough for a replacement between copy and compilation, for a removal before the
  compilation and for a resolver that writes while its build runs. The
  definitions, some thirty, differ from one that builds in one thing each; some
  place the model in the path, and one model is named `..`. Three
  merges of any of four catalog layers, and configurations of up to three of nine
  layers.

A *feed* names the events one kind of stream is made of and how many it has; the
source picks its feed in the initial state.

## Fairness

* Requests: weak fairness of the SDK's own steps (the runtime polls a woken
  future), of the caller's poll and of the clock. Nothing is assumed of the
  provider. Liveness is only stated for a caller that keeps polling, which is how
  futures work.
* Cache: weak fairness of each call's steps. The tokio mutex is fair, and
  `callback_timeout` bounds each fetch.
* Decoder and response stream: weak fairness of a due poll and of the turns of its
  loop (the executor runs a woken task, and a poll that runs comes to its end).
  Nothing is assumed of the upstream: it may never wake a waiting task.
* Registry: weak fairness of the steps of a call that has begun, and of a
  resolver's calls. A thread that runs comes to the end of its call unless the
  lock stops it, and a resolver makes its calls and returns. Nobody has to begin a
  call.
* Planner: none; its properties are invariants.

## Proofs

`RequestRunnerProofs` proves, for every policy, set of controls, timeouts, server
delays and buffer bound that satisfies the assumptions of `RequestRunner`
(policies are well formed, times are natural numbers or absent):

* `RunnerInvariant`: `Inv`, the conjunction of `TypeOK`, `PhaseInvariant` and the
  six safety invariants, is inductive. Apart from `TypeOK` no conjunct is
  inductive alone: the attempt bound needs to know that a waiting or opening
  request has an attempt left (`PhaseInvariant`); the wait bound that `delay` is
  zero when nothing is planned; the closing-event count that only an ended request
  is terminal. The proof has one case per kind of step.
* from it, here and in `RequestRunnerRefinement`, the invariants themselves
  (`RetryWaitsFit`, `StagesAreClamped`, `EventsAreAccounted`,
  `AttemptsAreBounded`, ...), the action properties (`NoRetryAfterDelivery`,
  `NothingSentLate`, `ProgressMovesForward`) and `RunnerImplementsLogical`: the
  runner implements `LogicalRequest` under `sent <- requests, seen <- delivered,
  closings <- emitted["Closing"], status <- outcome`.

`CredentialCacheProofs` proves for any set of calls and keys that one refresh per
key is in flight (`OneRefreshPerKey`) and never beside a fresh credential
(`RefreshesAreNeeded`), whatever is dropped on however many threads; and that on
one thread without drops every waiter has a call that will wake it
(`NoWaiterLeftBehind`). The inductive invariant ties every in-flight entry to the
call that put it there and the place that call is in.

`ProviderRegistryProofs` proves for any callers, programs of calls, definitions
and resolvers (assumption `ProgramsAreComplete`: a program gives every caller its
calls; what a definition compiles to is an uninterpreted operator):

* `RegistryInvariant`: a caller's step, the copy it holds, the read guards and the
  maps seen since its call began belong together. In particular a copy is what
  `Selected` answers on one of the seen maps, which is what makes the next fact
  inductive;
* `AtomicityTheorem`: every call answers what the whole call would answer on one
  of the maps there were while it ran, and leaves every registration filed under
  its own key (`AnswersAreAtomic`);
* `KeysTheorem`: every registration is filed under the key of its own definition
  (`FiledUnderItsKey`);
* `GuardTheorem`: no read guard is held while a resolver runs
  (`NoGuardInUserCode`).

`TypeCorrect`, `PhasesAgree`, `AttemptsAreBounded`, `NoRetryAfterDelivery`,
`ProgressMovesForward`, `NoWaiterLeftBehind`, `KeysTheorem` and `GuardTheorem`
state properties that no run repeats.

Only model-checked: all liveness properties (fairness is outside what the prover
handles), and the decoder, whose reference splits whole inputs and would need
induction over sequences. So are the response machines, the collector, the history
pass, the encoders and the merges of headers, catalogs and configuration: their
central properties relate folds over whole sequences.

## What the checks found

Each is a run that TLC ends with a counterexample; `PROJECT.json` quotes both
sides.

* `get_or_refresh` can miss its wake-up: `notified()` is created after the lock is
  released, and `notify_waiters` stores no permit.
* A refreshing call that is dropped leaves its in-flight entry, and later calls
  for the key wait for it.
* An Anthropic tool block without input is completed with `{}` by the machine,
  which the collector compares with the empty text of its deltas.

The passing runs state that machine and collector agree on every other stream. For
OpenAI, usage that grows is the only case (`CollectorAgreesUnlessUsageGrew`). For
Anthropic there are five (`Disagreement`), and each of them always fails
`complete`: a tool call without arguments, a stop reason other than `tool_use`
after tool blocks, a message without content, two tool blocks with the same index
or id, and, without tool calls, an answer that is what the structured format asks
for in the order its text arrived but not in the order of its blocks
(`MisorderedAnswer`).

More readings of the code follow from the modules and have no run of their own.

* Requests: `RequestTimedOut` is documented as "The overall deadline elapsed."
  (`observability/trace.rs:323`) and emitted for every stage timeout
  (`client/lifecycle.rs:650`). `RetryExhausted` is emitted for every failure that
  is not retried, retryable or not (`request_runner.rs:218`).
  `DeadlineInsufficient` is reported without any deadline when the total-wait cap
  refuses the wait (`request_runner.rs:186`). A failed refresh may return a
  credential that expired during the fetch (`cache.rs:96`).
* Planning: a lowered inline-image limit, documented as "Maximum decoded inline
  image payload bytes." (`domain/limits.rs:40`), is not applied to images given as
  data URLs (`domain/request.rs:673`); the official limit is, when they are
  constructed. `replay.rs:13` says that official OpenAI history always drops
  thinking, but a compatibility profile may keep it (`definition.rs:659`), and
  `protocol_contract/profile.rs:185` does not refuse it. The planner then keeps
  thinking of the call's own source and the OpenAI encoder refuses the request
  (`openai_chat/request.rs:230`). `EncoderRechecksNeverFire` states that this is
  the only check of the encoder that repeats an earlier one and fires.
* Contracts: `provider/runtime.rs:109` says a contract "that contradicts the
  capabilities it will run under is rejected here". The contract of the definition
  is compared with the provider's capabilities (`runtime.rs:545`), while a request
  runs under those of its model; only a contract declared for a model is compared
  with the model's. `ModelContractsHold` is stated for those. A definition is
  checked with the catalog laid over the model's declaration, a runtime lays it
  under (`definition.rs:785`, `runtime.rs:233`).
* Headers: the idempotency header is reserved when a runtime is built and not when
  a definition is (`definition.rs:894`), so a definition whose model headers claim
  it builds and its attempts are refused. The same holds for an API key scheme that
  writes the header, on a request with a key. `WhatBuildsSends` leaves both out.
* Endpoints: a template renders the name of a model, and `Url::set_path` then
  removes dot segments, encoded ones too (`endpoint/config.rs:138`); an identifier
  may be `..` (`domain/ids.rs:20`). Fixed and dynamic credentials are compared with
  the resulting path before every attempt, and a model that a catalog lists is
  resolved when the runtime is built. A caller's own authentication provider is
  handed the endpoint and judges it by itself, so for models that no catalog lists
  `CredentialOnlyToItsDestination` states only scheme and origin for it.
* Registry: a definition whose provider is not written in lower case is filed
  under the normal form and can be looked up, but not built, because the
  deployment must name the key and the definition compares with its own spelling.
* Catalog: entries are validated after every merged layer, so whether a chain of
  layers fails can depend on how it is grouped. A catalog does not restrict models
  at run time when unregistered ones are allowed.
* Limits: the Anthropic profile caps `max_request_body_bytes` at 32 MiB; a runtime
  of the same definition from the registry or from configuration does not.

## What is not modelled

* The schema compiler and validator (`domain/schema/`): an interpreter of JSON
  Schema over arbitrary JSON. Its budgets show on inputs too large to enumerate,
  so "compiles" and "is an instance" are given, the same for the machine and the
  collector.
* Cost estimation, rate-limit headers and Retry-After values, HTTP dates included:
  stateless arithmetic and parsing. `RequestRunner` takes the delay they yield as
  an input.
* URL, header, identifier and MIME syntax, address ranges, TLS, DNS and proxy
  settings (a library's configuration) and the redirect policy, whose same-origin
  mode no runtime enables.
* JSON itself: parsing and serialisation, the size and depth limits of raw
  options, reading configuration from files and the environment.
* The wording and redaction of errors, the mapping of HTTP error bodies, the
  tracing adapter, observers that panic, and the diagnostic record of unknown wire
  fields.
* `list` and `get_by_name` of the registry, reads of the map like `get`.

`RequestRunner` counts events and does not inspect them; `ResponseStream` does. A
`RequestControl` shared by several requests shares its token; the model has one
request and lets the token be cancelled at any time. `RequestPlanner` and
`ProviderClient` meet in the policy of a call: the first takes targets as given,
the second builds them (`Target`).
