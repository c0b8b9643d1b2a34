--------------------------- MODULE RequestPlanner ---------------------------
(***************************************************************************)
(* One logical call from the caller's request to the bytes of its body     *)
(* (execution/planner.rs, protocol/mod.rs): resolve the policy, validate   *)
(* the options, normalise the history, validate the planned request,       *)
(* encode it for the target's protocol and record the facts header         *)
(* policies read.  What was sent is the history of the next call.          *)
(***************************************************************************)
EXTENDS History, RequestEncoding

CONSTANT Calls     \* the requests: pairs of a message sequence and generation options

VARIABLES
    options,    \* the request's generation options
    stage,      \* how far the call has come
    body,       \* the encoded body
    facts       \* RequestFacts of the prepared call

vars == <<messages, target, index, part, turn, output, text, counts, phase, error, pass,
          options, stage, body, facts>>

NoBody == [messages |-> <<>>, fields |-> {}, output_config |-> {}, raw |-> {}]
NoFacts == [contains_tools |-> FALSE, contains_images |-> FALSE, reasoning_enabled |-> FALSE,
            response_format |-> "text", max_output_tokens_source |-> "omitted"]

\* Only values the public constructors return are ever part of a request.
Constructible(ms, o) ==
    /\ o.extension.raw # {} => RawAdmitted(o.extension) = Ok
    /\ \A x \in PartsOf(ms, "image") :
          LET p == ms[x[1]].content[x[2]] IN ImageAdmitted(p.tag, p.bytes, TRUE, TRUE) = Ok

Init ==
    /\ \E call \in Calls : messages = call[1] /\ options = call[2]
    /\ HistoryInit
    /\ Constructible(messages, options)
    /\ stage = "resolve"
    /\ body = NoBody
    /\ facts = NoFacts

Stop(where, answer) ==
    /\ stage' = where
    /\ error' = answer
    /\ UNCHANGED <<messages, target, index, part, turn, output, text, counts, phase, pass,
                   options, body, facts>>

Advance(where) ==
    /\ stage' = where
    /\ UNCHANGED <<messages, target, index, part, turn, output, text, counts, phase, error, pass,
                   options, body, facts>>

\* plan_policy_for: the option axis must be the target's, its capabilities
\* usable, the typed Anthropic options supported, and no resolved limit zero.
PlanPolicy(o, t) ==
    FirstFailure(<<
        <<o.foreign, "validation", "ProviderMismatch">>,
        <<o.extension.protocol \notin {"none", t.protocol}, "validation", "Conflict">>,
        <<~CapabilitiesValid(t.caps), "validation", "Streaming">>,
        <<o.extension.adaptive /\ ~Declared(t.caps, "adaptive_thinking"), "validation", "Adaptive">>,
        <<o.extension.effort /\ ~Declared(t.caps, "adaptive_thinking_effort"),
          "validation", "AdaptiveEffort">>,
        <<\E limit \in DOMAIN t.limits : t.limits[limit] = 0, "validation", "Zero">> >>)

\* CallPlanner::plan up to the history pass.
Resolve ==
    /\ stage = "resolve"
    /\ LET answer == FirstError(<<
               PlanPolicy(options, policy),
               FirstFailure(<< <<options.max_tokens # Unset /\ policy.model.max_tokens # Unset
                                   /\ options.max_tokens > policy.model.max_tokens,
                                 "validation", "OutOfRange">> >>),
               ValidateRequestShape(messages, options, policy.caps, policy.limits)>>)
       IN  IF answer = Ok THEN Advance("normalise") ELSE Stop("refused", answer)

Normalise ==
    /\ stage = "normalise"
    /\ Pass
    /\ UNCHANGED <<options, stage, body, facts>>

NormaliseFailed == stage = "normalise" /\ phase = "failed" /\ Stop("refused", error)

ValidatePlanned ==
    /\ stage = "normalise"
    /\ phase = "done"
    /\ LET answer == ValidatePlannedRequest(output, options, policy.caps, policy.limits)
       IN  IF answer = Ok THEN Advance("planned") ELSE Stop("refused", answer)

\* Mutant: the model's default token limit is forgotten.
ScanWithoutDefault(ms, o, t) ==
    [contains_tools |-> o.tools # <<>> \/ PartsOf(ms, "tool_call") # {}
                        \/ \E i \in DOMAIN ms : ms[i].role = "tool",
     contains_images |-> PartsOf(ms, "image") # {},
     reasoning_enabled |-> o.reasoning # "default"
                           \/ (t.protocol = "anthropic" /\ o.extension.adaptive),
     response_format |-> o.format,
     max_output_tokens_source |-> IF o.max_tokens # Unset THEN "request" ELSE "omitted"]

\* CommonRequestFacts::scan and the decisions of the protocol's driver.
Scan(ms, o, t) ==
    [contains_tools |-> o.tools # <<>> \/ PartsOf(ms, "tool_call") # {}
                        \/ \E i \in DOMAIN ms : ms[i].role = "tool",
     contains_images |-> PartsOf(ms, "image") # {},
     reasoning_enabled |-> o.reasoning # "default"
                           \/ (t.protocol = "anthropic" /\ o.extension.adaptive),
     response_format |-> o.format,
     max_output_tokens_source |->
        IF o.max_tokens # Unset THEN "request"
        ELSE IF t.protocol = "anthropic" \/ t.model.default_max_tokens # Unset THEN "model_default"
        ELSE "omitted"]

Encode(ms, o, t) ==
    IF t.protocol = "openai" THEN EncodeOpenAi(ms, o, t) ELSE EncodeAnthropic(ms, o, t)

\* ProtocolDispatch::prepare; a failure here comes after planning succeeded.
Prepare ==
    /\ stage = "planned"
    /\ LET encoded == Encode(output, options, policy)
       IN  IF encoded.answer # Ok THEN Stop("unsent", encoded.answer)
           ELSE /\ stage' = "prepared"
                /\ body' = [messages |-> encoded.messages, fields |-> encoded.fields,
                            output_config |-> encoded.output_config,
                            raw |-> options.extension.raw]
                /\ facts' = Scan(output, options, policy)
                /\ UNCHANGED <<messages, target, index, part, turn, output, text, counts, phase,
                               error, pass, options>>

\* The caller sends the normalised history again, as the start of a later call.
SendAgain ==
    /\ stage = "prepared"
    /\ Resubmit
    /\ stage' = "resolve"
    /\ body' = NoBody
    /\ facts' = NoFacts
    /\ UNCHANGED options

Next == Resolve \/ Normalise \/ NormaliseFailed \/ ValidatePlanned \/ Prepare \/ SendAgain

Spec == Init /\ [][Next]_vars

(***************************************************************************)
(* Properties.                                                             *)
(***************************************************************************)
sent == stage = "prepared"
SentBlocks(kinds) ==
    {x \in UNION {{<<i, k>> : k \in DOMAIN body.messages[i].blocks} : i \in DOMAIN body.messages} :
        body.messages[x[1]].blocks[x[2]].kind \in kinds}
BlockIds(m, kind) == {m.blocks[k].id : k \in {j \in DOMAIN m.blocks : m.blocks[j].kind = kind}}

\* An Anthropic body begins with a user turn, its roles alternate, and the user
\* turn after an assistant turn answers exactly the tool uses of that turn, with
\* the results before any other block (plan_history, push_turn).
AnthropicTurnsAlternate ==
    sent /\ policy.protocol = "anthropic" =>
        /\ body.messages[1].role = "user"
        /\ BlockIds(body.messages[1], "tool_result") = {}
        /\ \A i \in 2 .. Len(body.messages) :
              LET before == body.messages[i - 1]
                  here == body.messages[i]
              IN  /\ here.role # before.role
                  /\ BlockIds(here, "tool_result") = BlockIds(before, "tool_use")
                  /\ \A j, k \in DOMAIN here.blocks :
                        here.blocks[k].kind = "tool_result" /\ j < k
                            => here.blocks[j].kind = "tool_result"
        /\ BlockIds(body.messages[Len(body.messages)], "tool_use") = {}

\* The capabilities that what is sent needs.
Uses ==
    LET tools == "tools" \in body.fields
        choice == "tool_choice" \in body.fields
    IN  When(SentBlocks({"image"}) # {}, "vision_input")
        \cup When(\E x \in UserImages(output) : output[x[1]].content[x[2]].detail = "original",
                  "image_detail_original")
        \cup When(\E i \in DOMAIN body.messages : body.messages[i].role = "developer",
                  "developer_role")
        \cup When(tools, "function_tools")
        \cup When(tools /\ \E i \in DOMAIN options.tools : options.tools[i].strict, "strict_tools")
        \cup When(choice /\ options.choice.kind = "required", "tool_choice_required")
        \cup When(choice /\ options.choice.kind = "specific", "tool_choice_specific")
        \cup When(options.parallel # "unset", "parallel_tool_calls")
        \cup When(options.format = "json_object", "response_format_json_object")
        \cup When(options.format = "json_schema", "response_format_json_schema")
        \cup When("reasoning_effort" \in body.fields, "reasoning_efforts")
        \cup When("thinking" \in body.fields, "adaptive_thinking")
        \cup When("effort" \in body.output_config, "adaptive_thinking_effort")
        \cup When("temperature" \in body.fields, "temperature")
        \cup When(options.max_tokens # Unset, "max_completion_tokens")

\* Whatever is sent needs only capabilities the resolved target declares
\* supported: an unknown one is never used (validate_capabilities, and again in
\* the encoders).  No raw extension renames or repeats a field that is there.
SendsOnlyWhatIsSupported ==
    sent => /\ \A field \in Uses : Declared(policy.caps, field)
            /\ \A key \in body.raw : LowerKey[key] \notin body.fields

\* The restrictions of one wire protocol that only its encoder knows.
ProtocolRestrictions ==
    {"BlankUserText", "NoMaxTokens", "Temperature", "CommonThinking", "EmptyText", "ImageDetail",
     "DataUrlTooLarge", "OpaqueNotUtf8", "RedactedText", "FirstTurn", "ChoiceWithoutTools",
     "JsonObject", "BodyTooLarge"}

\* A compatibility profile may let the history of an OpenAI target keep its
\* thinking, which the messages of that protocol have no place for.
ThinkingHasNoPlace ==
    /\ policy.protocol = "openai"
    /\ policy.history.thinking_replay = "same_source_only"
    /\ PartsOf(output, "thinking") # {}

\* After planning succeeded, an encoder refuses only for such a restriction:
\* its repeated checks of capabilities, roles, pairing, image counts and sizes,
\* and of raw names against the fields it wrote, never fire.  An assistant part
\* is refused exactly when it is thinking that the profile told the planner to
\* keep.
EncoderRechecksNeverFire ==
    stage = "unsent" =>
        error[2] \in ProtocolRestrictions \/ (error[2] = "AssistantPart" /\ ThinkingHasNoPlace)

\* The facts header policies read describe the body that is sent
\* (preparation.rs scan).
FactsDescribeTheBody ==
    sent => /\ facts.contains_images = (SentBlocks({"image"}) # {})
            /\ facts.contains_tools =
                  ("tools" \in body.fields \/ SentBlocks({"tool_call", "tool_use", "tool_result"}) # {})
            /\ facts.reasoning_enabled = (body.fields \cap {"reasoning_effort", "thinking"} # {})
            /\ (facts.response_format = "text") =
                  ("response_format" \notin body.fields /\ "format" \notin body.output_config)
            /\ (facts.max_output_tokens_source = "omitted") =
                  (body.fields \cap {"max_tokens", "max_completion_tokens"} = {})
=============================================================================
