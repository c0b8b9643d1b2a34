-------------------------- MODULE RequestEncoding --------------------------
(***************************************************************************)
(* The two request encoders: what a planned request becomes on the wire of *)
(* OpenAI Chat Completions and of Anthropic Messages, and when encoding is *)
(* refused.  A body is the blocks of its messages, the set of its          *)
(* top-level fields and the raw extension keys added to them; its size is  *)
(* the payload it carries (field names, tools and schemas weigh nothing).  *)
(***************************************************************************)
EXTENDS RequestValidation

LOCAL INSTANCE SequencesExt

CONSTANT LowerKey       \* raw extension key -> the key in ASCII lower case

\* The body fields each protocol owns; no raw extension may name one.
OpenAiOwnedFields ==
    {"max_completion_tokens", "max_tokens", "messages", "model", "n", "parallel_tool_calls",
     "reasoning_effort", "response_format", "stream", "stream_options", "temperature",
     "tool_choice", "tools"}
AnthropicOwnedFields ==
    {"max_tokens", "messages", "model", "output_config", "stream", "system", "temperature",
     "thinking", "tool_choice", "tools"}

\* Keys that name a header, a credential or a version, refused everywhere.
ProtectedKeyShapes ==
    {"accept", "anthropic-beta", "anthropic-version", "api_key", "auth", "authorization", "beta",
     "content-length", "content-type", "header", "headers", "host", "version", "x-api-key"}

\* RawFields::parse: the raw extensions a caller can hold.  Depth, key and byte
\* budgets are one Boolean.
RawAdmitted(ext) ==
    LET owned == IF ext.protocol = "openai" THEN OpenAiOwnedFields ELSE AnthropicOwnedFields
    IN  FirstFailure(<<
            <<ext.raw = {}, "validation", "Empty">>,
            <<\E key \in ext.raw : LowerKey[key] \in owned \cup ProtectedKeyShapes,
              "validation", "Conflict">>,
            <<~ext.withinBudget, "validation", "OutOfRange">> >>)

When(condition, field) == IF condition THEN {field} ELSE {}

RawConflict(fields, raw) == <<fields \cap raw # {}, "validation", "RawConflict">>

\* An inline payload is sent as base64; a URL, a text and a signature as they are.
Block(kind, p) ==
    [kind |-> kind, id |-> p.id,
     bytes |-> IF p.kind = "image" /\ p.tag # "url" THEN 4 * ((p.bytes + 2) \div 3) ELSE p.bytes]

ToolResult(m) == [kind |-> "tool_result", id |-> m.result.id, bytes |-> m.result.bytes]

BlockBytes(turns) ==
    FoldLeft(LAMBDA sum, m : FoldLeft(LAMBDA n, b : n + b.bytes, sum, m.blocks), 0, turns)

BodyTooLarge(bytes, limits) == <<bytes > limits.max_body, "validation", "BodyTooLarge">>

\* The explicit token limit, or the model's default.
OutputTokens(o, model) ==
    IF o.max_tokens # Unset THEN o.max_tokens ELSE model.default_max_tokens

(***************************************************************************)
(* OpenAI Chat Completions.                                                *)
(***************************************************************************)
OpenAiPartCheck(m, k) ==
    LET p == m.content[k]
    IN  FirstFailure(<<
            <<m.role = "user" /\ p.kind \notin {"text", "image"}, "protocol", "UserPart">>,
            <<m.role = "assistant" /\ p.kind = "text"
                 /\ \E j \in 1 .. (k - 1) : m.content[j].kind = "tool_call",
              "protocol", "TextAfterCall">>,
            <<m.role = "assistant" /\ p.kind \notin {"text", "tool_call"},
              "validation", "AssistantPart">> >>)

OpenAiMessageCheck(m) ==
    FirstError(<<
        FirstFailure(<<
            <<m.role \in {"developer", "system"} /\ ValidateSingleText(m) # Ok,
              "validation", "SingleText">>,
            <<m.role = "tool" /\ ~HasResult(m), "protocol", "MissingPayload">>,
            <<m.role = "tool" /\ m.result.bytes = 0, "protocol", "EmptyResult">>,
            <<m.role = "user" /\ m.content = <<>>, "protocol", "EmptyUser">>,
            <<m.role = "user" /\ Len(m.content) = 1 /\ m.content[1].kind = "text"
                 /\ m.content[1].tag = "blank", "protocol", "BlankUserText">> >>),
        FirstError([k \in DOMAIN m.content |-> OpenAiPartCheck(m, k)]),
        FirstFailure(<< <<m.role = "assistant" /\ m.content = <<>>,
                          "protocol", "EmptyAssistant">> >>)>>)

\* require_capability in tool_wire.rs repeats what the planner has checked.
OpenAiToolChecks(o, caps) ==
    FirstFailure(<<
        Needs(o.tools # <<>>, caps, "function_tools"),
        Needs(\E i \in DOMAIN o.tools : o.tools[i].strict, caps, "strict_tools"),
        <<o.choice.kind = "auto" /\ o.tools = <<>>, "protocol", "AutoWithoutTools">>,
        Needs(o.choice.kind = "required", caps, "tool_choice_required"),
        Needs(o.choice.kind = "specific", caps, "tool_choice_specific"),
        Needs(o.parallel # "unset", caps, "parallel_tool_calls")>>)

\* An explicit auto tool choice is the default and is omitted.
OpenAiFields(o, t) ==
    {"messages", "stream", "stream_options", "n"}
    \cup When(t.include_model, "model")
    \cup When(o.temperature # "unset", "temperature")
    \cup When(OutputTokens(o, t.model) # Unset, t.token_field)
    \cup When(o.tools # <<>>, "tools")
    \cup When(o.choice.kind \notin {"unset", "auto"}, "tool_choice")
    \cup When(o.parallel # "unset", "parallel_tool_calls")
    \cup When(o.format # "text", "response_format")
    \cup When(o.reasoning # "default", "reasoning_effort")

OpenAiMessage(m) ==
    [role |-> m.role,
     blocks |-> IF m.role = "tool" THEN <<ToolResult(m)>>
                ELSE [k \in DOMAIN m.content |-> Block(m.content[k].kind, m.content[k])]]

EncodeOpenAi(ms, o, t) ==
    LET wire == [i \in DOMAIN ms |-> OpenAiMessage(ms[i])]
    IN  [answer |-> FirstError(<<
            FirstError([i \in DOMAIN ms |-> OpenAiMessageCheck(ms[i])]),
            OpenAiToolChecks(o, t.caps),
            FirstFailure(<<RawConflict(OpenAiFields(o, t), o.extension.raw),
                           BodyTooLarge(BlockBytes(wire), t.limits)>>)>>),
         messages |-> wire,
         fields |-> OpenAiFields(o, t),
         output_config |-> {}]

(***************************************************************************)
(* Anthropic Messages: system text leaves the message list, thinking is    *)
(* replayed only to its own source, adjacent turns of a role are merged.   *)
(***************************************************************************)
SystemRoles == {"system", "developer"}

\* encode_thinking: only thinking of the call's own source is replayed.
ThinkingReplayed(p, t) ==
    t.history.thinking_replay = "same_source_only" /\ p.tag \in {"same", "redacted", "binary"}

\* How many user images encode_content has counted at part k of message i.
ImagesUpTo(ms, i, k) ==
    Cardinality({x \in UserImages(ms) : x[1] < i \/ (x[1] = i /\ x[2] <= k)})

AnthropicImageCheck(ms, i, k, limits) ==
    LET p == ms[i].content[k]
    IN  FirstFailure(<<
            <<ms[i].role # "user", "protocol", "ImageRole">>,
            <<p.detail # "auto", "protocol", "ImageDetail">>,
            <<ImagesUpTo(ms, i, k) > limits.max_images, "protocol", "TooManyImages">>,
            <<p.tag = "url" /\ p.bytes > limits.max_image_url, "protocol", "ImageUrlTooLarge">>,
            <<p.tag = "inline" /\ p.bytes > limits.max_inline_image, "protocol", "InlineTooLarge">>,
            <<p.tag = "data_url" /\ p.bytes > limits.max_inline_image,
              "protocol", "DataUrlTooLarge">> >>)

AnthropicPartCheck(ms, i, k, t) ==
    LET p == ms[i].content[k]
        role == ms[i].role
    IN  CASE p.kind = "text" -> FirstFailure(<< <<p.bytes = 0, "protocol", "EmptyText">> >>)
          [] p.kind = "image" -> AnthropicImageCheck(ms, i, k, t.limits)
          [] p.kind = "tool_call" ->
                FirstFailure(<< <<role # "assistant", "protocol", "CallRole">> >>)
          [] p.kind = "thinking" ->
                FirstFailure(<<
                    <<role # "assistant", "protocol", "ThinkingRole">>,
                    <<ThinkingReplayed(p, t) /\ p.tag = "binary", "protocol", "OpaqueNotUtf8">>,
                    <<ThinkingReplayed(p, t) /\ p.tag = "redacted" /\ p.bytes > 0,
                      "protocol", "RedactedText">> >>)
          [] p.kind = "refusal" -> <<"protocol", "Refusal">>

Blocks(m, t) ==
    LET sent == SelectSeq(m.content, LAMBDA p : p.kind = "thinking" => ThinkingReplayed(p, t))
    IN  [k \in DOMAIN sent |->
            Block(IF sent[k].kind = "tool_call" THEN "tool_use" ELSE sent[k].kind, sent[k])]

OnlyThinking(m) == \A k \in DOMAIN m.content : m.content[k].kind = "thinking"

AnthropicMessageCheck(ms, i, t) ==
    LET m == ms[i]
    IN  CASE m.role \in SystemRoles ->
                FirstError([k \in DOMAIN m.content |->
                    FirstFailure(<< <<m.content[k].kind # "text", "protocol", "SystemPart">>,
                                    <<m.content[k].bytes = 0, "protocol", "EmptySystem">> >>)])
          [] m.role \in {"user", "assistant"} ->
                FirstError(<<
                    FirstError([k \in DOMAIN m.content |-> AnthropicPartCheck(ms, i, k, t)]),
                    FirstFailure(<< <<Blocks(m, t) = <<>>
                                        /\ ~(m.role = "assistant" /\ OnlyThinking(m)),
                                      "protocol", "EmptyContent">> >>)>>)
          [] m.role = "tool" -> FirstFailure(<< <<~HasResult(m), "protocol", "MissingPayload">> >>)

\* Mutant: adjacent turns of one role are not merged.
PushTurnApart(turns, role, blocks) ==
    IF blocks = <<>> THEN turns ELSE Append(turns, [role |-> role, blocks |-> blocks])

\* A turn of only foreign thinking encodes to nothing and is skipped.
PushTurn(turns, role, blocks) ==
    IF blocks = <<>> THEN turns
    ELSE IF turns # <<>> /\ Last(turns).role = role
    THEN Append(Front(turns), [role |-> role, blocks |-> Last(turns).blocks \o blocks])
    ELSE Append(turns, [role |-> role, blocks |-> blocks])

PlanHistory(ms, t) ==
    FoldLeft(LAMBDA turns, m :
                CASE m.role \in SystemRoles -> turns
                  [] m.role \in {"user", "assistant"} -> PushTurn(turns, m.role, Blocks(m, t))
                  [] m.role = "tool" -> PushTurn(turns, "user", <<ToolResult(m)>>),
             <<>>, ms)

System(ms) ==
    LET system == SelectSeq(ms, LAMBDA m : m.role \in SystemRoles)
    IN  [i \in DOMAIN system |-> OpenAiMessage(system[i])]

\* The members of output_config, which is sent when it has one.
OutputConfig(o) ==
    When(o.format = "json_schema", "format") \cup When(o.extension.effort, "effort")

AnthropicFields(ms, o) ==
    {"model", "max_tokens", "messages", "stream"}
    \cup When(System(ms) # <<>>, "system")
    \cup When(o.temperature # "unset", "temperature")
    \cup When(o.tools # <<>>, "tools")
    \cup When(o.choice.kind # "unset", "tool_choice")
    \cup When(o.extension.adaptive, "thinking")
    \cup When(OutputConfig(o) # {}, "output_config")

EncodeAnthropic(ms, o, t) ==
    LET turns == PlanHistory(ms, t)
    IN  [answer |-> FirstError(<<
            FirstFailure(<<
                <<OutputTokens(o, t.model) = Unset, "validation", "NoMaxTokens">>,
                <<OutputTokens(o, t.model) = 0, "validation", "ZeroMaxTokens">>,
                <<o.temperature = "high", "validation", "Temperature">>,
                <<o.reasoning # "default", "protocol", "CommonThinking">> >>),
            FirstError([i \in DOMAIN ms |-> AnthropicMessageCheck(ms, i, t)]),
            FirstFailure(<<
                <<turns = <<>> \/ turns[1].role # "user", "protocol", "FirstTurn">>,
                <<o.choice.kind # "unset" /\ o.tools = <<>>, "protocol", "ChoiceWithoutTools">>,
                <<o.format = "json_object", "protocol", "JsonObject">>,
                RawConflict(AnthropicFields(ms, o), o.extension.raw),
                BodyTooLarge(BlockBytes(turns) + BlockBytes(System(ms)), t.limits)>>)>>),
         messages |-> turns,
         fields |-> AnthropicFields(ms, o),
         output_config |-> OutputConfig(o)]
=============================================================================
