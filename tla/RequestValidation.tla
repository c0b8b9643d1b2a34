------------------------- MODULE RequestValidation -------------------------
(***************************************************************************)
(* The checks a request passes before and after history normalisation      *)
(* (domain/request.rs, domain/tools.rs).  Each operator answers Ok or the  *)
(* first failing check, in the order of the code.                          *)
(***************************************************************************)
EXTENDS Conversation, Capabilities, Integers

CONSTANTS
    OfficialLimits,     \* ResourceLimits::official, scaled down
    ProtectedHeaders    \* the header names no request may set

Unset == -1             \* an absent optional number

\* Mutant: an unknown capability is good enough.
NeedsNotRefused(needed, caps, field) ==
    <<needed /\ caps.status[field] = "unsupported", "capability", field>>

Needs(needed, caps, field) == <<needed /\ ~Declared(caps, field), "capability", field>>

ToolNames(tools) == {tools[i].name : i \in DOMAIN tools}

\* The checks of one declared tool, in order: name, description, strictness.
ValidateTool(tools, i, caps, limits) ==
    FirstFailure(<<
        <<\E j \in 1 .. (i - 1) : tools[j].name = tools[i].name,
          "validation", "DuplicateToolName">>,
        <<tools[i].description > limits.max_tool_description, "validation", "OutOfRange">>,
        Needs(tools[i].strict, caps, "strict_tools"),
        <<tools[i].strict /\ ~tools[i].strictCompatible, "schema", "Strict">> >>)

ValidateToolChoice(tools, choice, caps) ==
    FirstFailure(<<
        <<choice.kind \in {"auto", "required", "specific"} /\ tools = <<>>,
          "validation", "EmptyToolList">>,
        Needs(choice.kind = "required", caps, "tool_choice_required"),
        Needs(choice.kind = "specific", caps, "tool_choice_specific"),
        <<choice.kind = "specific" /\ choice.name \notin ToolNames(tools),
          "validation", "UnknownTool">> >>)

ValidateToolOptions(o, caps, limits) ==
    FirstError(<<
        FirstFailure(<<
            <<Len(o.tools) > limits.max_tools, "validation", "OutOfRange">>,
            Needs(o.tools # <<>>, caps, "function_tools")>>),
        FirstError([i \in DOMAIN o.tools |-> ValidateTool(o.tools, i, caps, limits)]),
        ValidateToolChoice(o.tools, o.choice, caps),
        FirstFailure(<<
            Needs(o.parallel # "unset", caps, "parallel_tool_calls"),
            <<o.parallel # "unset" /\ o.tools = <<>>, "validation", "EmptyToolList">> >>)>>)

\* Disabled asks for the effort none.
ValidateReasoning(reasoning, caps) ==
    LET effort == IF reasoning = "disabled" THEN "none" ELSE reasoning
    IN  FirstFailure(<<
            <<reasoning # "default" /\ (~Declared(caps, "reasoning_efforts")
                                        \/ effort \notin caps.efforts),
              "capability", "reasoning_efforts">> >>)

ValidateResponseFormat(format, caps) ==
    FirstFailure(<<
        Needs(format = "json_object", caps, "response_format_json_object"),
        Needs(format = "json_schema", caps, "response_format_json_schema")>>)

ValidateGenerationOptions(o, caps) ==
    FirstError(<<
        FirstFailure(<<
            <<o.temperature = "nan", "validation", "NonFinite">>,
            <<o.temperature = "above_two", "validation", "OutOfRange">>,
            Needs(o.temperature # "unset", caps, "temperature"),
            <<o.max_tokens = 0, "validation", "Zero">>,
            Needs(o.max_tokens # Unset, caps, "max_completion_tokens")>>),
        ValidateReasoning(o.reasoning, caps),
        ValidateResponseFormat(o.format, caps),
        ValidateToolOptions(o, caps, OfficialLimits),
        FirstFailure(<<
            <<o.expired, "validation", "Expired">>,
            <<o.headers \cap ProtectedHeaders # {}, "validation", "ProtectedHeader">> >>)>>)

(***************************************************************************)
(* Messages.                                                               *)
(***************************************************************************)
ValidateSingleText(m) ==
    FirstFailure(<<
        <<Len(m.content) # 1, "validation", "TextPartCount">>,
        <<Len(m.content) = 1 /\ m.content[1].kind # "text", "validation", "TextPartCount">>,
        <<Len(m.content) = 1 /\ m.content[1].bytes = 0, "validation", "Empty">> >>)

ValidateUserPart(p) ==
    FirstFailure(<<
        <<p.kind \in {"thinking", "refusal", "tool_call"}, "validation", "TextPartCount">>,
        <<p.kind = "image" /\ p.tag = "url" /\ p.bytes > OfficialImageUrlBytes,
          "validation", "OutOfRange">>,
        <<p.kind = "image" /\ p.tag = "inline" /\ p.bytes > OfficialInlineImageBytes,
          "validation", "OutOfRange">> >>)

\* Text and thinking may not follow a tool call; images and refusals are never
\* part of an assistant turn that is sent.
ValidateAssistantPart(content, k) ==
    LET afterCall == \E j \in 1 .. (k - 1) : content[j].kind = "tool_call"
    IN  FirstFailure(<<
            <<content[k].kind \in {"text", "thinking"} /\ afterCall, "validation", "TextPartCount">>,
            <<content[k].kind \in {"image", "refusal"}, "validation", "TextPartCount">> >>)

ValidateMessage(m) ==
    CASE m.role = "tool" ->
            FirstFailure(<< <<~HasResult(m), "validation", "TextPartCount">>,
                            <<m.result.bytes = 0, "validation", "Empty">> >>)
      [] m.role \in {"developer", "system"} -> ValidateSingleText(m)
      [] m.role = "user" ->
            FirstError(<<FirstFailure(<< <<m.content = <<>>, "validation", "Empty">> >>)>>
                       \o [k \in DOMAIN m.content |-> ValidateUserPart(m.content[k])])
      [] m.role = "assistant" ->
            FirstError(<<FirstFailure(<< <<m.content = <<>>, "validation", "Empty">> >>)>>
                       \o [k \in DOMAIN m.content |-> ValidateAssistantPart(m.content, k)])

UserImages(ms) == {x \in PartsOf(ms, "image") : ms[x[1]].role = "user"}

\* GenerateRequest::validate, which runs on the normalised messages.
ValidateRequest(ms, o, caps) ==
    FirstError(<<
        FirstFailure(<< <<ms = <<>>, "validation", "Empty">> >>),
        FirstError([i \in DOMAIN ms |-> ValidateMessage(ms[i])]),
        FirstFailure(<<
            <<\A i \in DOMAIN ms : ms[i].role # "user", "validation", "MissingUserMessage">>,
            <<\A x \in PartsOf(ms, "text") :
                  ms[x[1]].role = "user" => ms[x[1]].content[x[2]].tag = "blank",
              "validation", "EmptyUserText">>,
            Needs(UserImages(ms) # {}, caps, "vision_input"),
            <<Cardinality(UserImages(ms)) > OfficialLimits.max_images, "validation", "OutOfRange">>,
            Needs(\E x \in UserImages(ms) : ms[x[1]].content[x[2]].detail = "original",
                  caps, "image_detail_original")>>),
        ValidateGenerationOptions(o, caps)>>)

\* The limits resolved for this call; a data URL is not compared with them.
ImageWithinLimit(p, limits) ==
    FirstFailure(<<
        <<p.kind = "image" /\ p.tag = "url" /\ p.bytes > limits.max_image_url,
          "validation", "OutOfRange">>,
        <<p.kind = "image" /\ p.tag = "inline" /\ p.bytes > limits.max_inline_image,
          "validation", "OutOfRange">> >>)

AllSupported == Declare([f \in ProviderFields \cup ModelFields |-> "supported"], {})

SchemaWithin(size, limits) ==
    FirstFailure(<< <<size > limits.max_schema, "schema", "TooLarge">> >>)

\* Mutant: images are not counted against the resolved limit.
ValidateResourcesUncounted(ms, o, limits) ==
    FirstFailure(<< <<Len(ms) > limits.max_messages, "validation", "OutOfRange">> >>)

ValidateRequestResources(ms, o, limits) ==
    FirstError(<<
        FirstFailure(<< <<Len(ms) > limits.max_messages, "validation", "OutOfRange">> >>),
        FirstError([i \in DOMAIN ms |->
            FirstError([k \in DOMAIN ms[i].content |-> ImageWithinLimit(ms[i].content[k], limits)])]),
        FirstFailure(<< <<Cardinality(PartsOf(ms, "image")) > limits.max_images,
                          "validation", "OutOfRange">> >>),
        ValidateToolOptions(o, AllSupported, limits),
        FirstError([i \in DOMAIN o.tools |-> SchemaWithin(o.tools[i].schema, limits)]),
        IF o.format = "json_schema" THEN SchemaWithin(o.schema, limits) ELSE Ok>>)

\* Before normalisation: the options and the resources of the raw history.
ValidateRequestShape(ms, o, caps, limits) ==
    FirstError(<<ValidateGenerationOptions(o, caps), ValidateRequestResources(ms, o, limits)>>)

\* After normalisation: the whole request, and the resources again.
ValidatePlannedRequest(ms, o, caps, limits) ==
    FirstError(<<ValidateRequest(ms, o, caps), ValidateRequestResources(ms, o, limits)>>)
=============================================================================
