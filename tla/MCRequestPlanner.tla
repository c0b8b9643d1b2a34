-------------------------- MODULE MCRequestPlanner --------------------------
(***************************************************************************)
(* Instances for the request planner: five targets, every history of up    *)
(* to three messages of a small alphabet, and a table of option sets.      *)
(***************************************************************************)
EXTENDS RequestPlanner

\* Sanitising drops "!"; "a!" therefore filters to "a", and "!" to nothing.
MCToolCallIds == {"a", "a!", "!", "a_1", "a_2", "call_3"}
MCFiltered == [i \in MCToolCallIds |-> CASE i = "a!" -> "a" [] i = "!" -> NoId [] OTHER -> i]
MCFits == MCToolCallIds \ {"a!", "!"}
MCHashed ==
    [i \in MCToolCallIds |-> CASE i \in {"a", "a_2"} -> "a_1" [] i \in {"a!", "a_1"} -> "a_2"
                               [] OTHER -> "call_3"]

MCLimits == [max_messages |-> 5, max_text |-> 4, max_tools |-> 2, max_tool_description |-> 2,
             max_schema |-> 2, max_images |-> 2, max_inline_image |-> 3, max_image_url |-> 3,
             max_body |-> 12]
TightLimits == [MCLimits EXCEPT !.max_inline_image = 2, !.max_images = 1, !.max_body = 5]

MCProtectedHeaders == {"authorization", "host"}
RawKeys == {"provider", "tools", "Model", "version", "thinking", "stream_options"}
MCLowerKey == [k \in RawKeys |-> IF k = "Model" THEN "model" ELSE k]

FullModel == Declare(AllModelFields("supported"), {"none", "low"})
NoTokens == [max_tokens |-> Unset, default_max_tokens |-> Unset]

MCTargets ==
    [openai |->
        [protocol |-> "openai", caps |-> Apply(official_openai, FullModel),
         history |-> [unsupported_content |-> "reject", thinking_replay |-> "drop_all",
                      tool_call_id |-> "openai"],
         limits |-> TightLimits, model |-> NoTokens,
         include_model |-> TRUE, token_field |-> "max_completion_tokens"],
     compat |->
        [protocol |-> "openai", caps |-> Apply(openai_compatible, UnknownModel),
         history |-> [unsupported_content |-> "drop", thinking_replay |-> "drop_all",
                      tool_call_id |-> "openai"],
         limits |-> MCLimits, model |-> [max_tokens |-> 2, default_max_tokens |-> 1],
         include_model |-> FALSE, token_field |-> "max_tokens"],
     replaying |->
        [protocol |-> "openai", caps |-> Apply(openai_compatible, FullModel),
         history |-> [unsupported_content |-> "drop", thinking_replay |-> "same_source_only",
                      tool_call_id |-> "preserve"],
         limits |-> MCLimits, model |-> NoTokens,
         include_model |-> TRUE, token_field |-> "max_tokens"],
     anthropic |->
        [protocol |-> "anthropic",
         caps |-> Apply(official_anthropic, [FullModel EXCEPT !.status.image_detail_original = "unsupported",
                                                              !.status.reasoning_efforts = "unsupported"]),
         history |-> [unsupported_content |-> "reject", thinking_replay |-> "same_source_only",
                      tool_call_id |-> "preserve"],
         limits |-> TightLimits, model |-> [max_tokens |-> 2, default_max_tokens |-> 1],
         include_model |-> TRUE, token_field |-> "max_tokens"],
     bare |->
        [protocol |-> "anthropic", caps |-> Apply(conservative_messages, FullModel),
         history |-> [unsupported_content |-> "reject", thinking_replay |-> "same_source_only",
                      tool_call_id |-> "preserve"],
         limits |-> MCLimits, model |-> NoTokens,
         include_model |-> TRUE, token_field |-> "max_tokens"]]

(***************************************************************************)
(* Histories.                                                              *)
(***************************************************************************)
Word == Text(1, "solid")
Alphabet ==
    {Plain("user", <<Word>>), Plain("user", <<Text(1, "blank")>>),
     Plain("user", <<Word, Image("url", 1, "auto")>>), Plain("user", <<Refusal(1)>>),
     Plain("developer", <<Word>>), Plain("system", <<Word>>),
     Plain("assistant", <<>>), Plain("assistant", <<Word, ToolCall("a!")>>),
     Plain("assistant", <<Thinking(1, "same"), ToolCall("a"), ToolCall("a!")>>),
     Plain("assistant", <<ToolCall("a!"), ToolCall("a")>>),
     Plain("assistant", <<ToolCall("a!"), ToolCall("a_1"), ToolCall("a")>>),
     Plain("assistant", <<ToolCall("!"), Word>>), Plain("assistant", <<Thinking(1, "other")>>),
     Plain("assistant", <<ToolCall("a"), ToolCall("a")>>),
     FromToolResult("a", 1), FromToolResult("a!", 1), FromToolResult("a_1", 1),
     FromToolResult("a_2", 1), Plain("tool", <<>>)}

Short(n) == UNION {[1 .. k -> Alphabet] : k \in 0 .. n}

User == Plain("user", <<Word>>)
Called(ids) == Plain("assistant", [k \in DOMAIN ids |-> ToolCall(ids[k])])

\* Longer conversations, and parts the alphabet leaves out.
Conversations ==
    {<<User, Called(<<"a", "a!">>), FromToolResult(x, 1), FromToolResult(y, 1)>>
        : x, y \in {"a", "a!", "a_2"}}
    \cup {<<User, Called(<<"a">>), FromToolResult("a", 1), User>>}
    \cup {<<User, Called(<<"a!", "a_1", "!">>), FromToolResult("a", 1), FromToolResult("a_1", 1),
            FromToolResult(x, 1)>> : x \in {"!", "call_3"}}
    \cup {<<User, Plain("assistant", <<Thinking(1, "other")>>), User>>,
          <<Plain("user", <<Word, Text(0, "blank")>>)>>, <<Plain("user", <<Text(5, "solid")>>)>>,
          <<User, Plain("assistant", <<Thinking(0, "redacted"), Word>>), User>>,
          <<User, Plain("assistant", <<Thinking(1, "redacted"), Word>>), User>>,
          <<User, Plain("assistant", <<Thinking(1, "none"), Word>>), User>>,
          <<User, Plain("assistant", <<Thinking(1, "binary"), Word>>), User>>,
          <<User, Plain("assistant", <<Word>>), Plain("assistant", <<Word>>)>>,
          <<User, Plain("assistant", <<Refusal(1)>>)>>,
          <<User, User, User, User, User, User>>}
    \cup {<<Plain("user", <<Word, Image(s, n, d)>>)>>
             : s \in ImageSources, n \in 1 .. 3, d \in {"auto", "original"}}
    \cup {<<Plain("user", <<Word, Image("url", 1, "auto"), Image("inline", 2, "auto")>>)>>,
          <<Plain("user", <<Text(2, "solid"), Image("inline", 2, "auto")>>)>>}

(***************************************************************************)
(* Options.                                                                *)
(***************************************************************************)
NoExtension == [protocol |-> "none", adaptive |-> FALSE, effort |-> FALSE, raw |-> {},
                withinBudget |-> TRUE]
DefaultOptions ==
    [foreign |-> FALSE, temperature |-> "unset", max_tokens |-> Unset, reasoning |-> "default",
     format |-> "text", schema |-> 0, tools |-> <<>>, choice |-> [kind |-> "unset", name |-> "f"],
     parallel |-> "unset", expired |-> FALSE, headers |-> {}, extension |-> NoExtension]

Tool(name, strict, compatible) ==
    [name |-> name, description |-> 1, strict |-> strict, strictCompatible |-> compatible,
     schema |-> 1]

With(changes) ==
    [f \in DOMAIN DefaultOptions |-> IF f \in DOMAIN changes THEN changes[f] ELSE DefaultOptions[f]]

\* One option changed at a time, and the combinations a check depends on.
Variants ==
    {With([foreign |-> TRUE]), With([expired |-> TRUE]), With([headers |-> {"host"}])}
    \cup {With([temperature |-> x]) : x \in {"nan", "low", "high", "above_two"}}
    \cup {With([max_tokens |-> x]) : x \in 0 .. 3}
    \cup {With([reasoning |-> x, max_tokens |-> 1]) : x \in {"disabled", "low", "high"}}
    \cup {With([format |-> "json_schema", schema |-> x]) : x \in 1 .. 3}
    \cup {With([format |-> "json_object"])}
    \cup {With([choice |-> [kind |-> c, name |-> n], tools |-> ts, parallel |-> p])
             : c \in {"unset", "none", "auto", "required", "specific"}, n \in {"f", "g"},
               p \in {"unset", "enabled"},
               ts \in {<<>>, <<Tool("f", FALSE, FALSE)>>, <<Tool("f", TRUE, TRUE)>>}}
    \cup {With([tools |-> ts]) : ts \in {<<Tool("f", TRUE, FALSE)>>,
             <<Tool("f", FALSE, FALSE), Tool("f", FALSE, FALSE)>>,
             <<Tool("f", FALSE, FALSE), Tool("g", FALSE, FALSE), Tool("h", FALSE, FALSE)>>,
             <<[Tool("f", FALSE, FALSE) EXCEPT !.description = 3]>>,
             <<[Tool("f", FALSE, FALSE) EXCEPT !.schema = 3]>>}}
    \cup {With([extension |-> [NoExtension EXCEPT !.protocol = p, !.raw = r]])
             : p \in {"openai", "anthropic"}, r \in {{k} : k \in RawKeys} \cup {{}}}
    \cup {With([extension |-> [NoExtension EXCEPT !.protocol = "anthropic", !.adaptive = a,
                                                  !.effort = e]])
             : a, e \in BOOLEAN}

FewHistories == {<<User>>, <<Plain("system", <<Word>>), Plain("user", <<Word, Image("url", 1, "auto")>>)>>,
                 <<User, Called(<<"a">>), FromToolResult("a", 1)>>}

MCCalls == ((Short(3) \cup Conversations) \X {DefaultOptions}) \cup (FewHistories \X Variants)
           \cup (Conversations \X {With([max_tokens |-> 1])})
MCInputs == {call[1] : call \in MCCalls}
=============================================================================
