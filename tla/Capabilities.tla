---------------------------- MODULE Capabilities ----------------------------
(***************************************************************************)
(* The three-valued capability declarations of a provider and of a model   *)
(* (provider/capability.rs), and how one overlays another.  A declaration  *)
(* is a function from capabilities to statuses; the reasoning efforts a    *)
(* target accepts are a status and, when supported, a set.                 *)
(***************************************************************************)

\* Declared by the provider alone.
ProviderFields == {"developer_role", "temperature", "max_completion_tokens",
                   "streaming", "streaming_usage"}

\* Declared by the provider and overwritten for a model.
ModelFields == {"function_tools", "tool_choice_required", "tool_choice_specific",
                "parallel_tool_calls", "strict_tools", "vision_input",
                "image_detail_original", "response_format_json_object",
                "response_format_json_schema", "adaptive_thinking",
                "adaptive_thinking_effort", "reasoning_efforts"}

Efforts == {"none", "minimal", "low", "medium", "high", "xhigh", "max"}

\* Reasoning support is kept beside the statuses: reasoning_efforts is the
\* status, efforts the set a supported status carries.
Declare(status, efforts) == [status |-> status, efforts |-> efforts]

AllModelFields(status) == [f \in ModelFields |-> status]

\* ModelCapabilityProfile::new and CatalogCapabilities::default
UnknownModel == Declare(AllModelFields("unknown"), {})

Overlay(base, changes) ==
    [f \in DOMAIN base |-> IF f \in DOMAIN changes THEN changes[f] ELSE base[f]]

Provider(model) ==
    Declare([f \in ProviderFields \cup ModelFields |->
                IF f \in ProviderFields THEN "supported" ELSE model[f]], {})

official_openai ==
    Provider(Overlay(AllModelFields("unknown"),
        [adaptive_thinking |-> "unsupported", adaptive_thinking_effort |-> "unsupported"]))

openai_compatible ==
    [official_openai EXCEPT !.status.developer_role = "unknown"]

official_anthropic ==
    Provider(Overlay(AllModelFields("supported"),
        [image_detail_original |-> "unsupported", response_format_json_object |-> "unsupported",
         reasoning_efforts |-> "unsupported", adaptive_thinking |-> "unknown",
         adaptive_thinking_effort |-> "unknown"]))

conservative_messages ==
    Provider(Overlay(AllModelFields("unknown"),
        [image_detail_original |-> "unsupported", reasoning_efforts |-> "unsupported"]))

\* apply_model and apply_catalog: every model field is overwritten, also by an
\* unknown.
Apply(caps, profile) == Declare(Overlay(caps.status, profile.status), profile.efforts)

Declared(caps, field) == caps.status[field] = "supported"

\* ProviderCapabilities::validate
CapabilitiesValid(caps) == Declared(caps, "streaming") /\ Declared(caps, "streaming_usage")
=============================================================================
