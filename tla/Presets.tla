------------------------------ MODULE Presets -------------------------------
(***************************************************************************)
(* The definitions that ship with the SDK: the official OpenAI and         *)
(* Anthropic profiles (provider/profiles) and the third-party presets      *)
(* (philo-presets).  auth is the authentication provider of the profile:   *)
(* the default one carries a credential bound to the audience, and a       *)
(* caller may replace it.                                                  *)
(***************************************************************************)
EXTENDS ProviderDefinition

\* ProviderDefinitionBuilder::new
EmptyDraft(provider, product, dialect, contract) ==
    [provider |-> provider, product |-> product, dialect |-> dialect, contract |-> contract,
     endpoint |-> {}, binding |-> {}, bind_to_origin |-> FALSE, scheme |-> {},
     capabilities |-> {}, catalog |-> {}, unregistered |-> FALSE, model_capabilities |-> <<>>,
     model_compat |-> <<>>, provider_headers |-> <<>>, model_headers |-> <<>>, dynamic |-> {},
     idempotency |-> {}]

\* RequestCompat::openai_chat_default asks for usage in the stream.
DefaultContract == OpenAiContract(TRUE, FALSE)

\* AuthScheme::from_auth_provider
SchemeOf(auth) == Scheme(auth.kind, auth.headers)

OpenAiEndpoint ==
    BaseAndPath(Url("https", "api.openai.com", <<Literal("v1")>>, <<>>),
                <<Literal("chat"), Literal("completions")>>)
AnthropicEndpoint ==
    BaseAndPath(Url("https", "api.anthropic.com", <<Literal("v1")>>, <<>>), <<Literal("messages")>>)

OfficialOpenAi(auth) ==
    [EmptyDraft("official-openai", "chat-completions", "openai", DefaultContract) EXCEPT
        !.endpoint = {OpenAiEndpoint}, !.binding = {AudienceBinding("official_openai")},
        !.scheme = {SchemeOf(auth)}, !.capabilities = {official_openai}, !.catalog = {<<>>}]

EntryFacts(model, display_name, dialect) ==
    [provider_model_id |-> ModelName[model], wire_model_value |-> ModelName[model],
     display_name |-> display_name, protocol_id |-> dialect, support_status |-> "supported"]

\* official_catalog: two models with one capability declaration.
AnthropicCapabilities ==
    [f \in ModelFields |->
        IF f \in {"image_detail_original", "response_format_json_object", "reasoning_efforts"}
        THEN "unsupported" ELSE "supported"]

AnthropicCatalog ==
    [m \in {1, 2} |->
        Entry("official-anthropic", "messages",
            [f \in ModelFields \cup DOMAIN EntryFacts(m, "claude", "anthropic")
                     \cup {"default_max_output_tokens"} |->
                IF f \in ModelFields THEN AnthropicCapabilities[f]
                ELSE IF f = "default_max_output_tokens" THEN 4
                ELSE EntryFacts(m, "claude", "anthropic")[f]],
            "anthropic-models-ledger")]

\* The version header is the provider's, and so is the removed beta header.
OfficialAnthropic(auth) ==
    [EmptyDraft("official-anthropic", "messages", "anthropic", AnthropicContract) EXCEPT
        !.endpoint = {AnthropicEndpoint}, !.binding = {AudienceBinding("official_anthropic")},
        !.scheme = {SchemeOf(auth)}, !.capabilities = {official_anthropic},
        !.provider_headers = << SetHeader("anthropic-version", "provider", FALSE),
                                RemoveHeader("anthropic-beta", "provider") >>,
        !.catalog = {AnthropicCatalog}]

\* exact_model_catalog: one model, nothing known of its capabilities.
ExactModelCatalog(provider, product) ==
    [m \in {1} |-> Entry(provider, product, EntryFacts(1, "preset", "openai"), "official-docs")]

\* What the third-party presets share.
CompatiblePreset(provider, product, host, path, audience, auth, headers) ==
    [EmptyDraft(provider, product, "openai", DefaultContract) EXCEPT
        !.endpoint = {BaseAndPath(Url("https", host, path, <<>>),
                                  <<Literal("chat"), Literal("completions")>>)},
        !.binding = {AudienceBinding(audience)}, !.scheme = {SchemeOf(auth)},
        !.provider_headers = headers, !.capabilities = {openai_compatible},
        !.catalog = {ExactModelCatalog(provider, product)}]

DeepSeek(auth) ==
    CompatiblePreset("deepseek", "deepseek-chat-openai", "api.deepseek.com", <<>>, "deepseek",
                     auth, <<>>)

\* OpenRouterAttribution::operations; the categories are optional.
OpenRouter(auth, attribution) ==
    CompatiblePreset("openrouter", "openrouter-chat", "openrouter.ai",
        <<Literal("api"), Literal("v1")>>, "openrouter", auth,
        [i \in DOMAIN attribution |-> SetHeader(attribution[i], "provider", FALSE)])

Attribution == <<"http-referer", "x-openrouter-title", "x-openrouter-categories">>

\* Two products on one origin, told apart by the path their credential is
\* bound to.
Zai(product, auth, language) ==
    CompatiblePreset("zai", product, "api.z.ai",
        IF product = "zai-coding-plan"
        THEN <<Literal("api"), Literal("coding"), Literal("paas"), Literal("v4")>>
        ELSE <<Literal("api"), Literal("paas"), Literal("v4")>>,
        IF product = "zai-coding-plan" THEN "zai_coding" ELSE "zai_standard",
        auth, language)

Language == << SetHeader("accept-language", "provider", FALSE) >>

\* A profile binds its own definition to the credential it was given.
CompileBuilt(built, deployment, secret) ==
    IF built.answer # Ok THEN [answer |-> built.answer, runtime |-> {}]
    ELSE BuildRuntime(The(built.definition), deployment, secret)

ProfileRuntime(draft, auth, limits) ==
    CompileBuilt(BuildDefinition(draft), Deployment(draft.provider, "auth_provider", {auth}, limits), "ok")
=============================================================================
