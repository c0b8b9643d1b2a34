----------------------------- MODULE MCProvider -----------------------------
(***************************************************************************)
(* Instances of ProviderClient: definitions that build and definitions     *)
(* that do not, the profiles and presets with right and wrong credentials, *)
(* catalogs, configuration layers, and programs of two threads and of a    *)
(* resolver that calls the registry itself.                                *)
(***************************************************************************)
EXTENDS ProviderClient

LOCAL INSTANCE Functions

MCCallers == {"a", "b", "resolver"}
MCHosted == {"resolver"}
MCHost(c) == "a"

MCExtensionHeaders == {"x-api-key", "x-org", "x-sig", "x-tenant", "x-model", "x-trace",
                       "x-openrouter-title", "x-openrouter-categories"}
MCPublicHosts == {"api.acme.test", "api.openai.com", "api.anthropic.com", "openrouter.ai",
                  "api.deepseek.com", "api.z.ai"}

MCNormalForm ==
    [p \in {"acme", "Acme", "-acme", "official-openai", "official-anthropic", "deepseek",
            "openrouter", "zai"} |->
        IF p = "-acme" THEN {} ELSE IF p = "Acme" THEN {"acme"} ELSE {p}]

\* Model 9 is in no catalog, and its name is a dot segment.
MCModelName == [m \in {1, 2, 3, 9} |->
    CASE m = 1 -> "one" [] m = 2 -> "two" [] m = 3 -> "three" [] m = 9 -> ".."]

MCCeiling ==
    [max_request_body_bytes |-> 64, max_messages |-> 8, max_tool_arguments_bytes |-> 4,
     max_all_tool_arguments_bytes |-> 6]

(***************************************************************************)
(* Endpoints, bindings and authentication providers                        *)
(***************************************************************************)
AcmeUrl == Url("https", "api.acme.test", <<Literal("v1")>>, <<>>)
AcmeBinding == Binding(UrlOrigin(AcmeUrl), <<>>)
OtherPort == [AcmeBinding EXCEPT !.origin.port = 8443]

PerModelEndpoint ==
    TemplateEndpoint([AcmeUrl EXCEPT !.query = << <<"version", "0">> >>],
        <<Variable("deployment"), Literal("models"), Variable("provider_model")>>,
        [version |-> QuerySet("1", "override"), debug |-> QueryRemove])

\* An endpoint per model under a path the credential is bound to.
ZaiBinding == AudienceBinding("zai_standard")
PrefixedEndpoint ==
    TemplateEndpoint(Url("https", "api.z.ai", <<Literal("api"), Literal("paas"), Literal("v4")>>, <<>>),
        <<Variable("provider_model"), Literal("chat")>>, <<>>)

MCAuths ==
    [bearer_openai |-> FixedAuth("bearer", {"authorization"}, AudienceBinding("official_openai")),
     key_anthropic |-> FixedAuth("api_key", {"x-api-key"}, AudienceBinding("official_anthropic")),
     bearer_deepseek |-> FixedAuth("bearer", {"authorization"}, AudienceBinding("deepseek")),
     bearer_openrouter |-> FixedAuth("bearer", {"authorization"}, AudienceBinding("openrouter")),
     bearer_zai |-> FixedAuth("bearer", {"authorization"}, AudienceBinding("zai_standard")),
     bearer_coding |-> FixedAuth("bearer", {"authorization"}, AudienceBinding("zai_coding")),
     bearer_acme |-> FixedAuth("bearer", {"authorization"}, AcmeBinding),
     multi_acme |-> FixedAuth("multi_header", {"authorization", "x-org"}, AcmeBinding),
     custom_acme |-> Auth("custom", {"x-sig"}, {AcmeBinding},
         {<<>>, Credential({"x-sig"}), Credential({"x-tenant"}),
          << SetHeader("x-sig", "auth", FALSE) >>}),
     custom_zai |-> Auth("custom", {"x-sig"}, {ZaiBinding}, {Credential({"x-sig"})}),
     none |-> NoAuth]

(***************************************************************************)
(* Drafts                                                                  *)
(***************************************************************************)
Plain ==
    [EmptyDraft("acme", "chat", "openai", DefaultContract) EXCEPT
        !.endpoint = {BaseAndPath(AcmeUrl, <<Literal("chat")>>)}, !.bind_to_origin = TRUE,
        !.scheme = {Scheme("bearer", {"authorization"})}, !.capabilities = {official_openai},
        !.unregistered = TRUE,
        !.provider_headers = << SetHeader("x-tenant", "provider", FALSE) >>,
        !.model_headers = << SetHeader("x-model", "model", FALSE) >>]

Facts(model, extra) ==
    [f \in DOMAIN EntryFacts(model, "m", "openai") \cup DOMAIN extra |->
        IF f \in DOMAIN extra THEN extra[f] ELSE EntryFacts(model, "m", "openai")[f]]

Listed(first, second) ==
    [m \in {1, 2} |-> Entry("acme", "chat", Facts(m, IF m = 1 THEN first ELSE second), "listed")]

Deployed(name) == [deployment_id |-> name]

PerModel(first, second) ==
    [Plain EXCEPT !.endpoint = {PerModelEndpoint}, !.unregistered = FALSE,
                  !.scheme = {Scheme("api_key", {"x-api-key"})},
                  !.catalog = {Listed(first, second)}]

Prefixed(first, second) ==
    [Plain EXCEPT !.endpoint = {PrefixedEndpoint}, !.unregistered = FALSE,
                  !.bind_to_origin = FALSE, !.binding = {ZaiBinding},
                  !.catalog = {Listed([provider_model_id |-> first], [provider_model_id |-> second])}]

Dynamic(allowed) ==
    [allowed |-> allowed, max_operations |-> 1, max_bytes |-> 8,
     answers |-> {DynamicAnswer("panic", <<>>, 0), DynamicAnswer("timeout", <<>>, 0),
                  DynamicAnswer("ok", <<>>, 0)}
         \cup {DynamicAnswer("ok", << SetHeader(n, "dynamic", s) >>, b) :
                  n \in {"x-trace", "x-tenant", "x-model", "x-org"}, s \in BOOLEAN, b \in {4, 9}}
         \cup {DynamicAnswer("ok", << RemoveHeader("x-model", "dynamic") >>, 4),
               DynamicAnswer("ok", << SetHeader("x-trace", "dynamic", FALSE),
                                      RemoveHeader("x-trace", "dynamic") >>, 4)}]

ObjectArguments == OpenAiContract(TRUE, TRUE)
WithTools(status) ==
    Declare([UnknownModel.status EXCEPT !.function_tools = status], {})

Contracted(own, catalogued) ==
    [Plain EXCEPT !.unregistered = FALSE,
        !.catalog = {Listed([function_tools |-> catalogued], <<>>)},
        !.model_capabilities = [m \in {1} |-> WithTools(own)],
        !.model_compat = [m \in {1} |-> ObjectArguments]]

MCDrafts ==
    [plain |-> Plain,
     plain_again |-> [Plain EXCEPT !.model_headers = <<>>],
     other |-> [Plain EXCEPT !.product = "other"],
     odd_case |-> [Plain EXCEPT !.provider = "Acme", !.product = "odd"],
     nameless |-> [Plain EXCEPT !.provider = "-acme"],
     keyed |-> [Plain EXCEPT !.idempotency = {"idempotency-key"}],
     claims_key |-> [Plain EXCEPT !.idempotency = {"idempotency-key"},
                        !.model_headers = << SetHeader("idempotency-key", "model", FALSE) >>],
     auth_key |-> [Plain EXCEPT !.idempotency = {"idempotency-key"},
                        !.scheme = {Scheme("api_key", {"idempotency-key"})}],
     prefixed |-> Prefixed("glm", "."),
     prefixed_custom |-> [Prefixed("glm", ".") EXCEPT !.scheme = {Scheme("custom", {"x-sig"})}],
     leaves_prefix |-> Prefixed("glm", ".."),
     per_model |-> PerModel([deployment_id |-> "east", max_messages |-> 3, max_output_tokens |-> 9],
                            [deployment_id |-> "west", max_messages |-> 12]),
     hole |-> PerModel(Deployed("east"), <<>>),
     empty_catalog |-> [PerModel(<<>>, <<>>) EXCEPT !.catalog = {<<>>}],
     query |-> [PerModel(Deployed("east"), Deployed("west")) EXCEPT
                   !.endpoint = {[PerModelEndpoint EXCEPT !.query.version.merge = "reject_existing"]}],
     dynamic |-> [Plain EXCEPT !.dynamic = {Dynamic({"x-trace", "x-tenant", "x-model"})}],
     dynamic_denied |-> [Plain EXCEPT !.dynamic = {Dynamic({"authorization"})}],
     multi |-> [Plain EXCEPT !.scheme = {Scheme("multi_header", {"authorization", "x-org"})}],
     custom |-> [Plain EXCEPT !.scheme = {Scheme("custom", {"x-sig"})}],
     open |-> [Plain EXCEPT !.scheme = {Scheme("none", {})}],
     contracted |-> Contracted("supported", "supported"),
     opposed |-> Contracted("unknown", "supported"),
     unsupported |-> Contracted("supported", "unknown"),
     other_port |-> [Plain EXCEPT !.bind_to_origin = FALSE, !.binding = {OtherPort}],
     plaintext |-> [Plain EXCEPT !.endpoint = {AbsoluteEndpoint(Url("http", "api.acme.test", <<>>, <<>>))}],
     private |-> [Plain EXCEPT !.endpoint = {AbsoluteEndpoint(Url("https", "10.0.0.1", <<>>, <<>>))}],
     unbound |-> [Plain EXCEPT !.bind_to_origin = FALSE],
     unnamed_scheme |-> [Plain EXCEPT !.scheme = {}],
     foreign_contract |-> [Plain EXCEPT !.contract = AnthropicContract],
     unversioned |-> [Plain EXCEPT !.dialect = "anthropic", !.contract = AnthropicContract],
     model_claims |-> [Plain EXCEPT !.model_headers = << SetHeader("x-tenant", "model", FALSE) >>],
     auth_claimed |-> [Plain EXCEPT !.scheme = {Scheme("api_key", {"x-tenant"})}],
     auth_forbidden |-> [Plain EXCEPT !.scheme = {Scheme("api_key", {"host"})}]]

(***************************************************************************)
(* Deployments and calls                                                   *)
(***************************************************************************)
Referenced(provider, limits) == Deployment(provider, "reference", {}, limits)
Carrying(auth) == Deployment("acme", "auth_provider", {auth}, MCCeiling)

MCDeployments ==
    {Referenced("acme", MCCeiling), Referenced("Acme", MCCeiling),
     Referenced("acme", [MCCeiling EXCEPT !.max_messages = 9]),
     Referenced("acme", [MCCeiling EXCEPT !.max_messages = 5]),
     Referenced("acme", [MCCeiling EXCEPT !.max_all_tool_arguments_bytes = 3]),
     Deployment("acme", "none", {}, MCCeiling)}
    \cup {Carrying(a) : a \in {"bearer_acme", "bearer_openai", "multi_acme", "custom_acme", "custom_zai", "none"}}

Register(draft) == [fn |-> "register", draft |-> draft]
Replace(draft) == [fn |-> "replace", draft |-> draft]
Remove == [fn |-> "remove", provider |-> "acme"]
RemoveProduct(product) == [fn |-> "remove_product", provider |-> "acme", product |-> product]
Get == [fn |-> "get", provider |-> "acme"]
GetProduct == [fn |-> "get_product", provider |-> "acme", product |-> "chat"]
Build(deployment, secret) ==
    [fn |-> "build_deployment", provider |-> "acme", deployment |-> deployment, secret |-> secret]
BuildProduct(product, deployment) ==
    [fn |-> "build_product_deployment", provider |-> "acme", product |-> product,
     deployment |-> deployment, secret |-> "ok"]
Send == [fn |-> "send"]
Profile(profile, auth) == [fn |-> "profile", profile |-> profile, auth |-> auth]
Merge == [fn |-> "merge"]
ConfigureOfficial(profile, secret) == [fn |-> "configure", profile |-> profile, secret |-> secret]

Usual == Referenced("acme", MCCeiling)

Program(a, b, resolver) ==
    [c \in MCCallers |-> CASE c = "a" -> a [] c = "b" -> b [] c = "resolver" -> resolver]

RegistryPrograms ==
    {Program(<<Register("plain"), build>>, b, r) :
        build \in {Build(Usual, "ok"), Build(Usual, "missing"), BuildProduct("chat", Usual)},
        b \in {<<>>, <<Register("other"), Get>>, <<Replace("plain_again"), GetProduct>>,
               <<Remove, Register("other")>>, <<RemoveProduct("chat"), Build(Usual, "ok")>>,
               <<Register("plain_again"), Replace("other")>>,
               <<Register("odd_case"), BuildProduct("odd", Referenced("acme", MCCeiling))>>},
        r \in {<<>>, <<Register("other"), Replace("plain_again")>>, <<Remove, Get>>,
               <<RemoveProduct("chat"), Register("plain_again")>>}}

AttemptPrograms ==
    {Program(<<Register(d), Build(deployment, "ok"), Send>>, <<>>, <<>>) :
        d \in DOMAIN MCDrafts, deployment \in MCDeployments}
    \cup {Program(<<Profile(p, a), Send>>, <<>>, <<>>) :
        p \in {"official_openai", "official_anthropic", "deepseek", "openrouter", "zai_standard",
               "zai_coding"}, a \in DOMAIN MCAuths}

SetupPrograms ==
    {Program(<<Merge, Merge, Merge>>, <<>>, <<>>)}
    \cup {Program(<<ConfigureOfficial(p, s), Send>>, <<>>, <<>>) :
        p \in {"official_openai", "official_anthropic"}, s \in {"ok", "missing"}}

Calls(fn) ==
    {call \in UNION {Range(p.a) : p \in AttemptPrograms \cup SetupPrograms} : call.fn = fn}

MCPrograms == RegistryPrograms \cup AttemptPrograms \cup SetupPrograms

(***************************************************************************)
(* What the programs build.                                                *)
(***************************************************************************)
MCBuilds ==
    {<<"registry", d, deployment, secret>> :
        d \in {n \in DOMAIN MCDrafts : BuildDefinition(MCDrafts[n]).answer = Ok},
        deployment \in MCDeployments, secret \in {"ok", "missing"}}
    \cup {<<"profile", call.profile, call.auth>> : call \in Calls("profile")}
    \cup {<<"config", call.profile, call.secret>> : call \in Calls("configure")}

(***************************************************************************)
(* Requests, catalog layers, configuration layers                          *)
(***************************************************************************)
Own(names) == [i \in DOMAIN names |-> SetHeader(names[i], "request", FALSE)]

MCRequests ==
    {[provider |-> p, model |-> m, headers |-> h, key |-> k] :
        p \in DOMAIN MCNormalForm, m \in {1, 2, 9},
        h \in {<<>>, Own(<<"x-trace", "x-model">>), Own(<<"x-tenant">>), Own(<<"authorization">>),
               Own(<<"idempotency-key">>)},
        k \in {"none", "requested", "retry"}}

Layered(facts, source) == Entry("acme", "chat", Facts(1, facts), source)

MCCatalogLayers ==
    [base |-> [m \in {1, 2} |->
                  Layered([max_output_tokens |-> 8, function_tools |-> "supported"], "base")],
     limits |-> [m \in {1} |->
                  Layered([max_output_tokens |-> 4, pricing |-> "list", deployment_id |-> "east"], "limits")],
     defaults |-> [m \in {1, 3} |->
                  Layered([default_max_output_tokens |-> 6, function_tools |-> "unsupported"], "defaults")],
     zero |-> [m \in {2} |-> Layered([max_messages |-> 0], "zero")]]

Elsewhere == BaseAndPath(Url("https", "api.acme.test", <<Literal("v1")>>, <<>>), <<Literal("messages")>>)

MCLayers ==
    {ConfigLayer(ConfigSource("user_config", 1, "file"), 1,
        [client_identity |-> {"app"}, credential |-> {"KEY"}, max_http_error_body_bytes |-> {8}]),
     ConfigLayer(ConfigSource("user_config", 2, "file"), 1,
        [client_identity |-> {"tool"}, credential |-> {}]),
     ConfigLayer(ConfigSource("environment_secret", 1, "ENV"), 1, [credential |-> {"ENV"}]),
     ConfigLayer(ConfigSource("environment_secret", 2, "ENV"), 1, [credential |-> {"KEY"}]),
     ConfigLayer(ConfigSource("programmatic", 1, "app"), 1, [endpoint |-> {Elsewhere}]),
     ConfigLayer(ConfigSource("programmatic", 2, "app"), 1,
        [endpoint |-> {OpenAiEndpoint}, provider_id |-> {"official-openai"}]),
     ConfigLayer(ConfigSource("programmatic", 3, "app"), 1, [client_identity |-> {}]),
     ConfigLayer(ConfigSource("user_config", 1, "file"), 2, <<>>),
     ConfigLayer(ConfigSource("per_request", 1, "request"), 1, [max_http_error_body_bytes |-> {9}])}

MCConfigLayers == {<<>>} \cup {<<l>> : l \in MCLayers} \cup (MCLayers \X MCLayers)
                    \cup (MCLayers \X MCLayers \X MCLayers)
=============================================================================
