------------------------- MODULE ProviderDefinition -------------------------
(***************************************************************************)
(* From the draft of a provider definition to an immutable runtime         *)
(* (provider/definition.rs, profile.rs, runtime.rs): the builder's checks, *)
(* the match of a deployment's credential with the definition, the checks  *)
(* repeated where every construction path converges, and the policy one    *)
(* request runs under.                                                     *)
(*                                                                         *)
(* Optional fields of a draft are sets of at most one value.               *)
(***************************************************************************)
EXTENDS HeaderPipeline, Endpoint, Catalog

CONSTANTS
    Ceiling,        \* ResourceLimits::default(), a function on the limits in use
    ModelName       \* from models to the texts of their identifiers

(***************************************************************************)
(* Contracts.  A contract of the OpenAI protocol may ask for usage in the  *)
(* stream and may accept tool arguments as objects.                        *)
(***************************************************************************)
OpenAiContract(stream_usage, string_or_object) ==
    [protocol |-> "openai", stream_usage |-> stream_usage, string_or_object |-> string_or_object]
AnthropicContract == [protocol |-> "anthropic", stream_usage |-> FALSE, string_or_object |-> FALSE]

\* validate_against; nothing is asked of an Anthropic contract.
ContractFits(contract, caps) ==
    /\ contract.stream_usage => Declared(caps, "streaming_usage")
    /\ contract.string_or_object => Declared(caps, "function_tools")

(***************************************************************************)
(* Authentication schemes and the providers that carry a credential.  An   *)
(* authentication provider may answer any of its outcomes: a sequence of   *)
(* header operations for every attempt.                                    *)
(***************************************************************************)
Scheme(kind, headers) == [kind |-> kind, headers |-> headers]

\* AuthScheme constructors and from_auth_provider
SchemeAdmitted(scheme) ==
    /\ scheme.kind = "bearer" => scheme.headers = {"authorization"}
    /\ scheme.kind = "none" => scheme.headers = {}
    /\ scheme.kind = "api_key" => Cardinality(scheme.headers) = 1
    /\ scheme.kind \in {"multi_header", "custom"} => scheme.headers # {}
    /\ scheme.kind # "bearer" => scheme.headers \cap AuthIneligible = {}

Credential(headers) ==
    LET inOrder == CHOOSE s \in [1 .. Cardinality(headers) -> headers] :
                        \A i, j \in DOMAIN s : s[i] = s[j] => i = j
    IN  [i \in DOMAIN inOrder |-> SetHeader(inOrder[i], "auth", TRUE)]

Auth(kind, headers, binding, outcomes) ==
    [kind |-> kind, headers |-> headers, binding |-> binding, outcomes |-> outcomes]

FixedAuth(kind, headers, binding) == Auth(kind, headers, {binding}, {Credential(headers)})
NoAuth == Auth("none", {}, {}, {<<>>})

\* validate_endpoint of the built-in providers
AuthPermits(auth, url) == \A binding \in auth.binding : Permits(binding, url)

(***************************************************************************)
(* ProviderDefinitionBuilder::build                                        *)
(***************************************************************************)
CapabilitiesOver(caps, overlays) ==
    LET first == IF overlays[1] = {} THEN caps ELSE Apply(caps, The(overlays[1]))
    IN  IF overlays[2] = {} THEN first ELSE Apply(first, The(overlays[2]))

ModelProfile(profiles, model) == IF model \in DOMAIN profiles THEN {profiles[model]} ELSE {}
CatalogProfile(catalog, model) ==
    IF model \in DOMAIN catalog THEN {EntryProfile(catalog[model])} ELSE {}

CatalogMatches(catalog, draft) ==
    \A m \in DOMAIN catalog :
        /\ catalog[m].provider = draft.provider /\ catalog[m].product = draft.product
        /\ catalog[m].facts.protocol_id = draft.dialect

EntryValues(entry) ==
    EndpointValues(entry.product, entry.facts.provider_model_id,
                   IF Knows(entry, "deployment_id") THEN {entry.facts.deployment_id} ELSE {})

\* The endpoint of a configuration: a template takes the values of the first
\* catalog entry.
ResolveDefault(config, catalog) ==
    LET first == catalog[CHOOSE m \in DOMAIN catalog : \A n \in DOMAIN catalog : m <= n]
    IN  IF RequiresMapping(config) /\ catalog = <<>>
        THEN [answer |-> <<"configuration", "catalog entry required">>, url |-> config.base]
        ELSE Resolve(config, IF RequiresMapping(config) THEN EntryValues(first) ELSE {})

ProtocolOperations ==
    << SetHeader("content-type", "protocol", FALSE), SetHeader("accept", "protocol", FALSE) >>

\* Mutant: the headers of the models are not tried.
ProviderHeaderOwners(scheme, provider_headers, model_headers) ==
    ResolveLayers(HeaderRegistration(scheme.headers, Names(provider_headers)),
        << Layer("protocol", ProtocolOperations), Layer("provider", provider_headers) >>).answer

HeaderOwners(scheme, provider_headers, model_headers) ==
    ResolveLayers(HeaderRegistration(scheme.headers, Names(provider_headers)),
        << Layer("protocol", ProtocolOperations), Layer("provider", provider_headers),
           Layer("model", model_headers) >>).answer

DraftCatalog(draft) == IF draft.catalog = {} THEN <<>> ELSE The(draft.catalog)

ModelContractsFit(draft) ==
    \A m \in DOMAIN draft.model_compat :
        ContractFits(draft.model_compat[m],
            CapabilitiesOver(The(draft.capabilities),
                << ModelProfile(draft.model_capabilities, m), CatalogProfile(DraftCatalog(draft), m) >>))

RequiredFields(draft) ==
    FirstFailure(<<
        <<\E s \in draft.scheme : ~SchemeAdmitted(s), "validation", "ProtectedHeader">>,
        <<\E d \in draft.dynamic : ~DynamicPolicyAdmitted(d), "header_policy", "InvalidOperation">>,
        <<draft.contract.protocol # draft.dialect, "configuration", "protocol binding">>,
        <<draft.endpoint = {}, "configuration", "endpoint">>,
        <<draft.scheme = {}, "configuration", "auth scheme">>,
        <<draft.capabilities = {}, "configuration", "capabilities">> >>)

ValidateDraft(draft) ==
    LET caps == The(draft.capabilities)
        catalog == DraftCatalog(draft)
        anthropic == draft.dialect = "anthropic"
    IN  FirstError(<<
            FirstFailure(<<
                <<~CapabilitiesValid(caps), "configuration", "streaming">>,
                <<(draft.catalog # {}) = draft.unregistered, "configuration", "catalog policy">>,
                <<~CatalogMatches(catalog, draft), "configuration", "catalog entry">>,
                <<anthropic /\ draft.model_compat # <<>>, "configuration", "anthropic compat">>,
                <<~ContractFits(draft.contract, caps), "configuration", "contract">>,
                <<~ModelContractsFit(draft), "configuration", "model contract">> >>),
            HeaderOwners(The(draft.scheme), draft.provider_headers, draft.model_headers),
            FirstFailure(<<
                <<anthropic /\ "anthropic-version" \notin Names(draft.provider_headers),
                  "configuration", "anthropic-version">> >>) >>)

\* The binding of a draft that resolves to url, if it has one.
DraftBinding(draft, url) ==
    IF draft.bind_to_origin THEN {Binding(UrlOrigin(url), <<>>)} ELSE draft.binding

ValidateBinding(binding, url) ==
    FirstFailure(<< <<binding = {}, "configuration", "credential binding">>,
                    <<\E b \in binding : ~Permits(b, url), "configuration", "binding does not match">> >>)

DefinitionOf(draft, binding, answer) ==
        [answer |-> answer,
         definition |-> IF answer # Ok THEN {} ELSE
            {[provider |-> draft.provider, product |-> draft.product, dialect |-> draft.dialect,
              contract |-> draft.contract, endpoint |-> The(draft.endpoint),
              binding |-> The(binding), scheme |-> The(draft.scheme),
              provider_headers |-> draft.provider_headers, model_headers |-> draft.model_headers,
              dynamic |-> draft.dynamic, capabilities |-> The(draft.capabilities),
              model_capabilities |-> draft.model_capabilities, catalog |-> DraftCatalog(draft),
              model_contracts |-> draft.model_compat,
              idempotency |-> draft.idempotency]}]

BuildAt(draft, resolved) ==
    LET binding == DraftBinding(draft, resolved.url)
    IN  DefinitionOf(draft, binding,
            Then(RequiredFields(draft),
                 Then(ValidateDraft(draft),
                      Then(resolved.answer, ValidateBinding(binding, resolved.url)))))

BuildDefinition(draft) ==
    BuildAt(draft, ResolveDefault(The(draft.endpoint), DraftCatalog(draft)))

(***************************************************************************)
(* compile: a deployment names the provider, how its credential is found   *)
(* and the limits it runs under.  secret is what the resolver answered.    *)
(***************************************************************************)
Deployment(provider, credential, auth, limits) ==
    [provider |-> provider, credential |-> credential, auth |-> auth, limits |-> limits]

\* validate_deployment_limits
LimitsAdmitted(limits) ==
    /\ \A f \in DOMAIN limits : limits[f] \in 1 .. Ceiling[f]
    /\ limits.max_all_tool_arguments_bytes >= limits.max_tool_arguments_bytes

DeploymentAuth(definition, deployment) ==
    CASE deployment.credential = "auth_provider" -> deployment.auth
      [] deployment.credential = "none" -> {NoAuth}
      [] OTHER -> {FixedAuth(definition.scheme.kind, definition.scheme.headers, definition.binding)}

CompileCredential(definition, deployment, secret) ==
    LET kind == definition.scheme.kind
        reference == deployment.credential = "reference"
        auth == The(DeploymentAuth(definition, deployment))
    IN  FirstFailure(<<
            <<deployment.provider # definition.provider, "configuration", "provider identity">>,
            <<reference /\ secret # "ok", "credential", secret>>,
            <<reference /\ kind \notin {"bearer", "api_key"}, "configuration", "reference refused">>,
            <<deployment.credential = "none" /\ kind # "none", "configuration", "credential required">>,
            <<~LimitsAdmitted(deployment.limits), "configuration", "limits">>,
            <<auth.kind # kind, "configuration", "scheme">>,
            <<auth.headers # definition.scheme.headers, "configuration", "scheme headers">>,
            <<auth.binding = {} /\ kind # "none", "configuration", "binding required">>,
            <<auth.binding \notin {{}, {definition.binding}}, "configuration", "binding">> >>)

(***************************************************************************)
(* ProviderProfile::from_parts and ProviderRuntime::build                  *)
(***************************************************************************)
\* capabilities_for: the catalog first, the model profile over it.
CapabilitiesFor(definition, model) ==
    CapabilitiesOver(definition.capabilities,
        << CatalogProfile(definition.catalog, model), ModelProfile(definition.model_capabilities, model) >>)

Reaches(definition, auth, mapped) ==
    mapped.answer = Ok /\ Permits(definition.binding, mapped.url) /\ AuthPermits(auth, mapped.url)

EveryEntryReachable(definition, auth) ==
    \A m \in DOMAIN definition.catalog :
        Reaches(definition, auth, Resolve(definition.endpoint, EntryValues(definition.catalog[m])))

\* Mutant: the definition's check of the models is taken for the runtime's.
ProviderContractFits(definition) == ContractFits(definition.contract, definition.capabilities)

\* The capabilities validate_contracts computes for itself.
ContractCapabilities(definition, model) ==
    CapabilitiesOver(definition.capabilities,
        << CatalogProfile(definition.catalog, model), ModelProfile(definition.model_capabilities, model) >>)

ContractsFit(definition) ==
    /\ ContractFits(definition.contract, definition.capabilities)
    /\ \A m \in DOMAIN definition.model_contracts :
          ContractFits(definition.model_contracts[m], ContractCapabilities(definition, m))

ValidateProfile(definition, auth) ==
    FirstFailure(<<
        <<~Reaches(definition, auth, ResolveDefault(definition.endpoint, definition.catalog)),
          "configuration", "endpoint">>,
        <<~ContractsFit(definition), "configuration", "contract">>,
        <<~EveryEntryReachable(definition, auth), "configuration", "mapped endpoint">> >>)

\* The registration of a runtime's header pipeline.
RuntimeHeaders(definition, auth) ==
    HeaderRegistration(auth.headers, Names(definition.provider_headers) \cup definition.idempotency)

RuntimeWith(definition, auth, limits, answer) ==
    [answer |-> answer,
     runtime |-> IF answer # Ok THEN {} ELSE
        {[definition |-> definition, auth |-> auth, limits |-> limits,
          registered |-> RuntimeHeaders(definition, auth)]}]

BuildRuntime(definition, deployment, secret) ==
    LET auth == The(DeploymentAuth(definition, deployment))
    IN  RuntimeWith(definition, auth, deployment.limits,
            Then(CompileCredential(definition, deployment, secret), ValidateProfile(definition, auth)))

(***************************************************************************)
(* plan_policy_for: the target, the limits and the contract of one model.  *)
(***************************************************************************)
ContractFor(definition, model) ==
    IF model \in DOMAIN definition.model_contracts
    THEN definition.model_contracts[model] ELSE definition.contract

\* Without an entry the provider's model is the caller's.
Target(runtime, model) ==
    LET definition == runtime.definition
        entry == definition.catalog[model]
        known == model \in DOMAIN definition.catalog
    IN  [provider |-> definition.provider, product |-> definition.product,
         dialect |-> definition.dialect,
         values |-> IF known THEN EntryValues(entry)
                    ELSE EndpointValues(definition.product, ModelName[model], {}),
         limits |-> ApplyLimits(IF known THEN entry.facts ELSE <<>>, runtime.limits),
         contract |-> ContractFor(definition, model)]

\* ResourceLimits::validate
LimitsValid(limits) ==
    /\ \A f \in DOMAIN limits : limits[f] # 0
    /\ limits.max_all_tool_arguments_bytes >= limits.max_tool_arguments_bytes

PlanPolicyFor(runtime, request) ==
    FirstFailure(<<
        <<request.provider # runtime.definition.provider, "validation", "ProviderMismatch">>,
        <<~CapabilitiesValid(CapabilitiesFor(runtime.definition, request.model)),
          "configuration", "streaming">>,
        <<~LimitsValid(Target(runtime, request.model).limits), "validation", "limits">> >>)
=============================================================================
