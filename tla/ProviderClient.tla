--------------------------- MODULE ProviderClient ---------------------------
(***************************************************************************)
(* The provider layer as its callers meet it: build a runtime, through the *)
(* registry, from a profile that ships with the SDK or from configuration, *)
(* and send attempts through it (execution/executor.rs): plan the target,  *)
(* resolve its endpoint, wait for the authentication provider and for the  *)
(* dynamic header callback, resolve the headers, send.                     *)
(*                                                                         *)
(* Drafts and authentication providers are known by name.                  *)
(***************************************************************************)
EXTENDS ProviderRegistry, ProviderConfig

CONSTANTS
    Drafts,             \* from names to drafts of definitions
    Auths,              \* from names to authentication providers
    NormalForm,         \* normalize_provider_id: from identifiers to at most one
    DefaultLimits,      \* the limits of a profile's deployment
    Requests,           \* the requests a caller may send
    CatalogLayers,      \* the catalog layers a caller may merge
    ConfigLayers,       \* the sequences of configuration layers a caller may merge
    Builds              \* what the programs build runtimes from

VARIABLES
    attempt,            \* per caller, the attempt that is running
    merged,             \* per caller, the catalog merged so far and its layers
    configured          \* per caller, the merged configuration and its layers

vars == <<registrations, readers, todo, pc, held, returned, seen, attempt, merged, configured>>

(***************************************************************************)
(* What is built, and from what.  Construction is a function of its        *)
(* inputs, so it is tabulated once.                                        *)
(***************************************************************************)
Identities ==
    [name \in DOMAIN Drafts |->
        LET draft == Drafts[name]
            normal == NormalForm[draft.provider]
        IN  [status |-> FirstError(<< BuildDefinition(draft).answer,
                            FirstFailure(<< <<normal = {}, "registry", "InvalidProviderId">> >>) >>),
             key |-> <<IF normal = {} THEN draft.provider ELSE The(normal), draft.product>>,
             provider |-> draft.provider]]

WithAuths(deployment) == [deployment EXCEPT !.auth = {Auths[a] : a \in @}]

ProfileDraft(profile, auth) ==
    CASE profile = "official_openai" -> OfficialOpenAi(auth)
      [] profile = "official_anthropic" -> OfficialAnthropic(auth)
      [] profile = "deepseek" -> DeepSeek(auth)
      [] profile = "openrouter" -> OpenRouter(auth, Attribution)
      [] profile = "zai_standard" -> Zai("zai-standard-api", auth, Language)
      [] profile = "zai_coding" -> Zai("zai-coding-plan", auth, <<>>)

\* The deployment a configuration compiles to refers to a secret.
ConfigRuntime(profile, secret) ==
    LET auth == IF profile = "official_openai" THEN Auth("bearer", {"authorization"}, {}, {})
                ELSE Auth("api_key", {"x-api-key"}, {}, {})
        draft == ProfileDraft(profile, auth)
    IN  CompileBuilt(BuildDefinition(draft), Deployment(draft.provider, "reference", {}, DefaultLimits),
                     secret)

BuiltFrom(id) ==
    CASE id[1] = "registry" ->
            CompileBuilt(BuildDefinition(Drafts[id[2]]), WithAuths(id[3]), id[4])
      [] id[1] = "profile" ->
            ProfileRuntime(ProfileDraft(id[2], Auths[id[3]]), Auths[id[3]], DefaultLimits)
      [] id[1] = "config" -> ConfigRuntime(id[2], id[3])

BuiltRuntimes == [id \in Builds |-> BuiltFrom(id)]

\* What the registry asks of a definition.
DraftIdentity(name) == Identities[name]
CompiledTo(provider, built) ==
    [status |-> built.answer, provider |-> provider, value |-> built.runtime]
DraftCompiled(name, deployment, secret) ==
    CompiledTo(Identities[name].provider, BuiltRuntimes[<<"registry", name, deployment, secret>>])

\* The runtime a caller built last, if it has one.
RuntimeCalls == BuildCalls \cup {"profile", "configure"}
Runtimes(c) ==
    LET built == {i \in DOMAIN returned[c] :
                    returned[c][i].call.fn \in RuntimeCalls /\ returned[c][i].answer.status = Ok}
    IN  IF built = {} THEN {}
        ELSE returned[c][CHOOSE i \in built : \A j \in built : j <= i].answer.value

(***************************************************************************)
(* Init                                                                    *)
(***************************************************************************)
NoAttempt == [request |-> {}, url |-> {}, auth |-> <<>>, dynamic |-> <<>>,
              resolved |-> Unresolved]

NothingMerged == [catalog |-> <<>>, answer |-> Ok, layers |-> <<>>]
NothingConfigured == [snapshot |-> OfficialOpenAiSnapshot, answer |-> Ok, layers |-> <<>>,
                      profile |-> "official_openai"]

Init ==
    /\ RegistryInit
    /\ attempt = [c \in Callers |-> NoAttempt]
    /\ merged = [c \in Callers |-> NothingMerged]
    /\ configured = [c \in Callers |-> NothingConfigured]

Registry(c) == RegistryStep(c) /\ UNCHANGED <<attempt, merged, configured>>

Starts(c, fn) == pc[c] = "idle" /\ todo[c] # <<>> /\ Running(c) /\ Call(c).fn = fn

LockFree == UNCHANGED <<registrations, readers, held, seen>>

(***************************************************************************)
(* Construction without the registry                                       *)
(***************************************************************************)
RuntimeAnswer(inputs, built) ==
    IF inputs # Ok THEN Answer(inputs, {}) ELSE Answer(built.answer, built.runtime)

BuildProfile(c) ==
    /\ Starts(c, "profile")
    /\ Return(c, RuntimeAnswer(Ok, BuiltRuntimes[<<"profile", Call(c).profile, Call(c).auth>>]))
    /\ LockFree /\ UNCHANGED <<attempt, merged, configured>>

\* ModelCatalog::merge, one more layer over what was merged before.
MergeCatalogLayer(c) ==
    /\ Starts(c, "merge")
    /\ \E name \in DOMAIN CatalogLayers :
          LET result == MergeLayer([catalog |-> merged[c].catalog, answer |-> merged[c].answer],
                                   CatalogLayers[name])
          IN  /\ merged' = [merged EXCEPT ![c] =
                      [catalog |-> result.catalog, answer |-> result.answer,
                       layers |-> Append(@.layers, name)]]
              /\ Return(c, Answer(result.answer, {}))
    /\ LockFree /\ UNCHANGED <<attempt, configured>>

\* merge_layers over a built-in snapshot, then the official runtime.
Configure(c) ==
    /\ Starts(c, "configure")
    /\ \E layers \in ConfigLayers :
          LET official == IF Call(c).profile = "official_openai" THEN OfficialOpenAiSnapshot
                          ELSE OfficialAnthropicSnapshot
              result == MergeConfig(official, layers)
              inputs == IF result.answer # Ok THEN result.answer
                        ELSE OfficialInputs(result.snapshot, official)
          IN  /\ configured' = [configured EXCEPT ![c] =
                      [snapshot |-> result.snapshot, answer |-> result.answer, layers |-> layers,
                       profile |-> Call(c).profile]]
              /\ Return(c, RuntimeAnswer(inputs,
                      BuiltRuntimes[<<"config", Call(c).profile, Call(c).secret>>]))
    /\ LockFree /\ UNCHANGED <<attempt, merged>>

(***************************************************************************)
(* One attempt                                                             *)
(***************************************************************************)
Runtime(c) == The(Runtimes(c))
Request(c) == The(attempt[c].request)
Definition(c) == Runtime(c).definition

End(c, answer) ==
    Return(c, Answer(answer, {})) /\ attempt' = [attempt EXCEPT ![c] = NoAttempt]
Continue(c, step, next) ==
    /\ Goto(c, step)
    /\ attempt' = [attempt EXCEPT ![c] = next]
    /\ UNCHANGED <<todo, returned>>

Keeps == LockFree /\ UNCHANGED <<merged, configured>>

\* ResolvedIdempotency::resolve and operation.  A policy without support, be
\* it unsupported or unknown (which only changes the reason), refuses a key.
IdempotencyAdmitted(definition, key) ==
    FirstFailure(<< <<key = "requested" /\ definition.idempotency = {},
                      "validation", "CapabilityUnsupported">> >>)

IdempotencyOperation(definition, key) ==
    IF key = "none" \/ definition.idempotency = {} THEN <<>>
    ELSE << SetHeader(The(definition.idempotency), "provider", TRUE) >>

\* A client without a runtime sends nothing: its program ends.
Plan(c) ==
    /\ Starts(c, "send")
    /\ IF Runtimes(c) = {}
       THEN todo' = [todo EXCEPT ![c] = <<>>] /\ UNCHANGED <<pc, returned, attempt>>
       ELSE \E request \in Requests :
              LET answer == FirstError(<< PlanPolicyFor(Runtime(c), request),
                                          IdempotencyAdmitted(Definition(c), request.key) >>)
              IN  IF answer # Ok THEN End(c, answer)
                  ELSE Continue(c, "endpoint", [NoAttempt EXCEPT !.request = {request}])
    /\ Keeps

\* resolve_target_endpoint
ResolveEndpoint(c) ==
    /\ pc[c] = "endpoint"
    /\ LET resolved == Resolve(Definition(c).endpoint, Target(Runtime(c), Request(c).model).values)
       IN  IF resolved.answer # Ok THEN End(c, resolved.answer)
           ELSE Continue(c, "auth", [attempt[c] EXCEPT !.url = {resolved.url}])
    /\ Keeps

\* AuthProvider::resolve: the built-in providers check the destination, and a
\* provider of the caller's own may fail.
ResolveAuth(c) ==
    /\ pc[c] = "auth"
    /\ LET auth == Runtime(c).auth
           custom == auth.kind = "custom"
       IN  \/ /\ custom \/ ~AuthPermits(auth, The(attempt[c].url))
              /\ End(c, <<"credential", "Unavailable">>)
           \/ /\ custom \/ AuthPermits(auth, The(attempt[c].url))
              /\ \E outcome \in auth.outcomes :
                    Continue(c, "dynamic", [attempt[c] EXCEPT !.auth = outcome])
    /\ Keeps

\* DynamicHeaderPolicy::resolve, when the definition has one.
ResolveDynamic(c) ==
    /\ pc[c] = "dynamic"
    /\ IF Definition(c).dynamic = {} THEN Continue(c, "headers", attempt[c])
       ELSE LET policy == The(Definition(c).dynamic)
            IN  \E answer \in policy.answers :
                    IF CheckDynamic(policy, answer) # Ok THEN End(c, CheckDynamic(policy, answer))
                    ELSE Continue(c, "headers", [attempt[c] EXCEPT !.dynamic = answer.operations])
    /\ Keeps

AttemptLayers(definition, request, dynamic, auth) ==
    << Layer("transport", <<>>),
       Layer("protocol", ProtocolOperations),
       Layer("provider", definition.provider_headers \o IdempotencyOperation(definition, request.key)),
       Layer("client_identity", << SetHeader("user-agent", "client_identity", FALSE) >>),
       Layer("model", definition.model_headers),
       Layer("dynamic", dynamic),
       Layer("request", request.headers),
       Layer("auth", auth) >>

ContentTypeKept(headers) ==
    FirstFailure(<< <<"content-type" \notin DOMAIN headers \/ headers["content-type"] # "protocol",
                      "validation", "ProtectedHeader">> >>)

ResolveHeaders(c) ==
    /\ pc[c] = "headers"
    /\ LET runtime == Runtime(c)
           resolved == ResolveLayers(runtime.registered,
                           AttemptLayers(Definition(c), Request(c), attempt[c].dynamic, attempt[c].auth))
           answer == FirstError(<< resolved.answer, ContentTypeKept(resolved.headers),
                         ValidateFinal(runtime.auth.kind, runtime.auth.headers, resolved.headers) >>)
       IN  IF answer # Ok THEN End(c, answer)
           ELSE Continue(c, "sent", [attempt[c] EXCEPT !.resolved = resolved])
    /\ Keeps

\* The answer of the transport ends the attempt; redirects are not followed.
Respond(c) == pc[c] = "sent" /\ End(c, Ok) /\ Keeps

Step(c) ==
    \/ Registry(c) \/ BuildProfile(c) \/ MergeCatalogLayer(c) \/ Configure(c)
    \/ Plan(c) \/ ResolveEndpoint(c) \/ ResolveAuth(c) \/ ResolveDynamic(c)
    \/ ResolveHeaders(c) \/ Respond(c)

Next == \E c \in Callers : Step(c)

Spec == Init /\ [][Next]_vars

\* A call of the registry that has begun runs on, and a resolver makes its
\* calls.
FairSpec ==
    Spec /\ \A c \in Callers : WF_vars((pc[c] # "idle" \/ c \in Hosted) /\ Registry(c))

(***************************************************************************)
(* Properties.                                                             *)
(***************************************************************************)
Sent == {c \in Callers : pc[c] = "sent"}

\* A credential only travels to the destination it is bound to: what is sent
\* with one goes over HTTPS to the origin, and under the path, of the binding
\* (endpoint/audience.rs validate), for every model and every way a runtime
\* is built.  The path is the caller's own concern in one case: a template
\* renders the name of a model no catalog lists, dot segments included, and only
\* the caller's own authentication provider, which is handed the endpoint, could
\* refuse it.
CredentialOnlyToItsDestination ==
    \A c \in Sent :
        LET binding == Definition(c).binding
            url == The(attempt[c].url)
            checked == \/ Runtime(c).auth.kind # "custom"
                       \/ Request(c).model \in DOMAIN Definition(c).catalog
                       \/ ~RequiresMapping(Definition(c).endpoint)
        IN  Runtime(c).auth.headers \cap DOMAIN attempt[c].resolved.headers # {} =>
                /\ url.scheme = "https" /\ UrlOrigin(url) = binding.origin
                /\ checked => \A i \in DOMAIN binding.prefix :
                                  i \in DOMAIN url.path /\ url.path[i] = binding.prefix[i]
                /\ Runtime(c).auth.binding = {binding}

\* A header that belongs to the authentication, the provider, the protocol or
\* the client is on the wire only as its owner wrote it, whatever the model,
\* the dynamic callback and the request ask for (headers.rs allows); a
\* built-in credential is there whole or nothing is sent; and the trace of the
\* attempt names the layer that wrote each header (final_source).
HeadersKeepTheirOwner ==
    \A c \in Sent :
        LET registered == Runtime(c).registered
            headers == attempt[c].resolved.headers
        IN  /\ \A n \in DOMAIN headers :
                  headers[n] = CASE n \in registered.auth -> "auth"
                                 [] n \in registered.provider \ registered.auth -> "provider"
                                 [] n \in ProtocolHeaders -> "protocol"
                                 [] n = "user-agent" -> "client_identity"
                                 [] OTHER -> headers[n]
            /\ Runtime(c).auth.kind \in {"bearer", "api_key", "multi_header"} =>
                  registered.auth \subseteq DOMAIN headers
            /\ AuthorizationHeaders \cap DOMAIN headers \subseteq registered.auth
            /\ \A n \in DOMAIN headers : FinalSource(attempt[c].resolved, n) = headers[n]

\* What builds sends.  Every model a runtime's catalog lists can be reached: its
\* endpoint resolves and a built-in credential may go there (runtime.rs build
\* resolves the endpoint of every entry).  With a fixed credential, no dynamic
\* callback and no headers of its own a request is not refused by the header
\* pipeline either, unless the definition's model headers or its scheme claim
\* the idempotency header, which only the runtime reserves.
WhatBuildsSends ==
    [][\A c \in Callers :
          LET listed == Request(c).model \in DOMAIN Definition(c).catalog
              fixed == Runtime(c).auth.kind # "custom"
          IN  /\ pc[c] = "endpoint" /\ listed => pc'[c] # "idle"
              /\ pc[c] = "auth" /\ listed /\ fixed => pc'[c] # "idle"
              /\ (/\ pc[c] = "headers" /\ fixed
                  /\ Definition(c).dynamic = {} /\ Request(c).headers = <<>>
                  /\ Definition(c).idempotency \cap
                        (Names(Definition(c).model_headers) \cup Runtime(c).auth.headers) = {})
                    => pc'[c] # "idle"]_vars

\* The policy of a call never exceeds what the deployment allows, and the
\* deployment never the SDK's ceiling (definition.rs
\* validate_deployment_limits, catalog/entry.rs apply_to).
LimitsOnlyTighten ==
    \A c \in Callers : attempt[c].request # {} =>
        LET limits == Target(Runtime(c), Request(c).model).limits
        IN  \A f \in DOMAIN limits : limits[f] \in 1 .. Runtime(c).limits[f]
                                     /\ Runtime(c).limits[f] <= Ceiling[f]

\* The contract declared for a model agrees with the capabilities the model's
\* requests run under (runtime.rs validate_contracts), although the
\* definition was checked with the catalog laid over the model's own
\* declaration and the runtime lays it under.
ModelContractsHold ==
    \A c \in Callers : attempt[c].request # {} =>
        LET model == Request(c).model
        IN  model \in DOMAIN Definition(c).model_contracts =>
                ContractFits(Definition(c).model_contracts[model], CapabilitiesFor(Definition(c), model))

\* Every fact of a merged catalog is that of the last layer that knows it, and
\* its provenance names that layer (catalog/merge.rs), however the layers
\* overlap; the entry itself names the last layer that lists the model.
CatalogFactsAreTheLatest ==
    \A c \in Callers : merged[c].answer = Ok =>
        LET layers == merged[c].layers
            Knowing(m, f) == {i \in DOMAIN layers :
                                  m \in DOMAIN CatalogLayers[layers[i]]
                                  /\ Knows(CatalogLayers[layers[i]][m], f)}
            Latest(s) == CHOOSE i \in s : \A j \in s : j <= i
            Listing(m) == {i \in DOMAIN layers : m \in DOMAIN CatalogLayers[layers[i]]}
        IN  \A m \in DOMAIN merged[c].catalog, f \in EntryFields :
                LET entry == merged[c].catalog[m]
                IN  /\ entry.source = CatalogLayers[layers[Latest(Listing(m))]][m].source
                    /\ Knows(entry, f) = (Knowing(m, f) # {})
                    /\ Knows(entry, f) =>
                          LET layer == CatalogLayers[layers[Latest(Knowing(m, f))]][m]
                          IN  /\ entry.facts[f] = layer.facts[f]
                              /\ entry.provenance[f] = layer.provenance[f]

Outranks(l, r) ==
    \/ Precedence(l.kind) > Precedence(r.kind)
    \/ Precedence(l.kind) = Precedence(r.kind) /\ l.id >= r.id

FollowsPrecedence(snapshot, layers) ==
    \A f \in ConfigFields :
        LET touching == {i \in DOMAIN layers : f \in DOMAIN layers[i].operations}
            winner == layers[CHOOSE i \in touching :
                                \A j \in touching : Outranks(layers[i].source, layers[j].source)]
        IN  touching # {} => snapshot[f] = Field(winner.operations[f], winner.source)

IsOfficial(snapshot, definition) ==
    /\ snapshot.provider_id.value = {definition.provider}
    /\ snapshot.endpoint.value = {definition.endpoint}
    /\ \A audience \in snapshot.credential_audience.value :
          AudienceBinding(audience) = definition.binding
    /\ snapshot.credential.value # {}

\* The merged configuration does not depend on the order its layers are given
\* in: every field is what the source of the highest rank that touches it
\* says, and its provenance names that source (philo-config merge_layers).
\* The runtime built from it is the official one, its identity, endpoint and
\* audience those of the profile whatever the layers set
\* (official_openai_inputs).
ConfigFollowsPrecedence ==
    \A c \in Callers :
        /\ configured[c].answer = Ok => FollowsPrecedence(configured[c].snapshot, configured[c].layers)
        /\ \A i \in DOMAIN returned[c] :
              (returned[c][i].call.fn = "configure" /\ returned[c][i].answer.status = Ok) =>
                  IsOfficial(configured[c].snapshot, The(returned[c][i].answer.value).definition)

\* Every call of the registry returns: no order of calls of several callers,
\* and of calls a resolver makes while its build runs, leaves a caller
\* waiting for the lock (registry.rs build_deployment).
CallsReturn == \A c \in Callers : (pc[c] \in Steps \ {"idle"}) ~> (pc[c] = "idle")
=============================================================================
