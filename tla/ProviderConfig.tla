--------------------------- MODULE ProviderConfig ---------------------------
(***************************************************************************)
(* Layered configuration (philo-config): layers of field operations from   *)
(* sources of different rank are merged over a built-in snapshot, and the  *)
(* result compiles to the inputs of an official provider.                  *)
(*                                                                         *)
(* The operations of a layer are a function from the fields it does not    *)
(* leave unset: a set with one value sets the field, the empty set removes *)
(* it.  Source identifiers are numbers in their string order.              *)
(***************************************************************************)
EXTENDS Presets

LOCAL INSTANCE SequencesExt

ConfigFields == {"provider_id", "protocol_id", "endpoint", "credential_audience", "credential",
                 "client_identity", "max_http_error_body_bytes"}

\* ConfigSourceKind, in ascending precedence.
SourceKinds == <<"protocol_default", "built_in", "user_config", "environment_secret",
                 "programmatic", "per_request">>

Precedence(kind) == CHOOSE i \in DOMAIN SourceKinds : SourceKinds[i] = kind

ConfigSource(kind, id, location) == [kind |-> kind, id |-> id, location |-> location]
ConfigLayer(source, major, operations) ==
    [source |-> source, major |-> major, operations |-> operations]

BuiltIn == ConfigSource("built_in", 0, "built_in")

\* ResolvedField: a value and the source that decided it last.
Field(value, source) == [value |-> value, source |-> source]

OfficialSnapshot(provider, protocol, endpoint, audience) ==
    [f \in ConfigFields |->
        CASE f = "provider_id" -> Field({provider}, BuiltIn)
          [] f = "protocol_id" -> Field({protocol}, BuiltIn)
          [] f = "endpoint" -> Field({endpoint}, BuiltIn)
          [] f = "credential_audience" -> Field({audience}, BuiltIn)
          [] f = "credential" -> Field({}, ConfigSource("none", 0, "none"))
          [] f = "client_identity" -> Field({"sdk"}, BuiltIn)
          [] f = "max_http_error_body_bytes" -> Field({16 * 1024}, BuiltIn)]

OfficialOpenAiSnapshot ==
    OfficialSnapshot("official-openai", "openai", OpenAiEndpoint, "official_openai")
OfficialAnthropicSnapshot ==
    OfficialSnapshot("official-anthropic", "anthropic", AnthropicEndpoint, "official_anthropic")

(***************************************************************************)
(* merge_layers                                                            *)
(***************************************************************************)
\* An environment source sets its own secret reference and nothing else; a
\* request source changes nothing.
SourcePermits(layer) ==
    LET changed == DOMAIN layer.operations
    IN  CASE layer.source.kind = "environment_secret" ->
                FirstFailure(<<
                    <<changed \ {"credential"} # {}, "config", "ForbiddenOverride">>,
                    <<changed = {} \/ \E f \in changed : layer.operations[f] = {},
                      "config", "ForbiddenOverride">>,
                    <<\E f \in changed : layer.operations[f] # {layer.source.location},
                      "config", "MergeConflict">> >>)
          [] layer.source.kind = "per_request" ->
                FirstFailure(<< <<changed # {}, "config", "ForbiddenOverride">> >>)
          [] OTHER -> Ok

SameSource(left, right) == left.source.kind = right.source.kind /\ left.source.id = right.source.id

\* The checks of one layer after another, in the order they are given.
LayersAdmitted(layers) ==
    FirstError([i \in DOMAIN layers |->
        FirstError(<<
            FirstFailure(<< <<layers[i].major # 1, "config", "InvalidVersion">> >>),
            SourcePermits(layers[i]),
            FirstFailure(<< <<\E j \in 1 .. i - 1 : SameSource(layers[i], layers[j]),
                              "config", "MergeConflict">> >>) >>)])

\* Mutant: layers of one rank keep the order they are given in.
SortedByPrecedence(layers) ==
    SortSeq(layers, LAMBDA l, r : Precedence(l.source.kind) < Precedence(r.source.kind))

SortedConfig(layers) ==
    SortSeq(layers, LAMBDA l, r :
        \/ Precedence(l.source.kind) < Precedence(r.source.kind)
        \/ l.source.kind = r.source.kind /\ l.source.id < r.source.id)

ApplyConfig(snapshot, layer) ==
    [f \in ConfigFields |->
        IF f \in DOMAIN layer.operations THEN Field(layer.operations[f], layer.source)
        ELSE snapshot[f]]

ValidateSnapshot(snapshot) ==
    LET required == <<"provider_id", "protocol_id", "endpoint", "credential_audience",
                      "client_identity">>
        Missing(f) == snapshot[f].value = {}
    IN  FirstError(<<
            FirstFailure([i \in DOMAIN required |->
                <<Missing(required[i]), "config", "MissingRequiredField">>]),
            FirstFailure(<<
                <<Missing("max_http_error_body_bytes"), "config", "MissingRequiredField">>,
                <<\E limit \in snapshot.max_http_error_body_bytes.value :
                    limit \notin 1 .. 1024 * 1024, "config", "InvalidValue">>,
                <<\E endpoint \in snapshot.endpoint.value : endpoint.kind = "unparsable",
                  "config", "InvalidValue">>,
                <<"invalid" \in snapshot.client_identity.value \cup snapshot.credential.value,
                  "config", "InvalidValue">> >>) >>)

MergeConfig(snapshot, layers) ==
    LET merged == FoldLeft(ApplyConfig, snapshot, SortedConfig(layers))
        admitted == LayersAdmitted(layers)
    IN  [snapshot |-> merged,
         answer |-> IF admitted # Ok THEN admitted ELSE ValidateSnapshot(merged)]

(***************************************************************************)
(* official_openai_inputs and official_anthropic_inputs: an official       *)
(* identity, audience and endpoint cannot be configured away, and a        *)
(* credential must be referenced.                                          *)
(***************************************************************************)
OfficialInputs(snapshot, official) ==
    FirstError(<<
        ValidateSnapshot(snapshot),
        FirstFailure(<<
            <<\E f \in {"provider_id", "protocol_id", "credential_audience", "endpoint"} :
                snapshot[f].value # official[f].value, "config", "ForbiddenOverride">>,
            <<snapshot.credential.value = {}, "config", "MissingRequiredField">> >>) >>)
=============================================================================
