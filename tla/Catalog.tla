------------------------------ MODULE Catalog -------------------------------
(***************************************************************************)
(* The model catalog (provider/catalog): entries, the merge of ordered     *)
(* layers with the provenance of every field, and what an entry lends to   *)
(* capabilities, limits and the endpoint.  A catalog is a function from    *)
(* models to entries; models are numbered in key order.  The facts of an   *)
(* entry are a function whose domain is the set of the fields it knows: an *)
(* unknown status and an absent limit are not in it.                       *)
(***************************************************************************)
EXTENDS Answers, Capabilities

LOCAL INSTANCE SequencesExt

IdentityFields == {"provider_model_id", "wire_model_value", "display_name", "protocol_id"}
LimitFields == {"context_window_tokens", "max_output_tokens", "max_messages", "max_tools",
                "max_images", "max_schema_bytes"}
EntryFields == IdentityFields \cup LimitFields \cup ModelFields
                 \cup {"deployment_id", "default_max_output_tokens", "pricing", "support_status"}

Knows(entry, field) == field \in DOMAIN entry.facts
Fact(entry, field, default) == IF Knows(entry, field) THEN entry.facts[field] ELSE default

\* An entry of a catalog: insert seeds the provenance of every field.
Entry(provider, product, facts, source) ==
    [provider |-> provider, product |-> product, facts |-> facts, source |-> source,
     provenance |-> [f \in EntryFields |-> source]]

ValidateEntry(entry) ==
    FirstFailure(<<
        <<entry.facts.display_name = "", "configuration", "display name">>,
        <<\E f \in LimitFields : Knows(entry, f) /\ entry.facts[f] = 0,
          "configuration", "limit must be positive">>,
        <<Knows(entry, "default_max_output_tokens") /\ entry.facts.default_max_output_tokens = 0,
          "configuration", "default must be positive">>,
        <</\ Knows(entry, "default_max_output_tokens") /\ Knows(entry, "max_output_tokens")
          /\ entry.facts.default_max_output_tokens > entry.facts.max_output_tokens,
          "configuration", "default exceeds the limit">> >>)

\* Mutant: an overlay's source is recorded for fields it does not know.
MergeEntryAllSources(base, overlay) ==
    [base EXCEPT
        !.facts = [f \in DOMAIN @ \cup DOMAIN overlay.facts |->
                      IF Knows(overlay, f) THEN overlay.facts[f] ELSE @[f]],
        !.provenance = overlay.provenance,
        !.source = overlay.source]

\* A known fact of the overlay replaces the base's, and brings its source; the
\* entry as a whole takes the overlay's.
MergeEntry(base, overlay) ==
    [base EXCEPT
        !.facts = [f \in DOMAIN @ \cup DOMAIN overlay.facts |->
                      IF Knows(overlay, f) THEN overlay.facts[f] ELSE @[f]],
        !.provenance = [f \in EntryFields |->
                      IF Knows(overlay, f) THEN overlay.provenance[f] ELSE @[f]],
        !.source = overlay.source]

\* One model of one layer; the merge stops at the first invalid entry.
MergeModel(merged, layer, model) ==
    LET known == model \in DOMAIN merged.catalog
        entry == IF known THEN MergeEntry(merged.catalog[model], layer[model]) ELSE layer[model]
        answer == ValidateEntry(entry)
    IN  IF merged.answer # Ok THEN merged
        ELSE IF answer # Ok THEN [merged EXCEPT !.answer = answer]
        ELSE [merged EXCEPT !.catalog = [m \in DOMAIN @ \cup {model} |->
                                            IF m = model THEN entry ELSE @[m]]]

MergeLayer(merged, layer) ==
    FoldLeft(LAMBDA acc, model : MergeModel(acc, layer, model), merged,
             SetToSortSeq(DOMAIN layer, LAMBDA a, b : a < b))

\* What capability resolution sees of an entry.
EntryProfile(entry) ==
    Declare([f \in ModelFields |-> Fact(entry, f, "unknown")],
            IF Fact(entry, "reasoning_efforts", "unknown") = "supported" THEN Efforts ELSE {})

\* Mutant: a model's limit replaces the deployment's.
ReplaceLimits(facts, limits) ==
    [f \in DOMAIN limits |-> IF f \in LimitFields \cap DOMAIN facts THEN facts[f] ELSE limits[f]]

\* ModelLimits::apply_to: a model lowers the limits it declares and no other.
ApplyLimits(facts, limits) ==
    [f \in DOMAIN limits |->
        IF f \in LimitFields \cap DOMAIN facts /\ facts[f] < limits[f] THEN facts[f] ELSE limits[f]]
=============================================================================
