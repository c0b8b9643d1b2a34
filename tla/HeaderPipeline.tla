--------------------------- MODULE HeaderPipeline ---------------------------
(***************************************************************************)
(* The header pipeline of an attempt (provider/headers.rs), the dynamic    *)
(* header policy in front of it and the final check of the authentication  *)
(* providers behind it.  A header value records who wrote it and whether   *)
(* it is sensitive; its bytes do not matter to the pipeline.               *)
(***************************************************************************)
EXTENDS Answers

LOCAL INSTANCE SequencesExt

CONSTANT ExtensionHeaders       \* the header names in use that start with x-

\* HeaderSource, in ascending priority.
Sources == <<"transport", "protocol", "provider", "client_identity", "model",
             "dynamic", "request", "auth">>

AuthorizationHeaders == {"authorization", "proxy-authorization"}
ProtocolHeaders == {"content-type", "accept"}
ForbiddenHeaders == {"host", "content-length", "transfer-encoding", "connection",
                     "cookie", "set-cookie"}

\* PROTECTED_HEADERS, and what remains of it for a credential to claim.
GloballyProtected ==
    AuthorizationHeaders \cup ProtocolHeaders \cup ForbiddenHeaders \cup {"user-agent"}
AuthIneligible == GloballyProtected \ AuthorizationHeaders

SetHeader(name, by, sensitive) ==
    [op |-> "set", name |-> name, by |-> by, sensitive |-> sensitive]
RemoveHeader(name, by) == [op |-> "remove", name |-> name, by |-> by, sensitive |-> FALSE]

Names(operations) == {operations[i].name : i \in DOMAIN operations}

(***************************************************************************)
(* The policy.  reg is the registration of a runtime: the header names its *)
(* authentication owns and the names its provider owns.                    *)
(***************************************************************************)
HeaderRegistration(auth, provider) == [auth |-> auth, provider |-> provider]

Protected(reg, name) == name \in GloballyProtected \cup reg.auth \cup reg.provider

OrdinaryHeader(name) == name \in ExtensionHeaders \cup {"idempotency-key"}

\* Mutant: a name the provider registered is not reserved for it.
AllowsUnreserved(reg, source, name) ==
    CASE name \in AuthorizationHeaders -> source = "auth" /\ name \in reg.auth
      [] name \in ProtocolHeaders -> source = "protocol"
      [] name = "user-agent" -> source = "client_identity"
      [] name \in ForbiddenHeaders -> FALSE
      [] OTHER -> source # "transport"

Allows(reg, source, name) ==
    CASE name \in AuthorizationHeaders -> source = "auth" /\ name \in reg.auth
      [] name \in ProtocolHeaders -> source = "protocol"
      [] name = "user-agent" -> source = "client_identity"
      [] name \in ForbiddenHeaders -> FALSE
      [] name \in reg.auth \ GloballyProtected -> source = "auth"
      [] name \in reg.provider \ (reg.auth \cup GloballyProtected) -> source = "provider"
      [] OTHER -> \/ source = "protocol"
                  \/ source \in {"provider", "model", "dynamic", "request"} /\ OrdinaryHeader(name)
                  \/ source = "client_identity" /\ name \in ExtensionHeaders

ValidateOperation(reg, source, operation) ==
    FirstFailure(<<
        <<~Allows(reg, source, operation.name), "validation", "ProtectedHeader">>,
        <<source = "auth" /\ ~operation.sensitive, "validation", "ProtectedHeader">>,
        <<source # "auth" /\ operation.sensitive
            /\ ~(source = "provider" /\ operation.name \in reg.provider),
          "validation", "ProtectedHeader">> >>)

(***************************************************************************)
(* Resolution.  A layer is a source and its operations; the stable sort by *)
(* source takes, for every source in turn, its layers in the given order.  *)
(* The result is the final header map, the trace of the applied operations *)
(* and the answer of the first refused one.                                *)
(***************************************************************************)
Layer(source, operations) == [source |-> source, operations |-> operations]

Unresolved == [headers |-> <<>>, steps |-> <<>>, answer |-> Ok]

Without(headers, name) == [n \in DOMAIN headers \ {name} |-> headers[n]]

With(headers, name, value) ==
    [n \in DOMAIN headers \cup {name} |-> IF n = name THEN value ELSE headers[n]]

ApplyOperation(reg, source, resolved, operation) ==
    LET answer == ValidateOperation(reg, source, operation)
        set == operation.op = "set"
    IN  IF resolved.answer # Ok THEN resolved
        ELSE IF answer # Ok THEN [resolved EXCEPT !.answer = answer]
        ELSE [headers |-> IF set THEN With(resolved.headers, operation.name, operation.by)
                          ELSE Without(resolved.headers, operation.name),
              steps |-> Append(resolved.steps,
                               [name |-> operation.name, source |-> source, present |-> set,
                                protected |-> Protected(reg, operation.name),
                                sensitive |-> operation.sensitive]),
              answer |-> Ok]

ApplyLayer(reg, resolved, layer) ==
    FoldLeft(LAMBDA acc, operation : ApplyOperation(reg, layer.source, acc, operation),
             resolved, layer.operations)

SortedLayers(layers) ==
    FlattenSeq([i \in DOMAIN Sources |-> SelectSeq(layers, LAMBDA l : l.source = Sources[i])])

ResolveLayers(reg, layers) ==
    FoldLeft(LAMBDA acc, layer : ApplyLayer(reg, acc, layer), Unresolved, SortedLayers(layers))

\* The writer of a header that is in the final map.
FinalSource(resolved, name) ==
    LET present == {i \in DOMAIN resolved.steps :
                        resolved.steps[i].name = name /\ resolved.steps[i].present}
    IN  resolved.steps[CHOOSE i \in present : \A j \in present : j <= i].source

(***************************************************************************)
(* The dynamic header policy: an allowlist and budgets for what a callback *)
(* answers for one attempt.  The callback may panic, fail, outlive its     *)
(* timeout, or answer operations with some number of bytes.                *)
(***************************************************************************)
DynamicPolicyAdmitted(policy) ==
    /\ Cardinality(policy.allowed) \in 1 .. 32
    /\ policy.allowed \cap GloballyProtected = {}
    /\ policy.max_operations \in 1 .. 64 /\ policy.max_bytes \in 1 .. 64 * 1024

DynamicAnswer(result, operations, bytes) ==
    [result |-> result, operations |-> operations, bytes |-> bytes]

CheckDynamic(policy, answer) ==
    LET operations == answer.operations IN
    FirstFailure(<<
        <<answer.result = "timeout", "header_policy", "Timeout">>,
        <<answer.result \in {"panic", "error"}, "header_policy", "Callback">>,
        <<Len(operations) > policy.max_operations, "header_policy", "BudgetExceeded">>,
        <<\E i \in DOMAIN operations :
            \/ operations[i].name \notin policy.allowed
            \/ operations[i].sensitive
            \/ operations[i].name \in GloballyProtected, "header_policy", "InvalidOperation">>,
        <<answer.bytes > policy.max_bytes, "header_policy", "BudgetExceeded">> >>)

(***************************************************************************)
(* validate_final of the built-in authentication providers: a credential   *)
(* arrives whole, and no credential means no authorization header.         *)
(***************************************************************************)
ValidateFinal(kind, authHeaders, headers) ==
    FirstFailure(<<
        <<kind \in {"bearer", "api_key", "multi_header"} /\ ~(authHeaders \subseteq DOMAIN headers),
          "validation", "ProtectedHeader">>,
        <<kind = "none" /\ DOMAIN headers \cap AuthorizationHeaders # {},
          "validation", "ProtectedHeader">> >>)
=============================================================================
