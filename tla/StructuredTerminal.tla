------------------------- MODULE StructuredTerminal -------------------------
(***************************************************************************)
(* The accumulator and validator both response machines share for          *)
(* structured answers: protocol/structured_terminal.rs and                 *)
(* validate_structured_response of domain/structured.rs.                   *)
(*                                                                         *)
(* A string is a sequence of fragments, each one unit long; what           *)
(* serde_json and the schema validator say of a complete string is given   *)
(* by constants.                                                           *)
(***************************************************************************)
EXTENDS Integers, Sequences

CONSTANTS
  JsonObjects,          \* strings that parse to a JSON object
  JsonOthers,           \* strings that parse to any other JSON value
  SchemaInstances,      \* strings whose value satisfies the requested schema
  MaxStructuredBytes    \* limits.max_structured_output_bytes

ASSUME JsonAssumption ==
  /\ JsonObjects \cap JsonOthers = {}
  /\ SchemaInstances \subseteq JsonObjects \cup JsonOthers
  /\ MaxStructuredBytes \in Nat

Json == JsonObjects \cup JsonOthers

NoError == "none"

FinishReasons == {"stop", "length", "tool_calls", "content_filter"}

NewTerminal(format) ==
  [format |-> format, buffer |-> <<>>, validated |-> FALSE, error |-> NoError]

(* The buffer exists only for structured formats, and only they are        *)
(* limited by it.                                                          *)
PushAnswerText(t, content) ==
  CASE t.format = "text" -> t
    [] Len(t.buffer) + Len(content) > MaxStructuredBytes ->
         [t EXCEPT !.error = "structured_too_large"]
    [] OTHER -> [t EXCEPT !.buffer = @ \o content]

(* Mutant: a truncated answer is judged like a complete one.               *)
ValidateTruncated(format, finish, text, hasTool, hasRefusal) ==
  IF format = "text" \/ hasTool \/ hasRefusal \/ text \in JsonObjects
  THEN NoError
  ELSE "structured_invalid_json"

(* The error of validate_structured_response, or NoError.                  *)
ValidateStructuredResponse(format, finish, text, hasTool, hasRefusal) ==
  CASE format = "text" -> NoError
    [] finish = "tool_calls" \/ hasTool -> NoError
    [] hasRefusal -> NoError
    [] finish = "length" -> "structured_truncated"
    [] finish # "stop" -> "protocol"
    [] text \notin Json -> "structured_invalid_json"
    [] format = "json_object" /\ text \notin JsonObjects -> "structured_schema_violation"
    [] format = "json_schema" /\ text \notin SchemaInstances -> "structured_schema_violation"
    [] OTHER -> NoError

ValidateBeforeDone(t, finish, hasTools, hasRefusal) ==
  LET error == IF t.validated
               THEN "protocol"
               ELSE ValidateStructuredResponse(t.format, finish, t.buffer, hasTools, hasRefusal)
  IN  [t EXCEPT !.error = error, !.validated = @ \/ error = NoError]
=============================================================================
