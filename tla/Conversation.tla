---------------------------- MODULE Conversation ----------------------------
(***************************************************************************)
(* The domain values a request is made of: content parts, messages, image  *)
(* and tool-result constructors.                                           *)
(* A text is its length and whether trim() leaves anything of it; an image *)
(* is its source, its size and its detail; thinking is its visible length  *)
(* and where its opaque signature comes from.                              *)
(***************************************************************************)
EXTENDS Answers

CONSTANT ToolCallIds      \* every tool-call identifier a history may carry

NoId == "no-id"

ASSUME NoIdAssumption == NoId \notin ToolCallIds

Roles == {"developer", "system", "user", "assistant", "tool"}
PartKinds == {"text", "image", "thinking", "refusal", "tool_call"}
ImageSources == {"url", "inline", "data_url"}
ImageDetails == {"auto", "low", "high", "original"}

\* Where the opaque reasoning of a thinking part comes from, relative to the
\* call's own provider, model and protocol (SourceIdentity::matches_source);
\* redacted and binary are of the same source, a binary one is not UTF-8.
Origins == {"none", "same", "other", "redacted", "binary"}
Tags == {"solid", "blank"} \cup ImageSources \cup Origins

Part == [kind : PartKinds, id : ToolCallIds \cup {NoId}, bytes : Nat,
         tag : Tags, detail : ImageDetails]

MakePart(kind, id, bytes, tag, detail) ==
    [kind |-> kind, id |-> id, bytes |-> bytes, tag |-> tag, detail |-> detail]

Text(n, tag) == MakePart("text", NoId, n, tag, "auto")
Image(source, n, detail) == MakePart("image", NoId, n, source, detail)
Thinking(n, origin) == MakePart("thinking", NoId, n, origin, "auto")
Refusal(n) == MakePart("refusal", NoId, n, "solid", "auto")
ToolCall(id) == MakePart("tool_call", id, 0, "solid", "auto")

\* A message carries either content or, for the tool role, one result.  A
\* result is its call's id and the length of its single non-empty text;
\* NoResult is a tool message built without a payload, which only a debug
\* assertion forbids.
NoResult == [id |-> NoId, bytes |-> 0]
Result == [id : ToolCallIds \cup {NoId}, bytes : Nat]
Message == [role : Roles, content : Seq(Part), result : Result]

Plain(role, content) == [role |-> role, content |-> content, result |-> NoResult]

FromToolResult(id, bytes) ==
    [role |-> "tool", content |-> <<>>, result |-> [id |-> id, bytes |-> bytes]]

HasResult(m) == m.result.id # NoId

CallIds(m) == {m.content[k].id : k \in {j \in DOMAIN m.content :
                                            m.content[j].kind = "tool_call"}}
CallCount(m) == Cardinality({j \in DOMAIN m.content : m.content[j].kind = "tool_call"})

PartsOf(ms, kind) ==
    UNION {{<<i, k>> : k \in {j \in DOMAIN ms[i].content : ms[i].content[j].kind = kind}}
           : i \in DOMAIN ms}

(***************************************************************************)
(* The image constructors.  MIME, magic bytes and URL syntax are the two   *)
(* Booleans a caller's bytes decide; sizes are compared with the frozen    *)
(* official limits.                                                        *)
(***************************************************************************)
CONSTANTS OfficialImageUrlBytes, OfficialInlineImageBytes

ImageAdmitted(source, n, wellFormed, magicMatches) ==
    CASE source = "url" ->
            FirstFailure(<<
                <<~wellFormed, "validation", "InvalidIdentifier">>,
                <<n > OfficialImageUrlBytes, "validation", "OutOfRange">> >>)
      [] source = "inline" ->
            FirstFailure(<<
                <<n = 0, "validation", "Empty">>,
                <<n > OfficialInlineImageBytes, "validation", "OutOfRange">>,
                <<~magicMatches, "validation", "InvalidIdentifier">> >>)
      [] source = "data_url" ->
            FirstFailure(<<
                <<~wellFormed, "validation", "InvalidIdentifier">>,
                <<n = 0, "validation", "Empty">>,
                <<n > OfficialInlineImageBytes, "validation", "OutOfRange">>,
                <<~magicMatches, "validation", "InvalidIdentifier">> >>)
=============================================================================
