------------------------------ MODULE History ------------------------------
(***************************************************************************)
(* History normalisation (domain/history/normalize.rs): one pass over the  *)
(* caller's messages that filters content for the target, rewrites tool    *)
(* call identifiers and pairs every tool call with exactly one result.  An *)
(* action is one iteration of one of the pass's loops, so that what a turn *)
(* has accumulated so far is the state.                                    *)
(*                                                                         *)
(* Identifiers are abstract: Filtered is what sanitising keeps of an id,   *)
(* Fits the ids whose length the wire accepts (1..=40) and Hashed the      *)
(* prefix-and-hash candidate used when the filtered id cannot be taken.    *)
(***************************************************************************)
EXTENDS Conversation, Capabilities

LOCAL INSTANCE SequencesExt

CONSTANTS
    Targets,        \* target name -> resolved policy of a call (a record)
    Inputs,         \* the message sequences a caller submits
    Filtered, Fits, Hashed,
    MaxPasses       \* bound: how often the output is submitted again

ASSUME IdAssumption ==
    /\ Filtered \in [ToolCallIds -> ToolCallIds \cup {NoId}]
    /\ Hashed \in [ToolCallIds -> ToolCallIds]
    /\ Fits \subseteq ToolCallIds
    \* filtering twice changes nothing, and a hashed candidate is well formed
    /\ \A i \in ToolCallIds : Filtered[i] # NoId => Filtered[Filtered[i]] = Filtered[i]
    /\ \A i \in ToolCallIds : Hashed[i] \in Fits /\ Filtered[Hashed[i]] = Hashed[i]

ASSUME InputAssumption == \A input \in Inputs : input \in Seq(Message)

VARIABLES
    messages,   \* the messages being normalised
    target,     \* the name of the call's target
    index,      \* the message the outer loop looks at
    part,       \* the content part an inner loop looks at
    turn,       \* what the current message has accumulated
    output,     \* the normalised messages pushed so far
    text,       \* total_text_bytes
    counts,     \* the diagnostic counter
    phase,      \* where the pass is
    error,      \* the failure it ended with
    pass        \* how many times a normalised history has been submitted

hvars == <<messages, target, index, part, turn, output, text, counts, phase, error, pass>>

policy == Targets[target]
DiagnosticCodes == {"DroppedThinkingOpaque", "SanitizedToolCallId",
                    "RemovedEmptyAssistant", "DroppedUnsupportedImage"}
NoCounts == [c \in DiagnosticCodes |-> 0]

\* parts: the content kept so far; occupied: the ids taken in this turn; norm:
\* the turn's id mappings (the identity where there is none); pending: the
\* expected ids without a result; results: the remapped results.
FreshTurn == [parts |-> <<>>, occupied |-> {}, norm |-> [i \in ToolCallIds |-> i],
              pending |-> {}, results |-> <<>>]

HistoryInit ==
    /\ messages \in Inputs
    /\ target \in DOMAIN Targets
    /\ index = 1 /\ part = 1
    /\ turn = FreshTurn
    /\ output = <<>>
    /\ text = 0
    /\ counts = NoCounts
    /\ phase = "enter"
    /\ error = Ok
    /\ pass = 1

Fail(reason) ==
    /\ phase' = "failed"
    /\ error' = <<"history", reason>>
    /\ UNCHANGED <<messages, target, index, part, turn, output, text, counts, pass>>

Count(code) == [counts EXCEPT ![code] = @ + 1]

\* Mutant: the limit is compared before the text is added.
TooLargeLate(added) == text > policy.limits.max_text

TooLarge(added) == text + added > policy.limits.max_text

(***************************************************************************)
(* What normalize_content_part does with a part: its failure, or whether   *)
(* the part is kept, the text it adds and the diagnostic it leaves.        *)
(***************************************************************************)
Verdict(failure, keep, adds, code) ==
    [failure |-> failure, keep |-> keep, adds |-> adds, code |-> code]
Rejected(reason) == Verdict(reason, FALSE, 0, "none")
Kept(adds) ==
    IF TooLarge(adds) THEN Rejected("TextTooLarge") ELSE Verdict("none", TRUE, adds, "none")
Dropped(code) == Verdict("none", FALSE, 0, code)

NormalizeImage ==
    IF Declared(policy.caps, "vision_input") THEN Kept(0)
    ELSE IF policy.history.unsupported_content = "reject" THEN Rejected("UnsupportedContent")
    ELSE Dropped("DroppedUnsupportedImage")

NormalizeThinking(p) ==
    IF policy.history.thinking_replay = "same_source_only" THEN Kept(p.bytes)
    ELSE Dropped(IF p.tag = "none" THEN "none" ELSE "DroppedThinkingOpaque")

NormalizeContentPart(p, allowRefusal) ==
    CASE p.kind = "text" -> Kept(p.bytes)
      [] p.kind = "image" -> NormalizeImage
      [] p.kind = "thinking" -> NormalizeThinking(p)
      [] p.kind = "refusal" ->
            IF allowRefusal THEN Kept(p.bytes) ELSE Rejected("UnsupportedContent")
      [] p.kind = "tool_call" -> Rejected("InvalidMessageOrder")

(***************************************************************************)
(* The outer loop.                                                         *)
(***************************************************************************)
Enter ==
    /\ phase = "enter"
    /\ IF Len(messages) > policy.limits.max_messages
       THEN Fail("TooManyMessages")
       ELSE /\ phase' = "next"
            /\ UNCHANGED <<messages, target, index, part, turn, output, text, counts, error, pass>>

AtMessage(roles) ==
    /\ phase = "next"
    /\ index <= Len(messages)
    /\ messages[index].role \in roles

ResultBeforeCall == AtMessage({"tool"}) /\ Fail("ResultBeforeCall")

DeveloperUnsupported ==
    /\ AtMessage({"developer"})
    /\ ~Declared(policy.caps, "developer_role")
    /\ Fail("UnsupportedContent")

Begin(loop) ==
    /\ phase' = loop
    /\ part' = 1
    /\ turn' = FreshTurn
    /\ UNCHANGED <<messages, target, index, output, text, counts, error, pass>>

BeginPlain ==
    /\ AtMessage({"developer", "system", "user"})
    /\ messages[index].role = "developer" => Declared(policy.caps, "developer_role")
    /\ Begin("plain")

\* collect_assistant_tool_calls runs before anything else, even for a turn
\* that is dropped because it has no content.
BeginAssistant ==
    /\ AtMessage({"assistant"})
    /\ IF Cardinality(CallIds(messages[index])) # CallCount(messages[index])
       THEN Fail("DuplicateToolCall")
       ELSE IF messages[index].content = <<>>
       THEN /\ counts' = Count("RemovedEmptyAssistant")
            /\ index' = index + 1
            /\ UNCHANGED <<messages, target, part, turn, output, text, phase, error, pass>>
       ELSE Begin("assistant")

Finish ==
    /\ phase = "next"
    /\ index > Len(messages)
    /\ IF Len(output) > policy.limits.max_messages
       THEN Fail("TooManyMessages")
       ELSE /\ phase' = "done"
            /\ UNCHANGED <<messages, target, index, part, turn, output, text, counts, error, pass>>

(***************************************************************************)
(* The loops over the content of one message.                              *)
(***************************************************************************)
current == messages[index].content

TakePart(v) ==
    IF v.failure # "none" THEN Fail(v.failure)
    ELSE /\ turn' = IF v.keep THEN [turn EXCEPT !.parts = Append(@, current[part])] ELSE turn
         /\ text' = text + v.adds
         /\ counts' = IF v.code = "none" THEN counts ELSE Count(v.code)
         /\ part' = part + 1
         /\ UNCHANGED <<messages, target, index, output, phase, error, pass>>

PlainPart ==
    /\ phase = "plain"
    /\ part <= Len(current)
    /\ TakePart(NormalizeContentPart(current[part], FALSE))

\* A message whose every part was dropped disappears without a diagnostic.
EndPlain ==
    /\ phase = "plain"
    /\ part > Len(current)
    /\ output' = IF turn.parts = <<>> THEN output
                 ELSE Append(output, Plain(messages[index].role, turn.parts))
    /\ index' = index + 1
    /\ phase' = "next"
    /\ UNCHANGED <<messages, target, part, turn, text, counts, error, pass>>

SeenToolCall == \E k \in DOMAIN turn.parts : turn.parts[k].kind = "tool_call"

AssistantPart ==
    /\ phase = "assistant"
    /\ part <= Len(current)
    /\ current[part].kind # "tool_call"
    /\ IF SeenToolCall THEN Fail("InvalidMessageOrder")
       ELSE TakePart(NormalizeContentPart(current[part], TRUE))

\* Mutant: every id is hashed, also one that is already well formed.
SanitizedIdAlways(id, occupied) == IF Hashed[id] \in occupied THEN NoId ELSE Hashed[id]

\* The id a call is sent under: the filtered id when it fits and is free, else
\* the hashed candidate; NoId is a collision of the candidate.
SanitizedId(id, occupied) ==
    IF Filtered[id] \in Fits /\ Filtered[id] \notin occupied THEN Filtered[id]
    ELSE IF Hashed[id] \in occupied THEN NoId
    ELSE Hashed[id]

NormalizedId(id, occupied) ==
    IF policy.history.tool_call_id = "openai" THEN SanitizedId(id, occupied)
    ELSE IF id \in occupied THEN NoId
    ELSE id

NormalizeToolCall ==
    /\ phase = "assistant"
    /\ part <= Len(current)
    /\ current[part].kind = "tool_call"
    /\ LET original == current[part].id
           id == NormalizedId(original, turn.occupied)
       IN  IF id = NoId
           THEN Fail(IF policy.history.tool_call_id = "openai"
                     THEN "ToolCallIdCollision" ELSE "DuplicateToolCall")
           ELSE /\ turn' = [turn EXCEPT !.parts = Append(@, [current[part] EXCEPT !.id = id]),
                                        !.occupied = @ \cup {id},
                                        !.norm[original] = id]
                /\ counts' = IF id = original THEN counts ELSE Count("SanitizedToolCallId")
                /\ part' = part + 1
                /\ UNCHANGED <<messages, target, index, output, text, phase, error, pass>>

Expected == {turn.norm[id] : id \in CallIds(messages[index])}

EndAssistant ==
    /\ phase = "assistant"
    /\ part > Len(current)
    /\ IF CallIds(messages[index]) = {}
       THEN /\ IF turn.parts = <<>>
               THEN counts' = Count("RemovedEmptyAssistant") /\ UNCHANGED output
               ELSE output' = Append(output, Plain("assistant", turn.parts)) /\ UNCHANGED counts
            /\ index' = index + 1
            /\ phase' = "next"
            /\ UNCHANGED <<messages, target, part, turn, text, error, pass>>
       ELSE IF turn.parts = <<>> THEN Fail("InvalidMessageOrder")
       ELSE IF Cardinality(Expected) # CallCount(messages[index]) THEN Fail("DuplicateToolCall")
       ELSE /\ output' = Append(output, Plain("assistant", turn.parts))
            /\ turn' = [turn EXCEPT !.pending = Expected]
            /\ part' = index
            /\ index' = index + 1
            /\ phase' = "results"
            /\ UNCHANGED <<messages, target, text, counts, error, pass>>

(***************************************************************************)
(* The loop over the tool messages that follow an assistant turn; part is  *)
(* now assistant_index.                                                    *)
(***************************************************************************)
calls == CallIds(messages[part])

\* Mutant: ids that are sent are looked up before ids that were submitted.
ResolveSentFirst(id) ==
    IF \E o \in calls : turn.norm[o] = id THEN id
    ELSE IF id \in calls THEN turn.norm[id]
    ELSE NoId

\* resolve_mapped_id: the mapping of this original id, else an id some call of
\* the turn is sent under or was submitted under.
ResolveMappedId(id) ==
    IF id \in calls /\ turn.norm[id] # id THEN turn.norm[id]
    ELSE IF (\E o \in calls : turn.norm[o] # o /\ turn.norm[o] = id) \/ id \in calls THEN id
    ELSE NoId

AtResult == phase = "results" /\ index <= Len(messages) /\ messages[index].role = "tool"

MissingPayload ==
    /\ AtResult
    /\ ~HasResult(messages[index])
    /\ Fail("InvalidMessageOrder")

TakeResult ==
    /\ AtResult
    /\ HasResult(messages[index])
    /\ LET result == messages[index].result
           id == ResolveMappedId(result.id)
       IN  IF id = NoId THEN Fail("UnknownToolCall")
           ELSE IF id \notin turn.pending
           THEN Fail(IF id \in {turn.norm[c] : c \in calls} THEN "DuplicateToolResult"
                     ELSE "UnknownToolCall")
           ELSE IF TooLarge(result.bytes) THEN Fail("TextTooLarge")
           ELSE /\ turn' = [turn EXCEPT !.pending = @ \ {id},
                                !.results = Append(@, FromToolResult(id, result.bytes))]
                /\ text' = text + result.bytes
                /\ index' = index + 1
                /\ UNCHANGED <<messages, target, part, output, counts, phase, error, pass>>

EndResults ==
    /\ phase = "results"
    /\ index <= Len(messages) => messages[index].role # "tool"
    /\ IF turn.pending # {} THEN Fail("MissingToolResult")
       ELSE /\ output' = output \o turn.results
            /\ phase' = "next"
            /\ UNCHANGED <<messages, target, index, part, turn, text, counts, error, pass>>

\* The caller submits what a pass returned as the history of a later request
\* to the same target.
Resubmit ==
    /\ phase = "done"
    /\ pass < MaxPasses
    /\ pass' = pass + 1
    /\ messages' = output
    /\ index' = 1 /\ part' = 1
    /\ turn' = FreshTurn
    /\ output' = <<>>
    /\ text' = 0
    /\ counts' = NoCounts
    /\ phase' = "enter"
    /\ UNCHANGED <<target, error>>

Pass ==
    \/ Enter \/ ResultBeforeCall \/ DeveloperUnsupported \/ BeginPlain \/ BeginAssistant
    \/ PlainPart \/ EndPlain \/ AssistantPart \/ NormalizeToolCall \/ EndAssistant
    \/ MissingPayload \/ TakeResult \/ EndResults \/ Finish

HistoryNext == Pass \/ Resubmit

HistorySpec == HistoryInit /\ [][HistoryNext]_hvars

(***************************************************************************)
(* Properties.                                                             *)
(***************************************************************************)
\* The tool messages that directly follow position j.
ResultsAfter(out, j) ==
    {k \in DOMAIN out : k > j /\ \A m \in (j + 1) .. k : out[m].role = "tool"}

PairedAt(out, j) ==
    /\ Cardinality(CallIds(out[j])) = CallCount(out[j])
    /\ {out[k].result.id : k \in ResultsAfter(out, j)} = CallIds(out[j])
    /\ \A k1, k2 \in ResultsAfter(out, j) : out[k1].result.id = out[k2].result.id => k1 = k2

Paired(out) ==
    /\ out # <<>> => out[1].role # "tool"
    /\ \A j \in DOMAIN out : out[j].role # "tool" => PairedAt(out, j)

\* The calls of a turn are sent under different ids, each is answered by exactly
\* one result in the tool messages right after the turn, and no result is
\* anywhere else (the pending map and the order check of normalize.rs).  A
\* result that quotes an original id answers the call that was submitted under
\* that id, even where another call of the turn is sent under it.
ToolCallsArePaired ==
    /\ phase = "done" => Paired(output)
    /\ phase = "results" =>
          \A c \in calls : /\ ResolveMappedId(c) = turn.norm[c]
                           /\ \A d \in calls : turn.norm[c] = turn.norm[d] => c = d

\* Normalising a normalised history again changes nothing and cannot fail: a
\* conversation that was accepted once stays acceptable for its target.
ResubmissionIsIdentity ==
    pass > 1 => /\ phase # "failed"
                /\ phase = "done" => output = messages /\ counts["SanitizedToolCallId"] = 0

\* The bytes of the texts and results of a history.
TextOf(ms) ==
    LET Bytes(p) == IF p.kind = "image" THEN 0 ELSE p.bytes
    IN  FoldLeft(LAMBDA sum, m : FoldLeft(LAMBDA n, p : n + Bytes(p), sum + m.result.bytes, m.content),
                 0, ms)

\* The text counted for the resolved limit is the text that is sent, and it is
\* within the limit (add_text_bytes).
TextIsBounded ==
    /\ text <= policy.limits.max_text
    /\ phase = "done" => text = TextOf(output)
=============================================================================
