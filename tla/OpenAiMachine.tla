--------------------------- MODULE OpenAiMachine ----------------------------
(***************************************************************************)
(* ChatStateMachine (protocol/openai_chat/response/machine.rs) with its    *)
(* tool-call accumulator (tool_calls.rs) and chunk validation              *)
(* (terminal.rs): one streamed chat completion turned into events.         *)
(*                                                                         *)
(* A wire event is [data |-> "DONE"], [data |-> "malformed"] (bad JSON, an *)
(* inline error, a wrong object, several choices, a choice or tool index   *)
(* out of range, function_call, another role or tool type: all it does is  *)
(* fail the call), or a chunk [data, id, model, choice, usage] with at     *)
(* most one choice [content, refusal, tools, finish].                      *)
(***************************************************************************)
EXTENDS Integers, MachineSteps, UsageDetails

CONSTANTS
  MaxToolCalls,          \* limits.max_tool_calls
  MaxToolArguments,      \* limits.max_tool_arguments_bytes
  MaxAllToolArguments,   \* limits.max_all_tool_arguments_bytes
  MaxToolName,           \* ToolName::MAX_BYTES
  DeepJson               \* strings nested deeper than limits.max_schema_depth

ASSUME OpenAiAssumption ==
  /\ {MaxToolCalls, MaxToolArguments, MaxAllToolArguments, MaxToolName} \subseteq Nat
  /\ DeepJson \subseteq Json

NotStarted == [state |-> "not_started", index |-> 0]

NewMachine(format, compat) ==
  [started |-> FALSE, text |-> NotStarted, refusal |-> NotStarted,
   calls |-> <<>>, seen_ids |-> <<>>, order |-> <<>>, total_argument_bytes |-> 0,
   next_content_index |-> 0, finish_reason |-> <<>>, duplicate_finish_seen |-> FALSE,
   seen_done |-> FALSE, terminal |-> NewTerminal(format), usage_details |-> <<>>,
   generation_id |-> <<>>, response_model |-> <<>>, compat |-> compat,
   out |-> <<>>, error |-> NoError]

-----------------------------------------------------------------------------
(* Chunk validation: PreparedChunk::validate, before any state changes.    *)
ParseFinishReason(raw) ==
  CASE raw \in FinishReasons -> NoError
    [] raw = "function_call" -> "unsupported"
    [] OTHER -> "unknown_finish"

EmptyDelta(choice) ==
  choice.content = <<>> /\ choice.refusal = <<>> /\ choice.tools = <<>>

(* After a finish reason only one payload-free repeat of it passes, and    *)
(* only where the provider's policy allows it.                             *)
RepeatedFinishError(m, choice) ==
  CASE choice.finish = <<>>               -> "protocol"
    [] ~m.compat.duplicateFinish          -> "protocol"
    [] m.duplicate_finish_seen            -> "protocol"
    [] ParseFinishReason(choice.finish[1]) # NoError -> ParseFinishReason(choice.finish[1])
    [] choice.finish # m.finish_reason    -> "protocol"
    [] ~EmptyDelta(choice)                -> "protocol"
    [] OTHER                              -> NoError

ChoiceError(m, choice) ==
  CASE m.finish_reason # <<>> -> RepeatedFinishError(m, choice)
    [] m.finish_reason = <<>> /\ choice.finish # <<>> -> ParseFinishReason(choice.finish[1])
    [] OTHER -> NoError

(* The usage of a chunk as the machine reads it: <<>> or <<details>>.      *)
ChunkUsage(m, chunk) ==
  LET details == ParsedUsage(chunk.usage[1], m.compat.dropReasoning)
  IN  IF chunk.usage # <<>> /\ AnyKnown(details) THEN <<details>> ELSE <<>>

PrepareError(m, chunk) ==
  LET choiceError == IF chunk.choice = <<>> THEN NoError ELSE ChoiceError(m, chunk.choice[1])
  IN  CASE chunk.choice = <<>> /\ chunk.usage = <<>> -> "protocol"
        [] choiceError # NoError -> choiceError
        [] chunk.usage # <<>> /\ ~ValidRelationships(ParsedUsage(chunk.usage[1],
                                                                 m.compat.dropReasoning)) ->
             "protocol"
        [] chunk.choice # <<>> /\ Len(chunk.choice[1].tools) > MaxToolCalls -> "protocol"
        [] OTHER -> NoError

-----------------------------------------------------------------------------
ObserveIdentity(m, chunk) ==
  LET changes(known, seen) == seen # <<>> /\ known # <<>> /\ seen # known
  IN  IF changes(m.generation_id, chunk.id) \/ changes(m.response_model, chunk.model)
      THEN Fail(m, "protocol")
      ELSE [m EXCEPT !.generation_id = IF @ = <<>> THEN chunk.id ELSE @,
                     !.response_model = IF @ = <<>> THEN chunk.model ELSE @]

EmitStart(m) ==
  IF m.started THEN m
  ELSE Emit([m EXCEPT !.started = TRUE], <<StartEvent(m.generation_id)>>)

(* allocate_content_index and the opening of the text or refusal block.    *)
OpenBlock(m, kind) ==
  Emit([m EXCEPT ![kind] = [state |-> "open", index |-> m.next_content_index],
                 !.next_content_index = @ + 1],
       <<BlockStart(kind, m.next_content_index)>>)

OpenIfNew(m, kind) == IF m[kind].state = "not_started" THEN OpenBlock(m, kind) ELSE m

CloseIfOpen(m, kind) ==
  IF m[kind].state # "open" THEN m
  ELSE Emit([m EXCEPT ![kind].state = "closed"], <<BlockEnd(kind, m[kind].index)>>)

PushText(m, content) ==
  LET opened   == OpenIfNew(m, "text")
      terminal == PushAnswerText(m.terminal, content)
  IN  CASE m.refusal # NotStarted      -> Fail(m, "unsupported")
        [] m.text.state = "closed"     -> Fail(m, "protocol")
        [] terminal.error # NoError    -> Fail(m, terminal.error)
        [] OTHER -> Emit([opened EXCEPT !.terminal = terminal],
                         <<BlockDelta("text", opened.text.index, content)>>)

PushRefusal(m, content) ==
  LET opened == OpenIfNew(m, "refusal")
  IN  CASE m.text # NotStarted            -> Fail(m, "unsupported")
        [] m.order # <<>>                 -> Fail(m, "unsupported")
        [] m.refusal.state = "closed"     -> Fail(m, "protocol")
        [] OTHER -> Emit(opened, <<BlockDelta("refusal", opened.refusal.index, content)>>)

-----------------------------------------------------------------------------
(* Tool calls: ToolCallAccumulator.  A delta is [index, id, name, args,    *)
(* form]; form tells arguments sent as a JSON string from an object.       *)
(* Mutant: an id is never compared with the ids of other calls.            *)
RegisterIdUnchecked(m, wire, id) == [m EXCEPT !.seen_ids = (id :> wire) @@ @]

RegisterId(m, wire, id) ==
  IF id \in DOMAIN m.seen_ids
  THEN IF m.seen_ids[id] = wire THEN m ELSE Fail(m, "protocol")
  ELSE [m EXCEPT !.seen_ids = @ @@ (id :> wire)]

RegisterIfGiven(m, delta) ==
  IF delta.id = <<>> THEN m ELSE RegisterId(m, delta.index, delta.id[1])

(* observe_delta on a call already pending: its id may arrive late, but    *)
(* never change.                                                           *)
ContinueCall(m, delta) ==
  LET call == m.calls[delta.index]
  IN  CASE call.ended -> Fail(m, "protocol")
        [] call.id # <<>> /\ delta.id # <<>> /\ call.id # delta.id -> Fail(m, "protocol")
        [] OTHER ->
             Then(RegisterIfGiven(m, delta),
                  LAMBDA n : [n EXCEPT !.calls[delta.index].id =
                                IF @ = <<>> THEN delta.id ELSE @])

(* prepare, allocate_content_index and observe_delta on a new call.        *)
StartCall(m, delta) ==
  LET i == m.next_content_index
  IN  IF Len(m.order) >= MaxToolCalls
      THEN Fail(m, "protocol")
      ELSE Then(RegisterIfGiven([m EXCEPT !.next_content_index = @ + 1], delta),
                LAMBDA n :
                  Emit([n EXCEPT
                          !.order = Append(@, delta.index),
                          !.calls = @ @@ (delta.index :>
                            [index |-> i, id |-> delta.id, name |-> <<>>, args |-> <<>>,
                             ended |-> FALSE])],
                       <<ToolCallStart(i, delta.index, delta.id)>>))

(* append_fragments on the call at wire index: the per-call and the        *)
(* aggregate limits are both kept.                                         *)
Fragments(m, wire, total, delta) ==
  LET call  == m.calls[wire]
      event == IF delta.name = <<>> /\ delta.args = <<>>
               THEN <<>>
               ELSE <<ToolCallDelta(call.index, wire, delta.name, delta.args)>>
  IN  CASE delta.form = "object" /\ ~m.compat.objectArguments -> Fail(m, "protocol")
        [] Len(call.name) + Len(delta.name) > MaxToolName -> Fail(m, "protocol")
        [] Len(call.args) + Len(delta.args) > MaxToolArguments -> Fail(m, "protocol")
        [] m.total_argument_bytes + Len(delta.args) > MaxAllToolArguments -> Fail(m, "protocol")
        [] OTHER -> Emit([m EXCEPT !.calls[wire].name = @ \o delta.name,
                                   !.calls[wire].args = @ \o delta.args,
                                   !.total_argument_bytes = total],
                         event)

(* Mutant: a delta extends the call that started last.                     *)
AppendToLatest(m, delta) ==
  Fragments(m, m.order[Len(m.order)], m.total_argument_bytes + Len(delta.args), delta)

(* Mutant: the aggregate count is not carried over.                        *)
AppendUncounted(m, delta) == Fragments(m, delta.index, m.total_argument_bytes, delta)

AppendFragments(m, delta) ==
  Fragments(m, delta.index, m.total_argument_bytes + Len(delta.args), delta)

PushToolDelta(m, delta) ==
  CASE m.refusal # NotStarted    -> Fail(m, "unsupported")
    [] m.finish_reason # <<>>    -> Fail(m, "protocol")
    [] OTHER ->
         Then(IF delta.index \in DOMAIN m.calls
              THEN ContinueCall(m, delta)
              ELSE StartCall(m, delta),
              LAMBDA n : AppendFragments(n, delta))

(* finish_call: a call ends with an id, a name and complete arguments.     *)
FinishCall(m, wire) ==
  LET call == m.calls[wire]
  IN  IF call.ended \/ call.id = <<>> \/ call.name = <<>> \/ call.args \notin Json \ DeepJson
      THEN Fail(m, "protocol")
      ELSE Emit([m EXCEPT !.calls[wire].ended = TRUE],
                <<ToolCallEnd(call.index, ToolCall(call.id[1], call.name, call.args))>>)

FinishAll(m) ==
  FoldLeft(LAMBDA n, wire : Then(n, LAMBDA o : FinishCall(o, wire)), m, m.order)

-----------------------------------------------------------------------------
ApplyDelta(m, choice) ==
  LET texted  == IF choice.content = <<>> THEN m ELSE PushText(m, choice.content)
      refused == IF choice.refusal = <<>> THEN texted
                 ELSE Then(texted, LAMBDA n : PushRefusal(n, choice.refusal))
  IN  FoldLeft(LAMBDA n, delta : Then(n, LAMBDA o : PushToolDelta(o, delta)),
               refused, choice.tools)

(* A text-only finish of a stream without content opens and closes an      *)
(* empty text block.                                                       *)
FinishText(m) ==
  CASE m.refusal.state = "open" -> CloseIfOpen(m, "refusal")
    [] m.refusal.state # "open" /\ m.text.state = "open" -> CloseIfOpen(m, "text")
    [] m.text = NotStarted /\ m.refusal = NotStarted -> CloseIfOpen(OpenBlock(m, "text"), "text")
    [] OTHER -> m

ApplyFinish(m, reason) ==
  LET closed == CASE m.finish_reason # <<>> -> Fail(m, "protocol")
                  [] reason = "tool_calls" ->
                       IF m.refusal # NotStarted THEN Fail(m, "unsupported")
                       ELSE IF m.order = <<>> THEN Fail(m, "protocol")
                       ELSE FinishAll(CloseIfOpen(m, "text"))
                  [] reason \in {"stop", "length"} ->
                       IF m.order # <<>> THEN Fail(m, "protocol") ELSE FinishText(m)
                  [] OTHER -> Fail(IF m.order = <<>> THEN [m EXCEPT !.finish_reason = <<reason>>]
                                   ELSE m, "protocol")
  IN  Then(closed, LAMBDA n : [n EXCEPT !.finish_reason = <<reason>>])

ApplyChoice(m, choice) ==
  LET applied == IF m.finish_reason # <<>> THEN m ELSE ApplyDelta(m, choice)
  IN  CASE m.finish_reason # <<>> -> [m EXCEPT !.duplicate_finish_seen = TRUE]
        [] choice.finish = <<>>   -> applied
        [] OTHER -> Then(applied, LAMBDA n : ApplyFinish(n, choice.finish[1]))

(* Mutant: incomplete usage is kept but never reported.                    *)
UsageEventsCoreOnly(merge) ==
  IF merge.outcome = "p1"
  THEN <<UsageEvent(merge.merged), DetailedUsage(merge.merged)>>
  ELSE <<>>

(* merge_usage_details and the events its outcome calls for.               *)
UsageEvents(merge) ==
  CASE merge.outcome = "unchanged" -> <<>>
    [] merge.outcome = "p1" -> <<UsageEvent(merge.merged), DetailedUsage(merge.merged)>>
    [] merge.outcome = "detailed" -> <<DetailedUsage(merge.merged)>>

ApplyUsage(m, usage) ==
  LET merge == MergeUsageDetails(m.usage_details, usage[1])
  IN  CASE usage = <<>>  -> m
        [] usage # <<>> /\ merge.failed -> Fail(m, "protocol")
        [] OTHER -> Emit([m EXCEPT !.usage_details = <<merge.merged>>], UsageEvents(merge))

AcceptChunk(m, chunk) ==
  LET checked == IF PrepareError(m, chunk) = NoError THEN m ELSE Fail(m, PrepareError(m, chunk))
      started == Then(Then(checked, LAMBDA n : ObserveIdentity(n, chunk)), EmitStart)
      applied == IF chunk.choice = <<>> THEN started
                 ELSE Then(started, LAMBDA n : ApplyChoice(n, chunk.choice[1]))
  IN  Then(applied, LAMBDA n : ApplyUsage(n, ChunkUsage(m, chunk)))

HasOpenBlocks(m) ==
  \/ m.text.state = "open"
  \/ m.refusal.state = "open"
  \/ \E wire \in DOMAIN m.calls : ~m.calls[wire].ended

(* The [DONE] marker: the only place the structured answer is validated.   *)
AcceptMarker(m) ==
  LET terminal == ValidateBeforeDone(m.terminal, m.finish_reason[1],
                                     m.order # <<>>, m.refusal # NotStarted)
  IN  CASE m.finish_reason = <<>>   -> Fail(m, "protocol")
        [] HasOpenBlocks(m)         -> Fail(m, "protocol")
        [] terminal.error # NoError -> Fail(m, terminal.error)
        [] OTHER -> [m EXCEPT !.terminal = terminal, !.seen_done = TRUE]

OpenAiAccept(machine, event) ==
  LET m == [machine EXCEPT !.out = <<>>]
  IN  CASE m.seen_done -> Fail(m, "protocol")
        [] ~m.seen_done /\ event.data = "DONE" -> AcceptMarker(m)
        [] ~m.seen_done /\ event.data = "malformed" -> Fail(m, "json")
        [] OTHER -> AcceptChunk(m, event)

OpenAiFinish(machine) ==
  LET m == [machine EXCEPT !.out = <<>>]
  IN  CASE ~m.seen_done -> Fail(m, "truncated")
        [] ~m.terminal.validated \/ HasOpenBlocks(m) \/ m.finish_reason = <<>> ->
             Fail(m, "protocol")
        [] OTHER -> Emit(m, <<Done(m.finish_reason[1])>>)
=============================================================================
