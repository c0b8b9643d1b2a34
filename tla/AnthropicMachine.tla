-------------------------- MODULE AnthropicMachine --------------------------
(***************************************************************************)
(* MessagesStateMachine (protocol/anthropic_messages/response/machine.rs): *)
(* one streamed Messages response turned into events.                      *)
(*                                                                         *)
(* A wire event is a record with its event name in type; "malformed"       *)
(* stands for everything that only fails the call before a handler runs    *)
(* (no event name, an oversized one, bad JSON, a JSON type that differs    *)
(* from the event name), "other" for an event name the machine ignores.    *)
(***************************************************************************)
EXTENDS Integers, MachineSteps, UsageDetails

CONSTANTS
  MaxToolCalls,          \* limits.max_tool_calls
  MaxToolArguments,      \* limits.max_tool_arguments_bytes
  MaxAllToolArguments,   \* limits.max_all_tool_arguments_bytes
  MaxContentBlocks,      \* MAX_CONTENT_BLOCKS
  MaxStreamEvents,       \* MAX_STREAM_EVENTS
  MaxOpaqueThinking,     \* MAX_OPAQUE_THINKING_BYTES
  EmptyObject            \* the string "{}"

ASSUME AnthropicAssumption ==
  /\ {MaxToolCalls, MaxToolArguments, MaxAllToolArguments, MaxContentBlocks,
      MaxStreamEvents, MaxOpaqueThinking} \subseteq Nat
  /\ EmptyObject \in JsonObjects

NewMachine(format, allowGrowth) ==
  [phase |-> "await_message_start", blocks |-> <<>>, blocks_started |-> 0, events_seen |-> 0,
   next_content_index |-> 0, tool_calls |-> 0, all_tool_argument_bytes |-> 0,
   terminal |-> NewTerminal(format), answer_text_bytes |-> 0, thinking_text_bytes |-> 0,
   opaque_thinking_bytes |-> 0, usage_snapshot |-> EmptySnapshot, allowGrowth |-> allowGrowth,
   finish_reason |-> <<>>, generation_id |-> <<>>, out |-> <<>>, error |-> NoError]

MessageStart(m, w) ==
  IF m.phase # "await_message_start"
  THEN Fail(m, "protocol")
  ELSE Emit([m EXCEPT !.generation_id = <<w.id>>, !.usage_snapshot = w.usage,
                      !.phase = "streaming"],
            <<StartEvent(<<w.id>>)>>)

-----------------------------------------------------------------------------
PushText(m, i, text) ==
  LET bytes    == m.answer_text_bytes + Len(text)
      answer   == PushAnswerText(m.terminal, text)
  IN  CASE bytes > MaxStructuredBytes -> Fail(m, "protocol")
        [] answer.error # NoError     -> Fail(m, answer.error)
        [] OTHER -> Emit([m EXCEPT !.answer_text_bytes = bytes, !.terminal = answer],
                         IF text = <<>> THEN <<>> ELSE <<BlockDelta("text", i, text)>>)

PushThinking(m, i, thinking) ==
  LET bytes == m.thinking_text_bytes + Len(thinking)
  IN  IF bytes > MaxStructuredBytes
      THEN Fail(m, "protocol")
      ELSE Emit([m EXCEPT !.thinking_text_bytes = bytes],
                IF thinking = <<>> THEN <<>> ELSE <<BlockDelta("thinking", i, thinking)>>)

(* reserve_opaque_thinking, for redacted data and for signature deltas.    *)
ReserveOpaque(m, bytes) ==
  IF m.opaque_thinking_bytes + bytes > MaxOpaqueThinking
  THEN Fail(m, "protocol")
  ELSE [m EXCEPT !.opaque_thinking_bytes = @ + bytes]

(* The tool arguments of one call and of all calls grow by args, within    *)
(* both limits.                                                            *)
ReserveArguments(m, have, args) ==
  IF \/ Len(have) + Len(args) > MaxToolArguments
     \/ m.all_tool_argument_bytes + Len(args) > MaxAllToolArguments
  THEN Fail(m, "protocol")
  ELSE [m EXCEPT !.all_tool_argument_bytes = @ + Len(args)]

Block(kind, i, id, name, body) ==
  [kind |-> kind, index |-> i, id |-> id, name |-> name, body |-> body]

StartText(m, b) ==
  PushText(Emit(m, <<BlockStart("text", m.next_content_index)>>), m.next_content_index, b.text)

StartThinking(m, b) ==
  PushThinking(Emit(m, <<BlockStart("thinking", m.next_content_index)>>),
               m.next_content_index, b.text)

StartRedacted(m, b) ==
  Then(ReserveOpaque(m, Len(b.text)),
       LAMBDA n : Emit(n, <<BlockStart("thinking", m.next_content_index)>>))

(* Mutant: arguments given with the start are kept but not emitted.        *)
StartToolSilent(m, wire, b) ==
  Then(ReserveArguments([m EXCEPT !.tool_calls = @ + 1], <<>>, b.text),
       LAMBDA n : Emit(n, <<ToolCallStart(m.next_content_index, wire, <<b.id>>),
                            ToolCallDelta(m.next_content_index, wire, b.name, <<>>)>>))

(* An empty input object starts the arguments empty; another one is their  *)
(* first fragment.                                                         *)
StartTool(m, wire, b) ==
  LET i == m.next_content_index
  IN  IF m.tool_calls >= MaxToolCalls
      THEN Fail(m, "protocol")
      ELSE Then(ReserveArguments([m EXCEPT !.tool_calls = @ + 1], <<>>, b.text),
                LAMBDA n : Emit(n, <<ToolCallStart(i, wire, <<b.id>>),
                                     ToolCallDelta(i, wire, b.name, <<>>)>>
                                   \o IF b.text = <<>> THEN <<>>
                                      ELSE <<ToolCallDelta(i, wire, <<>>, b.text)>>))

(* Mutant: redacted data is counted but not kept.                          *)
KeptBlockEmpty(m, b) ==
  IF b.kind = "tool"
  THEN Block("tool", m.next_content_index, b.id, b.name, b.text)
  ELSE Block(b.kind, m.next_content_index, <<>>, <<>>, <<>>)

(* The block of a start event, as the machine keeps it.                    *)
KeptBlock(m, b) ==
  CASE b.kind = "tool"     -> Block("tool", m.next_content_index, b.id, b.name, b.text)
    [] b.kind = "redacted" -> Block("redacted", m.next_content_index, <<>>, <<>>, b.text)
    [] OTHER               -> Block(b.kind, m.next_content_index, <<>>, <<>>, <<>>)

BlockStarted(m, w) ==
  LET b       == w.block
      emitted == CASE b.kind = "text"     -> StartText(m, b)
                   [] b.kind = "tool"     -> StartTool(m, w.index, b)
                   [] b.kind = "thinking" -> StartThinking(m, b)
                   [] b.kind = "redacted" -> StartRedacted(m, b)
                   [] b.kind = "unsupported" -> m
  IN  CASE m.phase # "streaming"                -> Fail(m, "protocol")
        [] m.blocks_started >= MaxContentBlocks -> Fail(m, "protocol")
        [] w.index \in DOMAIN m.blocks          -> Fail(m, "protocol")
        [] OTHER ->
             Then(emitted,
                  LAMBDA n : [n EXCEPT !.blocks = @ @@ (w.index :> KeptBlock(m, b)),
                                       !.blocks_started = @ + 1,
                                       !.next_content_index =
                                         IF b.kind = "unsupported" THEN @ ELSE @ + 1])

-----------------------------------------------------------------------------
(* A delta must fit the kind of its open block; an unsupported block       *)
(* swallows any.                                                           *)
BlockDeltaArrived(m, w) ==
  LET block == m.blocks[w.index]
  IN  CASE m.phase # "streaming" -> Fail(m, "protocol")
        [] w.index \notin DOMAIN m.blocks -> Fail(m, "protocol")
        [] OTHER ->
             CASE block.kind = "unsupported" -> m
               [] block.kind = "text" /\ w.kind = "text" -> PushText(m, block.index, w.text)
               [] block.kind = "thinking" /\ w.kind = "thinking" ->
                    PushThinking(m, block.index, w.text)
               [] block.kind = "thinking" /\ w.kind = "signature" ->
                    Then(ReserveOpaque(m, Len(w.text)),
                         LAMBDA n : [n EXCEPT !.blocks[w.index].body = @ \o w.text])
               [] block.kind = "tool" /\ w.kind = "json" ->
                    Then(ReserveArguments(m, block.body, w.text),
                         LAMBDA n : Emit([n EXCEPT !.blocks[w.index].body = @ \o w.text],
                                         <<ToolCallDelta(block.index, w.index, <<>>, w.text)>>))
               [] OTHER -> Fail(m, "protocol")

Opaque(data, redacted) == <<[data |-> data, redacted |-> redacted]>>

(* A tool call without arguments ends with an empty object.                *)
ToolInput(body) == IF body = <<>> THEN EmptyObject ELSE body

BlockStopped(m, w) ==
  LET block  == m.blocks[w.index]
      closed == [m EXCEPT !.blocks = Restrict(@, DOMAIN @ \ {w.index})]
      i      == block.index
  IN  CASE m.phase # "streaming" -> Fail(m, "protocol")
        [] w.index \notin DOMAIN m.blocks -> Fail(m, "protocol")
        [] OTHER ->
             CASE block.kind = "unsupported" -> closed
               [] block.kind = "text" -> Emit(closed, <<BlockEnd("text", i)>>)
               [] block.kind = "redacted" ->
                    Emit(closed, <<ThinkingOpaque(i, Opaque(block.body, TRUE)),
                                   BlockEnd("thinking", i)>>)
               [] block.kind = "thinking" ->
                    Emit(closed, (IF block.body = <<>> THEN <<>>
                                  ELSE <<ThinkingOpaque(i, Opaque(block.body, FALSE))>>)
                                 \o <<BlockEnd("thinking", i)>>)
               [] block.kind = "tool" /\ ToolInput(block.body) \in JsonObjects ->
                    Emit(closed, <<ToolCallEnd(i, ToolCall(block.id, block.name,
                                                           ToolInput(block.body)))>>)
               [] OTHER -> Fail(m, "protocol")

-----------------------------------------------------------------------------
StopReason(raw) ==
  CASE raw \in {"end_turn", "stop_sequence"} -> "stop"
    [] raw = "max_tokens" -> "length"
    [] raw = "tool_use"   -> "tool_calls"

(* Usage accumulates over message_delta events; the one that brings a stop *)
(* reason reports it and closes the message to further content.            *)
CountAndClose(m, w) ==
  LET merged   == MergeSnapshot(m.usage_snapshot, w.usage)
      counted  == [m EXCEPT !.usage_snapshot = merged]
      details  == SnapshotDetails(merged)
  IN  CASE SnapshotConflicts(m.usage_snapshot, w.usage, m.allowGrowth) -> Fail(m, "protocol")
        [] w.stop = <<>> -> counted
        [] w.stop = <<"pause_turn">> -> Fail(m, "unsupported")
        [] w.stop \in {<<"refusal">>, <<"unknown">>} -> Fail(m, "unknown_finish")
        [] w.stop = <<"tool_use">> /\ m.tool_calls = 0 -> Fail(m, "protocol")
        [] SnapshotOverflows(merged) \/ ~ValidRelationships(details) -> Fail(m, "protocol")
        [] OTHER -> Emit([counted EXCEPT !.finish_reason = <<StopReason(w.stop[1])>>,
                                         !.phase = "await_message_stop"],
                         IF AnyKnown(details) THEN <<DetailedUsage(details)>> ELSE <<>>)

(* Mutant: the message may close over an open block.                       *)
MessageDeltaEarly(m, w) ==
  IF m.phase # "streaming" THEN Fail(m, "protocol") ELSE CountAndClose(m, w)

MessageDelta(m, w) ==
  IF m.phase # "streaming" \/ m.blocks # <<>>
  THEN Fail(m, "protocol")
  ELSE CountAndClose(m, w)

MessageStop(m) ==
  LET validated == ValidateBeforeDone(m.terminal, m.finish_reason[1], m.tool_calls > 0, FALSE)
  IN  CASE m.phase # "await_message_stop" -> Fail(m, "protocol")
        [] validated.error # NoError -> Fail(m, validated.error)
        [] OTHER -> [m EXCEPT !.terminal = validated, !.phase = "terminal"]

Dispatch(m, w) ==
  CASE w.type = "message_start"       -> MessageStart(m, w)
    [] w.type = "content_block_start" -> BlockStarted(m, w)
    [] w.type = "content_block_delta" -> BlockDeltaArrived(m, w)
    [] w.type = "content_block_stop"  -> BlockStopped(m, w)
    [] w.type = "message_delta"       -> MessageDelta(m, w)
    [] w.type = "message_stop"        -> MessageStop(m)
    [] w.type \in {"ping", "other"}   -> m
    [] w.type = "error"               -> Fail(m, "provider")
    [] w.type = "malformed"           -> Fail(m, "json")

AnthropicAccept(machine, w) ==
  LET m == [machine EXCEPT !.out = <<>>, !.events_seen = @ + 1]
  IN  IF m.events_seen > MaxStreamEvents \/ m.phase = "terminal"
      THEN Fail(m, "protocol")
      ELSE Dispatch(m, w)

AnthropicFinish(machine) ==
  LET m == [machine EXCEPT !.out = <<>>]
  IN  IF m.phase = "terminal" /\ m.terminal.validated
      THEN Emit(m, <<Done(m.finish_reason[1])>>)
      ELSE Fail(m, "truncated")
=============================================================================
