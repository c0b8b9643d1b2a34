----------------------------- MODULE Collector ------------------------------
(***************************************************************************)
(* The public event vocabulary and the collector that folds one event      *)
(* stream into an assistant message: domain/event.rs, Collector and        *)
(* collect_assistant_message_for_format.  The collector re-checks the      *)
(* stream from scratch: it knows nothing of the machine that emitted it.   *)
(*                                                                         *)
(* Strings are sequences of fragments and an Option is <<>> or <<value>>.  *)
(* open and content are the two BTreeMaps, as functions whose domains are  *)
(* sets of content indexes.                                                *)
(***************************************************************************)
EXTENDS Integers, SequencesExt, StructuredTerminal

StartEvent(generation) == [ev |-> "Start", generation |-> generation]
BlockStart(kind, i) == [ev |-> "BlockStart", kind |-> kind, index |-> i]
BlockDelta(kind, i, delta) == [ev |-> "BlockDelta", kind |-> kind, index |-> i, delta |-> delta]
BlockEnd(kind, i) == [ev |-> "BlockEnd", kind |-> kind, index |-> i]
ThinkingOpaque(i, opaque) == [ev |-> "ThinkingOpaque", index |-> i, opaque |-> opaque]
ToolCallStart(i, wire, id) == [ev |-> "ToolCallStart", index |-> i, wire |-> wire, id |-> id]
ToolCallDelta(i, wire, name, args) ==
  [ev |-> "ToolCallDelta", index |-> i, wire |-> wire, name |-> name, args |-> args]
ToolCallEnd(i, call) == [ev |-> "ToolCallEnd", index |-> i, call |-> call]
UsageEvent(details) ==
  [ev |-> "Usage", usage |-> <<details.input, details.output, details.total>>]
DetailedUsage(details) == [ev |-> "DetailedUsage", details |-> details]
Done(finish) == [ev |-> "Done", finish |-> finish]
Err(kind) == [ev |-> "Err", error |-> kind]

ToolCall(id, name, args) == [kind |-> "tool", id |-> id, name |-> name, args |-> args]

NewCollector ==
  [started |-> FALSE, done |-> FALSE, next_content_index |-> 0,
   open |-> <<>>, content |-> <<>>, tool_wire_indexes |-> {}, tool_call_ids |-> {},
   usage |-> <<>>, usage_details |-> <<>>, finish_reason |-> <<>>, generation |-> <<>>,
   error |-> NoError]

Reject(c, why) == [c EXCEPT !.error = why]

IsOpen(c, i, kind) == i \in DOMAIN c.open /\ c.open[i].kind = kind

(* start_block: blocks start once, in contiguous content-index order.      *)
StartBlock(c, i, block) ==
  IF i # c.next_content_index \/ i \in DOMAIN c.open \/ i \in DOMAIN c.content
  THEN Reject(c, "noncontiguous_block")
  ELSE [c EXCEPT !.next_content_index = @ + 1, !.open = @ @@ (i :> block)]

(* The removal from open that precedes end_block, and end_block itself.    *)
EndBlock(c, i, part) ==
  IF i \in DOMAIN c.content
  THEN Reject(c, "duplicate_block_end")
  ELSE [c EXCEPT !.open = Restrict(@, DOMAIN @ \ {i}), !.content = @ @@ (i :> part)]

AcceptStart(c, e) ==
  IF c.started \/ c.next_content_index # 0
  THEN Reject(c, "late_start")
  ELSE [c EXCEPT !.started = TRUE, !.generation = e.generation]

AcceptBlockDelta(c, e) ==
  IF ~IsOpen(c, e.index, e.kind)
  THEN Reject(c, "delta_without_start")
  ELSE [c EXCEPT !.open[e.index].text = @ \o e.delta]

AcceptBlockEnd(c, e) ==
  IF ~IsOpen(c, e.index, e.kind)
  THEN Reject(c, "end_without_start")
  ELSE EndBlock(c, e.index, c.open[e.index])

AcceptThinkingOpaque(c, e) ==
  CASE ~IsOpen(c, e.index, "thinking") -> Reject(c, "opaque_without_start")
    [] c.open[e.index].opaque # <<>>   -> Reject(c, "duplicate_opaque")
    [] OTHER -> [c EXCEPT !.open[e.index].opaque = e.opaque]

AcceptToolCallStart(c, e) ==
  CASE e.wire \in c.tool_wire_indexes -> Reject(c, "duplicate_wire_index")
    [] e.id # <<>> /\ e.id[1] \in c.tool_call_ids -> Reject(c, "duplicate_tool_id")
    [] OTHER ->
         StartBlock(
           [c EXCEPT !.tool_wire_indexes = @ \cup {e.wire},
                     !.tool_call_ids = @ \cup {e.id[k] : k \in DOMAIN e.id}],
           e.index,
           [kind |-> "tool", wire |-> e.wire, id |-> e.id, name |-> <<>>, args |-> <<>>])

AcceptToolCallDelta(c, e) ==
  CASE ~IsOpen(c, e.index, "tool") -> Reject(c, "delta_without_start")
    [] c.open[e.index].wire # e.wire -> Reject(c, "wire_index_changed")
    [] OTHER -> [c EXCEPT !.open[e.index].name = @ \o e.name,
                          !.open[e.index].args = @ \o e.args]

(* The final call must repeat what the deltas added up to.                 *)
AcceptToolCallEnd(c, e) ==
  LET block == c.open[e.index]
  IN  CASE ~IsOpen(c, e.index, "tool") -> Reject(c, "end_without_start")
        [] block.id # <<>> /\ block.id[1] # e.call.id -> Reject(c, "tool_id_changed")
        [] block.id = <<>> /\ e.call.id \in c.tool_call_ids -> Reject(c, "duplicate_tool_id")
        [] block.name # e.call.name -> Reject(c, "tool_name_changed")
        [] block.args # e.call.args -> Reject(c, "tool_arguments_changed")
        [] OTHER -> EndBlock([c EXCEPT !.tool_call_ids = @ \cup {e.call.id}], e.index, e.call)

AcceptUsage(c, e) ==
  IF c.usage # <<>> /\ c.usage # <<e.usage>>
  THEN Reject(c, "conflicting_usage")
  ELSE [c EXCEPT !.usage = <<e.usage>>]

AcceptDetailedUsage(c, e) ==
  IF c.usage_details # <<>> /\ c.usage_details # <<e.details>>
  THEN Reject(c, "conflicting_detailed_usage")
  ELSE [c EXCEPT !.usage_details = <<e.details>>]

HasPart(c, kind) == \E i \in DOMAIN c.content : c.content[i].kind = kind

AcceptDone(c, e) ==
  CASE c.open # <<>>    -> Reject(c, "done_with_open_block")
    [] c.content = <<>> -> Reject(c, "done_without_content")
    [] (e.finish = "tool_calls") # HasPart(c, "tool") -> Reject(c, "finish_disagrees")
    [] OTHER -> [c EXCEPT !.done = TRUE, !.finish_reason = <<e.finish>>]

(* Collector::accept.                                                      *)
CollectorAccept(c, e) ==
  CASE c.done                   -> Reject(c, "event_after_done")
    [] e.ev = "Start"           -> AcceptStart(c, e)
    [] e.ev = "BlockStart"      ->
         StartBlock(c, e.index, [kind |-> e.kind, text |-> <<>>, opaque |-> <<>>])
    [] e.ev = "BlockDelta"      -> AcceptBlockDelta(c, e)
    [] e.ev = "BlockEnd"        -> AcceptBlockEnd(c, e)
    [] e.ev = "ThinkingOpaque"  -> AcceptThinkingOpaque(c, e)
    [] e.ev = "ToolCallStart"   -> AcceptToolCallStart(c, e)
    [] e.ev = "ToolCallDelta"   -> AcceptToolCallDelta(c, e)
    [] e.ev = "ToolCallEnd"     -> AcceptToolCallEnd(c, e)
    [] e.ev = "Usage"           -> AcceptUsage(c, e)
    [] e.ev = "DetailedUsage"   -> AcceptDetailedUsage(c, e)
    [] e.ev = "Done"            -> AcceptDone(c, e)

(* content.into_values(): the parts in index order.                        *)
Parts(c) ==
  LET present == SelectSeq([k \in 1..c.next_content_index |-> k - 1],
                           LAMBDA i : i \in DOMAIN c.content)
  IN  [k \in 1..Len(present) |-> c.content[present[k]]]

(* The text of a message: its text parts, concatenated in order.           *)
TextOf(parts) ==
  FoldLeft(LAMBDA text, part : IF part.kind = "text" THEN text \o part.text ELSE text,
           <<>>, parts)

(* Collector::finish and the validation after it: the error of the whole   *)
(* collection, or NoError when a message is returned.                      *)
CollectorFinish(c, format) ==
  IF ~c.done \/ c.finish_reason = <<>>
  THEN "truncated"
  ELSE ValidateStructuredResponse(format, c.finish_reason[1], TextOf(Parts(c)),
                                  HasPart(c, "tool"), HasPart(c, "refusal"))
=============================================================================
