--------------------------- MODULE OpenAiResponse ---------------------------
(***************************************************************************)
(* A streamed chat completion from SSE event to assistant message: the     *)
(* driver of ResponseStream running the OpenAI machine, with the collector *)
(* at its end.  The message is compared with one read directly off the     *)
(* wire, block by block, without machine, events or indexes.               *)
(***************************************************************************)
EXTENDS ResponseStream, OpenAiMachine

Concat(seqs) == FlattenSeq(seqs)

WireChunks == SelectSeq(wire, LAMBDA w : w.data = "chunk")

WireChoices == Concat([k \in DOMAIN WireChunks |-> WireChunks[k].choice])

(* What a choice says, as pieces of the block each belongs to.             *)
PiecesOf(choice) ==
  LET plain(kind, body) ==
        IF body = <<>> THEN <<>>
        ELSE <<[key |-> <<kind, 0>>, id |-> <<>>, name |-> <<>>, body |-> body]>>
      tool(delta) ==
        [key |-> <<"tool", delta.index>>, id |-> delta.id, name |-> delta.name, body |-> delta.args]
  IN  plain("text", choice.content) \o plain("refusal", choice.refusal)
        \o [k \in DOMAIN choice.tools |-> tool(choice.tools[k])]

Pieces == Concat([k \in DOMAIN WireChoices |-> PiecesOf(WireChoices[k])])

PiecesFor(key) == SelectSeq(Pieces, LAMBDA p : p.key = key)

(* Blocks in the order their first piece arrived.                          *)
BlockKeys ==
  LET firsts == SelectSeq([k \in DOMAIN Pieces |-> k],
                          LAMBDA k : \A j \in 1..(k - 1) : Pieces[j].key # Pieces[k].key)
  IN  [k \in DOMAIN firsts |-> Pieces[firsts[k]].key]

PartFor(key) ==
  LET mine == PiecesFor(key)
      body == Concat([k \in DOMAIN mine |-> mine[k].body])
  IN  IF key[1] = "tool"
      THEN ToolCall(Concat([k \in DOMAIN mine |-> mine[k].id])[1],
                    Concat([k \in DOMAIN mine |-> mine[k].name]), body)
      ELSE [kind |-> key[1], text |-> body, opaque |-> <<>>]

ExpectedParts ==
  IF Pieces = <<>>
  THEN <<[kind |-> "text", text |-> <<>>, opaque |-> <<>>]>>
  ELSE [k \in DOMAIN BlockKeys |-> PartFor(BlockKeys[k])]

(* Usage snapshots on the wire that say anything.                          *)
Snapshots ==
  {ParsedUsage(WireChunks[k].usage[1], machine.compat.dropReasoning) :
     k \in {j \in DOMAIN WireChunks : WireChunks[j].usage # <<>>}} \ {[f \in Counters |-> Unknown]}

(* Some snapshot told a counter that another snapshot did not.             *)
UsageGrew ==
  \E s, t \in Snapshots : \E f \in Counters : Known(s[f]) /\ ~Known(t[f])

StreamSucceeded == Len(delivered) > 0 /\ delivered[Len(delivered)].ev = "Done"

-----------------------------------------------------------------------------
(* complete() returns what the provider sent: fragments of several tool    *)
(* calls interleaved by wire index, text beside them and ids that arrive   *)
(* late come out as whole blocks, in the order the blocks first appeared   *)
(* (push_text, push_tool_delta, observe_delta, Collector::accept).         *)
AssemblesTheWire == outcome = "message" => Parts(collector) = ExpectedParts

(* The usage of the message is the union of the snapshots: no counter is   *)
(* lost, added up or taken from nowhere (merge_usage_details).             *)
ReportsUsage ==
  outcome = "message" =>
    /\ collector.usage_details = <<>> <=> Snapshots = {}
    /\ \A k \in DOMAIN collector.usage_details : \A f \in Counters :
         LET told == {s[f] : s \in Snapshots} \ {Unknown}
             said == collector.usage_details[k][f]
         IN  told = IF Known(said) THEN {said} ELSE {}

(* Done comes only from a stream the provider finished: the source ended   *)
(* after the [DONE] marker, which came last and after a supported finish   *)
(* reason, and a structured answer was whole and valid (accept, finish,    *)
(* validate_before_done).                                                  *)
DoneIsEarned ==
  StreamSucceeded =>
    LET finish == delivered[Len(delivered)].finish
        format == machine.terminal.format
        text   == TextOf(ExpectedParts)
    IN  /\ source.state = "ended"
        /\ wire[Len(wire)].data = "DONE"
        /\ \E k \in DOMAIN WireChoices : WireChoices[k].finish = <<finish>>
        /\ finish \in {"stop", "length", "tool_calls"}
        /\ format # "text" /\ (\A k \in DOMAIN BlockKeys : BlockKeys[k][1] = "text") =>
             /\ finish = "stop"
             /\ text \in IF format = "json_object" THEN JsonObjects ELSE SchemaInstances

(* The collector checks again what the machine promised, and finds nothing *)
(* to reject in a stream the machine finished, except a usage report that  *)
(* grew between chunks.                                                    *)
CollectorAgreesUnlessUsageGrew ==
  /\ outcome = "rejected" => UsageGrew
  /\ exhausted /\ StreamSucceeded /\ ~UsageGrew => outcome = "message"

(* What reaches the consumer stays within the response limits, counted on  *)
(* the events themselves (prepare, append_fragments, push_answer_text).    *)
DeliveredWithinLimits ==
  LET sizes(wires) == {k \in DOMAIN delivered :
                         delivered[k].ev = "ToolCallDelta" /\ delivered[k].wire \in wires}
      bytes(wires) == FoldSet(LAMBDA k, n : n + Len(delivered[k].args), 0, sizes(wires))
      starts       == {k \in DOMAIN delivered : delivered[k].ev = "ToolCallStart"}
      all          == {delivered[k].wire : k \in starts}
  IN  /\ Cardinality(starts) <= MaxToolCalls
      /\ bytes(all) <= MaxAllToolArguments
      /\ \A wireIndex \in all : bytes({wireIndex}) <= MaxToolArguments
=============================================================================
