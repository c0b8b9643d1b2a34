------------------------- MODULE AnthropicResponse --------------------------
(***************************************************************************)
(* A streamed Messages response from SSE event to assistant message: the   *)
(* driver of ResponseStream running the Anthropic machine.  The message is *)
(* compared with one read directly off the wire: each block start with the *)
(* deltas of its index up to its stop.                                     *)
(***************************************************************************)
EXTENDS ResponseStream, AnthropicMachine

Is(k, type) == wire[k].type = type

(* Positions of the starts of the blocks a message can hold.               *)
Starts ==
  SelectSeq([k \in DOMAIN wire |-> k],
            LAMBDA k : Is(k, "content_block_start") /\ wire[k].block.kind # "unsupported")

ToolStarts == {k \in DOMAIN wire : Is(k, "content_block_start") /\ wire[k].block.kind = "tool"}

(* The deltas of the block that starts at k: same index, before its stop.  *)
DeltasOf(k) ==
  SelectSeq([j \in DOMAIN wire |-> j],
            LAMBDA j : /\ j > k /\ Is(j, "content_block_delta") /\ wire[j].index = wire[k].index
                       /\ ~\E s \in k..j : /\ Is(s, "content_block_stop")
                                           /\ wire[s].index = wire[k].index)

Joined(k, kind) ==
  LET mine == SelectSeq(DeltasOf(k), LAMBDA j : wire[j].kind = kind)
  IN  FlattenSeq([n \in DOMAIN mine |-> wire[mine[n]].text])

Arguments(k) == wire[k].block.text \o Joined(k, "json")

PartAt(k) ==
  LET b    == wire[k].block
      sign == Joined(k, "signature")
  IN  CASE b.kind = "tool" -> ToolCall(b.id, b.name, Arguments(k))
        [] b.kind = "text" -> [kind |-> "text", text |-> b.text \o Joined(k, "text"), opaque |-> <<>>]
        [] b.kind = "thinking" ->
             [kind |-> "thinking", text |-> b.text \o Joined(k, "thinking"),
              opaque |-> IF sign = <<>> THEN <<>> ELSE Opaque(sign, FALSE)]
        [] b.kind = "redacted" ->
             [kind |-> "thinking", text |-> <<>>, opaque |-> Opaque(b.text, TRUE)]

ExpectedParts == [n \in DOMAIN Starts |-> PartAt(Starts[n])]

StreamSucceeded == Len(delivered) > 0 /\ delivered[Len(delivered)].ev = "Done"

-----------------------------------------------------------------------------
(* The ways a finished stream may disagree with the collector's rules.     *)
ToolWithoutArguments == \E k \in ToolStarts : Arguments(k) = <<>>

FinishHidesTools == delivered[Len(delivered)].finish # "tool_calls" /\ ToolStarts # {}

NoContent == Starts = <<>>

RepeatedToolKeys ==
  \E j, k \in ToolStarts :
    j # k /\ (wire[j].index = wire[k].index \/ wire[j].block.id = wire[k].block.id)

(* The machine judges the answer in the order the text arrived, the        *)
(* collector in the order of the blocks: with text blocks filled in turns, *)
(* only the first may be what the format asks for.  An answer with a tool  *)
(* call is judged by neither.                                              *)
StructuredAnswers(format) == IF format = "json_object" THEN JsonObjects ELSE SchemaInstances

MisorderedAnswer ==
  /\ machine.terminal.format # "text" /\ ToolStarts = {}
  /\ TextOf(ExpectedParts) \notin StructuredAnswers(machine.terminal.format)

Disagreement ==
  \/ ToolWithoutArguments
  \/ FinishHidesTools
  \/ NoContent
  \/ RepeatedToolKeys
  \/ MisorderedAnswer

(* complete() returns what the provider sent: every block of the wire with *)
(* its own deltas, in the order the blocks started, thinking with its      *)
(* signature, and unsupported blocks left out without shifting the others  *)
(* (block_start, block_delta, block_stop, Collector::accept).              *)
AssemblesTheWire == outcome = "message" => Parts(collector) = ExpectedParts

(* When the stream ends in Done, complete() returns a message exactly when *)
(* none of the named disagreements between the machine and the collector   *)
(* happened: there is no other, and each of them does fail the answer.     *)
CompletesUnlessTheyDisagree ==
  /\ exhausted /\ StreamSucceeded /\ ~Disagreement => outcome = "message"
  /\ outcome = "message" => ~Disagreement

(* A stream that ends in Done completes: complete() consumes stream() and  *)
(* returns "the first error from request startup or streamed response      *)
(* processing".                                                            *)
CompletesWhenTheStreamDoes == exhausted /\ StreamSucceeded => outcome = "message"

(* Done comes only after a stop reason that arrived when every block was   *)
(* closed and was followed by no further content, with message_stop the    *)
(* very last event before the source ended (Phase, message_delta, finish). *)
DoneIsEarned ==
  StreamSucceeded =>
    /\ source.state = "ended" /\ Is(Len(wire), "message_stop")
    /\ \E k \in DOMAIN wire :
         /\ Is(k, "message_delta") /\ wire[k].stop # <<>>
         /\ delivered[Len(delivered)].finish = StopReason(wire[k].stop[1])
         /\ \A j \in k..Len(wire) : wire[j].type \in {"message_delta", "message_stop", "ping", "other"}
         /\ \A j \in 1..k : Is(j, "content_block_start") =>
              \E s \in j..k : Is(s, "content_block_stop") /\ wire[s].index = wire[j].index

(* The usage reported is the latest value of every counter, and input is   *)
(* the sum of the three input counters only when all three are known; a    *)
(* counter never shrinks between reports (merge_usage_snapshot,            *)
(* usage_details).                                                         *)
ReportsLatestUsage ==
  StreamSucceeded => \A k \in DOMAIN delivered : delivered[k].ev = "DetailedUsage" =>
    LET reports == SelectSeq(wire, LAMBDA w : w.type \in {"message_start", "message_delta"})
        known(f) == SelectSeq(reports, LAMBDA w : Known(w.usage[f]))
        latest(f) == IF known(f) = <<>> THEN Unknown ELSE known(f)[Len(known(f))].usage[f]
        all == \A f \in StableFields : Known(latest(f))
        said == delivered[k].details
    IN  /\ said.output = latest("output") /\ said.reasoning = latest("thinking")
        /\ said.cached = latest("read") /\ said.write = latest("write")
        /\ said.input = IF all THEN latest("input") + latest("write") + latest("read") ELSE Unknown
        /\ said.input <= MaxCount /\ Within(said.reasoning, said.output)
        /\ \A f \in SnapshotFields : \A j \in 2..Len(known(f)) :
             known(f)[j - 1].usage[f] <= known(f)[j].usage[f]
=============================================================================
