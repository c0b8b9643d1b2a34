------------------------ MODULE MCAnthropicResponse -------------------------
(* Small instances of AnthropicResponse: blocks of every kind interleaved,  *)
(* text blocks filled in turns beside a tool call, usage and stop reasons, *)
(* and the smallest stream on which the machine and the collector          *)
(* disagree.                                                               *)
EXTENDS AnthropicResponse

NoUsage == EmptySnapshot
Counted(input, output, write, read, thinking) ==
  [input |-> input, output |-> output, write |-> write, read |-> read, thinking |-> thinking]

Opening(usage) == [type |-> "message_start", id |-> "g", usage |-> usage]
Start(index, kind, id, text) ==
  [type |-> "content_block_start", index |-> index,
   block |-> [kind |-> kind, id |-> id, name |-> <<"n">>, text |-> text]]
Delta(index, kind, text) ==
  [type |-> "content_block_delta", index |-> index, kind |-> kind, text |-> text]
Stop(index) == [type |-> "content_block_stop", index |-> index]
Closing(stop, usage) == [type |-> "message_delta", stop |-> stop, usage |-> usage]
End == [type |-> "message_stop"]
Other(type) == [type |-> type]

(* "l" and "r" are the halves of a JSON object, "o" is a whole one, "e"    *)
(* the empty one, and "w" white space, which may stand on either side.     *)
MCJsonObjects == {<<"l", "r">>, <<"o">>, <<"e">>, <<"o", "w">>, <<"w", "o">>}
MCJsonOthers == {<<"v">>}
MCSchemaInstances == {<<"o">>}
MCEmptyObject == <<"e">>

BlockMachines == {NewMachine("text", FALSE), NewMachine("json_object", FALSE)}

BlockWire ==
  {Opening(NoUsage),
   Start(0, "text", "", <<>>), Start(1, "text", "", <<"l">>),
   Start(0, "tool", "id1", <<>>), Start(1, "tool", "id1", <<"o">>),
   Delta(0, "text", <<"r">>), Delta(0, "json", <<"o">>),
   Stop(0), Stop(1),
   Closing(<<"end_turn">>, NoUsage), Closing(<<"tool_use">>, NoUsage),
   End}

TurnsMachines == {NewMachine("json_object", FALSE)}

TurnsWire ==
  {Opening(NoUsage),
   Start(0, "text", "", <<>>), Start(1, "text", "", <<"l">>), Start(1, "text", "", <<"o">>),
   Delta(0, "text", <<"r">>), Delta(0, "text", <<"w">>),
   Stop(0), Stop(1),
   Start(2, "tool", "id1", <<"o">>), Stop(2),
   Closing(<<"end_turn">>, NoUsage), Closing(<<"tool_use">>, NoUsage),
   End}

ThinkingMachines == {NewMachine("text", FALSE)}

ThinkingWire ==
  {Opening(NoUsage),
   Start(0, "thinking", "", <<"a">>), Start(1, "unsupported", "", <<>>),
   Start(1, "redacted", "", <<"x">>),
   Delta(0, "thinking", <<"b">>), Delta(0, "signature", <<"s">>), Delta(1, "unknown", <<>>),
   Stop(0), Stop(1),
   Closing(<<"end_turn">>, NoUsage),
   Other("ping"),
   End}

UsageMachines == {NewMachine("text", FALSE), NewMachine("text", TRUE)}

UsageWire ==
  {Opening(Counted(1, 0, 0, Unknown, Unknown)), Opening(Counted(3, 1, 0, 0, 0)),
   Start(0, "text", "", <<"o">>), Stop(0),
   Closing(<<>>, Counted(Unknown, 1, 1, Unknown, Unknown)),
   Closing(<<>>, Counted(Unknown, 2, Unknown, 1, 1)),
   Closing(<<"max_tokens">>, Counted(Unknown, 1, Unknown, Unknown, Unknown)),
   Closing(<<"end_turn">>, NoUsage), Closing(<<"pause_turn">>, NoUsage),
   Closing(<<"unknown">>, NoUsage),
   Other("error"), Other("malformed"), Other("other"), End}

EmptyToolWire ==
  {Opening(NoUsage), Start(0, "tool", "id1", <<>>), Stop(0), Closing(<<"tool_use">>, NoUsage), End}

MCFeeds ==
  [blocks   |-> [machines |-> BlockMachines, events |-> BlockWire, max |-> 9],
   turns    |-> [machines |-> TurnsMachines, events |-> TurnsWire, max |-> 11],
   thinking |-> [machines |-> ThinkingMachines, events |-> ThinkingWire, max |-> 8],
   usage    |-> [machines |-> UsageMachines, events |-> UsageWire, max |-> 7]]

MCEmptyToolFeeds ==
  [tool |-> [machines |-> ThinkingMachines, events |-> EmptyToolWire, max |-> 5]]
=============================================================================
