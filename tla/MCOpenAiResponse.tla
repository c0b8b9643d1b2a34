-------------------------- MODULE MCOpenAiResponse --------------------------
(* Small instances of OpenAiResponse: tool calls interleaved with text, one *)
(* tool call too many, and text, refusals, usage and structured answers.   *)
EXTENDS OpenAiResponse

Chunk(choice, usage) ==
  [data |-> "chunk", id |-> <<>>, model |-> <<>>, choice |-> choice, usage |-> usage]

Choice(content, refusal, tools, finish) ==
  <<[content |-> content, refusal |-> refusal, tools |-> tools, finish |-> finish]>>

Text(content) == Chunk(Choice(content, <<>>, <<>>, <<>>), <<>>)
Refusal(content) == Chunk(Choice(<<>>, content, <<>>, <<>>), <<>>)
Tools(deltas) == Chunk(Choice(<<>>, <<>>, deltas, <<>>), <<>>)
Finish(reason) == Chunk(Choice(<<>>, <<>>, <<>>, <<reason>>), <<>>)
Tool(index, id, name, args) ==
  [index |-> index, id |-> id, name |-> name, args |-> args, form |-> "string"]
ToolObject(index, args) ==
  [index |-> index, id |-> <<>>, name |-> <<>>, args |-> args, form |-> "object"]

Marker == [data |-> "DONE"]
Malformed == [data |-> "malformed"]

(* "l" and "r" are the halves of a JSON object, "o" is a whole one and "d" *)
(* a whole one nested too deep; "v" is a JSON value that is no object.     *)
MCJsonObjects == {<<"l", "r">>, <<"o">>, <<"d">>}
MCJsonOthers == {<<"v">>}
MCSchemaInstances == {<<"o">>, <<"v">>}
MCDeepJson == {<<"d">>}

Strict == [duplicateFinish |-> FALSE, objectArguments |-> FALSE, dropReasoning |-> FALSE]
Lenient == [duplicateFinish |-> TRUE, objectArguments |-> TRUE, dropReasoning |-> TRUE]

ToolMachines == {NewMachine("text", Strict), NewMachine("text", Lenient)}

ToolWire ==
  {Text(<<"a">>),
   Tools(<<Tool(0, <<"id1">>, <<"n">>, <<"l">>)>>),
   Tools(<<Tool(0, <<>>, <<>>, <<"r">>)>>),
   Tools(<<Tool(1, <<>>, <<"n">>, <<"l">>)>>),
   Tools(<<Tool(1, <<"id2">>, <<>>, <<"r">>)>>),
   Tools(<<Tool(1, <<"id1">>, <<"n">>, <<"o">>)>>),
   Tools(<<Tool(1, <<>>, <<>>, <<"r">>), Tool(0, <<>>, <<>>, <<"r">>)>>),
   Tools(<<ToolObject(0, <<"o">>)>>),
   Finish("tool_calls"),
   Finish("stop"),
   Marker}

(* Three calls, in any order and two of them in one chunk.                 *)
CallsWire ==
  {Tools(<<Tool(0, <<"id1">>, <<"n">>, <<"o">>)>>),
   Tools(<<Tool(1, <<"id2">>, <<"n">>, <<"l">>)>>),
   Tools(<<Tool(1, <<>>, <<>>, <<"r">>)>>),
   Tools(<<Tool(2, <<"id3">>, <<"n">>, <<"o">>)>>),
   Tools(<<Tool(1, <<"id2">>, <<"n">>, <<"o">>), Tool(2, <<"id3">>, <<"n">>, <<"o">>)>>),
   Finish("tool_calls"),
   Marker}

TextMachines ==
  {NewMachine("text", Strict), NewMachine("json_schema", Strict),
   NewMachine("json_object", Lenient)}

Report(input, output, total, reasoning) ==
  <<[input |-> input, output |-> output, total |-> total, cached |-> Unknown,
     write |-> Unknown, reasoning |-> reasoning]>>

TextWire ==
  {Text(<<"l">>), Text(<<"r">>), Text(<<"v">>),
   Refusal(<<"x">>),
   [Text(<<>>) EXCEPT !.id = <<"g1">>],
   [Text(<<>>) EXCEPT !.id = <<"g2">>],
   [Finish("stop") EXCEPT !.usage = Report(1, 1, 2, 2)],
   Finish("stop"), Finish("length"), Finish("content_filter"), Finish("function_call"),
   Chunk(<<>>, Report(1, 1, 2, Unknown)),
   Chunk(<<>>, Report(1, Unknown, Unknown, Unknown)),
   Marker, Malformed}

GrowingWire ==
  {Text(<<"a">>), Finish("stop"), Marker,
   Chunk(<<>>, Report(1, Unknown, Unknown, Unknown)),
   Chunk(<<>>, Report(1, 1, 2, Unknown))}

MCFeeds ==
  [tools |-> [machines |-> ToolMachines, events |-> ToolWire, max |-> 7],
   calls |-> [machines |-> {NewMachine("text", Strict)}, events |-> CallsWire, max |-> 6],
   text |-> [machines |-> TextMachines, events |-> TextWire, max |-> 5]]

MCDriverFeeds ==
  [growing |-> [machines |-> {NewMachine("text", Strict)}, events |-> GrowingWire, max |-> 5]]
=============================================================================
