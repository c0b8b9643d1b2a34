---------------------------- MODULE MCSseDecoder ----------------------------
(* Two feeds for SseDecoder. *)
EXTENDS SseDecoder

\* Line ends, comments and bare data fields, cut after one or two bytes.
MCFrameBytes == {"cr", "lf", "data", "colon"}
MCFrameFeed == [chunks |-> UNION {[1..n -> MCFrameBytes] : n \in 1..2}, max |-> 5]

\* One chunk per field line: fields that outlive an event and fields that do
\* not, values the decoder ignores, a character cut in two, and a chunk
\* larger than MaxChunkBytes.
MCFieldFeed ==
    [chunks |->
       {<<"lf">>, <<"data", "lf">>, <<"data", "colon", "space", "text", "lf">>,
        <<"event", "lf">>, <<"id", "lf">>, <<"id", "colon", "nul", "lf">>,
        <<"retry", "colon", "digit", "lf">>, <<"retry", "lf">>,
        <<"data", "colon", "lead">>, <<"cont", "lf">>,
        <<"data", "lf", "lf", "data", "lf", "lf">>},
     max |-> 8]

MCFeeds == [framing |-> MCFrameFeed, fields |-> MCFieldFeed]
=============================================================================
