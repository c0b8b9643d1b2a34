----------------------------- MODULE SseDecoder -----------------------------
(***************************************************************************)
(* The incremental Server-Sent Events decoder of transport/sse.rs.  The    *)
(* upstream body arrives in chunks cut anywhere, and every call of         *)
(* poll_next does a bounded amount of work.  A byte is one of ByteNames:   *)
(* a field name counts as one byte and so does any text; line ends, the    *)
(* colon, the space after it, NUL, digits and the two halves of a          *)
(* two-byte UTF-8 character are bytes of their own.                        *)
(***************************************************************************)
EXTENDS Integers, Sequences, SequencesExt, FiniteSetsExt

CONSTANTS Feeds,            \* by name, what an upstream may send: non-empty chunks
                            \* and, as a bound of the model, the bytes in all
          MaxEmpty,         \* bound of the model: empty chunks it sends
          MaxEventBytes, MaxLineBytes, MaxFieldsPerEvent, MaxChunkBytes,
          MaxBytesPerPoll, MaxChunksPerPoll

ByteNames == {"cr", "lf", "data", "event", "id", "retry", "colon", "space",
              "nul", "digit", "text", "lead", "cont"}

ASSUME SseAssumption ==
    /\ \A f \in DOMAIN Feeds :
         Feeds[f].chunks \subseteq Seq(ByteNames) \ {<<>>} /\ Feeds[f].max \in Nat
    /\ MaxEmpty \in Nat
    /\ {MaxEventBytes, MaxLineBytes, MaxFieldsPerEvent, MaxChunkBytes,
        MaxBytesPerPoll, MaxChunksPerPoll} \subseteq Nat \ {0}

\* An Option: <<>> is None, <<v>> is Some(v).
None == <<>>
Some(v) == <<v>>

SseEvent(data, type, id, retry) ==
    [data |-> data, event_type |-> type, id |-> id, retry_millis |-> retry]
SseError(kind) == [error |-> kind]
IsError(item) == "error" \in DOMAIN item

VARIABLES
    dec,             \* the framing fields of SseDecoder
    chunk,           \* what is left of the current chunk, <<>> for none
    polling,         \* TRUE while poll_next runs
    bytes_processed, \* local of the running poll_next
    chunks_polled,   \* local of the running poll_next
    wake,            \* the polling task: "due", "registered" upstream or "none"
    delivered,       \* the items returned to the caller, in order
    ended,           \* poll_next has returned None
    consumed,        \* every byte process_byte has seen (history)
    empties,         \* how many empty chunks it handed over
    upstream         \* its feed, and whether it is "open", "closed" or "failed"

vars == <<dec, chunk, polling, bytes_processed, chunks_polled, wake,
          delivered, ended, consumed, empties, upstream>>

-----------------------------------------------------------------------------
(* Framing *)

NewDecoder ==
    [line |-> <<>>, data_lines |-> <<>>, event_type |-> None,
     last_event_id |-> None, retry_millis |-> None, has_data |-> FALSE,
     saw_cr |-> FALSE, event_bytes |-> 0, field_count |-> 0,
     pending |-> None, terminal |-> FALSE]

Fail(d, kind) ==
    [d EXCEPT !.line = <<>>, !.data_lines = <<>>, !.pending = Some(SseError(kind)),
              !.terminal = TRUE]

JoinLines(lines) == FoldLeft(LAMBDA s, l : s \o <<"lf">> \o l,
                             Head(lines), Tail(lines))

EventOf(d) == SseEvent(JoinLines(d.data_lines), d.event_type,
                       d.last_event_id, d.retry_millis)

DispatchKeepsCount(d) ==
    [d EXCEPT
        !.pending = IF d.has_data
                    THEN Some(EventOf(d))
                    ELSE @,
        !.data_lines = <<>>, !.event_type = None, !.retry_millis = None,
        !.has_data = FALSE]
DispatchEvent(d) ==
    [d EXCEPT
        !.pending = IF d.has_data
                    THEN Some(EventOf(d))
                    ELSE @,
        !.data_lines = <<>>, !.event_type = None, !.retry_millis = None,
        !.has_data = FALSE, !.event_bytes = 0, !.field_count = 0]

ValidUtf8(bs) ==
    /\ \A i \in DOMAIN bs : bs[i] = "lead" => i < Len(bs) /\ bs[i + 1] = "cont"
    /\ \A i \in DOMAIN bs : bs[i] = "cont" => i > 1 /\ bs[i - 1] = "lead"

\* split_once(':'), and one leading space dropped from the value.
FieldName(l) == IF Contains(l, "colon")
                THEN SubSeq(l, 1, SelectInSeq(l, LAMBDA b : b = "colon") - 1)
                ELSE l
FieldValue(l) ==
    LET raw == SubSeq(l, Len(FieldName(l)) + 2, Len(l))
    IN  IF raw # <<>> /\ Head(raw) = "space" THEN Tail(raw) ELSE raw

\* Decimal digits; the parse of a value that u64 cannot hold is left out.
IsRetry(v) == v # <<>> /\ \A i \in DOMAIN v : v[i] = "digit"

ApplyField(d, name, value) ==
    CASE name = <<"data">>  -> [d EXCEPT !.has_data = TRUE,
                                         !.data_lines = Append(@, value)]
      [] name = <<"event">> -> [d EXCEPT !.event_type = Some(value)]
      [] name = <<"id">> /\ ~Contains(value, "nul")
                            -> [d EXCEPT !.last_event_id = Some(value)]
      [] name = <<"retry">> /\ IsRetry(value)
                            -> [d EXCEPT !.retry_millis = Some(value)]
      [] OTHER              -> d

FinishLine(d) ==
    LET l       == d.line
        taken   == [d EXCEPT !.line = <<>>]
        counted == [taken EXCEPT !.field_count = @ + 1]
    IN  CASE l = <<>>          -> DispatchEvent(d)
          [] ~ValidUtf8(l)     -> Fail(taken, "InvalidUtf8")
          [] ValidUtf8(l) /\ l # <<>> /\ Head(l) = "colon" -> taken
          [] OTHER ->
               IF counted.field_count > MaxFieldsPerEvent
               THEN Fail(counted, "Fields")
               ELSE ApplyField(counted, FieldName(l), FieldValue(l))

ProcessByteKeepsCr(d, b) ==
    IF d.saw_cr /\ b = "lf"
    THEN d
    ELSE LET counted == [d EXCEPT !.saw_cr = FALSE, !.event_bytes = @ + 1]
             pushed  == [counted EXCEPT !.line = Append(@, b)]
         IN  CASE counted.event_bytes > MaxEventBytes
                    -> Fail(counted, "EventBytes")
               [] counted.event_bytes <= MaxEventBytes /\ b = "cr"
                    -> [FinishLine(counted) EXCEPT !.saw_cr = TRUE]
               [] counted.event_bytes <= MaxEventBytes /\ b = "lf"
                    -> FinishLine(counted)
               [] OTHER -> IF Len(pushed.line) > MaxLineBytes
                           THEN Fail(pushed, "LineBytes")
                           ELSE pushed
ProcessByteUnbounded(d, b) ==
    IF d.saw_cr /\ b = "lf"
    THEN [d EXCEPT !.saw_cr = FALSE]
    ELSE LET counted == [d EXCEPT !.saw_cr = FALSE, !.event_bytes = @ + 1]
         IN  CASE b = "cr" -> [FinishLine(counted) EXCEPT !.saw_cr = TRUE]
               [] b = "lf" -> FinishLine(counted)
               [] OTHER    -> [counted EXCEPT !.line = Append(@, b)]
ProcessByte(d, b) ==
    IF d.saw_cr /\ b = "lf"
    THEN [d EXCEPT !.saw_cr = FALSE]
    ELSE LET counted == [d EXCEPT !.saw_cr = FALSE, !.event_bytes = @ + 1]
             pushed  == [counted EXCEPT !.line = Append(@, b)]
         IN  CASE counted.event_bytes > MaxEventBytes
                    -> Fail(counted, "EventBytes")
               [] counted.event_bytes <= MaxEventBytes /\ b = "cr"
                    -> [FinishLine(counted) EXCEPT !.saw_cr = TRUE]
               [] counted.event_bytes <= MaxEventBytes /\ b = "lf"
                    -> FinishLine(counted)
               [] OTHER -> IF Len(pushed.line) > MaxLineBytes
                           THEN Fail(pushed, "LineBytes")
                           ELSE pushed

FinishEof(d) ==
    LET last == IF d.line = <<>> THEN d ELSE FinishLine(d)
        flushed == IF last.pending = None /\ ~last.terminal
                   THEN DispatchEvent(last) ELSE last
    IN  [flushed EXCEPT !.terminal = TRUE]

-----------------------------------------------------------------------------
(* poll_next, one action per turn of its loop *)

Init ==
    /\ dec = NewDecoder /\ chunk = <<>>
    /\ polling = FALSE /\ bytes_processed = 0 /\ chunks_polled = 0
    /\ wake = "due" /\ delivered = <<>> /\ ended = FALSE
    /\ consumed = <<>> /\ empties = 0
    /\ upstream \in [state : {"open"}, feed : DOMAIN Feeds]

\* Poll::Ready(pending.take()): the caller that got an item polls again.
ReturnItem(d) ==
    /\ dec' = [d EXCEPT !.pending = None]
    /\ delivered' = delivered \o d.pending
    /\ ended' = (d.pending = None)
    /\ polling' = FALSE
    /\ wake' = IF d.pending = None THEN "none" ELSE "due"

\* Poll::Pending, with the waker already wake or left with the upstream.
ReturnPending(w) ==
    /\ polling' = FALSE
    /\ wake' = w
    /\ UNCHANGED <<dec, chunk, bytes_processed, chunks_polled, delivered,
                   ended, consumed, empties, upstream>>

\* The call of poll_next.  Whoever sets pending takes it in the
\* same call, so no item is ever pending here.
StartPoll ==
    /\ ~polling /\ wake = "due"
    /\ IF dec.terminal
       THEN /\ ReturnItem(dec)
            /\ UNCHANGED <<chunk, bytes_processed, chunks_polled, consumed,
                           empties, upstream>>
       ELSE /\ polling' = TRUE /\ bytes_processed' = 0 /\ chunks_polled' = 0
            /\ UNCHANGED <<dec, chunk, wake, delivered, ended, consumed,
                           empties, upstream>>

DecodeByte ==
    /\ polling /\ chunk # <<>> /\ bytes_processed < MaxBytesPerPoll
    /\ LET d == ProcessByte(dec, Head(chunk))
       IN  /\ IF d.pending # None
              THEN ReturnItem(d)
              ELSE dec' = d /\ UNCHANGED <<polling, wake, delivered, ended>>
           /\ chunk' = IF d.terminal THEN <<>> ELSE Tail(chunk)
    /\ consumed' = Append(consumed, Head(chunk))
    /\ bytes_processed' = bytes_processed + 1
    /\ UNCHANGED <<chunks_polled, empties, upstream>>

YieldWithoutWake ==
    /\ polling
    /\ \/ chunk # <<>> /\ bytes_processed >= MaxBytesPerPoll
       \/ chunk = <<>> /\ chunks_polled >= MaxChunksPerPoll
    /\ ReturnPending("none")
Yield ==
    /\ polling
    /\ \/ chunk # <<>> /\ bytes_processed >= MaxBytesPerPoll
       \/ chunk = <<>> /\ chunks_polled >= MaxChunksPerPoll
    /\ ReturnPending("due")

PollsUpstream ==
    polling /\ chunk = <<>> /\ chunks_polled < MaxChunksPerPoll
            /\ upstream.state = "open"

EmptyChunk ==
    /\ PollsUpstream /\ empties < MaxEmpty
    /\ empties' = empties + 1
    /\ chunks_polled' = chunks_polled + 1
    /\ UNCHANGED <<dec, chunk, polling, bytes_processed, wake, delivered,
                   ended, consumed, upstream>>

TakeChunk(c) ==
    /\ PollsUpstream /\ Len(consumed) + Len(c) <= Feeds[upstream.feed].max
    /\ chunks_polled' = chunks_polled + 1
    /\ IF Len(c) > MaxChunkBytes
       THEN ReturnItem(Fail(dec, "ChunkBytes")) /\ UNCHANGED chunk
       ELSE /\ chunk' = c
            /\ UNCHANGED <<dec, polling, wake, delivered, ended>>
    /\ UNCHANGED <<bytes_processed, consumed, empties, upstream>>

UpstreamFails ==
    /\ PollsUpstream
    /\ upstream' = [upstream EXCEPT !.state = "failed"]
    /\ ReturnItem(Fail(dec, "Upstream"))
    /\ UNCHANGED <<chunk, bytes_processed, chunks_polled, consumed, empties>>

UpstreamEnds ==
    /\ PollsUpstream
    /\ upstream' = [upstream EXCEPT !.state = "closed"]
    /\ ReturnItem(FinishEof(dec))
    /\ UNCHANGED <<chunk, bytes_processed, chunks_polled, consumed, empties>>

UpstreamPending == PollsUpstream /\ ReturnPending("registered")

\* The upstream holds the waker of the poll that found it pending.
UpstreamWakes ==
    /\ ~polling /\ wake = "registered"
    /\ wake' = "due"
    /\ UNCHANGED <<dec, chunk, polling, bytes_processed, chunks_polled,
                   delivered, ended, consumed, empties, upstream>>

Next ==
    \/ StartPoll \/ DecodeByte \/ Yield
    \/ EmptyChunk \/ UpstreamFails \/ UpstreamEnds \/ UpstreamPending
    \/ \E c \in Feeds[upstream.feed].chunks : TakeChunk(c)
    \/ UpstreamWakes

Spec == Init /\ [][Next]_vars

\* The runtime polls a woken task, and a running poll_next goes on.
FairSpec == Spec /\ WF_vars(StartPoll) /\ WF_vars(DecodeByte) /\ WF_vars(Yield)

-----------------------------------------------------------------------------
(* The reference: framing of the whole input at once.  The bytes are cut   *)
(* at line ends, the lines at blank lines, and every group of lines with a *)
(* data field is an event.                                                 *)

Indices(s) == [i \in 1..Len(s) |-> i]

Normalise(bs) ==
    LET at == SelectSeq(Indices(bs), LAMBDA i :
                bs[i] # "lf" \/ i = 1 \/ bs[i - 1] # "cr")
    IN  [k \in DOMAIN at |-> bs[at[k]]]

\* The pieces of s between the elements that separate; the last is open.
Pieces(s, Separates(_)) ==
    LET cuts == <<0>> \o SelectSeq(Indices(s), LAMBDA i : Separates(s[i]))
                     \o <<Len(s) + 1>>
    IN  [k \in 1..(Len(cuts) - 1) |-> SubSeq(s, cuts[k] + 1, cuts[k + 1] - 1)]

RawLines(bs) == Pieces(Normalise(bs), LAMBDA b : b \in {"cr", "lf"})
Lines(bs, eof) == LET ls == RawLines(bs)
                  IN  IF eof /\ Last(ls) # <<>> THEN ls ELSE Front(ls)
Groups(ls) == Pieces(ls, LAMBDA l : l = <<>>)
Fields(ls) == SelectSeq(ls, LAMBDA l : Head(l) # "colon")
Values(ls, name) ==
    LET named == SelectSeq(Fields(ls), LAMBDA l : FieldName(l) = <<name>>)
    IN  [k \in DOMAIN named |-> FieldValue(named[k])]
LastOf(vs) == IF vs = <<>> THEN None ELSE Some(Last(vs))

GroupEvent(gs, k) ==
    LET ids == FlattenSeq([j \in 1..k |->
                 SelectSeq(Values(gs[j], "id"), LAMBDA v : ~Contains(v, "nul"))])
    IN  SseEvent(JoinLines(Values(gs[k], "data")),
                 LastOf(Values(gs[k], "event")), LastOf(ids),
                 LastOf(SelectSeq(Values(gs[k], "retry"), IsRetry)))

Framed(bs, eof) ==
    LET all    == Groups(Lines(bs, eof))
        gs     == IF eof THEN all ELSE Front(all)
        events == SelectSeq(Indices(gs), LAMBDA k : Values(gs[k], "data") # <<>>)
    IN  [n \in DOMAIN events |-> GroupEvent(gs, events[n])]

\* The limits the input breaks: the bytes of a group count its line ends,
\* the blank line and an open last line.
Breaks(bs, eof) ==
    LET ls       == RawLines(bs)
        gs       == Groups(Front(ls))
        Size(g)  == Len(FlattenSeq(g)) + Len(g)
        sizes    == {Size(gs[k]) + 1 : k \in 1..(Len(gs) - 1)}
                    \cup {Size(Last(gs)) + Len(Last(ls))}
    IN  {e \in {"EventBytes", "LineBytes", "Fields", "InvalidUtf8"} :
           CASE e = "EventBytes" -> Max(sizes) > MaxEventBytes
             [] e = "LineBytes"  -> \E k \in DOMAIN ls : Len(ls[k]) > MaxLineBytes
             [] e = "Fields" ->
                  \E k \in DOMAIN Groups(Lines(bs, eof)) :
                    Len(Fields(Groups(Lines(bs, eof))[k])) > MaxFieldsPerEvent
             [] e = "InvalidUtf8" ->
                  \E k \in DOMAIN Lines(bs, eof) : ~ValidUtf8(Lines(bs, eof)[k])}

-----------------------------------------------------------------------------
(* Properties *)

Failed == delivered # <<>> /\ IsError(Last(delivered))
AtEof == upstream.state = "closed"

\* Wherever chunks are cut and polls yield, the events delivered are the
\* framing of the bytes read so far: CR, LF and CRLF end a line even when
\* split over two chunks, end of input flushes an unterminated event, and a
\* decoder that fails has delivered only events of the reference.
FramingMatchesReference ==
    IF Failed
    THEN IsPrefix(Front(delivered), Framed(consumed, AtEof))
    ELSE delivered = Framed(consumed, AtEof)

\* process_byte and finish_line report exactly the limits that the input
\* breaks: a decoder that has not failed saw no oversized event, line or field
\* count and no invalid line, and one that failed names a limit broken.
LimitsMatchReference ==
    IF Failed
    THEN Last(delivered).error \in Breaks(consumed, AtEof)
                                   \cup {"ChunkBytes", "Upstream"}
    ELSE Breaks(consumed, AtEof) = {}

\* All that the decoder retains of one event, the joined data, the open line
\* and their line ends, is paid for by event_bytes and so stays within
\* max_event_bytes.
BufferIsBounded ==
    ~dec.terminal =>
        /\ Len(FlattenSeq(dec.data_lines)) + Len(dec.data_lines) + Len(dec.line)
             <= dec.event_bytes
        /\ dec.event_bytes <= MaxEventBytes
        /\ Len(dec.line) <= MaxLineBytes

\* A chunk handed over is decoded to its end even if nothing more arrives:
\* a poll that stops at its byte or chunk budget wakes its own task.
ChunksAreDecoded == (chunk # <<>>) ~> (chunk = <<>>)
=============================================================================
