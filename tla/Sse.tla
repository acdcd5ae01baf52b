-------------------------------- MODULE Sse --------------------------------
(***************************************************************************)
(* A streamed reply of the message proxy: what conv.collect does with the   *)
(* events of the session, for the reply and for the stream, and the stream  *)
(* events sse sends.  A reader of the stream is at the end.                 *)
(***************************************************************************)
EXTENDS ProxyWire, FiniteSets

\* conv.pending and the fields of sse, with what was sent so far.
StartSSE == [pending |-> <<>>, index |-> 0, open |-> FALSE, unconfirmed |-> 0, sent |-> <<>>]
Send(s, event) == [s EXCEPT !.sent = Append(@, event)]
BlockStart(s, block) == [event |-> "content_block_start", index |-> s.index, block |-> block]
Delta(s, text) == [event |-> "content_block_delta", index |-> s.index, text |-> text]
BlockStop(s) == [event |-> "content_block_stop", index |-> s.index]

Write(s, text) ==
    LET t == IF s.open THEN s ELSE [Send(s, BlockStart(s, TextBlock(<<>>))) EXCEPT !.open = TRUE]
    IN Send(t, Delta(t, text))

CloseText(s) ==
    IF ~s.open THEN s
    ELSE [Send(s, BlockStop(s)) EXCEPT !.open = FALSE, !.unconfirmed = 0, !.index = @ + 1]

\* A finished text writes what no delta has streamed; the block is closed when
\* all that was streamed is finished.
Text(s, full) ==
    LET t == IF Len(full) > s.unconfirmed THEN Write(s, SubSeq(full, s.unconfirmed + 1, Len(full))) ELSE s
        left == IF Len(full) > s.unconfirmed THEN 0 ELSE s.unconfirmed - Len(full)
        u == [t EXCEPT !.unconfirmed = left, !.pending = Append(@, TextBlock(full))]
    IN IF left = 0 THEN CloseText(u) ELSE u

Tool(s, b) ==
    LET t == CloseText([s EXCEPT !.pending = Append(@, b)])
        u == Send(Send(t, BlockStart(t, [b EXCEPT !.input = <<>>])), Delta(t, b.input))
    IN [Send(u, BlockStop(t)) EXCEPT !.index = @ + 1]

\* collect: thinking is not streamed, and neither is anything but these.
Collect(s, ev) ==
    CASE ev.type = "delta" -> [Write(s, ev.text) EXCEPT !.unconfirmed = @ + Len(ev.text)]
      [] ev.type = "text" -> Text(s, ev.text)
      [] ev.type = "tool_use" -> Tool(s, ev)
      [] OTHER -> s

Finish(s) == Send(CloseText(s), [event |-> "message_stop"])
Streamed(events) == Finish(FoldLeft(Collect, StartSSE, events))

(* ------------------------------ its reader ------------------------------ *)

\* A stream that any reader takes: blocks open one at a time, numbered in order,
\* each closed once, and every delta is for the open block.
Blocks(sent) == SelectSeq(sent, LAMBDA e : e.event # "message_stop")
WellNested(sent) ==
    LET b == Blocks(sent)
        starts(i) == {j \in 1..i : b[j].event = "content_block_start"}
        stops(i) == {j \in 1..i : b[j].event = "content_block_stop"} IN
    /\ \A i \in DOMAIN b :
        /\ b[i].event = "content_block_start" => b[i].index = Cardinality(stops(i)) /\ Cardinality(starts(i)) = b[i].index + 1
        /\ b[i].event # "content_block_start" =>
              b[i].index + 1 = Cardinality(starts(i)) /\ Cardinality(stops(i - 1)) = b[i].index
    /\ Cardinality(starts(Len(b))) = Cardinality(stops(Len(b)))

\* The reply a reader puts together from the stream.
Take(acc, e) ==
    CASE e.event = "content_block_start" -> Append(acc, e.block)
      [] e.event = "content_block_delta" ->
            LET b == Last(acc) IN
            Append(Front(acc), IF b.type = "text" THEN TextBlock(b.text \o e.text) ELSE [b EXCEPT !.input = e.text])
      [] OTHER -> acc
Received(sent) == FoldLeft(Take, <<>>, sent)
============================================================================
