----------------------------- MODULE ProxyWire -----------------------------
(***************************************************************************)
(* What the message proxy makes of a request's history: the blocks it       *)
(* accepts, the split into history and input, the key of a history, the     *)
(* answers to the tool calls asked for, and the session file a history is   *)
(* restored from.  Texts are sequences of characters, of which " " is white *)
(* space and "/" stands for the blank line that joins texts.                *)
(***************************************************************************)
EXTENDS Naturals, Sequences, SequencesExt

Blank(text) == \A i \in DOMAIN text : text[i] = " "
Join(texts) ==
    IF texts = <<>> THEN <<>> ELSE FoldLeft(LAMBDA acc, t : acc \o <<"/">> \o t, Head(texts), Tail(texts))
MapSeq(Op(_), s) == [i \in DOMAIN s |-> Op(s[i])]

\* The blocks of a history, and of a reply.
TextBlock(t) == [type |-> "text", text |-> t]
ImageBlock(i) == [type |-> "image", image |-> i]
ToolUse(id, n, in) == [type |-> "tool_use", id |-> id, name |-> n, input |-> in]
ToolResult(id, t, err, images) == [type |-> "tool_result", id |-> id, text |-> t, err |-> err, images |-> images]
OfType(blocks, type) == SelectSeq(blocks, LAMBDA b : b.type = type)
TextsOf(blocks) == MapSeq(LAMBDA b : b.text, OfType(blocks, "text"))
ImagesOf(blocks) == MapSeq(LAMBDA b : b.image, OfType(blocks, "image"))

\* What a step returns that may refuse its argument.
Refused == [ok |-> FALSE]
Done(v) == [ok |-> TRUE, value |-> v]
Collected(rs) == IF \A i \in DOMAIN rs : rs[i].ok THEN Done(MapSeq(LAMBDA r : r.value, rs)) ELSE Refused

\* The content of a tool result may hold text and base64 images, nothing else.
ResultOf(w) ==
    LET inner == w.content IN
    IF inner.kind = "string" THEN Done(ToolResult(w.id, inner.text, w.err, <<>>))
    ELSE IF inner.kind = "none" THEN Done(ToolResult(w.id, <<>>, w.err, <<>>))
    ELSE IF inner.kind = "list" /\ \A i \in DOMAIN inner.blocks : inner.blocks[i].type \in {"text", "image"}
    THEN Done(ToolResult(w.id, Join(TextsOf(inner.blocks)), w.err, ImagesOf(inner.blocks)))
    ELSE Refused

BlockOf(w) ==
    CASE w.type \in {"text", "image", "tool_use"} -> Done(w)
      [] w.type = "tool_result" -> ResultOf(w)
      [] OTHER -> Refused       \* an image by URL, or a block of another type

BlocksOf(raw) ==
    CASE raw.kind = "none" -> Done(<<>>)
      [] raw.kind = "string" -> Done(<<TextBlock(raw.text)>>)
      [] raw.kind = "list" -> Collected(MapSeq(BlockOf, raw.blocks))
      [] OTHER -> Refused       \* not JSON of either shape

Message(role, blocks) == [role |-> role, content |-> blocks]
Normalise(wire) ==
    Collected(MapSeq(LAMBDA m : LET b == BlocksOf(m.content) IN IF b.ok THEN Done(Message(m.role, b.value)) ELSE Refused, wire))

\* The input is the run of user messages at the end.
InputFrom(history) ==
    CHOOSE i \in 1..Len(history) + 1 :
        /\ \A j \in i..Len(history) : history[j].role = "user"
        /\ i = 1 \/ history[i - 1].role # "user"
SplitInput(history) ==
    LET i == InputFrom(history) IN [prior |-> SubSeq(history, 1, i - 1), input |-> SubSeq(history, i, Len(history))]

AllBlocks(messages) == FlattenSeq(MapSeq(LAMBDA m : m.content, messages))
DecodeImage(image) == image # "not base64"
PromptOf(input) ==
    LET blocks == AllBlocks(input) IN
    IF \A i \in DOMAIN blocks : blocks[i].type = "text" \/ (blocks[i].type = "image" /\ DecodeImage(blocks[i].image))
    THEN Done([text |-> Join(TextsOf(blocks)), images |-> ImagesOf(blocks)]) ELSE Refused
HasToolResults(input) == \E i \in DOMAIN AllBlocks(input) : AllBlocks(input)[i].type = "tool_result"

ResultIds(blocks) == {b.id : b \in ToSet(OfType(blocks, "tool_result"))}
LastOf(blocks, id) == Last(SelectSeq(blocks, LAMBDA b : b.type = "tool_result" /\ b.id = id))
Readable(b) ==
    CASE b.type = "text" -> TRUE
      [] b.type = "image" -> DecodeImage(b.image)
      [] b.type = "tool_result" -> \A i \in DOMAIN b.images : DecodeImage(b.images[i])
      [] OTHER -> FALSE
\* Broken: what came with the results is left out.
AnswersOnly(input, asked) ==
    LET blocks == AllBlocks(input)
        Plain(id) == [text |-> LastOf(blocks, id).text, err |-> LastOf(blocks, id).err, images |-> LastOf(blocks, id).images]
    IN IF (\A i \in DOMAIN blocks : Readable(blocks[i])) /\ ResultIds(blocks) = asked
       THEN Done([id \in asked |-> Plain(id)]) ELSE Refused

\* answers: the results by id, the last of an id; what came with them goes on
\* the last result.  (A parked conversation has asked for one tool at least.)
Answers(input, asked) ==
    LET blocks == AllBlocks(input)
        extra == SelectSeq(TextsOf(blocks), LAMBDA t : ~Blank(t))
        last == Last(OfType(blocks, "tool_result")).id
        Plain(id) == [text |-> LastOf(blocks, id).text, err |-> LastOf(blocks, id).err, images |-> LastOf(blocks, id).images]
        Full(id) == [Plain(id) EXCEPT !.text = Join((IF @ = <<>> THEN <<>> ELSE <<@>>) \o extra),
                                      !.images = @ \o ImagesOf(blocks)]
    IN IF (\A i \in DOMAIN blocks : Readable(blocks[i])) /\ ResultIds(blocks) = asked
       THEN Done([id \in asked |-> IF id = last THEN Full(id) ELSE Plain(id)]) ELSE Refused

\* Broken: texts that follow each other are kept apart.
AddCanonicalApart(acc, b) == IF b.type = "text" /\ Blank(b.text) THEN acc ELSE Append(acc, b)

\* The key of a history is the hash of its canonical form.
AddCanonical(acc, b) ==
    IF b.type = "text" /\ Blank(b.text) THEN acc
    ELSE IF b.type = "text" /\ acc # <<>> /\ Last(acc).type = "text"
    THEN Append(Front(acc), TextBlock(Last(acc).text \o b.text))
    ELSE Append(acc, b)
Canonicalise(history) == MapSeq(LAMBDA m : Message(m.role, FoldLeft(AddCanonical, <<>>, m.content)), history)

\* claim: the first frame of that name whose input is the same JSON value.
Canonical(input) == input.value
Matching(unclaimed, name, args) ==
    {i \in DOMAIN unclaimed : unclaimed[i].name = name /\ Canonical(unclaimed[i].input) = Canonical(args)}
Claim(unclaimed, name, args) ==
    LET hits == Matching(unclaimed, name, args) IN
    IF hits = {} THEN Refused
    ELSE LET i == CHOOSE i \in hits : \A j \in hits : i <= j IN
         Done([id |-> unclaimed[i].id, rest |-> RemoveAt(unclaimed, i)])

\* Broken: every message is a record of its own.
MergeNothing(history) == history

\* The session file: a record for each run of messages of one role, without
\* white space texts, and none for a run that has nothing else.
MergeRoles(history) ==
    FoldLeft(LAMBDA acc, m : IF acc # <<>> /\ Last(acc).role = m.role
                             THEN Append(Front(acc), Message(m.role, Last(acc).content \o m.content))
                             ELSE Append(acc, m), <<>>, history)
TranscriptContent(m) ==
    MapSeq(LAMBDA b : IF b.type = "tool_use" THEN [b EXCEPT !.name = <<"mcp__pi__", b.name>>] ELSE b,
           SelectSeq(m.content, LAMBDA b : ~(b.type = "text" /\ Blank(b.text))))
StopReason(m) == IF OfType(m.content, "tool_use") # <<>> THEN "tool_use" ELSE "end_turn"
WriteTranscript(history) ==
    IF history = <<>> \/ history[1].role # "user" THEN Refused
    ELSE Done(MapSeq(LAMBDA m : [role |-> m.role, content |-> TranscriptContent(m),
                                 stop |-> IF m.role = "assistant" THEN StopReason(m) ELSE ""],
                     SelectSeq(MergeRoles(history), LAMBDA m : TranscriptContent(m) # <<>>)))
============================================================================
