-------------------------------- MODULE Cases --------------------------------
(***************************************************************************)
(* The pure functions of the program on every input of a small set: a step  *)
(* takes a case, and each property compares what the code makes of it with  *)
(* a definition of what it promises.  MCControlRequests takes the cases.    *)
(***************************************************************************)
EXTENDS Sse
D == INSTANCE Diff
F == INSTANCE Files
T == INSTANCE Tools

VARIABLE case
None == [of |-> "none"]
SeqsUpTo(n, S) == BoundedSeq(S, n)

(* -------------------------------- streams ------------------------------- *)

T1 == ToolUse("t1", "read", "x")
StreamEvents ==
    {[type |-> "delta", text |-> t] : t \in {<<"a">>, <<" ">>, <<"a", "a">>}}
    \cup {[type |-> "text", text |-> t] : t \in {<<"a">>, <<" ">>, <<"a", "a">>}}
    \cup {T1, [type |-> "thinking"]}
\* What a session emits: a text is streamed, whole or in part, before it is
\* finished, or not at all; what was streamed is finished before a tool and at the
\* end.  "left" is what has been streamed and not finished.
Coherent(events) ==
    LET Step(left, e) ==
            CASE left = <<"no">> -> left
              [] left # <<"no">> /\ e.type = "delta" -> left \o e.text
              [] left # <<"no">> /\ e.type = "text" ->
                    IF IsPrefix(e.text, left) THEN SubSeq(left, Len(e.text) + 1, Len(left))
                    ELSE IF IsPrefix(left, e.text) THEN <<>> ELSE <<"no">>
              [] e.type = "tool_use" -> IF left = <<>> THEN <<>> ELSE <<"no">>
              [] OTHER -> left
    IN FoldLeft(Step, <<>>, events) = <<>>
\* A white space text was streamed in one block with the text around it, which takes
\* two texts of which the second is streamed before the first is finished.
BlankCovered(events) ==
    \E i \in DOMAIN events :
        /\ events[i].type = "text" /\ Blank(events[i].text)
        /\ Last(Received(FoldLeft(Collect, StartSSE, SubSeq(events, 1, i)).sent)).text # events[i].text
Streams == {[of |-> "stream", events |-> e] : e \in {e \in SeqsUpTo(5, StreamEvents) : Coherent(e)}}

\* The blocks of a streamed reply are well nested, and the client that sends back
\* what it put together from them has the key under which the conversation waits
\* for it, however the texts were cut into deltas.  (White space that shares a
\* block of the stream with a text is the exception: it is part of that text then.)
StreamFaithful ==
    case.of = "stream" =>
        LET s == Streamed(case.events) IN
        /\ WellNested(s.sent)
        /\ BlankCovered(case.events)
           \/ Canonicalise(<<Message("assistant", Received(s.sent))>>) = Canonicalise(<<Message("assistant", s.pending)>>)

(* --------------------------------- keys --------------------------------- *)

KeyBlocks == {TextBlock(<<"a">>), TextBlock(<<" ">>), TextBlock(<<"a", "a">>), T1, ImageBlock("i")}
KeyMessages == {Message(r, c) : r \in {"user", "assistant"}, c \in SeqsUpTo(3, KeyBlocks)}
\* A message as what it says, however it is cut into texts.
TextChar(c) == [type |-> "char", char |-> c]
Says(m) == FlattenSeq(MapSeq(LAMBDA b : IF b.type # "text" THEN <<b>> ELSE IF Blank(b.text) THEN <<>> ELSE MapSeq(TextChar, b.text), m.content))
SayAll(history) == MapSeq(LAMBDA m : <<m.role, Says(m)>>, history)
Keys == {[of |-> "keys", one |-> <<m>>, other |-> <<n>>] : m, n \in {m \in KeyMessages : m.role = "assistant"}}

\* Two histories have the same key exactly when they say the same: white space and
\* the places where a text is cut do not count, everything else does.
KeysFaithful ==
    case.of = "keys" =>
        (Canonicalise(case.one) = Canonicalise(case.other)) <=> (SayAll(case.one) = SayAll(case.other))

(* -------------------------------- answers ------------------------------- *)

Results == {ToolResult(id, <<"a">>, FALSE, im) : id \in {"t1", "t2"}, im \in {<<>>, <<"i">>, <<"not base64">>}}
AnswerBlocks == Results \cup {TextBlock(<<"b">>), TextBlock(<<" ">>), ImageBlock("j"), T1}
Inputs == {[of |-> "answers", input |-> <<Message("user", c)>>, asked |-> a] :
              c \in SeqsUpTo(4, AnswerBlocks), a \in {{"t1"}, {"t1", "t2"}}}
Count(P(_), s) == Len(SelectSeq(s, P))

\* The tools parked get an answer each, to the call they were asked for, or the
\* input is no answer at all; and everything that came with the results reaches
\* the model, once.
AnswersExact ==
    case.of = "answers" =>
        LET blocks == AllBlocks(case.input)
            a == Answers(case.input, case.asked)
            given == {b \in ToSet(blocks) : b.type = "tool_result"}
        IN a.ok =>
           /\ DOMAIN a.value = case.asked /\ {b.id : b \in given} = case.asked
           /\ \A id \in case.asked : \E b \in given : b.id = id /\ IsPrefix(b.text, a.value[id].text)
           /\ LET Holds(x, id) == Count(LAMBDA c : c = x, a.value[id].text) IN
              \A x \in {"b"} :
                 FoldSet(LAMBDA id, n : n + Holds(x, id), 0, case.asked) =
                    Count(LAMBDA c : c = x, FlattenSeq(TextsOf(blocks)))
           /\ FoldSet(LAMBDA id, n : n + Count(LAMBDA c : c = "j", a.value[id].images), 0, case.asked) =
                 Count(LAMBDA b : b.type = "image", blocks)
           /\ \A id \in case.asked : \A i \in DOMAIN a.value[id].images : DecodeImage(a.value[id].images[i])

\* The calls of a turn come back without their ids, in any order.
Call(id, n, v, spelling) == ToolUse(id, n, [value |-> v, spelling |-> spelling])
CallSets == {<<Call("t1", n1, v1, s1), Call("t2", n2, v2, "frame"), Call("t3", "read", 1, "frame")>> :
                n1, n2 \in {"read", "bash"}, v1, v2 \in {1, 2}, s1 \in {"frame", "call"}}
Perms3 == {<<1, 2, 3>>, <<1, 3, 2>>, <<2, 1, 3>>, <<2, 3, 1>>, <<3, 1, 2>>, <<3, 2, 1>>}
Claims == {[of |-> "claims", frames |-> c, order |-> o] : c \in CallSets, o \in Perms3}
ClaimAll(frames, order) ==
    FoldLeft(LAMBDA acc, k :
                LET r == Claim(acc.rest, frames[k].name, [value |-> frames[k].input.value, spelling |-> "call"])
                IN IF r.ok THEN [ids |-> Append(acc.ids, r.value.id), rest |-> r.value.rest] ELSE acc,
             [ids |-> <<>>, rest |-> frames], order)

\* Every call of a turn finds a tool_use of its own with its name and its
\* arguments, in whatever order they come and however their JSON is spelled.
ClaimsAreOwn ==
    case.of = "claims" =>
        LET ids == ClaimAll(case.frames, case.order).ids
            Frame(id) == CHOOSE i \in DOMAIN case.frames : case.frames[i].id = id
        IN /\ Len(ids) = 3 /\ IsInjective(ids)
           /\ \A k \in 1..3 : LET f == case.frames[Frame(ids[k])]  c == case.frames[case.order[k]] IN
                 f.name = c.name /\ f.input.value = c.input.value

(* ------------------------------- requests ------------------------------- *)

Raw(blocks) == [kind |-> "list", blocks |-> blocks]
RawTexts == {[kind |-> "none"], [kind |-> "other"], [kind |-> "string", text |-> <<"a">>]}
WireResult(c) == [type |-> "tool_result", id |-> "t1", err |-> FALSE, content |-> c]
Plain == {TextBlock(<<"a">>), ImageBlock("i"), ImageBlock("not base64"), T1, [type |-> "thinking"]}
WireBlocks == Plain \cup {WireResult(c) : c \in RawTexts \cup {Raw(b) : b \in SeqsUpTo(2, Plain)}}
WireMessages == {Message(r, c) : r \in {"user", "assistant"}, c \in RawTexts \cup {Raw(b) : b \in SeqsUpTo(2, WireBlocks)}}
ShortMessages(S) == {Message(r, Raw(b)) : r \in {"user", "assistant"}, b \in SeqsUpTo(1, S)}
Requests == {[of |-> "request", wire |-> <<m>>] : m \in WireMessages}
    \cup {[of |-> "request", wire |-> p \o <<m>>] : p \in SeqsUpTo(2, ShortMessages(Plain)), m \in ShortMessages(WireBlocks)}

\* What a client says, block by block, the blocks of its tool results included.
Inside(raw) == CASE raw.kind = "list" -> raw.blocks [] raw.kind = "string" -> <<TextBlock(raw.text)>> [] OTHER -> <<>>
Leaves(raw) == FlattenSeq(MapSeq(LAMBDA b : IF b.type = "tool_result" THEN Inside(b.content) ELSE <<b>>, Inside(raw)))
Sent(wire) == FlattenSeq(MapSeq(LAMBDA m : Leaves(m.content), wire))
Understood(raw) ==
    /\ raw.kind # "other"
    /\ \A i \in DOMAIN Inside(raw) : LET b == Inside(raw)[i] IN
          /\ b.type # "thinking"
          /\ b.type = "tool_result" => /\ b.content.kind # "other"
                                       /\ ToSet(MapSeq(LAMBDA x : x.type, Inside(b.content))) \subseteq {"text", "image"}
CountOf(text) == Count(LAMBDA c : c = "a", text)
ImagesIn(block) == CASE block.type = "image" -> <<block.image>> [] block.type = "tool_result" -> block.images [] OTHER -> <<>>
TextIn(block) == IF block.type \in {"text", "tool_result"} THEN block.text ELSE <<>>

\* A request is refused rather than understood in part: what is accepted holds every
\* text and image the client sent; the input is all that came after the last reply;
\* and as a prompt it loses nothing either, unless it is not a prompt but results.
RequestsWhole ==
    case.of = "request" =>
        LET r == Normalise(case.wire)
            s == SplitInput(r.value)
            p == PromptOf(s.input)
            asked == SubSeq(case.wire, Len(s.prior) + 1, Len(case.wire))
            Whole(sent, text, images) ==
                /\ CountOf(text) = CountOf(FlattenSeq(TextsOf(sent)))
                /\ Len(images) = Len(ImagesOf(sent))
        IN /\ r.ok <=> \A i \in DOMAIN case.wire : Understood(case.wire[i].content)
           /\ r.ok => LET blocks == AllBlocks(r.value) IN
                 /\ Whole(Sent(case.wire), FlattenSeq(MapSeq(TextIn, blocks)), FlattenSeq(MapSeq(ImagesIn, blocks)))
                 /\ s.prior \o s.input = r.value
                 /\ \A i \in DOMAIN s.input : s.input[i].role = "user"
                 /\ s.prior = <<>> \/ Last(s.prior).role # "user"
                 /\ IF p.ok THEN Whole(Sent(asked), p.value.text, p.value.images) /\ ~HasToolResults(s.input)
                    ELSE \E i \in DOMAIN AllBlocks(s.input) :
                            LET b == AllBlocks(s.input)[i] IN
                            b.type \in {"tool_use", "tool_result"} \/ (b.type = "image" /\ ~DecodeImage(b.image))

(* ----------------------------- session files ---------------------------- *)

FileBlocks == {TextBlock(<<"a">>), TextBlock(<<" ">>), T1, ToolResult("t1", <<"a">>, FALSE, <<>>)}
FileMessages == {Message(r, c) : r \in {"user", "assistant"}, c \in SeqsUpTo(2, FileBlocks)}
Histories == {[of |-> "restore", history |-> h] :
                 h \in {h \in SeqsUpTo(3, FileMessages) : \A i \in DOMAIN h : i < Len(h) => Len(h[i].content) < 2 \/ h[i].role = "user"}}
Unprefixed(b) == IF b.type = "tool_use" THEN [b EXCEPT !.name = @[2]] ELSE b

\* The session a conversation is restored from says what the history says, with
\* user and assistant taking turns unless all one of them said was white space.
TranscriptFaithful ==
    case.of = "restore" =>
        LET w == WriteTranscript(case.history)
            Spoken(h) == SelectSeq(SayAll(h), LAMBDA m : m[2] # <<>>)
            Joined(says) == FoldLeft(LAMBDA acc, m : IF acc # <<>> /\ Last(acc)[1] = m[1]
                                        THEN Append(Front(acc), <<m[1], Last(acc)[2] \o m[2]>>) ELSE Append(acc, m), <<>>, says)
            file == MapSeq(LAMBDA r : Message(r.role, MapSeq(Unprefixed, r.content)), w.value)
        IN w.ok =>
           /\ Joined(Spoken(file)) = Joined(Spoken(case.history))
           /\ (\A i \in DOMAIN case.history : Says(case.history[i]) # <<>>) =>
                 \A i \in 1..Len(file) - 1 : file[i].role # file[i + 1].role
           /\ \A i \in DOMAIN file : (w.value[i].stop = "tool_use") <=>
                 (file[i].role = "assistant" /\ \E b \in ToSet(file[i].content) : b.type = "tool_use")

(* --------------------------------- diffs -------------------------------- *)

Ten == <<"1", "2", "3", "4", "5", "6", "7", "8", "9", "10">>
Edited(p, q) == {ReplaceAt(RemoveAt(Ten, p), IF q > p THEN q - 1 ELSE q, "x"), ReplaceAt(InsertAt(Ten, p, "x"), q, "y")}
Diffs == {[of |-> "diff", before |-> a, after |-> b] : a, b \in SeqsUpTo(4, {"x", "y"})}
    \cup UNION {{[of |-> "diff", before |-> Ten, after |-> b] : b \in Edited(p, q)} : p, q \in 2..10}
    \cup {[of |-> "diff", before |-> Ten, after |-> RemoveAt(Ten, p)] : p \in 1..10}
At(s, S) == SelectSeq([i \in DOMAIN s |-> <<i, s[i]>>], LAMBDA x : x[1] \in S)
LinesAt(s, S) == MapSeq(LAMBDA x : x[2], At(s, S))
LongestCommon(a, b) == CHOOSE n \in {Cardinality(S) : S \in SUBSET DOMAIN a} :
    /\ \E S \in SUBSET DOMAIN a, U \in SUBSET DOMAIN b : Cardinality(S) = n /\ LinesAt(a, S) = LinesAt(b, U)
    /\ \A S \in SUBSET DOMAIN a, U \in SUBSET DOMAIN b : LinesAt(a, S) = LinesAt(b, U) => Cardinality(S) <= n

\* The diff shown applies: its lines are those of the two texts at the numbers it
\* gives, in order, and the lines it leaves out are the same in both, three lines
\* away from every change at least, with a gap wherever some are missing; and no
\* diff of the two has fewer lines added and removed.
DiffFaithful ==
    case.of = "diff" =>
        LET a == case.before  b == D!Split(case.after)  d == D!UnifiedDiff(a, case.after)
            Nums(f(_), kinds) == MapSeq(f, SelectSeq(d, LAMBDA h : h.kind \in kinds))
            olds == Nums(LAMBDA h : h.old, {"keep", "del"})  news == Nums(LAMBDA h : h.new, {"keep", "add"})
            deleted == ToSet(Nums(LAMBDA h : h.old, {"del"}))  added == ToSet(Nums(LAMBDA h : h.new, {"add"}))
            hiddenOld == DOMAIN a \ ToSet(olds)  hiddenNew == DOMAIN b \ ToSet(news)
        IN /\ \A i \in DOMAIN d :
                /\ d[i].kind \in {"keep", "del"} => d[i].old \in DOMAIN a /\ a[d[i].old] = d[i].text
                /\ d[i].kind \in {"keep", "add"} => d[i].new \in DOMAIN b /\ b[d[i].new] = d[i].text
           /\ \A i \in 1..Len(olds) - 1 : olds[i] < olds[i + 1]
           /\ \A i \in 1..Len(news) - 1 : news[i] < news[i + 1]
           /\ LinesAt(a, hiddenOld) = LinesAt(b, hiddenNew)
           /\ \A i \in hiddenOld, k \in deleted : i < k - 3 \/ i > k + 3
           /\ \A j \in hiddenNew, k \in added : j < k - 3 \/ j > k + 3
           /\ \A i \in 2..Len(d) : d[i].kind # "gap" /\ d[i].old > 0 /\ d[i].old - 1 \in hiddenOld
                    /\ (\E o \in ToSet(olds) : o < d[i].old) => d[i - 1].kind = "gap"
           /\ Len(a) <= 4 =>
                 D!CountChanges(d) = [added |-> Len(b) - LongestCommon(a, b), removed |-> Len(a) - LongestCommon(a, b)]

(* --------------------------------- files -------------------------------- *)

Links == {<<>>} \cup {<<"w", "p">> :> t : t \in {<<"w">>, <<"w", "w">>, <<"p">>}}
                \cup {<<"w", "p", "w">> :> t : t \in {<<"w", "p">>, <<"w">>, <<"p">>}}
Resolves == {[of |-> "resolve", root |-> r, path |-> [abs |-> ab, names |-> n], links |-> l] :
                r \in {<<"w">>, <<"w", "p">>}, ab \in BOOLEAN, n \in SeqsUpTo(4, {"w", "p", "..", "."}), l \in Links}
Trees == {[of |-> "tree", name |-> n, max |-> m, tree |-> t] : n \in {"w", "build"}, m \in {1, 5}, t \in
    {(<<"a">> :> "file") @@ (<<"d">> :> k) @@ (<<"d", "a">> :> "file") @@ (<<"vendor">> :> l) @@ (<<"vendor", "a">> :> "file")
        @@ (<<"w">> :> "file") : k, l \in {"dir", "unreadable", "link"}}}
VisitOrder == <<<<"a">>, <<"d">>, <<"d", "a">>, <<"vendor">>, <<"vendor", "a">>, <<"w">>>>
Edits == {[of |-> "edit", text |-> t, old |-> o, new |-> n] :
             t \in SeqsUpTo(4, {"a", "b"}), o \in SeqsUpTo(3, {"a", "b"}), n \in SeqsUpTo(1, {"c"})}
Reads == {[of |-> "read", lines |-> l, start |-> s, cut |-> k, end |-> e] :
             l \in SeqsUpTo(4, {"a", "b"}) \ {<<>>}, s \in 0..6, k \in 1..6, e \in 0..6}
Depth(names, k) == Len(SelectSeq(SubSeq(names, 1, k), LAMBDA n : n \notin {".", ".."}))
                 - Len(SelectSeq(SubSeq(names, 1, k), LAMBDA n : n = ".."))

\* A tool is given no path outside the workspace: what resolves lies below the root
\* and has no ".." left, and a path that does not climb out resolves.  What it reaches
\* lies in the workspace as well, on condition that no link in the workspace leads out
\* of it: such a link is followed (workspace.go:12-13, 52-53 promise more).  A listed
\* file resolves to itself, so that the other tools find it by the name list_files
\* gives.  (A workspace whose own name is one of those left out lists nothing.)
PathsStayInside ==
    /\ case.of = "resolve" =>
          LET r == F!Resolve(case.root, case.path)
              home == F!Follow(case.links, case.root)
              leadOut == {l \in DOMAIN case.links : IsStrictPrefix(home, l) /\ ~IsPrefix(home, case.links[l])}
          IN /\ r.ok => IsPrefix(case.root, r.value) /\ ToSet(r.value) \cap {"..", "."} = {}
             /\ r.ok /\ leadOut = {} => IsPrefix(home, F!Reach(case.links, case.root, case.path).value)
             /\ (~case.path.abs /\ case.path.names # <<>> /\ \A k \in DOMAIN case.path.names : Depth(case.path.names, k) >= 0) => r.ok
    /\ case.of = "tree" =>
          LET listed == F!Walk(case.name, case.tree, VisitOrder, case.max)
              shown == {p \in DOMAIN case.tree : case.tree[p] \in {"file", "link"}
                            /\ (Len(p) = 2 => p[1] # "vendor" /\ case.tree[<<p[1]>>] = "dir")}
          IN /\ listed.paths \subseteq shown /\ (listed.truncated \/ listed.paths = shown \/ case.name = "build")
             /\ \A p \in listed.paths : F!Resolve(<<"w">>, [abs |-> FALSE, names |-> p]) = F!Ok(<<"w">> \o p)

\* edit_file refuses a text that is not there and one that is there twice, and else
\* changes the first place at which it is and nothing else.  Places that overlap do
\* not count as two: a text that is there only in such places is changed at the first
\* of them, although it is there more than once (agent.go:62).
EditIsUnique ==
    case.of = "edit" =>
        LET r == F!Edit(case.text, case.old, case.new)
            places == {i \in 1..Len(case.text) + 1 : F!FoundAt(case.text, case.old, i)}
        IN /\ r.ok <=> places # {} /\ \A i, j \in places : i < j => j < i + Len(case.old)
           /\ r.ok => \E i \in places :
                 /\ \A j \in places : i <= j
                 /\ Len(r.value) = Len(case.text) - Len(case.old) + Len(case.new)
                 /\ \A k \in DOMAIN r.value : r.value[k] =
                       IF k < i THEN case.text[k]
                       ELSE IF k < i + Len(case.new) THEN case.new[k - i + 1]
                       ELSE case.text[k - Len(case.new) + Len(case.old)]

\* A file read in two pieces is the file read at once, and every line has the number
\* the next piece counts from, also where a piece starts or ends past the last line.
PiecesMakeTheFile ==
    case.of = "read" =>
        LET Piece(s, e) == F!ReadLines(case.lines, s, e) IN
        /\ case.start <= case.cut /\ (case.end = 0 \/ case.cut < case.end) =>
              Piece(case.start, case.cut) \o Piece(case.cut + 1, case.end) = Piece(case.start, case.end)
        /\ \A i \in DOMAIN Piece(0, 0) : Piece(0, 0)[i] = <<i, case.lines[i]>>

(* --------------------------------- tools -------------------------------- *)

Field(go, tag, omit, type) == [go |-> go, tag |-> tag, omitempty |-> omit, exported |-> TRUE, type |-> type]
Inner == T!Struct(<<Field("x", "", FALSE, T!Basic("int"))>>)
FieldTypes == {T!Basic(k) : k \in {"string", "bool", "int", "float", "map", "any"}}
    \cup {T!Ptr(T!Basic("string")), T!Slice(T!Basic("int")), Inner, T!Ptr(Inner)}
Second == {Field("Q", "q", TRUE, T!Basic("string")), [Field("Q", "", FALSE, T!Basic("int")) EXCEPT !.exported = FALSE],
           Field("Q", "-", FALSE, T!Basic("int"))}
ParamTypes == {T!Struct(<<Field("P", g, o, t), s>>) : g \in {"", "p"}, o \in BOOLEAN, t \in FieldTypes, s \in Second}
J(k) == [j |-> k]
Obj(m) == [j |-> "object", members |-> m]
JsonLeaves == {J("string"), J("boolean"), J("integer"), J("number"), [j |-> "array", items |-> <<J("integer")>>],
               [j |-> "array", items |-> <<J("integer"), J("string")>>], Obj(<<>>), Obj("x" :> J("integer")), Obj("x" :> J("string")),
               Obj("X" :> J("integer")), Obj("X" :> J("string"))}
Arguments == {J("none"), Obj(<<>>), J("string")} \cup {Obj(n :> v) : n \in {"p", "P", "q", "Q"}, v \in JsonLeaves}
    \cup {Obj((n :> v) @@ ("q" :> w)) : n \in {"p", "P"}, v \in JsonLeaves, w \in {J("string"), J("integer")}}
ToolCalls == {[of |-> "tool", type |-> t, args |-> a] : t \in ParamTypes, a \in Arguments}
Hooks == {[of |-> "hooks", hooks |-> [PreToolUse |-> <<<<a, "h2">>, <<"h3">>>>, Stop |-> b]] :
             a \in {"h1", "h2"}, b \in {<<>>, <<<<>>, <<"h4">>>>, <<<<"h4">>>>}}

\* A member that is no field's, but that the decoder takes for one whose name differs
\* in case alone.
RECURSIVE TakenForAnother(_, _)
TakenForAnother(type, v) ==
    LET t == T!Deref(type)  fields == T!SchemaFields(t) IN
    CASE t.k = "struct" /\ v.j = "object" ->
            \E name \in DOMAIN v.members :
                LET i == T!FieldAt(fields, name) IN
                i # 0 /\ (T!FieldName(fields[i]) # name \/ TakenForAnother(fields[i].type, v.members[name]))
      [] t.k = "slice" /\ v.j = "array" -> \E i \in DOMAIN v.items : TakenForAnother(t.of, v.items[i])
      [] OTHER -> FALSE

\* What a host offers works: a tool in the list is the one that runs, with every
\* argument its schema allows; arguments that do not decode run nothing; and every
\* hook announced to the process is there when the process names it.  (The exception:
\* the schema says nothing of a member that is no field's, and the decoder takes one
\* that differs from a field's name in case alone for that field, so that such
\* arguments may be allowed and yet refused.)
OfferedToolsRun ==
    /\ case.of = "tool" =>
          LET tools == <<T!DefineTool("read", case.type, "read"), T!DefineTool("read", Inner, "other"), T!DefineTool("fail", Inner, "fails")>>
              r == T!NewRegistry(tools)
              ran == T!CallTool(r, "read", case.args)
          IN /\ T!List(r) = <<tools[1], tools[3]>>
             /\ T!Valid(T!List(r)[1].schema, case.args) /\ ~TakenForAnother(case.type, case.args) => ran = [ran |-> "read", err |-> FALSE]
             /\ case.args.j # "none" /\ ~T!Decodes(case.type, case.args) => ran = [ran |-> "nothing", err |-> TRUE]
    /\ case.of = "hooks" =>
          LET ids == T!BuildHooks(case.hooks) IN
          \A e \in DOMAIN ids : \A i \in DOMAIN ids[e] : \A j \in DOMAIN ids[e][i] :
             T!RunHook(case.hooks, ids[e][i][j]) = case.hooks[e][i][j]

\* A conversation is found again by the history its client replays, and by no other.
HistoriesFound == StreamFaithful /\ KeysFaithful

\* What a client sends reaches the process, as a prompt or as the session it resumes.
RequestsFaithful == RequestsWhole /\ TranscriptFaithful

\* Both halves of the way of a tool call through the proxy: from the call to the
\* tool_use the client is asked for, and from the client's answers to the model.
CallsAnswered == ClaimsAreOwn /\ AnswersExact

\* The files the tools touch: only those of the workspace (as long as no link in it
\* leads out), changed only where they are told, and read without a gap.
FilesSafe == PathsStayInside /\ EditIsUnique /\ PiecesMakeTheFile

Init == case = None
Streaming == case = None /\ case' \in Streams
Replying == case = None /\ case' \in Keys \cup Inputs \cup Claims
Restoring == case = None /\ case' \in Requests \cup Histories
Editing == case = None /\ case' \in Diffs \cup Resolves \cup Trees \cup Edits \cup Reads
Calling == case = None /\ case' \in ToolCalls \cup Hooks
Next == Streaming \/ Replying \/ Restoring \/ Editing \/ Calling
Spec == Init /\ [][Next]_case
=============================================================================
