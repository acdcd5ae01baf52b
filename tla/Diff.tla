-------------------------------- MODULE Diff --------------------------------
(***************************************************************************)
(* The line diff of the web console, examples/webharness/diff.go.  A text   *)
(* is the sequence of its lines without newlines at the end: <<>> is the    *)
(* empty text, which strings.Split turns into one empty line.               *)
(***************************************************************************)
EXTENDS Integers, Sequences, SequencesExt

Keep(t, i, j) == [kind |-> "keep", text |-> t, old |-> i, new |-> j]
Del(t, i) == [kind |-> "del", text |-> t, old |-> i, new |-> 0]
Add(t, j) == [kind |-> "add", text |-> t, old |-> 0, new |-> j]
Gap == [kind |-> "gap", text |-> "", old |-> 0, new |-> 0]

Split(text) == IF text = <<>> THEN <<"">> ELSE text

\* lcs[i, j]: the longest common subsequence of what is left from i and from j.
Lcs(a, b) ==
    LET lcs[i \in 1..Len(a) + 1, j \in 1..Len(b) + 1] ==
            CASE i > Len(a) \/ j > Len(b) -> 0
              [] i <= Len(a) /\ j <= Len(b) /\ a[i] = b[j] -> lcs[i + 1, j + 1] + 1
              [] OTHER -> LET x == lcs[i + 1, j]  y == lcs[i, j + 1] IN IF x >= y THEN x ELSE y
    IN lcs

\* Broken: a line left over on one side is forgotten.
AllHunksShort(a, b) ==
    LET lcs == Lcs(a, b)
        walk[i \in 1..Len(a) + 1, j \in 1..Len(b) + 1] ==
            CASE i > Len(a) \/ j > Len(b) -> <<>>
              [] i <= Len(a) /\ j <= Len(b) /\ a[i] = b[j] -> <<Keep(a[i], i, j)>> \o walk[i + 1, j + 1]
              [] OTHER -> IF lcs[i + 1, j] >= lcs[i, j + 1] THEN <<Del(a[i], i)>> \o walk[i + 1, j]
                                                            ELSE <<Add(b[j], j)>> \o walk[i, j + 1]
    IN walk[1, 1]

\* The walk through the table: on a tie the old line goes first.
AllHunks(a, b) ==
    LET lcs == Lcs(a, b)
        walk[i \in 1..Len(a) + 1, j \in 1..Len(b) + 1] ==
            CASE i > Len(a) /\ j > Len(b) -> <<>>
              [] i <= Len(a) /\ j <= Len(b) /\ a[i] = b[j] -> <<Keep(a[i], i, j)>> \o walk[i + 1, j + 1]
              [] i <= Len(a) /\ (j > Len(b) \/ (a[i] # b[j] /\ lcs[i + 1, j] >= lcs[i, j + 1])) ->
                    <<Del(a[i], i)>> \o walk[i + 1, j]
              [] OTHER -> <<Add(b[j], j)>> \o walk[i, j + 1]
    IN walk[1, 1]

\* A hunk is shown when it is at most n from a change; a gap stands for those
\* left out between two that are shown.
TrimContext(all, n) ==
    LET shown == {i \in DOMAIN all : \E k \in DOMAIN all : all[k].kind # "keep" /\ i - n <= k /\ k <= i + n}
        Show(out, i) ==
            IF i \notin shown THEN out
            ELSE IF out # <<>> /\ i - 1 \notin shown THEN out \o <<Gap, all[i]>> ELSE Append(out, all[i])
    IN FoldLeft(Show, <<>>, [i \in DOMAIN all |-> i])

UnifiedDiff(before, after) == TrimContext(AllHunks(before, Split(after)), 3)
CountChanges(hunks) ==
    [added |-> Len(SelectSeq(hunks, LAMBDA h : h.kind = "add")),
     removed |-> Len(SelectSeq(hunks, LAMBDA h : h.kind = "del"))]
=============================================================================
