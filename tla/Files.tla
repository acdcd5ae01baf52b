-------------------------------- MODULE Files --------------------------------
(***************************************************************************)
(* The workspace of the web console (examples/webharness/workspace.go) and  *)
(* what its tools do with files (agent.go).  A path is the sequence of its  *)
(* components, the root of the file system is <<>>; a text is a sequence of *)
(* characters.                                                              *)
(***************************************************************************)
EXTENDS Integers, Sequences, FiniteSets, SequencesExt

Ok(v) == [ok |-> TRUE, value |-> v]
No(why) == [ok |-> FALSE, value |-> why]

\* filepath.Clean: ".." takes back the component before it, "." and "" are nothing.
Clean(path) ==
    FoldLeft(LAMBDA acc, c : CASE c \in {".", ""} -> acc
                               [] c = ".." -> IF acc = <<>> THEN acc ELSE Front(acc)
                               [] OTHER -> Append(acc, c), <<>>, path)

\* Broken: a path is taken as it is written.
ResolveUnclean(root, path) ==
    LET abs == IF path.abs THEN path.names ELSE root \o path.names IN
    IF path.names = <<>> /\ ~path.abs THEN No("path must not be empty")
    ELSE IF abs # root /\ (root = <<>> \/ ~IsPrefix(root, abs)) THEN No("outside the workspace")
    ELSE Ok(abs)

\* resolve: the path, absolute or from the root, has to lie in the workspace.
\* (The root of the file system with a separator is no prefix of anything.)
Resolve(root, path) ==
    LET abs == Clean(IF path.abs THEN path.names ELSE root \o path.names) IN
    IF path.names = <<>> /\ ~path.abs THEN No("path must not be empty")
    ELSE IF abs # root /\ (root = <<>> \/ ~IsPrefix(root, abs)) THEN No("outside the workspace")
    ELSE Ok(abs)

\* Where the operating system (external) ends up with a path: "links" gives each
\* symbolic link, by its real path, the real path it leads to.
Follow(links, path) ==
    FoldLeft(LAMBDA at, name : LET next == Append(at, name) IN
                IF next \in DOMAIN links THEN links[next] ELSE next, <<>>, path)

\* What os.ReadFile, os.MkdirAll and os.WriteFile are given is the path resolve made,
\* which looks at no link; they follow those there are.
Reach(links, root, path) ==
    LET r == Resolve(root, path) IN IF r.ok THEN Ok(Follow(links, r.value)) ELSE r

\* walk: the files under the root in lexical order, at most max of them, without
\* directories that are skipped, hidden or cannot be read.  "tree" gives the kind
\* of every path from the root, "order" the sequence WalkDir visits them in, "name"
\* is the root's own, which is looked up like the others: a project that is called
\* build has no files.  A link is listed as a file, whatever it leads to and whatever
\* its name, and never entered.  (The root is taken to be no link itself.)
SkipDirs == {".git", "node_modules", "vendor", ".venv", "dist", "build", "target"}
Hidden(name) == name \in {".git", ".venv", ".cache"}
Skipped(tree, path) ==
    \E n \in 1..Len(path) - 1 :
        LET dir == SubSeq(path, 1, n) IN Last(dir) \in SkipDirs \/ Hidden(Last(dir)) \/ tree[dir] # "dir"
Walk(name, tree, order, max) ==
    LET found == SelectSeq(order, LAMBDA p : name \notin SkipDirs /\ tree[p] \in {"file", "link"} /\ ~Skipped(tree, p)) IN
    [paths |-> ToSet(SubSeq(found, 1, IF Len(found) < max THEN Len(found) ELSE max)), truncated |-> Len(found) > max]

\* read_file: the lines asked for, each with its number.
ReadLines(lines, start, end) ==
    LET first == IF start > 1 THEN start ELSE 1
        last == IF 0 < end /\ end < Len(lines) THEN end ELSE Len(lines)
    IN [k \in 1..(IF last < first THEN 0 ELSE last - first + 1) |-> <<first + k - 1, lines[first + k - 1]>>]

\* strings.Count: occurrences that do not overlap, from the left; the empty text
\* is found around every character.
FoundAt(text, old, i) == i + Len(old) - 1 <= Len(text) /\ SubSeq(text, i, i + Len(old) - 1) = old
CountOf(text, old) ==
    IF old = <<>> THEN Len(text) + 1
    ELSE LET count[i \in 1..Len(text) + Len(old)] ==
                IF i > Len(text) THEN 0
                ELSE IF FoundAt(text, old, i) THEN 1 + count[i + Len(old)] ELSE count[i + 1]
         IN count[1]

\* edit_file: the text has to be there exactly once, by that count, and the first
\* place it is at is changed.
Edit(text, old, new) ==
    IF CountOf(text, old) = 0 THEN No("not in the file")
    ELSE IF CountOf(text, old) > 1 THEN No("more than once")
    ELSE LET i == CHOOSE i \in 1..Len(text) + 1 : FoundAt(text, old, i) /\ \A j \in 1..(i - 1) : ~FoundAt(text, old, j)
         IN Ok(SubSeq(text, 1, i - 1) \o new \o SubSeq(text, i + Len(old), Len(text)))
=============================================================================
