------------------------------ MODULE Worktrees ------------------------------
(***************************************************************************)
(* What the web console does with git: the start of a session (main.go),    *)
(* its worktree (store.go) and its merge (changes.go), with               *)
(* several requests at once, commands that fail and a console that is       *)
(* started again.  A branch is the set of changes that are committed on it, *)
(* a change is a file and the checkout it was made in.  Branch number 0 of  *)
(* a project is what its own checkout is on; "console/<name>-<n>" is        *)
(* <<name, n>>.  A checkout stays on the branch it was made for.            *)
(***************************************************************************)
EXTENDS Naturals

CONSTANTS
    Projects,   \* the checkouts of one repository the console was given
    Main,       \* the one git lists first
    Names,      \* what sessionName makes of first messages
    Files,
    Requests,   \* handlers of the server
    MaxSeq      \* bound: the number of nextID after which no session is asked for
ASSUME WorktreesAssumption == Main \in Projects /\ MaxSeq \in Nat

VARIABLES
    commits,    \* the branches there are, and what is committed on each
    dirty,      \* the checkouts there are, and what is not committed in each
    merging,    \* {theirs} while the main checkout is in the middle of a merge
    sessions,   \* Store.sessions
    seq,        \* Store.seq
    op,         \* what each handler is about to do
    done        \* history: the changes whose branch was not deleted
git == <<commits, dirty, merging>>
store == <<sessions, seq>>
vars == <<git, store, op, done>>

Branches == (Projects \X {0}) \cup (Names \X (Nat \ {0}))
Own(b) == b[2] > 0                  \* a branch the console made
Checkouts == [project : Projects, branch : Branches]
At(p, b) == [project |-> p, branch |-> b]
HeadOf(p) == <<p, 0>>
Root(p) == At(p, HeadOf(p))
Changes == [file : Files, by : Checkouts]
Touched(changes) == {c.file : c \in changes}

Doing(at, path, work) == [at |-> at, path |-> path, work |-> work]
Idle == Doing("idle", Root(Main), {})
Free(r) == op[r].at \in {"idle", "merged"}
Then(r, at) == op' = [op EXCEPT ![r].at = at]
Ends(r) == op' = [op EXCEPT ![r] = Idle]

Init ==
    /\ commits = [b \in Projects \X {0} |-> {}] /\ dirty = [x \in {Root(p) : p \in Projects} |-> {}]
    /\ merging = {} /\ sessions = {} /\ seq = 0 /\ done = {}
    /\ op = [r \in Requests |-> Idle]

(* ---------------------------- start a session --------------------------- *)

\* Broken: the number is not used up.
CreateUncounted(r, p, name) ==
    /\ Free(r) /\ seq < MaxSeq
    /\ op' = [op EXCEPT ![r] = Doing("add", At(p, <<name, seq + 1>>), {})]
    /\ UNCHANGED <<git, store, done>>

\* start, with a worktree: its name ends in a number of its own.
Create(r, p, name) ==
    /\ Free(r) /\ seq < MaxSeq
    /\ seq' = seq + 1
    /\ op' = [op EXCEPT ![r] = Doing("add", At(p, <<name, seq + 1>>), {})]
    /\ UNCHANGED <<git, sessions, done>>
CreateInProject(r, p) ==
    /\ Free(r) /\ seq < MaxSeq
    /\ op' = [op EXCEPT ![r] = Doing("open", Root(p), {})]
    /\ UNCHANGED <<git, store, done>>

\* git refuses a path that is there and a branch that is checked out somewhere.
CheckedOut(b) == \E x \in DOMAIN dirty : x.branch = b
WithCheckout(x) == [y \in DOMAIN dirty \cup {x} |-> IF y = x THEN {} ELSE dirty[y]]
WithBranch(b, set) == [c \in DOMAIN commits \cup {b} |-> IF c = b THEN set ELSE commits[c]]

\* git worktree add -b: a new branch off HEAD of the project.
AddNew(r) ==
    LET x == op[r].path IN
    /\ op[r].at = "add" /\ x.branch \notin DOMAIN commits /\ ~CheckedOut(x.branch)
    /\ commits' = WithBranch(x.branch, commits[HeadOf(x.project)]) /\ dirty' = WithCheckout(x)
    /\ Then(r, "open")
    /\ UNCHANGED <<merging, store, done>>
AddNewFails(r) == op[r].at = "add" /\ Then(r, "retry") /\ UNCHANGED <<git, store, done>>

\* Broken: the branch starts over (-B), or a checkout that is there will do.
AddOldAfresh(r) ==
    LET x == op[r].path IN
    /\ op[r].at = "retry" /\ x.branch \in DOMAIN commits /\ ~CheckedOut(x.branch)
    /\ commits' = WithBranch(x.branch, commits[HeadOf(x.project)]) /\ dirty' = WithCheckout(x)
    /\ Then(r, "open")
    /\ UNCHANGED <<merging, store, done>>
AddOldAnywhere(r) ==
    LET x == op[r].path IN
    /\ op[r].at = "retry" /\ x.branch \in DOMAIN commits
    /\ dirty' = IF x \in DOMAIN dirty THEN dirty ELSE WithCheckout(x)
    /\ Then(r, "open")
    /\ UNCHANGED <<commits, merging, store, done>>

\* ... and without: the branch of that name, from an earlier console.
AddOld(r) ==
    LET x == op[r].path IN
    /\ op[r].at = "retry" /\ x.branch \in DOMAIN commits /\ ~CheckedOut(x.branch)
    /\ dirty' = WithCheckout(x)
    /\ Then(r, "open")
    /\ UNCHANGED <<commits, merging, store, done>>
AddOldFails(r) == op[r].at = "retry" /\ Ends(r) /\ UNCHANGED <<git, store, done>>

\* NewSession in a directory that is there, and put.  (The session's number is seen
\* by nobody before it is put: both are one step.)
Open(r) ==
    LET x == op[r].path IN
    /\ op[r].at = "open" /\ x \in DOMAIN dirty
    /\ seq' = seq + 1 /\ sessions' = sessions \cup {[id |-> seq + 1, root |-> x]}
    /\ Ends(r)
    /\ UNCHANGED <<git, done>>
\* The claude process does not start: the checkout stays behind.
OpenFails(r) ==
    /\ op[r].at = "open"
    /\ seq' = seq + 1 /\ Ends(r)
    /\ UNCHANGED <<git, sessions, done>>

(* --------------------------------- work --------------------------------- *)

\* The tools of a session write to the checkout it is in.
Work(s, f) ==
    /\ s.root \in DOMAIN dirty
    /\ LET c == [file |-> f, by |-> s.root] IN
       /\ dirty' = [dirty EXCEPT ![s.root] = @ \cup {c}]
       /\ done' = done \cup {c}
    /\ UNCHANGED <<commits, merging, store, op>>

CommitAll(x) ==
    /\ commits' = [commits EXCEPT ![x.branch] = @ \cup dirty[x]]
    /\ dirty' = [dirty EXCEPT ![x] = {}]

\* Its shell can commit.
Save(s) ==
    /\ s.root \in DOMAIN dirty /\ dirty[s.root] # {} /\ (s.root = Root(Main) => merging = {})
    /\ CommitAll(s.root)
    /\ UNCHANGED <<merging, store, op, done>>

(* --------------------------------- merge -------------------------------- *)

\* mergeInto, for a session with a branch of its own whose checkout is there.
PressMerge(r, s) ==
    /\ Free(r) /\ Own(s.root.branch) /\ s.root \in DOMAIN dirty
    /\ op' = [op EXCEPT ![r] = Doing("commit", s.root, commits[s.root.branch] \cup dirty[s.root])]
    /\ UNCHANGED <<git, store, done>>

\* Broken: git commit without git add; what git does not know stays where it is.
CommitWorkUnstaged(r) ==
    /\ op[r].at = "commit" /\ op[r].path \in DOMAIN dirty
    /\ Then(r, "merge")
    /\ UNCHANGED <<git, store, done>>

\* git add -A and git commit.  (An edit between the two is as if after them.)
CommitWork(r) ==
    /\ op[r].at = "commit" /\ op[r].path \in DOMAIN dirty
    /\ CommitAll(op[r].path)
    /\ Then(r, "merge")
    /\ UNCHANGED <<merging, store, done>>

\* git merge --no-ff in the main checkout, whichever the session was forked from: refused in
\* the middle of a merge and over local changes; a conflict leaves it in the middle of one.
Ours == commits[HeadOf(Main)]
Theirs(r) == commits[op[r].path.branch]
Mergeable(r) ==
    /\ op[r].at = "merge" /\ merging = {} /\ op[r].path.branch \in DOMAIN commits
    /\ Touched(dirty[Root(Main)]) \cap Touched(Theirs(r) \ Ours) = {}
GitMerge(r) ==
    /\ Mergeable(r)
    /\ commits' = [commits EXCEPT ![HeadOf(Main)] = @ \cup Theirs(r)]
    /\ Then(r, "merged")
    /\ UNCHANGED <<dirty, merging, store, done>>
GitConflict(r) ==
    /\ Mergeable(r) /\ Touched(Theirs(r) \ Ours) \cap Touched(Ours \ Theirs(r)) # {}
    /\ merging' = {Theirs(r)} /\ Ends(r)
    /\ UNCHANGED <<commits, dirty, store, done>>
\* A git command fails: a refusal, a lock, a hook, a directory that is gone.
MergeFails(r) == op[r].at \in {"commit", "merge"} /\ Ends(r) /\ UNCHANGED <<git, store, done>>

(* ------------------------- the user, and restarts ----------------------- *)

\* The merge is given up, or finished by hand.
Resolve ==
    /\ merging # {} /\ merging' = {}
    /\ \E set \in merging \cup {{}} : commits' = [commits EXCEPT ![HeadOf(Main)] = @ \cup set]
    /\ UNCHANGED <<dirty, store, op, done>>

\* git worktree remove: not with changes in it.
RemoveCheckout(x) ==
    /\ Own(x.branch) /\ dirty[x] = {}
    /\ dirty' = [y \in DOMAIN dirty \ {x} |-> dirty[y]]
    /\ UNCHANGED <<commits, merging, store, op, done>>

\* git branch -D: what was done on it is given up.
DeleteBranch(b) ==
    /\ Own(b) /\ ~CheckedOut(b)
    /\ commits' = [c \in DOMAIN commits \ {b} |-> commits[c]]
    /\ done' = {c \in done : c.by.branch # b}
    /\ UNCHANGED <<dirty, merging, store, op>>

\* Sessions and numbers are kept in memory only.
Restart ==
    /\ sessions' = {} /\ seq' = 0 /\ op' = [r \in Requests |-> Idle]
    /\ UNCHANGED <<git, done>>

Next ==
    \/ \E r \in Requests :
        \/ \E p \in Projects, name \in Names : Create(r, p, name)
        \/ \E p \in Projects : CreateInProject(r, p)
        \/ AddNew(r) \/ AddNewFails(r) \/ AddOld(r) \/ AddOldFails(r) \/ Open(r) \/ OpenFails(r)
        \/ \E s \in sessions : PressMerge(r, s)
        \/ CommitWork(r) \/ GitMerge(r) \/ GitConflict(r) \/ MergeFails(r)
    \/ \E s \in sessions : Save(s) \/ \E f \in Files : Work(s, f)
    \/ \E x \in DOMAIN dirty : RemoveCheckout(x)
    \/ \E b \in DOMAIN commits : DeleteBranch(b)
    \/ Resolve \/ Restart

Spec == Init /\ [][Next]_vars

(* ------------------------------- properties ----------------------------- *)

TypeOK ==
    /\ DOMAIN commits \subseteq Branches /\ DOMAIN dirty \subseteq Checkouts
    /\ \A b \in DOMAIN commits : commits[b] \subseteq Changes
    /\ \A x \in DOMAIN dirty : dirty[x] \subseteq Changes
    /\ merging \subseteq SUBSET Changes /\ done \subseteq Changes
    /\ seq \in Nat /\ sessions \subseteq [id : 1..seq, root : Checkouts]
    /\ op \in [Requests -> [at : {"idle", "add", "retry", "open", "commit", "merge", "merged"},
                             path : Checkouts, work : SUBSET Changes]]

\* "Two sessions on one project then have a checkout each": no two sessions have one id, which
\* the store keeps them under, and one that asked for a worktree shares neither its checkout nor its
\* branch, however starts, what the user removes and restarts interleave (start, addWorktree).
SessionsApart ==
    \A s, t \in sessions : s # t =>
        s.id # t.id /\ (Own(s.root.branch) => t.root # s.root /\ t.root.branch # s.root.branch)

\* A session starts in a checkout with nothing in it that is not committed, neither of
\* another session nor left by an earlier console that gave out the same number.
StartsClean == [][\A s \in sessions' \ sessions : Own(s.root.branch) => dirty[s.root] = {}]_vars

\* What was done in a checkout is still there, or on the branch of that checkout: no merge that
\* fails half way, removed checkout, restart or session of the same name loses it.
NothingLost ==
    \A c \in done :
        \/ c.by.branch \in DOMAIN commits /\ c \in commits[c.by.branch]
        \/ c.by \in DOMAIN dirty /\ c \in dirty[c.by]

\* "Merged into the main checkout": when a request says so, all that the session had
\* when Merge was pressed is there, committed or not, whatever happened since (mergeInto).
MergedIsIn == \A r \in Requests : op[r].at = "merged" => op[r].work \subseteq commits[HeadOf(Main)]

\* The two together: where the work of a session is, before and after its merge.
WorkKept == NothingLost /\ MergedIsIn
=============================================================================
