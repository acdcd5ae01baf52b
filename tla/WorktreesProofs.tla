--------------------------- MODULE WorktreesProofs ---------------------------
(***************************************************************************)
(* Whatever requests, commands that fail, users and restarts do at once,    *)
(* sessions stay apart, start clean, lose nothing, and are in the project   *)
(* when the console says so: for any number of projects, requests, files    *)
(* and sessions.                                                            *)
(***************************************************************************)
EXTENDS Worktrees, TLAPS

(* ------------------------- the inductive invariant ---------------------- *)

(* The branch of a checkout is there, and so is what the projects came with. *)
Grounded ==
    /\ Projects \X {0} \subseteq DOMAIN commits
    /\ \A x \in DOMAIN dirty : x.branch \in DOMAIN commits

(* A number of nextID is in one place: with the request that drew it until its *)
(* session is there, then in the root of that session.                         *)
Number(x) == x.branch[2]
Starting(r) == op[r].at \in {"add", "retry", "open"} /\ Own(op[r].path.branch)
Numbered ==
    /\ \A r \in Requests : Starting(r) => Number(op[r].path) <= seq
    /\ \A r, q \in Requests : Starting(r) /\ Starting(q) /\ r # q => Number(op[r].path) # Number(op[q].path)
    /\ \A s \in sessions : Number(s.root) <= seq
    /\ \A s \in sessions : \A r \in Requests : Starting(r) => Number(op[r].path) # Number(s.root)
    /\ \A s, t \in sessions : s # t /\ Own(s.root.branch) => Number(t.root) # Number(s.root)
    /\ \A s, t \in sessions : s # t => s.id # t.id

(* Nobody works in a checkout before its session is there. *)
Untouched ==
    \A r \in Requests : op[r].at = "open" /\ Own(op[r].path.branch) /\ op[r].path \in DOMAIN dirty => dirty[op[r].path] = {}

(* A session that is merged stays in the store, so its branch is no other's; and what   *)
(* it had is in its checkout or on its branch, then on its branch, then in the project. *)
Held(r) ==
    /\ op[r].at \in {"commit", "merge"} => \E s \in sessions : s.root = op[r].path /\ Own(s.root.branch)
    /\ op[r].at = "commit" /\ op[r].path \in DOMAIN dirty =>
          op[r].work \subseteq commits[op[r].path.branch] \cup dirty[op[r].path]
    /\ op[r].at = "merge" /\ op[r].path.branch \in DOMAIN commits => op[r].work \subseteq commits[op[r].path.branch]
    /\ op[r].at = "merged" => op[r].work \subseteq commits[HeadOf(Main)]

Inv ==
    /\ TypeOK /\ Grounded /\ Numbered /\ Untouched /\ NothingLost
    /\ \A r \in Requests : Held(r)

Places == {"idle", "add", "retry", "open", "commit", "merge", "merged"}
Ops == [at : Places, path : Checkouts, work : SUBSET Changes]

(* What a checkout is called, and that a branch with number 0 is a project's own. *)
LEMMA PathFacts ==
    /\ \A p \in Projects : HeadOf(p) \in Branches /\ Root(p) \in Checkouts /\ ~Own(HeadOf(p)) /\ Root(p).branch = HeadOf(p)
    /\ \A p \in Projects, name \in Names, n \in Nat :
          LET x == At(p, <<name, n + 1>>) IN x \in Checkouts /\ x.branch = <<name, n + 1>> /\ x.project = p /\ Number(x) = n + 1
    /\ \A b \in Branches : b[2] \in Nat /\ (b[2] = 0 => b \in Projects \X {0})
  <1>1. \A p \in Projects : HeadOf(p) \in Branches /\ Root(p) \in Checkouts /\ ~Own(HeadOf(p)) /\ Root(p).branch = HeadOf(p)
    BY DEF HeadOf, Branches, Root, Checkouts, At, Own
  <1>2. ASSUME NEW p \in Projects, NEW name \in Names, NEW n \in Nat
        PROVE  At(p, <<name, n + 1>>) \in Checkouts /\ At(p, <<name, n + 1>>).branch = <<name, n + 1>>
               /\ At(p, <<name, n + 1>>).project = p /\ Number(At(p, <<name, n + 1>>)) = n + 1
    BY DEF Branches, Checkouts, At, Number
  <1>3. \A b \in Branches : b[2] \in Nat /\ (b[2] = 0 => b \in Projects \X {0})
    BY DEF Branches
  <1> QED
    BY <1>1, <1>2, <1>3

LEMMA IdleOp == Idle \in Ops /\ Idle.at = "idle"
  BY PathFacts, WorktreesAssumption DEF Idle, Doing, Ops, Places

LEMMA ThenOp ==
    ASSUME op \in [Requests -> Ops], NEW r \in Requests, NEW at \in Places, Then(r, at)
    PROVE  /\ op' \in [Requests -> Ops]
           /\ op'[r].at = at /\ op'[r].path = op[r].path /\ op'[r].work = op[r].work
           /\ \A q \in Requests \ {r} : op'[q] = op[q]
  BY DEF Then, Ops

LEMMA EndsOp ==
    ASSUME op \in [Requests -> Ops], NEW r \in Requests, Ends(r)
    PROVE  op' \in [Requests -> Ops] /\ op'[r].at = "idle" /\ \A q \in Requests \ {r} : op'[q] = op[q]
  BY IdleOp DEF Ends

LEMMA TypeInit == Init => TypeOK
  <1> SUFFICES ASSUME Init PROVE TypeOK
    OBVIOUS
  <1> USE DEF Init
  <1>1. DOMAIN commits \subseteq Branches /\ DOMAIN dirty \subseteq Checkouts
    BY PathFacts DEF Branches
  <1>2. op \in [Requests -> Ops]
    BY IdleOp
  <1> QED
    BY <1>1, <1>2, WorktreesAssumption DEF TypeOK, Ops, Places

LEMMA OpType == TypeOK => op \in [Requests -> Ops]
  BY DEF TypeOK, Ops, Places

LEMMA TypeStep == ASSUME TypeOK, Grounded, [Next]_vars PROVE TypeOK'
  <1>0. op \in [Requests -> Ops] /\ seq \in Nat
    BY OpType DEF TypeOK
  <1>g. Grounded
    OBVIOUS
  <1>m. HeadOf(Main) \in DOMAIN commits
    BY WorktreesAssumption DEF Grounded, HeadOf
  <1>a. ASSUME op' \in [Requests -> Ops], UNCHANGED <<git, store, done>> PROVE TypeOK'
    BY <1>a DEF TypeOK, Ops, Places, git, store
  <1>b. ASSUME op' \in [Requests -> Ops], seq' = seq + 1, UNCHANGED <<git, sessions, done>> PROVE TypeOK'
    <2>1. sessions \subseteq [id : 1..(seq + 1), root : Checkouts]
      BY <1>0 DEF TypeOK
    <2> QED
      BY <2>1, <1>0, <1>b DEF TypeOK, Ops, Places, git
  <1>c. ASSUME NEW b \in Branches, NEW set \in SUBSET Changes, commits' = WithBranch(b, set)
        PROVE  DOMAIN commits' \subseteq Branches /\ \A c \in DOMAIN commits' : commits'[c] \subseteq Changes
    BY <1>c DEF TypeOK, WithBranch
  <1>d. ASSUME NEW x \in Checkouts, dirty' = WithCheckout(x)
        PROVE  DOMAIN dirty' \subseteq Checkouts /\ \A y \in DOMAIN dirty' : dirty'[y] \subseteq Changes
    BY <1>d DEF TypeOK, WithCheckout
  <1>e. ASSUME NEW x \in DOMAIN dirty, CommitAll(x)
        PROVE  /\ DOMAIN commits' \subseteq Branches /\ \A c \in DOMAIN commits' : commits'[c] \subseteq Changes
               /\ DOMAIN dirty' \subseteq Checkouts /\ \A y \in DOMAIN dirty' : dirty'[y] \subseteq Changes
    BY <1>e DEF TypeOK, CommitAll
  <1>f. ASSUME NEW b \in DOMAIN commits, NEW set \in SUBSET Changes, commits' = [commits EXCEPT ![b] = @ \cup set]
        PROVE  DOMAIN commits' \subseteq Branches /\ \A c \in DOMAIN commits' : commits'[c] \subseteq Changes
    BY <1>f DEF TypeOK
  <1>1. ASSUME NEW r \in Requests, NEW p \in Projects, NEW name \in Names, Create(r, p, name) PROVE TypeOK'
    <2>1. Doing("add", At(p, <<name, seq + 1>>), {}) \in Ops
      BY <1>0, PathFacts DEF Doing, Ops, Places
    <2>2. op' \in [Requests -> Ops]
      BY <1>0, <1>1, <2>1 DEF Create
    <2> QED
      BY <1>b, <1>1, <2>2 DEF Create
  <1>2. ASSUME NEW r \in Requests, NEW p \in Projects, CreateInProject(r, p) PROVE TypeOK'
    <2>1. Doing("open", Root(p), {}) \in Ops
      BY PathFacts DEF Doing, Ops, Places
    <2>2. op' \in [Requests -> Ops]
      BY <1>0, <1>2, <2>1 DEF CreateInProject
    <2> QED
      BY <1>a, <1>2, <2>2 DEF CreateInProject
  <1>3. ASSUME NEW r \in Requests, AddNew(r) PROVE TypeOK'
    <2>1. op[r].path \in Checkouts /\ op[r].path.branch \in Branches /\ op[r].path.project \in Projects
      BY <1>0 DEF Ops, Checkouts
    <2>2. HeadOf(op[r].path.project) \in DOMAIN commits => commits[HeadOf(op[r].path.project)] \subseteq Changes
      BY DEF TypeOK
    <2>3. commits[HeadOf(op[r].path.project)] \in SUBSET Changes
      BY <2>1, <2>2, <1>g DEF Grounded, HeadOf
    <2>4. op' \in [Requests -> Ops]
      BY <1>0, <1>3, ThenOp DEF AddNew, Places
    <2>5. DOMAIN commits' \subseteq Branches /\ \A c \in DOMAIN commits' : commits'[c] \subseteq Changes
      BY <1>3, <1>c, <2>1, <2>3 DEF AddNew
    <2>6. DOMAIN dirty' \subseteq Checkouts /\ \A y \in DOMAIN dirty' : dirty'[y] \subseteq Changes
      BY <1>3, <1>d, <2>1 DEF AddNew
    <2> QED
      BY <1>3, <2>4, <2>5, <2>6 DEF TypeOK, AddNew, store, Ops, Places
  <1>4. ASSUME NEW r \in Requests, AddNewFails(r) PROVE TypeOK'
    <2>1. op' \in [Requests -> Ops]
      BY <1>0, <1>4, ThenOp DEF AddNewFails, Places
    <2> QED
      BY <1>a, <1>4, <2>1 DEF AddNewFails
  <1>5. ASSUME NEW r \in Requests, AddOld(r) PROVE TypeOK'
    <2>1. op' \in [Requests -> Ops]
      BY <1>0, <1>5, ThenOp DEF AddOld, Places
    <2>2. op[r].path \in Checkouts
      BY <1>0 DEF Ops
    <2>3. DOMAIN dirty' \subseteq Checkouts /\ \A y \in DOMAIN dirty' : dirty'[y] \subseteq Changes
      BY <1>5, <1>d, <2>2 DEF AddOld
    <2> QED
      BY <1>5, <2>1, <2>3 DEF TypeOK, AddOld, store, Ops, Places
  <1>6. ASSUME NEW r \in Requests, AddOldFails(r) \/ MergeFails(r) PROVE TypeOK'
    <2>1. op' \in [Requests -> Ops]
      BY <1>0, <1>6, EndsOp DEF AddOldFails, MergeFails
    <2> QED
      BY <1>a, <1>6, <2>1 DEF AddOldFails, MergeFails
  <1>7. ASSUME NEW r \in Requests, Open(r) PROVE TypeOK'
    <2>1. op' \in [Requests -> Ops]
      BY <1>0, <1>7, EndsOp DEF Open
    <2>2. op[r].path \in Checkouts
      BY <1>0 DEF Ops
    <2>3. sessions' \subseteq [id : 1..seq', root : Checkouts]
      BY <1>0, <1>7, <2>2 DEF TypeOK, Open
    <2> QED
      BY <1>0, <1>7, <2>1, <2>3 DEF TypeOK, Open, git, Ops, Places
  <1>8. ASSUME NEW r \in Requests, OpenFails(r) PROVE TypeOK'
    <2>1. op' \in [Requests -> Ops]
      BY <1>0, <1>8, EndsOp DEF OpenFails
    <2> QED
      BY <1>b, <1>8, <2>1 DEF OpenFails
  <1>9. ASSUME NEW r \in Requests, NEW s \in sessions, PressMerge(r, s) PROVE TypeOK'
    <2>1. s.root \in Checkouts /\ dirty[s.root] \subseteq Changes /\ s.root.branch \in DOMAIN commits
      BY <1>9, <1>g DEF TypeOK, PressMerge, Grounded
    <2>2. Doing("commit", s.root, commits[s.root.branch] \cup dirty[s.root]) \in Ops
      BY <2>1 DEF TypeOK, Doing, Ops, Places
    <2>3. op' \in [Requests -> Ops]
      BY <1>0, <1>9, <2>2 DEF PressMerge
    <2> QED
      BY <1>a, <1>9, <2>3 DEF PressMerge
  <1>10. ASSUME NEW r \in Requests, CommitWork(r) PROVE TypeOK'
    <2>1. op' \in [Requests -> Ops]
      BY <1>0, <1>10, ThenOp DEF CommitWork, Places
    <2>2. op[r].path \in DOMAIN dirty /\ CommitAll(op[r].path)
      BY <1>10 DEF CommitWork
    <2> QED
      BY <1>10, <2>1, <2>2, <1>e DEF TypeOK, CommitWork, store, Ops, Places
  <1>11. ASSUME NEW r \in Requests, GitMerge(r) PROVE TypeOK'
    <2>1. op' \in [Requests -> Ops]
      BY <1>0, <1>11, ThenOp DEF GitMerge, Places
    <2>2. Theirs(r) \in SUBSET Changes
      BY <1>11 DEF TypeOK, GitMerge, Mergeable, Theirs
    <2>3. DOMAIN commits' \subseteq Branches /\ \A c \in DOMAIN commits' : commits'[c] \subseteq Changes
      BY <1>11, <1>f, <1>m, <2>2 DEF GitMerge
    <2> QED
      BY <1>11, <2>1, <2>3 DEF TypeOK, GitMerge, store, Ops, Places
  <1>12. ASSUME NEW r \in Requests, GitConflict(r) PROVE TypeOK'
    <2>1. op' \in [Requests -> Ops]
      BY <1>0, <1>12, EndsOp DEF GitConflict
    <2>2. Theirs(r) \in SUBSET Changes
      BY <1>12 DEF TypeOK, GitConflict, Mergeable, Theirs
    <2> QED
      BY <1>12, <2>1, <2>2 DEF TypeOK, GitConflict, store, Ops, Places
  <1>13. ASSUME NEW s \in sessions, Save(s) PROVE TypeOK'
    <2>1. s.root \in DOMAIN dirty /\ CommitAll(s.root)
      BY <1>13 DEF Save
    <2> QED
      BY <1>13, <2>1, <1>e DEF TypeOK, Save, store
  <1>14. ASSUME NEW s \in sessions, NEW f \in Files, Work(s, f) PROVE TypeOK'
    <2>1. [file |-> f, by |-> s.root] \in Changes
      BY DEF TypeOK, Changes
    <2> QED
      BY <1>14, <2>1 DEF TypeOK, Work, store
  <1>15. ASSUME NEW x \in DOMAIN dirty, RemoveCheckout(x) PROVE TypeOK'
    BY <1>15 DEF TypeOK, RemoveCheckout, store
  <1>16. ASSUME NEW b \in DOMAIN commits, DeleteBranch(b) PROVE TypeOK'
    BY <1>16 DEF TypeOK, DeleteBranch, store
  <1>17. ASSUME Resolve PROVE TypeOK'
    <2>1. PICK set \in merging \cup {{}} : commits' = [commits EXCEPT ![HeadOf(Main)] = @ \cup set]
      BY <1>17 DEF Resolve
    <2>2. set \in SUBSET Changes
      BY DEF TypeOK
    <2>3. DOMAIN commits' \subseteq Branches /\ \A c \in DOMAIN commits' : commits'[c] \subseteq Changes
      BY <1>f, <1>m, <2>1, <2>2
    <2> QED
      BY <1>17, <2>3 DEF TypeOK, Resolve, store
  <1>18. ASSUME Restart PROVE TypeOK'
    BY <1>18, IdleOp DEF TypeOK, Restart, git, Ops, Places
  <1>19. ASSUME UNCHANGED vars PROVE TypeOK'
    BY <1>19 DEF TypeOK, vars, git, store
  <1> QED
    BY <1>1, <1>2, <1>3, <1>4, <1>5, <1>6, <1>7, <1>8, <1>9, <1>10, <1>11, <1>12, <1>13, <1>14, <1>15, <1>16, <1>17, <1>18, <1>19
    DEF Next

(* ------------------------ what there is, and numbers -------------------- *)

LEMMA GroundedStep == ASSUME TypeOK, Grounded, [Next]_vars PROVE Grounded'
  <1>0. op \in [Requests -> Ops]
    BY OpType
  <1>1. ASSUME NEW r \in Requests, AddNew(r) PROVE Grounded'
    BY <1>1 DEF AddNew, WithBranch, WithCheckout, Grounded
  <1>2. ASSUME NEW r \in Requests, AddOld(r) PROVE Grounded'
    BY <1>2 DEF AddOld, WithCheckout, Grounded
  <1>3. ASSUME NEW x \in DOMAIN dirty, CommitAll(x) PROVE Grounded'
    BY <1>3 DEF CommitAll, Grounded
  <1>4. ASSUME DOMAIN commits' = DOMAIN commits, DOMAIN dirty' \subseteq DOMAIN dirty PROVE Grounded'
    BY <1>4 DEF Grounded
  <1>5. ASSUME NEW b \in DOMAIN commits, DeleteBranch(b) PROVE Grounded'
    <2>1. b \notin Projects \X {0}
      BY <1>5 DEF DeleteBranch, Own
    <2>2. DOMAIN commits' = DOMAIN commits \ {b} /\ DOMAIN dirty' = DOMAIN dirty
      BY <1>5 DEF DeleteBranch
    <2>3. \A x \in DOMAIN dirty : x.branch # b
      BY <1>5 DEF DeleteBranch, CheckedOut
    <2> QED
      BY <2>1, <2>2, <2>3 DEF Grounded
  <1>6. ASSUME NEW r \in Requests, CommitWork(r) PROVE Grounded'
    BY <1>3, <1>6 DEF CommitWork
  <1>7. ASSUME NEW s \in sessions, Save(s) PROVE Grounded'
    BY <1>3, <1>7 DEF Save
  <1>8. ASSUME NEW r \in Requests, GitMerge(r) PROVE Grounded'
    BY <1>4, <1>8 DEF GitMerge
  <1>9. ASSUME NEW s \in sessions, NEW f \in Files, Work(s, f) PROVE Grounded'
    BY <1>4, <1>9 DEF Work
  <1>10. ASSUME NEW x \in DOMAIN dirty, RemoveCheckout(x) PROVE Grounded'
    BY <1>4, <1>10 DEF RemoveCheckout
  <1>11. ASSUME Resolve PROVE Grounded'
    BY <1>4, <1>11 DEF Resolve
  <1>12. ASSUME UNCHANGED <<commits, dirty>> PROVE Grounded'
    BY <1>4, <1>12
  <1>13. ASSUME NEW r \in Requests, AddNewFails(r) \/ AddOldFails(r) \/ Open(r) \/ OpenFails(r) \/ GitConflict(r) \/ MergeFails(r)
         PROVE  Grounded'
    BY <1>12, <1>13 DEF AddNewFails, AddOldFails, Open, OpenFails, GitConflict, MergeFails, git
  <1>14. ASSUME NEW r \in Requests, NEW p \in Projects, NEW name \in Names, Create(r, p, name) PROVE Grounded'
    BY <1>12, <1>14 DEF Create, git
  <1>15. ASSUME NEW r \in Requests, NEW p \in Projects, CreateInProject(r, p) PROVE Grounded'
    BY <1>12, <1>15 DEF CreateInProject, git
  <1>16. ASSUME NEW r \in Requests, NEW s \in sessions, PressMerge(r, s) PROVE Grounded'
    BY <1>12, <1>16 DEF PressMerge, git
  <1>17. ASSUME Restart \/ UNCHANGED vars PROVE Grounded'
    BY <1>12, <1>17 DEF Restart, vars, git
  <1> QED
    BY <1>1, <1>2, <1>5, <1>6, <1>7, <1>8, <1>9, <1>10, <1>11, <1>13, <1>14, <1>15, <1>16, <1>17 DEF Next

(* A request that goes on with the number it has, or is through with it. *)
LEMMA NumberedKept ==
    ASSUME TypeOK, Numbered, NEW r \in Requests, Then(r, "retry") \/ Then(r, "open") \/ Then(r, "merge") \/ Then(r, "merged") \/ Ends(r),
           op[r].at \in {"add", "retry", "open"} \/ Then(r, "merge") \/ Then(r, "merged") \/ Ends(r),
           UNCHANGED store
    PROVE  Numbered'
  <1>0. op \in [Requests -> Ops]
    BY OpType
  <1>1. \A q \in Requests : Starting(q)' => Starting(q) /\ op'[q].path = op[q].path
    BY <1>0, ThenOp, EndsOp DEF Starting, Places
  <1> QED
    BY <1>1 DEF Numbered, store

LEMMA NumberedStep == ASSUME TypeOK, Numbered, [Next]_vars PROVE Numbered'
  <1>0. op \in [Requests -> Ops] /\ seq \in Nat
    BY OpType DEF TypeOK
  <1>n. /\ \A r \in Requests : Number(op[r].path) \in Nat
        /\ \A s \in sessions : Number(s.root) \in Nat
    BY <1>0, PathFacts DEF TypeOK, Ops, Checkouts, Number
  <1>1. ASSUME NEW r \in Requests, NEW p \in Projects, NEW name \in Names, Create(r, p, name) PROVE Numbered'
    <2>1. op'[r].path = At(p, <<name, seq + 1>>) /\ Number(op'[r].path) = seq + 1
      BY <1>0, <1>1, PathFacts DEF Create, Doing
    <2>2. \A q \in Requests \ {r} : op'[q] = op[q]
      BY <1>0, <1>1 DEF Create
    <2>3. \A q \in Requests \ {r} : Starting(q)' = Starting(q) /\ Number(op'[q].path) = Number(op[q].path)
      BY <2>2 DEF Starting
    <2>4. seq' = seq + 1 /\ sessions' = sessions
      BY <1>1 DEF Create
    <2>5. \A q \in Requests \ {r} : Starting(q) => Number(op[q].path) <= seq
      BY DEF Numbered
    <2>6. \A s \in sessions : Number(s.root) <= seq
      BY DEF Numbered
    <2>7. \A q \in Requests : Starting(q)' => Number(op'[q].path) <= seq'
      BY <1>0, <1>n, <2>1, <2>3, <2>4, <2>5
    <2>8. \A q, w \in Requests : Starting(q)' /\ Starting(w)' /\ q # w => Number(op'[q].path) # Number(op'[w].path)
      <3>1. ASSUME NEW q \in Requests \ {r}, Starting(q)' PROVE Number(op'[q].path) # seq + 1
        BY <1>0, <1>n, <2>3, <2>5, <3>1
      <3>2. ASSUME NEW q \in Requests \ {r}, NEW w \in Requests \ {r}, Starting(q)', Starting(w)', q # w
            PROVE  Number(op'[q].path) # Number(op'[w].path)
        BY <2>3, <3>2 DEF Numbered
      <3> QED
        BY <2>1, <3>1, <3>2
    <2>9. \A s \in sessions : \A q \in Requests : Starting(q)' => Number(op'[q].path) # Number(s.root)
      <3>1. ASSUME NEW s \in sessions, NEW q \in Requests \ {r}, Starting(q)' PROVE Number(op'[q].path) # Number(s.root)
        BY <2>3, <3>1 DEF Numbered
      <3>2. \A s \in sessions : Number(s.root) # seq + 1
        BY <1>0, <1>n, <2>6
      <3> QED
        BY <2>1, <3>1, <3>2
    <2>10. \A s \in sessions : Number(s.root) <= seq'
      BY <1>0, <1>n, <2>4, <2>6
    <2> QED
      BY <2>4, <2>7, <2>8, <2>9, <2>10 DEF Numbered, Number
  <1>2. ASSUME NEW r \in Requests, ~Starting(r)', UNCHANGED store, \A q \in Requests \ {r} : op'[q] = op[q] PROVE Numbered'
    BY <1>2 DEF Numbered, Starting, store
  <1>3. ASSUME NEW r \in Requests, NEW p \in Projects, CreateInProject(r, p) PROVE Numbered'
    <2>1. op'[r].path = Root(p)
      BY <1>0, <1>3 DEF CreateInProject, Doing
    <2>2. ~Starting(r)'
      BY <2>1, PathFacts DEF Starting
    <2> QED
      BY <1>0, <1>2, <1>3, <2>2 DEF CreateInProject
  <1>4. ASSUME NEW r \in Requests, NEW s \in sessions, PressMerge(r, s) PROVE Numbered'
    <2>1. ~Starting(r)'
      BY <1>0, <1>4 DEF PressMerge, Starting, Doing
    <2> QED
      BY <1>0, <1>2, <1>4, <2>1 DEF PressMerge
  <1>5. ASSUME NEW r \in Requests, AddNew(r) \/ AddNewFails(r) \/ AddOld(r) \/ AddOldFails(r) \/ MergeFails(r) \/ CommitWork(r)
                                    \/ GitMerge(r) \/ GitConflict(r)
        PROVE  Numbered'
    BY <1>5, NumberedKept DEF AddNew, AddNewFails, AddOld, AddOldFails, MergeFails, CommitWork, GitMerge, GitConflict
  <1>6. ASSUME NEW r \in Requests, Open(r) \/ OpenFails(r) PROVE Numbered'
    <2>1. op'[r].at = "idle" /\ \A q \in Requests \ {r} : op'[q] = op[q]
      BY <1>0, <1>6, EndsOp DEF Open, OpenFails
    <2>2. seq' = seq + 1
      BY <1>6 DEF Open, OpenFails
    <2>3. \A q \in Requests : Starting(q)' => q # r /\ Starting(q) /\ op'[q].path = op[q].path
      BY <2>1 DEF Starting
    <2>4. \A s \in sessions' : s \in sessions \/ s.root = op[r].path
      BY <1>6 DEF Open, OpenFails
    <2>5. \A s, t \in sessions' : s # t => s \in sessions \/ t \in sessions
      BY <1>6 DEF Open, OpenFails
    <2>6. op[r].at = "open"
      BY <1>6 DEF Open, OpenFails
    <2>7. Starting(r) \/ ~Own(op[r].path.branch)
      BY <2>6 DEF Starting
    <2>8. Own(op[r].path.branch) => Number(op[r].path) <= seq
      BY <2>7 DEF Numbered
    <2>9. Number(op[r].path) <= seq
      BY <1>0, <1>n, <2>8 DEF Own, Number
    <2>10. \A q \in Requests : Starting(q)' => Number(op'[q].path) <= seq'
      BY <1>0, <1>n, <2>2, <2>3 DEF Numbered
    <2>11. \A q, w \in Requests : Starting(q)' /\ Starting(w)' /\ q # w => Number(op'[q].path) # Number(op'[w].path)
      BY <2>3 DEF Numbered
    <2>12. \A s \in sessions' : Number(s.root) <= seq'
      BY <1>0, <1>n, <2>2, <2>4, <2>9 DEF Numbered
    <2>13. ASSUME NEW s \in sessions', NEW q \in Requests, Starting(q)' PROVE Number(op'[q].path) # Number(s.root)
      <3>1. CASE s \in sessions
        BY <2>3, <2>13, <3>1 DEF Numbered
      <3>2. CASE s.root = op[r].path /\ Starting(r)
        BY <2>3, <2>13, <3>2 DEF Numbered
      <3>3. CASE s.root = op[r].path /\ ~Own(op[r].path.branch)
        BY <1>n, <2>3, <2>13, <3>3 DEF Own, Number, Starting
      <3> QED
        BY <2>4, <2>7, <3>1, <3>2, <3>3
    <2>14. ASSUME NEW s \in sessions', NEW t \in sessions', s # t PROVE s.id # t.id
      <3>1. \A u \in sessions : u.id # seq + 1
        BY <1>0 DEF TypeOK
      <3>2. \A u \in sessions' : u \in sessions \/ u.id = seq + 1
        BY <1>6 DEF Open, OpenFails
      <3>3. s \in sessions \/ t \in sessions
        BY <2>5, <2>14
      <3>4. (s \in sessions \/ s.id = seq + 1) /\ (t \in sessions \/ t.id = seq + 1)
        BY <3>2
      <3> QED
        BY <2>14, <3>1, <3>3, <3>4 DEF Numbered
    <2>15. ASSUME NEW s \in sessions', NEW t \in sessions', s # t, Own(s.root.branch) PROVE Number(t.root) # Number(s.root)
      <3>1. CASE s \in sessions /\ t \in sessions
        BY <2>15, <3>1 DEF Numbered
      <3>2. CASE s \in sessions /\ t.root = op[r].path
        <4>1. CASE Starting(r)
          BY <3>2, <4>1 DEF Numbered
        <4>2. CASE ~Own(op[r].path.branch)
          BY <1>n, <2>15, <3>2, <4>2 DEF Own, Number
        <4> QED
          BY <2>7, <4>1, <4>2
      <3>3. CASE t \in sessions /\ s.root = op[r].path
        BY <2>7, <2>15, <3>3 DEF Numbered
      <3>4. s \in sessions \/ t \in sessions
        BY <2>5, <2>15
      <3>5. (s \in sessions \/ s.root = op[r].path) /\ (t \in sessions \/ t.root = op[r].path)
        BY <2>4
      <3> QED
        BY <3>1, <3>2, <3>3, <3>4, <3>5
    <2> QED
      BY <2>10, <2>11, <2>12, <2>13, <2>14, <2>15 DEF Numbered, Number
  <1>7. ASSUME UNCHANGED <<store, op>> PROVE Numbered'
    BY <1>7 DEF Numbered, Starting, store
  <1>8. ASSUME NEW s \in sessions, Save(s) \/ \E f \in Files : Work(s, f) PROVE Numbered'
    BY <1>7, <1>8 DEF Save, Work
  <1>9. ASSUME \/ \E x \in DOMAIN dirty : RemoveCheckout(x)
               \/ \E b \in DOMAIN commits : DeleteBranch(b)
               \/ Resolve \/ UNCHANGED vars
        PROVE  Numbered'
    BY <1>7, <1>9 DEF RemoveCheckout, DeleteBranch, Resolve, vars
  <1>10. ASSUME Restart PROVE Numbered'
    <2>1. sessions' = {} /\ \A r \in Requests : op'[r].at = "idle"
      BY <1>10, IdleOp DEF Restart
    <2> QED
      BY <2>1 DEF Numbered, Starting
  <1> QED
    BY <1>1, <1>3, <1>4, <1>5, <1>6, <1>8, <1>9, <1>10 DEF Next

(* ------------------------------- the work ------------------------------- *)

(* What is on a branch and what was done stays, but for what the user gives up. *)
LEMMA LostStep == ASSUME TypeOK, Grounded, NothingLost, [Next]_vars PROVE NothingLost'
  <1>a. ASSUME done' \subseteq done, \A x \in DOMAIN dirty : x \in DOMAIN dirty' /\ dirty[x] \subseteq dirty'[x],
               \A b \in DOMAIN commits : b \in DOMAIN commits' /\ commits[b] \subseteq commits'[b]
        PROVE  NothingLost'
    BY <1>a DEF NothingLost
  <1>b. ASSUME NEW x \in DOMAIN dirty, CommitAll(x), UNCHANGED done PROVE NothingLost'
    <2>1. /\ DOMAIN dirty' = DOMAIN dirty /\ \A y \in DOMAIN dirty \ {x} : dirty'[y] = dirty[y]
          /\ DOMAIN commits' = DOMAIN commits /\ \A b \in DOMAIN commits : commits[b] \subseteq commits'[b]
          /\ x.branch \in DOMAIN commits /\ dirty[x] \subseteq commits'[x.branch]
      BY <1>b DEF CommitAll, Grounded
    <2> QED
      BY <1>b, <2>1 DEF NothingLost
  <1>1. ASSUME NEW r \in Requests, AddNew(r) PROVE NothingLost'
    <2>1. op[r].path \notin DOMAIN dirty
      BY <1>1 DEF AddNew, CheckedOut
    <2> QED
      BY <1>1, <1>a, <2>1 DEF AddNew, WithBranch, WithCheckout
  <1>2. ASSUME NEW r \in Requests, AddOld(r) PROVE NothingLost'
    <2>1. op[r].path \notin DOMAIN dirty
      BY <1>2 DEF AddOld, CheckedOut
    <2> QED
      BY <1>2, <1>a, <2>1 DEF AddOld, WithCheckout
  <1>3. ASSUME NEW r \in Requests, CommitWork(r) PROVE NothingLost'
    BY <1>3, <1>b DEF CommitWork
  <1>4. ASSUME NEW s \in sessions, Save(s) PROVE NothingLost'
    BY <1>4, <1>b DEF Save
  <1>5. ASSUME NEW r \in Requests, GitMerge(r) PROVE NothingLost'
    BY <1>5, <1>a DEF GitMerge
  <1>6. ASSUME Resolve PROVE NothingLost'
    BY <1>6, <1>a DEF Resolve
  <1>7. ASSUME NEW s \in sessions, NEW f \in Files, Work(s, f) PROVE NothingLost'
    <2>1. PICK c : c = [file |-> f, by |-> s.root]
      OBVIOUS
    <2>2. /\ dirty' = [dirty EXCEPT ![s.root] = @ \cup {c}] /\ done' = done \cup {c} /\ s.root \in DOMAIN dirty
          /\ commits' = commits
      BY <1>7, <2>1 DEF Work
    <2>3. c.by = s.root
      BY <2>1
    <2>4. c.by \in DOMAIN dirty' /\ c \in dirty'[c.by]
      BY <2>2, <2>3
    <2>5. \A x \in DOMAIN dirty : x \in DOMAIN dirty' /\ dirty[x] \subseteq dirty'[x]
      BY <2>2
    <2> QED
      BY <2>2, <2>4, <2>5 DEF NothingLost
  <1>8. ASSUME NEW x \in DOMAIN dirty, RemoveCheckout(x) PROVE NothingLost'
    <2>1. /\ dirty[x] = {} /\ DOMAIN dirty' = DOMAIN dirty \ {x} /\ \A y \in DOMAIN dirty \ {x} : dirty'[y] = dirty[y]
          /\ commits' = commits /\ done' = done
      BY <1>8 DEF RemoveCheckout
    <2> QED
      BY <2>1 DEF NothingLost
  <1>9. ASSUME NEW b \in DOMAIN commits, DeleteBranch(b) PROVE NothingLost'
    <2>1. /\ DOMAIN commits' = DOMAIN commits \ {b} /\ \A c \in DOMAIN commits \ {b} : commits'[c] = commits[c]
          /\ dirty' = dirty /\ \A c \in done' : c \in done /\ c.by.branch # b
      BY <1>9 DEF DeleteBranch
    <2> QED
      BY <2>1 DEF NothingLost
  <1>10. ASSUME UNCHANGED <<commits, dirty, done>> PROVE NothingLost'
    BY <1>10 DEF NothingLost
  <1>11. ASSUME NEW r \in Requests, AddNewFails(r) \/ AddOldFails(r) \/ Open(r) \/ OpenFails(r) \/ GitConflict(r) \/ MergeFails(r)
         PROVE  NothingLost'
    BY <1>10, <1>11 DEF AddNewFails, AddOldFails, Open, OpenFails, GitConflict, MergeFails, git
  <1>12. ASSUME NEW r \in Requests, NEW p \in Projects, NEW name \in Names, Create(r, p, name) PROVE NothingLost'
    BY <1>10, <1>12 DEF Create, git
  <1>13. ASSUME NEW r \in Requests, NEW p \in Projects, CreateInProject(r, p) PROVE NothingLost'
    BY <1>10, <1>13 DEF CreateInProject, git
  <1>14. ASSUME NEW r \in Requests, NEW s \in sessions, PressMerge(r, s) PROVE NothingLost'
    BY <1>10, <1>14 DEF PressMerge, git
  <1>15. ASSUME Restart \/ UNCHANGED vars PROVE NothingLost'
    BY <1>10, <1>15 DEF Restart, vars, git
  <1> QED
    BY <1>1, <1>2, <1>3, <1>4, <1>5, <1>6, <1>7, <1>8, <1>9, <1>11, <1>12, <1>13, <1>14, <1>15 DEF Next

(* Who is not there yet has a number of its own, so nobody works in its checkout. *)
LEMMA OtherRoot ==
    ASSUME TypeOK, Numbered, NEW r \in Requests, Starting(r), NEW s \in sessions
    PROVE  s.root # op[r].path /\ s.root.branch # op[r].path.branch
  BY DEF Numbered, Number

LEMMA UntouchedStep == ASSUME TypeOK, Grounded, Numbered, Untouched, [Next]_vars PROVE Untouched'
  <1>0. op \in [Requests -> Ops]
    BY OpType
  <1>a. ASSUME \A q \in Requests : op'[q].at = "open" /\ Own(op'[q].path.branch) => op'[q] = op[q],
               \A x \in DOMAIN dirty' : x \in DOMAIN dirty /\ (dirty[x] = {} => dirty'[x] = {})
        PROVE  Untouched'
    BY <1>a DEF Untouched
  <1>b. ASSUME NEW r \in Requests, op'[r].at # "open" \/ op'[r] = op[r] \/ ~Own(op'[r].path.branch),
               \A q \in Requests \ {r} : op'[q] = op[q]
        PROVE  \A q \in Requests : op'[q].at = "open" /\ Own(op'[q].path.branch) => op'[q] = op[q]
    BY <1>b
  <1>1. ASSUME NEW r \in Requests, AddNew(r) \/ AddOld(r) PROVE Untouched'
    <2>1. /\ op'[r].path = op[r].path /\ \A q \in Requests \ {r} : op'[q] = op[q]
      BY <1>0, <1>1, ThenOp DEF AddNew, AddOld, Places
    <2>2. dirty' = WithCheckout(op[r].path)
      BY <1>1 DEF AddNew, AddOld
    <2>3. dirty'[op[r].path] = {} /\ \A x \in DOMAIN dirty' : x = op[r].path \/ (x \in DOMAIN dirty /\ dirty'[x] = dirty[x])
      BY <2>2 DEF WithCheckout
    <2>4. ASSUME NEW q \in Requests, op'[q].at = "open", Own(op'[q].path.branch), op'[q].path \in DOMAIN dirty'
          PROVE  dirty'[op'[q].path] = {}
      BY <2>1, <2>3, <2>4 DEF Untouched
    <2> QED
      BY <2>4 DEF Untouched
  <1>2. ASSUME NEW s \in sessions, NEW f \in Files, Work(s, f) PROVE Untouched'
    <2>1. op' = op /\ DOMAIN dirty' = DOMAIN dirty /\ \A x \in DOMAIN dirty \ {s.root} : dirty'[x] = dirty[x]
      BY <1>2 DEF Work
    <2>2. ASSUME NEW q \in Requests, op[q].at = "open", Own(op[q].path.branch), op[q].path \in DOMAIN dirty
          PROVE  dirty'[op[q].path] = {}
      <3>1. s.root # op[q].path
        BY <2>2, OtherRoot DEF Starting
      <3> QED
        BY <2>1, <2>2, <3>1 DEF Untouched
    <2> QED
      BY <2>1, <2>2 DEF Untouched
  <1>3. ASSUME NEW r \in Requests, NEW p \in Projects, NEW name \in Names, Create(r, p, name) PROVE Untouched'
    BY <1>0, <1>3, <1>a, <1>b DEF Create, git, Doing
  <1>4. ASSUME NEW r \in Requests, NEW p \in Projects, CreateInProject(r, p) PROVE Untouched'
    <2>1. op'[r].path = Root(p) /\ ~Own(op'[r].path.branch)
      BY <1>0, <1>4, PathFacts DEF CreateInProject, Doing
    <2> QED
      BY <1>0, <1>4, <1>a, <1>b, <2>1 DEF CreateInProject, git
  <1>5. ASSUME NEW r \in Requests, AddNewFails(r) PROVE Untouched'
    BY <1>0, <1>5, <1>a, <1>b, ThenOp DEF AddNewFails, git, Places
  <1>6. ASSUME NEW r \in Requests, AddOldFails(r) \/ Open(r) \/ OpenFails(r) \/ GitConflict(r) \/ MergeFails(r) PROVE Untouched'
    <2>1. op'[r].at = "idle" /\ \A q \in Requests \ {r} : op'[q] = op[q]
      BY <1>0, <1>6, EndsOp DEF AddOldFails, Open, OpenFails, GitConflict, MergeFails
    <2>2. dirty' = dirty
      BY <1>6 DEF AddOldFails, Open, OpenFails, GitConflict, MergeFails, git
    <2> QED
      BY <1>a, <1>b, <2>1, <2>2
  <1>7. ASSUME NEW r \in Requests, NEW s \in sessions, PressMerge(r, s) PROVE Untouched'
    BY <1>0, <1>7, <1>a, <1>b DEF PressMerge, git, Doing
  <1>8. ASSUME NEW r \in Requests, CommitWork(r) \/ GitMerge(r) PROVE Untouched'
    <2>1. op'[r].at \in {"merge", "merged"} /\ \A q \in Requests \ {r} : op'[q] = op[q]
      BY <1>0, <1>8, ThenOp DEF CommitWork, GitMerge, Places
    <2>2. \A x \in DOMAIN dirty' : x \in DOMAIN dirty /\ (dirty[x] = {} => dirty'[x] = {})
      BY <1>8 DEF CommitWork, GitMerge, CommitAll
    <2> QED
      BY <1>a, <1>b, <2>1, <2>2
  <1>9. ASSUME NEW s \in sessions, Save(s) PROVE Untouched'
    <2>1. \A x \in DOMAIN dirty' : x \in DOMAIN dirty /\ (dirty[x] = {} => dirty'[x] = {})
      BY <1>9 DEF Save, CommitAll
    <2> QED
      BY <1>9, <1>a, <2>1 DEF Save
  <1>10. ASSUME NEW x \in DOMAIN dirty, RemoveCheckout(x) PROVE Untouched'
    BY <1>10, <1>a DEF RemoveCheckout
  <1>11. ASSUME (\E b \in DOMAIN commits : DeleteBranch(b)) \/ Resolve \/ UNCHANGED vars PROVE Untouched'
    BY <1>11, <1>a DEF DeleteBranch, Resolve, vars, git
  <1>12. ASSUME Restart PROVE Untouched'
    <2>1. \A r \in Requests : op'[r].at = "idle"
      BY <1>12, IdleOp DEF Restart
    <2> QED
      BY <2>1 DEF Untouched
  <1> QED
    BY <1>1, <1>2, <1>3, <1>4, <1>5, <1>6, <1>7, <1>8, <1>9, <1>10, <1>11, <1>12 DEF Next

(* What a request that is merging relies on is not taken away by another step. *)
LEMMA HeldKept ==
    ASSUME NEW r \in Requests, Held(r), op'[r] = op[r], sessions \subseteq sessions',
           op[r].path \in DOMAIN dirty' => op[r].path \in DOMAIN dirty,
           op[r].path \in DOMAIN dirty' =>
              commits[op[r].path.branch] \cup dirty[op[r].path] \subseteq commits'[op[r].path.branch] \cup dirty'[op[r].path],
           op[r].path.branch \in DOMAIN commits' => op[r].path.branch \in DOMAIN commits,
           op[r].path.branch \in DOMAIN commits' => commits[op[r].path.branch] \subseteq commits'[op[r].path.branch],
           commits[HeadOf(Main)] \subseteq commits'[HeadOf(Main)]
    PROVE  Held(r)'
  BY DEF Held

LEMMA HeldIdle == ASSUME NEW r \in Requests, op'[r].at \notin {"commit", "merge", "merged"} PROVE Held(r)'
  BY DEF Held

LEMMA HeldStep ==
    ASSUME TypeOK, Grounded, Numbered, \A q \in Requests : Held(q), [Next]_vars, NEW r \in Requests
    PROVE  Held(r)'
  <1>0. op \in [Requests -> Ops] /\ HeadOf(Main) \in DOMAIN commits
    BY OpType, WorktreesAssumption DEF Grounded, HeadOf
  <1>h. Held(r)
    OBVIOUS
  <1> DEFINE x == op[r].path
  <1>d. ASSUME op'[r] = op[r], sessions \subseteq sessions', UNCHANGED git PROVE Held(r)'
    BY <1>d, <1>h, HeldKept DEF git
  <1>e. ASSUME NEW q \in Requests, AddNew(q) \/ AddOld(q), op[r].at \in {"commit", "merge"}
        PROVE  x.branch # op[q].path.branch /\ x # op[q].path
    <2>1. PICK s \in sessions : s.root = x /\ Own(s.root.branch)
      BY <1>e, <1>h DEF Held
    <2>2. CASE Own(op[q].path.branch)
      <3>1. Starting(q)
        BY <1>e, <2>2 DEF AddNew, AddOld, Starting
      <3> QED
        BY <2>1, <3>1, OtherRoot
    <2>3. CASE ~Own(op[q].path.branch)
      BY <2>1, <2>3
    <2> QED
      BY <2>2, <2>3
  <1>1. ASSUME NEW q \in Requests, AddNew(q) \/ AddOld(q) PROVE Held(r)'
    <2>1. /\ \A w \in Requests \ {q} : op'[w] = op[w]
          /\ op'[q].at = "open"
      BY <1>0, <1>1, ThenOp DEF AddNew, AddOld, Places
    <2>2. CASE op'[r].at \notin {"commit", "merge", "merged"}
      BY <2>2, HeldIdle
    <2>3. CASE op'[r].at = "merged"
      <3>1. op'[r] = op[r] /\ op[r].at = "merged"
        BY <2>1, <2>3
      <3>2. commits'[HeadOf(Main)] = commits[HeadOf(Main)]
        BY <1>0, <1>1 DEF AddNew, AddOld, WithBranch
      <3> QED
        BY <1>h, <2>3, <3>1, <3>2 DEF Held
    <2>4. CASE op'[r].at \in {"commit", "merge"}
      <3>1. op'[r] = op[r] /\ op[r].at \in {"commit", "merge"}
        BY <2>1, <2>4
      <3>2. x.branch # op[q].path.branch /\ x # op[q].path
        BY <1>1, <1>e, <3>1
      <3>3. /\ x \in DOMAIN dirty' => x \in DOMAIN dirty /\ dirty'[x] = dirty[x]
            /\ sessions' = sessions
        BY <1>1, <3>2 DEF AddNew, AddOld, WithCheckout, store
      <3>4. /\ x.branch \in DOMAIN commits' => x.branch \in DOMAIN commits
            /\ x.branch \in DOMAIN commits => commits'[x.branch] = commits[x.branch]
            /\ commits'[HeadOf(Main)] = commits[HeadOf(Main)]
        BY <1>0, <1>1, <3>2 DEF AddNew, AddOld, WithBranch
      <3>5. x \in DOMAIN dirty => x.branch \in DOMAIN commits
        BY DEF Grounded
      <3> QED
        BY <1>h, <3>1, <3>3, <3>4, <3>5, HeldKept
    <2> QED
      BY <2>2, <2>3, <2>4
  <1>2. ASSUME NEW q \in Requests, AddOldFails(q) \/ OpenFails(q) \/ GitConflict(q) \/ MergeFails(q) \/ AddNewFails(q) \/ Open(q)
        PROVE  Held(r)'
    <2>1. /\ \A w \in Requests \ {q} : op'[w] = op[w]
          /\ op'[q].at \in {"idle", "retry"}
      BY <1>0, <1>2, ThenOp, EndsOp DEF AddOldFails, OpenFails, GitConflict, MergeFails, AddNewFails, Open, Places
    <2>2. sessions \subseteq sessions' /\ commits' = commits /\ dirty' = dirty
      BY <1>2 DEF AddOldFails, OpenFails, GitConflict, MergeFails, AddNewFails, Open, git, store
    <2>3. CASE r = q
      BY <2>1, <2>3, HeldIdle
    <2>4. CASE r # q
      BY <1>h, <2>1, <2>2, <2>4, HeldKept
    <2> QED
      BY <2>3, <2>4
  <1>3. ASSUME NEW q \in Requests, NEW p \in Projects, (\E name \in Names : Create(q, p, name)) \/ CreateInProject(q, p) PROVE Held(r)'
    <2>1. /\ \A w \in Requests \ {q} : op'[w] = op[w]
          /\ op'[q].at \in {"add", "open"}
      <3>1. ASSUME NEW name \in Names, Create(q, p, name)
            PROVE  (\A w \in Requests \ {q} : op'[w] = op[w]) /\ op'[q].at = "add"
        BY <1>0, <3>1 DEF Create, Doing
      <3>2. ASSUME CreateInProject(q, p)
            PROVE  (\A w \in Requests \ {q} : op'[w] = op[w]) /\ op'[q].at = "open"
        BY <1>0, <3>2 DEF CreateInProject, Doing
      <3> QED
        BY <1>3, <3>1, <3>2
    <2>2. sessions' = sessions /\ UNCHANGED git
      BY <1>3 DEF Create, CreateInProject, store
    <2>3. CASE r = q
      BY <2>1, <2>3, HeldIdle
    <2>4. CASE r # q
      BY <1>d, <2>1, <2>2, <2>4
    <2> QED
      BY <2>3, <2>4
  <1>4. ASSUME NEW q \in Requests, NEW s \in sessions, PressMerge(q, s) PROVE Held(r)'
    <2>1. /\ \A w \in Requests \ {q} : op'[w] = op[w]
          /\ op'[q] = Doing("commit", s.root, commits[s.root.branch] \cup dirty[s.root])
          /\ UNCHANGED git /\ sessions' = sessions /\ Own(s.root.branch)
      BY <1>0, <1>4 DEF PressMerge, store
    <2>2. CASE r = q
      BY <2>1, <2>2 DEF Held, Doing, git
    <2>3. CASE r # q
      BY <1>d, <2>1, <2>3
    <2> QED
      BY <2>2, <2>3
  <1>5. ASSUME NEW y \in DOMAIN dirty, CommitAll(y)
        PROVE  /\ DOMAIN dirty' = DOMAIN dirty /\ DOMAIN commits' = DOMAIN commits
               /\ \A b \in DOMAIN commits : commits[b] \subseteq commits'[b]
               /\ \A z \in DOMAIN dirty : commits[z.branch] \cup dirty[z] \subseteq commits'[z.branch] \cup dirty'[z]
               /\ commits[y.branch] \cup dirty[y] \subseteq commits'[y.branch]
    <2>1. DOMAIN dirty' = DOMAIN dirty /\ DOMAIN commits' = DOMAIN commits /\ y.branch \in DOMAIN commits
      BY <1>5 DEF CommitAll, Grounded
    <2>2. \A b \in DOMAIN commits : commits[b] \subseteq commits'[b]
      BY <1>5 DEF CommitAll
    <2>3. commits[y.branch] \cup dirty[y] \subseteq commits'[y.branch]
      BY <1>5, <2>1 DEF CommitAll
    <2>4. \A z \in DOMAIN dirty \ {y} : dirty'[z] = dirty[z]
      BY <1>5 DEF CommitAll
    <2>5. \A z \in DOMAIN dirty : z.branch \in DOMAIN commits
      BY DEF Grounded
    <2> QED
      BY <2>1, <2>2, <2>3, <2>4, <2>5
  <1>6. ASSUME NEW q \in Requests, CommitWork(q) PROVE Held(r)'
    <2>1. /\ \A w \in Requests \ {q} : op'[w] = op[w]
          /\ op'[q].at = "merge" /\ op'[q].path = op[q].path /\ op'[q].work = op[q].work
      BY <1>0, <1>6, ThenOp DEF CommitWork, Places
    <2>2. op[q].at = "commit" /\ op[q].path \in DOMAIN dirty /\ CommitAll(op[q].path) /\ sessions' = sessions
      BY <1>6 DEF CommitWork, store
    <2>3. CASE r = q
      BY <1>5, <1>h, <2>1, <2>2, <2>3 DEF Held
    <2>4. CASE r # q
      BY <1>0, <1>5, <1>h, <2>1, <2>2, <2>4, HeldKept
    <2> QED
      BY <2>3, <2>4
  <1>7. ASSUME NEW s \in sessions, Save(s) PROVE Held(r)'
    <2>1. s.root \in DOMAIN dirty /\ CommitAll(s.root) /\ sessions' = sessions /\ op' = op
      BY <1>7 DEF Save, store
    <2> QED
      BY <1>0, <1>5, <1>h, <2>1, HeldKept
  <1>8. ASSUME NEW q \in Requests, GitMerge(q) PROVE Held(r)'
    <2>1. /\ \A w \in Requests \ {q} : op'[w] = op[w]
          /\ op'[q].at = "merged" /\ op'[q].path = op[q].path /\ op'[q].work = op[q].work
      BY <1>0, <1>8, ThenOp DEF GitMerge, Places
    <2>2. /\ op[q].at = "merge" /\ op[q].path.branch \in DOMAIN commits /\ sessions' = sessions /\ dirty' = dirty
          /\ DOMAIN commits' = DOMAIN commits /\ \A b \in DOMAIN commits : commits[b] \subseteq commits'[b]
          /\ commits[op[q].path.branch] \subseteq commits'[HeadOf(Main)]
      BY <1>0, <1>8 DEF GitMerge, Mergeable, Theirs, store
    <2>3. CASE r = q
      BY <1>h, <2>1, <2>2, <2>3 DEF Held
    <2>4. CASE r # q
      <3>1. x \in DOMAIN dirty => x.branch \in DOMAIN commits
        BY DEF Grounded
      <3> QED
        BY <1>0, <1>h, <2>1, <2>2, <2>4, <3>1, HeldKept
    <2> QED
      BY <2>3, <2>4
  <1>9. ASSUME NEW s \in sessions, NEW f \in Files, Work(s, f) PROVE Held(r)'
    <2>1. op' = op /\ sessions' = sessions /\ commits' = commits /\ DOMAIN dirty' = DOMAIN dirty
          /\ \A y \in DOMAIN dirty : dirty[y] \subseteq dirty'[y]
      BY <1>9 DEF Work, store
    <2> QED
      BY <1>h, <2>1, HeldKept
  <1>10. ASSUME NEW y \in DOMAIN dirty, RemoveCheckout(y) PROVE Held(r)'
    <2>1. op' = op /\ sessions' = sessions /\ commits' = commits /\ DOMAIN dirty' = DOMAIN dirty \ {y}
          /\ \A z \in DOMAIN dirty \ {y} : dirty'[z] = dirty[z]
      BY <1>10 DEF RemoveCheckout, store
    <2> QED
      BY <1>h, <2>1, HeldKept
  <1>11. ASSUME NEW b \in DOMAIN commits, DeleteBranch(b) PROVE Held(r)'
    <2>1. /\ op' = op /\ sessions' = sessions /\ dirty' = dirty /\ DOMAIN commits' = DOMAIN commits \ {b}
          /\ \A c \in DOMAIN commits \ {b} : commits'[c] = commits[c]
          /\ b # HeadOf(Main) /\ \A y \in DOMAIN dirty : y.branch # b
      BY <1>11 DEF DeleteBranch, store, CheckedOut, HeadOf, Own
    <2>2. x \in DOMAIN dirty => x.branch \in DOMAIN commits \ {b}
      BY <2>1 DEF Grounded
    <2> QED
      BY <1>0, <1>h, <2>1, <2>2, HeldKept
  <1>12. ASSUME Resolve PROVE Held(r)'
    <2>1. /\ op' = op /\ sessions' = sessions /\ dirty' = dirty /\ DOMAIN commits' = DOMAIN commits
          /\ \A b \in DOMAIN commits : commits[b] \subseteq commits'[b]
      BY <1>12 DEF Resolve, store
    <2>2. x \in DOMAIN dirty => x.branch \in DOMAIN commits
      BY DEF Grounded
    <2> QED
      BY <1>0, <1>h, <2>1, <2>2, HeldKept
  <1>13. ASSUME Restart PROVE Held(r)'
    BY <1>13, IdleOp, HeldIdle DEF Restart
  <1>14. ASSUME UNCHANGED vars PROVE Held(r)'
    BY <1>14, <1>d DEF vars, store
  <1> QED
    BY <1>1, <1>2, <1>3, <1>4, <1>6, <1>7, <1>8, <1>9, <1>10, <1>11, <1>12, <1>13, <1>14 DEF Next

(* ------------------------------ the theorems ---------------------------- *)

LEMMA InvInit == Init => Inv
  <1> SUFFICES ASSUME Init PROVE Inv
    OBVIOUS
  <1>1. TypeOK
    BY TypeInit
  <1>2. Grounded
    <2>1. DOMAIN commits = Projects \X {0} /\ DOMAIN dirty = {Root(p) : p \in Projects}
      BY DEF Init
    <2>2. ASSUME NEW p \in Projects PROVE Root(p).branch \in Projects \X {0}
      <3>1. Root(p).branch = <<p, 0>>
        BY DEF Root, At, HeadOf
      <3> QED
        BY <3>1
    <2> QED
      BY <2>1, <2>2 DEF Grounded
  <1>3. \A r \in Requests : op[r].at = "idle"
    BY IdleOp DEF Init
  <1>4. sessions = {} /\ done = {}
    BY DEF Init
  <1>5. Numbered
    BY <1>3, <1>4 DEF Numbered, Starting
  <1>6. Untouched
    BY <1>3 DEF Untouched
  <1>7. NothingLost
    BY <1>4 DEF NothingLost
  <1>8. \A r \in Requests : Held(r)
    BY <1>3 DEF Held
  <1> QED
    BY <1>1, <1>2, <1>5, <1>6, <1>7, <1>8 DEF Inv

LEMMA InvStep == Inv /\ [Next]_vars => Inv'
  <1> SUFFICES ASSUME Inv, [Next]_vars PROVE Inv'
    OBVIOUS
  <1>1. TypeOK /\ Grounded /\ Numbered /\ Untouched /\ NothingLost /\ \A r \in Requests : Held(r)
    BY DEF Inv
  <1>2. TypeOK' /\ Grounded' /\ Numbered' /\ Untouched' /\ NothingLost'
    BY <1>1, TypeStep, GroundedStep, NumberedStep, UntouchedStep, LostStep
  <1>3. \A r \in Requests : Held(r)'
    BY <1>1, HeldStep
  <1> QED
    BY <1>2, <1>3 DEF Inv

LEMMA Invariant == Spec => []Inv
  BY InvInit, InvStep, PTL DEF Spec

(* Every variable of the store, of git and of the requests keeps its type. *)
THEOREM WorktreesTypeCorrect == Spec => []TypeOK
  <1>1. Inv => TypeOK
    BY DEF Inv
  <1> QED
    BY <1>1, Invariant, PTL

(* No two sessions have one id, and none shares its worktree or its branch, whatever *)
(* starts cross, fail half way or find checkouts of an earlier console (start).      *)
THEOREM WorktreesAreApart == Spec => []SessionsApart
  <1>1. Inv => SessionsApart
    BY DEF Inv, Numbered, Number, SessionsApart
  <1> QED
    BY <1>1, Invariant, PTL

(* A session never starts amid what somebody left uncommitted in its checkout (addWorktree). *)
THEOREM WorktreesStartClean == Spec => StartsClean
  <1>1. Inv /\ [Next]_vars => [\A s \in sessions' \ sessions : Own(s.root.branch) => dirty[s.root] = {}]_vars
    <2> SUFFICES ASSUME Inv, Next, NEW s \in sessions' \ sessions, Own(s.root.branch) PROVE dirty[s.root] = {}
      BY DEF vars, store
    <2>1. PICK r \in Requests : Open(r)
      BY DEF Next, Create, CreateInProject, AddNew, AddNewFails, AddOld, AddOldFails, OpenFails, PressMerge, CommitWork,
             GitMerge, GitConflict, MergeFails, Save, Work, RemoveCheckout, DeleteBranch, Resolve, Restart, store
    <2>2. s.root = op[r].path /\ op[r].at = "open" /\ op[r].path \in DOMAIN dirty
      BY <2>1 DEF Open
    <2> QED
      BY <2>2 DEF Inv, Untouched
  <1> QED
    BY <1>1, Invariant, PTL DEF Spec, StartsClean

(* No step of the console loses work: neither a merge that fails half way, nor a        *)
(* restart, nor a session that is given the name of an earlier one; and when the console *)
(* says that a session was merged, all it had when Merge was pressed is in the main      *)
(* checkout, whoever else works, merges or cleans up meanwhile (start, mergeInto).       *)
THEOREM WorkIsKept == Spec => []WorkKept
  <1>1. Inv => NothingLost
    BY DEF Inv
  <1>2. Inv => MergedIsIn
    BY DEF Inv, Held, MergedIsIn
  <1>3. Inv => WorkKept
    BY <1>1, <1>2 DEF WorkKept
  <1> QED
    BY <1>3, Invariant, PTL
=============================================================================
